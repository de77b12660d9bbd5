------------------------------- MODULE Quota -------------------------------
(***************************************************************************)
(* The free tier: every router counts the jobs of a wallet per UTC hour and*)
(* day (compute/src/free_tier.rs) and gossips what it has counted to the   *)
(* others, which add it to their own counters (router/src/quota_gossip.rs).*)
(*                                                                         *)
(* Nothing of this is persisted: a restarted router starts over, its       *)
(* emitter's nonces included.  The gossip mesh is external: it may lose,   *)
(* delay, reorder and repeat a tick, and never delivers it to its emitter. *)
(* Time is a count of ticks of the wall clock all routers share.           *)
(***************************************************************************)
EXTENDS Integers, Sequences, FiniteSets, SequencesExt, FiniteSetsExt

CONSTANTS Router,       \* routers
          Wallet,       \* billing addresses
          HourTicks,    \* ticks of the clock in an hour
          DayHours,     \* hours in a day
          HourlyLimit,  \* FreeTierConfig
          DailyLimit,
          NonceCap,     \* capacity of RecentNonces
          MaxNow,       \* bound: the last tick of the clock
          MaxRestarts,  \* bound: restarts of all routers
          MaxAbsorbed,  \* bound: ticks a router absorbs in a life
          None

ASSUME QuotaAssumption ==
  /\ IsFiniteSet(Router) /\ IsFiniteSet(Wallet)
  /\ {HourTicks, DayHours, NonceCap} \subseteq Nat \ {0}
  /\ {HourlyLimit, DailyLimit, MaxNow, MaxRestarts, MaxAbsorbed} \subseteq Nat
  /\ None \notin [hour : Nat, day : Nat, count : Nat]

VARIABLES
  now,        \* the clock
  hourly,     \* router -> (wallet, hour) -> jobs it knows of
  daily,      \* router -> (wallet, day) -> jobs it knows of
  due,        \* router -> wallet -> jobs admitted whose record is still to be made
  pending,    \* router -> wallet -> jobs not gossiped yet, or None
  next_nonce, \* router -> nonce of its emitter's next tick
  recent,     \* router -> RecentNonces, oldest first
  ticks,      \* ticks on the mesh
  restarts,   \* restarts so far
  admitted,   \* history: router -> (wallet, hour) -> jobs admitted since its start
  charged,    \* history: wallet -> jobs admitted by any router ever
  absorbed    \* history: router -> ticks absorbed since its start

quota == <<hourly, daily, due, pending, next_nonce, recent, ticks, admitted, charged, absorbed>>

-----------------------------------------------------------------------------
(* Buckets *)

HourOf(t) == t \div HourTicks

DayOf(t) == t \div (HourTicks * DayHours)

Hour == 0..HourOf(MaxNow)

Day == 0..DayOf(MaxNow)

\* Faulty variant: only the hourly cap is looked at.
CheckHourOnly(r, w, t) ==
  IF hourly[r][<<w, HourOf(t)>>] >= HourlyLimit THEN "HourlyExceeded" ELSE "Allowed"

\* QuotaOutcome of check: the hourly cap is looked at first.
Check(r, w, t) ==
  IF hourly[r][<<w, HourOf(t)>>] >= HourlyLimit THEN "HourlyExceeded"
  ELSE IF daily[r][<<w, DayOf(t)>>] >= DailyLimit THEN "DailyExceeded"
  ELSE "Allowed"

-----------------------------------------------------------------------------
(* PendingConsumption and its ticks *)

NoConsumption == [w \in Wallet |-> None]

\* record: a record that is still pending moves to the buckets of the new job.
Recorded(r, w, t) ==
  LET count == IF pending[r][w] = None THEN 0 ELSE pending[r][w].count
  IN [hour |-> HourOf(t), day |-> DayOf(t), count |-> count + 1]

Consumers(r) == {w \in Wallet : pending[r][w] # None}

\* The drained record of a wallet as a FreeTierTick.  The two counts of a tick
\* are always equal.
Tick(r, w, nonce) ==
  [wallet |-> w, hour |-> pending[r][w].hour, day |-> pending[r][w].day,
   count |-> pending[r][w].count, nonce |-> nonce, from |-> r, life |-> restarts]

\* The map is drained in no particular order.
Orders(ws) == {s \in [1..Cardinality(ws) -> ws] : IsInjective(s)}

\* Faulty variant: the drained records stay.
PendingAfterKept(r) == pending[r]

PendingAfter(r) == NoConsumption

-----------------------------------------------------------------------------
(* Steps *)

\* FreeTierTracker::consume of an allowed job.
Charge(r, w, t) ==
  /\ hourly' = [hourly EXCEPT ![r][<<w, HourOf(t)>>] = @ + 1]
  /\ daily' = [daily EXCEPT ![r][<<w, DayOf(t)>>] = @ + 1]
  /\ due' = [due EXCEPT ![r][w] = @ + 1]
  /\ admitted' = [admitted EXCEPT ![r][<<w, HourOf(t)>>] = @ + 1]
  /\ charged' = [charged EXCEPT ![w] = @ + 1]
  /\ UNCHANGED <<pending, next_nonce, recent, ticks, absorbed>>

\* The record of an admitted job for the gossip.  Router::accept does not make
\* it and no other code does: it is external, made once for an admitted job, at
\* any later time or never.
Record(r, w) ==
  /\ due[r][w] > 0
  /\ due' = [due EXCEPT ![r][w] = @ - 1]
  /\ pending' = [pending EXCEPT ![r][w] = Recorded(r, w, now)]
  /\ UNCHANGED <<hourly, daily, next_nonce, recent, ticks, admitted, charged, absorbed>>

\* One heartbeat of run_emitter: one tick per wallet with consecutive nonces.
\* A publish that fails is a tick nobody receives.
Emit(r) ==
  \E order \in Orders(Consumers(r)) :
    /\ order # <<>>
    /\ ticks' = ticks \cup {Tick(r, order[i], next_nonce[r] + i - 1) : i \in DOMAIN order}
    /\ next_nonce' = [next_nonce EXCEPT ![r] = @ + Len(order)]
    /\ pending' = [pending EXCEPT ![r] = PendingAfter(r)]
    /\ UNCHANGED <<hourly, daily, due, recent, admitted, charged, absorbed>>

\* Faulty variant: no tick is taken for a duplicate.
IsDuplicateNever(r, t) == FALSE

\* RecentNonces knows a tick by wallet and nonce alone.
IsDuplicate(r, t) == <<t.wallet, t.nonce>> \in ToSet(recent[r])

\* RecentNonces::insert at its cap forgets the oldest entry.
Kept(seen) == IF Len(seen) >= NonceCap THEN Tail(seen) ELSE seen

\* absorb_tick_bytes: a duplicate changes nothing, also when the other tick of
\* that nonce came from another router or from before a restart.
Absorb(r, t) ==
  /\ t.from # r /\ Len(absorbed[r]) < MaxAbsorbed
  /\ ~IsDuplicate(r, t)
  /\ recent' = [recent EXCEPT ![r] = Append(Kept(@), <<t.wallet, t.nonce>>)]
  /\ hourly' = [hourly EXCEPT ![r][<<t.wallet, t.hour>>] = @ + t.count]
  /\ daily' = [daily EXCEPT ![r][<<t.wallet, t.day>>] = @ + t.count]
  /\ absorbed' = [absorbed EXCEPT ![r] = Append(@, t)]
  /\ UNCHANGED <<due, pending, next_nonce, ticks, admitted, charged>>

\* FreeTierTracker::prune keeps the current and the previous hour and day.
Cutoff(bucket) == IF bucket = 0 THEN 0 ELSE bucket - 1

Prune(r) ==
  /\ hourly' = [hourly EXCEPT ![r] = [k \in DOMAIN @ |-> IF k[2] >= Cutoff(HourOf(now)) THEN @[k] ELSE 0]]
  /\ daily' = [daily EXCEPT ![r] = [k \in DOMAIN @ |-> IF k[2] >= Cutoff(DayOf(now)) THEN @[k] ELSE 0]]
  /\ hourly' # hourly \/ daily' # daily
  /\ UNCHANGED <<due, pending, next_nonce, recent, ticks, admitted, charged, absorbed>>

\* What a router starts with.
FreshHours == [k \in Wallet \X Hour |-> 0]

FreshDays == [k \in Wallet \X Day |-> 0]

NothingDue == [w \in Wallet |-> 0]

\* A restart loses everything but what is on the mesh.
QuotaRestart(r) ==
  /\ hourly' = [hourly EXCEPT ![r] = FreshHours]
  /\ daily' = [daily EXCEPT ![r] = FreshDays]
  /\ due' = [due EXCEPT ![r] = NothingDue]
  /\ pending' = [pending EXCEPT ![r] = NoConsumption]
  /\ next_nonce' = [next_nonce EXCEPT ![r] = 0]
  /\ recent' = [recent EXCEPT ![r] = <<>>]
  /\ admitted' = [admitted EXCEPT ![r] = FreshHours]
  /\ absorbed' = [absorbed EXCEPT ![r] = <<>>]
  /\ UNCHANGED <<ticks, charged>>

QuotaInit ==
  /\ hourly = [r \in Router |-> FreshHours]
  /\ daily = [r \in Router |-> FreshDays]
  /\ due = [r \in Router |-> NothingDue]
  /\ pending = [r \in Router |-> NoConsumption]
  /\ next_nonce = [r \in Router |-> 0]
  /\ recent = [r \in Router |-> <<>>]
  /\ ticks = {}
  /\ admitted = [r \in Router |-> FreshHours]
  /\ charged = [w \in Wallet |-> 0]
  /\ absorbed = [r \in Router |-> <<>>]

QuotaStep(r) ==
  /\ \/ \E w \in Wallet : Record(r, w)
     \/ Emit(r)
     \/ \E t \in ticks : Absorb(r, t)
     \/ Prune(r)
  /\ UNCHANGED <<now, restarts>>

-----------------------------------------------------------------------------
(* Properties *)

QuotaTypeOK ==
  /\ \A r \in Router : /\ hourly[r] \in [Wallet \X Hour -> Nat]
                       /\ daily[r] \in [Wallet \X Day -> Nat]
                       /\ Len(recent[r]) <= NonceCap
                       /\ next_nonce[r] \in Nat
                       /\ \A w \in Consumers(r) :
                            pending[r][w] \in [hour : Hour, day : Day, count : Nat \ {0}]

\* What is counted of a wallet over some hours, or over some days.
Counted(counts, w, buckets) == SumFunctionOnSet([b \in buckets |-> counts[<<w, b>>]], buckets)

OfDay(r, w, d) == Counted(admitted[r], w, {h \in Hour : h \div DayHours = d})

\* Since its start a router has admitted no wallet beyond its hourly and its
\* daily limit, whatever ticks it absorbed and whenever it pruned.
LimitsHeld ==
  \A r \in Router, w \in Wallet :
    /\ \A h \in Hour : admitted[r][<<w, h>>] <= HourlyLimit
    /\ \A d \in Day : OfDay(r, w, d) <= DailyLimit

\* No router charges a wallet for more jobs than the routers have admitted
\* together: no job is counted twice, by repeated ticks, by a record that
\* crosses an hour, or by a drain.  The exception is a router whose replay
\* cache has had to forget ticks.
NotOvercharged ==
  \A r \in Router, w \in Wallet :
    Len(absorbed[r]) <= NonceCap =>
      /\ Counted(hourly[r], w, Hour) <= charged[w]
      /\ Counted(daily[r], w, Day) <= charged[w]

=============================================================================
