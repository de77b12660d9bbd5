---------------------------- MODULE IntakeProofs ----------------------------
(***************************************************************************)
(* What the router's intake keeps, for any number of routers, wallets,     *)
(* requests and nodes and any limits: the free tier's books (ChargesSound),*)
(* the candidates a request is sent to (SentWhereOffered) and the circuit  *)
(* breaker (StoppedByBreaker).                                             *)
(***************************************************************************)
EXTENDS Intake, FoldTheorems, SequenceTheorems

-----------------------------------------------------------------------------
(* The clock *)

\* A tick of the clock has an hour and a day, the day is that of the hour, and
\* the next tick is at most an hour and a day later (hour_bucket and day_bucket).
LEMMA Buckets ==
  /\ \A t \in 0..MaxNow : HourOf(t) \in Hour /\ DayOf(t) \in Day
  /\ \A t \in Nat : HourOf(t) \in Nat /\ DayOf(t) \in Nat
  /\ \A t \in Nat : HourOf(t) \div DayHours = DayOf(t)
  /\ \A t \in Nat : HourOf(t) <= HourOf(t + 1) /\ HourOf(t + 1) <= HourOf(t) + 1
  /\ \A t \in Nat : DayOf(t) <= DayOf(t + 1) /\ DayOf(t + 1) <= DayOf(t) + 1
<1>1. /\ HourTicks \in Nat \ {0} /\ DayHours \in Nat \ {0} /\ MaxNow \in Nat
      /\ HourTicks * DayHours \in Nat \ {0}
  BY QuotaAssumption
<1>2. ASSUME NEW b \in Nat \ {0}
      PROVE  /\ \A t \in Nat : t \div b \in Nat
             /\ \A s, t \in Nat : s <= t => s \div b <= t \div b
             /\ \A t \in Nat : (t + 1) \div b <= (t \div b) + 1
  <2>1. \A t \in Nat : t \div b \in Nat
    OBVIOUS
  <2>2. \A s, t \in Nat : s <= t => s \div b <= t \div b
    OBVIOUS
  <2>3. ASSUME NEW t \in Nat PROVE (t + 1) \div b <= (t \div b) + 1
    <3>1. t + 1 <= t + b /\ (t + b) \div b = (t \div b) + 1
      OBVIOUS
    <3> QED BY <2>2, <3>1
  <2> QED BY <2>1, <2>2, <2>3
<1>3. ASSUME NEW t \in Nat PROVE (t \div HourTicks) \div DayHours = t \div (HourTicks * DayHours)
  BY <1>1
<1>4. \A t \in 0..MaxNow : t \in Nat /\ t <= MaxNow
  BY <1>1
<1>5. \A t \in 0..MaxNow : HourOf(t) \in Hour /\ DayOf(t) \in Day
  <2>1. ASSUME NEW t \in 0..MaxNow PROVE HourOf(t) \in Hour
    <3>1. t \div HourTicks \in Nat /\ MaxNow \div HourTicks \in Nat /\ t \div HourTicks <= MaxNow \div HourTicks
      BY <1>1, <1>2, <1>4
    <3> QED BY <3>1 DEF HourOf, Hour
  <2>2. ASSUME NEW t \in 0..MaxNow PROVE DayOf(t) \in Day
    <3> DEFINE b == HourTicks * DayHours
    <3>1. b \in Nat \ {0}
      BY <1>1
    <3> HIDE DEF b
    <3>2. t \div b \in Nat /\ MaxNow \div b \in Nat /\ t \div b <= MaxNow \div b
      BY <1>1, <1>2, <1>4, <3>1
    <3> QED BY <3>2 DEF DayOf, Day, b
  <2> QED BY <2>1, <2>2
<1>6. ASSUME NEW t \in Nat
      PROVE  /\ HourOf(t) \in Nat /\ HourOf(t) <= HourOf(t + 1) /\ HourOf(t + 1) <= HourOf(t) + 1
             /\ DayOf(t) \in Nat /\ DayOf(t) <= DayOf(t + 1) /\ DayOf(t + 1) <= DayOf(t) + 1
  <2> DEFINE b == HourTicks * DayHours
  <2>1. b \in Nat \ {0}
    BY <1>1
  <2> HIDE DEF b
  <2>2. t + 1 \in Nat /\ t <= t + 1
    OBVIOUS
  <2> QED BY <1>1, <1>2, <2>1, <2>2 DEF HourOf, DayOf, b
<1>7. \A t \in Nat : HourOf(t) \div DayHours = DayOf(t)
  BY <1>3 DEF HourOf, DayOf
<1> QED BY <1>5, <1>6, <1>7

-----------------------------------------------------------------------------
(* Types *)

Consumption == [hour : Hour, day : Day, count : Nat \ {0}]

FreeTierTick ==
  [wallet : Wallet, hour : Hour, day : Day, count : Nat, nonce : Nat, from : Router, life : Nat]

QuotaTyped ==
  /\ hourly \in [Router -> [Wallet \X Hour -> Nat]]
  /\ daily \in [Router -> [Wallet \X Day -> Nat]]
  /\ pending \in [Router -> [Wallet -> Consumption \cup {None}]]
  /\ due \in [Router -> [Wallet -> Nat]]
  /\ next_nonce \in [Router -> Nat]
  /\ recent \in [Router -> Seq(Wallet \X Nat)]
  /\ \A r \in Router : Len(recent[r]) <= NonceCap
  /\ ticks \subseteq FreeTierTick /\ IsFiniteSet(ticks)
  /\ admitted \in [Router -> [Wallet \X Hour -> Nat]]
  /\ charged \in [Wallet -> Nat]
  /\ absorbed \in [Router -> Seq(FreeTierTick)]

ClockTyped == now \in 0..MaxNow /\ restarts \in 0..MaxRestarts

\* A count of a router goes up.
LEMMA CountUp ==
  ASSUME NEW K, NEW f \in [Router -> [K -> Nat]], NEW r \in Router, NEW k \in K, NEW n \in Nat
  PROVE  /\ [f EXCEPT ![r][k] = @ + n] \in [Router -> [K -> Nat]]
         /\ [f EXCEPT ![r][k] = @ + n][r] = [f[r] EXCEPT ![k] = @ + n]
         /\ \A s \in Router \ {r} : [f EXCEPT ![r][k] = @ + n][s] = f[s]
<1>1. [f[r] EXCEPT ![k] = @ + n] \in [K -> Nat]
  OBVIOUS
<1> QED BY <1>1

\* One router's counter of one key goes up, and no other.
LEMMA CountUpOf ==
  ASSUME NEW K, NEW f \in [Router -> [K -> Nat]], NEW r \in Router, NEW k \in K, NEW n \in Nat,
         NEW g, g = [f EXCEPT ![r][k] = @ + n]
  PROVE  /\ g[r] = [f[r] EXCEPT ![k] = @ + n]
         /\ \A s \in Router \ {r} : g[s] = f[s]
BY CountUp

\* A job of a time up to now is counted in buckets that exist
\* (FreeTierTracker::consume).
LEMMA ChargeTyped ==
  ASSUME QuotaTyped, NEW r \in Router, NEW w \in Wallet, NEW t \in 0..MaxNow, Charge(r, w, t)
  PROVE  QuotaTyped'
<1>1. HourOf(t) \in Hour /\ DayOf(t) \in Day
  BY Buckets
<1>3. hourly' \in [Router -> [Wallet \X Hour -> Nat]] /\ admitted' \in [Router -> [Wallet \X Hour -> Nat]]
  <2> DEFINE k == <<w, HourOf(t)>>
  <2>1. k \in Wallet \X Hour
    BY <1>1
  <2>2. /\ hourly' = [hourly EXCEPT ![r][k] = @ + 1] /\ hourly \in [Router -> [Wallet \X Hour -> Nat]]
        /\ admitted' = [admitted EXCEPT ![r][k] = @ + 1] /\ admitted \in [Router -> [Wallet \X Hour -> Nat]]
    BY DEF Charge, QuotaTyped
  <2> HIDE DEF k
  <2> QED BY <2>1, <2>2, CountUp
<1>4. daily' \in [Router -> [Wallet \X Day -> Nat]]
  <2> DEFINE k == <<w, DayOf(t)>>
  <2>1. k \in Wallet \X Day
    BY <1>1
  <2>2. daily' = [daily EXCEPT ![r][k] = @ + 1] /\ daily \in [Router -> [Wallet \X Day -> Nat]]
    BY DEF Charge, QuotaTyped
  <2> HIDE DEF k
  <2> QED BY <2>1, <2>2, CountUp
<1>5. due' \in [Router -> [Wallet -> Nat]]
  <2>1. due' = [due EXCEPT ![r][w] = @ + 1] /\ due \in [Router -> [Wallet -> Nat]]
    BY DEF Charge, QuotaTyped
  <2> QED BY <2>1, CountUp
<1>6. charged' \in [Wallet -> Nat]
  BY DEF Charge, QuotaTyped
<1> QED BY <1>3, <1>4, <1>5, <1>6 DEF Charge, QuotaTyped

\* A record counts at least one job, in buckets that exist
\* (PendingConsumption::record).
LEMMA RecordTyped ==
  ASSUME QuotaTyped, ClockTyped, NEW r \in Router, NEW w \in Wallet, Record(r, w)
  PROVE  QuotaTyped'
<1>1. HourOf(now) \in Hour /\ DayOf(now) \in Day
  BY Buckets DEF ClockTyped
<1>2. Recorded(r, w, now) \in Consumption
  <2>1. pending[r][w] = None \/ pending[r][w] \in Consumption
    BY DEF QuotaTyped
  <2> QED BY <1>1, <2>1 DEF Recorded, Consumption
<1>3. pending' \in [Router -> [Wallet -> Consumption \cup {None}]]
  BY <1>2 DEF Record, QuotaTyped
<1>4. due' \in [Router -> [Wallet -> Nat]]
  <2>1. due[r][w] \in Nat /\ due[r][w] > 0 /\ due' = [due EXCEPT ![r][w] = @ - 1]
    BY DEF Record, QuotaTyped
  <2>2. due[r][w] - 1 \in Nat
    BY <2>1
  <2> QED BY <2>1, <2>2 DEF QuotaTyped
<1> QED BY <1>3, <1>4 DEF Record, QuotaTyped

\* The records of a router as ticks (run_emitter).
Emitted(r, order) == {Tick(r, order[i], next_nonce[r] + i - 1) : i \in DOMAIN order}

\* The order a router's records are drained in lists wallets that have one.
LEMMA Drained ==
  ASSUME QuotaTyped, ClockTyped, NEW r \in Router, NEW order \in Orders(Consumers(r))
  PROVE  /\ DOMAIN order = 1..Len(order) /\ Len(order) = Cardinality(Consumers(r)) /\ Len(order) \in Nat
         /\ \A i \in DOMAIN order : order[i] \in Wallet /\ pending[r][order[i]] \in Consumption
         /\ IsFiniteSet(Emitted(r, order)) /\ Emitted(r, order) \subseteq FreeTierTick
<1> DEFINE ws == Consumers(r)
           n == Cardinality(ws)
<1>1. ws \subseteq Wallet /\ \A w \in ws : pending[r][w] \in Consumption
  BY DEF Consumers, QuotaTyped
<1>2. n \in Nat
  BY <1>1, QuotaAssumption, FS_Subset, FS_CardinalityType
<1>3. order \in [1..n -> ws]
  BY DEF Orders
<1> HIDE DEF ws, n
<1>4. DOMAIN order = 1..n /\ Len(order) = n
  BY <1>2, <1>3
<1>5. \A i \in DOMAIN order : order[i] \in Wallet /\ pending[r][order[i]] \in Consumption
  BY <1>1, <1>3
<1>6. Emitted(r, order) \subseteq FreeTierTick
  <2> SUFFICES ASSUME NEW i \in 1..n PROVE Tick(r, order[i], next_nonce[r] + i - 1) \in FreeTierTick
    BY <1>4 DEF Emitted
  <2>1. next_nonce[r] + i - 1 \in Nat /\ restarts \in Nat
    BY <1>2, QuotaAssumption DEF QuotaTyped, ClockTyped
  <2>2. order[i] \in Wallet /\ pending[r][order[i]] \in Consumption
    BY <1>4, <1>5
  <2> QED BY <2>1, <2>2 DEF Tick, FreeTierTick, Consumption
<1>7. IsFiniteSet(Emitted(r, order))
  <2> DEFINE f == [i \in 1..n |-> Tick(r, order[i], next_nonce[r] + i - 1)]
  <2>1. f \in Surjection(1..n, Emitted(r, order))
    BY <1>4 DEF Emitted, Surjection
  <2>2. IsFiniteSet(1..n)
    BY <1>2, FS_Interval
  <2> HIDE DEF f
  <2> QED BY <2>1, <2>2, FS_Surjection
<1> QED BY <1>2, <1>4, <1>5, <1>6, <1>7 DEF n, ws

\* A router's tick tells the hour, the day and the count it emits.
LEMMA EmitTyped ==
  ASSUME QuotaTyped, ClockTyped, NEW r \in Router, Emit(r)
  PROVE  QuotaTyped'
<1>1. PICK order \in Orders(Consumers(r)) :
        /\ ticks' = ticks \cup Emitted(r, order)
        /\ next_nonce' = [next_nonce EXCEPT ![r] = @ + Len(order)]
        /\ pending' = [pending EXCEPT ![r] = PendingAfter(r)]
        /\ UNCHANGED <<hourly, daily, due, recent, admitted, charged, absorbed>>
  BY DEF Emit, Emitted
<1>2. ticks' \subseteq FreeTierTick /\ IsFiniteSet(ticks')
  BY <1>1, Drained, FS_Union DEF QuotaTyped
<1>3. next_nonce' \in [Router -> Nat]
  BY <1>1, Drained DEF QuotaTyped
<1>4. pending' \in [Router -> [Wallet -> Consumption \cup {None}]]
  BY <1>1 DEF QuotaTyped, PendingAfter, NoConsumption
<1> QED BY <1>1, <1>2, <1>3, <1>4 DEF QuotaTyped

\* What RecentNonces keeps when it makes room.
LEMMA KeptTyped ==
  ASSUME NEW seen \in Seq(Wallet \X Nat), Len(seen) <= NonceCap
  PROVE  /\ Kept(seen) \in Seq(Wallet \X Nat) /\ Len(Kept(seen)) < NonceCap
         /\ Len(seen) < NonceCap => Kept(seen) = seen
<1>1. NonceCap \in Nat \ {0} /\ Len(seen) \in Nat
  BY QuotaAssumption
<1>2. CASE Len(seen) >= NonceCap
  <2>1. seen # <<>>
    BY <1>1, <1>2
  <2>2. Tail(seen) \in Seq(Wallet \X Nat) /\ Len(Tail(seen)) = Len(seen) - 1
    BY <2>1, HeadTailProperties
  <2>3. Kept(seen) = Tail(seen)
    BY <1>2 DEF Kept
  <2>4. ~(Len(seen) < NonceCap) /\ Len(seen) - 1 < NonceCap
    BY <1>1, <1>2
  <2>5. Len(Kept(seen)) < NonceCap
    BY <2>2, <2>3, <2>4
  <2> QED BY <2>2, <2>3, <2>4, <2>5
<1>3. CASE Len(seen) < NonceCap
  BY <1>1, <1>3 DEF Kept
<1> QED BY <1>1, <1>2, <1>3

\* A tick of another router that is counted leaves the counters well-typed.
LEMMA AbsorbTyped ==
  ASSUME QuotaTyped, NEW r \in Router, NEW t \in ticks, Absorb(r, t)
  PROVE  QuotaTyped'
<1>1. t \in FreeTierTick
  BY DEF QuotaTyped
<1>2. t.wallet \in Wallet /\ t.hour \in Hour /\ t.day \in Day /\ t.count \in Nat /\ t.nonce \in Nat
  BY <1>1 DEF FreeTierTick
<1>3. hourly' \in [Router -> [Wallet \X Hour -> Nat]]
  <2> DEFINE k == <<t.wallet, t.hour>>
  <2>1. k \in Wallet \X Hour
    BY <1>2
  <2>2. hourly' = [hourly EXCEPT ![r][k] = @ + t.count] /\ hourly \in [Router -> [Wallet \X Hour -> Nat]]
    BY DEF Absorb, QuotaTyped
  <2> HIDE DEF k
  <2> QED BY <1>2, <2>1, <2>2, CountUp
<1>4. daily' \in [Router -> [Wallet \X Day -> Nat]]
  <2> DEFINE k == <<t.wallet, t.day>>
  <2>1. k \in Wallet \X Day
    BY <1>2
  <2>2. daily' = [daily EXCEPT ![r][k] = @ + t.count] /\ daily \in [Router -> [Wallet \X Day -> Nat]]
    BY DEF Absorb, QuotaTyped
  <2> HIDE DEF k
  <2> QED BY <1>2, <2>1, <2>2, CountUp
<1>5. absorbed' \in [Router -> Seq(FreeTierTick)]
  BY <1>1 DEF Absorb, QuotaTyped
<1>6. recent' \in [Router -> Seq(Wallet \X Nat)] /\ \A s \in Router : Len(recent'[s]) <= NonceCap
  <2>1. Kept(recent[r]) \in Seq(Wallet \X Nat) /\ Len(Kept(recent[r])) < NonceCap
    BY KeptTyped DEF QuotaTyped
  <2> DEFINE new == Append(Kept(recent[r]), <<t.wallet, t.nonce>>)
  <2>2. new \in Seq(Wallet \X Nat) /\ Len(new) <= NonceCap
    BY <1>2, <2>1, QuotaAssumption
  <2>3. recent' = [recent EXCEPT ![r] = new]
    BY DEF Absorb
  <2> HIDE DEF new
  <2> QED BY <2>2, <2>3 DEF QuotaTyped
<1> QED BY <1>3, <1>4, <1>5, <1>6 DEF Absorb, QuotaTyped

\* What a prune leaves of a router's counts.
Pruned(counts, buckets, cutoff) ==
  [k \in Wallet \X buckets |-> IF k[2] >= cutoff THEN counts[k] ELSE 0]

\* prune drops the hours and the days before the cutoff, of every wallet.
LEMMA PruneIs ==
  ASSUME QuotaTyped, ClockTyped, NEW r \in Router, Prune(r)
  PROVE  /\ hourly' = [hourly EXCEPT ![r] = Pruned(hourly[r], Hour, Cutoff(HourOf(now)))]
         /\ daily' = [daily EXCEPT ![r] = Pruned(daily[r], Day, Cutoff(DayOf(now)))]
         /\ hourly' \in [Router -> [Wallet \X Hour -> Nat]]
         /\ daily' \in [Router -> [Wallet \X Day -> Nat]]
<1>1. DOMAIN hourly[r] = Wallet \X Hour /\ DOMAIN daily[r] = Wallet \X Day
  BY DEF QuotaTyped
<1>2. /\ hourly' = [hourly EXCEPT ![r] = Pruned(hourly[r], Hour, Cutoff(HourOf(now)))]
      /\ daily' = [daily EXCEPT ![r] = Pruned(daily[r], Day, Cutoff(DayOf(now)))]
  BY <1>1 DEF Prune, Pruned
<1>3. Pruned(hourly[r], Hour, Cutoff(HourOf(now))) \in [Wallet \X Hour -> Nat]
  BY DEF Pruned, QuotaTyped
<1>4. Pruned(daily[r], Day, Cutoff(DayOf(now))) \in [Wallet \X Day -> Nat]
  BY DEF Pruned, QuotaTyped
<1> QED BY <1>2, <1>3, <1>4 DEF QuotaTyped

\* What a router counts after a restart is well-typed.
LEMMA RestartTyped ==
  ASSUME QuotaTyped, NEW r \in Router, QuotaRestart(r)
  PROVE  QuotaTyped'
<1>1. FreshHours \in [Wallet \X Hour -> Nat] /\ FreshDays \in [Wallet \X Day -> Nat]
  BY DEF FreshHours, FreshDays
<1>2. NoConsumption \in [Wallet -> Consumption \cup {None}] /\ NothingDue \in [Wallet -> Nat]
  BY DEF NoConsumption, NothingDue
<1>3. <<>> \in Seq(Wallet \X Nat) /\ <<>> \in Seq(FreeTierTick) /\ Len(<<>>) <= NonceCap
  BY QuotaAssumption
<1> QED BY <1>1, <1>2, <1>3 DEF QuotaRestart, QuotaTyped

JobId == Wallet \X (0..MaxNow) \X Nat

IntakeTyped ==
  /\ stage \in [Request -> Stages]
  /\ router \in [Request -> Router \cup {None}]
  /\ \A q \in Request : stage[q] # "new" => router[q] \in Router
  /\ came \in [Request -> 0..MaxNow]
  /\ salt \in [Router -> Nat]
  /\ job \in [Request -> JobId \cup {None}]
  /\ sent \in [Request -> Seq(Peer)]
  /\ \A q \in Request : IsInjective(sent[q])

Offer == [peer : Peer, models : SUBSET Model, tee : BOOLEAN, stake : Nat, seen : 0..MaxNow]

DiscoveryTyped ==
  /\ offers \subseteq Offer
  /\ registry \in [Router -> [Peer -> CandidateRecord \cup {None}]]

Breaker ==
  [tripped : BOOLEAN, override : BOOLEAN, verified : Nat, failed : Nat, bonded : Nat, slashed : Nat,
   in_bootstrap : BOOLEAN, halted : BOOLEAN, epoch : Nat, ended : BOOLEAN, fired : BOOLEAN,
   forced : Nat \cup {None}]

BreakerTyped == breaker \in [Router -> Breaker]

Typed == ClockTyped /\ QuotaTyped /\ IntakeTyped /\ DiscoveryTyped /\ BreakerTyped

\* A request is billed to a wallet: that of its key, or that of the delegation
\* (billing_address).
LEMMA Billed == \A q \in Request : BillingAddress(RequestOf[q].body) \in Wallet
<1> SUFFICES ASSUME NEW q \in Request PROVE BillingAddress(RequestOf[q].body) \in Wallet
  OBVIOUS
<1> DEFINE body == RequestOf[q].body
<1>1. body \in SigningBody
  BY IntakeAssumption DEF Submission
<1>2. body.user \in Key /\ body.delegation \in DelegationCert \cup {None}
  BY <1>1 DEF SigningBody
<1>3. body.delegation # None => body.delegation.body \in DelegationSigningBody
  BY <1>2 DEF DelegationCert
<1>4. body.delegation # None => body.delegation.body.wallet \in Wallet
  BY <1>3 DEF DelegationSigningBody
<1> HIDE DEF body
<1> QED BY <1>2, <1>4, IntakeAssumption DEF BillingAddress, body

\* A ranking lists candidates, each once (rank_for).
LEMMA Ranks ==
  ASSUME NEW r \in Router, NEW ps \in SUBSET Peer, NEW ranked \in Rankings(r, ps)
  PROVE  /\ ranked \in Seq(Peer) /\ IsInjective(ranked)
         /\ \A i \in DOMAIN ranked : ranked[i] \in ps
<1>1. Cardinality(ps) \in Nat
  BY IntakeAssumption, FS_Subset, FS_CardinalityType
<1>2. ranked \in [1..Cardinality(ps) -> ps] /\ \A i, j \in 1..Cardinality(ps) : i # j => ranked[i] # ranked[j]
  BY DEF Rankings, SetToSeqs
<1> QED BY <1>1, <1>2 DEF IsInjective

\* A request that arrives, is counted and is placed keeps its record's type.
LEMMA IntakeTypeStep ==
  ASSUME Typed, NEW q \in Request, (\E r \in Router : Arrive(q, r)) \/ Consume(q) \/ Select(q)
  PROVE  IntakeTyped'
<1>1. CASE \E r \in Router : Arrive(q, r)
  BY <1>1 DEF Arrive, Typed, ClockTyped, IntakeTyped, Stages
<1>2. CASE Consume(q)
  BY <1>2 DEF Consume, Typed, IntakeTyped, Stages
<1>3. CASE Select(q)
  <2> DEFINE r == router[q]
             ps == Selected(r, RequestOf[q].body, came[q])
  <2>1. r \in Router
    BY <1>3 DEF Select, Typed, IntakeTyped
  <2>2. ps \subseteq Peer
    BY DEF Selected, Eligible
  <2>3. PICK ranked \in Rankings(r, ps) :
          /\ sent' = [sent EXCEPT ![q] = ranked]
          /\ stage' = [stage EXCEPT ![q] = IF ranked = <<>> THEN "no_candidate" ELSE "dispatched"]
    BY <1>3 DEF Select
  <2>4. ranked \in Seq(Peer) /\ IsInjective(ranked)
    BY <2>1, <2>2, <2>3, Ranks
  <2>5. /\ sent' \in [Request -> Seq(Peer)]
        /\ \A x \in Request : IsInjective(sent'[x])
    BY <2>3, <2>4 DEF Typed, IntakeTyped
  <2>6. stage' \in [Request -> Stages] /\ \A x \in Request \ {q} : stage'[x] = stage[x]
    BY <2>3 DEF Typed, IntakeTyped, Stages
  <2>7. salt' \in [Router -> Nat] /\ job' \in [Request -> JobId \cup {None}]
    <3>1. /\ salt' = [salt EXCEPT ![r] = NextSalt(r)]
          /\ job' = [job EXCEPT ![q] = <<BillingAddress(RequestOf[q].body), came[q], NextSalt(r)>>]
      BY <1>3 DEF Select
    <3>2. NextSalt(r) \in Nat
      BY <2>1 DEF NextSalt, Typed, IntakeTyped
    <3>3. <<BillingAddress(RequestOf[q].body), came[q], NextSalt(r)>> \in JobId
      BY <3>2, Billed DEF JobId, Typed, IntakeTyped
    <3> HIDE DEF r
    <3> QED BY <3>1, <3>2, <3>3 DEF Typed, IntakeTyped
  <2>8. UNCHANGED <<router, came>>
    BY <1>3 DEF Select
  <2> HIDE DEF r, ps
  <2> QED BY <2>1, <2>5, <2>6, <2>7, <2>8 DEF Typed, IntakeTyped, r
<1> QED BY <1>1, <1>2, <1>3

\* Gossip, probes and health checks keep what a router knows in its types.
LEMMA DiscoveryTypeStep ==
  ASSUME Typed, Discovery
  PROVE  DiscoveryTyped'
<1>1. ASSUME NEW p \in Peer, NEW claim \in CandidateRecord, Publish(p, claim) PROVE DiscoveryTyped'
  <2> DEFINE o == [peer |-> p, models |-> claim.models, tee |-> claim.tee, stake |-> claim.stake, seen |-> claim.seen]
  <2>1. o \in Offer
    BY DEF Offer, CandidateRecord
  <2>2. offers' = offers \cup {o} /\ UNCHANGED registry
    BY <1>1 DEF Publish
  <2> HIDE DEF o
  <2> QED BY <2>1, <2>2 DEF Typed, DiscoveryTyped
<1>2. ASSUME NEW r \in Router, NEW o \in offers, Hear(r, o) PROVE DiscoveryTyped'
  <2> DEFINE c == [models |-> o.models, tee |-> o.tee, stake |-> o.stake, seen |-> o.seen]
  <2>1. o \in Offer
    BY DEF Typed, DiscoveryTyped
  <2>2. o.peer \in Peer /\ c \in CandidateRecord
    BY <2>1 DEF Offer, CandidateRecord
  <2>3. registry' = [registry EXCEPT ![r][o.peer] = c] /\ UNCHANGED offers
    BY <1>2 DEF Hear
  <2> HIDE DEF c
  <2> QED BY <2>2, <2>3 DEF Typed, DiscoveryTyped
<1>3. ASSUME NEW p \in Peer, NEW models \in SUBSET Model, NEW tee \in BOOLEAN, Announce(p, models, tee)
      PROVE  DiscoveryTyped'
  <2> DEFINE claim == [models |-> models, tee |-> tee, stake |-> StakeOf[p], seen |-> now]
  <2>1. claim \in CandidateRecord /\ Publish(p, claim)
    BY <1>3, IntakeAssumption DEF Announce, CandidateRecord, Typed, ClockTyped
  <2> HIDE DEF claim
  <2> QED BY <1>1, <2>1
<1>4. ASSUME NEW p \in Peer, NEW claim \in Claims, Impersonate(p, claim) PROVE DiscoveryTyped'
  <2>1. claim \in CandidateRecord
    BY IntakeAssumption DEF CandidateRecord
  <2> QED BY <1>1, <1>4, <2>1 DEF Impersonate
<1> QED BY <1>2, <1>3, <1>4 DEF Discovery

\* A breaker at which a trigger fired is tripped until an evaluation without
\* one, and an override is one of the epoch (evaluate, advance_epoch).
Armed(b) == (b.fired => b.tripped) /\ (b.override => b.forced = b.epoch)

BreakerInv == BreakerTyped /\ \A r \in Router : Armed(breaker[r])

\* One router's breaker changes.
LEMMA BreakerSet ==
  ASSUME BreakerInv, NEW r \in Router, NEW b \in Breaker, Armed(b), breaker' = [breaker EXCEPT ![r] = b]
  PROVE  BreakerInv'
<1>1. breaker' \in [Router -> Breaker]
  BY DEF BreakerInv, BreakerTyped
<1>2. \A s \in Router : Armed(breaker'[s])
  BY DEF BreakerInv, BreakerTyped
<1> QED BY <1>1, <1>2 DEF BreakerInv, BreakerTyped, Armed

\* Whatever moves a breaker, and in whatever order, leaves it armed.
LEMMA BreakerStepKeeps ==
  ASSUME BreakerInv, NEW r \in Router, BreakerStep(r)
  PROVE  BreakerInv'
<1>1. breaker[r] \in Breaker /\ Armed(breaker[r])
  BY DEF BreakerInv, BreakerTyped
<1>2. ASSUME NEW b \in Breaker, Armed(b), SetBreaker(r, b) PROVE BreakerInv'
  BY <1>2, BreakerSet DEF SetBreaker
<1>3. ASSUME NEW bonded \in Bonded, AdvanceEpoch(r, bonded) PROVE BreakerInv'
  <2>1. bonded \in Nat /\ breaker[r].epoch + 1 \in Nat
    BY <1>1, IntakeAssumption DEF Breaker
  <2>2. Anomalous(breaker[r]) \in BOOLEAN
    BY DEF Anomalous, TooManyFailed, TooMuchSlashed
  <2>3. Advanced(breaker[r], bonded) \in Breaker /\ Armed(Advanced(breaker[r], bonded))
    BY <1>1, <2>1, <2>2 DEF Advanced, Breaker, Armed
  <2> QED BY <1>2, <1>3, <2>3 DEF AdvanceEpoch
<1>4. ASSUME NEW missing \in Missing, Evaluate(r, missing) PROVE BreakerInv'
  <2> DEFINE trigger == Anomalous(breaker[r]) \/ missing > MissingThreshold
  <2>1. trigger \in BOOLEAN
    OBVIOUS
  <2>2. Evaluated(breaker[r], missing) =
          [breaker[r] EXCEPT !.tripped = trigger \/ (@ /\ breaker[r].override), !.ended = FALSE, !.fired = trigger]
    BY DEF Evaluated
  <2> HIDE DEF trigger
  <2>3. Evaluated(breaker[r], missing) \in Breaker /\ Armed(Evaluated(breaker[r], missing))
    BY <1>1, <2>1, <2>2 DEF Breaker, Armed
  <2> QED BY <1>2, <1>4, <2>3 DEF Evaluate
<1>5. CASE RecordVerified(r)
  BY <1>1, <1>2, <1>5 DEF RecordVerified, Breaker, Armed
<1>6. CASE RecordFailed(r)
  BY <1>1, <1>2, <1>6 DEF RecordFailed, Breaker, Armed
<1>7. CASE RecordSlash(r)
  BY <1>1, <1>2, <1>7 DEF RecordSlash, Breaker, Armed
<1>8. CASE GuardianHalt(r)
  BY <1>1, <1>2, <1>8 DEF GuardianHalt, Halted, Breaker, Armed
<1>9. CASE GuardianResume(r)
  BY <1>1, <1>2, <1>9 DEF GuardianResume, Breaker, Armed
<1>10. CASE EndBootstrap(r)
  BY <1>1, <1>2, <1>10 DEF EndBootstrap, Ended, Breaker, Armed
<1>11. CASE ForceResume(r)
  BY <1>1, <1>2, <1>11 DEF ForceResume, Forced, Breaker, Armed
<1> QED BY <1>3, <1>4, <1>5, <1>6, <1>7, <1>8, <1>9, <1>10, <1>11 DEF BreakerStep

\* A request that is being accepted has a router and came at a time there was.
LEMMA ConsumeIs ==
  ASSUME Typed, NEW q \in Request, Consume(q)
  PROVE  LET r == router[q]
             w == BillingAddress(RequestOf[q].body)
         IN /\ r \in Router /\ w \in Wallet /\ came[q] \in 0..MaxNow
            /\ \/ /\ Gated(q) /\ Check(r, w, came[q]) = "Allowed" /\ Charge(r, w, came[q])
                  /\ stage' = [stage EXCEPT ![q] = "charged"]
               \/ /\ ~Gated(q) /\ UNCHANGED quota
                  /\ stage' = [stage EXCEPT ![q] = "charged"]
               \/ /\ Gated(q) /\ UNCHANGED quota
                  /\ stage' = [stage EXCEPT ![q] = "exhausted"]
<1>1. router[q] \in Router /\ came[q] \in 0..MaxNow
  BY DEF Consume, Typed, IntakeTyped
<1> QED BY <1>1, Billed DEF Consume

TypeInv == Typed /\ BreakerInv

\* Every step keeps the variables in their types.
LEMMA TypeStep ==
  ASSUME TypeInv, [Next]_vars
  PROVE  TypeInv'
<1> USE DEF TypeInv
<1>1. ASSUME NEW q \in Request, (\E r \in Router : Arrive(q, r)) \/ Consume(q) \/ Select(q) PROVE TypeInv'
  <2>1. IntakeTyped'
    BY <1>1, IntakeTypeStep
  <2>2. QuotaTyped'
    <3>1. CASE Consume(q)
      <4> DEFINE w == BillingAddress(RequestOf[q].body)
      <4>1. CASE Charge(router[q], w, came[q])
        BY <3>1, <4>1, ConsumeIs, ChargeTyped DEF Typed
      <4>2. CASE UNCHANGED quota
        BY <4>2 DEF Typed, QuotaTyped, quota
      <4> QED BY <3>1, <4>1, <4>2, ConsumeIs
    <3>2. CASE UNCHANGED quota
      BY <3>2 DEF Typed, QuotaTyped, quota
    <3> QED BY <1>1, <3>1, <3>2 DEF Arrive, Select
  <2>3. UNCHANGED <<now, restarts, registry, offers, breaker>>
    BY <1>1 DEF Arrive, Consume, Select
  <2> QED BY <2>1, <2>2, <2>3 DEF Typed, ClockTyped, DiscoveryTyped, BreakerInv, BreakerTyped, Armed
<1>2. ASSUME NEW r \in Router, QuotaStep(r), UNCHANGED <<intake, registry, offers, breaker>> PROVE TypeInv'
  <2>1. QuotaTyped'
    <3>1. CASE Emit(r)
      BY <3>1, EmitTyped DEF Typed
    <3>2. ASSUME NEW t \in ticks, Absorb(r, t) PROVE QuotaTyped'
      BY <3>2, AbsorbTyped DEF Typed
    <3>4. ASSUME NEW w \in Wallet, Record(r, w) PROVE QuotaTyped'
      BY <3>4, RecordTyped DEF Typed
    <3>3. CASE Prune(r)
      <4>1. /\ hourly' \in [Router -> [Wallet \X Hour -> Nat]]
            /\ daily' \in [Router -> [Wallet \X Day -> Nat]]
        BY <3>3, PruneIs DEF Typed
      <4> QED BY <3>3, <4>1 DEF Prune, Typed, QuotaTyped
    <3> QED BY <1>2, <3>1, <3>2, <3>3, <3>4 DEF QuotaStep
  <2>2. UNCHANGED <<now, restarts, stage, router, came, salt, job, sent, registry, offers, breaker>>
    BY <1>2 DEF QuotaStep, intake
  <2> QED BY <2>1, <2>2
          DEF Typed, ClockTyped, IntakeTyped, DiscoveryTyped, BreakerInv, BreakerTyped, Armed
<1>3. CASE Discovery
  <2>1. DiscoveryTyped'
    BY <1>3, DiscoveryTypeStep
  <2>2. UNCHANGED <<now, restarts, quota, intake, breaker>>
    BY <1>3 DEF Discovery, Announce, Impersonate, Publish, Hear
  <2> QED BY <2>1, <2>2
          DEF Typed, ClockTyped, QuotaTyped, quota, IntakeTyped, intake, BreakerInv, BreakerTyped, Armed
<1>4. ASSUME NEW r \in Router, BreakerStep(r) PROVE TypeInv'
  <2>1. BreakerInv'
    BY <1>4, BreakerStepKeeps
  <2>2. UNCHANGED <<now, restarts, quota, intake, registry, offers>>
    BY <1>4 DEF BreakerStep, AdvanceEpoch, Evaluate, RecordVerified, RecordFailed, RecordSlash, GuardianHalt, GuardianResume,
                EndBootstrap, ForceResume, SetBreaker
  <2> QED BY <2>1, <2>2
          DEF Typed, ClockTyped, QuotaTyped, quota, IntakeTyped, intake, DiscoveryTyped, BreakerInv
<1>5. ASSUME NEW r \in Router, Restart(r) PROVE TypeInv'
  <2>1. QuotaTyped'
    BY <1>5, RestartTyped DEF Restart, Typed
  <2>2. ClockTyped'
    BY <1>5, QuotaAssumption DEF Restart, Typed, ClockTyped
  <2>3. IntakeTyped'
    <3>1. \A q \in Request : stage'[q] = stage[q] \/ (stage'[q] = "lost" /\ router[q] = r)
      <4>1. stage' = [q \in Request |-> IF router[q] = r /\ InFlight(q) THEN "lost" ELSE stage[q]]
        BY <1>5 DEF Restart
      <4> QED BY <4>1
    <3>2. stage' \in [Request -> Stages]
      BY <1>5 DEF Restart, Typed, IntakeTyped, Stages
    <3>3. salt' \in [Router -> Nat]
      BY <1>5 DEF Restart, Typed, IntakeTyped
    <3> QED BY <1>5, <3>1, <3>2, <3>3 DEF Restart, Typed, IntakeTyped
  <2>4. DiscoveryTyped'
    <3>1. registry' = [registry EXCEPT ![r] = NoCandidates] /\ UNCHANGED offers
      BY <1>5 DEF Restart
    <3>2. NoCandidates \in [Peer -> CandidateRecord \cup {None}] /\ \A p \in Peer : NoCandidates[p] = None
      BY DEF NoCandidates
    <3> QED BY <3>1, <3>2 DEF Typed, DiscoveryTyped
  <2>5. BreakerInv'
    <3>1. GenesisBreaker \in Breaker /\ Armed(GenesisBreaker)
      BY DEF GenesisBreaker, Breaker, Armed
    <3> QED BY <1>5, <3>1, BreakerSet DEF Restart
  <2> QED BY <2>1, <2>2, <2>3, <2>4, <2>5 DEF Typed, BreakerInv
<1>6. CASE Advance
  <2>1. ClockTyped'
    BY <1>6, QuotaAssumption DEF Advance, Typed, ClockTyped
  <2>2. UNCHANGED <<quota, intake, registry, offers, breaker>>
    BY <1>6 DEF Advance
  <2> QED BY <2>1, <2>2
          DEF Typed, QuotaTyped, quota, IntakeTyped, intake, DiscoveryTyped, BreakerInv, BreakerTyped, Armed
<1>7. CASE UNCHANGED vars
  BY <1>7
     DEF vars, Typed, ClockTyped, QuotaTyped, quota, IntakeTyped, intake, DiscoveryTyped, BreakerInv, BreakerTyped,
         Armed
<1> QED BY <1>1, <1>2, <1>3, <1>4, <1>5, <1>6, <1>7 DEF Next, Accept, Gossip

\* Routers begin with no peer, no count and no request.
LEMMA TypeInit == ASSUME Init PROVE TypeInv
<1>1. QuotaTyped
  <2>1. FreshHours \in [Wallet \X Hour -> Nat] /\ FreshDays \in [Wallet \X Day -> Nat]
    BY DEF FreshHours, FreshDays
  <2>2. NoConsumption \in [Wallet -> Consumption \cup {None}] /\ NothingDue \in [Wallet -> Nat]
    BY DEF NoConsumption, NothingDue
  <2>3. <<>> \in Seq(Wallet \X Nat) /\ <<>> \in Seq(FreeTierTick) /\ Len(<<>>) <= NonceCap
    BY QuotaAssumption
  <2> QED BY <2>1, <2>2, <2>3, FS_EmptySet DEF Init, QuotaInit, QuotaTyped
<1>2. ClockTyped /\ IntakeTyped
  BY QuotaAssumption DEF Init, ClockTyped, IntakeTyped, Stages, IsInjective
<1>3. DiscoveryTyped
  BY DEF Init, DiscoveryTyped, NoCandidates
<1>4. BreakerInv
  BY IntakeAssumption DEF Init, BreakerInv, BreakerTyped, Armed, GenesisBreaker, Breaker
<1> QED BY <1>1, <1>2, <1>3, <1>4 DEF TypeInv, Typed, BreakerInv

\* Every variable of the intake stays in its type: in particular a record that
\* is pending counts at least one job, a replay cache never exceeds its
\* capacity, and no candidate list names a node twice.
THEOREM TypeCorrect == Spec => []TypeOK
<1>1. Init => TypeInv
  BY TypeInit
<1>2. TypeInv /\ [Next]_vars => TypeInv'
  BY TypeStep
<1>3. ASSUME TypeInv PROVE TypeOK
  <2>1. QuotaTypeOK
    BY <1>3 DEF TypeInv, Typed, QuotaTyped, QuotaTypeOK, Consumers, Consumption
  <2> QED BY <1>3, <2>1 DEF TypeInv, Typed, ClockTyped, IntakeTyped, DiscoveryTyped, TypeOK
<1> QED BY <1>1, <1>2, <1>3, PTL DEF Spec

-----------------------------------------------------------------------------
(* What else the intake keeps *)

\* What a router has of a peer is what that peer offered.
Learnt ==
  \A r \in Router, p \in Peer : registry[r][p] # None =>
    \E o \in offers : /\ o.peer = p /\ o.models = registry[r][p].models
                      /\ o.tee = registry[r][p].tee /\ o.seen = registry[r][p].seen

Placed == {"no_candidate", "dispatched"}

\* Before candidates are looked for a request has neither a job id nor any.
Unplaced == \A q \in Request : stage[q] \notin Placed => sent[q] = <<>> /\ job[q] = None

SentInv == Learnt /\ Unplaced /\ SentWhereOffered

\* No request came later than now, and one in flight came a tick ago at most.
InTime ==
  \A q \in Request : came[q] <= now /\ (InFlight(q) => now <= came[q] + 1)

\* A job id holds the time its request came with, and either a salt its router
\* has counted up to, or a time before everything that router works on.
Minted ==
  \A q \in Request : job[q] # None =>
    /\ stage[q] \in Placed /\ job[q][2] = came[q]
    /\ \/ job[q][3] <= salt[router[q]]
       \/ /\ came[q] < now
          /\ \A p \in Request : InFlight(p) /\ router[p] = router[q] => came[q] < came[p]

JobInv == InTime /\ Unplaced /\ Minted /\ IdsOfRouterUnique

\* What a router has admitted is in its counters as long as these may still be
\* asked for: absorbed ticks only add to them, and a prune keeps the current
\* and the previous bucket.
Backed ==
  \A r \in Router, w \in Wallet :
    /\ \A h \in Hour : h >= Cutoff(HourOf(now)) => admitted[r][<<w, h>>] <= hourly[r][<<w, h>>]
    /\ \A d \in Day : d >= Cutoff(DayOf(now)) => OfDay(r, w, d) <= daily[r][<<w, d>>]

LimitInv == InTime /\ Backed /\ LimitsHeld

Pending(r, w) == IF pending[r][w] = None THEN 0 ELSE pending[r][w].count

\* The jobs of a wallet a router has admitted and not told of yet, recorded or not.
Untold(r, w) == Pending(r, w) + due[r][w]

AllUntold(w) == SumFunctionOnSet([r \in Router |-> Untold(r, w)], Router)

\* The jobs of a wallet that some ticks tell of.
Told(w, ts) == SumFunctionOnSet([t \in ts |-> IF t.wallet = w THEN t.count ELSE 0], ts)

\* The ticks a router has counted: its own, and those it has absorbed.
Known(r) == {t \in ticks : t.from = r \/ t \in ToSet(absorbed[r])}

\* A router's next nonces are new in its life.
NoncesFresh ==
  \A t \in ticks : t.life <= restarts /\ (t.nonce >= next_nonce[t.from] => t.life < restarts)

\* Until it has had to forget some, the replay cache holds all absorbed ticks.
Remembers ==
  \A r \in Router :
    /\ \A i \in DOMAIN absorbed[r] : absorbed[r][i] \in ticks /\ absorbed[r][i].from # r
    /\ Len(absorbed[r]) <= NonceCap =>
         /\ Len(recent[r]) = Len(absorbed[r])
         /\ \A i \in 1..Len(absorbed[r]) : recent[r][i] = <<absorbed[r][i].wallet, absorbed[r][i].nonce>>

\* Every job told of or still to be told was charged.
TicksCharged == \A w \in Wallet : Told(w, ticks) + AllUntold(w) <= charged[w]

\* A router's counters hold no more than the ticks it knows and what it has
\* still to tell.
ToldOf(r) ==
  Len(absorbed[r]) <= NonceCap =>
    \A w \in Wallet :
      /\ Counted(hourly[r], w, Hour) <= Told(w, Known(r)) + Untold(r, w)
      /\ Counted(daily[r], w, Day) <= Told(w, Known(r)) + Untold(r, w)

CountersTold == \A r \in Router : ToldOf(r)

TickInv == NoncesFresh /\ Remembers /\ TicksCharged /\ CountersTold

-----------------------------------------------------------------------------
(* Where requests are sent *)

\* What a registry holds of a peer was offered before, and offers are not taken back.
LEMMA LearntStep ==
  ASSUME Typed, Learnt, [Next]_vars
  PROVE  Learnt' /\ offers \subseteq offers'
<1>1. ASSUME NEW p \in Peer, NEW claim, Publish(p, claim) PROVE Learnt' /\ offers \subseteq offers'
  <2>1. offers \subseteq offers' /\ UNCHANGED registry
    BY <1>1 DEF Publish
  <2> QED BY <2>1 DEF Learnt
<1>2. ASSUME NEW r \in Router, NEW o \in offers, Hear(r, o) PROVE Learnt' /\ offers \subseteq offers'
  <2> DEFINE c == [models |-> o.models, tee |-> o.tee, stake |-> o.stake, seen |-> o.seen]
  <2>1. registry' = [registry EXCEPT ![r][o.peer] = c] /\ UNCHANGED offers
    BY <1>2 DEF Hear
  <2>2. c.models = o.models /\ c.tee = o.tee /\ c.seen = o.seen
    OBVIOUS
  <2> HIDE DEF c
  <2>3. \A s \in Router, p \in Peer :
          registry'[s][p] = IF s = r /\ p = o.peer THEN c ELSE registry[s][p]
    BY <2>1 DEF Typed, DiscoveryTyped
  <2> QED BY <2>1, <2>2, <2>3 DEF Learnt
<1>3. ASSUME NEW r \in Router, Restart(r) PROVE Learnt' /\ offers \subseteq offers'
  <2>1. registry' = [registry EXCEPT ![r] = NoCandidates] /\ UNCHANGED offers
    BY <1>3 DEF Restart
  <2>2. \A s \in Router, p \in Peer :
          registry'[s][p] = IF s = r THEN None ELSE registry[s][p]
    BY <2>1 DEF Typed, DiscoveryTyped, NoCandidates
  <2> QED BY <2>1, <2>2 DEF Learnt
<1>4. CASE UNCHANGED <<registry, offers>>
  BY <1>4 DEF Learnt
<1> QED
  BY <1>1, <1>2, <1>3, <1>4
  DEF Next, vars, Accept, Arrive, Consume, Select, Gossip, Discovery, Announce, Impersonate, BreakerStep, AdvanceEpoch, Evaluate, RecordVerified,
      RecordFailed, RecordSlash, GuardianHalt, GuardianResume, EndBootstrap, ForceResume, SetBreaker, Advance

\* A step of a request touches no other (Router::accept).
LEMMA OthersKept ==
  ASSUME Typed, NEW q \in Request, (\E r \in Router : Arrive(q, r)) \/ Consume(q) \/ Select(q)
  PROVE  /\ \A p \in Request \ {q} : /\ stage'[p] = stage[p] /\ router'[p] = router[p] /\ came'[p] = came[p]
                                     /\ job'[p] = job[p] /\ sent'[p] = sent[p]
         /\ UNCHANGED now
<1>1. CASE \E r \in Router : Arrive(q, r)
  BY <1>1 DEF Arrive, Typed, IntakeTyped
<1>2. CASE Consume(q)
  BY <1>2 DEF Consume, Typed, IntakeTyped
<1>3. CASE Select(q)
  BY <1>3 DEF Select, Typed, IntakeTyped
<1> QED BY <1>1, <1>2, <1>3

\* Of the other steps only a restart touches requests: those its router was
\* working on are lost.
LEMMA NoAccept ==
  ASSUME Typed, [Next]_vars, ~Accept
  PROVE  /\ UNCHANGED <<router, came, job, sent>>
         /\ \A q \in Request : stage'[q] = stage[q] \/ (InFlight(q) /\ stage'[q] = "lost")
<1>1. ASSUME NEW r \in Router, Restart(r)
      PROVE  /\ UNCHANGED <<router, came, job, sent>>
             /\ \A q \in Request : stage'[q] = stage[q] \/ (InFlight(q) /\ stage'[q] = "lost")
  <2>1. stage' = [q \in Request |-> IF router[q] = r /\ InFlight(q) THEN "lost" ELSE stage[q]]
    BY <1>1 DEF Restart
  <2> QED BY <1>1, <2>1 DEF Restart
<1>2. CASE UNCHANGED intake
  BY <1>2 DEF intake
<1> QED
  BY <1>1, <1>2
  DEF Next, vars, Gossip, Discovery, Announce, Impersonate, Publish, Hear, BreakerStep, AdvanceEpoch, Evaluate, RecordVerified,
      RecordFailed, RecordSlash, GuardianHalt, GuardianResume, EndBootstrap, ForceResume, SetBreaker, Advance

\* Once a trigger has fired at an evaluation, or a guardian halts the breaker,
\* no request gets past it, except in the epoch in which governance forces it
\* open, for any thresholds and in any order of the calls that move it.
THEOREM BreakerStopsIntake == Spec => StoppedByBreaker
<1> DEFINE Stopped ==
      \A q \in Request :
        stage[q] = "new" /\ stage'[q] \in {"verified", "bad"} =>
          LET b == breaker[router'[q]]
          IN ~b.halted /\ (b.fired => b.forced = b.epoch)
<1>1. Init => TypeInv
  BY TypeInit
<1>2. TypeInv /\ [Next]_vars => TypeInv'
  BY TypeStep
<1>3. ASSUME TypeInv, [Next]_vars PROVE Stopped
  <2> SUFFICES ASSUME NEW q \in Request, stage[q] = "new", stage'[q] \in {"verified", "bad"}
               PROVE  ~breaker[router'[q]].halted /\ (breaker[router'[q]].fired => breaker[router'[q]].forced = breaker[router'[q]].epoch)
    OBVIOUS
  <2>1. Typed
    BY <1>3 DEF TypeInv
  <2>2. Accept
    BY <1>3, <2>1, NoAccept DEF InFlight
  <2>3. PICK p \in Request : (\E r \in Router : Arrive(p, r)) \/ Consume(p) \/ Select(p)
    BY <2>2 DEF Accept
  <2>4. p = q
    BY <2>1, <2>3, OthersKept
  <2>5. PICK r \in Router : Arrive(q, r)
    BY <2>3, <2>4 DEF Consume, Select
  <2>6. router'[q] = r /\ ~IsPaused(breaker[r])
    BY <2>1, <2>5 DEF Arrive, Typed, IntakeTyped
  <2>7. Armed(breaker[r])
    BY <1>3 DEF TypeInv, BreakerInv
  <2> QED BY <2>6, <2>7 DEF IsPaused, Armed
<1>4. TypeInv /\ [Next]_vars => Stopped
  BY <1>3
<1> HIDE DEF Stopped
<1>5. [][Stopped]_vars => StoppedByBreaker
  BY PTL DEF Stopped, StoppedByBreaker
<1> QED BY <1>1, <1>2, <1>4, <1>5, PTL DEF Spec

\* A request that is not placed has been sent nowhere.
LEMMA UnplacedStep ==
  ASSUME Typed, Unplaced, [Next]_vars
  PROVE  Unplaced'
<1>1. ASSUME NEW q \in Request, (\E r \in Router : Arrive(q, r)) \/ Consume(q) \/ Select(q)
      PROVE  Unplaced'
  <2>1. stage'[q] \notin Placed => stage[q] \notin Placed /\ sent'[q] = sent[q] /\ job'[q] = job[q]
    <3>1. CASE \E r \in Router : Arrive(q, r)
      BY <3>1 DEF Arrive, Typed, IntakeTyped, Placed
    <3>2. CASE Consume(q)
      BY <3>2 DEF Consume, Typed, IntakeTyped, Placed
    <3>3. CASE Select(q)
      <4>1. stage'[q] \in Placed
        BY <3>3 DEF Select, Typed, IntakeTyped, Placed
      <4> QED BY <4>1
    <3> QED BY <1>1, <3>1, <3>2, <3>3
  <2> QED BY <1>1, <2>1, OthersKept DEF Unplaced
<1>2. CASE ~Accept
  BY <1>2, NoAccept DEF Unplaced, Placed, InFlight
<1> QED BY <1>1, <1>2 DEF Accept

\* A request has been offered a node.
OfferedTo(q, i, os) ==
  \E o \in os :
    /\ o.peer = sent[q][i]
    /\ RequestOf[q].body.model \in o.models
    /\ RequestOf[q].body.prefer_tee => o.tee
    /\ Age(came[q], o.seen) <= Candidate_Ttl

\* A request goes only to peers that offered its model.
LEMMA SentStep ==
  ASSUME Typed, SentInv, [Next]_vars
  PROVE  SentInv'
<1>1. Learnt' /\ offers \subseteq offers' /\ Unplaced'
  BY LearntStep, UnplacedStep DEF SentInv
<1>2. ASSUME NEW q \in Request, sent'[q] = sent[q], came'[q] = came[q]
      PROVE  \A i \in DOMAIN sent'[q] : OfferedTo(q, i, offers)'
  BY <1>1, <1>2 DEF SentInv, SentWhereOffered, OfferedTo
<1>3. ASSUME NEW q \in Request, Select(q)
      PROVE  \A i \in DOMAIN sent'[q] : OfferedTo(q, i, offers)'
  <2> DEFINE r == router[q]
             body == RequestOf[q].body
             ps == Selected(r, body, came[q])
  <2>1. r \in Router /\ UNCHANGED <<came, offers>>
    BY <1>3 DEF Select, Typed, IntakeTyped
  <2>2. ps \subseteq Peer
    BY DEF Selected, Eligible
  <2>3. PICK ranked \in Rankings(r, ps) : sent' = [sent EXCEPT ![q] = ranked]
    BY <1>3 DEF Select
  <2>4. sent'[q] = ranked
    BY <2>3 DEF Typed, IntakeTyped
  <2>5. \A i \in DOMAIN ranked : ranked[i] \in ps
    BY <2>1, <2>2, <2>3, Ranks
  <2>6. ASSUME NEW p \in ps
        PROVE  \E o \in offers : /\ o.peer = p /\ body.model \in o.models /\ (body.prefer_tee => o.tee)
                                 /\ Age(came[q], o.seen) <= Candidate_Ttl
    <3>1. /\ p \in Peer /\ registry[r][p] # None /\ body.model \in registry[r][p].models
          /\ Age(came[q], registry[r][p].seen) <= Candidate_Ttl
          /\ body.prefer_tee => registry[r][p].tee
      BY DEF Selected, Eligible
    <3>2. PICK o \in offers : /\ o.peer = p /\ o.models = registry[r][p].models
                              /\ o.tee = registry[r][p].tee /\ o.seen = registry[r][p].seen
      BY <2>1, <3>1 DEF SentInv, Learnt
    <3> HIDE DEF r, body
    <3> QED BY <3>1, <3>2
  <2>7. ASSUME NEW i \in DOMAIN ranked PROVE OfferedTo(q, i, offers)'
    <3>1. ranked[i] \in ps
      BY <2>5
    <3> HIDE DEF ps
    <3> QED BY <2>1, <2>4, <2>6, <3>1 DEF OfferedTo
  <2> QED BY <2>4, <2>7
<1>4. ASSUME NEW q \in Request, NEW r \in Router, Arrive(q, r)
      PROVE  \A i \in DOMAIN sent'[q] : OfferedTo(q, i, offers)'
  <2>1. sent'[q] = <<>>
    BY <1>4 DEF Arrive, SentInv, Unplaced, Placed
  <2> QED BY <2>1
<1>5. ASSUME NEW q \in Request, Consume(q) PROVE sent'[q] = sent[q] /\ came'[q] = came[q]
  BY <1>5 DEF Consume
<1>6. \A q \in Request : \A i \in DOMAIN sent'[q] : OfferedTo(q, i, offers)'
  <2>1. CASE ~Accept
    BY <1>2, <2>1, NoAccept
  <2>2. ASSUME NEW q \in Request, (\E r \in Router : Arrive(q, r)) \/ Consume(q) \/ Select(q),
               NEW p \in Request \ {q}
        PROVE  \A i \in DOMAIN sent'[p] : OfferedTo(p, i, offers)'
    <3>1. sent'[p] = sent[p] /\ came'[p] = came[p]
      BY <2>2, OthersKept
    <3> QED BY <1>2, <3>1
  <2>3. ASSUME NEW q \in Request, (\E r \in Router : Arrive(q, r)) \/ Consume(q) \/ Select(q)
        PROVE  \A i \in DOMAIN sent'[q] : OfferedTo(q, i, offers)'
    BY <1>2, <1>3, <1>4, <1>5, <2>3
  <2> QED BY <2>1, <2>2, <2>3 DEF Accept
<1> QED BY <1>1, <1>6 DEF SentInv, SentWhereOffered, OfferedTo

\* Every node a request is sent to has offered what the request asks for, in an
\* offer fresh when the request came (CandidateRegistry::eligible_for, Selector).
THEOREM SentOnlyWhereOffered == Spec => []SentWhereOffered
<1>1. Init => TypeInv /\ SentInv
  <2>1. Init => SentInv
    BY DEF Init, SentInv, Learnt, Unplaced, SentWhereOffered, NoCandidates
  <2> QED BY <2>1, TypeInit
<1>2. TypeInv /\ SentInv /\ [Next]_vars => (TypeInv /\ SentInv)'
  BY TypeStep, SentStep DEF TypeInv
<1>3. SentInv => SentWhereOffered
  BY DEF SentInv
<1> QED BY <1>1, <1>2, <1>3, PTL DEF Spec

-----------------------------------------------------------------------------
(* Time and job ids *)

\* No request came later than now, and one in flight came a tick ago at most.
LEMMA InTimeStep ==
  ASSUME Typed, InTime, [Next]_vars
  PROVE  InTime' /\ now <= now'
<1>1. now \in Nat /\ \A q \in Request : came[q] \in Nat
  BY QuotaAssumption DEF Typed, ClockTyped, IntakeTyped
<1>2. ASSUME NEW q \in Request, (\E r \in Router : Arrive(q, r)) \/ Consume(q) \/ Select(q)
      PROVE  InTime' /\ now <= now'
  <2>1. /\ came'[q] = now \/ came'[q] = came[q]
        /\ InFlight(q)' => InFlight(q) \/ came'[q] = now
    <3>1. CASE \E r \in Router : Arrive(q, r)
      BY <3>1 DEF Arrive, Typed, IntakeTyped
    <3>2. CASE Consume(q)
      BY <3>2 DEF Consume, Typed, IntakeTyped, InFlight
    <3>3. CASE Select(q)
      BY <3>3 DEF Select, Typed, IntakeTyped, InFlight
    <3> QED BY <1>2, <3>1, <3>2, <3>3
  <2>2. UNCHANGED now
    BY <1>2, OthersKept
  <2>3. ASSUME NEW p \in Request \ {q} PROVE came'[p] = came[p] /\ stage'[p] = stage[p]
    BY <1>2, OthersKept
  <2>4. came'[q] <= now /\ (InFlight(q)' => now <= came'[q] + 1)
    <3>1. CASE came'[q] = now
      BY <1>1, <3>1
    <3>2. CASE came'[q] # now
      BY <1>1, <2>1, <3>2 DEF InTime
    <3> QED BY <3>1, <3>2
  <2>5. ASSUME NEW p \in Request \ {q} PROVE came'[p] <= now /\ (InFlight(p)' => now <= came'[p] + 1)
    BY <2>3 DEF InTime, InFlight
  <2>6. now <= now'
    BY <1>1, <2>2
  <2> QED BY <2>2, <2>4, <2>5, <2>6 DEF InTime
<1>3. CASE ~Accept
  <2>1. ASSUME NEW q \in Request PROVE came'[q] = came[q] /\ (InFlight(q)' => InFlight(q) /\ stage'[q] = stage[q])
    BY <1>3, NoAccept DEF InFlight
  <2>2. CASE UNCHANGED now
    BY <1>1, <2>1, <2>2 DEF InTime
  <2>3. CASE now' = now + 1 /\ \A q \in Request : InFlight(q)' => came[q] = now
    <3>1. ASSUME NEW q \in Request PROVE came'[q] <= now' /\ (InFlight(q)' => now' <= came'[q] + 1)
      BY <1>1, <2>1, <2>3 DEF InTime
    <3> QED BY <1>1, <2>3, <3>1 DEF InTime
  <2>4. CASE Advance
    <3>1. now' = now + 1 /\ \A q \in Request : InFlight(q) => came[q] = now
      BY <2>4 DEF Advance, Prompt
    <3> QED BY <2>1, <2>3, <3>1
  <2>5. ASSUME NEW r \in Router, Restart(r) PROVE InTime' /\ now <= now'
    <3>1. /\ now' = now + 1
          /\ \A q \in Request : InFlight(q) /\ router[q] # r => came[q] = now
          /\ stage' = [q \in Request |-> IF router[q] = r /\ InFlight(q) THEN "lost" ELSE stage[q]]
      BY <2>5 DEF Restart, Prompt
    <3>2. ASSUME NEW q \in Request, InFlight(q)' PROVE came[q] = now
      <4>1. InFlight(q)
        BY <2>1, <3>2
      <4>2. router[q] # r
        BY <3>1, <3>2, <4>1 DEF InFlight
      <4> QED BY <3>1, <4>1, <4>2
    <3> QED BY <2>3, <3>1, <3>2
  <2> QED
    BY <1>3, <2>2, <2>4, <2>5
    DEF Next, vars, Gossip, QuotaStep, Discovery, Announce, Impersonate, Publish, Hear, BreakerStep, AdvanceEpoch, Evaluate, RecordVerified, RecordFailed,
        RecordSlash, GuardianHalt, GuardianResume, EndBootstrap, ForceResume, SetBreaker
<1> QED BY <1>2, <1>3 DEF Accept

\* A salt only goes up, except that a restart at a later time starts it over.
LEMMA SaltStep ==
  ASSUME Typed, InTime, [Next]_vars, ~Accept
  PROVE  \/ UNCHANGED salt
         \/ \E r \in Router :
              /\ salt' = [salt EXCEPT ![r] = 0] /\ now' = now + 1
              /\ \A q \in Request : router[q] = r => ~InFlight(q)'
<1>1. ASSUME NEW r \in Router, Restart(r)
      PROVE  /\ salt' = [salt EXCEPT ![r] = 0] /\ now' = now + 1
             /\ \A q \in Request : router[q] = r => ~InFlight(q)'
  <2>1. stage' = [q \in Request |-> IF router[q] = r /\ InFlight(q) THEN "lost" ELSE stage[q]]
    BY <1>1 DEF Restart
  <2> QED BY <1>1, <2>1 DEF Restart, InFlight
<1>2. (\E r \in Router : Restart(r)) \/ UNCHANGED salt
  BY DEF Next, vars, Gossip, intake, Discovery, Announce, Impersonate, Publish, Hear, BreakerStep, AdvanceEpoch, Evaluate, RecordVerified,
         RecordFailed, RecordSlash, GuardianHalt, GuardianResume, EndBootstrap, ForceResume, SetBreaker, Advance
<1> QED BY <1>1, <1>2

\* A minted id stays as good.
StillMinted(q) ==
  /\ stage[q] \in Placed /\ job[q][2] = came[q]
  /\ \/ job[q][3] <= salt[router[q]]
     \/ /\ came[q] < now
        /\ \A p \in Request : InFlight(p) /\ router[p] = router[q] => came[q] < came[p]

\* A job id is made of the time its request came and of a salt that its router does
\* not use twice at that time.
LEMMA JobStep ==
  ASSUME TypeInv, JobInv, [Next]_vars
  PROVE  JobInv'
<1> Typed
  BY DEF TypeInv
<1>1. InTime' /\ Unplaced' /\ now <= now'
  BY InTimeStep, UnplacedStep DEF JobInv
<1>2. /\ now \in Nat /\ now' \in Nat /\ \A q \in Request : came[q] \in Nat /\ router[q] \in Router \cup {None}
      /\ \A q \in Request : job[q] # None =>
           router[q] \in Router /\ salt[router[q]] \in Nat /\ job[q][3] \in Nat
  <2>1. now \in Nat /\ \A q \in Request : came[q] \in Nat /\ router[q] \in Router \cup {None}
    BY QuotaAssumption DEF Typed, ClockTyped, IntakeTyped
  <2>2. now' \in Nat
    BY TypeStep, QuotaAssumption DEF TypeInv, Typed, ClockTyped
  <2>3. ASSUME NEW q \in Request, job[q] # None
        PROVE  router[q] \in Router /\ salt[router[q]] \in Nat /\ job[q][3] \in Nat
    <3>1. stage[q] # "new" /\ job[q] \in JobId
      BY <2>3 DEF JobInv, Minted, Placed, Typed, IntakeTyped
    <3> QED BY <3>1 DEF JobId, Typed, IntakeTyped
  <2> QED BY <2>1, <2>2, <2>3
<1>3. \A q \in Request : job[q] # None => StillMinted(q)
  BY DEF JobInv, Minted, StillMinted
<1>4. CASE ~Accept
  <2>1. /\ UNCHANGED <<router, came, job>>
        /\ \A q \in Request : stage'[q] = stage[q] \/ (InFlight(q) /\ stage'[q] = "lost")
    BY <1>4, NoAccept
  <2>2. \A q \in Request : (stage[q] \in Placed => stage'[q] \in Placed) /\ (InFlight(q)' => InFlight(q))
    BY <2>1 DEF InFlight, Placed
  <2>3. ASSUME NEW q \in Request, job[q] # None PROVE StillMinted(q)'
    <3>1. stage'[q] \in Placed /\ job'[q][2] = came'[q]
      BY <1>3, <2>1, <2>2, <2>3 DEF StillMinted
    <3>2. CASE came[q] < now /\ \A p \in Request : InFlight(p) /\ router[p] = router[q] => came[q] < came[p]
      <4>1. came'[q] < now'
        BY <1>1, <1>2, <2>1, <3>2
      <4>2. \A p \in Request : InFlight(p)' /\ router'[p] = router'[q] => came'[q] < came'[p]
        BY <2>1, <2>2, <3>2
      <4> QED BY <3>1, <4>1, <4>2 DEF StillMinted
    <3>3. CASE job[q][3] <= salt[router[q]]
      <4>1. CASE UNCHANGED salt
        BY <2>1, <3>1, <3>3, <4>1 DEF StillMinted
      <4>2. ASSUME NEW r \in Router, salt' = [salt EXCEPT ![r] = 0], now' = now + 1,
                   \A p \in Request : router[p] = r => ~InFlight(p)'
            PROVE  StillMinted(q)'
        <5>1. CASE router[q] = r
          <6>1. came'[q] < now'
            BY <1>2, <2>1, <4>2 DEF JobInv, InTime
          <6>2. \A p \in Request : ~(InFlight(p)' /\ router'[p] = router'[q])
            BY <2>1, <4>2, <5>1
          <6> QED BY <3>1, <6>1, <6>2 DEF StillMinted
        <5>2. CASE router[q] # r
          <6>1. salt'[router'[q]] = salt[router[q]]
            BY <1>2, <2>1, <2>3, <4>2, <5>2 DEF Typed, IntakeTyped
          <6> QED BY <2>1, <3>1, <3>3, <6>1 DEF StillMinted
        <5> QED BY <5>1, <5>2
      <4> QED BY <1>4, <4>1, <4>2, SaltStep DEF JobInv
    <3> QED BY <1>3, <2>3, <3>2, <3>3 DEF StillMinted
  <2>4. IdsOfRouterUnique'
    BY <2>1 DEF JobInv, IdsOfRouterUnique
  <2> QED BY <1>1, <2>1, <2>3, <2>4 DEF JobInv, Minted, StillMinted
<1>5. ASSUME NEW q \in Request, NEW r \in Router, Arrive(q, r) PROVE JobInv'
  <2>1. /\ UNCHANGED <<now, salt, job>> /\ router'[q] = r /\ came'[q] = now
        /\ \A p \in Request \ {q} : stage'[p] = stage[p] /\ router'[p] = router[p] /\ came'[p] = came[p]
    BY <1>5 DEF Arrive, Typed, IntakeTyped
  <2>2. job[q] = None
    BY <1>5 DEF Arrive, JobInv, Unplaced, Placed
  <2>3. ASSUME NEW p \in Request, job[p] # None PROVE StillMinted(p)'
    <3>1. p # q /\ StillMinted(p)
      BY <1>3, <2>2, <2>3
    <3>2. ASSUME NEW x \in Request, InFlight(x)', router'[x] = router'[p], came[p] < now,
                 \A y \in Request : InFlight(y) /\ router[y] = router[p] => came[p] < came[y]
          PROVE  came'[p] < came'[x]
      <4>1. CASE x = q
        BY <2>1, <3>1, <3>2, <4>1
      <4>2. CASE x # q
        BY <2>1, <3>1, <3>2, <4>2 DEF InFlight
      <4> QED BY <4>1, <4>2
    <3>3. /\ stage'[p] = stage[p] /\ job'[p] = job[p] /\ came'[p] = came[p] /\ router'[p] = router[p]
          /\ salt' = salt /\ now' = now
      BY <2>1, <3>1
    <3>4. CASE job[p][3] <= salt[router[p]]
      BY <3>1, <3>3, <3>4 DEF StillMinted
    <3>5. CASE /\ came[p] < now
               /\ \A y \in Request : InFlight(y) /\ router[y] = router[p] => came[p] < came[y]
      <4>1. \A x \in Request : InFlight(x)' /\ router'[x] = router'[p] => came'[p] < came'[x]
        BY <3>2, <3>5
      <4> QED BY <3>1, <3>3, <3>5, <4>1 DEF StillMinted
    <3> QED BY <3>1, <3>4, <3>5 DEF StillMinted
  <2>4. IdsOfRouterUnique'
    BY <2>1, <2>2 DEF JobInv, IdsOfRouterUnique
  <2> QED BY <1>1, <2>1, <2>3, <2>4 DEF JobInv, Minted, StillMinted
<1>6. ASSUME NEW q \in Request, Consume(q) PROVE JobInv'
  <2>1. UNCHANGED <<now, salt, job, router, came>> /\ \A p \in Request \ {q} : stage'[p] = stage[p]
    BY <1>6 DEF Consume, Typed, IntakeTyped
  <2>2. InFlight(q) /\ stage[q] \notin Placed
    BY <1>6 DEF Consume, InFlight, Placed
  <2>3. job[q] = None /\ \A p \in Request : InFlight(p)' => InFlight(p)
    BY <2>1, <2>2 DEF JobInv, Unplaced, InFlight
  <2>4. \A p \in Request : job[p] # None => StillMinted(p)'
    BY <1>3, <2>1, <2>3 DEF StillMinted
  <2>5. IdsOfRouterUnique'
    BY <2>1 DEF JobInv, IdsOfRouterUnique
  <2> QED BY <1>1, <2>1, <2>4, <2>5 DEF JobInv, Minted, StillMinted
<1>7. ASSUME NEW q \in Request, Select(q) PROVE JobInv'
  <2> DEFINE r == router[q]
             w == BillingAddress(RequestOf[q].body)
  <2>1. r \in Router /\ salt[r] \in Nat /\ InFlight(q) /\ stage[q] \notin Placed
    BY <1>7 DEF Select, InFlight, Placed, Typed, IntakeTyped
  <2>2. UNCHANGED <<now, router, came>> /\ salt' = [salt EXCEPT ![r] = salt[r] + 1]
    BY <1>7 DEF Select, NextSalt
  <2>3. job'[q] = <<w, came[q], salt[r] + 1>> /\ \A p \in Request \ {q} : job'[p] = job[p]
    BY <1>7 DEF Select, NextSalt, Typed, IntakeTyped
  <2>4. stage'[q] \in Placed /\ \A p \in Request \ {q} : stage'[p] = stage[p]
    BY <1>7 DEF Select, Placed, Typed, IntakeTyped
  <2>5. \A p \in Request : InFlight(p)' => InFlight(p)
    BY <2>1, <2>4 DEF InFlight
  <2> HIDE DEF r, w
  <2>6. salt'[r] = salt[r] + 1 /\ \A s \in Router \ {r} : salt'[s] = salt[s]
    BY <2>1, <2>2 DEF Typed, IntakeTyped
  <2>7. StillMinted(q)'
    BY <2>1, <2>2, <2>3, <2>4, <2>6 DEF StillMinted, r
  <2>8. ASSUME NEW p \in Request \ {q}, job[p] # None PROVE StillMinted(p)'
    <3>1. StillMinted(p) /\ job'[p] = job[p] /\ stage'[p] = stage[p]
      BY <1>3, <2>3, <2>4, <2>8
    <3>2. salt[router[p]] <= salt'[router'[p]]
      BY <1>2, <2>1, <2>2, <2>6, <2>8
    <3>3. job[p][3] \in Nat /\ salt[router[p]] \in Nat /\ salt'[router'[p]] \in Nat
      BY <1>2, <2>1, <2>2, <2>6, <2>8
    <3>4. CASE job[p][3] <= salt[router[p]]
      BY <2>2, <3>1, <3>2, <3>3, <3>4 DEF StillMinted
    <3>5. CASE /\ came[p] < now
               /\ \A y \in Request : InFlight(y) /\ router[y] = router[p] => came[p] < came[y]
      BY <2>2, <2>5, <3>1, <3>5 DEF StillMinted
    <3> QED BY <3>1, <3>4, <3>5 DEF StillMinted
  <2>9. ASSUME NEW p \in Request \ {q}, job[p] # None, router[p] = r PROVE job[p] # job'[q]
    <3>1. StillMinted(p)
      BY <1>3, <2>9
    <3>2. CASE job[p][3] <= salt[r]
      BY <1>2, <2>1, <2>3, <2>9, <3>2
    <3>3. CASE came[p] < came[q]
      BY <1>2, <2>3, <3>1, <3>3 DEF StillMinted
    <3> QED BY <2>1, <2>9, <3>1, <3>2, <3>3 DEF StillMinted, r
  <2>10. IdsOfRouterUnique'
    <3> SUFFICES ASSUME NEW x \in Request, NEW y \in Request, x # y, job'[x] # None, router'[x] = router'[y]
                 PROVE  job'[x] # job'[y]
      BY DEF IdsOfRouterUnique
    <3>1. CASE x = q
      BY <2>2, <2>3, <2>9, <3>1 DEF r
    <3>2. CASE y = q
      BY <2>2, <2>3, <2>9, <3>2 DEF r
    <3>3. CASE x # q /\ y # q
      BY <2>2, <2>3, <3>3 DEF JobInv, IdsOfRouterUnique
    <3> QED BY <3>1, <3>2, <3>3
  <2>11. \A p \in Request : job'[p] # None => StillMinted(p)'
    BY <2>3, <2>7, <2>8
  <2> QED BY <1>1, <2>10, <2>11 DEF JobInv, Minted, StillMinted
<1> QED BY <1>4, <1>5, <1>6, <1>7 DEF Accept

-----------------------------------------------------------------------------
(* Counting jobs *)

\* There are finitely many hours and days up to the bound on the clock.
LEMMA FiniteBuckets == IsFiniteSet(Hour) /\ IsFiniteSet(Day)
<1>1. MaxNow \in 0..MaxNow
  BY QuotaAssumption
<1>2. HourOf(MaxNow) \in Hour /\ DayOf(MaxNow) \in Day
  BY <1>1, Buckets
<1>3. HourOf(MaxNow) \in Int /\ DayOf(MaxNow) \in Int
  BY <1>2 DEF Hour, Day
<1> QED BY <1>3, FS_Interval DEF Hour, Day

\* A wallet's count over some buckets is a natural number, and larger counts
\* make a larger one.
LEMMA CountedIs ==
  ASSUME NEW T, NEW B \in SUBSET T, IsFiniteSet(B), NEW f \in [Wallet \X T -> Nat], NEW w \in Wallet
  PROVE  /\ Counted(f, w, B) \in Nat
         /\ (\A b \in B : f[<<w, b>>] = 0) => Counted(f, w, B) = 0
         /\ \A g \in [Wallet \X T -> Nat] :
              (\A b \in B : f[<<w, b>>] <= g[<<w, b>>]) => Counted(f, w, B) <= Counted(g, w, B)
<1> DEFINE F == [b \in B |-> f[<<w, b>>]]
<1>1. Counted(f, w, B) = SumFunctionOnSet(F, B)
  BY DEF Counted
<1>2. \A b \in B : F[b] = f[<<w, b>>]
  OBVIOUS
<1>6. \A b \in B : F[b] \in Nat
  OBVIOUS
<1> HIDE DEF F
<1>7. Sums(F, B)
  BY <1>6 DEF Sums
<1>3. Counted(f, w, B) \in Nat
  BY <1>1, <1>6, SumNat
<1>4. ASSUME \A b \in B : f[<<w, b>>] = 0 PROVE Counted(f, w, B) = 0
  <2>1. \A b \in B : F[b] = 0 * F[b]
    <3>1. \A b \in B : F[b] = 0
      BY <1>2, <1>4
    <3> QED BY <3>1
  <2>2. SumFunctionOnSet(F, B) = 0 * SumFunctionOnSet(F, B)
    BY <1>7, <2>1, SumScale
  <2> QED BY <1>1, <1>3, <2>2
<1>5. ASSUME NEW g \in [Wallet \X T -> Nat], \A b \in B : f[<<w, b>>] <= g[<<w, b>>]
      PROVE  Counted(f, w, B) <= Counted(g, w, B)
  <2> DEFINE G == [b \in B |-> g[<<w, b>>]]
  <2>1. Counted(g, w, B) = SumFunctionOnSet(G, B)
    BY DEF Counted
  <2>2. \A b \in B : G[b] = g[<<w, b>>]
    OBVIOUS
  <2>3. \A b \in B : G[b] \in Nat
    OBVIOUS
  <2> HIDE DEF G
  <2>4. Sums(G, B)
    BY <2>3 DEF Sums
  <2>5. \A b \in B : F[b] <= G[b]
    BY <1>2, <1>5, <2>2
  <2> QED BY <1>1, <1>7, <2>1, <2>4, <2>5, SumLeq
<1> QED BY <1>3, <1>4, <1>5

\* Counts g are counts f with n more for a wallet in a bucket.
Raises(f, g, v, h, n) == g = [f EXCEPT ![<<v, h>>] = @ + n]

Counts(T) == [Wallet \X T -> Nat]

\* What raising one counter does to the sum over a set of buckets.
LEMMA CountedUp ==
  ASSUME NEW T, NEW B \in SUBSET T, IsFiniteSet(B), NEW f \in Counts(T),
         NEW v \in Wallet, NEW h \in T, NEW n \in Nat, NEW g, Raises(f, g, v, h, n)
  PROVE  /\ g \in Counts(T)
         /\ h \in B => Counted(g, v, B) = Counted(f, v, B) + n
         /\ \A w \in Wallet : w # v \/ h \notin B => Counted(g, w, B) = Counted(f, w, B)
<1>1. g \in Counts(T)
  BY DEF Raises, Counts
<1>2. \A w \in Wallet, b \in T : g[<<w, b>>] = IF w = v /\ b = h THEN f[<<w, b>>] + n ELSE f[<<w, b>>]
  BY DEF Raises, Counts
<1>3. ASSUME NEW w \in Wallet
      PROVE  /\ w # v \/ h \notin B => Counted(g, w, B) = Counted(f, w, B)
             /\ w = v /\ h \in B => Counted(g, w, B) = Counted(f, w, B) + n
  <2> DEFINE F == [b \in B |-> f[<<w, b>>]]
             G == [b \in B |-> g[<<w, b>>]]
             R == B \ {h}
  <2>1. Counted(f, w, B) = SumFunctionOnSet(F, B) /\ Counted(g, w, B) = SumFunctionOnSet(G, B)
    BY DEF Counted
  <2>2. \A b \in B : F[b] \in Nat
    BY DEF Counts
  <2>3. \A b \in B : G[b] \in Nat
    BY <1>1 DEF Counts
  <2>4. \A b \in B : G[b] = IF w = v /\ b = h THEN F[b] + n ELSE F[b]
    BY <1>2
  <2> HIDE DEF F, G
  <2>5. Sums(F, B) /\ Sums(G, B)
    BY <2>2, <2>3 DEF Sums
  <2>6. ASSUME w # v \/ h \notin B PROVE SumFunctionOnSet(F, B) = SumFunctionOnSet(G, B)
    <3>1. \A b \in B : F[b] = G[b]
      BY <2>4, <2>6
    <3> QED BY <2>5, <3>1, SumSame
  <2>7. ASSUME w = v, h \in B PROVE SumFunctionOnSet(G, B) = SumFunctionOnSet(F, B) + n
    <3>1. Sums(F, R) /\ \A b \in R : F[b] = G[b]
      BY <2>2, <2>4, FS_Subset DEF Sums
    <3>2. /\ SumFunctionOnSet(F, B) = F[h] + SumFunctionOnSet(F, R)
          /\ SumFunctionOnSet(G, B) = G[h] + SumFunctionOnSet(G, R)
      BY <2>5, <2>7, SumRemove
    <3> HIDE DEF R
    <3>3. SumFunctionOnSet(F, R) = SumFunctionOnSet(G, R) /\ SumFunctionOnSet(F, R) \in Int
      BY <3>1, SumSame, SumInt
    <3>4. G[h] = F[h] + n /\ F[h] \in Nat
      BY <2>2, <2>4, <2>7
    <3> QED BY <3>2, <3>3, <3>4
  <2> QED BY <2>1, <2>6, <2>7
<1> QED BY <1>1, <1>3

-----------------------------------------------------------------------------
(* The limits of the free tier *)

\* What a charge does to the books, in buckets not older than the previous one.
LEMMA ChargeBacked ==
  ASSUME Typed, LimitInv, NEW q \in Request, Consume(q),
         NEW r \in Router, r = router[q], NEW w \in Wallet, NEW t \in 0..MaxNow, t = came[q],
         Check(r, w, t) = "Allowed", Charge(r, w, t)
  PROVE  /\ \A s \in Router, v \in Wallet :
              /\ \A h \in Hour : h >= Cutoff(HourOf(now)) => admitted'[s][<<v, h>>] <= hourly'[s][<<v, h>>]
              /\ \A d \in Day : d >= Cutoff(DayOf(now)) => OfDay(s, v, d)' <= daily'[s][<<v, d>>]
         /\ LimitsHeld'
<1> DEFINE H == HourOf(t)
           D == DayOf(t)
           Hours(d) == {h \in Hour : h \div DayHours = d}
<1>1. H \in Hour /\ D \in Day /\ H \div DayHours = D
  <2>1. t \in Nat
    BY QuotaAssumption
  <2> QED BY <2>1, Buckets
<1>2. H >= Cutoff(HourOf(now)) /\ D >= Cutoff(DayOf(now))
  <2>1. now \in Nat /\ t \in Nat /\ t <= now /\ now <= t + 1
    <3>1. InFlight(q)
      BY DEF Consume, InFlight
    <3> QED BY <3>1, QuotaAssumption DEF LimitInv, InTime, Typed, ClockTyped
  <2>2. CASE now = t
    BY <2>1, <2>2, Buckets DEF Cutoff
  <2>3. CASE now = t + 1
    BY <2>1, <2>3, Buckets DEF Cutoff
  <2> QED BY <2>1, <2>2, <2>3
<1>3. /\ hourly \in [Router -> [Wallet \X Hour -> Nat]] /\ admitted \in [Router -> [Wallet \X Hour -> Nat]]
      /\ daily \in [Router -> [Wallet \X Day -> Nat]]
  BY DEF Typed, QuotaTyped
<1>4. /\ hourly' = [hourly EXCEPT ![r][<<w, H>>] = @ + 1]
      /\ admitted' = [admitted EXCEPT ![r][<<w, H>>] = @ + 1]
      /\ daily' = [daily EXCEPT ![r][<<w, D>>] = @ + 1]
  BY DEF Charge
<1>5. /\ hourly[r][<<w, H>>] < HourlyLimit /\ daily[r][<<w, D>>] < DailyLimit
  <2>1. hourly[r][<<w, H>>] \in Nat /\ daily[r][<<w, D>>] \in Nat /\ HourlyLimit \in Nat /\ DailyLimit \in Nat
    BY <1>1, <1>3, QuotaAssumption
  <2> QED BY <2>1 DEF Check
<1>6. \A d : Hours(d) \subseteq Hour /\ IsFiniteSet(Hours(d)) /\ (H \in Hours(d) <=> d = D)
  BY <1>1, FiniteBuckets, FS_Subset
<1>7. \A s \in Router, v \in Wallet, d \in Day :
        OfDay(s, v, d) = Counted(admitted[s], v, Hours(d)) /\ OfDay(s, v, d)' = Counted(admitted'[s], v, Hours(d))
  BY DEF OfDay
<1> HIDE DEF H, D, Hours
<1>8. <<w, H>> \in Wallet \X Hour /\ <<w, D>> \in Wallet \X Day
  BY <1>1
<1>9. /\ hourly'[r] = [hourly[r] EXCEPT ![<<w, H>>] = @ + 1]
      /\ admitted'[r] = [admitted[r] EXCEPT ![<<w, H>>] = @ + 1]
      /\ daily'[r] = [daily[r] EXCEPT ![<<w, D>>] = @ + 1]
      /\ \A s \in Router \ {r} : hourly'[s] = hourly[s] /\ admitted'[s] = admitted[s] /\ daily'[s] = daily[s]
  <2> DEFINE kh == <<w, H>>
             kd == <<w, D>>
  <2>1. /\ kh \in Wallet \X Hour /\ kd \in Wallet \X Day
        /\ hourly' = [hourly EXCEPT ![r][kh] = @ + 1]
        /\ admitted' = [admitted EXCEPT ![r][kh] = @ + 1]
        /\ daily' = [daily EXCEPT ![r][kd] = @ + 1]
    BY <1>4, <1>8
  <2> HIDE DEF kh, kd
  <2>2. /\ hourly'[r] = [hourly[r] EXCEPT ![kh] = @ + 1]
        /\ \A s \in Router \ {r} : hourly'[s] = hourly[s]
    <3>1. hourly' = [hourly EXCEPT ![r][kh] = @ + 1] /\ hourly \in [Router -> [Wallet \X Hour -> Nat]]
      BY <1>3, <2>1
    <3> QED BY <2>1, <3>1, CountUpOf
  <2>3. /\ admitted'[r] = [admitted[r] EXCEPT ![kh] = @ + 1]
        /\ \A s \in Router \ {r} : admitted'[s] = admitted[s]
    <3>1. admitted' = [admitted EXCEPT ![r][kh] = @ + 1] /\ admitted \in [Router -> [Wallet \X Hour -> Nat]]
      BY <1>3, <2>1
    <3> QED BY <2>1, <3>1, CountUpOf
  <2>4. /\ daily'[r] = [daily[r] EXCEPT ![kd] = @ + 1]
        /\ \A s \in Router \ {r} : daily'[s] = daily[s]
    <3>1. daily' = [daily EXCEPT ![r][kd] = @ + 1] /\ daily \in [Router -> [Wallet \X Day -> Nat]]
      BY <1>3, <2>1
    <3> QED BY <2>1, <3>1, CountUpOf
  <2> QED BY <2>2, <2>3, <2>4 DEF kh, kd
<1>10. ASSUME NEW v \in Wallet, NEW d \in Day
       PROVE  Counted(admitted'[r], v, Hours(d)) = Counted(admitted[r], v, Hours(d)) + (IF v = w /\ d = D THEN 1 ELSE 0)
  <2>1. Hours(d) \in SUBSET Hour /\ IsFiniteSet(Hours(d)) /\ (H \in Hours(d) <=> d = D)
    BY <1>6
  <2>2. admitted[r] \in [Wallet \X Hour -> Nat] /\ Counted(admitted[r], v, Hours(d)) \in Nat
    BY <1>3, <2>1, CountedIs
  <2> DEFINE f == admitted[r]
             g == admitted'[r]
             B == Hours(d)
             n == 1
  <2>3. Raises(f, g, w, H, n)
    BY <1>9 DEF Raises
  <2>9. f \in Counts(Hour) /\ B \in SUBSET Hour /\ IsFiniteSet(B) /\ n \in Nat
    BY <2>1, <2>2 DEF Counts
  <2> HIDE DEF f, g, B, n
  <2>4. /\ H \in B => Counted(g, w, B) = Counted(f, w, B) + n
        /\ \A x \in Wallet : x # w \/ H \notin B => Counted(g, x, B) = Counted(f, x, B)
    BY <1>1, <2>3, <2>9, CountedUp
  <2>5. H \in B <=> d = D
    BY <2>1 DEF B
  <2>6. Counted(f, v, B) \in Nat
    BY <2>2 DEF f, B
  <2>7. CASE v = w /\ d = D
    BY <2>4, <2>5, <2>7 DEF f, g, B, n
  <2>8. CASE ~(v = w /\ d = D)
    BY <2>4, <2>5, <2>6, <2>8 DEF f, g, B
  <2> QED BY <2>7, <2>8
<1>11. ASSUME NEW s \in Router, NEW v \in Wallet, NEW h \in Hour
       PROVE  /\ h >= Cutoff(HourOf(now)) => admitted'[s][<<v, h>>] <= hourly'[s][<<v, h>>]
              /\ admitted'[s][<<v, h>>] <= HourlyLimit
  <2>1. /\ h >= Cutoff(HourOf(now)) => admitted[s][<<v, h>>] <= hourly[s][<<v, h>>]
        /\ admitted[s][<<v, h>>] <= HourlyLimit
        /\ admitted[s][<<v, h>>] \in Nat /\ hourly[s][<<v, h>>] \in Nat /\ HourlyLimit \in Nat
    BY <1>3, QuotaAssumption DEF LimitInv, Backed, LimitsHeld
  <2>2. CASE s = r /\ v = w /\ h = H
    <3>1. /\ admitted'[s][<<v, h>>] = admitted[s][<<v, h>>] + 1
          /\ hourly'[s][<<v, h>>] = hourly[s][<<v, h>>] + 1
      BY <1>3, <1>8, <1>9, <2>2
    <3> QED BY <1>2, <1>5, <2>1, <2>2, <3>1
  <2>3. CASE ~(s = r /\ v = w /\ h = H)
    <3>1. admitted'[s][<<v, h>>] = admitted[s][<<v, h>>] /\ hourly'[s][<<v, h>>] = hourly[s][<<v, h>>]
      BY <1>3, <1>8, <1>9, <2>3
    <3> QED BY <2>1, <3>1
  <2> QED BY <2>2, <2>3
<1>12. ASSUME NEW s \in Router, NEW v \in Wallet, NEW d \in Day
       PROVE  /\ d >= Cutoff(DayOf(now)) => OfDay(s, v, d)' <= daily'[s][<<v, d>>]
              /\ OfDay(s, v, d)' <= DailyLimit
  <2>1. /\ d >= Cutoff(DayOf(now)) => OfDay(s, v, d) <= daily[s][<<v, d>>]
        /\ OfDay(s, v, d) <= DailyLimit
    BY DEF LimitInv, Backed, LimitsHeld
  <2>2. OfDay(s, v, d) \in Nat /\ daily[s][<<v, d>>] \in Nat /\ DailyLimit \in Nat
    <3>1. Hours(d) \in SUBSET Hour /\ IsFiniteSet(Hours(d)) /\ admitted[s] \in [Wallet \X Hour -> Nat]
      BY <1>3, <1>6
    <3>2. Counted(admitted[s], v, Hours(d)) \in Nat
      BY <3>1, CountedIs
    <3>3. daily[s] \in [Wallet \X Day -> Nat]
      BY <1>3
    <3> QED BY <1>7, <3>2, <3>3, QuotaAssumption
  <2>3. CASE s = r /\ v = w /\ d = D
    <3>1. OfDay(s, v, d)' = OfDay(s, v, d) + 1
      BY <1>7, <1>10, <2>3
    <3>2. daily'[s][<<v, d>>] = daily[s][<<v, d>>] + 1
      BY <1>3, <1>8, <1>9, <2>3
    <3> QED BY <1>2, <1>5, <2>1, <2>2, <2>3, <3>1, <3>2
  <2>4. CASE s = r /\ ~(v = w /\ d = D)
    <3>1. OfDay(s, v, d)' = OfDay(s, v, d) + 0
      BY <1>7, <1>10, <2>4
    <3>2. daily'[s][<<v, d>>] = daily[s][<<v, d>>]
      BY <1>3, <1>8, <1>9, <2>4
    <3> QED BY <2>1, <2>2, <3>1, <3>2
  <2>5. CASE s # r
    <3>1. OfDay(s, v, d)' = OfDay(s, v, d) /\ daily'[s][<<v, d>>] = daily[s][<<v, d>>]
      BY <1>7, <1>9, <2>5
    <3> QED BY <2>1, <3>1
  <2> QED BY <2>3, <2>4, <2>5
<1> QED BY <1>11, <1>12 DEF LimitsHeld

\* The counters after the other steps, in the buckets that may still be asked
\* for: a prune keeps them, an absorbed tick adds to them, a restart forgets
\* them with what was admitted.
LEMMA OtherBacked ==
  ASSUME Typed, LimitInv,
         NEW r \in Router,
         \/ UNCHANGED <<hourly, daily, admitted>>
         \/ Prune(r)
         \/ \E t \in ticks : Absorb(r, t)
         \/ QuotaRestart(r)
  PROVE  /\ \A s \in Router, v \in Wallet :
              /\ \A h \in Hour : h >= Cutoff(HourOf(now)) => admitted'[s][<<v, h>>] <= hourly'[s][<<v, h>>]
              /\ \A d \in Day : d >= Cutoff(DayOf(now)) => OfDay(s, v, d)' <= daily'[s][<<v, d>>]
         /\ LimitsHeld'
<1> DEFINE Hours(d) == {h \in Hour : h \div DayHours = d}
<1>1. /\ hourly \in [Router -> [Wallet \X Hour -> Nat]] /\ admitted \in [Router -> [Wallet \X Hour -> Nat]]
      /\ daily \in [Router -> [Wallet \X Day -> Nat]]
  BY DEF Typed, QuotaTyped
<1>2. \A s \in Router, v \in Wallet, d \in Day :
        OfDay(s, v, d) = Counted(admitted[s], v, Hours(d)) /\ OfDay(s, v, d)' = Counted(admitted'[s], v, Hours(d))
  BY DEF OfDay
<1>3. \A d : Hours(d) \in SUBSET Hour /\ IsFiniteSet(Hours(d))
  BY FiniteBuckets, FS_Subset
<1> HIDE DEF Hours
<1>4. \A s \in Router, v \in Wallet, d \in Day : OfDay(s, v, d) \in Nat
  <2> SUFFICES ASSUME NEW s \in Router, NEW v \in Wallet, NEW d \in Day PROVE OfDay(s, v, d) \in Nat
    OBVIOUS
  <2>1. admitted[s] \in [Wallet \X Hour -> Nat] /\ Hours(d) \in SUBSET Hour /\ IsFiniteSet(Hours(d))
    BY <1>1, <1>3
  <2>2. Counted(admitted[s], v, Hours(d)) \in Nat
    BY <2>1, CountedIs
  <2> QED BY <1>2, <2>2
<1>5. \A s \in Router, v \in Wallet :
        /\ \A h \in Hour : h >= Cutoff(HourOf(now)) => admitted[s][<<v, h>>] <= hourly[s][<<v, h>>]
        /\ \A d \in Day : d >= Cutoff(DayOf(now)) => OfDay(s, v, d) <= daily[s][<<v, d>>]
        /\ \A h \in Hour : admitted[s][<<v, h>>] <= HourlyLimit
        /\ \A d \in Day : OfDay(s, v, d) <= DailyLimit
  BY DEF LimitInv, Backed, LimitsHeld
<1>6. ASSUME UNCHANGED admitted,
             \A s \in Router, v \in Wallet :
               /\ \A h \in Hour : h >= Cutoff(HourOf(now)) =>
                    hourly'[s][<<v, h>>] \in Nat /\ hourly[s][<<v, h>>] <= hourly'[s][<<v, h>>]
               /\ \A d \in Day : d >= Cutoff(DayOf(now)) =>
                    daily'[s][<<v, d>>] \in Nat /\ daily[s][<<v, d>>] <= daily'[s][<<v, d>>]
      PROVE  /\ \A s \in Router, v \in Wallet :
                  /\ \A h \in Hour : h >= Cutoff(HourOf(now)) => admitted'[s][<<v, h>>] <= hourly'[s][<<v, h>>]
                  /\ \A d \in Day : d >= Cutoff(DayOf(now)) => OfDay(s, v, d)' <= daily'[s][<<v, d>>]
             /\ LimitsHeld'
  <2>1. \A s \in Router, v \in Wallet, d \in Day : OfDay(s, v, d)' = OfDay(s, v, d)
    BY <1>2, <1>6
  <2>2. ASSUME NEW s \in Router, NEW v \in Wallet, NEW h \in Hour
        PROVE  /\ h >= Cutoff(HourOf(now)) => admitted'[s][<<v, h>>] <= hourly'[s][<<v, h>>]
               /\ admitted'[s][<<v, h>>] <= HourlyLimit
    <3>1. admitted[s][<<v, h>>] \in Nat /\ hourly[s][<<v, h>>] \in Nat
      BY <1>1
    <3> QED BY <1>5, <1>6, <3>1
  <2>3. ASSUME NEW s \in Router, NEW v \in Wallet, NEW d \in Day
        PROVE  /\ d >= Cutoff(DayOf(now)) => OfDay(s, v, d)' <= daily'[s][<<v, d>>]
               /\ OfDay(s, v, d)' <= DailyLimit
    <3>1. OfDay(s, v, d) \in Nat /\ daily[s][<<v, d>>] \in Nat
      BY <1>1, <1>4
    <3> QED BY <1>5, <1>6, <2>1, <3>1
  <2> QED BY <2>2, <2>3 DEF LimitsHeld
<1>7. CASE UNCHANGED <<hourly, daily, admitted>>
  <2>1. \A s \in Router, v \in Wallet :
          /\ \A h \in Hour : hourly'[s][<<v, h>>] \in Nat /\ hourly[s][<<v, h>>] <= hourly'[s][<<v, h>>]
          /\ \A d \in Day : daily'[s][<<v, d>>] \in Nat /\ daily[s][<<v, d>>] <= daily'[s][<<v, d>>]
    <3>1. \A s \in Router, v \in Wallet, h \in Hour : hourly[s][<<v, h>>] \in Nat
      BY <1>1
    <3>2. \A s \in Router, v \in Wallet, d \in Day : daily[s][<<v, d>>] \in Nat
      BY <1>1
    <3> QED BY <1>7, <3>1, <3>2
  <2> QED BY <1>6, <1>7, <2>1
<1>8. CASE Prune(r)
  <2>1. /\ hourly' = [hourly EXCEPT ![r] = Pruned(hourly[r], Hour, Cutoff(HourOf(now)))]
        /\ daily' = [daily EXCEPT ![r] = Pruned(daily[r], Day, Cutoff(DayOf(now)))]
    BY <1>8, PruneIs DEF Typed
  <2>2. UNCHANGED admitted
    BY <1>8 DEF Prune
  <2>3. ASSUME NEW s \in Router, NEW v \in Wallet, NEW h \in Hour, h >= Cutoff(HourOf(now))
        PROVE  hourly'[s][<<v, h>>] \in Nat /\ hourly[s][<<v, h>>] <= hourly'[s][<<v, h>>]
    <3>1. hourly[s][<<v, h>>] \in Nat
      BY <1>1
    <3>2. hourly'[s][<<v, h>>] = hourly[s][<<v, h>>]
      BY <1>1, <2>1, <2>3 DEF Pruned
    <3> QED BY <3>1, <3>2
  <2>4. ASSUME NEW s \in Router, NEW v \in Wallet, NEW d \in Day, d >= Cutoff(DayOf(now))
        PROVE  daily'[s][<<v, d>>] \in Nat /\ daily[s][<<v, d>>] <= daily'[s][<<v, d>>]
    <3>1. daily[s][<<v, d>>] \in Nat
      BY <1>1
    <3>2. daily'[s][<<v, d>>] = daily[s][<<v, d>>]
      BY <1>1, <2>1, <2>4 DEF Pruned
    <3> QED BY <3>1, <3>2
  <2> QED BY <1>6, <2>2, <2>3, <2>4
<1>9. ASSUME NEW t \in ticks, Absorb(r, t)
      PROVE  /\ \A s \in Router, v \in Wallet :
                  /\ \A h \in Hour : h >= Cutoff(HourOf(now)) => admitted'[s][<<v, h>>] <= hourly'[s][<<v, h>>]
                  /\ \A d \in Day : d >= Cutoff(DayOf(now)) => OfDay(s, v, d)' <= daily'[s][<<v, d>>]
             /\ LimitsHeld'
  <2>1. t.wallet \in Wallet /\ t.hour \in Hour /\ t.day \in Day /\ t.count \in Nat
    BY DEF Typed, QuotaTyped, FreeTierTick
  <2>2. /\ hourly' = [hourly EXCEPT ![r][<<t.wallet, t.hour>>] = @ + t.count]
        /\ daily' = [daily EXCEPT ![r][<<t.wallet, t.day>>] = @ + t.count]
        /\ UNCHANGED admitted
    BY <1>9 DEF Absorb
  <2>3. ASSUME NEW s \in Router, NEW v \in Wallet, NEW h \in Hour
        PROVE  hourly'[s][<<v, h>>] \in Nat /\ hourly[s][<<v, h>>] <= hourly'[s][<<v, h>>]
    <3>1. hourly[s][<<v, h>>] \in Nat
      BY <1>1
    <3>2. hourly'[s][<<v, h>>] = IF s = r /\ v = t.wallet /\ h = t.hour
                                 THEN hourly[s][<<v, h>>] + t.count ELSE hourly[s][<<v, h>>]
      BY <1>1, <2>1, <2>2
    <3> QED BY <2>1, <3>1, <3>2
  <2>4. ASSUME NEW s \in Router, NEW v \in Wallet, NEW d \in Day
        PROVE  daily'[s][<<v, d>>] \in Nat /\ daily[s][<<v, d>>] <= daily'[s][<<v, d>>]
    <3>1. daily[s][<<v, d>>] \in Nat
      BY <1>1
    <3>2. daily'[s][<<v, d>>] = IF s = r /\ v = t.wallet /\ d = t.day
                                THEN daily[s][<<v, d>>] + t.count ELSE daily[s][<<v, d>>]
      BY <1>1, <2>1, <2>2
    <3> QED BY <2>1, <3>1, <3>2
  <2> QED BY <1>6, <2>2, <2>3, <2>4
<1>10. CASE QuotaRestart(r)
  <2>1. /\ hourly' = [hourly EXCEPT ![r] = FreshHours] /\ admitted' = [admitted EXCEPT ![r] = FreshHours]
        /\ daily' = [daily EXCEPT ![r] = FreshDays]
    BY <1>10 DEF QuotaRestart
  <2>2. ASSUME NEW s \in Router, NEW v \in Wallet, NEW h \in Hour
        PROVE  /\ h >= Cutoff(HourOf(now)) => admitted'[s][<<v, h>>] <= hourly'[s][<<v, h>>]
               /\ admitted'[s][<<v, h>>] <= HourlyLimit
    <3>1. CASE s = r
      <4>1. FreshHours[<<v, h>>] = 0
        BY DEF FreshHours
      <4>2. admitted'[s] = FreshHours /\ hourly'[s] = FreshHours
        BY <1>1, <2>1, <3>1
      <4> QED BY <4>1, <4>2, QuotaAssumption
    <3>2. CASE s # r
      BY <1>1, <1>5, <2>1, <3>2
    <3> QED BY <3>1, <3>2
  <2>3. ASSUME NEW s \in Router, NEW v \in Wallet, NEW d \in Day
        PROVE  /\ d >= Cutoff(DayOf(now)) => OfDay(s, v, d)' <= daily'[s][<<v, d>>]
               /\ OfDay(s, v, d)' <= DailyLimit
    <3>1. CASE s = r
      <4>1. \A h \in Hour : FreshHours[<<v, h>>] = 0
        BY DEF FreshHours
      <4>2. FreshHours \in [Wallet \X Hour -> Nat] /\ Hours(d) \in SUBSET Hour /\ IsFiniteSet(Hours(d))
        BY <1>3 DEF FreshHours
      <4>3. Counted(FreshHours, v, Hours(d)) = 0
        BY <4>1, <4>2, CountedIs
      <4>4. admitted'[s] = FreshHours /\ daily'[s] = FreshDays
        BY <1>1, <2>1, <3>1
      <4>5. FreshDays[<<v, d>>] = 0
        BY DEF FreshDays
      <4> QED BY <1>2, <4>3, <4>4, <4>5, QuotaAssumption
    <3>2. CASE s # r
      <4>1. admitted'[s] = admitted[s] /\ daily'[s] = daily[s]
        BY <1>1, <2>1, <3>2
      <4> QED BY <1>2, <1>5, <4>1
    <3> QED BY <3>1, <3>2
  <2> QED BY <2>2, <2>3 DEF LimitsHeld
<1> QED BY <1>7, <1>8, <1>9, <1>10

\* The clock goes on by a tick at a time.
LEMMA CutoffStep ==
  ASSUME NEW t \in Nat, NEW u \in Nat, u = t \/ u = t + 1
  PROVE  Cutoff(HourOf(t)) <= Cutoff(HourOf(u)) /\ Cutoff(DayOf(t)) <= Cutoff(DayOf(u))
<1>1. /\ HourOf(t) \in Nat /\ HourOf(u) \in Nat /\ HourOf(t) <= HourOf(u)
      /\ DayOf(t) \in Nat /\ DayOf(u) \in Nat /\ DayOf(t) <= DayOf(u)
  BY Buckets
<1> QED BY <1>1 DEF Cutoff

\* Which step does what to the free tier's books.
LEMMA QuotaSteps ==
  ASSUME Typed, [Next]_vars
  PROVE  \/ \E q \in Request : Consume(q) /\ ~UNCHANGED quota
         \/ /\ UNCHANGED <<now, restarts>>
            /\ \E r \in Router : \/ Emit(r) \/ Prune(r)
                                 \/ \E t \in ticks : Absorb(r, t)
                                 \/ \E w \in Wallet : Record(r, w)
         \/ \E r \in Router : Restart(r)
         \/ UNCHANGED <<quota, restarts>> /\ now' \in {now, now + 1}
<1>1. ASSUME NEW q \in Request, (\E r \in Router : Arrive(q, r)) \/ Select(q)
      PROVE  UNCHANGED <<quota, now, restarts>>
  BY <1>1 DEF Arrive, Select
<1>2. ASSUME NEW q \in Request, Consume(q) PROVE UNCHANGED <<now, restarts>>
  BY <1>2 DEF Consume
<1>3. CASE Gossip
  BY <1>3 DEF Gossip, QuotaStep
<1>4. CASE Discovery
  BY <1>4 DEF Discovery, Announce, Impersonate, Publish, Hear
<1>5. ASSUME NEW r \in Router, BreakerStep(r) PROVE UNCHANGED <<quota, now, restarts>>
  BY <1>5 DEF BreakerStep, AdvanceEpoch, Evaluate, RecordVerified, RecordFailed, RecordSlash, GuardianHalt, GuardianResume,
              EndBootstrap, ForceResume, SetBreaker
<1>6. CASE Advance
  BY <1>6 DEF Advance
<1>7. CASE UNCHANGED vars
  BY <1>7 DEF vars
<1> QED BY <1>1, <1>2, <1>3, <1>4, <1>5, <1>6, <1>7 DEF Next, Accept

\* What a router has admitted stays in its counters while they may be asked for,
\* whatever ticks and prunes come between, so that the free tier's limits hold.
LEMMA LimitStep ==
  ASSUME TypeInv, LimitInv, [Next]_vars
  PROVE  LimitInv'
<1>1. Typed /\ InTime' /\ now \in Nat
  BY InTimeStep, QuotaAssumption DEF TypeInv, LimitInv, Typed, ClockTyped
<1>2. ASSUME now' \in {now, now + 1},
             \A s \in Router, v \in Wallet :
               /\ \A h \in Hour : h >= Cutoff(HourOf(now)) => admitted'[s][<<v, h>>] <= hourly'[s][<<v, h>>]
               /\ \A d \in Day : d >= Cutoff(DayOf(now)) => OfDay(s, v, d)' <= daily'[s][<<v, d>>]
      PROVE  Backed'
  <2>1. /\ Cutoff(HourOf(now)) <= Cutoff(HourOf(now')) /\ Cutoff(DayOf(now)) <= Cutoff(DayOf(now'))
        /\ Cutoff(HourOf(now)) \in Nat /\ Cutoff(DayOf(now)) \in Nat
        /\ Cutoff(HourOf(now')) \in Nat /\ Cutoff(DayOf(now')) \in Nat
    <3>1. now' \in Nat /\ (now' = now \/ now' = now + 1)
      BY <1>1, <1>2
    <3>2. /\ HourOf(now) \in Nat /\ DayOf(now) \in Nat /\ HourOf(now') \in Nat /\ DayOf(now') \in Nat
      BY <1>1, <3>1, Buckets
    <3> QED BY <1>1, <3>1, <3>2, CutoffStep DEF Cutoff
  <2>2. \A h \in Hour : h >= Cutoff(HourOf(now')) => h >= Cutoff(HourOf(now))
    BY <2>1 DEF Hour
  <2>3. \A d \in Day : d >= Cutoff(DayOf(now')) => d >= Cutoff(DayOf(now))
    BY <2>1 DEF Day
  <2>4. Cutoff(HourOf(now))' = Cutoff(HourOf(now')) /\ Cutoff(DayOf(now))' = Cutoff(DayOf(now'))
    BY DEF Cutoff, HourOf, DayOf
  <2> QED BY <1>2, <2>2, <2>3, <2>4 DEF Backed
<1>3. ASSUME NEW q \in Request, Consume(q), ~UNCHANGED quota PROVE Backed' /\ LimitsHeld'
  <2> DEFINE r == router[q]
             w == BillingAddress(RequestOf[q].body)
             t == came[q]
  <2>1. /\ r \in Router /\ w \in Wallet /\ t \in 0..MaxNow
        /\ Check(r, w, t) = "Allowed" /\ Charge(r, w, t) /\ now' = now
    BY <1>1, <1>3, ConsumeIs DEF Consume
  <2> HIDE DEF r, w, t
  <2> QED BY <1>1, <1>2, <1>3, <2>1, ChargeBacked DEF r, t
<1>4. ASSUME NEW r \in Router, now' \in {now, now + 1},
             \/ UNCHANGED <<hourly, daily, admitted>>
             \/ Prune(r)
             \/ \E t \in ticks : Absorb(r, t)
             \/ QuotaRestart(r)
      PROVE  Backed' /\ LimitsHeld'
  BY <1>1, <1>2, <1>4, OtherBacked
<1>5. ASSUME Router = {} PROVE Backed' /\ LimitsHeld'
  BY <1>5 DEF Backed, LimitsHeld
<1>6. ASSUME NEW r \in Router, Restart(r) PROVE QuotaRestart(r) /\ now' = now + 1
  BY <1>6 DEF Restart
<1>7. ASSUME NEW r \in Router, Emit(r) \/ \E w \in Wallet : Record(r, w)
      PROVE  UNCHANGED <<hourly, daily, admitted>>
  BY <1>7 DEF Emit, Record
<1>8. Backed' /\ LimitsHeld'
  <2>1. CASE UNCHANGED quota /\ now' \in {now, now + 1}
    <3>1. UNCHANGED <<hourly, daily, admitted>>
      BY <2>1 DEF quota
    <3> QED BY <1>4, <1>5, <2>1, <3>1
  <2>2. CASE /\ UNCHANGED now
             /\ \E r \in Router : \/ Emit(r) \/ Prune(r)
                                  \/ \E t \in ticks : Absorb(r, t)
                                  \/ \E w \in Wallet : Record(r, w)
    BY <1>4, <1>7, <2>2
  <2>3. ASSUME NEW r \in Router, Restart(r) PROVE Backed' /\ LimitsHeld'
    BY <1>4, <1>6, <2>3
  <2> QED BY <1>1, <1>3, <2>1, <2>2, <2>3, QuotaSteps
<1> QED BY <1>1, <1>8 DEF LimitInv

-----------------------------------------------------------------------------
(* What is charged *)

\* The requests of a wallet that the enforced quota gates, those of them that
\* got past it, and those a restart took on the way.
Free(w) == {q \in Request : BillingAddress(RequestOf[q].body) = w /\ RequestOf[q].policy = "Enforce"}

PastQuota(w) == {q \in Free(w) : stage[q] \in {"charged", "no_candidate", "dispatched"}}

LostOnTheWay(w) == {q \in Free(w) : stage[q] = "lost"}

\* A restart moves requests that were past the quota to the lost ones, and may
\* lose others: what was charged stays between the two counts.
LEMMA Bounded ==
  ASSUME NEW P, IsFiniteSet(P), NEW L, IsFiniteSet(L), P \cap L = {},
         NEW Q, NEW M, IsFiniteSet(M), Q \subseteq P, P \cup L \subseteq Q \cup M, Q \cap M = {},
         NEW c \in Cardinality(P)..(Cardinality(P) + Cardinality(L))
  PROVE  c \in Cardinality(Q)..(Cardinality(Q) + Cardinality(M))
<1>1. IsFiniteSet(Q) /\ Cardinality(Q) <= Cardinality(P)
  BY FS_Subset
<1>2. /\ IsFiniteSet(Q \cup M) /\ Cardinality(Q \cup M) = Cardinality(Q) + Cardinality(M) - Cardinality(Q \cap M)
      /\ IsFiniteSet(P \cup L) /\ Cardinality(P \cup L) = Cardinality(P) + Cardinality(L) - Cardinality(P \cap L)
  BY <1>1, FS_Union
<1>3. Cardinality(P \cup L) <= Cardinality(Q \cup M)
  BY <1>2, FS_Subset
<1>4. /\ Cardinality(P) \in Nat /\ Cardinality(L) \in Nat /\ Cardinality(Q) \in Nat /\ Cardinality(M) \in Nat
      /\ Cardinality(P \cap L) = 0 /\ Cardinality(Q \cap M) = 0
  BY <1>1, FS_CardinalityType, FS_EmptySet
<1> QED BY <1>1, <1>2, <1>3, <1>4

\* Only a job that was let through the enforced quota is charged, once and to
\* its wallet (Router::accept, FreeTierTracker::consume).
LEMMA ChargedOnceStep ==
  ASSUME Typed, ChargedOnce, [Next]_vars
  PROVE  ChargedOnce'
<1> DEFINE InPast == {"charged", "no_candidate", "dispatched"}
<1>1. ChargedOnce' = \A w \in Wallet :
        charged'[w] \in Cardinality(PastQuota(w)')..(Cardinality(PastQuota(w)') + Cardinality(LostOnTheWay(w)'))
  BY DEF ChargedOnce, PastQuota, LostOnTheWay, Free
<1>2. \A w \in Wallet :
        charged[w] \in Cardinality(PastQuota(w))..(Cardinality(PastQuota(w)) + Cardinality(LostOnTheWay(w)))
  BY DEF ChargedOnce, PastQuota, LostOnTheWay, Free
<1>3. ASSUME NEW w
      PROVE  /\ IsFiniteSet(PastQuota(w)) /\ IsFiniteSet(LostOnTheWay(w)) /\ PastQuota(w) \cap LostOnTheWay(w) = {}
             /\ IsFiniteSet(LostOnTheWay(w)') /\ PastQuota(w)' \cap LostOnTheWay(w)' = {}
  <2>1. /\ PastQuota(w) \subseteq Request /\ LostOnTheWay(w) \subseteq Request /\ LostOnTheWay(w)' \subseteq Request
        /\ PastQuota(w) \cap LostOnTheWay(w) = {} /\ PastQuota(w)' \cap LostOnTheWay(w)' = {}
    BY DEF PastQuota, LostOnTheWay, Free
  <2> QED BY <2>1, IntakeAssumption, FS_Subset
<1>4. ASSUME NEW w \in Wallet, charged'[w] = charged[w],
             \A q \in Free(w) : /\ stage'[q] \in InPast => stage[q] \in InPast
                                /\ stage[q] \in InPast => stage'[q] \in InPast \cup {"lost"}
                                /\ stage[q] = "lost" => stage'[q] = "lost"
      PROVE  charged'[w] \in Cardinality(PastQuota(w)')..(Cardinality(PastQuota(w)') + Cardinality(LostOnTheWay(w)'))
  <2>1. PastQuota(w)' \subseteq PastQuota(w) /\ PastQuota(w) \cup LostOnTheWay(w) \subseteq PastQuota(w)' \cup LostOnTheWay(w)'
    BY <1>4 DEF PastQuota, LostOnTheWay, Free
  <2> DEFINE P == PastQuota(w)
             L == LostOnTheWay(w)
             Q == PastQuota(w)'
             M == LostOnTheWay(w)'
             c == charged[w]
  <2>2. /\ IsFiniteSet(P) /\ IsFiniteSet(L) /\ P \cap L = {} /\ IsFiniteSet(M) /\ Q \cap M = {}
        /\ Q \subseteq P /\ P \cup L \subseteq Q \cup M /\ c \in Cardinality(P)..(Cardinality(P) + Cardinality(L))
    BY <1>2, <1>3, <2>1
  <2> HIDE DEF P, L, Q, M, c
  <2>3. c \in Cardinality(Q)..(Cardinality(Q) + Cardinality(M))
    BY <2>2, Bounded
  <2> QED BY <1>4, <2>3 DEF c, Q, M
<1>5. ASSUME UNCHANGED charged,
             \A q \in Request : /\ stage'[q] \in InPast => stage[q] \in InPast
                                /\ stage[q] \in InPast => stage'[q] \in InPast \cup {"lost"}
                                /\ stage[q] = "lost" => stage'[q] = "lost"
      PROVE  ChargedOnce'
  BY <1>1, <1>4, <1>5 DEF Free
<1>6. ASSUME NEW q \in Request, (\E r \in Router : Arrive(q, r)) \/ Select(q) PROVE ChargedOnce'
  BY <1>5, <1>6 DEF Arrive, Select, quota, Typed, IntakeTyped
<1>7. ASSUME NEW q \in Request, Consume(q) PROVE ChargedOnce'
  <2> DEFINE r == router[q]
             v == BillingAddress(RequestOf[q].body)
  <2>1. /\ v \in Wallet /\ stage[q] = "verified" /\ charged \in [Wallet -> Nat]
        /\ \A p \in Request \ {q} : stage'[p] = stage[p]
    BY <1>7, ConsumeIs DEF Consume, Typed, QuotaTyped, IntakeTyped
  <2>2. CASE Gated(q) /\ Charge(r, v, came[q]) /\ stage' = [stage EXCEPT ![q] = "charged"]
    <3>1. stage'[q] = "charged" /\ charged' = [charged EXCEPT ![v] = @ + 1]
      BY <2>2 DEF Charge, Typed, IntakeTyped
    <3>2. q \in Free(v) /\ \A w : w # v => q \notin Free(w)
      BY <2>2 DEF Free, Gated
    <3> HIDE DEF v
    <3>3. charged'[v] = charged[v] + 1 /\ \A w \in Wallet \ {v} : charged'[w] = charged[w]
      BY <2>1, <3>1
    <3>4. PastQuota(v)' = PastQuota(v) \cup {q} /\ LostOnTheWay(v)' = LostOnTheWay(v) /\ q \notin PastQuota(v)
      BY <2>1, <3>1, <3>2 DEF PastQuota, LostOnTheWay, Free
    <3>5. charged'[v] \in Cardinality(PastQuota(v)')..(Cardinality(PastQuota(v)') + Cardinality(LostOnTheWay(v)'))
      <4> DEFINE P == PastQuota(v)
                 L == LostOnTheWay(v)
                 c == charged[v]
      <4>1. IsFiniteSet(P) /\ IsFiniteSet(L) /\ q \notin P /\ c \in Cardinality(P)..(Cardinality(P) + Cardinality(L))
        BY <1>2, <1>3, <2>1, <3>4
      <4> HIDE DEF P, L, c
      <4>2. Cardinality(P \cup {q}) = Cardinality(P) + 1 /\ Cardinality(P) \in Nat /\ Cardinality(L) \in Nat
        BY <4>1, FS_AddElement, FS_CardinalityType
      <4>3. c + 1 \in Cardinality(P \cup {q})..(Cardinality(P \cup {q}) + Cardinality(L))
        BY <4>1, <4>2
      <4> QED BY <3>3, <3>4, <4>3 DEF P, L, c
    <3>6. ASSUME NEW w \in Wallet \ {v}
          PROVE  charged'[w] \in Cardinality(PastQuota(w)')..(Cardinality(PastQuota(w)') + Cardinality(LostOnTheWay(w)'))
      <4>1. \A p \in Free(w) : stage'[p] = stage[p]
        BY <2>1, <3>2 DEF Free
      <4> QED BY <1>4, <3>3, <4>1
    <3> QED BY <1>1, <3>5, <3>6
  <2>3. CASE ~Gated(q) /\ UNCHANGED quota /\ stage' = [stage EXCEPT ![q] = "charged"]
    <3>1. \A w \in Wallet : q \notin Free(w)
      BY <2>3 DEF Free, Gated
    <3>2. \A w \in Wallet : \A p \in Free(w) : stage'[p] = stage[p]
      BY <2>1, <3>1 DEF Free
    <3>3. UNCHANGED charged
      BY <2>3 DEF quota
    <3> QED BY <1>1, <1>4, <3>2, <3>3
  <2>4. CASE UNCHANGED quota /\ stage' = [stage EXCEPT ![q] = "exhausted"]
    <3>1. UNCHANGED charged /\ stage'[q] = "exhausted"
      BY <2>4 DEF quota, Typed, IntakeTyped
    <3> QED BY <1>5, <2>1, <3>1
  <2> QED BY <1>7, <2>2, <2>3, <2>4, ConsumeIs
<1>8. CASE UNCHANGED <<stage, charged>>
  BY <1>5, <1>8
<1>9. ASSUME NEW r \in Router, Restart(r) PROVE ChargedOnce'
  <2>1. stage' = [q \in Request |-> IF router[q] = r /\ InFlight(q) THEN "lost" ELSE stage[q]] /\ UNCHANGED charged
    BY <1>9 DEF Restart, QuotaRestart
  <2>2. \A q \in Request : stage'[q] = stage[q] \/ (stage'[q] = "lost" /\ stage[q] \in {"verified", "charged"})
    BY <2>1 DEF InFlight
  <2> QED BY <1>5, <2>1, <2>2
<1>10. CASE Gossip
  BY <1>8, <1>10 DEF Gossip, QuotaStep, Record, Emit, Absorb, Prune, intake
<1>11. CASE Discovery
  BY <1>8, <1>11 DEF Discovery, Announce, Impersonate, Publish, Hear, intake, quota
<1>12. ASSUME NEW r \in Router, BreakerStep(r) PROVE ChargedOnce'
  BY <1>8, <1>12 DEF BreakerStep, AdvanceEpoch, Evaluate, RecordVerified, RecordFailed, RecordSlash, GuardianHalt, GuardianResume,
                     EndBootstrap, ForceResume, SetBreaker, intake, quota
<1>13. CASE Advance \/ UNCHANGED vars
  BY <1>8, <1>13 DEF Advance, vars, intake, quota
<1> QED BY <1>6, <1>7, <1>9, <1>10, <1>11, <1>12, <1>13 DEF Next, Accept

-----------------------------------------------------------------------------
(* What the ticks tell *)

\* What ticks tell of a wallet is a natural number, more ticks tell no less, a
\* further tick adds its count, and ticks of other wallets tell nothing.
LEMMA ToldIs ==
  ASSUME NEW T \in SUBSET FreeTierTick, IsFiniteSet(T), NEW w \in Wallet
  PROVE  /\ Told(w, T) \in Nat
         /\ \A S \in SUBSET T : Told(w, S) <= Told(w, T)
         /\ \A t \in FreeTierTick \ T :
              Told(w, T \cup {t}) = Told(w, T) + (IF t.wallet = w THEN t.count ELSE 0)
         /\ (\A t \in T : t.wallet # w) => Told(w, T) = 0
<1> DEFINE f == [t \in FreeTierTick |-> IF t.wallet = w THEN t.count ELSE 0]
<1>1. \A t \in FreeTierTick : f[t] = IF t.wallet = w THEN t.count ELSE 0
  OBVIOUS
<1>2. \A t \in FreeTierTick : f[t] \in Nat
  BY <1>1 DEF FreeTierTick
<1>3. ASSUME NEW S \in SUBSET FreeTierTick, IsFiniteSet(S)
      PROVE  Told(w, S) = SumFunctionOnSet(f, S)
  <2> DEFINE g == [t \in S |-> IF t.wallet = w THEN t.count ELSE 0]
  <2>1. Told(w, S) = SumFunctionOnSet(g, S)
    BY DEF Told
  <2>2. \A t \in S : g[t] = f[t]
    BY <1>1
  <2> HIDE DEF f, g
  <2>3. Sums(f, S) /\ \A t \in S : f[t] = g[t]
    BY <1>2, <1>3, <2>2 DEF Sums
  <2> QED BY <2>1, <2>3, SumSame
<1> HIDE DEF f
<1>4. \A t \in T : f[t] \in Nat
  BY <1>2
<1>5. SumFunctionOnSet(f, T) \in Nat /\ \A S \in SUBSET T : SumFunctionOnSet(f, S) <= SumFunctionOnSet(f, T)
  BY <1>4, SumNat
<1>6. ASSUME NEW S \in SUBSET T PROVE Told(w, S) = SumFunctionOnSet(f, S)
  BY <1>3, FS_Subset
<1>7. ASSUME NEW t \in FreeTierTick \ T
      PROVE  Told(w, T \cup {t}) = Told(w, T) + (IF t.wallet = w THEN t.count ELSE 0)
  <2>1. IsFiniteSet(T \cup {t}) /\ T \cup {t} \in SUBSET FreeTierTick
    BY FS_AddElement
  <2>2. Told(w, T \cup {t}) = SumFunctionOnSet(f, T \cup {t})
    BY <1>3, <2>1
  <2>3. Sums(f, T) /\ f[t] \in Int /\ t \notin T
    BY <1>2, <1>4 DEF Sums
  <2>4. SumFunctionOnSet(f, T \cup {t}) = f[t] + SumFunctionOnSet(f, T)
    BY <2>3, SumAdd
  <2>5. f[t] \in Nat /\ f[t] = IF t.wallet = w THEN t.count ELSE 0
    BY <1>1, <1>2
  <2> QED BY <1>3, <1>5, <2>2, <2>4, <2>5
<1>8. ASSUME \A t \in T : t.wallet # w PROVE Told(w, T) = 0
  <2>1. Sums(f, T) /\ \A t \in T : f[t] = 0 * f[t]
    <3>1. \A t \in T : f[t] = 0
      BY <1>1, <1>8
    <3> QED BY <1>4, <3>1 DEF Sums
  <2>2. SumFunctionOnSet(f, T) = 0 * SumFunctionOnSet(f, T)
    BY <2>1, SumScale
  <2> QED BY <1>3, <1>5, <2>2
<1> QED BY <1>3, <1>5, <1>6, <1>7, <1>8

\* Ticks that are not among others tell their share on top.
LEMMA ToldUnion ==
  ASSUME NEW T \in SUBSET FreeTierTick, IsFiniteSet(T), NEW E \in SUBSET FreeTierTick, IsFiniteSet(E),
         T \cap E = {}, NEW w \in Wallet
  PROVE  Told(w, T \cup E) = Told(w, T) + Told(w, E)
<1> DEFINE P == {S \in SUBSET E : Told(w, T \cup S) = Told(w, T) + Told(w, S)}
<1>1. Told(w, T) \in Nat
  BY ToldIs
<1>2. {} \in P
  <2>1. Told(w, {}) = 0
    BY ToldIs, FS_EmptySet
  <2>2. T \cup {} = T
    OBVIOUS
  <2> QED BY <1>1, <2>1, <2>2
<1>3. ASSUME NEW S \in SUBSET E, NEW t \in E \ S, S \in P PROVE S \cup {t} \in P
  <2>1. IsFiniteSet(S) /\ IsFiniteSet(T \cup S) /\ T \cup S \in SUBSET FreeTierTick
    BY FS_Subset, FS_Union
  <2>2. t \in FreeTierTick \ S /\ t \in FreeTierTick \ (T \cup S)
    OBVIOUS
  <2> DEFINE c == IF t.wallet = w THEN t.count ELSE 0
  <2>3. c \in Nat
    BY <2>2 DEF FreeTierTick
  <2>4. Told(w, S \cup {t}) = Told(w, S) + c /\ Told(w, S) \in Nat
    BY <2>1, <2>2, ToldIs
  <2>5. Told(w, (T \cup S) \cup {t}) = Told(w, T \cup S) + c
    BY <2>1, <2>2, ToldIs
  <2>6. (T \cup S) \cup {t} = T \cup (S \cup {t}) /\ Told(w, T \cup S) = Told(w, T) + Told(w, S)
    BY <1>3
  <2> HIDE DEF c
  <2>7. Told(w, T \cup (S \cup {t})) = Told(w, T) + Told(w, S \cup {t})
    BY <1>1, <2>3, <2>4, <2>5, <2>6
  <2> QED BY <2>7
<1>4. E \in P
  <2> HIDE DEF P
  <2> QED BY <1>2, <1>3, SetInduction
<1> QED BY <1>4

\* One heartbeat of the emitter tells of every wallet exactly what was pending
\* of it: the order lists every wallet with a record, and none twice.
LEMMA EmittedTells ==
  ASSUME Typed, NEW r \in Router, NEW order \in Orders(Consumers(r)), NEW w \in Wallet
  PROVE  Told(w, Emitted(r, order)) = Pending(r, w)
<1> DEFINE E == Emitted(r, order)
           ws == Consumers(r)
           n == Cardinality(ws)
<1>1. /\ DOMAIN order = 1..Len(order) /\ Len(order) = n /\ n \in Nat
      /\ \A i \in DOMAIN order : order[i] \in Wallet /\ pending[r][order[i]] \in Consumption
      /\ IsFiniteSet(E) /\ E \subseteq FreeTierTick
  BY Drained DEF Typed
<1>2. E = {Tick(r, order[i], next_nonce[r] + i - 1) : i \in 1..n}
  BY <1>1 DEF Emitted
<1>3. \A i \in 1..n : /\ Tick(r, order[i], next_nonce[r] + i - 1).wallet = order[i]
                      /\ Tick(r, order[i], next_nonce[r] + i - 1).count = pending[r][order[i]].count
  BY DEF Tick
<1>4. CASE pending[r][w] = None
  <2>1. \A i \in 1..n : order[i] # w
    BY <1>4 DEF Orders, Consumers
  <2>2. \A t \in E : t.wallet # w
    BY <1>2, <1>3, <2>1
  <2>3. Told(w, E) = 0
    <3> HIDE DEF E
    <3> QED BY <1>1, <2>2, ToldIs
  <2> QED BY <1>4, <2>3 DEF Pending
<1>5. CASE pending[r][w] # None
  <2>1. w \in ws
    BY <1>5 DEF Consumers
  <2>2. PICK i \in 1..n : order[i] = w
    <3>1. order \in [1..n -> ws] /\ \A i, j \in 1..n : order[i] = order[j] => i = j
      BY <1>1 DEF Orders, IsInjective
    <3>2. IsFiniteSet(ws)
      BY QuotaAssumption, FS_Subset DEF Consumers
    <3>3. IsFiniteSet(1..n) /\ Cardinality(1..n) = n
      BY <1>1, FS_Interval
    <3> HIDE DEF ws
    <3>4. order \in Injection(1..n, ws)
      BY <3>1 DEF Injection, IsInjective
    <3>5. order \in Surjection(1..n, ws)
      BY <3>2, <3>3, <3>4, FS_Injection
    <3> QED BY <2>1, <3>5 DEF Surjection
  <2>3. \A j \in 1..n : order[j] = w => j = i
    BY <1>1, <2>2 DEF Orders, IsInjective
  <2> DEFINE t == Tick(r, order[i], next_nonce[r] + i - 1)
             R == E \ {t}
  <2>4. t \in E /\ t.wallet = w /\ t.count = pending[r][w].count
    BY <1>2, <1>3, <2>2
  <2>5. \A u \in R : u.wallet # w
    <3> SUFFICES ASSUME NEW j \in 1..n, Tick(r, order[j], next_nonce[r] + j - 1) # t
                 PROVE  Tick(r, order[j], next_nonce[r] + j - 1).wallet # w
      BY <1>2
    <3>1. j # i
      OBVIOUS
    <3> QED BY <1>3, <2>3, <3>1
  <2> HIDE DEF t, E
  <2>6. IsFiniteSet(R) /\ R \in SUBSET FreeTierTick /\ t \in FreeTierTick \ R /\ E = R \cup {t}
    BY <1>1, <2>4, FS_Subset
  <2> HIDE DEF R
  <2>7. Told(w, R) = 0 /\ Told(w, R \cup {t}) = Told(w, R) + t.count
    BY <2>4, <2>5, <2>6, ToldIs
  <2>8. t.count \in Nat
    BY <1>1, <2>4 DEF FreeTierTick
  <2>9. Told(w, E) = t.count
    BY <2>6, <2>7, <2>8
  <2> QED BY <1>5, <2>4, <2>9 DEF Pending, E
<1> QED BY <1>4, <1>5

-----------------------------------------------------------------------------
(* No job is counted twice *)

\* What is pending of a wallet at the other routers stays while one router's
\* record changes.
LEMMA UntoldElsewhere ==
  ASSUME QuotaTyped, QuotaTyped', NEW r \in Router, NEW w \in Wallet,
         \A s \in Router \ {r} : pending'[s] = pending[s] /\ due'[s] = due[s]
  PROVE  /\ AllUntold(w)' + Untold(r, w) = AllUntold(w) + Untold(r, w)'
         /\ Untold(r, w) \in Nat /\ Untold(r, w)' \in Nat
         /\ AllUntold(w) \in Nat /\ AllUntold(w)' \in Nat
<1> DEFINE f == [s \in Router |-> Untold(s, w)]
           g == [s \in Router |-> Untold(s, w)']
<1>1. AllUntold(w) = SumFunctionOnSet(f, Router) /\ AllUntold(w)' = SumFunctionOnSet(g, Router)
  BY DEF AllUntold
<1>2. \A s \in Router : Untold(s, w) \in Nat /\ Untold(s, w)' \in Nat
  <2>1. \A s \in Router : Pending(s, w) \in Nat /\ Pending(s, w)' \in Nat
    BY DEF QuotaTyped, Pending, Consumption
  <2>2. \A s \in Router : due[s][w] \in Nat /\ due'[s][w] \in Nat
    BY DEF QuotaTyped
  <2> QED BY <2>1, <2>2 DEF Untold
<1>3. \A s \in Router \ {r} : Untold(s, w)' = Untold(s, w)
  BY DEF Untold, Pending
<1>4. /\ \A s \in Router : f[s] = Untold(s, w) /\ g[s] = Untold(s, w)'
      /\ \A s \in Router : f[s] \in Nat /\ g[s] \in Nat
      /\ \A s \in Router \ {r} : f[s] = g[s]
  BY <1>2, <1>3
<1> HIDE DEF f, g
<1>5. IsFiniteSet(Router) /\ Sums(f, Router) /\ Sums(g, Router) /\ Sums(f, Router \ {r})
  BY <1>4, QuotaAssumption, FS_Subset DEF Sums
<1>6. /\ SumFunctionOnSet(f, Router) = f[r] + SumFunctionOnSet(f, Router \ {r})
      /\ SumFunctionOnSet(g, Router) = g[r] + SumFunctionOnSet(g, Router \ {r})
  BY <1>5, SumRemove
<1>7. SumFunctionOnSet(f, Router \ {r}) = SumFunctionOnSet(g, Router \ {r})
  BY <1>4, <1>5, SumSame
<1>8. /\ SumFunctionOnSet(f, Router) \in Nat /\ SumFunctionOnSet(g, Router) \in Nat
      /\ SumFunctionOnSet(f, Router \ {r}) \in Int
  BY <1>4, <1>5, SumNat, SumInt
<1>9. f[r] \in Nat /\ g[r] \in Nat /\ f[r] = Untold(r, w) /\ g[r] = Untold(r, w)'
  BY <1>4
<1> QED BY <1>1, <1>6, <1>7, <1>8, <1>9

\* No router has more of a wallet to tell than all have together.
LEMMA UntoldPart ==
  ASSUME QuotaTyped, NEW w \in Wallet
  PROVE  /\ AllUntold(w) \in Nat
         /\ \A r \in Router : Untold(r, w) \in Nat /\ Untold(r, w) <= AllUntold(w)
<1> DEFINE f == [s \in Router |-> Untold(s, w)]
<1>1. \A s \in Router : f[s] \in Nat /\ f[s] = Untold(s, w)
  BY DEF QuotaTyped, Untold, Pending, Consumption
<1>2. AllUntold(w) = SumFunctionOnSet(f, Router)
  BY DEF AllUntold
<1> HIDE DEF f
<1>3. SumFunctionOnSet(f, Router) \in Nat /\ \A s \in Router : f[s] <= SumFunctionOnSet(f, Router)
  BY <1>1, QuotaAssumption, SumNat
<1> QED BY <1>1, <1>2, <1>3

\* What a router knows are ticks of the mesh.
LEMMA KnownTicks ==
  ASSUME QuotaTyped, NEW r \in Router
  PROVE  /\ Known(r) \in SUBSET ticks /\ Known(r) \in SUBSET FreeTierTick /\ IsFiniteSet(Known(r))
         /\ ticks \in SUBSET FreeTierTick /\ IsFiniteSet(ticks)
         /\ \A w \in Wallet : Told(w, Known(r)) \in Nat /\ Told(w, ticks) \in Nat
                              /\ Told(w, Known(r)) <= Told(w, ticks)
<1>1. ticks \in SUBSET FreeTierTick /\ IsFiniteSet(ticks) /\ Known(r) \in SUBSET ticks
  BY DEF QuotaTyped, Known
<1>2. IsFiniteSet(Known(r)) /\ Known(r) \in SUBSET FreeTierTick
  BY <1>1, FS_Subset
<1> QED BY <1>1, <1>2, ToldIs

\* A router's counters of a wallet are natural numbers.
LEMMA CountersAre ==
  ASSUME Typed
  PROVE  \A r \in Router, w \in Wallet :
           Counted(hourly[r], w, Hour) \in Nat /\ Counted(daily[r], w, Day) \in Nat
<1> SUFFICES ASSUME NEW r \in Router, NEW w \in Wallet
             PROVE  Counted(hourly[r], w, Hour) \in Nat /\ Counted(daily[r], w, Day) \in Nat
  OBVIOUS
<1>1. /\ hourly[r] \in [Wallet \X Hour -> Nat] /\ Hour \in SUBSET Hour /\ IsFiniteSet(Hour)
      /\ daily[r] \in [Wallet \X Day -> Nat] /\ Day \in SUBSET Day /\ IsFiniteSet(Day)
  BY FiniteBuckets DEF Typed, QuotaTyped
<1>2. Counted(hourly[r], w, Hour) \in Nat
  BY <1>1, CountedIs
<1>3. Counted(daily[r], w, Day) \in Nat
  BY <1>1, CountedIs
<1> QED BY <1>2, <1>3

\* Nothing is overcharged while every counted job is in a tick or pending.
LEMMA TickInvSuffices ==
  ASSUME Typed, TickInv
  PROVE  NotOvercharged
<1> SUFFICES ASSUME NEW r \in Router, NEW w \in Wallet, Len(absorbed[r]) <= NonceCap
             PROVE  Counted(hourly[r], w, Hour) <= charged[w] /\ Counted(daily[r], w, Day) <= charged[w]
  BY DEF NotOvercharged
<1>1. /\ Counted(hourly[r], w, Hour) <= Told(w, Known(r)) + Untold(r, w)
      /\ Counted(daily[r], w, Day) <= Told(w, Known(r)) + Untold(r, w)
      /\ Told(w, ticks) + AllUntold(w) <= charged[w]
  BY DEF TickInv, CountersTold, ToldOf, TicksCharged
<1>2. Counted(hourly[r], w, Hour) \in Nat /\ Counted(daily[r], w, Day) \in Nat
  BY CountersAre
<1>3. charged[w] \in Nat
  BY DEF Typed, QuotaTyped
<1>4. Told(w, Known(r)) \in Nat /\ Told(w, ticks) \in Nat /\ Told(w, Known(r)) <= Told(w, ticks)
  BY KnownTicks DEF Typed
<1>5. Untold(r, w) \in Nat /\ AllUntold(w) \in Nat /\ Untold(r, w) <= AllUntold(w)
  BY UntoldPart DEF Typed
<1> QED BY <1>1, <1>2, <1>3, <1>4, <1>5

\* A router that a step leaves alone: more ticks may be on the mesh.
LEMMA ToldKept ==
  ASSUME Typed, Typed', NEW s \in Router, ToldOf(s), ticks \subseteq ticks',
         hourly'[s] = hourly[s], daily'[s] = daily[s], due'[s] = due[s], pending'[s] = pending[s],
         absorbed'[s] = absorbed[s]
  PROVE  ToldOf(s)'
<1>1. Known(s) \subseteq Known(s)'
  BY DEF Known
<1>2. Known(s)' \in SUBSET FreeTierTick /\ IsFiniteSet(Known(s)')
  <2>1. ticks' \in SUBSET FreeTierTick /\ IsFiniteSet(ticks') /\ Known(s)' \in SUBSET ticks'
    BY DEF Typed, QuotaTyped, Known
  <2> QED BY <2>1, FS_Subset
<1>3. ASSUME NEW w \in Wallet PROVE Told(w, Known(s)) <= Told(w, Known(s)') /\ Told(w, Known(s)') \in Nat
  <2> DEFINE K == Known(s)
             L == Known(s)'
  <2>1. L \in SUBSET FreeTierTick /\ IsFiniteSet(L) /\ K \in SUBSET L
    BY <1>1, <1>2
  <2> HIDE DEF K, L
  <2>2. Told(w, K) <= Told(w, L) /\ Told(w, L) \in Nat
    BY <2>1, ToldIs
  <2> QED BY <2>2 DEF K, L
<1>4. \A w \in Wallet : /\ Told(w, Known(s)) \in Nat /\ Untold(s, w) \in Nat /\ Untold(s, w)' = Untold(s, w)
                        /\ Counted(hourly[s], w, Hour) \in Nat /\ Counted(daily[s], w, Day) \in Nat
  BY KnownTicks, UntoldPart, CountersAre DEF Typed, Untold, Pending
<1>5. ToldOf(s)' = (Len(absorbed'[s]) <= NonceCap =>
                      \A w \in Wallet :
                        /\ Counted(hourly'[s], w, Hour) <= Told(w, Known(s)') + Untold(s, w)'
                        /\ Counted(daily'[s], w, Day) <= Told(w, Known(s)') + Untold(s, w)')
  BY DEF ToldOf
<1>6. ASSUME NEW w \in Wallet, Len(absorbed[s]) <= NonceCap
      PROVE  /\ Counted(hourly[s], w, Hour) <= Told(w, Known(s)') + Untold(s, w)
             /\ Counted(daily[s], w, Day) <= Told(w, Known(s)') + Untold(s, w)
  BY <1>3, <1>4, <1>6 DEF ToldOf
<1> QED BY <1>4, <1>5, <1>6

\* A charged job is in the counters and still to be told of (consume).
LEMMA TickCharge ==
  ASSUME Typed, Typed', TickInv, UNCHANGED restarts,
         NEW r \in Router, NEW v \in Wallet, NEW t \in 0..MaxNow, Charge(r, v, t)
  PROVE  TickInv'
<1>1. UNCHANGED <<next_nonce, recent, ticks, absorbed>>
  BY DEF Charge
<1>2. NoncesFresh' /\ Remembers'
  BY <1>1 DEF TickInv, NoncesFresh, Remembers
<1>3. HourOf(t) \in Hour /\ DayOf(t) \in Day
  BY Buckets
<1>4. /\ due'[r][v] = due[r][v] + 1 /\ \A w \in Wallet \ {v} : due'[r][w] = due[r][w]
      /\ \A s \in Router \ {r} : due'[s] = due[s]
      /\ charged'[v] = charged[v] + 1 /\ \A w \in Wallet \ {v} : charged'[w] = charged[w]
      /\ UNCHANGED pending
  BY DEF Charge, Typed, QuotaTyped
<1>5. Untold(r, v)' = Untold(r, v) + 1 /\ \A w \in Wallet \ {v} : Untold(r, w)' = Untold(r, w)
  <2>1. \A w \in Wallet : Pending(r, w)' = Pending(r, w) /\ Pending(r, w) \in Nat /\ due[r][w] \in Nat
    BY <1>4 DEF Pending, Typed, QuotaTyped, Consumption
  <2> QED BY <1>4, <2>1 DEF Untold
<1>6. TicksCharged'
  <2> SUFFICES ASSUME NEW w \in Wallet PROVE Told(w, ticks) + AllUntold(w)' <= charged'[w]
    BY <1>1 DEF TicksCharged, Told
  <2>1. /\ AllUntold(w)' + Untold(r, w) = AllUntold(w) + Untold(r, w)'
        /\ Untold(r, w) \in Nat /\ Untold(r, w)' \in Nat
        /\ AllUntold(w) \in Nat /\ AllUntold(w)' \in Nat
    BY <1>4, UntoldElsewhere DEF Typed
  <2>2. Told(w, ticks) + AllUntold(w) <= charged[w] /\ Told(w, ticks) \in Nat /\ charged[w] \in Nat
    BY KnownTicks DEF TickInv, TicksCharged, Typed, QuotaTyped
  <2> QED BY <1>4, <1>5, <2>1, <2>2
<1>7. ASSUME NEW s \in Router PROVE ToldOf(s)'
  <2>1. CASE s # r
    <3>1. hourly'[s] = hourly[s] /\ daily'[s] = daily[s]
      BY <2>1 DEF Charge, Typed, QuotaTyped
    <3> QED BY <1>1, <1>4, <2>1, <3>1, ToldKept DEF TickInv, CountersTold
  <2>2. CASE s = r
    <3> DEFINE f == hourly[r]
               g == hourly'[r]
               e == daily[r]
               h == daily'[r]
               H == HourOf(t)
               D == DayOf(t)
               n == 1
    <3>1. Raises(f, g, v, H, n) /\ Raises(e, h, v, D, n)
      BY <1>3 DEF Charge, Typed, QuotaTyped, Raises
    <3>2. /\ f \in Counts(Hour) /\ e \in Counts(Day) /\ Hour \in SUBSET Hour /\ Day \in SUBSET Day
          /\ IsFiniteSet(Hour) /\ IsFiniteSet(Day) /\ n \in Nat /\ H \in Hour /\ D \in Day
      BY <1>3, FiniteBuckets DEF Typed, QuotaTyped, Counts
    <3> HIDE DEF f, g, e, h, H, D, n
    <3>3. /\ Counted(g, v, Hour) = Counted(f, v, Hour) + n
          /\ \A w \in Wallet \ {v} : Counted(g, w, Hour) = Counted(f, w, Hour)
      BY <3>1, <3>2, CountedUp
    <3>4. /\ Counted(h, v, Day) = Counted(e, v, Day) + n
          /\ \A w \in Wallet \ {v} : Counted(h, w, Day) = Counted(e, w, Day)
      BY <3>1, <3>2, CountedUp
    <3>5. Known(r)' = Known(r) /\ absorbed'[r] = absorbed[r]
      BY <1>1 DEF Known
    <3>6. ASSUME NEW w \in Wallet, Len(absorbed[r]) <= NonceCap
          PROVE  /\ Counted(g, w, Hour) <= Told(w, Known(r)) + Untold(r, w)'
                 /\ Counted(h, w, Day) <= Told(w, Known(r)) + Untold(r, w)'
      <4>1. /\ Counted(f, w, Hour) <= Told(w, Known(r)) + Untold(r, w)
            /\ Counted(e, w, Day) <= Told(w, Known(r)) + Untold(r, w)
        BY <3>6 DEF TickInv, CountersTold, ToldOf, f, e
      <4>2. Counted(f, w, Hour) \in Nat /\ Counted(e, w, Day) \in Nat
        BY CountersAre DEF f, e
      <4>3. Told(w, Known(r)) \in Nat /\ Untold(r, w) \in Nat /\ n = 1
        BY KnownTicks, UntoldPart DEF Typed, n
      <4>4. CASE w = v
        BY <1>5, <3>3, <3>4, <4>1, <4>2, <4>3, <4>4
      <4>5. CASE w # v
        BY <1>5, <3>3, <3>4, <4>1, <4>5
      <4> QED BY <4>4, <4>5
    <3> QED BY <2>2, <3>5, <3>6 DEF ToldOf, g, h
  <2> QED BY <2>1, <2>2
<1> QED BY <1>2, <1>6, <1>7 DEF TickInv, CountersTold

\* A record is of a job that was still to be told of, and still is (record).
LEMMA TickRecord ==
  ASSUME Typed, Typed', TickInv, UNCHANGED restarts, NEW r \in Router, NEW v \in Wallet, Record(r, v)
  PROVE  TickInv'
<1>1. UNCHANGED <<hourly, daily, next_nonce, recent, ticks, charged, absorbed>>
  BY DEF Record
<1>2. NoncesFresh' /\ Remembers'
  BY <1>1 DEF TickInv, NoncesFresh, Remembers
<1>3. /\ due'[r][v] = due[r][v] - 1 /\ \A w \in Wallet \ {v} : due'[r][w] = due[r][w]
      /\ pending'[r][v] = Recorded(r, v, now) /\ \A w \in Wallet \ {v} : pending'[r][w] = pending[r][w]
      /\ \A s \in Router \ {r} : due'[s] = due[s] /\ pending'[s] = pending[s]
  BY DEF Record, Typed, QuotaTyped
<1>4. \A s \in Router, w \in Wallet : Pending(s, w) \in Nat /\ due[s][w] \in Nat /\ due'[s][w] \in Nat
  BY DEF Pending, Typed, QuotaTyped, Consumption
<1>5. Pending(r, v)' = Pending(r, v) + 1
  <2>1. Recorded(r, v, now) = [hour |-> HourOf(now), day |-> DayOf(now), count |-> Pending(r, v) + 1]
    BY DEF Recorded, Pending
  <2>2. HourOf(now) \in Nat /\ DayOf(now) \in Nat
    BY Buckets DEF Typed, ClockTyped, Hour, Day
  <2>3. Recorded(r, v, now) # None
    BY <1>4, <2>1, <2>2, QuotaAssumption
  <2> QED BY <1>3, <2>1, <2>3 DEF Pending
<1>6. \A s \in Router, w \in Wallet : Untold(s, w)' = Untold(s, w)
  <2> SUFFICES ASSUME NEW s \in Router, NEW w \in Wallet PROVE Untold(s, w)' = Untold(s, w)
    OBVIOUS
  <2>1. CASE s = r /\ w = v
    BY <1>3, <1>4, <1>5, <2>1 DEF Untold
  <2>2. CASE ~(s = r /\ w = v)
    BY <1>3, <2>2 DEF Untold, Pending
  <2> QED BY <2>1, <2>2
<1>7. TicksCharged'
  <2> SUFFICES ASSUME NEW w \in Wallet PROVE Told(w, ticks) + AllUntold(w)' <= charged[w]
    BY <1>1 DEF TicksCharged, Told
  <2>1. AllUntold(w)' = AllUntold(w)
    BY <1>6 DEF AllUntold
  <2> QED BY <2>1 DEF TickInv, TicksCharged
<1>8. ASSUME NEW s \in Router PROVE ToldOf(s)'
  <2>1. Known(s)' = Known(s) /\ hourly'[s] = hourly[s] /\ daily'[s] = daily[s] /\ absorbed'[s] = absorbed[s]
    BY <1>1 DEF Known
  <2>2. ToldOf(s)
    BY DEF TickInv, CountersTold
  <2> QED BY <1>6, <2>1, <2>2 DEF ToldOf
<1> QED BY <1>2, <1>7, <1>8 DEF TickInv, CountersTold

\* A heartbeat turns what was pending into ticks nobody has seen: their nonces
\* are new in the router's life (run_emitter).
LEMMA TickEmit ==
  ASSUME Typed, Typed', TickInv, UNCHANGED restarts, NEW r \in Router, Emit(r)
  PROVE  TickInv'
<1>1. PICK order \in Orders(Consumers(r)) :
        /\ ticks' = ticks \cup Emitted(r, order)
        /\ next_nonce' = [next_nonce EXCEPT ![r] = @ + Len(order)]
        /\ pending' = [pending EXCEPT ![r] = PendingAfter(r)]
        /\ UNCHANGED <<hourly, daily, due, recent, admitted, charged, absorbed>>
  BY DEF Emit, Emitted
<1> DEFINE E == Emitted(r, order)
<1>2. /\ DOMAIN order = 1..Len(order) /\ Len(order) \in Nat
      /\ IsFiniteSet(E) /\ E \in SUBSET FreeTierTick
  BY Drained DEF Typed
<1>3. ASSUME NEW t \in E
      PROVE  t.from = r /\ t.life = restarts /\ t.nonce >= next_nonce[r] /\ t.nonce < next_nonce[r] + Len(order)
  <2>1. PICK i \in 1..Len(order) : t = Tick(r, order[i], next_nonce[r] + i - 1)
    BY <1>2, <1>3 DEF Emitted
  <2>2. next_nonce[r] \in Nat
    BY DEF Typed, QuotaTyped
  <2> QED BY <1>2, <2>1, <2>2 DEF Tick
<1>4. /\ next_nonce'[r] = next_nonce[r] + Len(order) /\ \A s \in Router \ {r} : next_nonce'[s] = next_nonce[s]
      /\ \A s \in Router : next_nonce[s] \in Nat
  BY <1>1 DEF Typed, QuotaTyped
<1>5. \A t \in ticks : t.from \in Router /\ t.nonce \in Nat /\ t.life \in Nat
  BY DEF Typed, QuotaTyped, FreeTierTick
<1>6. restarts \in Nat
  BY QuotaAssumption DEF Typed, ClockTyped
<1> HIDE DEF E
<1>7. NoncesFresh'
  <2>1. ASSUME NEW t \in ticks PROVE t.life <= restarts /\ (t.nonce >= next_nonce'[t.from] => t.life < restarts)
    <3>1. t.life <= restarts /\ (t.nonce >= next_nonce[t.from] => t.life < restarts)
      BY DEF TickInv, NoncesFresh
    <3>2. next_nonce[t.from] <= next_nonce'[t.from] /\ next_nonce'[t.from] \in Nat /\ next_nonce[t.from] \in Nat
      BY <1>2, <1>4, <1>5
    <3> QED BY <1>5, <3>1, <3>2
  <2>2. ASSUME NEW t \in E PROVE t.life <= restarts /\ (t.nonce >= next_nonce'[t.from] => t.life < restarts)
    <3>1. t.nonce \in Nat
      BY <1>2 DEF FreeTierTick
    <3> QED BY <1>2, <1>3, <1>4, <1>6, <3>1
  <2> QED BY <1>1, <2>1, <2>2 DEF NoncesFresh, E
<1>8. ticks \cap E = {}
  <2> SUFFICES ASSUME NEW t \in ticks, t \in E PROVE FALSE
    OBVIOUS
  <2>1. t.nonce >= next_nonce[t.from] => t.life < restarts
    BY DEF TickInv, NoncesFresh
  <2> QED BY <1>3, <1>6, <2>1
<1>9. Remembers'
  <2>1. UNCHANGED <<absorbed, recent>> /\ ticks \subseteq ticks'
    BY <1>1
  <2> QED BY <2>1 DEF TickInv, Remembers
<1>10. \A s \in Router \ {r} : pending'[s] = pending[s] /\ due'[s] = due[s]
  BY <1>1 DEF Typed, QuotaTyped
<1>11. \A w \in Wallet : Told(w, E) \in Nat /\ Untold(r, w)' \in Nat /\ Untold(r, w) = Told(w, E) + Untold(r, w)'
  <2> SUFFICES ASSUME NEW w \in Wallet
               PROVE  Told(w, E) \in Nat /\ Untold(r, w)' \in Nat /\ Untold(r, w) = Told(w, E) + Untold(r, w)'
    OBVIOUS
  <2>1. Told(w, E) = Pending(r, w)
    BY EmittedTells DEF E
  <2>2. Pending(r, w)' = 0 /\ due'[r][w] = due[r][w]
    BY <1>1 DEF Typed, QuotaTyped, PendingAfter, NoConsumption, Pending
  <2>3. Pending(r, w) \in Nat /\ due[r][w] \in Nat
    BY DEF Typed, QuotaTyped, Consumption, Pending
  <2> QED BY <2>1, <2>2, <2>3 DEF Untold
<1>12. TicksCharged'
  <2> SUFFICES ASSUME NEW w \in Wallet PROVE Told(w, ticks \cup E) + AllUntold(w)' <= charged[w]
    BY <1>1 DEF TicksCharged, Told, E
  <2>1. AllUntold(w)' + Untold(r, w) = AllUntold(w) + Untold(r, w)' /\ AllUntold(w) \in Nat /\ AllUntold(w)' \in Nat
    BY <1>10, UntoldElsewhere DEF Typed
  <2>2. Told(w, ticks \cup E) = Told(w, ticks) + Told(w, E)
    <3>1. ticks \in SUBSET FreeTierTick /\ IsFiniteSet(ticks)
      BY DEF Typed, QuotaTyped
    <3> QED BY <1>2, <1>8, <3>1, ToldUnion
  <2>3. Told(w, ticks) + AllUntold(w) <= charged[w] /\ Told(w, ticks) \in Nat /\ charged[w] \in Nat
    BY KnownTicks DEF TickInv, TicksCharged, Typed, QuotaTyped
  <2> QED BY <1>10, <1>11, <2>1, <2>2, <2>3
<1>13. ASSUME NEW s \in Router PROVE ToldOf(s)'
  <2>1. CASE s # r
    <3>1. ticks \subseteq ticks' /\ hourly'[s] = hourly[s] /\ daily'[s] = daily[s] /\ absorbed'[s] = absorbed[s]
      BY <1>1
    <3> QED BY <1>10, <2>1, <3>1, ToldKept DEF TickInv, CountersTold
  <2>2. CASE s = r
    <3>1. /\ Known(r)' = Known(r) \cup E
          /\ Known(r) \in SUBSET FreeTierTick /\ IsFiniteSet(Known(r)) /\ Known(r) \cap E = {}
      <4>1. Known(r) \in SUBSET FreeTierTick /\ IsFiniteSet(Known(r)) /\ Known(r) \in SUBSET ticks
        BY KnownTicks DEF Typed
      <4>2. Known(r)' = Known(r) \cup E
        BY <1>1, <1>3 DEF Known, E
      <4> QED BY <1>8, <4>1, <4>2
    <3>2. ASSUME NEW w \in Wallet PROVE Told(w, Known(r)') = Told(w, Known(r)) + Told(w, E)
      <4> DEFINE K == Known(r)
      <4>1. K \in SUBSET FreeTierTick /\ IsFiniteSet(K) /\ K \cap E = {} /\ Known(r)' = K \cup E
        BY <3>1
      <4> HIDE DEF K
      <4>2. Told(w, K \cup E) = Told(w, K) + Told(w, E)
        BY <1>2, <4>1, ToldUnion
      <4> QED BY <1>11, <4>1, <4>2 DEF K
    <3>3. ASSUME NEW w \in Wallet, Len(absorbed[r]) <= NonceCap
          PROVE  /\ Counted(hourly[r], w, Hour) <= Told(w, Known(r)') + Untold(r, w)'
                 /\ Counted(daily[r], w, Day) <= Told(w, Known(r)') + Untold(r, w)'
      <4>1. /\ Counted(hourly[r], w, Hour) <= Told(w, Known(r)) + Untold(r, w)
            /\ Counted(daily[r], w, Day) <= Told(w, Known(r)) + Untold(r, w)
        BY <3>3 DEF TickInv, CountersTold, ToldOf
      <4>2. Told(w, Known(r)) \in Nat
        BY KnownTicks DEF Typed
      <4> QED BY <1>10, <1>11, <3>2, <4>1, <4>2
    <3>4. /\ hourly'[r] = hourly[r] /\ daily'[r] = daily[r] /\ absorbed'[r] = absorbed[r]
      BY <1>1
    <3> QED BY <2>2, <3>3, <3>4 DEF ToldOf
  <2> QED BY <2>1, <2>2
<1> QED BY <1>7, <1>9, <1>12, <1>13 DEF TickInv, CountersTold

\* A tick is absorbed once while the cache holds every nonce absorbed so far,
\* and then it is one the router did not know (absorb_tick_bytes).
LEMMA TickAbsorb ==
  ASSUME Typed, Typed', TickInv, UNCHANGED restarts, NEW r \in Router, NEW t \in ticks, Absorb(r, t)
  PROVE  TickInv'
<1>1. /\ t.wallet \in Wallet /\ t.hour \in Hour /\ t.day \in Day /\ t.count \in Nat /\ t \in FreeTierTick
      /\ t.from # r /\ <<t.wallet, t.nonce>> \in Wallet \X Nat
  BY DEF Typed, QuotaTyped, FreeTierTick, Absorb
<1>2. UNCHANGED <<due, pending, next_nonce, ticks, charged>>
  BY DEF Absorb
<1>3. NoncesFresh'
  BY <1>2 DEF TickInv, NoncesFresh
<1>4. TicksCharged'
  BY <1>2 DEF TickInv, TicksCharged, AllUntold, Untold, Pending, Told
<1>5. /\ absorbed'[r] = Append(absorbed[r], t) /\ recent'[r] = Append(Kept(recent[r]), <<t.wallet, t.nonce>>)
      /\ \A s \in Router \ {r} : /\ absorbed'[s] = absorbed[s] /\ recent'[s] = recent[s]
                                 /\ hourly'[s] = hourly[s] /\ daily'[s] = daily[s]
      /\ absorbed[r] \in Seq(FreeTierTick) /\ recent[r] \in Seq(Wallet \X Nat) /\ Len(recent[r]) <= NonceCap
  BY DEF Absorb, Typed, QuotaTyped
<1> DEFINE k == <<t.wallet, t.nonce>>
           a == absorbed[r]
           c == recent[r]
<1>6. /\ Len(a) \in Nat /\ Len(absorbed'[r]) = Len(a) + 1 /\ absorbed'[r][Len(a) + 1] = t
      /\ DOMAIN a = 1..Len(a) /\ DOMAIN absorbed'[r] = 1..(Len(a) + 1)
      /\ \A i \in 1..Len(a) : absorbed'[r][i] = a[i]
  <2>1. a \in Seq(FreeTierTick) /\ absorbed'[r] = Append(a, t)
    BY <1>5
  <2> HIDE DEF a
  <2> QED BY <1>1, <2>1, AppendProperties
<1>7. ASSUME Len(a) < NonceCap
      PROVE  /\ Len(c) = Len(a) /\ \A i \in 1..Len(a) : c[i] = <<a[i].wallet, a[i].nonce>>
             /\ recent'[r] = Append(c, k)
  <2>1. Len(c) = Len(a) /\ \A i \in 1..Len(a) : c[i] = <<a[i].wallet, a[i].nonce>>
    BY <1>6, <1>7, QuotaAssumption DEF TickInv, Remembers
  <2>2. Kept(c) = c
    BY <1>5, <1>7, <2>1, KeptTyped
  <2> QED BY <1>5, <2>1, <2>2
<1>8. Remembers'
  <2> SUFFICES ASSUME NEW s \in Router
               PROVE  /\ \A i \in DOMAIN absorbed'[s] : absorbed'[s][i] \in ticks /\ absorbed'[s][i].from # s
                      /\ Len(absorbed'[s]) <= NonceCap =>
                           /\ Len(recent'[s]) = Len(absorbed'[s])
                           /\ \A i \in 1..Len(absorbed'[s]) :
                                recent'[s][i] = <<absorbed'[s][i].wallet, absorbed'[s][i].nonce>>
    BY <1>2 DEF Remembers
  <2>1. CASE s # r
    BY <1>5, <2>1 DEF TickInv, Remembers
  <2>2. CASE s = r
    <3>1. \A i \in DOMAIN absorbed'[r] : absorbed'[r][i] \in ticks /\ absorbed'[r][i].from # r
      BY SMTT(30), <1>1, <1>6 DEF TickInv, Remembers
    <3>2. ASSUME Len(absorbed'[r]) <= NonceCap
          PROVE  /\ Len(recent'[r]) = Len(absorbed'[r])
                 /\ \A i \in 1..Len(absorbed'[r]) :
                      recent'[r][i] = <<absorbed'[r][i].wallet, absorbed'[r][i].nonce>>
      <4>1. Len(a) < NonceCap
        BY <1>6, <3>2, QuotaAssumption
      <4>2. /\ Len(recent'[r]) = Len(c) + 1 /\ recent'[r][Len(c) + 1] = k
            /\ \A i \in 1..Len(c) : recent'[r][i] = c[i]
        <5>1. c \in Seq(Wallet \X Nat) /\ k \in Wallet \X Nat /\ recent'[r] = Append(c, k)
          BY <1>1, <1>5, <1>7, <4>1
        <5> HIDE DEF c, k
        <5> QED BY <5>1, AppendProperties
      <4>3. /\ Len(c) = Len(a) /\ \A i \in 1..Len(a) : c[i] = <<a[i].wallet, a[i].nonce>>
            /\ k = <<t.wallet, t.nonce>>
        BY <1>7, <4>1
      <4> HIDE DEF a, c, k
      <4>4. Len(recent'[r]) = Len(absorbed'[r])
        BY <1>6, <4>2, <4>3
      <4>5. ASSUME NEW i \in 1..(Len(a) + 1)
            PROVE  recent'[r][i] = <<absorbed'[r][i].wallet, absorbed'[r][i].nonce>>
        <5>1. CASE i = Len(a) + 1
          BY <1>6, <4>2, <4>3, <5>1
        <5>2. CASE i \in 1..Len(a)
          BY <1>6, <4>2, <4>3, <5>2
        <5> QED BY <1>6, <5>1, <5>2
      <4> QED BY <1>6, <4>4, <4>5
    <3> QED BY <2>2, <3>1, <3>2
  <2> QED BY <2>1, <2>2
<1>9. ASSUME NEW s \in Router PROVE ToldOf(s)'
  <2>1. CASE s # r
    BY <1>2, <1>5, <2>1, ToldKept DEF TickInv, CountersTold
  <2>2. CASE s = r
    <3> SUFFICES ASSUME Len(absorbed'[r]) <= NonceCap, NEW w \in Wallet
                 PROVE  /\ Counted(hourly'[r], w, Hour) <= Told(w, Known(r)') + Untold(r, w)'
                        /\ Counted(daily'[r], w, Day) <= Told(w, Known(r)') + Untold(r, w)'
      BY <2>2 DEF ToldOf
    <3>1. Len(a) < NonceCap /\ Len(a) <= NonceCap
      BY <1>6, QuotaAssumption
    <3>2. t \notin Known(r)
      <4>1. ASSUME NEW i \in 1..Len(a), a[i] = t PROVE FALSE
        <5>1. c[i] = k /\ i \in 1..Len(c)
          BY <1>7, <3>1, <4>1
        <5>2. k \in ToSet(c)
          <6>1. DOMAIN c = 1..Len(c)
            BY <1>5
          <6> QED BY <5>1, <6>1 DEF ToSet
        <5> QED BY <5>2 DEF Absorb, IsDuplicate
      <4> QED BY <1>1, <1>6, <4>1 DEF Known, ToSet
    <3>3. Known(r)' = Known(r) \cup {t}
      <4>1. ToSet(absorbed'[r]) = ToSet(a) \cup {t}
        BY SMTT(30), <1>6 DEF ToSet
      <4> QED BY <1>2, <4>1 DEF Known
    <3>4. Told(w, Known(r)') = Told(w, Known(r)) + (IF t.wallet = w THEN t.count ELSE 0)
      <4> DEFINE K == Known(r)
      <4>1. K \in SUBSET FreeTierTick /\ IsFiniteSet(K) /\ t \in FreeTierTick \ K /\ Known(r)' = K \cup {t}
        BY <1>1, <3>2, <3>3, KnownTicks DEF Typed
      <4> HIDE DEF K
      <4>2. Told(w, K \cup {t}) = Told(w, K) + (IF t.wallet = w THEN t.count ELSE 0)
        BY <4>1, ToldIs
      <4> QED BY <4>1, <4>2 DEF K
    <3> DEFINE f == hourly[r]
               g == hourly'[r]
               e == daily[r]
               h == daily'[r]
               v == t.wallet
               H == t.hour
               D == t.day
               n == t.count
    <3>5. Raises(f, g, v, H, n) /\ Raises(e, h, v, D, n)
      BY <1>1 DEF Absorb, Typed, QuotaTyped, Raises
    <3>6. /\ f \in Counts(Hour) /\ e \in Counts(Day) /\ Hour \in SUBSET Hour /\ Day \in SUBSET Day
          /\ IsFiniteSet(Hour) /\ IsFiniteSet(Day) /\ v \in Wallet /\ n \in Nat /\ H \in Hour /\ D \in Day
      <4>1. f \in Counts(Hour) /\ e \in Counts(Day)
        BY DEF Typed, QuotaTyped, Counts
      <4>2. v \in Wallet /\ n \in Nat /\ H \in Hour /\ D \in Day
        BY <1>1
      <4> QED BY <4>1, <4>2, FiniteBuckets
    <3>7. /\ Counted(f, w, Hour) <= Told(w, Known(r)) + Untold(r, w)
          /\ Counted(e, w, Day) <= Told(w, Known(r)) + Untold(r, w)
      BY <3>1 DEF TickInv, CountersTold, ToldOf
    <3>8. /\ Counted(f, w, Hour) \in Nat /\ Counted(e, w, Day) \in Nat
          /\ Told(w, Known(r)) \in Nat /\ Untold(r, w) \in Nat /\ Untold(r, w)' = Untold(r, w)
      BY <1>2, CountersAre, KnownTicks, UntoldPart DEF Typed, Untold, Pending
    <3>9. Told(w, Known(r)') = Told(w, Known(r)) + (IF v = w THEN n ELSE 0)
      BY <3>4
    <3> HIDE DEF f, g, e, h, v, H, D, n
    <3>10. /\ Counted(g, v, Hour) = Counted(f, v, Hour) + n
           /\ \A x \in Wallet \ {v} : Counted(g, x, Hour) = Counted(f, x, Hour)
      BY <3>5, <3>6, CountedUp
    <3>11. /\ Counted(h, v, Day) = Counted(e, v, Day) + n
           /\ \A x \in Wallet \ {v} : Counted(h, x, Day) = Counted(e, x, Day)
      BY <3>5, <3>6, CountedUp
    <3>12. CASE w = v
      BY <3>6, <3>7, <3>8, <3>9, <3>10, <3>11, <3>12 DEF g, h
    <3>13. CASE w # v
      BY <3>7, <3>8, <3>9, <3>10, <3>11, <3>13 DEF g, h
    <3> QED BY <3>12, <3>13
  <2> QED BY <2>1, <2>2
<1> QED BY <1>3, <1>4, <1>8, <1>9 DEF TickInv, CountersTold

\* A prune only forgets counts (FreeTierTracker::prune).
LEMMA TickPrune ==
  ASSUME Typed, Typed', TickInv, UNCHANGED restarts, NEW r \in Router, Prune(r)
  PROVE  TickInv'
<1>1. UNCHANGED <<due, pending, next_nonce, recent, ticks, charged, absorbed>>
  BY DEF Prune
<1>2. NoncesFresh' /\ Remembers'
  BY <1>1 DEF TickInv, NoncesFresh, Remembers
<1>3. TicksCharged'
  BY <1>1 DEF TickInv, TicksCharged, AllUntold, Untold, Pending, Told
<1>4. /\ hourly' = [hourly EXCEPT ![r] = Pruned(hourly[r], Hour, Cutoff(HourOf(now)))]
      /\ daily' = [daily EXCEPT ![r] = Pruned(daily[r], Day, Cutoff(DayOf(now)))]
  BY PruneIs DEF Typed
<1>5. ASSUME NEW s \in Router PROVE ToldOf(s)'
  <2>1. CASE s # r
    <3>1. hourly'[s] = hourly[s] /\ daily'[s] = daily[s]
      BY <1>4, <2>1 DEF Typed, QuotaTyped
    <3> QED BY <1>1, <3>1, ToldKept DEF TickInv, CountersTold
  <2>2. CASE s = r
    <3>1. /\ \A k \in Wallet \X Hour : hourly'[r][k] <= hourly[r][k]
          /\ \A k \in Wallet \X Day : daily'[r][k] <= daily[r][k]
      <4>1. /\ hourly'[r] = Pruned(hourly[r], Hour, Cutoff(HourOf(now)))
            /\ daily'[r] = Pruned(daily[r], Day, Cutoff(DayOf(now)))
        <5>1. hourly \in [Router -> [Wallet \X Hour -> Nat]] /\ daily \in [Router -> [Wallet \X Day -> Nat]]
          BY DEF Typed, QuotaTyped
        <5> QED BY <1>4, <5>1
      <4>2. /\ \A k \in Wallet \X Hour : hourly[r][k] \in Nat
            /\ \A k \in Wallet \X Day : daily[r][k] \in Nat
        <5>1. hourly[r] \in [Wallet \X Hour -> Nat] /\ daily[r] \in [Wallet \X Day -> Nat]
          BY DEF Typed, QuotaTyped
        <5> QED BY <5>1
      <4>3. \A k \in Wallet \X Hour : hourly'[r][k] = hourly[r][k] \/ hourly'[r][k] = 0
        BY <4>1 DEF Pruned
      <4>4. \A k \in Wallet \X Day : daily'[r][k] = daily[r][k] \/ daily'[r][k] = 0
        BY <4>1 DEF Pruned
      <4> QED BY <4>2, <4>3, <4>4
    <3> DEFINE f == hourly'[r]
               g == hourly[r]
               e == daily'[r]
               h == daily[r]
    <3>2. /\ f \in [Wallet \X Hour -> Nat] /\ g \in [Wallet \X Hour -> Nat]
          /\ e \in [Wallet \X Day -> Nat] /\ h \in [Wallet \X Day -> Nat]
      BY DEF Typed, QuotaTyped
    <3>3. Hour \in SUBSET Hour /\ IsFiniteSet(Hour) /\ Day \in SUBSET Day /\ IsFiniteSet(Day)
      BY FiniteBuckets
    <3>4. ASSUME NEW w \in Wallet
          PROVE  /\ Counted(f, w, Hour) <= Counted(g, w, Hour) /\ Counted(f, w, Hour) \in Nat
                 /\ Counted(e, w, Day) <= Counted(h, w, Day) /\ Counted(e, w, Day) \in Nat
      <4>1. /\ \A b \in Hour : f[<<w, b>>] <= g[<<w, b>>]
            /\ \A b \in Day : e[<<w, b>>] <= h[<<w, b>>]
        BY <3>1
      <4> HIDE DEF f, g, e, h
      <4>2. Counted(f, w, Hour) <= Counted(g, w, Hour) /\ Counted(f, w, Hour) \in Nat
        BY <3>2, <3>3, <4>1, CountedIs
      <4>3. Counted(e, w, Day) <= Counted(h, w, Day) /\ Counted(e, w, Day) \in Nat
        BY <3>2, <3>3, <4>1, CountedIs
      <4> QED BY <4>2, <4>3
    <3>5. ASSUME NEW w \in Wallet, Len(absorbed[r]) <= NonceCap
          PROVE  /\ Counted(hourly'[r], w, Hour) <= Told(w, Known(r)) + Untold(r, w)
                 /\ Counted(daily'[r], w, Day) <= Told(w, Known(r)) + Untold(r, w)
      <4>1. /\ Counted(g, w, Hour) <= Told(w, Known(r)) + Untold(r, w)
            /\ Counted(h, w, Day) <= Told(w, Known(r)) + Untold(r, w)
        BY <3>5 DEF TickInv, CountersTold, ToldOf
      <4>2. /\ Counted(g, w, Hour) \in Nat /\ Counted(h, w, Day) \in Nat
            /\ Told(w, Known(r)) \in Nat /\ Untold(r, w) \in Nat
        BY CountersAre, KnownTicks, UntoldPart DEF Typed
      <4> HIDE DEF f, g, e, h
      <4>3. /\ Counted(f, w, Hour) <= Told(w, Known(r)) + Untold(r, w)
            /\ Counted(e, w, Day) <= Told(w, Known(r)) + Untold(r, w)
        BY <3>4, <4>1, <4>2
      <4> QED BY <4>3 DEF f, e
    <3>6. Known(r)' = Known(r) /\ absorbed'[r] = absorbed[r] /\ \A w \in Wallet : Untold(r, w)' = Untold(r, w)
      BY <1>1 DEF Known, Untold, Pending
    <3> QED BY <2>2, <3>5, <3>6 DEF ToldOf
  <2> QED BY <2>1, <2>2
<1> QED BY <1>2, <1>3, <1>5 DEF TickInv, CountersTold

\* A restarted router starts with empty counters and fresh nonces, in a life
\* that no tick is from yet; what it had still to tell is lost.
LEMMA TickRestart ==
  ASSUME Typed, Typed', TickInv, restarts' = restarts + 1, NEW r \in Router, QuotaRestart(r)
  PROVE  TickInv'
<1>1. UNCHANGED <<ticks, charged>>
  BY DEF QuotaRestart
<1>2. /\ hourly'[r] = FreshHours /\ daily'[r] = FreshDays /\ pending'[r] = NoConsumption /\ due'[r] = NothingDue
      /\ recent'[r] = <<>> /\ absorbed'[r] = <<>>
      /\ \A s \in Router \ {r} : /\ hourly'[s] = hourly[s] /\ daily'[s] = daily[s] /\ pending'[s] = pending[s]
                                 /\ recent'[s] = recent[s] /\ absorbed'[s] = absorbed[s] /\ due'[s] = due[s]
  BY DEF QuotaRestart, Typed, QuotaTyped
<1>3. NoncesFresh'
  <2>1. \A t \in ticks : t.life <= restarts /\ t.life \in Nat
    BY DEF TickInv, NoncesFresh, Typed, QuotaTyped, FreeTierTick
  <2>2. restarts \in Nat
    BY QuotaAssumption DEF Typed, ClockTyped
  <2>3. \A t \in ticks : t.life <= restarts' /\ t.life < restarts'
    BY <2>1, <2>2
  <2> QED BY <1>1, <2>3 DEF NoncesFresh
<1>4. Remembers'
  <2> SUFFICES ASSUME NEW s \in Router
               PROVE  /\ \A i \in DOMAIN absorbed'[s] : absorbed'[s][i] \in ticks /\ absorbed'[s][i].from # s
                      /\ Len(absorbed'[s]) <= NonceCap =>
                           /\ Len(recent'[s]) = Len(absorbed'[s])
                           /\ \A i \in 1..Len(absorbed'[s]) :
                                recent'[s][i] = <<absorbed'[s][i].wallet, absorbed'[s][i].nonce>>
    BY <1>1 DEF Remembers
  <2>1. CASE s # r
    BY <1>2, <2>1 DEF TickInv, Remembers
  <2>2. CASE s = r
    BY <1>2, <2>2
  <2> QED BY <2>1, <2>2
<1>5. \A w \in Wallet : Untold(r, w)' = 0
  BY <1>2 DEF Untold, Pending, NoConsumption, NothingDue
<1>6. TicksCharged'
  <2> SUFFICES ASSUME NEW w \in Wallet PROVE Told(w, ticks) + AllUntold(w)' <= charged[w]
    BY <1>1 DEF TicksCharged, Told
  <2>1. /\ AllUntold(w)' + Untold(r, w) = AllUntold(w) + Untold(r, w)'
        /\ Untold(r, w) \in Nat /\ AllUntold(w) \in Nat /\ AllUntold(w)' \in Nat
    BY <1>2, UntoldElsewhere DEF Typed
  <2>2. Told(w, ticks) + AllUntold(w) <= charged[w] /\ Told(w, ticks) \in Nat /\ charged[w] \in Nat
    BY KnownTicks DEF TickInv, TicksCharged, Typed, QuotaTyped
  <2> QED BY <1>5, <2>1, <2>2
<1>7. ASSUME NEW s \in Router PROVE ToldOf(s)'
  <2>1. CASE s # r
    BY <1>1, <1>2, <2>1, ToldKept DEF TickInv, CountersTold
  <2>2. CASE s = r
    <3>1. ASSUME NEW w \in Wallet PROVE Counted(FreshHours, w, Hour) = 0 /\ Counted(FreshDays, w, Day) = 0
      <4>1. FreshHours \in [Wallet \X Hour -> Nat] /\ \A b \in Hour : FreshHours[<<w, b>>] = 0
        BY DEF FreshHours
      <4>2. FreshDays \in [Wallet \X Day -> Nat] /\ \A b \in Day : FreshDays[<<w, b>>] = 0
        BY DEF FreshDays
      <4>3. Counted(FreshHours, w, Hour) = 0
        BY <4>1, FiniteBuckets, CountedIs
      <4>4. Counted(FreshDays, w, Day) = 0
        BY <4>2, FiniteBuckets, CountedIs
      <4> QED BY <4>3, <4>4
    <3>2. \A w \in Wallet : Told(w, Known(r)') \in Nat
      <4>1. ticks' \in SUBSET FreeTierTick /\ IsFiniteSet(ticks') /\ Known(r)' \in SUBSET ticks'
        BY DEF Typed, QuotaTyped, Known
      <4>2. Known(r)' \in SUBSET FreeTierTick /\ IsFiniteSet(Known(r)')
        BY <4>1, FS_Subset
      <4> DEFINE K == Known(r)'
      <4>3. K \in SUBSET FreeTierTick /\ IsFiniteSet(K)
        BY <4>2
      <4> HIDE DEF K
      <4>4. \A w \in Wallet : Told(w, K) \in Nat
        BY <4>3, ToldIs
      <4> QED BY <4>4 DEF K
    <3> QED BY <1>2, <1>5, <2>2, <3>1, <3>2 DEF ToldOf
  <2> QED BY <2>1, <2>2
<1> QED BY <1>3, <1>4, <1>6, <1>7 DEF TickInv, CountersTold

\* Every step of the intake keeps the ticks' books.
LEMMA TickStep ==
  ASSUME TypeInv, TickInv, [Next]_vars
  PROVE  TickInv'
<1>1. Typed /\ Typed'
  BY TypeStep DEF TypeInv
<1>2. ASSUME NEW q \in Request, Consume(q), ~UNCHANGED quota PROVE TickInv'
  <2> DEFINE r == router[q]
             w == BillingAddress(RequestOf[q].body)
             t == came[q]
  <2>1. r \in Router /\ w \in Wallet /\ t \in 0..MaxNow /\ Charge(r, w, t) /\ UNCHANGED restarts
    BY <1>1, <1>2, ConsumeIs DEF Consume
  <2> HIDE DEF r, w, t
  <2> QED BY <1>1, <2>1, TickCharge
<1>8. ASSUME NEW r \in Router, NEW w \in Wallet, Record(r, w), UNCHANGED restarts PROVE TickInv'
  BY <1>1, <1>8, TickRecord
<1>3. ASSUME NEW r \in Router, Emit(r), UNCHANGED restarts PROVE TickInv'
  BY <1>1, <1>3, TickEmit
<1>4. ASSUME NEW r \in Router, NEW t \in ticks, Absorb(r, t), UNCHANGED restarts PROVE TickInv'
  BY <1>1, <1>4, TickAbsorb
<1>5. ASSUME NEW r \in Router, Prune(r), UNCHANGED restarts PROVE TickInv'
  BY <1>1, <1>5, TickPrune
<1>6. ASSUME NEW r \in Router, Restart(r) PROVE TickInv'
  <2>1. QuotaRestart(r) /\ restarts' = restarts + 1
    BY <1>6 DEF Restart
  <2> QED BY <1>1, <2>1, TickRestart
<1>7. CASE UNCHANGED <<quota, restarts>>
  <2>1. NoncesFresh' /\ Remembers'
    BY <1>7 DEF TickInv, NoncesFresh, Remembers, quota
  <2>2. TicksCharged'
    BY <1>7 DEF TickInv, TicksCharged, AllUntold, Untold, Pending, Told, quota
  <2>3. ASSUME NEW s \in Router PROVE ToldOf(s)'
    BY <1>1, <1>7, ToldKept DEF TickInv, CountersTold, quota
  <2> QED BY <2>1, <2>2, <2>3 DEF TickInv, CountersTold
<1> QED BY <1>1, <1>2, <1>3, <1>4, <1>5, <1>6, <1>7, <1>8, QuotaSteps

\* The free tier's books are sound when the routers start.
LEMMA BooksInit ==
  ASSUME Init
  PROVE  LimitInv /\ TickInv /\ ChargedOnce /\ JobInv
<1>1. Typed
  BY TypeInit DEF TypeInv
<1>2. /\ now = 0 /\ ticks = {} /\ hourly = [r \in Router |-> FreshHours] /\ daily = [r \in Router |-> FreshDays]
      /\ admitted = [r \in Router |-> FreshHours] /\ pending = [r \in Router |-> NoConsumption]
      /\ due = [r \in Router |-> NothingDue] /\ recent = [r \in Router |-> <<>>] /\ absorbed = [r \in Router |-> <<>>] /\ charged = [w \in Wallet |-> 0]
      /\ stage = [q \in Request |-> "new"] /\ came = [q \in Request |-> 0] /\ job = [q \in Request |-> None]
      /\ sent = [q \in Request |-> <<>>]
  BY DEF Init, QuotaInit
<1>3. InTime
  BY <1>2 DEF InTime, InFlight
<1>4. /\ FreshHours \in [Wallet \X Hour -> Nat] /\ \A k \in Wallet \X Hour : FreshHours[k] = 0
      /\ FreshDays \in [Wallet \X Day -> Nat] /\ \A k \in Wallet \X Day : FreshDays[k] = 0
  BY DEF FreshHours, FreshDays
<1>5. ASSUME NEW w \in Wallet, NEW B \in SUBSET Hour PROVE Counted(FreshHours, w, B) = 0
  <2>1. IsFiniteSet(B) /\ \A b \in B : FreshHours[<<w, b>>] = 0
    BY <1>4, FiniteBuckets, FS_Subset
  <2> QED BY <1>4, <2>1, CountedIs
<1>6. ASSUME NEW w \in Wallet PROVE Counted(FreshDays, w, Day) = 0
  <2>1. \A b \in Day : FreshDays[<<w, b>>] = 0
    BY <1>4
  <2> QED BY <1>4, <2>1, FiniteBuckets, CountedIs
<1>7. \A r \in Router, w \in Wallet, d \in Day : OfDay(r, w, d) = 0
  <2> SUFFICES ASSUME NEW r \in Router, NEW w \in Wallet, NEW d \in Day PROVE OfDay(r, w, d) = 0
    OBVIOUS
  <2> DEFINE B == {h \in Hour : h \div DayHours = d}
  <2>1. B \in SUBSET Hour /\ OfDay(r, w, d) = Counted(FreshHours, w, B)
    BY <1>2 DEF OfDay
  <2> HIDE DEF B
  <2> QED BY <1>5, <2>1
<1>8. LimitInv
  <2>1. \A r \in Router, w \in Wallet, h \in Hour : admitted[r][<<w, h>>] = 0 /\ hourly[r][<<w, h>>] = 0
    BY <1>2, <1>4
  <2>2. \A r \in Router, w \in Wallet, d \in Day : daily[r][<<w, d>>] = 0
    BY <1>2, <1>4
  <2> QED BY <1>3, <1>7, <2>1, <2>2, QuotaAssumption DEF LimitInv, Backed, LimitsHeld
<1>9. TickInv
  <2>1. NoncesFresh
    BY <1>2 DEF NoncesFresh
  <2>2. Remembers
    BY <1>2 DEF Remembers
  <2>3. ASSUME NEW w \in Wallet PROVE Told(w, ticks) = 0 /\ AllUntold(w) = 0
    <3>1. Told(w, ticks) = 0
      BY <1>1, <1>2, ToldIs DEF Typed, QuotaTyped
    <3> DEFINE f == [r \in Router |-> Untold(r, w)]
    <3>2. \A r \in Router : f[r] = 0 /\ f[r] = 0 * f[r]
      BY <1>2 DEF Untold, Pending, NoConsumption, NothingDue
    <3>3. AllUntold(w) = SumFunctionOnSet(f, Router)
      BY DEF AllUntold
    <3> HIDE DEF f
    <3>4. Sums(f, Router) /\ \A r \in Router : f[r] = 0 * f[r]
      BY <3>2, QuotaAssumption DEF Sums
    <3>5. SumFunctionOnSet(f, Router) = 0 * SumFunctionOnSet(f, Router)
      BY <3>4, SumScale
    <3>6. SumFunctionOnSet(f, Router) \in Int
      BY <3>4, SumInt
    <3> QED BY <3>1, <3>3, <3>5, <3>6
  <2>4. TicksCharged
    BY <1>2, <2>3 DEF TicksCharged
  <2>5. ASSUME NEW r \in Router, NEW w \in Wallet
        PROVE  /\ Counted(hourly[r], w, Hour) <= Told(w, Known(r)) + Untold(r, w)
               /\ Counted(daily[r], w, Day) <= Told(w, Known(r)) + Untold(r, w)
    <3>1. Counted(hourly[r], w, Hour) = 0 /\ Counted(daily[r], w, Day) = 0
      BY <1>2, <1>5, <1>6
    <3>2. Told(w, Known(r)) \in Nat /\ Untold(r, w) \in Nat
      BY <1>1, KnownTicks, UntoldPart DEF Typed
    <3> QED BY <3>1, <3>2
  <2> QED BY <2>1, <2>2, <2>4, <2>5 DEF TickInv, CountersTold, ToldOf
<1>10. ChargedOnce
  <2> SUFFICES ASSUME NEW w \in Wallet
               PROVE  charged[w] \in Cardinality(PastQuota(w))..(Cardinality(PastQuota(w)) + Cardinality(LostOnTheWay(w)))
    BY DEF ChargedOnce, PastQuota, LostOnTheWay, Free
  <2>1. PastQuota(w) = {} /\ LostOnTheWay(w) = {} /\ charged[w] = 0
    BY <1>2 DEF PastQuota, LostOnTheWay, Free
  <2> QED BY <2>1, FS_EmptySet
<1>11. JobInv
  BY <1>2, <1>3 DEF JobInv, Unplaced, Minted, IdsOfRouterUnique
<1> QED BY <1>8, <1>9, <1>10, <1>11

BooksInv == TypeInv /\ LimitInv /\ TickInv /\ ChargedOnce /\ JobInv

\* The free tier's books: no wallet is served beyond its limits by a router or
\* charged for a job nobody admitted, and each job is charged once under an id
\* its router gives to no other (another router may), for any number of routers,
\* wallets and requests, any limits and any replay cache, whatever the mesh
\* repeats, whenever jobs are recorded for it and whenever routers restart.
THEOREM BooksAlwaysSound == Spec => []ChargesSound
<1>1. Init => BooksInv
  BY TypeInit, BooksInit DEF BooksInv
<1>2. BooksInv /\ [Next]_vars => BooksInv'
  BY TypeStep, LimitStep, TickStep, ChargedOnceStep, JobStep DEF BooksInv, TypeInv
<1>3. BooksInv => ChargesSound
  BY TickInvSuffices DEF BooksInv, TypeInv, LimitInv, JobInv, ChargesSound
<1> QED BY <1>1, <1>2, <1>3, PTL DEF Spec

=============================================================================
