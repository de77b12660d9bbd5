------------------------------ MODULE Mempool ------------------------------
(***************************************************************************)
(* The transaction pool of crates/consensus/src/mempool.rs.                *)
(*                                                                         *)
(* The pool keeps one fact (which transactions are pending) in three       *)
(* indexes and a byte counter: by_hash holds the entries, by_priority      *)
(* drives eviction and block building, by_sender finds the transaction a   *)
(* submission would replace.  Every operation runs under the pool's mutex, *)
(* so it is one step here; readmit alone is a loop of inserts under that   *)
(* mutex and takes one step per insert, with every other operation         *)
(* disabled until it ends.                                                 *)
(*                                                                         *)
(* A transaction is a record: its kind, its sender, its nonce and fee (read*)
(* only for the kinds that carry them), its encoded size and a tag that    *)
(* stands for the rest of its payload, so that the record is its hash.     *)
(***************************************************************************)
EXTENDS Integers, FiniteSets, FiniteSetsExt

CONSTANTS Tx,           \* transactions clients may submit
          MaxTxBytes,   \* MAX_SIGNED_TX_BYTES
          MaxCount,     \* max_count
          MaxBytes,     \* max_bytes
          BlockGas,     \* gas budget of one drain
          BlockBytes,   \* byte budget of one drain
          MaxSeq        \* bound: admissions in a behaviour (next_seq is a u64)

VARIABLES by_hash,        \* pending transaction -> its sequence number
          by_priority,    \* set of priority keys
          by_sender,      \* <<sender, nonce>> -> pending transaction
          current_bytes,  \* byte counter
          next_seq,       \* next sequence number
          drained,        \* keys of the last drain, held by the block builder
          readmitting     \* keys a running readmit has still to insert

poolVars == <<by_hash, by_priority, by_sender, current_bytes, next_seq, drained, readmitting>>

-----------------------------------------------------------------------------
(* What the pool reads off a transaction. *)

Nonced == {"Transfer", "EscrowLock"}

\* Kinds that carry no nonce enter under nonce 0 with a fixed fee.
FixedFee == [RegisterModel |-> 200000, GovProposal |-> 500000, GovVote |-> 30000,
             RegisterTeeCapability |-> 200000, RegisterGateway |-> 100000,
             UnregisterGateway |-> 50000]

Unsupported == {"StakeOp", "ReceiptBatch", "Dispute", "EscrowSettle", "RewardMint"}

Kinds == Nonced \cup DOMAIN FixedFee \cup Unsupported

Slot(tx) == <<tx.sender, IF tx.kind \in Nonced THEN tx.nonce ELSE 0>>

Fee(tx) == IF tx.kind \in Nonced THEN tx.fee ELSE FixedFee[tx.kind]

ASSUME TxAssumption ==
  /\ Tx \subseteq [kind : Kinds, sender : STRING, nonce : Nat, fee : Nat, size : Nat, tag : Nat]
  /\ IsFiniteSet(Tx)

ASSUME LimitAssumption ==
  MaxTxBytes \in Nat /\ MaxCount \in Nat /\ MaxBytes \in Nat
  /\ BlockGas \in Nat /\ BlockBytes \in Nat /\ MaxSeq \in Nat

PriorityKey(tx, seq) == [fee |-> Fee(tx), seq |-> seq, tx |-> tx]

\* Faulty variant: ascending fees, so the eviction end is the expensive one.
OutranksAscending(k, l) == k.fee < l.fee \/ (k.fee = l.fee /\ k.seq < l.seq)

\* PriorityKey::cmp: fee descending, then arrival.  Sequence numbers are
\* never reused, so the comparison never reaches the hash.
Outranks(k, l) == k.fee > l.fee \/ (k.fee = l.fee /\ k.seq < l.seq)

Pool == DOMAIN by_hash

TxBytes(txs) == MapThenSumSet(LAMBDA t : t.size, txs)

\* usize::saturating_sub.
SaturatingSub(a, b) == IF b \in 0..a THEN a - b ELSE 0

-----------------------------------------------------------------------------
(* remove_by_hash, for a set of hashes: what each index is left with. *)

HashWithout(gone) == [t \in Pool \ gone |-> by_hash[t]]

PriorityWithout(gone) == by_priority \ {PriorityKey(t, by_hash[t]) : t \in gone \cap Pool}

\* Faulty variant: the sender index keeps the slot of a removed transaction.
SenderWithoutKeepsSlots(gone) == by_sender

SenderWithout(gone) ==
  [s \in DOMAIN by_sender \ {Slot(t) : t \in gone \cap Pool} |-> by_sender[s]]

\* Faulty variant: removal forgets the byte counter.
BytesWithoutForgets(gone) == current_bytes

BytesWithout(gone) == SaturatingSub(current_bytes, TxBytes(gone \cap Pool))

-----------------------------------------------------------------------------
(* insert *)

Admissible(tx) == tx.size <= MaxTxBytes /\ tx.kind \notin Unsupported

\* The pending transaction a submission for the same slot would replace.
Rival(tx) == IF Slot(tx) \in DOMAIN by_sender THEN {by_sender[Slot(tx)]} ELSE {}

\* Faulty variant: no fee comparison with the transaction being replaced.
RefusedWithoutFeeBump(tx) == ~Admissible(tx) \/ tx \in Pool

\* Every early return of insert: Oversize, Unsupported, Duplicate and
\* UnderpricedReplacement.
Refused(tx) ==
  \/ ~Admissible(tx)
  \/ tx \in Pool
  \/ \E r \in Rival(tx) : Fee(tx) <= Fee(r)

\* Faulty variant: the loop stops one transaction too early.
WithinLimitsOffByOne(keys, bytes) ==
  Cardinality({k.tx : k \in keys}) <= MaxCount + 1 /\ bytes <= MaxBytes

\* The loop reads len() off by_hash, so it counts transactions, not keys.
WithinLimits(keys, bytes) == Cardinality({k.tx : k \in keys}) <= MaxCount /\ bytes <= MaxBytes

\* The eviction loop.  It takes the lowest key off `ranked` until what is
\* left is within the limits, so its victims are the keys below the longest
\* prefix of the priority order that fits.  The loop also returns once the
\* incoming key is its victim; what outranks that key was within the limits
\* before the call, so the loop had no further victim.
Evicts(ranked, bytes, victims) ==
  LET left(gone) == SaturatingSub(bytes, TxBytes({k.tx : k \in gone}))
      below(v) == {k \in ranked : Outranks(v, k)}
  IN /\ \A v \in victims, k \in ranked \ victims : Outranks(k, v)
     /\ WithinLimits(ranked \ victims, left(victims))
     /\ \A v \in victims : ~WithinLimits(ranked \ below(v), left(below(v)))

Admit(tx) ==
  LET key == PriorityKey(tx, next_seq)
      ranked == PriorityWithout(Rival(tx)) \cup {key}
  IN \E victims \in SUBSET ranked :
       LET out == {k.tx : k \in victims}
           gone == Rival(tx) \cup (out \ {tx})
       IN /\ Evicts(ranked, BytesWithout(Rival(tx)) + tx.size, victims)
          /\ next_seq' = next_seq + 1
          /\ by_priority' = ranked \ victims
          /\ current_bytes' = SaturatingSub(BytesWithout(Rival(tx)) + tx.size, TxBytes(out))
          /\ IF tx \in out
             THEN /\ by_hash' = HashWithout(gone)
                  /\ by_sender' = SenderWithout(gone)
             ELSE /\ by_hash' = [t \in (Pool \ gone) \cup {tx} |->
                                   IF t = tx THEN next_seq ELSE by_hash[t]]
                  /\ by_sender' = [s \in DOMAIN SenderWithout(gone) \cup {Slot(tx)} |->
                                     IF s = Slot(tx) THEN tx ELSE by_sender[s]]

Insert(tx) ==
  /\ readmitting = {}
  /\ next_seq < MaxSeq
  /\ ~Refused(tx)
  /\ Admit(tx)
  /\ UNCHANGED <<drained, readmitting>>

-----------------------------------------------------------------------------
(* remove_many (and remove, for one hash): after a commit. *)

Discard(gone) ==
  /\ by_hash' = HashWithout(gone)
  /\ by_priority' = PriorityWithout(gone)
  /\ by_sender' = SenderWithout(gone)
  /\ current_bytes' = BytesWithout(gone)
  /\ UNCHANGED next_seq

RemoveMany(hashes) ==
  /\ readmitting = {}
  /\ hashes \cap Pool # {}
  /\ Discard(hashes)
  /\ UNCHANGED <<drained, readmitting>>

-----------------------------------------------------------------------------
(* drain_for_block *)

\* Faulty variant: the scan ends at the first key that does not fit.
PicksUntilFull(keys, picked) ==
  \A k \in keys :
    LET before == {l \in keys : Outranks(l, k)}
    IN k \in picked <=> /\ MapThenSumSet(LAMBDA l : l.fee, before) + k.fee <= BlockGas
                        /\ TxBytes({l.tx : l \in before}) + k.tx.size <= BlockBytes

\* The scan walks the keys in priority order, takes each one whose fee and
\* size still fit beside what it has taken, and skips the others.
Picks(keys, picked) ==
  \A k \in keys :
    LET taken == {p \in picked : Outranks(p, k)}
    IN k \in picked <=> /\ MapThenSumSet(LAMBDA p : p.fee, taken) + k.fee <= BlockGas
                        /\ TxBytes({p.tx : p \in taken}) + k.tx.size <= BlockBytes

\* The transactions leave the pool; the builder's previous drain is forgotten.
DrainForBlock ==
  /\ readmitting = {}
  /\ by_priority # {}
  /\ \E picked \in SUBSET by_priority :
       /\ Picks(by_priority, picked)
       /\ Discard({k.tx : k \in picked})
       /\ drained' = picked
  /\ UNCHANGED readmitting

-----------------------------------------------------------------------------
(* readmit *)

Readmit ==
  /\ readmitting = {}
  /\ drained # {}
  /\ readmitting' = drained
  /\ drained' = {}
  /\ UNCHANGED <<by_hash, by_priority, by_sender, current_bytes, next_seq>>

\* One turn of the loop: insert the next transaction and ignore an error.
ReadmitNext ==
  \E k \in readmitting :
    /\ \A l \in readmitting \ {k} : Outranks(k, l)
    /\ next_seq < MaxSeq
    /\ IF Refused(k.tx)
       THEN UNCHANGED <<by_hash, by_priority, by_sender, current_bytes, next_seq>>
       ELSE Admit(k.tx)
    /\ readmitting' = readmitting \ {k}
    /\ UNCHANGED drained

-----------------------------------------------------------------------------
PoolInit ==
  /\ by_hash = [t \in {} |-> 0]
  /\ by_priority = {}
  /\ by_sender = [s \in {} |-> 0]
  /\ current_bytes = 0
  /\ next_seq = 0
  /\ drained = {}
  /\ readmitting = {}

PoolNext ==
  \/ \E tx \in Tx : Insert(tx)
  \/ \E hashes \in SUBSET Tx : RemoveMany(hashes)
  \/ DrainForBlock
  \/ Readmit
  \/ ReadmitNext

PoolSpec == PoolInit /\ [][PoolNext]_poolVars

-----------------------------------------------------------------------------
(* Properties *)

Keys == [fee : Nat, seq : Nat, tx : Tx]

\* Types of the indexes, of the counters and of the two batches.
PoolTypeOK ==
  /\ Pool \subseteq Tx
  /\ by_hash \in [Pool -> Nat]
  /\ by_priority \subseteq Keys
  /\ by_sender \in [DOMAIN by_sender -> Tx]
  /\ current_bytes \in Nat
  /\ next_seq \in Nat
  /\ drained \subseteq Keys
  /\ readmitting \subseteq Keys

\* The priority index holds the key of every pending transaction and nothing
\* else, whatever mix of replacement, eviction, drain and readmission came
\* before: a stale key would be drained, or evicted, in place of a live one.
PriorityIndexAgrees == by_priority = {PriorityKey(t, by_hash[t]) : t \in Pool}

\* The sender index leads from every pending transaction's (sender, nonce)
\* to that transaction, and from nowhere else (insert panics otherwise, on
\* "by_sender and by_hash invariants violated").  Since the slot leads back
\* to its one transaction, no two pending transactions share it.
SenderIndexAgrees ==
  /\ DOMAIN by_sender = {Slot(t) : t \in Pool}
  /\ \A t \in Pool : by_sender[Slot(t)] = t

\* A sequence number is given once: the FIFO tie-break is a strict order.
SeqUnique ==
  /\ \A t \in Pool : by_hash[t] < next_seq
  /\ \A t, u \in Pool : by_hash[t] = by_hash[u] => t = u

IndexesAgree == PriorityIndexAgrees /\ SenderIndexAgrees /\ SeqUnique

\* The pool is never left above either of its caps.
CapsHold == Cardinality(Pool) <= MaxCount /\ current_bytes <= MaxBytes

\* A slot that stays occupied across a step changes hands only for a strictly
\* higher fee (the fee-bump rule), readmission included.
FeeBumpOnly ==
  [][\A s \in DOMAIN by_sender \cap DOMAIN by_sender' :
        by_sender'[s] # by_sender[s] => Fee(by_sender'[s]) > Fee(by_sender[s])]_poolVars

\* Neither index nor counter decides what fits, the transactions do.
Fits(txs) == Cardinality(txs) <= MaxCount /\ TxBytes(txs) <= MaxBytes

\* When an admission pushes transactions out, none of them paid more than one
\* that stays, the newcomer included.  Only the transaction being replaced is
\* exempt: its slot goes to a newcomer that paid more, or to none if the
\* newcomer is evicted at once.  And as many are pushed out as the caps ask
\* for: what stays fits, and would not with one of those that left, so the
\* saturating subtractions of remove_by_hash never let the byte counter drift.
PushesOutLowest ==
  LET newcomers == {v \in Tx \ Pool : Admissible(v) /\ (v \in Pool' \/ Pool' \subseteq Pool)}
      replaced(t) == \E v \in newcomers : Slot(v) = Slot(t) /\ Fee(v) > Fee(t)
      evicted == {t \in Pool \ Pool' : ~replaced(t)}
  IN /\ \A t \in evicted, u \in Pool' : Fee(t) <= Fee(u)
     /\ Fits(Pool')
     /\ evicted # {} => \E t \in (Pool \cup newcomers) \ Pool' : ~Fits(Pool' \cup {t})

\* Every admission pushes out the lowest fees, and no more than it must (the
\* eviction loop of insert and the byte counter it reads).
EvictsLowestFees == [][next_seq' # next_seq => PushesOutLowest]_poolVars

=============================================================================
