----------------------------- MODULE LedgerProofs -----------------------------
(***************************************************************************)
(* What CommitBlock guarantees for every set of transactions, accounts,    *)
(* nodes and jobs, and all parameters.                                     *)
(*                                                                         *)
(* The first part is its inductive invariant: the committed tables and     *)
(* those of the open block have their types, whatever a slash, a mint, a   *)
(* rotation or a proposal's outcome computes, and BlockSound holds of      *)
(* every transaction of the block.  A lemma <X>Keeps says which tables the *)
(* handler of X writes; a lemma <X>Type that what X computes is of the     *)
(* type of its table.  Each sum is one of FoldTheorems.                    *)
(*                                                                         *)
(* The second part is what a commit does to the committed tables.  A       *)
(* handler's checks read the committed table while its writes go to the    *)
(* open block, and the block may hold any number of transactions, so an    *)
(* action property about a commit rests on an invariant that relates the   *)
(* open block to the committed state through the whole block: VoteInv and  *)
(* EscrowInv, which need no types, and OpenInv (positions, receipts and    *)
(* proposals), which adds to BlockInv.  Writers and TableWriters say which *)
(* handler writes which table; everything else leaves it alone.            *)
(***************************************************************************)
EXTENDS CommitBlock, FoldTheorems, SequenceTheorems

(* The types of the tables *)

AcctTable == [Addr -> Account]

StakeTable == [StakeKey -> StakeEntry]

PendingTable == [Job -> PendingReward \cup {None}]

EscrowTable == [Job -> Escrow \cup {None}]

ProposalTable == [ProposalId -> Proposal \cup {None}]

VoteTable == [ProposalId \X Addr -> Choices4 \cup {None}]

GatewayTable == [Node -> Addr \cup {None}]

ValidatorTable == [Node -> Validator \cup {None}]

\* The tables, each by the name of its type.
LEMMA StateOfTables ==
  State = [acct : AcctTable, stake : StakeTable, unbond : SUBSET Unbonding, next_unbond_id : Nat,
           seen : SUBSET Job, escrow : EscrowTable, pending : PendingTable,
           proposal : ProposalTable, vote : VoteTable, next_proposal_id : Nat,
           model : SUBSET Model, tee : SUBSET Node, gateway : GatewayTable,
           validator : ValidatorTable, base_fee : Nat, height : Nat]
BY DEF State, AcctTable, StakeTable, PendingTable, EscrowTable, ProposalTable, VoteTable,
       GatewayTable, ValidatorTable

\* Payments and stakes: an account is credited, debited or spent from.
LEMMA Credited ==
  ASSUME NEW acct \in AcctTable, NEW a \in Addr, NEW n, n \in Nat
  PROVE  /\ Credit(acct, a, n) \in AcctTable
         /\ \A b \in Addr : Credit(acct, a, n)[b].nonce = acct[b].nonce
         /\ \A b \in Addr : Credit(acct, a, n)[b].balance = acct[b].balance + IF b = a THEN n ELSE 0
BY DEF Credit, AcctTable, Account

\* A debit of what is there lowers one balance and moves no nonce.
LEMMA Debited ==
  ASSUME NEW acct \in AcctTable, NEW a \in Addr, NEW n, n \in Nat, n <= acct[a].balance
  PROVE  /\ Debit(acct, a, n) \in AcctTable
         /\ \A b \in Addr : Debit(acct, a, n)[b].nonce = acct[b].nonce
         /\ \A b \in Addr : Debit(acct, a, n)[b].balance = acct[b].balance - IF b = a THEN n ELSE 0
BY DEF Debit, AcctTable, Account

\* A signer pays and its nonce goes up by one, in one write.
LEMMA Spent ==
  ASSUME NEW acct \in AcctTable, NEW a \in Addr, NEW n, n \in Nat, n <= acct[a].balance
  PROVE  /\ Spend(acct, a, n) \in AcctTable
         /\ \A b \in Addr : Spend(acct, a, n)[b].nonce = acct[b].nonce + IF b = a THEN 1 ELSE 0
         /\ \A b \in Addr : Spend(acct, a, n)[b].balance = acct[b].balance - IF b = a THEN n ELSE 0
BY DEF Spend, AcctTable, Account

\* A payment is split without a remainder.
LEMMA SplitWhole ==
  ASSUME NEW total \in Nat
  PROVE  LET s == Split(total)
         IN /\ s.compute \in Nat /\ s.verifier \in Nat /\ s.burned \in Nat
            /\ s.delegators \in Nat /\ s.treasury \in Nat
            /\ s.compute + s.verifier + s.burned + s.delegators + s.treasury = total
BY DEF Split

\* The three shares of a payment are credited and no nonce moves (fee split).
LEMMA SplitCredited ==
  ASSUME NEW old \in AcctTable, NEW tx, tx.compute \in Addr, tx.verifier \in Addr,
         tx.treasury \in Addr, NEW total, total \in Nat
  PROVE  LET acct == CreditSplit(old, total, tx.compute, tx.verifier, tx.treasury)
         IN acct \in AcctTable /\ \A b \in Addr : acct[b].nonce = old[b].nonce
<1> DEFINE first == Split(total).compute + Split(total).delegators
           second == Split(total).verifier
           third == Split(total).treasury
           a1 == Credit(old, tx.compute, first)
           a2 == Credit(a1, tx.verifier, second)
<1>1. first \in Nat /\ second \in Nat /\ third \in Nat
  BY SplitWhole
<1>2. CreditSplit(old, total, tx.compute, tx.verifier, tx.treasury) = Credit(a2, tx.treasury, third)
  BY DEF CreditSplit
<1> HIDE DEF first, second, third
<1> HIDE DEF a1, a2
<1>3. /\ a1 \in AcctTable
      /\ \A b \in Addr : a1[b].nonce = old[b].nonce
  BY <1>1, Credited DEF a1
<1>4. a2 \in AcctTable /\ \A b \in Addr : a2[b].nonce = a1[b].nonce
  BY <1>1, <1>3, Credited DEF a2
<1>5. /\ Credit(a2, tx.treasury, third) \in AcctTable
      /\ \A b \in Addr : Credit(a2, tx.treasury, third)[b].nonce = a2[b].nonce
  BY <1>1, <1>4, Credited
<1> QED BY <1>2, <1>3, <1>4, <1>5

\* A position is written with a new amount, or cleared.
LEMMA StakeSet ==
  ASSUME NEW stake \in StakeTable, NEW key \in StakeKey, NEW entry \in StakeEntry
  PROVE  /\ SetStake(stake, key, entry) \in StakeTable
         /\ \A k \in StakeKey : k # key => SetStake(stake, key, entry)[k] = stake[k]
         /\ SetStake(stake, key, entry)[key].amount = entry.amount
<1>1. [amount |-> 0, bonded_at |-> 0] \in StakeEntry
  BY DEF StakeEntry
<1> DEFINE new == IF entry.amount = 0 THEN [amount |-> 0, bonded_at |-> 0] ELSE entry
<1>2. new \in StakeEntry /\ new.amount = entry.amount
  BY <1>1 DEF StakeEntry
<1>3. SetStake(stake, key, entry) = [stake EXCEPT ![key] = new]
  BY DEF SetStake
<1> HIDE DEF new
<1> QED BY <1>2, <1>3 DEF StakeTable

-----------------------------------------------------------------------------
(* What each handler leaves of the open block *)

\* Only a transfer and an escrow lock use up a nonce of their sender.
UsesNonce(tx, a) == tx.kind \in {"Transfer", "EscrowLock"} /\ tx.from = a

\* Types are kept, and the nonces move by what the transaction uses up.
Keeps(tx) ==
  /\ ctx' \in State
  /\ \A a \in Addr : ctx'.acct[a].nonce = ctx.acct[a].nonce + IF UsesNonce(tx, a) THEN 1 ELSE 0

SameUnbonding == ctx'.unbond = ctx.unbond /\ ctx'.next_unbond_id = ctx.next_unbond_id

\* apply_transfer writes only what its arm names.
LEMMA TransferKeeps ==
  ASSUME db \in State, ctx \in State, NEW tx \in Txs, Transfer(tx)
  PROVE  Keeps(tx) /\ SameUnbonding
<1> DEFINE total == tx.amount + tx.fee * db.base_fee
           spent == Spend(ctx.acct, tx.from, total)
           acct == Credit(spent, tx.to, tx.amount)
<1>1. /\ tx.kind = "Transfer" /\ tx.from \in Addr /\ tx.to \in Addr
      /\ tx.amount \in Nat /\ tx.fee \in Nat
  BY BlockAssumption DEF Transfer, TxOfKind, StakeOps
<1>2. ctx.acct \in AcctTable /\ db.base_fee \in Nat
  BY StateOfTables
<1>3. total \in Nat
  BY <1>1, <1>2
<1>4. total <= ctx.acct[tx.from].balance
  BY <1>3 DEF Transfer, CanSpend, CanPay, GetAccount
<1>5. ctx' = [ctx EXCEPT !.acct = acct]
  BY DEF Transfer
<1> HIDE DEF total, spent, acct
<1>6. spent \in AcctTable
  BY <1>1, <1>2, <1>3, <1>4, Spent DEF spent
<1>7. acct \in AcctTable
  BY <1>1, <1>6, Credited DEF acct
<1>8. \A a \in Addr : acct[a].nonce = ctx.acct[a].nonce + IF a = tx.from THEN 1 ELSE 0
  <2>1. \A a \in Addr : acct[a].nonce = spent[a].nonce
    BY <1>1, <1>6, Credited DEF acct
  <2>2. \A a \in Addr : spent[a].nonce = ctx.acct[a].nonce + IF a = tx.from THEN 1 ELSE 0
    BY <1>1, <1>2, <1>3, <1>4, Spent DEF spent
  <2> QED BY <2>1, <2>2
<1>9. ctx' \in State /\ ctx'.acct = acct /\ SameUnbonding
  BY <1>5, <1>7, StateOfTables DEF SameUnbonding
<1> QED BY <1>1, <1>8, <1>9 DEF Keeps, UsesNonce

\* apply_escrow_lock writes a new escrow and its payer's account.
LEMMA EscrowLockKeeps ==
  ASSUME db \in State, ctx \in State, NEW tx \in Txs, EscrowLock(tx)
  PROVE  Keeps(tx) /\ SameUnbonding
<1> DEFINE total == tx.amount + tx.fee
           spent == Spend(ctx.acct, tx.from, total)
           lock == [user |-> tx.from, amount |-> tx.amount, created_at |-> db.height,
                    state |-> "Locked"]
<1>1. /\ tx.kind = "EscrowLock" /\ tx.from \in Addr /\ tx.job \in Job
      /\ tx.amount \in Nat /\ tx.fee \in Nat
  BY BlockAssumption DEF EscrowLock, TxOfKind, StakeOps
<1>2. ctx.acct \in AcctTable /\ ctx.escrow \in EscrowTable /\ db.height \in Nat
  BY StateOfTables
<1>3. total \in Nat
  BY <1>1
<1>4. total <= ctx.acct[tx.from].balance
  BY <1>3 DEF EscrowLock, CanSpend, CanPay, GetAccount
<1>5. lock \in Escrow
  BY <1>1, <1>2 DEF Escrow
<1>6. ctx' = [ctx EXCEPT !.acct = spent, !.escrow[tx.job] = lock]
  BY DEF EscrowLock
<1> HIDE DEF total, spent, lock
<1>7. /\ spent \in AcctTable
      /\ \A a \in Addr : spent[a].nonce = ctx.acct[a].nonce + IF a = tx.from THEN 1 ELSE 0
  BY <1>1, <1>2, <1>3, <1>4, Spent DEF spent
<1>8. [ctx.escrow EXCEPT ![tx.job] = lock] \in EscrowTable
  BY <1>2, <1>5 DEF EscrowTable
<1>9. ctx' \in State /\ ctx'.acct = spent /\ SameUnbonding
  BY <1>6, <1>7, <1>8, StateOfTables DEF SameUnbonding
<1> QED BY <1>1, <1>7, <1>9 DEF Keeps, UsesNonce

\* apply_escrow_settle closes the escrow it pays out, and no other.
LEMMA EscrowSettleKeeps ==
  ASSUME db \in State, ctx \in State, NEW tx \in Txs, EscrowSettle(tx)
  PROVE  Keeps(tx) /\ SameUnbonding
<1> DEFINE e == db.escrow[tx.job]
           acct == CreditSplit(ctx.acct, e.amount, tx.compute, tx.verifier, tx.treasury)
           reward == [tokens |-> 0, epoch |-> Epoch(db.height), compute |-> tx.compute,
                      verifier |-> tx.verifier, treasury |-> tx.treasury, tee |-> 2]
           settled == [e EXCEPT !.state = "Settled"]
<1>1. /\ tx.kind = "EscrowSettle" /\ tx.job \in Job /\ tx.compute \in Addr
      /\ tx.verifier \in Addr /\ tx.treasury \in Addr
  BY BlockAssumption DEF EscrowSettle, TxOfKind, StakeOps
<1>2. /\ ctx.acct \in AcctTable /\ ctx.escrow \in EscrowTable /\ ctx.pending \in PendingTable
      /\ db.escrow \in EscrowTable /\ db.height \in Nat
  BY StateOfTables
<1>3. e \in Escrow
  BY <1>1, <1>2 DEF EscrowSettle, EscrowTable
<1>4. settled \in Escrow /\ e.amount \in Nat
  BY <1>3 DEF Escrow
<1>5. Epoch(db.height) \in Nat
  BY <1>2, EpochAssumption DEF Epoch
<1>6. reward \in PendingReward
  BY <1>1, <1>5 DEF PendingReward
<1>7. ctx' = [ctx EXCEPT !.acct = acct, !.pending[tx.job] = reward, !.escrow[tx.job] = settled]
  BY DEF EscrowSettle
<1> HIDE DEF e, acct, reward, settled
<1>8. acct \in AcctTable /\ \A a \in Addr : acct[a].nonce = ctx.acct[a].nonce
  <2>1. acct = CreditSplit(ctx.acct, e.amount, tx.compute, tx.verifier, tx.treasury)
    BY DEF acct
  <2> QED BY <1>1, <1>2, <1>4, <2>1, SplitCredited
<1>9. /\ [ctx.escrow EXCEPT ![tx.job] = settled] \in EscrowTable
      /\ [ctx.pending EXCEPT ![tx.job] = reward] \in PendingTable
  BY <1>2, <1>4, <1>6 DEF EscrowTable, PendingTable
<1>10. ctx' \in State /\ ctx'.acct = acct /\ SameUnbonding
  BY <1>7, <1>8, <1>9, StateOfTables DEF SameUnbonding
<1>11. \A a \in Addr : ctx.acct[a].nonce \in Nat
  BY <1>2 DEF AcctTable, Account
<1> QED BY <1>1, <1>8, <1>10, <1>11 DEF Keeps, UsesNonce

\* apply_reward_mint credits the shares of the reward, and changes nothing else.
LEMMA RewardMintKeeps ==
  ASSUME db \in State, ctx \in State, NEW tx \in Txs, RewardMint(tx)
  PROVE  Keeps(tx) /\ SameUnbonding
<1> DEFINE acct == CreditSplit(ctx.acct, tx.total, tx.compute, tx.verifier, tx.treasury)
<1>1. /\ tx.kind = "RewardMint" /\ tx.compute \in Addr /\ tx.verifier \in Addr
      /\ tx.treasury \in Addr /\ tx.total \in Nat
  BY BlockAssumption DEF RewardMint, TxOfKind, StakeOps
<1>2. ctx.acct \in AcctTable
  BY StateOfTables
<1>3. ctx' = [ctx EXCEPT !.acct = acct]
  BY DEF RewardMint
<1> HIDE DEF acct
<1>4. acct \in AcctTable /\ \A a \in Addr : acct[a].nonce = ctx.acct[a].nonce
  <2>1. acct = CreditSplit(ctx.acct, tx.total, tx.compute, tx.verifier, tx.treasury)
    BY DEF acct
  <2> QED BY <1>1, <1>2, <2>1, SplitCredited
<1>5. ctx' \in State /\ ctx'.acct = acct /\ SameUnbonding
  BY <1>3, <1>4, StateOfTables DEF SameUnbonding
<1>6. \A a \in Addr : ctx.acct[a].nonce \in Nat
  BY <1>2 DEF AcctTable, Account
<1> QED BY <1>1, <1>4, <1>5, <1>6 DEF Keeps, UsesNonce

\* A handler that leaves the accounts alone uses no nonce.
LEMMA AccountsKept ==
  ASSUME ctx \in State, ctx' \in State, NEW tx, ctx'.acct = ctx.acct,
         tx.kind \notin {"Transfer", "EscrowLock"}
  PROVE  Keeps(tx)
<1>1. \A a \in Addr : ctx.acct[a].nonce \in Nat
  BY StateOfTables DEF AcctTable, Account
<1> QED BY <1>1 DEF Keeps, UsesNonce

\* The receipts a batch marks are the longest run of new ones it starts with.
LEMMA MarkedRun ==
  ASSUME NEW receipts \in Seq(Receipt)
  PROVE  \E n \in 0..Len(receipts) :
           /\ Marked(receipts) = SubSeq(receipts, 1, n)
           /\ Anchorable(receipts, n)
           /\ \A m \in 0..Len(receipts) : Anchorable(receipts, m) => m <= n
<1> DEFINE S == {m \in 0..Len(receipts) : Anchorable(receipts, m)}
<1>1. Anchorable(receipts, 0)
  BY DEF Anchorable
<1>2. Len(receipts) \in Nat
  OBVIOUS
<1>3. IsFiniteSet(S) /\ S \in SUBSET Int /\ S # {}
  <2>1. IsFiniteSet(0..Len(receipts))
    BY <1>2, FS_Interval
  <2> QED BY <2>1, <1>1, <1>2, FS_Subset
<1>4. \E x \in S : \A y \in S : y <= x
  BY <1>3, LargestMember
<1>5. Max(S) \in S /\ \A y \in S : y <= Max(S)
  <2>1. \E x \in S : \A y \in S : x >= y
    BY <1>3, <1>4
  <2>2. Max(S) \in S /\ \A y \in S : Max(S) >= y
    BY <2>1 DEF Max
  <2> QED BY <2>2, <1>3
<1> QED BY <1>5 DEF Marked

\* The receipts a batch marks are some of its own, in its order.
LEMMA MarkedReceipts ==
  ASSUME NEW receipts \in Seq(Receipt)
  PROVE  /\ Marked(receipts) \in Seq(Receipt)
         /\ JobsOf(Marked(receipts)) \in SUBSET Job
<1>1. PICK n \in 0..Len(receipts) : Marked(receipts) = SubSeq(receipts, 1, n)
  BY MarkedRun
<1>2. SubSeq(receipts, 1, n) \in Seq(Receipt)
  BY SubSeqProperties
<1>3. \A i \in DOMAIN Marked(receipts) : Marked(receipts)[i] \in Receipt
  BY <1>1, <1>2
<1>4. \A r \in Receipt : r.job \in Job
  BY DEF Receipt
<1> QED BY <1>1, <1>2, <1>3, <1>4 DEF JobsOf

\* A batch queues rewards at the height of the block being built.
LEMMA Queued ==
  ASSUME NEW pending \in PendingTable, NEW receipts \in Seq(Receipt), db.height \in Nat
  PROVE  Queue(pending, receipts) \in PendingTable
<1> SUFFICES ASSUME NEW j \in Job PROVE Queue(pending, receipts)[j] \in PendingReward \cup {None}
  BY DEF Queue, PendingTable
<1>1. CASE j \notin JobsOf(receipts)
  BY <1>1 DEF Queue, PendingTable
<1>2. CASE j \in JobsOf(receipts)
  <2> DEFINE r == receipts[CHOOSE i \in DOMAIN receipts : receipts[i].job = j]
             reward == [tokens |-> r.tokens, epoch |-> Epoch(db.height),
                        compute |-> NodeAddr[r.node], verifier |-> Treasury,
                        treasury |-> Treasury, tee |-> IF r.tee THEN 3 ELSE 2]
  <2>1. r \in Receipt
    <3>1. \E i \in DOMAIN receipts : receipts[i].job = j
      BY <1>2 DEF JobsOf
    <3>2. (CHOOSE i \in DOMAIN receipts : receipts[i].job = j) \in DOMAIN receipts
      BY <3>1
    <3> QED BY <3>2
  <2>2. r.tokens \in Nat /\ NodeAddr[r.node] \in Addr
    BY <2>1, StateAssumption DEF Receipt
  <2>3. Epoch(db.height) \in Nat
    BY EpochAssumption DEF Epoch
  <2>4. Queue(pending, receipts)[j] = reward
    BY <1>2 DEF Queue
  <2> HIDE DEF r
  <2>5. reward \in PendingReward
    BY <2>2, <2>3, StateAssumption DEF PendingReward
  <2> QED BY <2>4, <2>5
<1> QED BY <1>1, <1>2

\* apply_receipt_batch marks receipts and queues their rewards, and changes nothing else.
LEMMA ReceiptBatchKeeps ==
  ASSUME db \in State, ctx \in State, NEW tx \in Txs, ReceiptBatch(tx)
  PROVE  Keeps(tx) /\ SameUnbonding
<1> DEFINE marked == Marked(tx.receipts)
           seen == ctx.seen \cup JobsOf(marked)
           pending == IF marked = tx.receipts /\ Bootstrapping THEN Queue(ctx.pending, marked)
                      ELSE ctx.pending
<1>1. tx.kind = "ReceiptBatch" /\ tx.receipts \in Seq(Receipt)
  BY BlockAssumption DEF ReceiptBatch, TxOfKind, StakeOps
<1>2. ctx.seen \in SUBSET Job /\ ctx.pending \in PendingTable /\ db.height \in Nat
  BY StateOfTables
<1>3. marked \in Seq(Receipt) /\ JobsOf(marked) \in SUBSET Job
  BY <1>1, MarkedReceipts
<1>4. ctx' = [ctx EXCEPT !.seen = seen, !.pending = pending]
  BY DEF ReceiptBatch
<1> HIDE DEF marked
<1>5. seen \in SUBSET Job /\ pending \in PendingTable
  BY <1>2, <1>3, Queued
<1> HIDE DEF seen, pending
<1>6. ctx' \in State /\ ctx'.acct = ctx.acct /\ SameUnbonding
  BY <1>4, <1>5, StateOfTables DEF SameUnbonding
<1> QED BY <1>1, <1>6, AccountsKept

\* apply_stake's deposit moves balance to stake under one key.
LEMMA DepositKeeps ==
  ASSUME db \in State, ctx \in State, NEW tx \in Txs, Deposit(tx)
  PROVE  Keeps(tx) /\ SameUnbonding
<1> DEFINE key == <<tx.node, tx.role, tx.delegator>>
           acct == Debit(ctx.acct, tx.sender, tx.amount)
           entry == Topped(ctx.stake[key], tx.amount)
           stake == SetStake(ctx.stake, key, entry)
<1>1. /\ tx.kind = "Deposit" /\ tx.sender \in Addr /\ tx.amount \in Nat
      /\ tx.node \in Node /\ tx.role \in Role /\ tx.delegator \in Addr \cup {None}
  BY BlockAssumption DEF Deposit, TxOfKind, StakeOps, StakeOp
<1>2. ctx.acct \in AcctTable /\ ctx.stake \in StakeTable /\ db.height \in Nat
  BY StateOfTables
<1>3. key \in StakeKey
  BY <1>1 DEF StakeKey
<1>4. tx.amount <= ctx.acct[tx.sender].balance
  BY <1>1 DEF Deposit, CanPay, GetAccount
<1>5. ctx' = [ctx EXCEPT !.acct = acct, !.stake = stake]
  BY DEF Deposit, GetStake
<1> HIDE DEF key
<1>6. entry \in StakeEntry
  BY <1>1, <1>2, <1>3 DEF Topped, StakeTable, StakeEntry
<1> HIDE DEF acct, entry, stake
<1>7. acct \in AcctTable /\ \A a \in Addr : acct[a].nonce = ctx.acct[a].nonce
  BY <1>1, <1>2, <1>4, Debited DEF acct
<1>8. stake \in StakeTable
  BY <1>2, <1>3, <1>6, StakeSet DEF stake
<1>9. ctx' \in State /\ ctx'.acct = acct /\ SameUnbonding
  BY <1>5, <1>7, <1>8, StateOfTables DEF SameUnbonding
<1>10. \A a \in Addr : ctx.acct[a].nonce \in Nat
  BY <1>2 DEF AcctTable, Account
<1> QED BY <1>1, <1>7, <1>9, <1>10 DEF Keeps, UsesNonce

\* A transaction acts on one of the sender's positions or on the operator's.
LEMMA PositionKey ==
  ASSUME NEW n \in Node, NEW r \in Role, NEW sender \in Addr, NEW key \in Position(n, r, sender)
  PROVE  /\ key \in StakeKey
         /\ key = <<n, r, key[3]>>
         /\ key[3] \in {sender, None}
BY DEF Position, StakeKey

\* A withdrawal puts one entry, with a fresh id, among the unbondings.
LEMMA WithdrawKeeps ==
  ASSUME db \in State, ctx \in State, NEW tx \in Txs, Withdraw(tx)
  PROVE  /\ Keeps(tx)
         /\ \E new \in Unbonding :
              /\ new.id = ctx.next_unbond_id
              /\ new.completes_at = db.height + UnbondingPeriod
              /\ ctx'.unbond = SetUnbonding(ctx.unbond, new)
              /\ ctx'.next_unbond_id = ctx.next_unbond_id + 1
<1>1. /\ tx.kind = "Withdraw" /\ tx.sender \in Addr /\ tx.amount \in Nat
      /\ tx.node \in Node /\ tx.role \in Role
  BY BlockAssumption DEF Withdraw, TxOfKind, StakeOps, StakeOp
<1>2. PICK key \in Position(tx.node, tx.role, tx.sender) :
        /\ tx.amount <= GetStake(key).amount
        /\ ctx' = [ctx EXCEPT
             !.stake = SetStake(@, key, Without(GetStake(key), tx.amount)),
             !.unbond = SetUnbonding(@, [id |-> FreshId, node |-> tx.node, role |-> tx.role,
                                         delegator |-> key[3], amount |-> tx.amount,
                                         started_at |-> db.height,
                                         completes_at |-> db.height + UnbondingPeriod]),
             !.next_unbond_id = FreshId + 1]
  BY DEF Withdraw
<1> DEFINE entry == Without(ctx.stake[key], tx.amount)
           stake == SetStake(ctx.stake, key, entry)
           new == [id |-> ctx.next_unbond_id, node |-> tx.node, role |-> tx.role,
                   delegator |-> key[3], amount |-> tx.amount, started_at |-> db.height,
                   completes_at |-> db.height + UnbondingPeriod]
           unbond == SetUnbonding(ctx.unbond, new)
           next == ctx.next_unbond_id + 1
<1>3. ctx' = [ctx EXCEPT !.stake = stake, !.unbond = unbond, !.next_unbond_id = next]
  BY <1>2, Zenon DEF FreshId, GetStake
<1>4. /\ ctx.stake \in StakeTable /\ db.height \in Nat /\ ctx.next_unbond_id \in Nat
      /\ ctx.unbond \in SUBSET Unbonding
  BY StateOfTables
<1>5. key \in StakeKey /\ key[3] \in Addr \cup {None}
  BY <1>1, PositionKey
<1>6. entry \in StakeEntry
  BY <1>1, <1>2, <1>4, <1>5 DEF Without, GetStake, StakeTable, StakeEntry
<1>7. new \in Unbonding
  BY <1>1, <1>4, <1>5, StakeAssumption DEF Unbonding
<1>8. new.id = ctx.next_unbond_id /\ new.completes_at = db.height + UnbondingPeriod
  OBVIOUS
<1> HIDE DEF entry, new
<1>9. stake \in StakeTable
  BY <1>4, <1>5, <1>6, StakeSet
<1>10. unbond \in SUBSET Unbonding /\ next \in Nat
  BY <1>4, <1>7 DEF SetUnbonding
<1> HIDE DEF stake, unbond, next
<1>11. /\ ctx' \in State /\ ctx'.acct = ctx.acct
       /\ ctx'.unbond = unbond /\ ctx'.next_unbond_id = next
  BY <1>3, <1>9, <1>10, StateOfTables
<1> QED BY <1>1, <1>7, <1>8, <1>11, AccountsKept DEF unbond, next

\* A completion takes out one entry whose period is over.
LEMMA CompleteKeeps ==
  ASSUME db \in State, ctx \in State, NEW tx \in Txs, Complete(tx)
  PROVE  /\ Keeps(tx)
         /\ \E u \in ctx.unbond : /\ db.height >= u.completes_at
                                  /\ ctx'.unbond = ctx.unbond \ {u}
                                  /\ ctx'.next_unbond_id = ctx.next_unbond_id
<1>1. tx.kind = "Complete" /\ tx.sender \in Addr
  BY BlockAssumption DEF Complete, TxOfKind, StakeOps, StakeOp
<1>2. PICK u \in GetUnbonding(tx.node, tx.id) :
        LET payee == IF u.delegator = None THEN tx.sender ELSE u.delegator
        IN /\ u.delegator \in {None, tx.sender}
           /\ IsComplete(u)
           /\ ctx' = [ctx EXCEPT !.acct = Credit(@, payee, u.amount), !.unbond = @ \ {u}]
  BY DEF Complete
<1> DEFINE payee == IF u.delegator = None THEN tx.sender ELSE u.delegator
           acct == Credit(ctx.acct, payee, u.amount)
<1>3. ctx.acct \in AcctTable /\ ctx.unbond \in SUBSET Unbonding
  BY StateOfTables
<1>4. u \in ctx.unbond /\ u \in Unbonding
  BY <1>3 DEF GetUnbonding
<1>5. payee \in Addr /\ u.amount \in Nat
  BY <1>1, <1>2, <1>4 DEF Unbonding
<1>6. ctx' = [ctx EXCEPT !.acct = acct, !.unbond = ctx.unbond \ {u}]
  BY <1>2
<1> HIDE DEF payee, acct
<1>7. acct \in AcctTable /\ \A a \in Addr : acct[a].nonce = ctx.acct[a].nonce
  BY <1>3, <1>5, Credited DEF acct
<1>8. /\ ctx' \in State /\ ctx'.acct = acct
      /\ ctx'.unbond = ctx.unbond \ {u} /\ ctx'.next_unbond_id = ctx.next_unbond_id
  BY <1>3, <1>6, <1>7, StateOfTables
<1>9. \A a \in Addr : ctx.acct[a].nonce \in Nat
  BY <1>3 DEF AcctTable, Account
<1>10. Keeps(tx)
  BY <1>1, <1>7, <1>8, <1>9 DEF Keeps, UsesNonce
<1> QED BY <1>2, <1>4, <1>8, <1>10 DEF IsComplete

\* apply_stake's redelegation moves stake between two keys.
LEMMA RedelegateKeeps ==
  ASSUME db \in State, ctx \in State, NEW tx \in Txs, Redelegate(tx)
  PROVE  Keeps(tx) /\ SameUnbonding
<1>1. /\ tx.kind = "Redelegate" /\ tx.sender \in Addr /\ tx.amount \in Nat
      /\ tx.from \in Node /\ tx.to \in Node /\ tx.role \in Role
  BY BlockAssumption DEF Redelegate, TxOfKind, StakeOps, StakeOp
<1>2. PICK key \in Position(tx.from, tx.role, tx.sender) :
        LET dst == <<tx.to, tx.role, key[3]>>
            source == Without(GetStake(key), tx.amount)
        IN /\ tx.amount <= GetStake(key).amount
           /\ ctx' = [ctx EXCEPT
                !.stake = SetStake(SetStake(@, key, source), dst, Topped(GetStake(dst), tx.amount))]
  BY DEF Redelegate
<1> DEFINE dst == <<tx.to, tx.role, key[3]>>
           source == Without(ctx.stake[key], tx.amount)
           entry == Topped(ctx.stake[dst], tx.amount)
           left == SetStake(ctx.stake, key, source)
           stake == SetStake(left, dst, entry)
<1>3. ctx' = [ctx EXCEPT !.stake = stake] /\ tx.amount <= ctx.stake[key].amount
  BY <1>2, Zenon DEF GetStake
<1>4. ctx.stake \in StakeTable /\ db.height \in Nat
  BY StateOfTables
<1>5. key \in StakeKey /\ key[3] \in Addr \cup {None}
  BY <1>1, PositionKey
<1>6. dst \in StakeKey
  BY <1>1, <1>5 DEF StakeKey
<1> HIDE DEF dst
<1>7. source \in StakeEntry /\ entry \in StakeEntry
  BY <1>1, <1>3, <1>4, <1>5, <1>6 DEF Without, Topped, StakeTable, StakeEntry
<1> HIDE DEF source, entry, left
<1>8. left \in StakeTable
  BY <1>4, <1>5, <1>7, StakeSet DEF left
<1>9. stake \in StakeTable
  BY <1>6, <1>7, <1>8, StakeSet
<1> HIDE DEF stake
<1>10. ctx' \in State /\ ctx'.acct = ctx.acct /\ SameUnbonding
  BY <1>3, <1>9, StateOfTables DEF SameUnbonding
<1> QED BY <1>1, <1>10, AccountsKept

\* apply_gov_proposal opens a proposal under the next id; its signer pays the deposit.
LEMMA GovProposalKeeps ==
  ASSUME db \in State, ctx \in State, NEW tx \in Txs, GovProposal(tx)
  PROVE  Keeps(tx) /\ SameUnbonding
<1> DEFINE id == db.next_proposal_id
           acct == Debit(ctx.acct, tx.signer, tx.deposit)
           body == [proposer |-> tx.proposer, deposit |-> tx.deposit,
                    discussion_ends |-> tx.discussion_ends, voting_ends |-> tx.voting_ends,
                    phase |-> "Discussion", submitted_at |-> db.height]
           proposal == [ctx.proposal EXCEPT ![id] = body]
           next == id + 1
<1>1. /\ tx.kind = "GovProposal" /\ tx.signer \in Addr /\ tx.proposer \in Addr
      /\ tx.deposit \in Nat /\ tx.discussion_ends \in Nat /\ tx.voting_ends \in Nat
  BY BlockAssumption DEF GovProposal, TxOfKind, StakeOps, ProposalBody
<1>2. /\ ctx.acct \in AcctTable /\ ctx.proposal \in ProposalTable
      /\ db.next_proposal_id \in Nat /\ db.height \in Nat
  BY StateOfTables
<1>3. tx.deposit <= ctx.acct[tx.signer].balance
  BY <1>1 DEF GovProposal, CanPay, GetAccount
<1>4. ctx' = [ctx EXCEPT !.acct = acct, !.proposal = proposal, !.next_proposal_id = next]
  BY DEF GovProposal, NextProposalId
<1>5. body \in Proposal
  BY <1>1, <1>2 DEF Proposal, Phases
<1> HIDE DEF body
<1>6. id \in ProposalId /\ next \in Nat
  BY <1>2, StateAssumption DEF GovProposal, NextProposalId, ProposalId
<1> HIDE DEF id
<1>10. proposal \in ProposalTable
  BY <1>2, <1>5, <1>6 DEF ProposalTable
<1> HIDE DEF acct, proposal, next
<1>7. acct \in AcctTable /\ \A a \in Addr : acct[a].nonce = ctx.acct[a].nonce
  BY <1>1, <1>2, <1>3, Debited DEF acct
<1>8. ctx' \in State /\ ctx'.acct = acct /\ SameUnbonding
  BY <1>4, <1>6, <1>7, <1>10, StateOfTables DEF SameUnbonding
<1>9. \A a \in Addr : ctx.acct[a].nonce \in Nat
  BY <1>2 DEF AcctTable, Account
<1> QED BY <1>1, <1>7, <1>8, <1>9 DEF Keeps, UsesNonce

\* apply_gov_vote records one ballot of a voter for a proposal.
LEMMA GovVoteKeeps ==
  ASSUME db \in State, ctx \in State, NEW tx \in Txs, GovVote(tx)
  PROVE  Keeps(tx) /\ SameUnbonding
<1> DEFINE vote == [ctx.vote EXCEPT ![<<tx.id, tx.voter>>] = tx.choice]
<1>1. /\ tx.kind = "GovVote" /\ tx.id \in ProposalId /\ tx.voter \in Addr
      /\ tx.choice \in Choices4
  BY BlockAssumption DEF GovVote, TxOfKind, StakeOps
<1>2. ctx.vote \in VoteTable
  BY StateOfTables
<1>3. ctx' = [ctx EXCEPT !.vote = vote]
  BY DEF GovVote
<1>4. vote \in VoteTable
  BY <1>1, <1>2 DEF VoteTable
<1> HIDE DEF vote
<1>5. ctx' \in State /\ ctx'.acct = ctx.acct /\ SameUnbonding
  BY <1>3, <1>4, StateOfTables DEF SameUnbonding
<1> QED BY <1>1, <1>5, AccountsKept

\* apply_register_model records a model and takes its deposit.
LEMMA RegisterModelKeeps ==
  ASSUME db \in State, ctx \in State, NEW tx \in Txs, RegisterModel(tx)
  PROVE  Keeps(tx) /\ SameUnbonding
<1> DEFINE acct == Debit(ctx.acct, tx.registrar, tx.deposit)
           model == ctx.model \cup {tx.model}
<1>1. /\ tx.kind = "RegisterModel" /\ tx.registrar \in Addr /\ tx.deposit \in Nat
      /\ tx.model \in Model
  BY BlockAssumption DEF RegisterModel, TxOfKind, StakeOps
<1>2. ctx.acct \in AcctTable /\ ctx.model \in SUBSET Model
  BY StateOfTables
<1>3. tx.deposit <= ctx.acct[tx.registrar].balance
  BY <1>1 DEF RegisterModel, CanPay, GetAccount
<1>4. ctx' = [ctx EXCEPT !.acct = acct, !.model = model]
  BY DEF RegisterModel
<1>5. model \in SUBSET Model
  BY <1>1, <1>2
<1> HIDE DEF acct, model
<1>6. acct \in AcctTable /\ \A a \in Addr : acct[a].nonce = ctx.acct[a].nonce
  BY <1>1, <1>2, <1>3, Debited DEF acct
<1>7. ctx' \in State /\ ctx'.acct = acct /\ SameUnbonding
  BY <1>4, <1>5, <1>6, StateOfTables DEF SameUnbonding
<1>8. \A a \in Addr : ctx.acct[a].nonce \in Nat
  BY <1>2 DEF AcctTable, Account
<1> QED BY <1>1, <1>6, <1>7, <1>8 DEF Keeps, UsesNonce

\* The other registries are sets and a table of operators.
LEMMA RegistriesKeep ==
  ASSUME db \in State, ctx \in State, NEW tx \in Txs,
         RegisterTee(tx) \/ RegisterGateway(tx) \/ UnregisterGateway(tx) \/ Dispute(tx)
  PROVE  Keeps(tx) /\ SameUnbonding
<1>1. /\ ctx.tee \in SUBSET Node /\ ctx.gateway \in GatewayTable
  BY StateOfTables
<1>2. CASE RegisterTee(tx)
  <2>1. tx.kind = "RegisterTee" /\ tx.node \in Node
    BY <1>2, BlockAssumption DEF RegisterTee, TxOfKind, StakeOps
  <2>2. ctx' \in State /\ ctx'.acct = ctx.acct /\ SameUnbonding
    BY <1>1, <1>2, <2>1, StateOfTables DEF RegisterTee, SameUnbonding
  <2> QED BY <2>1, <2>2, AccountsKept
<1>3. CASE RegisterGateway(tx)
  <2> DEFINE gateway == [ctx.gateway EXCEPT ![tx.node] = tx.operator]
  <2>1. tx.kind = "RegisterGateway" /\ tx.node \in Node /\ tx.operator \in Addr
    BY <1>3, BlockAssumption DEF RegisterGateway, TxOfKind, StakeOps
  <2>2. gateway \in GatewayTable
    BY <1>1, <2>1 DEF GatewayTable
  <2>3. ctx' = [ctx EXCEPT !.gateway = gateway]
    BY <1>3 DEF RegisterGateway
  <2> HIDE DEF gateway
  <2>4. ctx' \in State /\ ctx'.acct = ctx.acct /\ SameUnbonding
    BY <2>2, <2>3, StateOfTables DEF SameUnbonding
  <2> QED BY <2>1, <2>4, AccountsKept
<1>4. CASE UnregisterGateway(tx)
  <2> DEFINE gateway == [ctx.gateway EXCEPT ![tx.node] = None]
  <2>1. tx.kind = "UnregisterGateway" /\ tx.node \in Node
    BY <1>4, BlockAssumption DEF UnregisterGateway, TxOfKind, StakeOps
  <2>2. gateway \in GatewayTable
    BY <1>1, <2>1 DEF GatewayTable
  <2>3. ctx' = [ctx EXCEPT !.gateway = gateway]
    BY <1>4 DEF UnregisterGateway
  <2> HIDE DEF gateway
  <2>4. ctx' \in State /\ ctx'.acct = ctx.acct /\ SameUnbonding
    BY <2>2, <2>3, StateOfTables DEF SameUnbonding
  <2> QED BY <2>1, <2>4, AccountsKept
<1>5. CASE Dispute(tx)
  <2>1. tx.kind = "Dispute" /\ ctx' = ctx
    BY <1>5 DEF Dispute
  <2> QED BY <2>1, AccountsKept DEF SameUnbonding
<1> QED BY <1>2, <1>3, <1>4, <1>5

\* Every handler keeps the types and counts nonces; only two write unbondings.
LEMMA HandlerKeeps ==
  ASSUME db \in State, ctx \in State, NEW tx \in Txs, Handle(tx)
  PROVE  Keeps(tx) /\ (SameUnbonding \/ Withdraw(tx) \/ Complete(tx))
BY TransferKeeps, EscrowLockKeeps, EscrowSettleKeeps, RewardMintKeeps, ReceiptBatchKeeps,
   DepositKeeps, WithdrawKeeps, CompleteKeeps, RedelegateKeeps, GovProposalKeeps, GovVoteKeeps,
   RegisterModelKeeps, RegistriesKeep DEF Handle

-----------------------------------------------------------------------------
(* What a commit adds *)

Typed ==
  /\ db \in State /\ ctx \in State /\ block \in Seq(Txs) /\ gas \in Nat
  /\ IsFiniteSet(db.unbond) /\ IsFiniteSet(ctx.unbond)

\* There are finitely many keys of the stake table.
LEMMA StakeKeyFinite == IsFiniteSet(StakeKey)
<1> DEFINE D == Addr \cup {None}
           f == [p \in (Node \X Role) \X D |-> <<p[1][1], p[1][2], p[2]>>]
<1>1. IsFiniteSet(Role)
  <2>1. IsFiniteSet({"Validator"} \cup {"Router"} \cup {"Verifier"} \cup {"Compute"})
    BY FS_Singleton, FS_Union
  <2>2. Role \subseteq {"Validator"} \cup {"Router"} \cup {"Verifier"} \cup {"Compute"}
    BY StateAssumption DEF StakeRole
  <2> QED BY <2>1, <2>2, FS_Subset
<1>2. IsFiniteSet(D)
  BY StateAssumption, FS_AddElement
<1>3. IsFiniteSet((Node \X Role) \X D)
  BY <1>1, <1>2, StateAssumption, FS_Product
<1>4. f \in Surjection((Node \X Role) \X D, StakeKey)
  <2>1. f \in [(Node \X Role) \X D -> StakeKey]
    BY DEF StakeKey
  <2>2. ASSUME NEW k \in StakeKey PROVE \E p \in (Node \X Role) \X D : f[p] = k
    <3>1. <<<<k[1], k[2]>>, k[3]>> \in (Node \X Role) \X D /\ k = <<k[1], k[2], k[3]>>
      BY DEF StakeKey
    <3>2. f[<<<<k[1], k[2]>>, k[3]>>] = k
      BY <3>1
    <3> QED BY <3>1, <3>2
  <2> QED BY <2>1, <2>2 DEF Surjection
<1> QED BY <1>3, <1>4, FS_Surjection

\* A slash takes a part of the stake, never more than there is.
LEMMA SlashPart ==
  ASSUME NEW n \in Nat
  PROVE  Slash(n) \in Nat /\ Slash(n) <= n
<1>1. PICK p \in 0..100 : p = SlashPercent
  BY SlashAssumption
<1>2. n * p \in Nat /\ n * p <= n * 100
  OBVIOUS
<1>3. (n * p) \div 100 \in Nat /\ (n * p) \div 100 <= n
  BY <1>2
<1> QED BY <1>1, <1>3 DEF Slash

\* A tenth of what a slash takes is paid out, at most.
LEMMA SlashShares ==
  ASSUME NEW taken \in Nat
  PROVE  /\ ToReporter(taken) \in Nat /\ ToTreasury(taken) \in Nat /\ Burned(taken) \in Nat
         /\ ToReporter(taken) + ToTreasury(taken) + Burned(taken) = taken
BY DEF ToReporter, ToTreasury, Burned

\* What a slash takes from a node is an amount.
LEMMA TakenType ==
  ASSUME Typed, NEW node
  PROVE  Taken(node) \in Nat
<1> DEFINE K == {j \in SlashedKeys : j[1] = node}
           U == {t \in Trimmed : t.node = node}
           f == [k \in K |-> Slash(db.stake[k].amount)]
           g == [u \in U |-> Slash(u.amount)]
<1>1. db.stake \in StakeTable /\ db.unbond \in SUBSET Unbonding /\ IsFiniteSet(db.unbond)
  BY StateOfTables DEF Typed
<1>2. K \subseteq StakeKey
  BY DEF SlashedKeys, StakesOf
<1>3. U \subseteq db.unbond
  BY DEF Trimmed, UnbondingsOf
<1>4. \A k \in K : Slash(db.stake[k].amount) \in Nat
  BY <1>1, <1>2, SlashPart DEF StakeTable, StakeEntry
<1>5. \A u \in U : Slash(u.amount) \in Nat
  BY <1>1, <1>3, SlashPart DEF Unbonding
<1>6. IsFiniteSet(K) /\ IsFiniteSet(U)
  BY <1>1, <1>2, <1>3, StakeKeyFinite, FS_Subset
<1>7. TakenStake(node) = SumFunction(f) /\ Taken(node) = TakenStake(node) + SumFunction(g)
  BY DEF TakenStake, Taken
<1> HIDE DEF K, U
<1>8. f \in [K -> Nat] /\ g \in [U -> Nat]
  BY <1>4, <1>5
<1> HIDE DEF f, g
<1>9. SumFunction(f) \in Nat /\ SumFunction(g) \in Nat
  BY <1>6, <1>8, SumOfNats
<1> QED BY <1>7, <1>9

\* The addresses' balances.
BalanceTable == [Addr -> Nat]

\* Numbers of the open block's transactions.
LEMMA BlockFinite ==
  ASSUME Typed, NEW I \in SUBSET DOMAIN block
  PROVE  IsFiniteSet(I)
<1>1. IsFiniteSet(1..Len(block)) /\ DOMAIN block = 1..Len(block)
  BY FS_Interval DEF Typed
<1> QED BY <1>1, FS_Subset

\* Paying the reporters of slashes keeps balances in their type.
LEMMA SlashPaidType ==
  ASSUME Typed, NEW bal \in BalanceTable
  PROVE  SlashPaid(bal) \in BalanceTable
<1> DEFINE I(a) == {k \in Slashable : block[k].reporter = a}
           rep(a) == [i \in I(a) |-> ToReporter(Taken(block[i].node))]
           tre == [i \in Slashable |-> ToTreasury(Taken(block[i].node))]
<1>1. \A node : ToReporter(Taken(node)) \in Nat /\ ToTreasury(Taken(node)) \in Nat
  BY TakenType, SlashShares
<1>2. IsFiniteSet(Slashable) /\ \A a : IsFiniteSet(I(a))
  BY BlockFinite DEF Slashable
<1>3. tre \in [Slashable -> Nat] /\ \A a : rep(a) \in [I(a) -> Nat]
  BY <1>1
<1>4. SlashPaid(bal) = [a \in Addr |-> bal[a] + SumFunction(rep(a)) +
                                       IF a = Treasury THEN SumFunction(tre) ELSE 0]
  BY DEF SlashPaid
<1> HIDE DEF tre, rep, I
<1>5. SumFunction(tre) \in Nat /\ \A a : SumFunction(rep(a)) \in Nat
  BY <1>2, <1>3, SumOfNats
<1> QED BY <1>4, <1>5 DEF BalanceTable

\* Writing the slashed committed entries over the block's keeps the types.
LEMMA SlashedStakeType ==
  ASSUME Typed
  PROVE  SlashedStake(ctx.stake) \in StakeTable
<1>1. db.stake \in StakeTable /\ ctx.stake \in StakeTable
  BY StateOfTables DEF Typed
<1>2. ASSUME NEW k \in StakeKey PROVE Slashed(db.stake[k]) \in StakeEntry
  <2>1. db.stake[k] \in StakeEntry
    BY <1>1 DEF StakeTable
  <2>2. Slash(db.stake[k].amount) \in Nat /\ Slash(db.stake[k].amount) <= db.stake[k].amount
    BY <2>1, SlashPart DEF StakeEntry
  <2> QED BY <2>1, <2>2 DEF Slashed, StakeEntry
<1>3. ASSUME NEW k \in StakeKey
      PROVE  SetStake(ctx.stake, k, Slashed(db.stake[k]))[k] \in StakeEntry
  <2>1. SetStake(ctx.stake, k, Slashed(db.stake[k])) \in StakeTable
    BY <1>1, <1>2, StakeSet
  <2> QED BY <2>1 DEF StakeTable
<1>4. \A k \in StakeKey : ctx.stake[k] \in StakeEntry
  BY <1>1 DEF StakeTable
<1> QED BY <1>3, <1>4 DEF SlashedStake, StakeTable

\* An unbonding entry that a slash trims was in the state, is not yet due, and loses
\* a part of its amount and nothing else.
LEMMA TrimmedEntry ==
  ASSUME Typed, NEW t \in Trimmed
  PROVE  /\ t \in db.unbond /\ t.completes_at > db.height
         /\ Slashed(t) \in Unbonding
         /\ Slashed(t) = [t EXCEPT !.amount = Slashed(t).amount]
         /\ Slashed(t).amount < t.amount
<1>1. t \in db.unbond /\ t \in Unbonding /\ t.completes_at > db.height
  BY StateOfTables DEF Typed, Trimmed, UnbondingsOf
<1>2. Slash(t.amount) \in Nat /\ Slash(t.amount) <= t.amount /\ Slash(t.amount) > 0
  BY <1>1, SlashPart DEF Unbonding, Trimmed
<1> QED BY <1>1, <1>2 DEF Slashed, Unbonding

\* The unbonding queue after slashes is a finite set of entries.
LEMMA SlashedUnbondType ==
  ASSUME Typed
  PROVE  /\ SlashedUnbond(ctx.unbond) \in SUBSET Unbonding
         /\ IsFiniteSet(SlashedUnbond(ctx.unbond))
<1> DEFINE kept == {u \in ctx.unbond : \A t \in Trimmed : <<t.node, t.id>> # <<u.node, u.id>>}
           cut == {Slashed(t) : t \in Trimmed}
           f == [t \in Trimmed |-> Slashed(t)]
<1>1. kept \in SUBSET Unbonding /\ IsFiniteSet(kept)
  BY StateOfTables, FS_Subset DEF Typed
<1>2. cut \in SUBSET Unbonding
  BY TrimmedEntry
<1>3. IsFiniteSet(Trimmed)
  BY TrimmedEntry, FS_Subset DEF Typed
<1>4. f \in Surjection(Trimmed, cut)
  BY DEF Surjection
<1>5. IsFiniteSet(cut)
  BY <1>3, <1>4, FS_Surjection
<1>6. SlashedUnbond(ctx.unbond) = kept \cup cut
  BY DEF SlashedUnbond
<1> HIDE DEF kept, cut
<1> QED BY <1>1, <1>2, <1>5, <1>6, FS_Union

\* A validator's stake, its own and delegated, is an amount.
LEMMA ValidatorStakeType ==
  ASSUME Typed, NEW n
  PROVE  ValidatorStake(db, n) \in Nat
<1> DEFINE K == {j \in StakeKey : j[1] = n /\ j[2] = "Validator"}
           f == [k \in K |-> db.stake[k].amount]
<1>1. IsFiniteSet(K)
  BY StakeKeyFinite, FS_Subset
<1>2. f \in [K -> Nat]
  BY StateOfTables DEF Typed, StakeTable, StakeEntry
<1>3. ValidatorStake(db, n) = SumFunction(f)
  BY DEF ValidatorStake
<1> HIDE DEF K, f
<1> QED BY <1>1, <1>2, <1>3, SumOfNats

\* The rotation of the validator set writes validators only.
LEMMA RotatedType ==
  ASSUME Typed, NEW height
  PROVE  Rotated(ctx.validator, height) \in ValidatorTable
<1> DEFINE staked == [n \in Node |-> ValidatorStake(db, n)]
           candidates == Ranked(staked)
           bootstrap == InBootstrap(height, Cardinality(candidates))
<1>1. ctx.validator \in ValidatorTable /\ db.validator \in ValidatorTable
  BY StateOfTables DEF Typed
<1>2. \A n \in candidates : n \in Node /\ db.validator[n] \in Validator
  BY <1>1 DEF Ranked, Active, ValidatorTable
<1>3. \A n \in Node : Power(staked[n]) \in Nat
  BY ValidatorStakeType, SlashAssumption DEF Power
<1>4. Rotated(ctx.validator, height) =
        [n \in Node |->
           IF n \notin candidates THEN ctx.validator[n]
           ELSE IF bootstrap \/ staked[n] > 0
           THEN [operator |-> db.validator[n].operator, voting_power |-> Power(staked[n]),
                 jailed |-> FALSE]
           ELSE None]
  BY DEF Rotated
<1> HIDE DEF candidates, staked, bootstrap
<1>5. ASSUME NEW n \in candidates
      PROVE  [operator |-> db.validator[n].operator, voting_power |-> Power(staked[n]),
              jailed |-> FALSE] \in Validator
  BY <1>2, <1>3 DEF Validator
<1> QED BY <1>1, <1>4, <1>5 DEF ValidatorTable

\* The next base fee is a fee, however full the block was.
LEMMA NextBaseFeeType ==
  ASSUME NEW fee \in Nat, NEW used \in Nat, NEW target \in Nat \ {0}
  PROVE  NextBaseFee(fee, used, target) \in Nat
<1>1. CASE used > target
  <2>1. ((fee * (used - target)) \div target) \div 8 \in Int
    BY <1>1
  <2> QED BY <1>1, <2>1 DEF NextBaseFee
<1>2. CASE ~(used > target)
  <2>1. ((fee * (target - used)) \div target) \div 8 \in Int
    BY <1>2
  <2> QED BY <1>2, <2>1 DEF NextBaseFee
<1> QED BY <1>1, <1>2

-----------------------------------------------------------------------------
(* The epoch's rewards *)

\* The order the store iterates in lists a finite set of ids, each once.
LEMMA InOrderLists ==
  ASSUME NEW S \in SUBSET Nat, IsFiniteSet(S)
  PROVE  /\ InOrder(S) \in Seq(S)
         /\ \A i \in DOMAIN InOrder(S) : InOrder(S)[i] \in S
         /\ DOMAIN InOrder(S) = 1..Cardinality(S)
         /\ IsFiniteSet(DOMAIN InOrder(S))
         /\ \A i, j \in DOMAIN InOrder(S) : InOrder(S)[i] = InOrder(S)[j] => i = j
         /\ \A x \in S : \E i \in DOMAIN InOrder(S) : InOrder(S)[i] = x
<1>1. AreInts(S)
  BY DEF AreInts
<1>2. Ascends(S)
  BY <1>1, AscendingExists
<1> DEFINE f == InOrder(S)
<1>3. /\ f \in [1..Cardinality(S) -> S]
      /\ \A i, j \in 1..Cardinality(S) : i < j => f[i] < f[j]
  BY <1>2 DEF Ascends, InOrder
<1>4. Cardinality(S) \in Nat
  BY FS_CardinalityType
<1> HIDE DEF f
<1>5. /\ \A i, j \in 1..Cardinality(S) : f[i] = f[j] => i = j
      /\ \A x \in S : \E i \in 1..Cardinality(S) : f[i] = x
  BY <1>1, <1>3, ListsAll
<1>6. f \in Seq(S) /\ DOMAIN f = 1..Cardinality(S) /\ IsFiniteSet(DOMAIN f)
  <2>1. DOMAIN f = 1..Cardinality(S)
    BY <1>3
  <2>2. f \in Seq(S)
    BY <1>3, <1>4, SeqDef
  <2> QED BY <1>4, <2>1, <2>2, FS_Interval
<1>7. \A i \in DOMAIN f : f[i] \in S
  BY <1>3
<1> QED BY <1>5, <1>6, <1>7 DEF f

\* Pro-rata shares round down, so the last delegator's remainder is not negative.
LEMMA DelegatorShareType ==
  ASSUME NEW total \in Nat, NEW amounts \in Seq(Nat \ {0}), NEW i \in DOMAIN amounts
  PROVE  DelegatorShare(total, amounts, i) \in Nat
<1> DEFINE D == DOMAIN amounts
           all == SumFunction(amounts)
           prorata == [k \in D |-> (total * amounts[k]) \div all]
           before == 1..(i - 1)
<1>1. IsFiniteSet(D) /\ IsFiniteSet(before) /\ before \in SUBSET D
  <2>1. D = 1..Len(amounts) /\ Len(amounts) \in Nat /\ i \in 1..Len(amounts)
    OBVIOUS
  <2>2. IsFiniteSet(1..Len(amounts)) /\ before \subseteq 1..Len(amounts)
    BY <2>1, FS_Interval
  <2> QED BY <2>1, <2>2, FS_Subset
<1>2. \A k \in D : amounts[k] \in Nat /\ amounts[k] > 0
  OBVIOUS
<1>3. /\ all = SumFunctionOnSet(amounts, D)
      /\ all \in Nat /\ all > 0
      /\ SumFunctionOnSet(amounts, before) \in Nat
      /\ SumFunctionOnSet(amounts, before) <= all
  <2>1. all = SumFunctionOnSet(amounts, D)
    BY DEF SumFunction, SumFunctionOnSet, FoldFunction
  <2>2. /\ SumFunctionOnSet(amounts, D) \in Nat
        /\ amounts[i] <= SumFunctionOnSet(amounts, D)
        /\ SumFunctionOnSet(amounts, before) <= SumFunctionOnSet(amounts, D)
    BY <1>1, <1>2, SumNat
  <2>3. SumFunctionOnSet(amounts, before) \in Nat
    BY <1>1, <1>2, SumNat
  <2> HIDE DEF all
  <2> QED BY <1>2, <2>1, <2>2, <2>3
<1> HIDE DEF all, before
<1>4. \A k \in D : /\ prorata[k] \in Nat
                    /\ all * prorata[k] <= total * amounts[k]
  <2>1. ASSUME NEW a \in Nat, NEW b \in Nat, b > 0
        PROVE  a \div b \in Nat /\ b * (a \div b) <= a
    BY <2>1
  <2>2. \A k \in D : total * amounts[k] \in Nat
    BY <1>2
  <2> QED BY <1>3, <2>1, <2>2
<1> HIDE DEF prorata, D
<1>5. SumFunctionOnSet(prorata, before) \in Nat /\ SumFunctionOnSet(prorata, before) <= total
  <2> DEFINE scaled == [k \in D |-> all * prorata[k]]
             dues == [k \in D |-> total * amounts[k]]
             part == SumFunctionOnSet(prorata, before)
             paid == SumFunctionOnSet(amounts, before)
  <2>1. \A k \in before : prorata[k] \in Int /\ amounts[k] \in Int /\ scaled[k] \in Int /\ dues[k] \in Int
    BY <1>1, <1>2, <1>3, <1>4
  <2>2. Sums(prorata, before) /\ Sums(amounts, before) /\ Sums(scaled, before) /\ Sums(dues, before)
    BY <1>1, <2>1 DEF Sums
  <2>3. SumFunctionOnSet(scaled, before) = all * part
    <3>1. \A k \in before : scaled[k] = all * prorata[k]
      BY <1>1
    <3>2. all \in Int
      BY <1>3
    <3> HIDE DEF scaled
    <3> QED BY <2>2, <3>1, <3>2, SumScale
  <2>4. SumFunctionOnSet(dues, before) = total * paid
    <3>1. \A k \in before : dues[k] = total * amounts[k]
      BY <1>1
    <3>2. total \in Int
      OBVIOUS
    <3> HIDE DEF dues
    <3> QED BY <2>2, <3>1, <3>2, SumScale
  <2>5. SumFunctionOnSet(scaled, before) <= SumFunctionOnSet(dues, before)
    <3>1. \A k \in before : scaled[k] <= dues[k]
      BY <1>1, <1>4
    <3> HIDE DEF scaled, dues
    <3> QED BY <2>2, <3>1, SumLeq
  <2>6. part \in Nat
    BY <1>1, <1>4, SumNat
  <2>7. total * paid <= total * all
    BY <1>3
  <2>8. all * part <= total * all
    <3> HIDE DEF scaled, dues, part, paid
    <3>1. total * paid \in Int /\ all * part \in Int /\ total * all \in Int
      BY <1>3, <2>6 DEF paid
    <3> QED BY <2>3, <2>4, <2>5, <2>7, <3>1
  <2> HIDE DEF part, paid
  <2>9. part <= total
    <3> SUFFICES ASSUME part >= total + 1 PROVE FALSE
      BY <2>6
    <3>1. all * part >= all * (total + 1)
      BY SMTT(30), <1>3, <2>6
    <3>2. all * (total + 1) = total * all + all
      BY <1>3
    <3>3. all * part \in Int /\ total * all \in Int
      BY <1>3, <2>6
    <3> QED BY <1>3, <2>8, <3>1, <3>2, <3>3
  <2> QED BY <2>6, <2>9 DEF part
<1>6. DelegatorShare(total, amounts, i) \in {total - SumFunctionOnSet(prorata, before), prorata[i]}
  BY DEF DelegatorShare, D, prorata, all, before
<1> QED BY <1>4, <1>5, <1>6 DEF D

\* A delegator's share of a reward is an amount.
LEMMA DelegatedType ==
  ASSUME Typed, NEW operator, NEW share \in Nat, NEW a
  PROVE  Delegated(operator, share, a) \in Nat
<1> DEFINE nodes == {n \in Active(db) : db.validator[n].operator = operator}
           node == Min(nodes)
           order == InOrder(Delegations(operator))
           amounts == [i \in DOMAIN order |-> db.stake[<<node, "Compute", order[i]>>].amount]
           I == {k \in DOMAIN order : order[k] = a}
           shares == [i \in I |-> DelegatorShare(share, amounts, i)]
<1>1. Delegations(operator) \in SUBSET Nat /\ IsFiniteSet(Delegations(operator))
  BY StateAssumption, FS_Subset DEF Delegations
<1>2. /\ order \in Seq(Delegations(operator)) /\ IsFiniteSet(DOMAIN order)
      /\ \A i \in DOMAIN order : order[i] \in Delegations(operator)
  BY <1>1, InOrderLists
<1>3. \A x \in Delegations(operator) : <<node, "Compute", x>> \in StakesOf(node)
  BY DEF Delegations
<1>4. db.stake \in StakeTable
  BY StateOfTables DEF Typed
<1> HIDE DEF nodes, node, order
<1>5. \A i \in DOMAIN order : db.stake[<<node, "Compute", order[i]>>].amount \in Nat \ {0}
  <2> SUFFICES ASSUME NEW i \in DOMAIN order
               PROVE  db.stake[<<node, "Compute", order[i]>>].amount \in Nat \ {0}
    OBVIOUS
  <2> DEFINE k == <<node, "Compute", order[i]>>
  <2>1. k \in StakesOf(node)
    BY <1>2, <1>3
  <2> HIDE DEF k
  <2>2. k \in StakeKey /\ db.stake[k].amount > 0
    BY <2>1 DEF StakesOf
  <2>3. db.stake[k].amount \in Nat \ {0}
    BY <1>4, <2>2 DEF StakeTable, StakeEntry
  <2> QED BY <2>3 DEF k
<1>6. amounts \in Seq(Nat \ {0}) /\ DOMAIN amounts = DOMAIN order
  <2>1. DOMAIN order = 1..Len(order) /\ Len(order) \in Nat
    BY <1>2
  <2> QED BY <1>5, <2>1, SeqDef
<1> HIDE DEF amounts
<1>7. IsFiniteSet(I) /\ I \subseteq DOMAIN amounts
  BY <1>2, <1>6, FS_Subset
<1>8. \A i \in I : DelegatorShare(share, amounts, i) \in Nat
  BY <1>6, <1>7, DelegatorShareType
<1> HIDE DEF I
<1>9. SumFunction(shares) \in Nat
  <2>1. shares \in [I -> Nat]
    BY <1>8
  <2> HIDE DEF shares
  <2> QED BY <1>7, <2>1, SumOfNats
<1>10. Delegated(operator, share, a) = IF order = <<>> THEN IF a = operator THEN share ELSE 0
                                       ELSE SumFunction(shares)
  BY DEF Delegated, order, node, nodes, amounts, shares, I
<1> HIDE DEF shares
<1> QED BY <1>9, <1>10

\* What one pending reward pays an account is an amount.
LEMMA RewardToType ==
  ASSUME Typed, NEW pr \in PendingReward, NEW minted \in Nat, NEW a
  PROVE  RewardTo(pr, minted, a) \in Nat
<1> DEFINE s == Split(minted)
<1>1. s.compute \in Nat /\ s.verifier \in Nat /\ s.treasury \in Nat /\ s.delegators \in Nat
  BY SplitWhole
<1> HIDE DEF s
<1>2. Delegated(pr.compute, s.delegators, a) \in Nat
  BY <1>1, DelegatedType
<1> QED BY <1>1, <1>2 DEF RewardTo, s

\* The jobs due at the end of an epoch, and their rewards.
LEMMA DueJobs ==
  ASSUME Typed, NEW ending
  PROVE  LET due == Due(ending)
         IN /\ due \in Seq(Job) /\ IsFiniteSet(DOMAIN due)
            /\ \A i \in DOMAIN due : /\ due[i] \in Job /\ db.pending[due[i]] \in PendingReward
                                     /\ db.pending[due[i]].epoch = ending
            /\ \A i, j \in DOMAIN due : due[i] = due[j] => i = j
<1> DEFINE S == {j \in Job : db.pending[j] # None /\ db.pending[j].epoch = ending}
<1>1. S \in SUBSET Nat /\ IsFiniteSet(S) /\ S \subseteq Job
  BY StateAssumption, FS_Subset
<1>2. \A j \in S : db.pending[j] \in PendingReward /\ db.pending[j].epoch = ending
  BY StateOfTables DEF Typed, PendingTable
<1>3. Due(ending) = InOrder(S)
  BY DEF Due
<1> HIDE DEF S
<1>4. InOrder(S) \in Seq(S) /\ \A i \in DOMAIN InOrder(S) : InOrder(S)[i] \in S
  BY <1>1, InOrderLists
<1>5. InOrder(S) \in Seq(Job)
  BY <1>1, <1>4, SeqMonotonic
<1> QED BY <1>1, <1>2, <1>3, <1>4, <1>5, InOrderLists

\* A reward by the emission formula is an amount.
LEMMA BlockRewardType ==
  ASSUME NEW tokens \in Nat, NEW rate \in Nat
  PROVE  BlockReward(tokens, rate, "Text", 7, 100, 100, 9500) \in Nat
<1> DEFINE times(amount, mult) == (amount * mult) \div 10000
<1>1. ASSUME NEW x \in Nat PROVE times(x, 10000) \in Nat
  OBVIOUS
<1>2. SizeMult(7) = 10000 /\ CategoryMult["Text"] = 10000 /\ LatencyMult(100, 100) = 10000
      /\ UptimeMult(9500) = 10000
  BY DEF SizeMult, CategoryMult, LatencyMult, UptimeMult
<1>3. tokens * rate \in Nat
  OBVIOUS
<1>4. BlockReward(tokens, rate, "Text", 7, 100, 100, 9500)
      = times(times(times(times(tokens * rate, 10000), 10000), 10000), 10000)
  BY <1>2 DEF BlockReward
<1> HIDE DEF times
<1> QED BY <1>1, <1>3, <1>4

\* What each due reward is owed is an amount.
LEMMA OwedType ==
  ASSUME Typed, NEW ending
  PROVE  Owed(Due(ending)) \in [DOMAIN Due(ending) -> Nat]
<1> DEFINE due == Due(ending)
           counts == [i \in DOMAIN due |-> db.pending[due[i]].tokens]
           tokens == SumFunction(counts)
           rate == IF tokens > 0 THEN EpochBudget \div tokens ELSE 0
           reward(pr) == BlockReward(pr.tokens, rate, "Text", 7, 100, 100, 9500)
<1>1. /\ IsFiniteSet(DOMAIN due)
      /\ \A i \in DOMAIN due : db.pending[due[i]] \in PendingReward
  BY DueJobs
<1> HIDE DEF due
<1>2. \A i \in DOMAIN due : /\ db.pending[due[i]].tokens \in Nat
                           /\ db.pending[due[i]].tee \in {2, 3}
  BY <1>1 DEF PendingReward
<1>3. tokens \in Nat
  <2>1. counts \in [DOMAIN due -> Nat]
    BY <1>2
  <2> HIDE DEF counts
  <2> QED BY <1>1, <2>1, SumOfNats
<1> HIDE DEF tokens
<1>4. rate \in Nat
  BY <1>3, BudgetAssumption
<1> HIDE DEF rate
<1>5. ASSUME NEW i \in DOMAIN due
      PROVE  (reward(db.pending[due[i]]) * db.pending[due[i]].tee) \div 2 \in Nat
  <2>1. reward(db.pending[due[i]]) \in Nat
    <3> DEFINE n == db.pending[due[i]].tokens
    <3>1. n \in Nat
      BY <1>2
    <3> HIDE DEF n
    <3>2. BlockReward(n, rate, "Text", 7, 100, 100, 9500) \in Nat
      BY <1>4, <3>1, BlockRewardType
    <3> QED BY <3>2 DEF n
  <2> HIDE DEF reward
  <2> QED BY <1>2, <2>1
<1>6. Owed(due) = [i \in DOMAIN due |-> (reward(db.pending[due[i]]) * db.pending[due[i]].tee) \div 2]
  BY DEF Owed, rate, tokens, counts
<1> QED BY <1>5, <1>6 DEF due

\* No mint exceeds what is left of the budget.
LEMMA MintedType ==
  ASSUME NEW n \in Nat, NEW rewards \in [1..n -> Nat], NEW budget \in Nat, NEW i \in 1..n
  PROVE  Minted(rewards, budget, i) \in Nat /\ Minted(rewards, budget, i) <= rewards[i]
<1> DEFINE before == SumFunctionOnSet(rewards, 1..(i - 1))
<1>1. before \in Nat
  <2> DEFINE S == 1..(i - 1)
  <2>1. 1 \in Int /\ i - 1 \in Int
    OBVIOUS
  <2>2. IsFiniteSet(S)
    BY <2>1, FS_Interval
  <2>3. \A x \in S : rewards[x] \in Nat
    OBVIOUS
  <2> HIDE DEF S
  <2>4. SumFunctionOnSet(rewards, S) \in Nat
    BY <2>2, <2>3, SumNat
  <2> QED BY <2>4 DEF S
<1> HIDE DEF before
<1> QED BY <1>1 DEF Minted, AtMost, before

\* Minting an epoch's rewards keeps balances in their type.
LEMMA MintPaidType ==
  ASSUME Typed, NEW bal \in BalanceTable, NEW ending
  PROVE  MintPaid(bal, ending) \in BalanceTable
<1> DEFINE due == Due(ending)
           owed == Owed(due)
           part(a) == [i \in DOMAIN due |->
                        RewardTo(db.pending[due[i]], Minted(owed, EpochBudget, i), a)]
<1>1. /\ due \in Seq(Job) /\ IsFiniteSet(DOMAIN due)
      /\ \A i \in DOMAIN due : db.pending[due[i]] \in PendingReward
  BY DueJobs
<1>2. owed \in [DOMAIN due -> Nat]
  BY OwedType
<1> HIDE DEF due, owed
<1>3. \A i \in DOMAIN due : Minted(owed, EpochBudget, i) \in Nat
  <2>1. DOMAIN due = 1..Len(due) /\ Len(due) \in Nat
    BY <1>1
  <2> QED BY <1>2, <2>1, BudgetAssumption, MintedType
<1>4. \A a : part(a) \in [DOMAIN due -> Nat]
  BY <1>1, <1>3, RewardToType
<1>5. MintPaid(bal, ending) = [a \in Addr |-> bal[a] + SumFunction(part(a))]
  BY DEF MintPaid, due, owed
<1> HIDE DEF part
<1>6. \A a : SumFunction(part(a)) \in Nat
  BY <1>1, <1>4, SumOfNats
<1> QED BY <1>5, <1>6 DEF BalanceTable

\* The rewards an epoch pays leave the queue, and the others stay as they were.
LEMMA UnpaidType ==
  ASSUME Typed, NEW ending
  PROVE  /\ Unpaid(ctx.pending, ending) \in PendingTable
         /\ \A j \in Job : Unpaid(ctx.pending, ending)[j] \in {ctx.pending[j], None}
<1>1. ctx.pending \in PendingTable
  BY StateOfTables DEF Typed
<1> QED BY <1>1 DEF Unpaid, PendingTable

-----------------------------------------------------------------------------
(* The turn of the proposals *)

\* What every turn keeps holds after all of them: the fold over the committed
\* proposals takes each in its turn.
LEMMA GovernedIn ==
  ASSUME Typed, NEW now, NEW bal, NEW proposal, NEW V,
         [bal |-> bal, proposal |-> proposal] \in V,
         \A acc \in V : \A id \in Proposals : Advance(now, acc, id) \in V
  PROVE  Governed(bal, proposal, now) \in V
<1> DEFINE seq == InOrder(Proposals)
           S == DOMAIN seq
           base == [bal |-> bal, proposal |-> proposal]
           c == [s \in SUBSET S |-> Max(s)]
           F == [p \in S \X V |-> Advance(now, p[2], seq[p[1]])]
           Body(g, s) == IF s = {} THEN base
                         ELSE LET x == Max(s) IN Advance(now, g[s \ {x}], seq[x])
           iter == CHOOSE g : g = [s \in SUBSET S |-> Body(g, s)]
<1>1. IsFiniteSet(S) /\ S \subseteq Int /\ \A i \in S : seq[i] \in Proposals
  <2>1. IsFiniteSet(0..MaxProposals) /\ 0..MaxProposals \subseteq Nat
    BY StateAssumption, FS_Interval
  <2>2. Proposals \in SUBSET Nat /\ IsFiniteSet(Proposals)
    BY <2>1, FS_Subset DEF Proposals, ProposalId
  <2>3. S = 1..Cardinality(Proposals) /\ IsFiniteSet(S) /\ seq \in Seq(Proposals)
    BY <2>2, InOrderLists
  <2>4. \A i \in S : seq[i] \in Proposals
    BY <2>2, InOrderLists
  <2> QED BY <2>3, <2>4
<1>12. IsFiniteSet(S)
  BY <1>1
<1> HIDE DEF S, seq
<1>2. \A s \in SUBSET S : s # {} => Max(s) \in s
  <2> SUFFICES ASSUME NEW s \in SUBSET S, s # {} PROVE Max(s) \in s
    OBVIOUS
  <2>1. IsFiniteSet(s) /\ s \in SUBSET Int
    BY <1>1, FS_Subset
  <2>2. \E x \in s : \A y \in s : y <= x
    BY <2>1, LargestMember
  <2>3. \E x \in s : \A y \in s : x >= y
    BY <2>1, <2>2
  <2> QED BY <2>3 DEF Max
<1>3. Chooses(c, S)
  BY <1>2 DEF Chooses
<1>4. \A x \in S, v \in V : F[<<x, v>>] \in V /\ F[<<x, v>>] = Advance(now, v, seq[x])
  BY <1>1
<1>5. base \in V
  OBVIOUS
<1> HIDE DEF c, F, base
<1>6. PICK g : Folds(g, F, base, c, S)
  BY <1>1, <1>3, FoldExists
<1>7. g \in [SUBSET S -> V]
  BY <1>1, <1>3, <1>4, <1>5, <1>6, FoldType
<1>8. g = [s \in SUBSET S |-> Body(g, s)]
  <2>1. ASSUME NEW s \in SUBSET S PROVE g[s] = Body(g, s)
    <3>1. g[s] = IF s = {} THEN base ELSE F[<<c[s], g[s \ {c[s]}]>>]
      BY <1>6 DEF Folds
    <3>2. CASE s # {}
      <4>1. c[s] = Max(s) /\ c[s] \in S /\ s \ {c[s]} \in SUBSET S
        BY <1>2, <3>2 DEF c
      <4>2. F[<<c[s], g[s \ {c[s]}]>>] = Advance(now, g[s \ {c[s]}], seq[c[s]])
        BY <1>4, <1>7, <4>1
      <4> QED BY <3>1, <3>2, <4>1, <4>2
    <3> QED BY <3>1, <3>2
  <2> QED BY <1>7, <2>1
<1>9. iter = [s \in SUBSET S |-> Body(iter, s)]
  BY <1>8
<1>10. Governed(bal, proposal, now) = iter[S]
  BY DEF Governed, FoldLeft, MapThenFoldSet, S, seq, base
<1>11. \A s \in SUBSET S : iter[s] \in V
  <2> SUFFICES ASSUME NEW u \in SUBSET S, iter[u] \notin V PROVE FALSE
    OBVIOUS
  <2> DEFINE T == {t \in SUBSET S : iter[t] \notin V}
  <2> HIDE DEF iter
  <2>1. PICK s \in T : \A t \in T : t \subseteq s => t = s
    <3>1. T \subseteq SUBSET S /\ T # {}
      OBVIOUS
    <3> HIDE DEF T
    <3> QED BY <1>12, <3>1, SmallestSubset
  <2>2. iter[s] = Body(iter, s)
    <3> HIDE DEF Body
    <3> QED BY <1>9
  <2>3. CASE s = {}
    BY <1>5, <2>1, <2>2, <2>3
  <2>4. CASE s # {}
    <3>1. Max(s) \in s /\ iter[s] = Advance(now, iter[s \ {Max(s)}], seq[Max(s)])
      BY <1>2, <2>2, <2>4
    <3>2. iter[s \ {Max(s)}] \in V
      BY <2>1, <3>1
    <3> QED BY <1>1, <2>1, <3>1, <3>2
  <2> QED BY <2>3, <2>4
<1> HIDE DEF iter
<1> QED BY <1>10, <1>11

\* One turn pays the deposit back or not, and moves one proposal.
LEMMA AdvanceType ==
  ASSUME Typed, NEW now, NEW acc, acc.bal \in BalanceTable, acc.proposal \in ProposalTable,
         acc = [bal |-> acc.bal, proposal |-> acc.proposal], NEW id \in Proposals
  PROVE  LET new == Advance(now, acc, id)
         IN /\ new.bal \in BalanceTable /\ new.proposal \in ProposalTable
            /\ new = [bal |-> new.bal, proposal |-> new.proposal]
            /\ \A i \in ProposalId : i # id => new.proposal[i] = acc.proposal[i]
            /\ \/ new.proposal[id] = acc.proposal[id]
               \/ /\ db.proposal[id].phase = "Discussion"
                  /\ new.proposal[id] = [db.proposal[id] EXCEPT !.phase = "Voting"]
               \/ /\ db.proposal[id].phase = "Voting"
                  /\ \E outcome \in {"Passed", "Rejected", "RejectedWithVeto"} :
                       new.proposal[id] = [db.proposal[id] EXCEPT !.phase = outcome]
<1> DEFINE p == db.proposal[id]
           outcome == Evaluate(TallyOf(id, acc.bal), Bonded(db))
           refund == IF outcome = "RejectedWithVeto" THEN 0 ELSE p.deposit
           bal == [acc.bal EXCEPT ![p.proposer] = @ + refund]
           new == Advance(now, acc, id)
<1>1. id \in ProposalId /\ p \in Proposal
  BY StateOfTables DEF Typed, Proposals, ProposalTable
<1>2. outcome \in {"Passed", "Rejected", "RejectedWithVeto"}
  BY DEF Evaluate
<1> HIDE DEF outcome
<1>3. p.deposit \in Nat /\ p.proposer \in Addr
  BY <1>1 DEF Proposal
<1>4. refund \in Nat
  BY <1>3
<1> HIDE DEF refund
<1>5. bal \in BalanceTable
  BY <1>3, <1>4 DEF BalanceTable
<1> HIDE DEF bal
<1>6. [p EXCEPT !.phase = "Voting"] \in Proposal /\ [p EXCEPT !.phase = outcome] \in Proposal
  BY <1>1, <1>2 DEF Proposal, Phases
<1>7. \/ new = acc
      \/ /\ p.phase = "Discussion"
         /\ new = [acc EXCEPT !.proposal[id] = [p EXCEPT !.phase = "Voting"]]
      \/ /\ p.phase = "Voting"
         /\ new = [bal |-> bal, proposal |-> [acc.proposal EXCEPT ![id] = [p EXCEPT !.phase = outcome]]]
  BY DEF Advance, VotingOver, GetProposal, outcome, refund, bal
<1> HIDE DEF new
<1>8. CASE new = acc
  BY <1>8 DEF new
<1>9. CASE /\ p.phase = "Discussion"
           /\ new = [acc EXCEPT !.proposal[id] = [p EXCEPT !.phase = "Voting"]]
  <2> DEFINE q == [p EXCEPT !.phase = "Voting"]
             table == [acc.proposal EXCEPT ![id] = q]
  <2>1. new = [bal |-> acc.bal, proposal |-> table]
    BY <1>9
  <2> HIDE DEF q
  <2>2. /\ table \in ProposalTable /\ table[id] = q
        /\ \A i \in ProposalId : i # id => table[i] = acc.proposal[i]
    BY <1>1, <1>6 DEF ProposalTable, q
  <2> HIDE DEF table
  <2> QED BY <1>9, <2>1, <2>2 DEF new, q
<1>10. CASE /\ p.phase = "Voting"
            /\ new = [bal |-> bal, proposal |-> [acc.proposal EXCEPT ![id] = [p EXCEPT !.phase = outcome]]]
  <2> DEFINE q == [p EXCEPT !.phase = outcome]
             table == [acc.proposal EXCEPT ![id] = q]
  <2>1. new = [bal |-> bal, proposal |-> table]
    BY <1>10
  <2> HIDE DEF q
  <2>2. /\ table \in ProposalTable /\ table[id] = q
        /\ \A i \in ProposalId : i # id => table[i] = acc.proposal[i]
    BY <1>1, <1>6 DEF ProposalTable, q
  <2> HIDE DEF table
  <2>3. new.proposal[id] = [db.proposal[id] EXCEPT !.phase = outcome]
    BY <2>1, <2>2 DEF q
  <2> QED BY <1>2, <1>5, <1>10, <2>1, <2>2, <2>3 DEF new
<1> QED BY <1>7, <1>8, <1>9, <1>10

\* A proposal after all turns: as the block left it, or the committed one moved
\* one phase on.
Moved(p, q) ==
  \/ p.phase = "Discussion" /\ q = [p EXCEPT !.phase = "Voting"]
  \/ /\ p.phase = "Voting"
     /\ \E outcome \in {"Passed", "Rejected", "RejectedWithVeto"} : q = [p EXCEPT !.phase = outcome]

\* The governance tick moves only open proposals whose deadline has come, and
\* returns deposits to accounts.
LEMMA GovernedMoves ==
  ASSUME Typed, NEW now, NEW bal \in BalanceTable, NEW proposal \in ProposalTable
  PROVE  LET g == Governed(bal, proposal, now)
         IN /\ g.bal \in BalanceTable /\ g.proposal \in ProposalTable
            /\ \A i \in ProposalId : \/ g.proposal[i] = proposal[i]
                                     \/ i \in Proposals /\ Moved(db.proposal[i], g.proposal[i])
<1> DEFINE OK(table) == \A i \in ProposalId : \/ table[i] = proposal[i]
                                              \/ i \in Proposals /\ Moved(db.proposal[i], table[i])
           V == {acc \in [bal : BalanceTable, proposal : ProposalTable] : OK(acc.proposal)}
           base == [bal |-> bal, proposal |-> proposal]
<1>1. base \in V
  <2>1. base \in [bal : BalanceTable, proposal : ProposalTable] /\ base.proposal = proposal
    OBVIOUS
  <2>2. OK(proposal)
    OBVIOUS
  <2> HIDE DEF base, OK
  <2>3. OK(base.proposal)
    BY <2>1, <2>2
  <2> QED BY <2>1, <2>3
<1>2. ASSUME NEW acc \in V, NEW id \in Proposals PROVE Advance(now, acc, id) \in V
  <2> DEFINE new == Advance(now, acc, id)
  <2>1. /\ acc.bal \in BalanceTable /\ acc.proposal \in ProposalTable /\ OK(acc.proposal)
        /\ acc = [bal |-> acc.bal, proposal |-> acc.proposal]
    OBVIOUS
  <2>2. /\ new.bal \in BalanceTable /\ new.proposal \in ProposalTable
        /\ new = [bal |-> new.bal, proposal |-> new.proposal]
        /\ \A i \in ProposalId : i # id => new.proposal[i] = acc.proposal[i]
        /\ new.proposal[id] = acc.proposal[id] \/ Moved(db.proposal[id], new.proposal[id])
    BY <2>1, AdvanceType DEF Moved
  <2> HIDE DEF new
  <2>3. OK(new.proposal)
    BY <2>1, <2>2
  <2> HIDE DEF OK
  <2>4. new \in V
    BY <2>2, <2>3
  <2> QED BY <2>4 DEF new
<1> HIDE DEF V
<1>3. Governed(bal, proposal, now) \in V
  BY <1>1, <1>2, GovernedIn
<1> QED BY <1>3 DEF V

\* A commit rewrites eight tables, each with one of its own type.
LEMMA StateRewritten ==
  ASSUME NEW s \in State, NEW acct \in AcctTable, NEW stake \in StakeTable,
         NEW unbond \in SUBSET Unbonding, NEW validator \in ValidatorTable,
         NEW pending \in PendingTable, NEW proposal \in ProposalTable,
         NEW height \in Nat, NEW base_fee \in Nat
  PROVE  [s EXCEPT !.acct = acct, !.stake = stake, !.unbond = unbond, !.validator = validator,
                   !.pending = pending, !.proposal = proposal, !.height = height,
                   !.base_fee = base_fee] \in State
BY StateOfTables

\* What a commit does to each table.
LEMMA CommittedTables ==
  ASSUME Typed, NEW header \in Headers
  PROVE  LET new == Committed(header)
             height == db.height + 1
         IN /\ new \in State
            /\ \A a \in Addr : new.acct[a].nonce = ctx.acct[a].nonce
            /\ new.stake = SlashedStake(ctx.stake)
            /\ new.unbond = SlashedUnbond(ctx.unbond)
            /\ new.next_unbond_id = ctx.next_unbond_id
            /\ new.seen = ctx.seen
            /\ new.escrow = ctx.escrow
            /\ new.next_proposal_id = ctx.next_proposal_id
            /\ \A j \in Job : new.pending[j] \in {ctx.pending[j], None}
            /\ \A i \in ProposalId : \/ new.proposal[i] = ctx.proposal[i]
                                     \/ i \in Proposals /\ Moved(db.proposal[i], new.proposal[i])
            /\ new.validator = IF Boundary(height) THEN Rotated(ctx.validator, height)
                               ELSE ctx.validator
            /\ new.height = height
<1> DEFINE height == db.height + 1
           boundary == Boundary(height)
           slashed == SlashPaid(Balances(ctx))
           minted == IF boundary THEN MintPaid(slashed, Epoch(height) - 1) ELSE slashed
           governed == IF boundary THEN Governed(minted, ctx.proposal, header.timestamp_ms)
                       ELSE [bal |-> minted, proposal |-> ctx.proposal]
           acct == WithBalances(ctx.acct, governed.bal)
           stake == SlashedStake(ctx.stake)
           unbond == SlashedUnbond(ctx.unbond)
           validator == IF boundary THEN Rotated(ctx.validator, height) ELSE ctx.validator
           pending == IF boundary THEN Unpaid(ctx.pending, Epoch(height) - 1) ELSE ctx.pending
           proposal == governed.proposal
           base_fee == NextBaseFee(header.base_fee, gas, TargetGas)
<1>1. Committed(header) = [ctx EXCEPT !.acct = acct, !.stake = stake, !.unbond = unbond,
                                   !.validator = validator, !.pending = pending,
                                   !.proposal = proposal, !.height = height,
                                   !.base_fee = base_fee]
  BY Zenon DEF Committed
<1>2. /\ ctx \in State /\ ctx.acct \in AcctTable /\ ctx.proposal \in ProposalTable
      /\ ctx.validator \in ValidatorTable /\ ctx.pending \in PendingTable
      /\ db.height \in Nat /\ gas \in Nat
  BY StateOfTables DEF Typed
<1>3. height \in Nat
  BY <1>2
<1>4. slashed \in BalanceTable
  <2>1. Balances(ctx) \in BalanceTable
    BY <1>2 DEF Balances, BalanceTable, AcctTable, Account
  <2> QED BY <2>1, SlashPaidType
<1> HIDE DEF slashed, boundary
<1>5. minted \in BalanceTable
  BY <1>4, MintPaidType
<1> HIDE DEF minted
<1>6. /\ governed.bal \in BalanceTable /\ proposal \in ProposalTable
      /\ \A i \in ProposalId : \/ proposal[i] = ctx.proposal[i]
                               \/ i \in Proposals /\ Moved(db.proposal[i], proposal[i])
  <2>1. CASE boundary
    BY <1>2, <1>5, <2>1, GovernedMoves
  <2>2. CASE ~boundary
    BY <1>2, <1>5, <2>2
  <2> QED BY <2>1, <2>2
<1> HIDE DEF proposal, governed
<1>7. acct \in AcctTable /\ \A a \in Addr : acct[a].nonce = ctx.acct[a].nonce
  BY <1>2, <1>6 DEF WithBalances, BalanceTable, AcctTable, Account
<1>8. stake \in StakeTable /\ unbond \in SUBSET Unbonding
  BY SlashedStakeType, SlashedUnbondType
<1>9. validator \in ValidatorTable
  BY <1>2, RotatedType
<1>10. pending \in PendingTable /\ \A j \in Job : pending[j] \in {ctx.pending[j], None}
  BY <1>2, UnpaidType
<1>11. base_fee \in Nat
  <2>1. header.base_fee \in Nat
    BY BlockAssumption DEF Headers
  <2> QED BY <1>2, <2>1, BlockAssumption, NextBaseFeeType
<1>12. validator = IF Boundary(height) THEN Rotated(ctx.validator, height) ELSE ctx.validator
  BY DEF boundary
<1> HIDE DEF height, acct, stake, unbond, validator, pending, base_fee
<1>13. Committed(header) \in State
  <2>1. ctx \in State /\ proposal \in ProposalTable /\ acct \in AcctTable /\ pending \in PendingTable
    BY <1>2, <1>6, <1>7, <1>10
  <2>2. [ctx EXCEPT !.acct = acct, !.stake = stake, !.unbond = unbond, !.validator = validator,
                    !.pending = pending, !.proposal = proposal, !.height = height,
                    !.base_fee = base_fee] \in State
    BY Zenon, <1>3, <1>8, <1>9, <1>11, <2>1, StateRewritten
  <2> QED BY Zenon, <1>1, <2>2
<1> DEFINE new == Committed(header)
<1>14. /\ new.acct = acct /\ new.stake = stake /\ new.unbond = unbond
       /\ new.next_unbond_id = ctx.next_unbond_id /\ new.seen = ctx.seen
       /\ new.escrow = ctx.escrow /\ new.next_proposal_id = ctx.next_proposal_id
       /\ new.pending = pending /\ new.proposal = proposal /\ new.validator = validator
       /\ new.height = height
  BY <1>1, <1>2, StateOfTables
<1> HIDE DEF new
<1>15. new.height = db.height + 1 /\ new.stake = SlashedStake(ctx.stake)
       /\ new.unbond = SlashedUnbond(ctx.unbond)
  BY <1>14 DEF height, stake, unbond
<1>16. new.validator = IF Boundary(db.height + 1) THEN Rotated(ctx.validator, db.height + 1)
                       ELSE ctx.validator
  BY <1>12, <1>14 DEF height
<1> QED BY <1>6, <1>7, <1>10, <1>13, <1>14, <1>15, <1>16 DEF new

-----------------------------------------------------------------------------
(* The open block is read through its own writes *)

\* Only apply_withdraw takes a withdrawal.
LEMMA OnlyWithdraws ==
  ASSUME NEW tx, Handle(tx), ~Withdraw(tx)
  PROVE  tx.kind # "Withdraw"
BY DEF Handle, Transfer, EscrowLock, EscrowSettle, RewardMint, ReceiptBatch, Dispute, Deposit,
       Complete, Redelegate, GovProposal, GovVote, RegisterModel, RegisterTee, RegisterGateway,
       UnregisterGateway

\* One more transaction, one more of its kind.
LEMMA Counted ==
  ASSUME NEW s \in Seq(Txs), NEW tx \in Txs, NEW Q
  PROVE  LET of(t) == {i \in DOMAIN t : t[i] \in Q}
         IN Cardinality(of(Append(s, tx))) = Cardinality(of(s)) + IF tx \in Q THEN 1 ELSE 0
<1> DEFINE of(t) == {i \in DOMAIN t : t[i] \in Q}
           n == Len(s) + 1
           t == Append(s, tx)
<1>1. n \in Nat \ {0} /\ DOMAIN s = 1..(n - 1) /\ DOMAIN t = 1..n /\ t[n] = tx
  OBVIOUS
<1>2. \A i \in 1..(n - 1) : t[i] = s[i]
  OBVIOUS
<1> HIDE DEF n, t
<1>3. /\ n \notin of(s)
      /\ tx \in Q => of(t) = of(s) \cup {n}
      /\ tx \notin Q => of(t) = of(s)
  <2>1. 1..n = (1..(n - 1)) \cup {n} /\ n \notin 1..(n - 1)
    BY <1>1
  <2>2. \A i \in DOMAIN s : i # n /\ t[i] = s[i]
    BY <1>1, <1>2, <2>1
  <2>3. n \notin of(s)
    BY <2>2, Zenon
  <2>4. DOMAIN t = DOMAIN s \cup {n}
    BY <1>1, <2>1
  <2> QED BY <1>1, <2>2, <2>3, <2>4
<1>4. IsFiniteSet(of(s)) /\ Cardinality(of(s)) \in Nat
  <2>1. IsFiniteSet(DOMAIN s)
    BY <1>1, FS_Interval
  <2>2. IsFiniteSet(of(s))
    BY <2>1, FS_Subset
  <2> HIDE DEF of
  <2> QED BY <2>2, FS_CardinalityType
<1>5. Cardinality(of(t)) = Cardinality(of(s)) + IF tx \in Q THEN 1 ELSE 0
  <2> HIDE DEF of
  <2>1. CASE tx \in Q
    <3>1. Cardinality(of(s) \cup {n}) = Cardinality(of(s)) + 1
      BY <1>3, <1>4, FS_AddElement
    <3> QED BY <1>3, <2>1, <3>1
  <2>2. CASE tx \notin Q
    BY <1>3, <1>4, <2>2
  <2> QED BY <2>1, <2>2
<1> QED BY <1>5 DEF t

\* The unbondings of the open block: those of the committed table, less the
\* completed ones, and its withdrawals, which cannot complete yet.
UnbondingsFollow ==
  /\ db.next_unbond_id <= ctx.next_unbond_id
  /\ \A u \in ctx.unbond : IF u.id < db.next_unbond_id THEN u \in db.unbond
                            ELSE u.completes_at = db.height + UnbondingPeriod
  /\ \A u \in db.unbond : u \notin ctx.unbond => db.height >= u.completes_at

BlockInv == Typed /\ NonceCountsTxs /\ UnbondIdsFresh /\ UnbondingsFollow

\* The inductive invariant has the run's property among its parts.
LEMMA BlockSoundFollows == BlockInv => BlockSound
BY DEF BlockInv, BlockSound, Typed, TypeOK

\* An empty block over a sound committed state.
LEMMA FreshBlock ==
  ASSUME NEW s \in State, IsFiniteSet(s.unbond), IdsFresh(s),
         db' = s, ctx' = s, block' = <<>>, gas' = 0
  PROVE  BlockInv'
<1>1. Typed'
  BY DEF Typed
<1>2. \A u \in s.unbond : u.id < s.next_unbond_id /\ u.id \in Nat /\ s.next_unbond_id \in Nat
  BY StateOfTables DEF IdsFresh, Unbonding
<1>3. NonceCountsTxs'
  <2> SUFFICES ASSUME NEW a \in Addr
               PROVE  ctx'.acct[a].nonce = db'.acct[a].nonce + Cardinality(NoncedBy(a)')
    BY DEF NonceCountsTxs
  <2>1. NoncedBy(a)' = {}
    BY DEF NoncedBy
  <2>2. s.acct[a].nonce \in Nat
    BY StateOfTables DEF AcctTable, Account
  <2> QED BY <2>1, <2>2, FS_EmptySet
<1>4. WithdrawalsKept'
  <2>1. {u \in s.unbond : u.id >= s.next_unbond_id} = {}
    BY <1>2
  <2>2. {i \in DOMAIN <<>> : <<>>[i].kind = "Withdraw"} = {}
    OBVIOUS
  <2> QED BY <2>1, <2>2 DEF WithdrawalsKept
<1>5. UnbondIdsFresh'
  BY <1>4 DEF UnbondIdsFresh, IdsFresh
<1>6. UnbondingsFollow'
  BY <1>2, StateOfTables DEF UnbondingsFollow
<1> QED BY <1>1, <1>3, <1>5, <1>6 DEF BlockInv

\* Nonces and withdrawals after one more transaction.
LEMMA CountsStep ==
  ASSUME BlockInv, NEW tx \in Txs, Keeps(tx), db' = db, block' = Append(block, tx)
  PROVE  /\ NonceCountsTxs'
         /\ Cardinality({i \in DOMAIN block' : block'[i].kind = "Withdraw"})
            = Cardinality({i \in DOMAIN block : block[i].kind = "Withdraw"})
              + IF tx.kind = "Withdraw" THEN 1 ELSE 0
<1>1. block \in Seq(Txs) /\ block' \in Seq(Txs)
  BY DEF BlockInv, Typed
<1>2. ASSUME NEW a \in Addr
      PROVE  ctx'.acct[a].nonce = db'.acct[a].nonce + Cardinality(NoncedBy(a)')
  <2> DEFINE Q == {t \in Txs : UsesNonce(t, a)}
  <2>1. /\ NoncedBy(a) = {i \in DOMAIN block : block[i] \in Q}
        /\ NoncedBy(a)' = {i \in DOMAIN block' : block'[i] \in Q}
    BY <1>1 DEF NoncedBy, UsesNonce
  <2>2. tx \in Q <=> UsesNonce(tx, a)
    OBVIOUS
  <2> HIDE DEF Q
  <2>3. Cardinality(NoncedBy(a)') = Cardinality(NoncedBy(a)) + IF tx \in Q THEN 1 ELSE 0
    BY <1>1, <2>1, Counted
  <2>4. /\ ctx.acct[a].nonce = db.acct[a].nonce + Cardinality(NoncedBy(a))
        /\ ctx'.acct[a].nonce = ctx.acct[a].nonce + IF UsesNonce(tx, a) THEN 1 ELSE 0
    BY DEF Keeps, BlockInv, NonceCountsTxs
  <2>5. Cardinality(NoncedBy(a)) \in Nat /\ db.acct[a].nonce \in Nat
    <3>1. IsFiniteSet(NoncedBy(a))
      BY BlockFinite DEF NoncedBy, BlockInv
    <3> QED BY <3>1, FS_CardinalityType, StateOfTables DEF BlockInv, Typed, AcctTable, Account
  <2> QED BY <2>2, <2>3, <2>4, <2>5
<1>3. Cardinality({i \in DOMAIN block' : block'[i].kind = "Withdraw"})
      = Cardinality({i \in DOMAIN block : block[i].kind = "Withdraw"})
        + IF tx.kind = "Withdraw" THEN 1 ELSE 0
  <2> DEFINE Q == {t \in Txs : t.kind = "Withdraw"}
  <2>1. /\ {i \in DOMAIN block : block[i].kind = "Withdraw"} = {i \in DOMAIN block : block[i] \in Q}
        /\ {i \in DOMAIN block' : block'[i].kind = "Withdraw"} = {i \in DOMAIN block' : block'[i] \in Q}
    BY <1>1
  <2>2. tx \in Q <=> tx.kind = "Withdraw"
    OBVIOUS
  <2> HIDE DEF Q
  <2> QED BY <1>1, <2>1, <2>2, Counted
<1> QED BY <1>2, <1>3 DEF NonceCountsTxs

\* A withdrawal's entry is new: its id is ahead of all others.
LEMMA WithdrawStep ==
  ASSUME BlockInv, NEW tx \in Txs, Withdraw(tx), db' = db, block' = Append(block, tx)
  PROVE  IsFiniteSet(ctx'.unbond) /\ UnbondIdsFresh' /\ UnbondingsFollow'
<1>1. db \in State /\ ctx \in State /\ IsFiniteSet(ctx.unbond)
  BY DEF BlockInv, Typed
<1>2. Keeps(tx) /\ tx.kind = "Withdraw"
  BY <1>1, WithdrawKeeps DEF Withdraw
<1>3. PICK new \in Unbonding :
        /\ new.id = ctx.next_unbond_id
        /\ new.completes_at = db.height + UnbondingPeriod
        /\ ctx'.unbond = SetUnbonding(ctx.unbond, new)
        /\ ctx'.next_unbond_id = ctx.next_unbond_id + 1
  BY <1>1, WithdrawKeeps
<1>4. /\ ctx.unbond \subseteq Unbonding /\ db.unbond \subseteq Unbonding
      /\ ctx.next_unbond_id \in Nat /\ db.next_unbond_id \in Nat /\ db.height \in Nat
  BY <1>1, StateOfTables
<1>5. \A u \in Unbonding : u.id \in Nat
  BY DEF Unbonding
<1>6. \A u \in ctx.unbond : u.id < ctx.next_unbond_id
  BY DEF BlockInv, UnbondIdsFresh, IdsFresh
<1>7. ctx'.unbond = ctx.unbond \cup {new} /\ new \notin ctx.unbond
  <2>1. \A u \in ctx.unbond : u.id # new.id
    BY <1>3, <1>4, <1>5, <1>6
  <2> QED BY <1>3, <2>1 DEF SetUnbonding
<1>8. IsFiniteSet(ctx'.unbond)
  BY <1>1, <1>7, FS_AddElement
<1>9. IdsFresh(ctx)'
  <2>1. \A u \in ctx'.unbond : u.id < ctx'.next_unbond_id
    BY <1>3, <1>4, <1>5, <1>6, <1>7
  <2>2. \A u, v \in ctx'.unbond : u.id = v.id => u = v
    BY <1>3, <1>4, <1>5, <1>6, <1>7 DEF BlockInv, UnbondIdsFresh, IdsFresh
  <2> QED BY <2>1, <2>2 DEF IdsFresh
<1>10. UnbondingsFollow'
  BY <1>3, <1>4, <1>5, <1>7 DEF BlockInv, UnbondingsFollow
<1>11. WithdrawalsKept'
  <2> DEFINE fresh == {u \in ctx.unbond : u.id >= db.next_unbond_id}
  <2>1. {u \in ctx'.unbond : u.id >= db.next_unbond_id} = fresh \cup {new} /\ new \notin fresh
    BY <1>3, <1>4, <1>7 DEF BlockInv, UnbondingsFollow
  <2>2. IsFiniteSet(fresh)
    BY <1>1, FS_Subset
  <2>3. Cardinality(fresh \cup {new}) = Cardinality(fresh) + 1
    BY <2>1, <2>2, FS_AddElement
  <2>4. Cardinality(fresh) = Cardinality({i \in DOMAIN block : block[i].kind = "Withdraw"})
    BY DEF BlockInv, UnbondIdsFresh, WithdrawalsKept
  <2>5. Cardinality({i \in DOMAIN block' : block'[i].kind = "Withdraw"})
        = Cardinality({i \in DOMAIN block : block[i].kind = "Withdraw"}) + 1
    BY <1>2, CountsStep
  <2> HIDE DEF fresh
  <2> QED BY <2>1, <2>3, <2>4, <2>5 DEF WithdrawalsKept
<1> QED BY <1>8, <1>9, <1>10, <1>11 DEF UnbondIdsFresh, BlockInv, IdsFresh

\* A completed entry leaves: it was a committed one.
LEMMA CompleteStep ==
  ASSUME BlockInv, NEW tx \in Txs, Complete(tx), db' = db, block' = Append(block, tx)
  PROVE  IsFiniteSet(ctx'.unbond) /\ UnbondIdsFresh' /\ UnbondingsFollow'
<1>1. db \in State /\ ctx \in State /\ IsFiniteSet(ctx.unbond)
  BY DEF BlockInv, Typed
<1>2. Keeps(tx) /\ tx.kind # "Withdraw"
  BY <1>1, CompleteKeeps DEF Complete
<1>3. PICK gone \in ctx.unbond : /\ db.height >= gone.completes_at
                                 /\ ctx'.unbond = ctx.unbond \ {gone}
                                 /\ ctx'.next_unbond_id = ctx.next_unbond_id
  BY <1>1, CompleteKeeps
<1>4. /\ ctx.unbond \subseteq Unbonding /\ db.unbond \subseteq Unbonding
      /\ ctx.next_unbond_id \in Nat /\ db.next_unbond_id \in Nat /\ db.height \in Nat
  BY <1>1, StateOfTables
<1>5. gone.id < db.next_unbond_id
  <2>1. db.height < db.height + UnbondingPeriod
    BY <1>4, StakeAssumption
  <2>2. gone.id \in Nat /\ gone.completes_at \in Nat
    BY <1>3, <1>4 DEF Unbonding
  <2>3. UnbondingPeriod \in Nat
    BY StakeAssumption
  <2>4. ~(gone.id < db.next_unbond_id) => gone.completes_at = db.height + UnbondingPeriod
    BY <1>3 DEF BlockInv, UnbondingsFollow
  <2> QED BY <1>3, <1>4, <2>1, <2>2, <2>3, <2>4
<1>6. IsFiniteSet(ctx'.unbond)
  BY <1>1, <1>3, FS_Subset
<1>7. IdsFresh(ctx)'
  BY <1>3 DEF BlockInv, UnbondIdsFresh, IdsFresh
<1>8. UnbondingsFollow'
  <2>1. \A u \in db.unbond : u \notin ctx.unbond => db.height >= u.completes_at
    BY DEF BlockInv, UnbondingsFollow
  <2>2. \A u \in db.unbond : u \notin ctx'.unbond => db.height >= u.completes_at
    BY <1>3, <2>1
  <2> QED BY <1>3, <2>2 DEF BlockInv, UnbondingsFollow
<1>9. WithdrawalsKept'
  <2> DEFINE before == {i \in DOMAIN block : block[i].kind = "Withdraw"}
             after == {i \in DOMAIN block' : block'[i].kind = "Withdraw"}
             fresh == {u \in ctx.unbond : u.id >= db.next_unbond_id}
             left == {u \in ctx'.unbond : u.id >= db'.next_unbond_id}
  <2>1. left = fresh
    BY <1>3, <1>4, <1>5 DEF Unbonding
  <2>2. Cardinality(after) = Cardinality(before) + 0
    BY <1>2, CountsStep
  <2>3. Cardinality(before) \in Nat
    <3>1. IsFiniteSet(before)
      BY BlockFinite DEF BlockInv
    <3> QED BY <3>1, FS_CardinalityType
  <2>4. Cardinality(fresh) = Cardinality(before)
    BY DEF BlockInv, UnbondIdsFresh, WithdrawalsKept
  <2>5. WithdrawalsKept' <=> Cardinality(left) = Cardinality(after)
    BY DEF WithdrawalsKept
  <2> HIDE DEF before, after, fresh, left
  <2> QED BY <2>1, <2>2, <2>3, <2>4, <2>5
<1> QED BY <1>6, <1>7, <1>8, <1>9 DEF UnbondIdsFresh, BlockInv, IdsFresh

\* Any other transaction leaves the unbondings alone.
LEMMA OtherStep ==
  ASSUME BlockInv, NEW tx \in Txs, Keeps(tx), SameUnbonding, tx.kind # "Withdraw",
         db' = db, block' = Append(block, tx)
  PROVE  IsFiniteSet(ctx'.unbond) /\ UnbondIdsFresh' /\ UnbondingsFollow'
<1>1. ctx'.unbond = ctx.unbond /\ ctx'.next_unbond_id = ctx.next_unbond_id
  BY DEF SameUnbonding
<1>2. WithdrawalsKept'
  <2>1. Cardinality({i \in DOMAIN block' : block'[i].kind = "Withdraw"})
        = Cardinality({i \in DOMAIN block : block[i].kind = "Withdraw"}) + 0
    BY CountsStep
  <2>2. Cardinality({i \in DOMAIN block : block[i].kind = "Withdraw"}) \in Nat
    <3>1. IsFiniteSet({i \in DOMAIN block : block[i].kind = "Withdraw"})
      BY BlockFinite DEF BlockInv
    <3> QED BY <3>1, FS_CardinalityType
  <2> QED BY SMTT(30), <1>1, <2>1, <2>2 DEF WithdrawalsKept, BlockInv, UnbondIdsFresh
<1>3. IdsFresh(ctx)' /\ IdsFresh(db)' /\ UnbondingsFollow' /\ IsFiniteSet(ctx'.unbond)
  BY <1>1 DEF BlockInv, UnbondIdsFresh, IdsFresh, UnbondingsFollow, Typed
<1> QED BY <1>2, <1>3 DEF UnbondIdsFresh

\* Gas is a natural number.
LEMMA GasType ==
  ASSUME NEW tx \in Txs
  PROVE  GasUsed(tx) \in Nat
<1>1. tx.kind \in TxKinds /\ GasCost[tx.kind] \in Nat
  BY BlockAssumption
<1>2. CASE tx.kind = "Transfer"
  <2>1. tx.fee \in Nat
    BY <1>2, BlockAssumption DEF TxOfKind, StakeOps
  <2> QED BY <1>2, <2>1 DEF GasUsed
<1>3. CASE tx.kind = "ReceiptBatch"
  <2>1. tx.receipts \in Seq(Receipt)
    BY <1>3, BlockAssumption DEF TxOfKind, StakeOps
  <2>2. Len(tx.receipts) \in Nat
    BY <2>1
  <2>3. GasCost[tx.kind] * Len(tx.receipts) \in Nat
    BY <1>1, <2>2
  <2> QED BY <1>3, <2>3 DEF GasUsed
<1>4. CASE tx.kind = "RewardMint"
  BY <1>1, <1>4 DEF GasUsed
<1>5. CASE tx.kind = "Dispute"
  BY <1>1, <1>5 DEF GasUsed
<1>6. CASE tx.kind \notin {"Transfer", "ReceiptBatch", "RewardMint", "Dispute"}
  BY <1>1, <1>6 DEF GasUsed
<1> QED BY <1>2, <1>3, <1>4, <1>5, <1>6

\* Applying a transaction keeps the invariant.
LEMMA ApplyStep ==
  ASSUME BlockInv, NEW tx \in Txs, ApplyTx(tx)
  PROVE  BlockInv'
<1>1. /\ db \in State /\ ctx \in State /\ block \in Seq(Txs) /\ gas \in Nat
      /\ Handle(tx) /\ db' = db /\ block' = Append(block, tx) /\ gas' = gas + GasUsed(tx)
  BY DEF BlockInv, Typed, ApplyTx
<1>2. Keeps(tx) /\ (SameUnbonding \/ Withdraw(tx) \/ Complete(tx))
  BY <1>1, HandlerKeeps
<1>3. IsFiniteSet(ctx'.unbond) /\ UnbondIdsFresh' /\ UnbondingsFollow'
  <2>1. CASE Withdraw(tx)
    BY <1>1, <2>1, WithdrawStep
  <2>2. CASE Complete(tx)
    BY <1>1, <2>2, CompleteStep
  <2>3. CASE ~Withdraw(tx) /\ SameUnbonding
    BY <1>1, <1>2, <2>3, OnlyWithdraws, OtherStep
  <2> QED BY <1>2, <2>1, <2>2, <2>3
<1>4. NonceCountsTxs'
  BY <1>1, <1>2, CountsStep
<1>5. Typed'
  <2>1. gas' \in Nat
    BY <1>1, GasType
  <2>2. block' \in Seq(Txs)
    BY <1>1
  <2> QED BY <1>1, <1>2, <1>3, <2>1, <2>2 DEF Typed, Keeps, BlockInv
<1> QED BY <1>3, <1>4, <1>5 DEF BlockInv

\* A slash rewrites committed entries only, each under its own id.
LEMMA SlashKeepsIds ==
  ASSUME BlockInv
  PROVE  LET after == SlashedUnbond(ctx.unbond)
         IN /\ \A w \in after : \E u \in ctx.unbond :
                 /\ w.id = u.id
                 /\ w = u \/ (u \in Trimmed /\ w = Slashed(u))
            /\ \A u \in ctx.unbond : \E w \in after : w.id = u.id
            /\ \A w, v \in after : w.id = v.id => w = v
<1> DEFINE after == SlashedUnbond(ctx.unbond)
<1>1. /\ ctx.unbond \subseteq Unbonding /\ db.unbond \subseteq Unbonding /\ db.height \in Nat
      /\ \A u \in Unbonding : u.id \in Nat /\ u.completes_at \in Nat
      /\ \A u, v \in ctx.unbond : u.id = v.id => u = v
  BY StateOfTables DEF BlockInv, Typed, UnbondIdsFresh, IdsFresh, Unbonding
<1>2. Typed
  BY DEF BlockInv
<1>3. \A t \in Trimmed : /\ t \in db.unbond /\ t.completes_at > db.height
                         /\ Slashed(t) = [t EXCEPT !.amount = Slashed(t).amount]
  BY <1>2, TrimmedEntry
<1>4. \A t \in Trimmed : t \in ctx.unbond
  BY <1>1, <1>3 DEF BlockInv, UnbondingsFollow
<1>5. \A t \in Trimmed : Slashed(t).id = t.id
  <2> SUFFICES ASSUME NEW t \in Trimmed PROVE Slashed(t).id = t.id
    OBVIOUS
  <2>1. t \in Unbonding
    BY <1>1, <1>4
  <2> QED BY <2>1 DEF Slashed, Unbonding
<1>6. \A w \in after : (w \in ctx.unbond /\ \A t \in Trimmed : <<t.node, t.id>> # <<w.node, w.id>>)
                       \/ \E t \in Trimmed : w = Slashed(t)
  BY DEF SlashedUnbond
<1>7. \A w \in after : \E u \in ctx.unbond : w.id = u.id /\ (w = u \/ (u \in Trimmed /\ w = Slashed(u)))
  BY <1>4, <1>5, <1>6
<1>8. \A u \in ctx.unbond : \E w \in after : w.id = u.id
  <2> SUFFICES ASSUME NEW u \in ctx.unbond PROVE \E w \in after : w.id = u.id
    OBVIOUS
  <2>1. CASE u \in Trimmed
    <3>1. Slashed(u) \in after
      BY <2>1 DEF SlashedUnbond
    <3> QED BY <1>5, <2>1, <3>1
  <2>2. CASE u \notin Trimmed
    <3>1. \A t \in Trimmed : t.id # u.id
      BY <1>1, <1>4, <2>2
    <3>2. u \in after
      BY <3>1 DEF SlashedUnbond
    <3> QED BY <3>2
  <2> QED BY <2>1, <2>2
<1>9. \A w, v \in after : w.id = v.id => w = v
  <2> SUFFICES ASSUME NEW w \in after, NEW v \in after, w.id = v.id PROVE w = v
    OBVIOUS
  <2>1. CASE w \in ctx.unbond /\ v \in ctx.unbond
    BY <1>1, <2>1
  <2>2. \A x \in after, t \in Trimmed : x.id = t.id => x = Slashed(t)
    <3> SUFFICES ASSUME NEW x \in after, NEW t \in Trimmed, x.id = t.id PROVE x = Slashed(t)
      OBVIOUS
    <3>1. CASE \E r \in Trimmed : x = Slashed(r)
      <4>1. PICK r \in Trimmed : x = Slashed(r)
        BY <3>1
      <4>2. r.id = t.id
        BY <1>5, <4>1
      <4> QED BY <1>1, <1>4, <4>1, <4>2
    <3>2. CASE x \in ctx.unbond /\ \A r \in Trimmed : <<r.node, r.id>> # <<x.node, x.id>>
      <4>1. x = t
        BY <1>1, <1>4, <3>2
      <4> QED BY <3>2, <4>1
    <3> QED BY <1>6, <3>1, <3>2
  <2>3. CASE \E t \in Trimmed : w = Slashed(t)
    BY <1>5, <2>2, <2>3
  <2>4. CASE \E t \in Trimmed : v = Slashed(t)
    BY <1>5, <2>2, <2>4
  <2> QED BY <1>6, <2>1, <2>3, <2>4
<1> QED BY <1>7, <1>8, <1>9

\* A committed block leaves a sound state.
LEMMA CommittedSound ==
  ASSUME BlockInv, NEW header \in Headers
  PROVE  LET new == Committed(header)
         IN new \in State /\ IsFiniteSet(new.unbond) /\ IdsFresh(new)
<1> DEFINE new == Committed(header)
<1>1. Typed
  BY DEF BlockInv
<1>2. /\ new \in State
      /\ new.unbond = SlashedUnbond(ctx.unbond)
      /\ new.next_unbond_id = ctx.next_unbond_id
  BY <1>1, CommittedTables
<1>3. IsFiniteSet(new.unbond)
  BY <1>1, <1>2, SlashedUnbondType
<1>4. \A u \in ctx.unbond : u.id < ctx.next_unbond_id
  BY DEF BlockInv, UnbondIdsFresh, IdsFresh
<1>5. \A w \in new.unbond : \E u \in ctx.unbond : w.id = u.id
  BY <1>2, SlashKeepsIds
<1>6. \A w, v \in new.unbond : w.id = v.id => w = v
  BY <1>2, SlashKeepsIds
<1> HIDE DEF new
<1>7. IdsFresh(new)
  BY <1>2, <1>4, <1>5, <1>6 DEF IdsFresh
<1> QED BY <1>2, <1>3, <1>7 DEF new

\* A node begins with the state it holds, and nothing in the open block.
LEMMA BlockInit == Init => BlockInv
<1> SUFFICES ASSUME Init PROVE BlockInv
  OBVIOUS
<1>1. /\ Start \in State /\ IsFiniteSet(Start.unbond) /\ IdsFresh(Start)
      /\ db = Start /\ ctx = Start /\ block = <<>> /\ gas = 0
  BY BlockAssumption, StartAssumption DEF Init
<1>2. \A u \in Start.unbond : u.id < Start.next_unbond_id /\ u.id \in Nat /\ Start.next_unbond_id \in Nat
  BY <1>1, StateOfTables DEF IdsFresh, Unbonding
<1>3. NonceCountsTxs
  <2> SUFFICES ASSUME NEW a \in Addr
               PROVE  ctx.acct[a].nonce = db.acct[a].nonce + Cardinality(NoncedBy(a))
    BY DEF NonceCountsTxs
  <2>1. NoncedBy(a) = {}
    BY <1>1 DEF NoncedBy
  <2>2. Start.acct[a].nonce \in Nat
    BY <1>1, StateOfTables DEF AcctTable, Account
  <2> QED BY <1>1, <2>1, <2>2, FS_EmptySet
<1>4. WithdrawalsKept
  <2>1. {u \in Start.unbond : u.id >= Start.next_unbond_id} = {}
    BY <1>2
  <2>2. {i \in DOMAIN block : block[i].kind = "Withdraw"} = {}
    BY <1>1
  <2> QED BY <1>1, <2>1, <2>2 DEF WithdrawalsKept
<1>5. UnbondingsFollow
  BY <1>1, <1>2, StateOfTables DEF UnbondingsFollow
<1> QED BY <1>1, <1>3, <1>4, <1>5 DEF BlockInv, Typed, UnbondIdsFresh

\* Every step keeps the invariant.
LEMMA BlockStep == BlockInv /\ [Next]_vars => BlockInv'
<1> SUFFICES ASSUME BlockInv, [Next]_vars PROVE BlockInv'
  OBVIOUS
<1>1. ASSUME NEW tx \in Txs, ApplyTx(tx) PROVE BlockInv'
  BY <1>1, ApplyStep
<1>2. ASSUME NEW header \in Headers, Commit(header) PROVE BlockInv'
  <2> DEFINE new == Committed(header)
  <2>1. db' = new /\ ctx' = new /\ block' = <<>> /\ gas' = 0
    BY <1>2 DEF Commit
  <2>2. new \in State /\ IsFiniteSet(new.unbond) /\ IdsFresh(new)
    BY CommittedSound
  <2> HIDE DEF new
  <2> QED BY <2>1, <2>2, FreshBlock
<1>3. ASSUME NEW header \in Headers, RootMismatch(header) PROVE BlockInv'
  <2>1. db' = db /\ ctx' = db /\ block' = <<>> /\ gas' = 0
    BY <1>3 DEF RootMismatch
  <2>2. db \in State /\ IsFiniteSet(db.unbond) /\ IdsFresh(db)
    BY DEF BlockInv, Typed, UnbondIdsFresh
  <2> QED BY <2>1, <2>2, FreshBlock
<1>4. CASE UNCHANGED vars
  <2>1. db' = db /\ ctx' = ctx /\ block' = block /\ gas' = gas
    BY <1>4 DEF vars
  <2>2. Typed' /\ UnbondIdsFresh' /\ UnbondingsFollow'
    BY <2>1 DEF BlockInv, Typed, UnbondIdsFresh, IdsFresh, WithdrawalsKept, UnbondingsFollow
  <2>3. NonceCountsTxs'
    BY <2>1 DEF BlockInv, NonceCountsTxs, NoncedBy
  <2> QED BY <2>2, <2>3 DEF BlockInv
<1> QED BY <1>1, <1>2, <1>3, <1>4 DEF Next

\* The open block is read through its own writes.
THEOREM BlockAlwaysSound == Spec => []BlockSound
<1> QED BY BlockInit, BlockStep, BlockSoundFollows, PTL DEF Spec

-----------------------------------------------------------------------------
(* What a commit does to the committed tables *)

Tables == {"acct", "stake", "unbond", "next_unbond_id", "seen", "escrow", "pending", "proposal",
           "vote", "next_proposal_id", "model", "tee", "gateway", "validator", "base_fee", "height"}

IsTables(s) == s = [t \in Tables |-> s[t]]

-----------------------------------------------------------------------------

\* Of all handlers only the two of escrows write escrows, and only GovVote
\* writes votes.
LEMMA Writers ==
  ASSUME NEW tx, IsTables(ctx), Handle(tx)
  PROVE  /\ IsTables(ctx')
         /\ ctx'.escrow = ctx.escrow \/ EscrowLock(tx) \/ EscrowSettle(tx)
         /\ ctx'.vote = ctx.vote \/ GovVote(tx)
<1> USE DEF IsTables, Tables
<1>1. CASE Transfer(tx)
  BY <1>1 DEF Transfer
<1>2. CASE EscrowLock(tx)
  BY <1>2 DEF EscrowLock
<1>3. CASE EscrowSettle(tx)
  BY <1>3 DEF EscrowSettle
<1>4. CASE RewardMint(tx)
  BY <1>4 DEF RewardMint
<1>5. CASE ReceiptBatch(tx)
  BY <1>5 DEF ReceiptBatch
<1>6. CASE Dispute(tx)
  BY <1>6 DEF Dispute
<1>7. CASE Deposit(tx)
  BY <1>7 DEF Deposit
<1>8. CASE Withdraw(tx)
  BY <1>8 DEF Withdraw
<1>9. CASE Complete(tx)
  BY <1>9 DEF Complete
<1>10. CASE Redelegate(tx)
  BY <1>10 DEF Redelegate
<1>11. CASE GovProposal(tx)
  BY <1>11 DEF GovProposal
<1>12. CASE GovVote(tx)
  BY <1>12 DEF GovVote
<1>13. CASE RegisterModel(tx)
  BY <1>13 DEF RegisterModel
<1>14. CASE RegisterTee(tx)
  BY <1>14 DEF RegisterTee
<1>15. CASE RegisterGateway(tx)
  BY <1>15 DEF RegisterGateway
<1>16. CASE UnregisterGateway(tx)
  BY <1>16 DEF UnregisterGateway
<1> QED
  BY <1>1, <1>2, <1>3, <1>4, <1>5, <1>6, <1>7, <1>8, <1>9, <1>10, <1>11, <1>12, <1>13, <1>14,
     <1>15, <1>16 DEF Handle

\* What commit_block adds to the block touches neither escrows nor votes.
LEMMA CommittedKeeps ==
  ASSUME NEW header \in Headers, IsTables(ctx), db.height \in Nat
  PROVE  /\ IsTables(Committed(header))
         /\ Committed(header).escrow = ctx.escrow
         /\ Committed(header).vote = ctx.vote
         /\ Committed(header).height \in Nat
<1> DEFINE height == db.height + 1
           boundary == Boundary(height)
           slashed == SlashPaid(Balances(ctx))
           minted == IF boundary THEN MintPaid(slashed, Epoch(height) - 1) ELSE slashed
           governed == IF boundary THEN Governed(minted, ctx.proposal, header.timestamp_ms)
                       ELSE [bal |-> minted, proposal |-> ctx.proposal]
           acct == WithBalances(ctx.acct, governed.bal)
           stake == SlashedStake(ctx.stake)
           unbond == SlashedUnbond(ctx.unbond)
           validator == IF boundary THEN Rotated(ctx.validator, height) ELSE ctx.validator
           pending == IF boundary THEN Unpaid(ctx.pending, Epoch(height) - 1) ELSE ctx.pending
           proposal == governed.proposal
           base_fee == NextBaseFee(header.base_fee, gas, TargetGas)
<1>1. Committed(header) = [ctx EXCEPT !.acct = acct, !.stake = stake, !.unbond = unbond,
                                   !.validator = validator, !.pending = pending,
                                   !.proposal = proposal, !.height = height,
                                   !.base_fee = base_fee]
  BY Zenon DEF Committed
<1>2. height \in Nat
  OBVIOUS
<1> HIDE DEF height, boundary, slashed, minted, governed, acct, stake, unbond, validator, pending,
             proposal, base_fee
<1> QED BY <1>1, <1>2 DEF IsTables, Tables

\* A commit makes the open block the committed state, a mismatch drops it.
LEMMA CommitOrDrop ==
  ASSUME IsTables(db), IsTables(ctx), db.height \in Nat, NEW header \in Headers,
         Commit(header) \/ RootMismatch(header)
  PROVE  /\ IsTables(db') /\ ctx' = db' /\ db'.height \in Nat
         /\ db' = db \/ (db'.escrow = ctx.escrow /\ db'.vote = ctx.vote)
<1>1. CASE Commit(header)
  BY <1>1, CommittedKeeps DEF Commit
<1>2. CASE RootMismatch(header)
  BY <1>2 DEF RootMismatch
<1> QED BY <1>1, <1>2

-----------------------------------------------------------------------------
(* Votes *)

VoteKey == ProposalId \X Addr

\* Table t has the votes of s and more on what was open for voting in s.
VotesExtend(s, t) ==
  \A k \in VoteKey : t.vote[k] # s.vote[k] =>
    /\ s.vote[k] = None
    /\ s.proposal[k[1]] # None /\ s.proposal[k[1]].phase = "Voting"

HasVotes(s) == IsTables(s) /\ s.vote = [k \in VoteKey |-> s.vote[k]]

VoteInv == HasVotes(db) /\ HasVotes(ctx) /\ db.height \in Nat /\ VotesExtend(db, ctx)

\* A node begins with the state it holds, whose ballots the open block has.
LEMMA VoteInit == Init => VoteInv
<1> SUFFICES ASSUME Init PROVE VoteInv
  OBVIOUS
<1>1. Start \in State
  BY BlockAssumption
<1>2. IsTables(Start) /\ Start.vote \in [VoteKey -> Choices4 \cup {None}] /\ Start.height \in Nat
  BY <1>1 DEF State, IsTables, Tables, VoteKey
<1> QED BY <1>2 DEF Init, VoteInv, HasVotes, VotesExtend

\* Every step keeps the ballots cast in the open block and in the state.
LEMMA VoteStep == VoteInv /\ [Next]_vars => VoteInv'
<1> SUFFICES ASSUME VoteInv, [Next]_vars PROVE VoteInv'
  OBVIOUS
<1> USE DEF VoteInv, HasVotes
<1>1. ASSUME NEW tx \in Txs, ApplyTx(tx) PROVE VoteInv'
  <2>1. db' = db /\ Handle(tx)
    BY <1>1 DEF ApplyTx
  <2>2. IsTables(ctx')
    BY <2>1, Writers
  <2>3. CASE ctx'.vote = ctx.vote
    BY <2>1, <2>2, <2>3 DEF VotesExtend
  <2>4. CASE GovVote(tx)
    <3> DEFINE key == <<tx.id, tx.voter>>
    <3>1. ctx'.vote = [ctx.vote EXCEPT ![key] = tx.choice]
      BY <2>4 DEF GovVote, IsTables, Tables
    <3>2. \A k \in VoteKey : ctx'.vote[k] # ctx.vote[k] => k = key
      BY <3>1
    <3>3. db.vote[key] = None /\ db.proposal[key[1]] # None /\ db.proposal[key[1]].phase = "Voting"
      BY <2>4 DEF GovVote, Votable, NotVoted, Proposals, GetProposal, GetVote
    <3>4. HasVotes(ctx')
      BY <2>2, <3>1
    <3> HIDE DEF key
    <3> QED BY <2>1, <3>2, <3>3, <3>4 DEF VotesExtend
  <2> QED BY <2>1, <2>3, <2>4, Writers
<1>2. ASSUME NEW header \in Headers, Commit(header) \/ RootMismatch(header) PROVE VoteInv'
  BY <1>2, CommitOrDrop DEF VotesExtend
<1>3. CASE UNCHANGED vars
  BY <1>3 DEF vars, VotesExtend
<1> QED BY <1>1, <1>2, <1>3 DEF Next

\* A committed vote is final, and a vote enters the committed table only on
\* a proposal that was open for voting before the block: apply_gov_vote
\* reads the committed proposals and votes, and nothing else writes votes.
THEOREM CommittedVotesSettled == Spec => VotesSettled
<1>1. ASSUME VoteInv, [Next]_vars
      PROVE  [\A k \in DOMAIN db.vote : db'.vote[k] # db.vote[k] =>
                /\ db.vote[k] = None
                /\ db.proposal[k[1]] # None /\ db.proposal[k[1]].phase = "Voting"]_vars
  <2>1. DOMAIN db.vote = VoteKey /\ VotesExtend(db, ctx)
    BY <1>1 DEF VoteInv, HasVotes
  <2>2. db' = db \/ db'.vote = ctx.vote
    BY <1>1, CommitOrDrop DEF Next, ApplyTx, vars, VoteInv, HasVotes
  <2> QED BY <2>1, <2>2 DEF VotesExtend
<1> QED BY <1>1, VoteInit, VoteStep, PTL DEF Spec, VotesSettled

-----------------------------------------------------------------------------
(* Escrows *)

\* Table t has the escrows of s, some of them settled since, and more.
EscrowsExtend(s, t) ==
  \A j \in Job : LET e == s.escrow[j] IN LET f == t.escrow[j] IN
    e # None => /\ f # None
                /\ <<f.user, f.amount, f.created_at>> = <<e.user, e.amount, e.created_at>>
                /\ e.state = "Settled" => f.state = "Settled"

HasEscrows(s) == IsTables(s) /\ s.escrow \in [Job -> Escrow \cup {None}]

EscrowInv == HasEscrows(db) /\ HasEscrows(ctx) /\ db.height \in Nat /\ EscrowsExtend(db, ctx)

\* A node begins with the state it holds, whose escrows the open block has.
LEMMA EscrowInit == Init => EscrowInv
<1> SUFFICES ASSUME Init PROVE EscrowInv
  OBVIOUS
<1>1. Start \in State
  BY BlockAssumption
<1>2. IsTables(Start) /\ Start.escrow \in [Job -> Escrow \cup {None}] /\ Start.height \in Nat
  BY <1>1 DEF State, IsTables, Tables
<1> QED BY <1>2 DEF Init, EscrowInv, HasEscrows, EscrowsExtend

\* A lock writes an escrow of its own, only where the committed table has none.
LEMMA LockKeeps ==
  ASSUME EscrowInv, NEW tx \in Txs, EscrowLock(tx)
  PROVE  /\ ctx'.escrow \in [Job -> Escrow \cup {None}]
         /\ \A j \in Job : db.escrow[j] # None => ctx'.escrow[j] = ctx.escrow[j]
<1> DEFINE lock == [user |-> tx.from, amount |-> tx.amount,
                    created_at |-> db.height, state |-> "Locked"]
<1>1. tx.kind = "EscrowLock" /\ db.escrow[tx.job] = None
  BY DEF EscrowLock, NoEscrow, GetEscrow
<1>2. tx.from \in Addr /\ tx.job \in Job /\ tx.amount \in Nat
  BY <1>1, BlockAssumption DEF TxOfKind, StakeOps
<1>3. lock \in Escrow
  BY <1>2 DEF EscrowInv, Escrow
<1>4. ctx'.escrow = [ctx.escrow EXCEPT ![tx.job] = lock]
  BY DEF EscrowLock, EscrowInv, HasEscrows, IsTables, Tables
<1> HIDE DEF lock
<1> QED BY <1>1, <1>2, <1>3, <1>4 DEF EscrowInv, HasEscrows

\* A settlement changes the state of the committed escrow and nothing else.
LEMMA SettleKeeps ==
  ASSUME EscrowInv, NEW tx \in Txs, EscrowSettle(tx)
  PROVE  /\ ctx'.escrow \in [Job -> Escrow \cup {None}]
         /\ \A j \in Job : j # tx.job => ctx'.escrow[j] = ctx.escrow[j]
         /\ LET e == db.escrow[tx.job] IN LET f == ctx'.escrow[tx.job] IN
              /\ f # None /\ f.state = "Settled"
              /\ <<f.user, f.amount, f.created_at>> = <<e.user, e.amount, e.created_at>>
<1> DEFINE e == db.escrow[tx.job]
           settled == [e EXCEPT !.state = "Settled"]
<1>1. tx.kind = "EscrowSettle" /\ e # None
  BY DEF EscrowSettle
<1>2. tx.job \in Job
  BY <1>1, BlockAssumption DEF TxOfKind, StakeOps
<1>3. e \in Escrow
  BY <1>1, <1>2 DEF EscrowInv, HasEscrows
<1>4. /\ settled \in Escrow
      /\ settled.state = "Settled"
      /\ <<settled.user, settled.amount, settled.created_at>> = <<e.user, e.amount, e.created_at>>
  BY <1>3 DEF Escrow
<1>5. settled # None
  BY <1>4, AbsentAssumption
<1>6. ctx'.escrow = [ctx.escrow EXCEPT ![tx.job] = settled]
  BY DEF EscrowSettle, EscrowInv, HasEscrows, IsTables, Tables
<1> HIDE DEF settled
<1> QED BY <1>2, <1>4, <1>5, <1>6 DEF EscrowInv, HasEscrows

\* Every step keeps the open block's escrows those of the state, locked or moved on.
LEMMA EscrowStep == EscrowInv /\ [Next]_vars => EscrowInv'
<1> SUFFICES ASSUME EscrowInv, [Next]_vars PROVE EscrowInv'
  OBVIOUS
<1> USE DEF HasEscrows
<1>1. ASSUME NEW tx \in Txs, ApplyTx(tx) PROVE EscrowInv'
  <2>1. db' = db /\ Handle(tx)
    BY <1>1 DEF ApplyTx
  <2>2. IsTables(ctx')
    BY <2>1, Writers DEF EscrowInv
  <2>3. CASE ctx'.escrow = ctx.escrow
    BY <2>1, <2>2, <2>3 DEF EscrowInv, EscrowsExtend
  <2>4. CASE EscrowLock(tx)
    BY <2>1, <2>2, <2>4, LockKeeps DEF EscrowInv, EscrowsExtend
  <2>5. CASE EscrowSettle(tx)
    BY <2>1, <2>2, <2>5, SettleKeeps DEF EscrowInv, EscrowsExtend
  <2> QED BY <2>1, <2>3, <2>4, <2>5, Writers DEF EscrowInv
<1>2. ASSUME NEW header \in Headers, Commit(header) \/ RootMismatch(header) PROVE EscrowInv'
  BY <1>2, CommitOrDrop DEF EscrowInv, EscrowsExtend
<1>3. CASE UNCHANGED vars
  BY <1>3 DEF vars, EscrowInv, EscrowsExtend
<1> QED BY <1>1, <1>2, <1>3 DEF Next

\* An escrow is committed once for a job: apply_escrow_lock refuses a job with
\* a committed escrow, settled ones included, and apply_escrow_settle only
\* moves its state, so no later block replaces it or locks it again.
THEOREM EscrowCommittedOnce == Spec => EscrowOnce
<1>1. ASSUME EscrowInv, [Next]_vars
      PROVE  [\A j \in Job : LET e == db.escrow[j] IN LET f == db'.escrow[j] IN
                e # None => /\ f # None
                            /\ <<f.user, f.amount, f.created_at>> = <<e.user, e.amount, e.created_at>>
                            /\ e.state = "Settled" => f.state = "Settled"]_vars
  <2>1. db' = db \/ db'.escrow = ctx.escrow
    BY <1>1, CommitOrDrop DEF Next, ApplyTx, vars, EscrowInv, HasEscrows
  <2> QED BY <1>1, <2>1 DEF EscrowInv, EscrowsExtend
<1> QED BY <1>1, EscrowInit, EscrowStep, PTL DEF Spec, EscrowOnce

-----------------------------------------------------------------------------
(* The open block against the committed state *)

\* A position falls only by its holder's hand.
DelegationsHeld ==
  \A k \in StakeKey :
    k[3] # None /\ ctx.stake[k].amount < db.stake[k].amount =>
      \E i \in DOMAIN block : block[i].kind \in {"Withdraw", "Redelegate"} /\ block[i].sender = k[3]

\* A mark of the committed table is not lost, and no job it marks is queued
\* for tokens again.
RewardsOnce ==
  /\ db.seen \subseteq ctx.seen
  /\ \A j \in db.seen : db.pending[j] = None /\ ctx.pending[j] # None => ctx.pending[j].tokens = 0

\* A proposal's number is below the counter, and its entry is left alone.

ProposalsStay ==
  /\ Numbered(db) /\ Numbered(ctx)
  /\ ctx.next_proposal_id \in {db.next_proposal_id, db.next_proposal_id + 1}
  /\ \A i \in ProposalId : db.proposal[i] # None => ctx.proposal[i] = db.proposal[i]

OpenInv == DelegationsHeld /\ RewardsOnce /\ ProposalsStay /\ ctx.validator = db.validator

\* Who writes stakes, rewards, marks, proposals and validators.
LEMMA TableWriters ==
  ASSUME ctx \in State, NEW tx, Handle(tx)
  PROVE  /\ ctx'.stake = ctx.stake \/ Deposit(tx) \/ Withdraw(tx) \/ Redelegate(tx)
         /\ ctx'.seen = ctx.seen \/ ReceiptBatch(tx)
         /\ ctx'.pending = ctx.pending \/ ReceiptBatch(tx) \/ EscrowSettle(tx)
         /\ (ctx'.proposal = ctx.proposal /\ ctx'.next_proposal_id = ctx.next_proposal_id)
            \/ GovProposal(tx)
         /\ ctx'.validator = ctx.validator
<1> USE StateOfTables
<1>1. CASE Transfer(tx)
  BY <1>1 DEF Transfer
<1>2. CASE EscrowLock(tx)
  BY <1>2 DEF EscrowLock
<1>3. CASE EscrowSettle(tx)
  BY <1>3 DEF EscrowSettle
<1>4. CASE RewardMint(tx)
  BY <1>4 DEF RewardMint
<1>5. CASE ReceiptBatch(tx)
  BY <1>5 DEF ReceiptBatch
<1>6. CASE Dispute(tx)
  BY <1>6 DEF Dispute
<1>7. CASE Deposit(tx)
  BY <1>7 DEF Deposit
<1>8. CASE Withdraw(tx)
  BY <1>8 DEF Withdraw
<1>9. CASE Complete(tx)
  BY <1>9 DEF Complete
<1>10. CASE Redelegate(tx)
  BY <1>10 DEF Redelegate
<1>11. CASE GovProposal(tx)
  BY <1>11 DEF GovProposal
<1>12. CASE GovVote(tx)
  BY <1>12 DEF GovVote
<1>13. CASE RegisterModel(tx)
  BY <1>13 DEF RegisterModel
<1>14. CASE RegisterTee(tx)
  BY <1>14 DEF RegisterTee
<1>15. CASE RegisterGateway(tx)
  BY <1>15 DEF RegisterGateway
<1>16. CASE UnregisterGateway(tx)
  BY <1>16 DEF UnregisterGateway
<1> QED
  BY <1>1, <1>2, <1>3, <1>4, <1>5, <1>6, <1>7, <1>8, <1>9, <1>10, <1>11, <1>12, <1>13, <1>14,
     <1>15, <1>16 DEF Handle

\* A sender acts on its own delegation or on self-stake.
LEMMA PositionOwner ==
  ASSUME NEW node, NEW role, NEW sender, NEW key \in Position(node, role, sender)
  PROVE  /\ key \in {<<node, role, sender>>, <<node, role, None>>}
         /\ GetStake(key).amount > 0
BY DEF Position

\* A delegation shrinks in the block only by its delegator's transaction.
LEMMA StakeWrites ==
  ASSUME db \in State, ctx \in State, NEW tx \in Txs, Handle(tx), NEW k \in StakeKey, k[3] # None,
         ctx'.stake[k].amount < ctx.stake[k].amount
  PROVE  tx.kind \in {"Withdraw", "Redelegate"} /\ tx.sender = k[3]
<1>1. ctx.stake \in StakeTable /\ db.height \in Nat
  BY StateOfTables
<1>2. \A q \in StakeKey : ctx.stake[q] \in StakeEntry /\ ctx.stake[q].amount \in Nat
  BY <1>1 DEF StakeTable, StakeEntry
<1>3. CASE Deposit(tx)
  <2> DEFINE key == <<tx.node, tx.role, tx.delegator>>
             entry == Topped(GetStake(key), tx.amount)
  <2>1. /\ tx.node \in Node /\ tx.role \in Role /\ tx.amount \in Nat
        /\ tx.delegator \in Addr \cup {None}
    BY <1>3, BlockAssumption DEF Deposit, TxOfKind, StakeOps, StakeOp
  <2>2. key \in StakeKey
    BY <2>1 DEF StakeKey
  <2>3. ctx'.stake = SetStake(ctx.stake, key, entry)
    BY <1>3, StateOfTables DEF Deposit
  <2> HIDE DEF key
  <2>4. entry.amount = ctx.stake[key].amount + tx.amount
    BY DEF Topped, GetStake
  <2> HIDE DEF entry
  <2>5. ctx'.stake[k] = IF k = key THEN (IF entry.amount = 0 THEN [amount |-> 0, bonded_at |-> 0] ELSE entry)
                        ELSE ctx.stake[k]
    BY <1>1, <2>2, <2>3 DEF SetStake, StakeTable
  <2>6. k # key
    BY <1>2, <2>1, <2>2, <2>4, <2>5
  <2> QED BY <1>2, <2>5, <2>6
<1>4. CASE Withdraw(tx)
  <2>1. PICK key \in Position(tx.node, tx.role, tx.sender) :
          ctx'.stake = SetStake(ctx.stake, key, Without(GetStake(key), tx.amount))
    BY <1>4, StateOfTables DEF Withdraw
  <2>2. /\ tx.kind = "Withdraw"
        /\ key \in {<<tx.node, tx.role, tx.sender>>, <<tx.node, tx.role, None>>}
    BY <1>4, PositionOwner DEF Withdraw
  <2>3. k = key
    BY <1>1, <1>2, <2>1 DEF SetStake, StakeTable
  <2> QED BY <2>2, <2>3
<1>5. CASE Redelegate(tx)
  <2>1. /\ tx.kind = "Redelegate" /\ tx.from # tx.to
        /\ tx.amount \in Nat /\ tx.to \in Node /\ tx.role \in Role /\ tx.sender \in Addr
    BY <1>5, BlockAssumption DEF Redelegate, TxOfKind, StakeOps, StakeOp
  <2>2. PICK key \in Position(tx.from, tx.role, tx.sender) :
          ctx'.stake = SetStake(SetStake(ctx.stake, key, Without(GetStake(key), tx.amount)),
                                <<tx.to, tx.role, key[3]>>,
                                Topped(GetStake(<<tx.to, tx.role, key[3]>>), tx.amount))
    BY <1>5, StateOfTables DEF Redelegate
  <2>3. key \in {<<tx.from, tx.role, tx.sender>>, <<tx.from, tx.role, None>>}
    BY PositionOwner
  <2> DEFINE dst == <<tx.to, tx.role, key[3]>>
             mid == SetStake(ctx.stake, key, Without(GetStake(key), tx.amount))
             entry == Topped(GetStake(dst), tx.amount)
  <2>4. dst \in StakeKey
    BY <2>1, <2>3 DEF StakeKey
  <2>5. \A q \in StakeKey : q # key => mid[q] = ctx.stake[q]
    BY <1>1 DEF SetStake, StakeTable
  <2>6. \A q \in StakeKey : ctx'.stake[q] = IF q = dst THEN (IF entry.amount = 0 THEN [amount |-> 0, bonded_at |-> 0] ELSE entry)
                                            ELSE mid[q]
    BY <1>1, <2>2 DEF SetStake, StakeTable
  <2>7. entry.amount = ctx.stake[dst].amount + tx.amount
    BY DEF Topped, GetStake
  <2> HIDE DEF mid, entry, dst
  <2>8. k # dst
    BY <1>2, <2>1, <2>4, <2>6, <2>7
  <2>9. k = key
    BY <1>2, <2>5, <2>6, <2>8
  <2> QED BY <2>1, <2>3, <2>9
<1>6. CASE ctx'.stake = ctx.stake
  BY <1>2, <1>6
<1> QED BY <1>3, <1>4, <1>5, <1>6, TableWriters

\* A batch queues tokens only for jobs it is the first to mark.
LEMMA RewardWrites ==
  ASSUME db \in State, ctx \in State, RewardsOnce, NEW tx \in Txs, Handle(tx), db' = db
  PROVE  RewardsOnce'
<1>1. ctx.pending \in PendingTable /\ db.seen \in SUBSET Job /\ ctx.seen \in SUBSET Job
  BY StateOfTables
<1>2. CASE ReceiptBatch(tx)
  <2> DEFINE marked == Marked(tx.receipts)
  <2>1. tx.receipts \in Seq(Receipt)
    BY <1>2, BlockAssumption DEF ReceiptBatch, TxOfKind, StakeOps
  <2>2. /\ ctx'.seen = ctx.seen \cup JobsOf(marked)
        /\ ctx'.pending = IF marked = tx.receipts /\ Bootstrapping THEN Queue(ctx.pending, marked)
                          ELSE ctx.pending
    BY <1>2, StateOfTables DEF ReceiptBatch
  <2>3. \A j \in JobsOf(marked) : j \notin ctx.seen
    <3> SUFFICES ASSUME NEW j \in JobsOf(marked) PROVE j \notin ctx.seen
      OBVIOUS
    <3>1. PICK n \in 0..Len(tx.receipts) : /\ marked = SubSeq(tx.receipts, 1, n)
                                           /\ Anchorable(tx.receipts, n)
      BY <2>1, MarkedRun
    <3>2. DOMAIN marked = 1..n /\ \A i \in 1..n : marked[i] = tx.receipts[i]
      BY <2>1, <3>1
    <3>3. PICK i \in DOMAIN marked : marked[i].job = j
      BY DEF JobsOf
    <3> HIDE DEF marked
    <3> QED BY <3>1, <3>2, <3>3 DEF Anchorable
  <2> HIDE DEF marked
  <2>4. \A j \in Job : j \notin JobsOf(marked) => ctx'.pending[j] = ctx.pending[j]
    BY <2>2 DEF Queue
  <2> QED BY <1>1, <2>2, <2>3, <2>4 DEF RewardsOnce
<1>3. CASE EscrowSettle(tx)
  <2>1. ctx'.seen = ctx.seen
    BY <1>3, StateOfTables DEF EscrowSettle
  <2> DEFINE reward == [tokens |-> 0, epoch |-> Epoch(db.height), compute |-> tx.compute,
                        verifier |-> tx.verifier, treasury |-> tx.treasury, tee |-> 2]
  <2>2. ctx'.pending = [ctx.pending EXCEPT ![tx.job] = reward]
    BY <1>3, StateOfTables DEF EscrowSettle
  <2>3. \A j \in Job : ctx'.pending[j] \in {ctx.pending[j], reward}
    BY <1>1, <2>2 DEF PendingTable
  <2>4. reward.tokens = 0
    OBVIOUS
  <2> HIDE DEF reward
  <2> QED BY <1>1, <2>1, <2>3, <2>4 DEF RewardsOnce
<1>4. CASE ctx'.seen = ctx.seen /\ ctx'.pending = ctx.pending
  BY <1>4 DEF RewardsOnce
<1> QED BY <1>2, <1>3, <1>4, TableWriters DEF ReceiptBatch, EscrowSettle

\* A new proposal takes the next number.
LEMMA ProposalWrites ==
  ASSUME db \in State, ctx \in State, ProposalsStay, NEW tx \in Txs, Handle(tx), db' = db
  PROVE  ProposalsStay'
<1>1. /\ ctx.proposal \in ProposalTable
      /\ db.next_proposal_id \in Nat /\ ctx.next_proposal_id \in Nat
  BY StateOfTables
<1>2. CASE GovProposal(tx)
  <2> DEFINE id == db.next_proposal_id
             entry == [proposer |-> tx.proposer, deposit |-> tx.deposit,
                       discussion_ends |-> tx.discussion_ends, voting_ends |-> tx.voting_ends,
                       phase |-> "Discussion", submitted_at |-> db.height]
  <2>1. /\ ctx'.proposal = [ctx.proposal EXCEPT ![id] = entry]
        /\ ctx'.next_proposal_id = id + 1
    BY <1>2, StateOfTables DEF GovProposal, NextProposalId
  <2>2. \A i \in ProposalId : i # id => ctx'.proposal[i] = ctx.proposal[i]
    BY <1>1, <2>1 DEF ProposalTable
  <2>3. ProposalId \subseteq Nat
    BY StateAssumption DEF ProposalId
  <2> HIDE DEF entry
  <2>4. Numbered(ctx)'
    <3> SUFFICES ASSUME NEW i \in ProposalId, ctx'.proposal[i] # None
                 PROVE  i < ctx'.next_proposal_id
      BY DEF Numbered
    <3>1. CASE i = id
      BY <1>1, <2>1, <3>1
    <3>2. CASE i # id
      <4>1. i \in Nat /\ db.next_proposal_id = id
        BY <2>3
      <4>2. GovProposal(tx)
        BY <1>2
      <4> QED BY <1>1, <2>1, <2>2, <3>2, <4>1 DEF ProposalsStay, Numbered
    <3> QED BY <3>1, <3>2
  <2>5. \A i \in ProposalId : db.proposal[i] # None => ctx'.proposal[i] = db.proposal[i]
    BY <1>1, <2>2, <2>3 DEF ProposalsStay, Numbered
  <2>6. Numbered(db)' /\ ctx'.next_proposal_id = db'.next_proposal_id + 1
    BY <1>1, <2>1 DEF ProposalsStay, Numbered
  <2> QED BY <2>4, <2>5, <2>6 DEF ProposalsStay
<1>3. CASE ctx'.proposal = ctx.proposal /\ ctx'.next_proposal_id = ctx.next_proposal_id
  BY <1>3 DEF ProposalsStay, Numbered
<1> QED BY <1>2, <1>3, TableWriters

\* The open block over a state whose proposals are numbered, nothing applied yet.
LEMMA FreshOpen ==
  ASSUME NEW s \in State, Numbered(s), db' = s, ctx' = s, block' = <<>>
  PROVE  OpenInv'
<1>1. s.stake \in StakeTable /\ s.next_proposal_id \in Nat
  BY StateOfTables
<1>2. DelegationsHeld'
  BY <1>1 DEF DelegationsHeld, StakeTable, StakeEntry
<1>3. RewardsOnce' /\ ProposalsStay'
  BY <1>1 DEF RewardsOnce, ProposalsStay, Numbered
<1> QED BY <1>2, <1>3 DEF OpenInv

\* A transaction keeps what the open block promises of delegations, rewards and
\* proposals, and leaves the validators to the commit.
LEMMA OpenApplied ==
  ASSUME BlockInv, OpenInv, NEW tx \in Txs, ApplyTx(tx)
  PROVE  OpenInv'
<1>1. /\ db \in State /\ ctx \in State /\ block \in Seq(Txs)
      /\ Handle(tx) /\ db' = db /\ block' = Append(block, tx)
  BY DEF BlockInv, Typed, ApplyTx
<1>2. ctx' \in State
  BY <1>1, HandlerKeeps DEF Keeps
<1>3. DelegationsHeld'
  <2> SUFFICES ASSUME NEW k \in StakeKey, k[3] # None, ctx'.stake[k].amount < db.stake[k].amount
               PROVE  \E i \in DOMAIN block' : /\ block'[i].kind \in {"Withdraw", "Redelegate"}
                                               /\ block'[i].sender = k[3]
    BY <1>1 DEF DelegationsHeld
  <2>1. /\ ctx.stake[k].amount \in Nat /\ ctx'.stake[k].amount \in Nat /\ db.stake[k].amount \in Nat
    BY <1>1, <1>2, StateOfTables DEF StakeTable, StakeEntry
  <2>2. CASE ctx.stake[k].amount < db.stake[k].amount
    <3>1. PICK i \in DOMAIN block : /\ block[i].kind \in {"Withdraw", "Redelegate"}
                                    /\ block[i].sender = k[3]
      BY <2>2 DEF OpenInv, DelegationsHeld
    <3>2. i \in DOMAIN block' /\ block'[i] = block[i]
      BY <1>1
    <3> QED BY <3>1, <3>2
  <2>3. CASE ctx'.stake[k].amount < ctx.stake[k].amount
    <3>1. tx.kind \in {"Withdraw", "Redelegate"} /\ tx.sender = k[3]
      BY <1>1, <2>3, StakeWrites
    <3>2. Len(block) + 1 \in DOMAIN block' /\ block'[Len(block) + 1] = tx
      BY <1>1
    <3> QED BY <3>1, <3>2
  <2> QED BY <2>1, <2>2, <2>3
<1>4. RewardsOnce' /\ ProposalsStay'
  BY <1>1, RewardWrites, ProposalWrites DEF OpenInv
<1>5. ctx'.validator = db'.validator
  BY <1>1, TableWriters DEF OpenInv
<1> QED BY <1>3, <1>4, <1>5 DEF OpenInv

\* A commit numbers no proposal.
LEMMA CommittedNumbered ==
  ASSUME BlockInv, OpenInv, NEW header \in Headers
  PROVE  Numbered(Committed(header))
<1> DEFINE new == Committed(header)
<1>1. Typed
  BY DEF BlockInv
<1>2. /\ \A i \in ProposalId : \/ new.proposal[i] = ctx.proposal[i]
                               \/ i \in Proposals /\ Moved(db.proposal[i], new.proposal[i])
      /\ new.next_proposal_id = ctx.next_proposal_id
  BY <1>1, CommittedTables
<1> HIDE DEF new
<1>3. \A i \in ProposalId : new.proposal[i] # None => ctx.proposal[i] # None
  BY <1>2 DEF OpenInv, ProposalsStay, Proposals
<1>4. Numbered(new)
  BY <1>2, <1>3 DEF OpenInv, ProposalsStay, Numbered
<1> QED BY <1>4 DEF new

OpenBlockInv == BlockInv /\ OpenInv

\* A node begins with the state it holds, and nothing in the open block.
LEMMA OpenInit == Init => OpenBlockInv
<1> SUFFICES ASSUME Init PROVE OpenBlockInv
  OBVIOUS
<1>1. BlockInv
  BY BlockInit
<1>2. Start \in State /\ Numbered(Start) /\ db = Start /\ ctx = Start /\ block = <<>>
  BY BlockAssumption, StartAssumption DEF Init
<1>3. Start.stake \in StakeTable /\ Start.next_proposal_id \in Nat
  BY <1>2, StateOfTables
<1>4. DelegationsHeld
  BY <1>2, <1>3 DEF DelegationsHeld, StakeTable, StakeEntry
<1>5. RewardsOnce /\ ProposalsStay
  BY <1>2, <1>3 DEF RewardsOnce, ProposalsStay, Numbered
<1> QED BY <1>1, <1>2, <1>4, <1>5 DEF OpenBlockInv, OpenInv

\* Every step keeps these promises, a commit by starting a block of its own.
LEMMA OpenStep == OpenBlockInv /\ [Next]_vars => OpenBlockInv'
<1> SUFFICES ASSUME OpenBlockInv, [Next]_vars PROVE OpenInv'
  BY BlockStep DEF OpenBlockInv
<1>1. ASSUME NEW tx \in Txs, ApplyTx(tx) PROVE OpenInv'
  BY <1>1, OpenApplied DEF OpenBlockInv
<1>2. ASSUME NEW header \in Headers, Commit(header) PROVE OpenInv'
  <2> DEFINE new == Committed(header)
  <2>1. db' = new /\ ctx' = new /\ block' = <<>>
    BY <1>2 DEF Commit
  <2>2. new \in State /\ Numbered(new)
    BY CommittedSound, CommittedNumbered DEF OpenBlockInv
  <2> HIDE DEF new
  <2> QED BY <2>1, <2>2, FreshOpen
<1>3. ASSUME NEW header \in Headers, RootMismatch(header) PROVE OpenInv'
  <2>1. db' = db /\ ctx' = db /\ block' = <<>>
    BY <1>3 DEF RootMismatch
  <2>2. db \in State /\ Numbered(db)
    BY DEF OpenBlockInv, BlockInv, Typed, OpenInv, ProposalsStay
  <2> QED BY <2>1, <2>2, FreshOpen
<1>4. CASE UNCHANGED vars
  <2>1. db' = db /\ ctx' = ctx /\ block' = block
    BY <1>4 DEF vars
  <2> QED BY <2>1 DEF OpenBlockInv, OpenInv, DelegationsHeld, RewardsOnce, ProposalsStay, Numbered
<1> QED BY <1>1, <1>2, <1>3, <1>4 DEF Next

-----------------------------------------------------------------------------
(* What a commit may do to the committed state *)

\* The committed state changes by a commit only.
LEMMA OnlyCommits ==
  ASSUME [Next]_vars
  PROVE  db' = db \/ \E header \in Headers : db' = Committed(header)
<1>1. ASSUME NEW header \in Headers, Commit(header) PROVE db' = Committed(header)
  BY <1>1 DEF Commit
<1>2. ASSUME NEW tx, ApplyTx(tx) PROVE db' = db
  BY <1>2 DEF ApplyTx
<1>3. ASSUME NEW header \in Headers, RootMismatch(header) PROVE db' = db
  BY <1>3 DEF RootMismatch
<1>4. CASE UNCHANGED vars
  BY <1>4 DEF vars
<1> QED BY <1>1, <1>2, <1>3, <1>4 DEF Next

\* A position that falls does so under its holder's transaction or a slash.
LEMMA OwnedStep ==
  ASSUME OpenBlockInv, NEW header \in Headers, db' = Committed(header)
  PROVE  DelegationOwned
<1>1. Typed
  BY DEF OpenBlockInv, BlockInv
<1>2. db'.stake = SlashedStake(ctx.stake)
  BY <1>1, CommittedTables
<1> SUFFICES ASSUME NEW k \in StakeKey, k[3] # None, db'.stake[k].amount < db.stake[k].amount,
                    k[1] \notin Disputed
             PROVE  \E i \in DOMAIN block :
                      block[i].kind \in {"Withdraw", "Redelegate"} /\ block[i].sender = k[3]
  BY DEF DelegationOwned
<1>3. k \notin SlashedKeys
  BY DEF SlashedKeys, StakesOf
<1>4. db'.stake[k] = ctx.stake[k]
  BY <1>2, <1>3 DEF SlashedStake
<1> QED BY <1>4 DEF OpenBlockInv, OpenInv, DelegationsHeld

\* An entry leaves after its period, and before it only a slash changes it.
LEMMA WaitsStep ==
  ASSUME OpenBlockInv, NEW header \in Headers, db' = Committed(header)
  PROVE  UnbondingWaits
<1>1. Typed /\ BlockInv
  BY DEF OpenBlockInv, BlockInv
<1>2. db'.unbond = SlashedUnbond(ctx.unbond)
  BY <1>1, CommittedTables
<1>3. /\ \A w \in db'.unbond : \E u \in ctx.unbond :
           /\ w.id = u.id
           /\ w = u \/ (u \in Trimmed /\ w = Slashed(u))
      /\ \A u \in ctx.unbond : \E w \in db'.unbond : w.id = u.id
  BY <1>1, <1>2, SlashKeepsIds
<1>4. \A u \in db.unbond : u.id < db.next_unbond_id
  BY <1>1 DEF BlockInv, UnbondIdsFresh, IdsFresh
<1>5. /\ \A u \in ctx.unbond : u.id < db.next_unbond_id => u \in db.unbond
      /\ \A u \in db.unbond : u \notin ctx.unbond => db.height >= u.completes_at
  BY <1>1 DEF BlockInv, UnbondingsFollow
<1>6. \A t \in Trimmed : t.completes_at > db.height /\ Slashed(t).amount < t.amount
  BY <1>1, TrimmedEntry
<1>7. ASSUME NEW u \in db.unbond, \A w \in db'.unbond : w.id # u.id
      PROVE  db.height >= u.completes_at
  BY <1>3, <1>5, <1>7
<1>8. ASSUME NEW u \in db.unbond, NEW w \in db'.unbond, w.id = u.id, w # u
      PROVE  w.amount < u.amount /\ db.height < u.completes_at
  <2>1. PICK v \in ctx.unbond : w.id = v.id /\ (w = v \/ (v \in Trimmed /\ w = Slashed(v)))
    BY <1>3
  <2>2. v \in db.unbond
    BY <1>4, <1>5, <1>8, <2>1
  <2>3. v = u
    BY <1>1, <1>8, <2>1, <2>2 DEF BlockInv, UnbondIdsFresh, IdsFresh
  <2>4. u \in Unbonding /\ db.height \in Nat
    BY <1>1, StateOfTables DEF Typed
  <2> QED BY <1>6, <1>8, <2>1, <2>3, <2>4 DEF Unbonding
<1> QED BY <1>7, <1>8 DEF UnbondingWaits

\* What a delegator put up is touched by nobody else, and leaves in its time:
\* withdrawals, redelegations and completions name the position they move,
\* and commit_block slashes from the committed entries.
THEOREM StakeAlwaysKept == Spec => StakeKept
<1>1. ASSUME OpenBlockInv, [Next]_vars
      PROVE  [UnbondingWaits /\ DelegationOwned]_vars
  <2>1. CASE db' = db
    <3>1. DelegationOwned
      <4>1. \A k \in StakeKey : db.stake[k].amount \in Nat
        BY <1>1, StateOfTables DEF OpenBlockInv, BlockInv, Typed, StakeTable, StakeEntry
      <4> QED BY <2>1, <4>1 DEF DelegationOwned
    <3>2. UnbondingWaits
      BY <1>1, <2>1 DEF UnbondingWaits, OpenBlockInv, BlockInv, UnbondIdsFresh, IdsFresh
    <3> QED BY <3>1, <3>2
  <2>2. CASE \E header \in Headers : db' = Committed(header)
    BY <1>1, <2>2, OwnedStep, WaitsStep
  <2> QED BY <1>1, <2>1, <2>2, OnlyCommits
<1> QED BY <1>1, OpenInit, OpenStep, PTL DEF Spec, StakeKept

\* A receipt earns block emission once: apply_receipt_batch queues only what
\* it is the first to mark, and a settlement queues no tokens.
THEOREM ReceiptsEarnOnce == Spec => OneRewardPerReceipt
<1>1. ASSUME OpenBlockInv, [Next]_vars
      PROVE  [\A j \in db.seen :
                db.pending[j] = None /\ db'.pending[j] # None => db'.pending[j].tokens = 0]_vars
  <2>1. CASE db' = db
    BY <2>1
  <2>2. CASE \E header \in Headers : db' = Committed(header)
    <3>1. Typed /\ db.seen \subseteq Job
      BY <1>1, StateOfTables DEF OpenBlockInv, BlockInv, Typed
    <3>2. \A j \in Job : db'.pending[j] \in {ctx.pending[j], None}
      BY <2>2, <3>1, CommittedTables
    <3> QED BY <1>1, <3>1, <3>2 DEF OpenBlockInv, OpenInv, RewardsOnce
  <2> QED BY <1>1, <2>1, <2>2, OnlyCommits
<1> QED BY <1>1, OpenInit, OpenStep, PTL DEF Spec, OneRewardPerReceipt

\* A proposal moves only forward: gov_proposal takes a fresh number, and
\* process_governance_proposals moves the committed entry by one phase.
THEOREM ProposalsMoveForward == Spec => ProposalForward
<1>1. ASSUME OpenBlockInv, [Next]_vars
      PROVE  [\A i \in ProposalId : db.proposal[i] # None =>
                /\ db'.proposal[i] # None
                /\ db'.proposal[i].phase \in Following(db.proposal[i].phase)
                /\ [db'.proposal[i] EXCEPT !.phase = db.proposal[i].phase] = db.proposal[i]]_vars
  <2> SUFFICES ASSUME NEW i \in ProposalId, db.proposal[i] # None
               PROVE  /\ db'.proposal[i] # None
                      /\ db'.proposal[i].phase \in Following(db.proposal[i].phase)
                      /\ [db'.proposal[i] EXCEPT !.phase = db.proposal[i].phase] = db.proposal[i]
    OBVIOUS
  <2> DEFINE p == db.proposal[i]
             q == db'.proposal[i]
  <2>1. p \in Proposal /\ None \notin Proposal
    BY <1>1, StateOfTables, AbsentAssumption DEF OpenBlockInv, BlockInv, Typed, ProposalTable
  <2>2. q = p \/ Moved(p, q)
    <3>1. CASE db' = db
      BY <3>1
    <3>2. CASE \E header \in Headers : db' = Committed(header)
      <4>1. Typed
        BY <1>1 DEF OpenBlockInv, BlockInv
      <4>2. q = ctx.proposal[i] \/ Moved(p, q)
        BY <3>2, <4>1, CommittedTables
      <4>3. ctx.proposal[i] = p
        BY <1>1 DEF OpenBlockInv, OpenInv, ProposalsStay
      <4> QED BY <4>2, <4>3
    <3> QED BY <1>1, <3>1, <3>2, OnlyCommits
  <2> HIDE DEF p, q
  <2>3. q # None /\ q.phase \in Following(p.phase) /\ [q EXCEPT !.phase = p.phase] = p
    <3>1. CASE q = p
      BY <2>1, <3>1 DEF Following, Proposal, Phases
    <3>2. ASSUME p.phase = "Discussion", q = [p EXCEPT !.phase = "Voting"]
          PROVE  q # None /\ q.phase \in Following(p.phase) /\ [q EXCEPT !.phase = p.phase] = p
      <4>1. q \in Proposal /\ q.phase = "Voting" /\ [q EXCEPT !.phase = p.phase] = p
        BY <2>1, <3>2 DEF Proposal, Phases
      <4> QED BY <2>1, <3>2, <4>1 DEF Following
    <3>3. ASSUME p.phase = "Voting", NEW outcome \in {"Passed", "Rejected", "RejectedWithVeto"},
                 q = [p EXCEPT !.phase = outcome]
          PROVE  q # None /\ q.phase \in Following(p.phase) /\ [q EXCEPT !.phase = p.phase] = p
      <4>1. q \in Proposal /\ q.phase = outcome /\ [q EXCEPT !.phase = p.phase] = p
        BY <2>1, <3>3 DEF Proposal, Phases
      <4> QED BY <2>1, <3>3, <4>1 DEF Following
    <3> QED BY <2>2, <3>1, <3>2, <3>3 DEF Moved
  <2> QED BY <2>3 DEF p, q
<1> QED BY <1>1, OpenInit, OpenStep, PTL DEF Spec, ProposalForward

-----------------------------------------------------------------------------
(* The validator set *)

\* No stake, no position: the sum over a validator's positions is zero only
\* where each of them is.
LEMMA UnstakedValidator ==
  ASSUME db \in State, NEW n \in Node, ValidatorStake(db, n) = 0
  PROVE  \A k \in StakesOf(n) : k[2] # "Validator"
<1> DEFINE S == {j \in StakeKey : j[1] = n /\ j[2] = "Validator"}
           f == [k \in S |-> db.stake[k].amount]
<1>1. IsFiniteSet(S)
  BY StakeKeyFinite, FS_Subset
<1>2. \A k \in StakeKey : db.stake[k].amount \in Nat
  BY StateOfTables DEF StakeTable, StakeEntry
<1>3. f \in [S -> Nat]
  BY <1>2
<1>4. ValidatorStake(db, n) = SumFunction(f)
  BY DEF ValidatorStake
<1>5. \A k \in S : f[k] = db.stake[k].amount
  OBVIOUS
<1>6. \A k \in StakesOf(n) : k \in StakeKey /\ k[1] = n /\ db.stake[k].amount > 0
  BY DEF StakesOf
<1>7. \A k \in StakesOf(n) : k[2] = "Validator" => k \in S
  BY <1>6
<1> HIDE DEF f, S
<1>8. SumFunctionOnSet(f, S) = 0 /\ \A x \in S : f[x] \in Nat
  BY <1>1, <1>3, <1>4, SumOfNats
<1>9. \A k \in S : f[k] <= 0
  BY <1>1, <1>8, SumNat
<1> QED BY <1>5, <1>6, <1>7, <1>8, <1>9

\* A registered validator with more stake than a ranked one is ranked.
LEMMA StrongerRanked ==
  ASSUME db \in State, NEW staked \in [Node -> Nat], NEW n \in Active(db), NEW m \in Active(db),
         staked[n] > staked[m], m \in Ranked(staked)
  PROVE  n \in Ranked(staked)
<1> DEFINE key(x) == <<0 - staked[x], db.validator[x].operator, x>>
           before(x, y) == \E i \in 1..3 : /\ key(x)[i] < key(y)[i]
                                           /\ \A j \in 1..(i - 1) : key(x)[j] = key(y)[j]
           ahead(y) == {x \in Active(db) : before(x, y)}
<1>1. Active(db) \subseteq Node /\ IsFiniteSet(Active(db))
  BY StateAssumption, FS_Subset DEF Active
<1>2. \A x, y \in Active(db) : staked[x] \in Nat /\ staked[y] \in Nat
  BY <1>1
<1>3. \A x, y \in Active(db) : before(x, y) => staked[y] <= staked[x]
  <2> SUFFICES ASSUME NEW x \in Active(db), NEW y \in Active(db), before(x, y)
               PROVE  staked[y] <= staked[x]
    OBVIOUS
  <2>1. PICK i \in 1..3 : /\ key(x)[i] < key(y)[i]
                          /\ \A j \in 1..(i - 1) : key(x)[j] = key(y)[j]
    OBVIOUS
  <2>2. key(x)[1] = 0 - staked[x] /\ key(y)[1] = 0 - staked[y]
    OBVIOUS
  <2>3. CASE i = 1
    BY <1>2, <2>1, <2>2, <2>3
  <2>4. CASE i # 1
    <3>1. 1 \in 1..(i - 1)
      BY <2>4
    <3> HIDE DEF key
    <3> QED BY <1>2, <2>1, <2>2, <3>1
  <2> QED BY <2>3, <2>4
<1>4. \A x, y \in Active(db) : staked[y] < staked[x] => before(x, y)
  <2> SUFFICES ASSUME NEW x \in Active(db), NEW y \in Active(db), staked[y] < staked[x]
               PROVE  before(x, y)
    OBVIOUS
  <2>1. key(x)[1] < key(y)[1]
    BY <1>2
  <2>2. 1 \in 1..3 /\ \A j \in 1..(1 - 1) : key(x)[j] = key(y)[j]
    OBVIOUS
  <2> HIDE DEF key
  <2> QED BY <2>1, <2>2
<1>5. Ranked(staked) = {x \in Active(db) : Cardinality(ahead(x)) < MaxActive}
  BY DEF Ranked
<1> HIDE DEF before
<1>6. ahead(n) \subseteq ahead(m)
  <2> SUFFICES ASSUME NEW x \in Active(db), before(x, n) PROVE before(x, m)
    OBVIOUS
  <2>1. staked[m] < staked[x]
    BY <1>2, <1>3
  <2> QED BY <1>4, <2>1
<1>7. IsFiniteSet(ahead(m)) /\ IsFiniteSet(ahead(n))
  BY <1>1, FS_Subset
<1> HIDE DEF ahead
<1>8. Cardinality(ahead(n)) <= Cardinality(ahead(m))
  BY <1>6, <1>7, FS_Subset
<1>9. Cardinality(ahead(n)) \in Nat /\ Cardinality(ahead(m)) \in Nat /\ MaxActive \in Nat
  BY <1>7, FS_CardinalityType, SlashAssumption
<1> QED BY <1>5, <1>8, <1>9

\* What a commit does to a validator's record.
LEMMA RotatedRecord ==
  ASSUME OpenBlockInv, NEW header \in Headers, db' = Committed(header), NEW n \in Active(db)
  PROVE  LET staked == [m \in Node |-> ValidatorStake(db, m)]
             ranked == Ranked(staked)
             bootstrap == InBootstrap(db'.height, Cardinality(ranked))
             new == [operator |-> db.validator[n].operator, voting_power |-> Power(staked[n]),
                     jailed |-> FALSE]
         IN \/ ~(Boundary(db'.height) /\ n \in ranked) /\ db'.validator[n] = db.validator[n]
            \/ /\ Boundary(db'.height) /\ n \in ranked
               /\ \/ ~bootstrap /\ staked[n] = 0 /\ db'.validator[n] = None
                  \/ db'.validator[n] = new
<1> DEFINE staked == [m \in Node |-> ValidatorStake(db, m)]
           ranked == Ranked(staked)
           bootstrap == InBootstrap(db'.height, Cardinality(ranked))
           new == [operator |-> db.validator[n].operator, voting_power |-> Power(staked[n]),
                   jailed |-> FALSE]
<1>1. Typed /\ ctx.validator = db.validator
  BY DEF OpenBlockInv, BlockInv, OpenInv
<1>2. /\ db'.height = db.height + 1
      /\ db'.validator = IF Boundary(db'.height) THEN Rotated(ctx.validator, db'.height)
                         ELSE ctx.validator
  BY <1>1, CommittedTables
<1>3. n \in Node /\ staked[n] \in Nat
  <2>1. n \in Node
    BY DEF Active
  <2> QED BY <1>1, <2>1, ValidatorStakeType DEF Typed
<1>4. CASE ~Boundary(db'.height)
  BY <1>1, <1>2, <1>4
<1>5. CASE Boundary(db'.height)
  <2>1. db'.validator[n] = IF n \notin ranked THEN db.validator[n]
                           ELSE IF bootstrap \/ staked[n] > 0 THEN new ELSE None
    BY <1>1, <1>2, <1>3, <1>5, Zenon DEF Rotated
  <2> HIDE DEF staked, ranked, bootstrap, new
  <2>2. \/ n \notin ranked /\ db'.validator[n] = db.validator[n]
        \/ /\ n \in ranked
           /\ (~bootstrap /\ staked[n] = 0 /\ db'.validator[n] = None) \/ db'.validator[n] = new
    BY <1>3, <2>1
  <2> QED BY <1>5, <2>2 DEF staked, ranked, bootstrap, new
<1> QED BY <1>4, <1>5

\* A validator leaves only without stake, after bootstrap.
LEMMA EvictsStep ==
  ASSUME OpenBlockInv, NEW header \in Headers, db' = Committed(header)
  PROVE  EvictsOnlyUnstaked
<1> SUFFICES ASSUME NEW n \in Active(db), db'.validator[n] = None
             PROVE  /\ Boundary(db'.height)
                    /\ ~InBootstrap(db'.height, Cardinality(Active(db)))
                    /\ \A k \in StakesOf(n) : k[2] # "Validator"
  BY DEF EvictsOnlyUnstaked
<1> DEFINE staked == [m \in Node |-> ValidatorStake(db, m)]
           ranked == Ranked(staked)
           new == [operator |-> db.validator[n].operator, voting_power |-> Power(staked[n]),
                   jailed |-> FALSE]
<1>1. db \in State /\ Typed /\ n \in Node /\ db.validator[n] # None
  BY DEF OpenBlockInv, BlockInv, Typed, Active
<1>2. \A m \in Node : ValidatorStake(db, m) \in Nat
  BY <1>1, ValidatorStakeType
<1>3. new # None
  <2>1. db.validator[n] \in Validator
    BY <1>1, StateOfTables DEF ValidatorTable
  <2>2. staked[n] \in Nat
    BY <1>1, <1>2
  <2> HIDE DEF staked
  <2>3. Power(staked[n]) \in Nat
    BY <2>2, SlashAssumption DEF Power
  <2>4. new \in Validator
    BY <2>1, <2>3 DEF Validator
  <2> HIDE DEF new
  <2> QED BY <2>4, AbsentAssumption
<1> HIDE DEF new
<1>4. /\ Boundary(db'.height) /\ n \in ranked /\ staked[n] = 0
      /\ ~InBootstrap(db'.height, Cardinality(ranked))
  BY <1>1, <1>3, RotatedRecord DEF new
<1>5. ValidatorStake(db, n) = 0
  BY <1>1, <1>4
<1> HIDE DEF staked
<1>6. /\ ranked \subseteq Active(db) /\ IsFiniteSet(Active(db))
  BY StateAssumption, FS_Subset DEF Ranked, Active
<1> HIDE DEF ranked
<1>7. /\ Cardinality(ranked) <= Cardinality(Active(db))
      /\ Cardinality(ranked) \in Nat /\ Cardinality(Active(db)) \in Nat
  BY <1>6, FS_Subset, FS_CardinalityType
<1>8. ~InBootstrap(db'.height, Cardinality(Active(db)))
  BY <1>4, <1>7, EpochAssumption DEF InBootstrap
<1> QED BY <1>1, <1>4, <1>5, <1>8, UnstakedValidator

\* Who has more stake than a refreshed validator is refreshed too.
LEMMA RefreshStep ==
  ASSUME OpenBlockInv, NEW header \in Headers, db' = Committed(header)
  PROVE  StrongestRefreshed
<1> DEFINE staked == [x \in Node |-> ValidatorStake(db, x)]
           refreshed(x) == /\ db'.validator[x] # None
                           /\ db'.validator[x].voting_power = Power(ValidatorStake(db, x))
<1> SUFFICES ASSUME NEW n \in Active(db), NEW m \in Active(db),
                    db.validator[m] # db'.validator[m], refreshed(m),
                    ValidatorStake(db, n) > ValidatorStake(db, m)
             PROVE  refreshed(n)
  BY DEF StrongestRefreshed
<1>1. db \in State /\ Typed /\ n \in Node /\ m \in Node /\ db.validator[n] # None
  BY DEF OpenBlockInv, BlockInv, Typed, Active
<1>2. \A x \in Node : ValidatorStake(db, x) \in Nat
  BY <1>1, ValidatorStakeType
<1>3. staked \in [Node -> Nat] /\ staked[n] > staked[m] /\ staked[n] = ValidatorStake(db, n)
  BY <1>1, <1>2
<1>4. Boundary(db'.height) /\ m \in Ranked(staked)
  BY RotatedRecord
<1>5. n \in Ranked(staked)
  BY <1>1, <1>3, <1>4, StrongerRanked
<1> DEFINE new == [operator |-> db.validator[n].operator, voting_power |-> Power(staked[n]),
                   jailed |-> FALSE]
<1>6. staked[n] \in Nat /\ staked[n] # 0
  BY <1>1, <1>2, <1>3
<1>7. db'.validator[n] = new
  BY <1>4, <1>5, <1>6, RotatedRecord
<1>8. new # None
  <2>1. db.validator[n] \in Validator
    BY <1>1, StateOfTables DEF ValidatorTable
  <2> HIDE DEF staked
  <2>2. Power(staked[n]) \in Nat
    BY <1>6, SlashAssumption DEF Power
  <2>3. new \in Validator
    BY <2>1, <2>2 DEF Validator
  <2> HIDE DEF new
  <2> QED BY <2>3, AbsentAssumption
<1>9. new.voting_power = Power(ValidatorStake(db, n))
  BY <1>3
<1> QED BY <1>7, <1>8, <1>9

\* Rotation follows the committed stake: recompute_validator_set ranks by
\* iter_stakes_for_node, which sees no write of the boundary block, and
\* removes only what has no stake behind it.
THEOREM RotationFollows == Spec => RotationFollowsStake
<1>1. ASSUME OpenBlockInv, [Next]_vars
      PROVE  [EvictsOnlyUnstaked /\ StrongestRefreshed]_vars
  <2>1. CASE db' = db
    BY <2>1 DEF EvictsOnlyUnstaked, StrongestRefreshed, Active
  <2>2. CASE \E header \in Headers : db' = Committed(header)
    BY <1>1, <2>2, EvictsStep, RefreshStep
  <2> QED BY <1>1, <2>1, <2>2, OnlyCommits
<1> QED BY <1>1, OpenInit, OpenStep, PTL DEF Spec, RotationFollowsStake

-----------------------------------------------------------------------------
(* The quorum *)

\* Half of the bonded stake stands behind a proposal.
Backed(i, bal) == 2 * SumFunctionOnSet(bal, VotersOn(i)) >= Bonded(db)

\* The stake bonded in a state is an amount.
LEMMA BondedType ==
  ASSUME db \in State
  PROVE  Bonded(db) \in Nat
<1> DEFINE f == [k \in StakeKey |-> db.stake[k].amount]
<1>1. f \in [StakeKey -> Nat]
  BY StateOfTables DEF StakeTable, StakeEntry
<1>2. Bonded(db) = SumFunction(f)
  BY DEF Bonded
<1> HIDE DEF f
<1> QED BY <1>1, <1>2, StakeKeyFinite, SumOfNats

\* The buckets of a tally hold every voter's weight once.
LEMMA TallyTotal ==
  ASSUME db \in State, NEW bal \in BalanceTable, NEW id \in ProposalId
  PROVE  /\ Total(TallyOf(id, bal)) = SumFunctionOnSet(bal, VotersOn(id))
         /\ SumFunctionOnSet(bal, VotersOn(id)) \in Nat
<1> DEFINE of(c) == {a \in VotersOn(id) : GetVote(id, a) = c}
           yes == of("Yes")
           no == of("No")
           abstain == of("Abstain")
           veto == of("NoWithVeto")
           sum(S) == SumFunctionOnSet(bal, S)
<1>1. \A a \in VotersOn(id) : a \in Addr /\ GetVote(id, a) \in Choices4
  BY StateOfTables DEF VotersOn, GetVote, VoteTable
<1>2. /\ VotersOn(id) = ((yes \cup no) \cup abstain) \cup veto
      /\ yes \cap no = {} /\ (yes \cup no) \cap abstain = {}
      /\ ((yes \cup no) \cup abstain) \cap veto = {}
  BY <1>1 DEF Choices4
<1>3. \A S \in SUBSET VotersOn(id) : Sums(bal, S)
  <2> SUFFICES ASSUME NEW S \in SUBSET VotersOn(id) PROVE Sums(bal, S)
    OBVIOUS
  <2>1. S \subseteq Addr
    BY <1>1
  <2>2. IsFiniteSet(S)
    BY <2>1, StateAssumption, FS_Subset
  <2> QED BY <2>1, <2>2 DEF Sums, BalanceTable
<1>4. /\ yes \in SUBSET VotersOn(id) /\ no \in SUBSET VotersOn(id)
      /\ abstain \in SUBSET VotersOn(id) /\ veto \in SUBSET VotersOn(id)
  OBVIOUS
<1>5. TallyOf(id, bal) = [c \in Choices4 |-> sum(of(c))]
  BY DEF TallyOf
<1>6. Total(TallyOf(id, bal)) = sum(yes) + sum(no) + sum(abstain) + sum(veto)
  <2> DEFINE t == [c \in Choices4 |-> sum(of(c))]
  <2>1. t["Yes"] = sum(yes) /\ t["No"] = sum(no) /\ t["Abstain"] = sum(abstain)
        /\ t["NoWithVeto"] = sum(veto)
    BY DEF Choices4
  <2> HIDE DEF t, sum, of
  <2> QED BY <1>5, <2>1 DEF Total, t
<1> HIDE DEF yes, no, abstain, veto
<1>7. sum(yes \cup no) = sum(yes) + sum(no)
  BY <1>2, <1>3, <1>4, SumUnion
<1>8. sum((yes \cup no) \cup abstain) = sum(yes \cup no) + sum(abstain)
  BY <1>2, <1>3, <1>4, SumUnion
<1>9. sum(((yes \cup no) \cup abstain) \cup veto) = sum((yes \cup no) \cup abstain) + sum(veto)
  BY <1>2, <1>3, <1>4, SumUnion
<1>10. sum(VotersOn(id)) \in Nat
  <2>1. VotersOn(id) \subseteq Addr
    BY <1>1
  <2>2. IsFiniteSet(VotersOn(id))
    BY <2>1, StateAssumption, FS_Subset
  <2>3. \A a \in VotersOn(id) : bal[a] \in Nat
    BY <2>1 DEF BalanceTable
  <2> QED BY <2>2, <2>3, SumNat
<1> QED BY <1>2, <1>6, <1>7, <1>8, <1>9, <1>10

\* A proposal passes only with a quorum.
LEMMA PassedBacked ==
  ASSUME db \in State, NEW bal \in BalanceTable, NEW id \in ProposalId,
         Evaluate(TallyOf(id, bal), Bonded(db)) = "Passed"
  PROVE  Backed(id, bal)
<1> DEFINE t == TallyOf(id, bal)
           w == SumFunctionOnSet(bal, VotersOn(id))
           b == Bonded(db)
<1>1. Total(t) = w /\ w \in Nat /\ b \in Nat
  BY TallyTotal, BondedType
<1>2. QuorumMet(t, b)
  BY DEF Evaluate
<1> HIDE DEF t, w, b
<1>3. b > 0 /\ (w * 10000) \div b >= 5000
  BY <1>1, <1>2 DEF QuorumMet, Bps, QuorumBps
<1> DEFINE x == w * 10000
           q == x \div b
<1>4. x \in Nat
  BY <1>1
<1> HIDE DEF x
<1>5. x = b * q + (x % b) /\ x % b >= 0 /\ q \in Int
  BY <1>1, <1>3, <1>4
<1>6. q >= 5000
  BY <1>3 DEF x
<1> HIDE DEF q
<1>7. b * q >= b * 5000
  BY <1>1, <1>3, <1>5, <1>6
<1>8. x % b \in Int
  BY <1>1, <1>3, <1>4
<1>9. x >= b * 5000
  BY <1>1, <1>4, <1>5, <1>7, <1>8
<1>10. 2 * w >= b
  BY <1>1, <1>9 DEF x
<1> QED BY <1>10 DEF Backed, w, b

\* More weight backs a proposal as well.
LEMMA BackedMore ==
  ASSUME db \in State, NEW i \in ProposalId, NEW low \in BalanceTable, NEW high \in BalanceTable,
         \A a \in Addr : low[a] <= high[a], Backed(i, low)
  PROVE  Backed(i, high)
<1>1. VotersOn(i) \subseteq Addr
  BY DEF VotersOn
<1>2. IsFiniteSet(VotersOn(i))
  BY <1>1, StateAssumption, FS_Subset
<1>3. Sums(low, VotersOn(i)) /\ Sums(high, VotersOn(i))
  BY <1>1, <1>2 DEF Sums, BalanceTable
<1>4. SumFunctionOnSet(low, VotersOn(i)) <= SumFunctionOnSet(high, VotersOn(i))
  BY <1>1, <1>3, SumLeq
<1>5. /\ SumFunctionOnSet(low, VotersOn(i)) \in Nat /\ SumFunctionOnSet(high, VotersOn(i)) \in Nat
      /\ Bonded(db) \in Nat
  BY TallyTotal, BondedType
<1> QED BY <1>4, <1>5 DEF Backed

\* A turn takes nothing from a balance, and lets a proposal pass only when it
\* is backed by the balances of the turn.
LEMMA AdvanceBacked ==
  ASSUME Typed, NEW now, NEW bal \in BalanceTable, NEW proposal \in ProposalTable,
         NEW id \in Proposals
  PROVE  LET acc == [bal |-> bal, proposal |-> proposal]
             new == Advance(now, acc, id)
         IN /\ \A a \in Addr : bal[a] <= new.bal[a]
            /\ db.proposal[id].phase = "Voting" /\ new.proposal[id].phase = "Passed" =>
                 new.proposal[id] = proposal[id] \/ Backed(id, bal)
<1> DEFINE acc == [bal |-> bal, proposal |-> proposal]
           p == db.proposal[id]
           outcome == Evaluate(TallyOf(id, bal), Bonded(db))
           refund == IF outcome = "RejectedWithVeto" THEN 0 ELSE p.deposit
           paid == [bal EXCEPT ![p.proposer] = @ + refund]
           new == Advance(now, acc, id)
<1>1. id \in ProposalId /\ p \in Proposal /\ db \in State
  BY StateOfTables DEF Typed, Proposals, ProposalTable
<1>2. p.deposit \in Nat /\ p.proposer \in Addr
  BY <1>1 DEF Proposal
<1>3. acc.bal = bal /\ acc.proposal = proposal
  OBVIOUS
<1>4. \/ new = acc
      \/ p.phase = "Discussion" /\ new = [acc EXCEPT !.proposal[id] = [p EXCEPT !.phase = "Voting"]]
      \/ new = [bal |-> paid, proposal |-> [proposal EXCEPT ![id] = [p EXCEPT !.phase = outcome]]]
  BY DEF Advance, VotingOver, GetProposal
<1>5. refund \in Nat
  BY <1>2
<1> HIDE DEF outcome, refund
<1>6. \A a \in Addr : bal[a] <= bal[a] /\ bal[a] <= paid[a]
  BY <1>2, <1>5 DEF BalanceTable
<1> HIDE DEF paid, new
<1>7. CASE new = acc
  BY <1>3, <1>6, <1>7 DEF new
<1>8. CASE p.phase = "Discussion" /\ new = [acc EXCEPT !.proposal[id] = [p EXCEPT !.phase = "Voting"]]
  <2>1. new.bal = bal
    BY <1>8
  <2> QED BY <1>6, <1>8, <2>1 DEF new
<1>9. CASE new = [bal |-> paid, proposal |-> [proposal EXCEPT ![id] = [p EXCEPT !.phase = outcome]]]
  <2> DEFINE q == [p EXCEPT !.phase = outcome]
  <2>1. q.phase = outcome
    BY <1>1 DEF Proposal
  <2>2. new.bal = paid /\ new.proposal[id] = q
    <3>1. \A x : [proposal EXCEPT ![id] = x][id] = x
      BY <1>1 DEF ProposalTable
    <3>2. new = [bal |-> paid, proposal |-> [proposal EXCEPT ![id] = q]]
      BY <1>9
    <3> HIDE DEF q
    <3> QED BY <3>1, <3>2
  <2>3. outcome = "Passed" => Backed(id, bal)
    BY <1>1, PassedBacked DEF outcome
  <2> HIDE DEF q
  <2> QED BY <1>6, <2>1, <2>2, <2>3 DEF new
<1> QED BY <1>4, <1>7, <1>8, <1>9

\* After all turns a proposal that passed is backed by the balances they leave.
LEMMA GovernedBacked ==
  ASSUME Typed, NEW now, NEW bal \in BalanceTable, NEW proposal \in ProposalTable,
         \A i \in Proposals : proposal[i] = db.proposal[i]
  PROVE  LET g == Governed(bal, proposal, now)
         IN \A i \in Proposals :
              db.proposal[i].phase = "Voting" /\ g.proposal[i].phase = "Passed" => Backed(i, g.bal)
<1> DEFINE OK(acc) == \A i \in Proposals :
                        db.proposal[i].phase = "Voting" /\ acc.proposal[i].phase = "Passed" =>
                          Backed(i, acc.bal)
           V == {acc \in [bal : BalanceTable, proposal : ProposalTable] : OK(acc)}
           base == [bal |-> bal, proposal |-> proposal]
<1>1. base \in V
  <2>1. base \in [bal : BalanceTable, proposal : ProposalTable] /\ base.proposal = proposal
    OBVIOUS
  <2> HIDE DEF base
  <2>2. OK(base)
    BY <2>1
  <2> QED BY <2>1, <2>2
<1>2. ASSUME NEW acc \in V, NEW id \in Proposals PROVE Advance(now, acc, id) \in V
  <2> DEFINE new == Advance(now, acc, id)
  <2>1. /\ acc.bal \in BalanceTable /\ acc.proposal \in ProposalTable
        /\ acc = [bal |-> acc.bal, proposal |-> acc.proposal]
    OBVIOUS
  <2>2. OK(acc)
    OBVIOUS
  <2>3. /\ new.bal \in BalanceTable /\ new.proposal \in ProposalTable
        /\ new = [bal |-> new.bal, proposal |-> new.proposal]
        /\ \A i \in ProposalId : i # id => new.proposal[i] = acc.proposal[i]
        /\ new.proposal[id] = acc.proposal[id] \/ Moved(db.proposal[id], new.proposal[id])
    <3> HIDE DEF V, OK, base
    <3> QED BY <2>1, AdvanceType DEF Moved
  <2>4. /\ \A a \in Addr : acc.bal[a] <= new.bal[a]
        /\ db.proposal[id].phase = "Voting" /\ new.proposal[id].phase = "Passed" =>
             new.proposal[id] = acc.proposal[id] \/ Backed(id, acc.bal)
    BY <2>1, AdvanceBacked
  <2> HIDE DEF new
  <2>5. db \in State /\ \A i \in Proposals : i \in ProposalId
    BY DEF Typed, Proposals
  <2>6. \A i \in ProposalId : Backed(i, acc.bal) => Backed(i, new.bal)
    BY <2>1, <2>3, <2>4, <2>5, BackedMore
  <2>7. OK(new)
    BY <2>2, <2>3, <2>4, <2>5, <2>6
  <2> HIDE DEF OK
  <2>8. new \in V
    BY <2>3, <2>7
  <2> QED BY <2>8 DEF new
<1> HIDE DEF V
<1>3. Governed(bal, proposal, now) \in V
  BY <1>1, <1>2, GovernedIn
<1> QED BY <1>3 DEF V

\* The balances and proposals a commit leaves are those of the turns, at a
\* boundary.
LEMMA CommittedBacked ==
  ASSUME OpenBlockInv, NEW header \in Headers
  PROVE  LET new == Committed(header)
         IN \A i \in Proposals :
              db.proposal[i].phase = "Voting" /\ new.proposal[i].phase = "Passed" =>
                Backed(i, Balances(new))
<1> DEFINE height == db.height + 1
           boundary == Boundary(height)
           slashed == SlashPaid(Balances(ctx))
           minted == IF boundary THEN MintPaid(slashed, Epoch(height) - 1) ELSE slashed
           turned == Governed(minted, ctx.proposal, header.timestamp_ms)
           governed == IF boundary THEN turned ELSE [bal |-> minted, proposal |-> ctx.proposal]
           acct == WithBalances(ctx.acct, governed.bal)
           stake == SlashedStake(ctx.stake)
           unbond == SlashedUnbond(ctx.unbond)
           validator == IF boundary THEN Rotated(ctx.validator, height) ELSE ctx.validator
           pending == IF boundary THEN Unpaid(ctx.pending, Epoch(height) - 1) ELSE ctx.pending
           proposal == governed.proposal
           base_fee == NextBaseFee(header.base_fee, gas, TargetGas)
           new == Committed(header)
<1>1. new = [ctx EXCEPT !.acct = acct, !.stake = stake, !.unbond = unbond,
                        !.validator = validator, !.pending = pending,
                        !.proposal = proposal, !.height = height, !.base_fee = base_fee]
  BY Zenon DEF Committed
<1>2. /\ Typed /\ ctx \in State /\ ctx.acct \in AcctTable /\ ctx.proposal \in ProposalTable
      /\ \A i \in Proposals : ctx.proposal[i] = db.proposal[i]
  BY StateOfTables DEF OpenBlockInv, BlockInv, Typed, OpenInv, ProposalsStay, Proposals
<1>3. minted \in BalanceTable
  <2>1. Balances(ctx) \in BalanceTable
    BY <1>2 DEF Balances, BalanceTable, AcctTable, Account
  <2>2. slashed \in BalanceTable
    BY <1>2, <2>1, SlashPaidType
  <2> HIDE DEF slashed
  <2> QED BY <1>2, <2>2, MintPaidType
<1> HIDE DEF minted, boundary
<1>4. \A i \in Proposals : db.proposal[i].phase = "Voting" /\ turned.proposal[i].phase = "Passed" =>
                             Backed(i, turned.bal)
  BY <1>2, <1>3, GovernedBacked
<1>5. turned.bal \in BalanceTable
  BY <1>2, <1>3, GovernedMoves
<1> HIDE DEF turned
<1>6. /\ governed.bal \in BalanceTable
      /\ \A i \in Proposals : db.proposal[i].phase = "Voting" /\ proposal[i].phase = "Passed" =>
                                Backed(i, governed.bal)
  BY <1>2, <1>3, <1>4, <1>5
<1> HIDE DEF governed, proposal
<1>7. \A a \in Addr : acct[a].balance = governed.bal[a]
  BY DEF WithBalances
<1> HIDE DEF acct, stake, unbond, validator, pending, height, base_fee
<1>8. new.acct = acct /\ new.proposal = proposal
  BY <1>1, <1>2, StateOfTables
<1> HIDE DEF new
<1>9. Balances(new) = governed.bal
  BY <1>6, <1>7, <1>8 DEF Balances, BalanceTable
<1> QED BY <1>6, <1>8, <1>9 DEF new

\* A proposal that passes was backed by half of the bonded stake: the quorum is
\* counted on balances that later turns of the same block only raise.
THEOREM QuorumAlwaysHeld == Spec => QuorumHeld
<1>1. ASSUME OpenBlockInv, [Next]_vars
      PROVE  [\A i \in ProposalId :
                LET held == [a \in VotersOn(i) |-> db'.acct[a].balance]
                IN /\ db.proposal[i] # None /\ db.proposal[i].phase = "Voting"
                   /\ db'.proposal[i].phase = "Passed"
                   => 2 * SumFunction(held) >= Bonded(db)]_vars
  <2> SUFFICES ASSUME NEW i \in ProposalId, db.proposal[i] # None, db.proposal[i].phase = "Voting",
                      db'.proposal[i].phase = "Passed"
               PROVE  2 * SumFunction([a \in VotersOn(i) |-> db'.acct[a].balance]) >= Bonded(db)
    OBVIOUS
  <2>1. PICK header \in Headers : db' = Committed(header)
    BY <1>1, OnlyCommits
  <2>2. Backed(i, Balances(db'))
    BY <1>1, <2>1, CommittedBacked DEF Proposals
  <2> DEFINE held == [a \in VotersOn(i) |-> db'.acct[a].balance]
  <2>3. VotersOn(i) \subseteq Addr /\ IsFiniteSet(VotersOn(i))
    BY StateAssumption, FS_Subset DEF VotersOn
  <2>4. db' \in State
    BY <1>1, <2>1, CommittedTables DEF OpenBlockInv, BlockInv
  <2>5. \A a \in Addr : db'.acct[a].balance \in Nat
    BY <2>4, StateOfTables DEF AcctTable, Account
  <2>6. held \in [VotersOn(i) -> Nat] /\ \A a \in VotersOn(i) : held[a] = Balances(db')[a]
    BY <2>3, <2>5 DEF Balances
  <2> HIDE DEF held
  <2>7. SumFunction(held) = SumFunctionOnSet(held, VotersOn(i))
    BY <2>3, <2>6, SumOfNats
  <2>8. Sums(held, VotersOn(i))
    BY <2>3, <2>6 DEF Sums
  <2>9. SumFunctionOnSet(held, VotersOn(i)) = SumFunctionOnSet(Balances(db'), VotersOn(i))
    BY <2>6, <2>8, SumSame
  <2>10. 2 * SumFunction(held) >= Bonded(db)
    BY <2>2, <2>7, <2>9 DEF Backed
  <2> QED BY <2>10 DEF held
<1> QED BY <1>1, OpenInit, OpenStep, PTL DEF Spec, QuorumHeld

=============================================================================
