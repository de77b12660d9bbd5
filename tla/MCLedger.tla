------------------------------ MODULE MCLedger ------------------------------
(***************************************************************************)
(* Instance of CommitBlock with scenarios; a behaviour stays in one.       *)
(*                                                                         *)
(* "payments": users 2 and 3 transfer and lock escrows, two jobs are       *)
(* anchored (one of them TEE), settled and rewarded at epoch boundaries    *)
(* two blocks apart.  Node 1 is operated by address 1 and has two          *)
(* delegators.  The budget and the stakes leave a rounding remainder in    *)
(* every split.                                                            *)
(*                                                                         *)
(* "staking": an operator (address 1) with self-stake, a delegator         *)
(* (address 2), two nodes, and a dispute about the first.  Every tenth of  *)
(* a stake is visible to a 5 % slash; positions can be drained, topped up, *)
(* moved and withdrawn twice in one block.                                 *)
(*                                                                         *)
(* "pooled" has the payments the mempool admits, "batch" one receipt.      *)
(*                                                                         *)
(* "pricing" and "emission" are about the state that Economics carries     *)
(* over epochs: demand of none, some, half and all of the capacity; three  *)
(* years of two epochs in the table, two that are past a halving and one   *)
(* past two, and a cap within reach.                                       *)
(***************************************************************************)
EXTENDS CommitBlock, Economics

CONSTANT Scenarios  \* those a run checks

VARIABLE scenario

MCAddr == {1, 2, 3, 9}

MCNodeAddr == [n \in {1, 2} |-> n]

MCMinStake == [r \in Role |-> 300]

\* Only escrow locks move the base fee.
MCGasCost == [k \in TxKinds |-> IF k = "EscrowLock" THEN 3 ELSE 0]

Accounts(balance) == [a \in MCAddr |-> [balance |-> balance[a], nonce |-> 0]]

PaymentsStart ==
  [Fresh(Accounts([a \in MCAddr |-> IF a \in {2, 3} THEN 120 ELSE 0]),
         [n \in Node |-> IF n = 1 THEN [operator |-> 1, voting_power |-> 1, jailed |-> FALSE] ELSE None])
   EXCEPT !.stake[<<1, "Compute", 2>>] = [amount |-> 20, bonded_at |-> 0],
          !.stake[<<1, "Compute", 3>>] = [amount |-> 10, bonded_at |-> 0]]

StakingStart ==
  Fresh(Accounts([a \in MCAddr |-> CASE a = 1 -> 400 [] a = 2 -> 800 [] OTHER -> 0]),
        [n \in Node |-> None])

TransferTx(from, to, amount, nonce) ==
  [kind |-> "Transfer", from |-> from, to |-> to, amount |-> amount, nonce |-> nonce, fee |-> 1]

LockTx(from, job, amount, nonce) ==
  [kind |-> "EscrowLock", from |-> from, job |-> job, amount |-> amount, nonce |-> nonce, fee |-> 1]

SettleTx(job) ==
  [kind |-> "EscrowSettle", job |-> job, compute |-> 1, verifier |-> 3, treasury |-> 9]

BatchTx(receipts) == [kind |-> "ReceiptBatch", receipts |-> receipts, root_matches |-> TRUE]

Anchor(job) == [job |-> job, node |-> 1, tokens |-> 3 + job, tee |-> job = 2]

PayTxs ==
  { TransferTx(2, 3, 119, 0), LockTx(2, 1, 33, 0), LockTx(2, 1, 50, 1), LockTx(3, 1, 61, 0),
    SettleTx(1), BatchTx(<<Anchor(1)>>), BatchTx(<<Anchor(2), Anchor(1)>>),
    [kind |-> "RewardMint", total |-> 17, compute |-> 1, verifier |-> 3, treasury |-> 9] }

DepositTx(who, node, amount, delegator) ==
  [kind |-> "Deposit", sender |-> who, node |-> node, role |-> "Compute", amount |-> amount,
   delegator |-> delegator]

WithdrawTx(who, node, amount) ==
  [kind |-> "Withdraw", sender |-> who, node |-> node, role |-> "Compute", amount |-> amount]

CompleteTx(who, node, id) == [kind |-> "Complete", sender |-> who, node |-> node, id |-> id]

StakingTxs ==
  { DepositTx(1, 1, 400, None), DepositTx(2, 1, 400, 2),
    WithdrawTx(1, 1, 200), WithdrawTx(2, 1, 400),
    CompleteTx(1, 1, 0), CompleteTx(2, 1, 0), CompleteTx(2, 1, 1),
    [kind |-> "Redelegate", sender |-> 2, from |-> 1, to |-> 2, role |-> "Compute", amount |-> 200],
    [kind |-> "Dispute", job |-> 1, node |-> 1, reporter |-> 2, hashes_differ |-> TRUE] }

JobOf(tokens, category, billions, latency, uptime) ==
  [tokens |-> tokens, category |-> category, billions |-> billions, latency |-> latency, expected |-> 100,
   uptime |-> uptime]

\* What the mempool admits, and a batch of one receipt.
ScenarioTxs ==
  [payments |-> PayTxs,
   staking |-> StakingTxs,
   pooled |-> {tx \in PayTxs : tx.kind \in {"Transfer", "EscrowLock"}},
   batch |-> {BatchTx(<<Anchor(1)>>)}]

MCEmission == <<41, 30, 20>>

MCJobs ==
  { JobOf(1, "Text", 7, 100, 9500), JobOf(2, "Multimodal", 70, 40, 9600), JobOf(3, "Embedding", 9, 0, 9500) }

MCTxs == PayTxs \cup StakingTxs

MCInit ==
  /\ scenario \in Scenarios
  /\ db = IF scenario = "staking" THEN StakingStart ELSE PaymentsStart
  /\ ctx = db
  /\ block = <<>>
  /\ gas = 0
  /\ EconInit

Library == {"pricing", "emission"}

LedgerNext ==
  \/ \E tx \in ScenarioTxs[scenario] : ApplyTx(tx)
  \/ \E header \in Headers : Commit(header) \/ RootMismatch(header)

MCNext ==
  /\ \/ scenario \notin Library /\ LedgerNext /\ UNCHANGED econVars
     \/ scenario = "pricing" /\ PricingNext /\ UNCHANGED vars
     \/ scenario = "emission" /\ EmissionNext /\ UNCHANGED vars
  /\ UNCHANGED scenario

MCSpec == MCInit /\ [][MCNext]_<<vars, econVars, scenario>>

=============================================================================
