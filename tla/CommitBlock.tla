---------------------------- MODULE CommitBlock ----------------------------
(***************************************************************************)
(* Applying and committing a block: apply_tx in crates/chain/src/apply.rs, *)
(* commit_block in crates/consensus/src/commit.rs, and the state root a    *)
(* proposer puts in the header (crates/consensus/src/block_builder.rs).    *)
(*                                                                         *)
(* Transactions are applied one step each; then the block either commits,  *)
(* with everything commit_block adds to it, or its root does not match the *)
(* header's and all of it is dropped.  The state root covers accounts only *)
(* (set_account alone feeds the Merkle tree), and no two account tables    *)
(* share a root.                                                           *)
(***************************************************************************)
EXTENDS BlockEnd

CONSTANTS Txs,            \* transactions a block may carry
          Start,          \* the tables a behaviour starts from
          HeaderRoots,    \* how headers are computed, a set of "replay" and "builder"
          EscrowTimeout,  \* ESCROW_TIMEOUT_BLOCKS
          GasCost,        \* flat gas by kind of transaction
          TargetGas,      \* TARGET_GAS_PER_BLOCK
          Times,          \* block timestamps, set by each proposer's clock
          HeaderFees,     \* base fees of headers: each proposer counts for itself, and
                          \* starts at the configured fee whatever the state holds
          MaxBlockTxs,    \* bound: transactions in a block
          MaxHeight       \* bound: committed blocks

VARIABLE gas              \* gas used by the open block

vars == <<db, ctx, block, gas>>

Receipt == [job : Job, node : Node, tokens : Nat, tee : BOOLEAN]

\* Operations on a stake; no entry is pinned to a pool here.
StakeOps == {"Deposit", "Withdraw", "Complete", "Redelegate"}

StakeOp(kind) ==
  CASE kind = "Deposit" -> [kind : {kind}, sender : Addr, node : Node, role : Role, amount : Nat,
                            delegator : Addr \cup {None}]
    [] kind = "Withdraw" -> [kind : {kind}, sender : Addr, node : Node, role : Role, amount : Nat]
    [] kind = "Complete" -> [kind : {kind}, sender : Addr, node : Node, id : Nat]
    [] kind = "Redelegate" -> [kind : {kind}, sender : Addr, from : Node, to : Node, role : Role, amount : Nat]

\* A proposal as submitted: the state numbers it, and nothing reads its text.
ProposalBody == [kind : {"GovProposal"}, signer : Addr, proposer : Addr, deposit : Nat,
                 discussion_ends : Nat, voting_ends : Nat]

\* The verifier's two hashes matter only as equal or not.
DisputeBody == [kind : {"Dispute"}, job : Job, node : Node, reporter : Addr, hashes_differ : BOOLEAN]

TxOfKind(kind) ==
  CASE kind = "Transfer" -> [kind : {kind}, from : Addr, to : Addr, amount : Nat, nonce : Nat, fee : Nat]
    [] kind = "EscrowLock" -> [kind : {kind}, from : Addr, job : Job, amount : Nat, nonce : Nat, fee : Nat]
    [] kind = "EscrowSettle" -> [kind : {kind}, job : Job, compute : Addr, verifier : Addr, treasury : Addr]
    [] kind = "RewardMint" -> [kind : {kind}, total : Nat, compute : Addr, verifier : Addr, treasury : Addr]
    [] kind = "ReceiptBatch" -> [kind : {kind}, receipts : Seq(Receipt), root_matches : BOOLEAN]
    [] kind = "Dispute" -> DisputeBody
    [] kind \in StakeOps -> StakeOp(kind)
    [] kind = "GovProposal" -> ProposalBody
    [] kind = "GovVote" -> [kind : {kind}, id : ProposalId, voter : Addr, choice : Choices4]
    [] kind = "RegisterModel" -> [kind : {kind}, registrar : Addr, deposit : Nat, model : Model]
    [] kind = "RegisterTee" -> [kind : {kind}, node : Node, valid : BOOLEAN]
    [] kind = "RegisterGateway" -> [kind : {kind}, node : Node, operator : Addr, valid : BOOLEAN]
    [] kind = "UnregisterGateway" -> [kind : {kind}, node : Node]

TxKinds == StakeOps \cup
  {"Transfer", "EscrowLock", "EscrowSettle", "RewardMint", "ReceiptBatch", "Dispute", "GovProposal",
   "GovVote", "RegisterModel", "RegisterTee", "RegisterGateway", "UnregisterGateway"}

ASSUME BlockAssumption ==
  /\ \A tx \in Txs : tx.kind \in TxKinds /\ tx \in TxOfKind(tx.kind)
  /\ Start \in State
  /\ HeaderRoots \subseteq {"replay", "builder"}
  /\ EscrowTimeout \in Nat /\ TargetGas \in Nat \ {0}
  /\ GasCost \in [TxKinds -> Nat]
  /\ Times \subseteq Nat /\ HeaderFees \subseteq Nat /\ MaxBlockTxs \in Nat /\ MaxHeight \in Nat

\* The counter is ahead of every unbonding id, and an id names one entry.
IdsFresh(s) ==
  /\ \A u \in s.unbond : u.id < s.next_unbond_id
  /\ \A u, v \in s.unbond : u.id = v.id => u = v

\* Proposals are numbered in the order they came.
Numbered(s) == \A i \in ProposalId : s.proposal[i] # None => i < s.next_proposal_id

\* A chain starts with neither unbonding entries nor proposals, or with those
\* of an earlier run.
ASSUME StartAssumption == IsFiniteSet(Start.unbond) /\ IdsFresh(Start) /\ Numbered(Start)

-----------------------------------------------------------------------------
(* apply_tx *)

\* gas_used of a transaction; zero for a rejected one.
GasUsed(tx) ==
  CASE tx.kind = "Transfer" -> tx.fee
    [] tx.kind = "ReceiptBatch" ->
         IF Marked(tx.receipts) = tx.receipts THEN GasCost[tx.kind] * Len(tx.receipts) ELSE 0
    [] tx.kind = "RewardMint" -> GasCost[tx.kind] * IF tx.total = 0 THEN 1 ELSE 6
    [] tx.kind = "Dispute" -> IF tx.hashes_differ /\ tx.job \in ctx.seen THEN GasCost[tx.kind] ELSE 0
    [] OTHER -> GasCost[tx.kind]

Handle(tx) ==
  \/ Transfer(tx)
  \/ EscrowLock(tx)
  \/ EscrowSettle(tx)
  \/ RewardMint(tx)
  \/ ReceiptBatch(tx)
  \/ Dispute(tx)
  \/ Deposit(tx)
  \/ Withdraw(tx)
  \/ Complete(tx)
  \/ Redelegate(tx)
  \/ GovProposal(tx)
  \/ GovVote(tx)
  \/ RegisterModel(tx)
  \/ RegisterTee(tx)
  \/ RegisterGateway(tx)
  \/ UnregisterGateway(tx)

ApplyTx(tx) ==
  /\ Len(block) < MaxBlockTxs
  /\ Handle(tx)
  /\ block' = Append(block, tx)
  /\ gas' = gas + GasUsed(tx)
  /\ UNCHANGED db

-----------------------------------------------------------------------------
(* commit_block *)

Balances(s) == [a \in Addr |-> s.acct[a].balance]

WithBalances(acct, bal) == [a \in Addr |-> [balance |-> bal[a], nonce |-> acct[a].nonce]]

\* What commit_block reads of a header; its height is the next one here, and
\* nothing checks its time or its base fee.
Headers == [root : HeaderRoots, timestamp_ms : Times, base_fee : HeaderFees]

Boundary(height) == height # 0 /\ height % EpochLength = 0

\* The block's own writes followed by everything commit_block does before
\* it compares roots: slashes, then at an epoch boundary the validator set,
\* the epoch's rewards and governance, then the height, and the base fee that
\* follows the header's.
Committed(header) ==
  LET height == db.height + 1
      slashed == SlashPaid(Balances(ctx))
      boundary == Boundary(height)
      minted == IF boundary THEN MintPaid(slashed, Epoch(height) - 1) ELSE slashed
      governed == IF boundary THEN Governed(minted, ctx.proposal, header.timestamp_ms)
                  ELSE [bal |-> minted, proposal |-> ctx.proposal]
  IN [ctx EXCEPT
        !.acct = WithBalances(ctx.acct, governed.bal),
        !.stake = SlashedStake(ctx.stake),
        !.unbond = SlashedUnbond(ctx.unbond),
        !.validator = IF boundary THEN Rotated(ctx.validator, height) ELSE ctx.validator,
        !.pending = IF boundary THEN Unpaid(ctx.pending, Epoch(height) - 1) ELSE ctx.pending,
        !.proposal = governed.proposal,
        !.height = height,
        !.base_fee = NextBaseFee(header.base_fee, gas, TargetGas)]

\* Locked escrows past their timeout, which the block builder refunds.
Expired(height) ==
  {j \in Escrows : /\ GetEscrow(j).state = "Locked"
                   /\ GetEscrow(j).created_at + EscrowTimeout <= height}

\* The accounts BlockBuilder::build computes the header's root from.
BuilderAcct ==
  LET refund(a) == SumFunction([j \in {e \in Expired(db.height + 1) : GetEscrow(e).user = a} |->
                                 GetEscrow(j).amount])
  IN WithBalances(ctx.acct, [a \in Addr |-> ctx.acct[a].balance + refund(a)])

\* Whether the header's root is the root of the replayed accounts.
RootMatches(header, new) == header.root = "builder" => BuilderAcct = new.acct

Commit(header) ==
  LET new == Committed(header)
  IN /\ db.height < MaxHeight
     /\ RootMatches(header, new)
     /\ db' = new
     /\ ctx' = new
     /\ block' = <<>>
     /\ gas' = 0

\* StateRootMismatch: the context is dropped, nothing is committed.
RootMismatch(header) ==
  /\ db.height < MaxHeight
  /\ ~RootMatches(header, Committed(header))
  /\ ctx' = db
  /\ block' = <<>>
  /\ gas' = 0
  /\ UNCHANGED db

Init ==
  /\ db = Start
  /\ ctx = Start
  /\ block = <<>>
  /\ gas = 0

Next ==
  \/ \E tx \in Txs : ApplyTx(tx)
  \/ \E header \in Headers : Commit(header)
  \/ \E header \in Headers : RootMismatch(header)

Spec == Init /\ [][Next]_vars

-----------------------------------------------------------------------------
(* Properties *)

\* Every table keeps its type in the committed state and in the open block;
\* amounts are naturals, so no debit underflows a u128.
TypeOK ==
  /\ db \in State
  /\ ctx \in State
  /\ block \in Seq(Txs)
  /\ gas \in Nat

NoncedBy(a) == {i \in DOMAIN block : block[i].kind \in {"Transfer", "EscrowLock"} /\ block[i].from = a}

\* In the open block an account's nonce has moved by exactly the number of
\* its transfers and escrow locks: none is applied uncounted, and nothing
\* else a block does (credits, payouts, an emptied account) touches a nonce,
\* so a spent nonce is never accepted again.
NonceCountsTxs ==
  \A a \in Addr : ctx.acct[a].nonce = db.acct[a].nonce + Cardinality(NoncedBy(a))

\* Each withdrawal of the open block has an unbonding entry of its own.
WithdrawalsKept ==
  Cardinality({u \in ctx.unbond : u.id >= db.next_unbond_id})
  = Cardinality({i \in DOMAIN block : block[i].kind = "Withdraw"})

\* Unbonding ids are never reused, also by several withdrawals of one block
\* and after a slash rewrites entries: an id names one entry, and no
\* withdrawal of a block takes the place of another.
UnbondIdsFresh == IdsFresh(db) /\ IdsFresh(ctx) /\ WithdrawalsKept

\* The open block is read through its own writes: no debit overdraws an account
\* (amounts stay naturals), no nonce and no unbonding id is given out twice,
\* however the transactions of a block are ordered (state.rs:961-1010).
BlockSound == TypeOK /\ NonceCountsTxs /\ UnbondIdsFresh

\* Blocks in which two writes to the same entry do not see each other: a
\* slash of a position the block changed, two slashes of one node, and two
\* settlements of one escrow.
Overlapping ==
  \/ \E k \in SlashedKeys : ctx.stake[k] # db.stake[k]
  \/ \E i, j \in Slashable : i # j /\ block[i].node = block[j].node
  \/ \E i, j \in DOMAIN block :
       /\ i # j /\ block[i].kind = "EscrowSettle" /\ block[j].kind = "EscrowSettle"
       /\ block[i].job = block[j].job

\* What the block may mint: its own reward mints, and at an epoch boundary
\* with rewards due, the epoch's budget.
MintAllowance ==
  SumFunction([i \in {k \in DOMAIN block : block[k].kind = "RewardMint"} |-> block[i].total])
  + IF Boundary(db.height + 1) /\ Due(Epoch(db.height + 1) - 1) # <<>> THEN EpochBudget ELSE 0

\* No committed block creates value beyond what it may mint: balances,
\* stakes, unbondings, locked escrows and proposal deposits taken together
\* (rounding, pro-rata shares, slash splits and refunds included).  Blocks
\* with overlapping writes are the exception.
SupplyConserved ==
  [][db' # db /\ ~Overlapping => Supply(db') <= Supply(db) + MintAllowance]_vars

\* Unbonding funds stay slashable for the whole period: an entry leaves the
\* committed table only once its period is over, and a slash shrinks it only
\* before that.
UnbondingWaits ==
  \A u \in db.unbond :
    /\ (\A w \in db'.unbond : w.id # u.id) => db.height >= u.completes_at
    /\ \A w \in db'.unbond : w.id = u.id /\ w # u =>
         w.amount < u.amount /\ db.height < u.completes_at

\* A delegation shrinks only through its delegator's own withdrawal or
\* redelegation or through a dispute about its node; in particular the
\* fallback to the operator's position never reaches a delegation.
DelegationOwned ==
  \A k \in StakeKey :
    k[3] # None /\ db'.stake[k].amount < db.stake[k].amount =>
      \/ k[1] \in Disputed
      \/ \E i \in DOMAIN block :
           block[i].kind \in {"Withdraw", "Redelegate"} /\ block[i].sender = k[3]

\* What a delegator put up is touched by nobody else, and leaves in its time.
StakeKept == [][UnbondingWaits /\ DelegationOwned]_vars

\* An escrow is committed once for a job: later blocks neither replace it nor
\* return a settled one to Locked, so it pays out in one block at most.
EscrowOnce ==
  [][\A j \in Job : LET e == db.escrow[j] IN LET f == db'.escrow[j] IN
       e # None => /\ f # None
                   /\ <<f.user, f.amount, f.created_at>> = <<e.user, e.amount, e.created_at>>
                   /\ e.state = "Settled" => f.state = "Settled"]_vars

\* A receipt earns block emission once: after its reward has left the queue
\* no later batch or settlement queues tokens for the same job again.
OneRewardPerReceipt ==
  [][\A j \in db.seen :
       db.pending[j] = None /\ db'.pending[j] # None => db'.pending[j].tokens = 0]_vars

Following(phase) ==
  CASE phase = "Discussion" -> {"Discussion", "Voting"}
    [] phase = "Voting" -> {"Voting", "Passed", "Rejected", "RejectedWithVeto"}
    [] OTHER -> {phase}

\* A committed proposal keeps its body and moves only forward, whatever the
\* proposers' clocks say: no phase is skipped and a resolved one is final.
ProposalForward ==
  [][\A i \in ProposalId : db.proposal[i] # None =>
       /\ db'.proposal[i] # None
       /\ db'.proposal[i].phase \in Following(db.proposal[i].phase)
       /\ [db'.proposal[i] EXCEPT !.phase = db.proposal[i].phase] = db.proposal[i]]_vars

\* A committed vote is final, and votes appear only on proposals that were
\* open for voting when the block started.
VotesSettled ==
  [][\A k \in DOMAIN db.vote : db'.vote[k] # db.vote[k] =>
       /\ db.vote[k] = None
       /\ db.proposal[k[1]] # None /\ db.proposal[k[1]].phase = "Voting"]_vars

\* A proposal that passes was backed by at least half of the bonded stake:
\* the committed voters still hold that weight after the block.
QuorumHeld ==
  [][\A i \in ProposalId :
       LET held == [a \in VotersOn(i) |-> db'.acct[a].balance]
       IN /\ db.proposal[i] # None /\ db.proposal[i].phase = "Voting"
          /\ db'.proposal[i].phase = "Passed"
          => 2 * SumFunction(held) >= Bonded(db)]_vars

\* A validator loses its record only at an epoch boundary past bootstrap and
\* only if no stake stood behind it when the block started: not for stake
\* the block withdraws, and not for a rank.  Nor does stake that the block
\* deposits save it, against commit.rs:88-91, which has such deposits count.
EvictsOnlyUnstaked ==
  \A n \in Active(db) : db'.validator[n] = None =>
    /\ Boundary(db'.height)
    /\ ~InBootstrap(db'.height, Cardinality(Active(db)))
    /\ \A k \in StakesOf(n) : k[2] # "Validator"

\* If a boundary refreshes one validator's voting power, it refreshes that
\* of every validator with more committed stake as well.
StrongestRefreshed ==
  LET stake(n) == ValidatorStake(db, n)
      refreshed(n) == /\ db'.validator[n] # None
                      /\ db'.validator[n].voting_power = Power(stake(n))
  IN \A n, m \in Active(db) :
       /\ db.validator[m] # db'.validator[m] /\ refreshed(m)
       /\ stake(n) > stake(m)
       => refreshed(n)

\* Rotation follows the stake committed before the boundary block
\* (validator_set.rs:121), whatever the block itself moves: who leaves the
\* set, and whose power is brought up to date.
RotationFollowsStake == [][EvictsOnlyUnstaked /\ StrongestRefreshed]_vars

-----------------------------------------------------------------------------
(* A claim of the comments that the code does not keep *)

\* block_builder.rs: expired escrows are refunded into the root of the header,
\* which commit_block must match.  commit_block refunds none.
BuilderAgreesWithReplay ==
  \A header \in Headers : header.root = "builder" => RootMatches(header, Committed(header))

=============================================================================
