----------------------------- MODULE TxHandlers -----------------------------
(***************************************************************************)
(* What applying one transaction does to the open block, one operator per  *)
(* kind: payments, receipts and disputes, proposals and registries from    *)
(* crates/chain/src/apply.rs, the stake lifecycle from stake_apply.rs.     *)
(*                                                                         *)
(* A transaction that fails its checks is Rejected and changes nothing, so *)
(* the checks are guards, with one exception: a receipt batch marks its    *)
(* receipts while it looks for a duplicate, and a rejected one leaves      *)
(* those marks in the block.                                               *)
(***************************************************************************)
EXTENDS BlockState, Rewards

CONSTANTS BaseTransferGas,    \* BASE_TRANSFER_GAS
          EpochLength,        \* EPOCH_LENGTH_BLOCKS
          BootstrapBlocks,    \* BOOTSTRAP_MAX_BLOCKS
          BootstrapTarget     \* BOOTSTRAP_VALIDATOR_TARGET

ASSUME EpochAssumption ==
  /\ EpochLength \in Nat \ {0}
  /\ BaseTransferGas \in Nat /\ BootstrapBlocks \in Nat /\ BootstrapTarget \in Nat

\* in_bootstrap_epoch: handlers use the committed height and validators.
InBootstrap(height, active) == height < BootstrapBlocks /\ active < BootstrapTarget

Bootstrapping == InBootstrap(db.height, Cardinality(Active(db)))

Epoch(height) == height \div EpochLength

\* Faulty variant: the balance is read past the block's overlay.
CanPayCommitted(a, amount) == db.acct[a].balance >= amount

CanPay(a, amount) == GetAccount(a).balance >= amount

CanSpend(from, nonce, total) == GetAccount(from).nonce = nonce /\ CanPay(from, total)

-----------------------------------------------------------------------------
\* apply_transfer.  The fee is priced at the committed base fee and burned.
Transfer(tx) ==
  LET total == tx.amount + tx.fee * db.base_fee
  IN /\ tx.kind = "Transfer"
     /\ tx.from # tx.to
     /\ tx.fee >= BaseTransferGas
     /\ CanSpend(tx.from, tx.nonce, total)
     /\ ctx' = [ctx EXCEPT !.acct = Credit(Spend(@, tx.from, total), tx.to, tx.amount)]

-----------------------------------------------------------------------------
\* Faulty variant: the lookup sees only locked escrows as existing.
NoEscrowForgetsSettled(job) == db.escrow[job] # None => db.escrow[job].state = "Settled"

\* get_escrow has no overlay.
NoEscrow(job) == GetEscrow(job) = None

\* apply_escrow_lock.  The fee is charged as is, not at the base fee.
EscrowLock(tx) ==
  /\ tx.kind = "EscrowLock"
  /\ tx.amount # 0
  /\ NoEscrow(tx.job)
  /\ CanSpend(tx.from, tx.nonce, tx.amount + tx.fee)
  /\ ctx' = [ctx EXCEPT
       !.acct = Spend(@, tx.from, tx.amount + tx.fee),
       !.escrow[tx.job] = [user |-> tx.from, amount |-> tx.amount,
                           created_at |-> db.height, state |-> "Locked"]]

\* credit_reward_split: the delegators' share goes to the compute address.
CreditSplit(acct, total, compute, verifier, treasury) ==
  LET s == Split(total)
  IN Credit(Credit(Credit(acct, compute, s.compute + s.delegators), verifier, s.verifier),
            treasury, s.treasury)

\* apply_escrow_settle: pays the split, queues a reward that counts no
\* tokens under the job's key, and marks the escrow.
EscrowSettle(tx) ==
  /\ tx.kind = "EscrowSettle"
  /\ db.escrow[tx.job] # None
  /\ db.escrow[tx.job].state = "Locked"
  /\ ctx' = [ctx EXCEPT
       !.acct = CreditSplit(@, db.escrow[tx.job].amount, tx.compute, tx.verifier, tx.treasury),
       !.pending[tx.job] = [tokens |-> 0, epoch |-> Epoch(db.height), compute |-> tx.compute,
                            verifier |-> tx.verifier, treasury |-> tx.treasury, tee |-> 2],
       !.escrow[tx.job] = [db.escrow[tx.job] EXCEPT !.state = "Settled"]]

\* apply_reward_mint.  A reward of zero is accepted and credits nothing.
RewardMint(tx) ==
  /\ tx.kind = "RewardMint"
  /\ ctx' = [ctx EXCEPT !.acct = CreditSplit(@, tx.total, tx.compute, tx.verifier, tx.treasury)]

-----------------------------------------------------------------------------
JobsOf(receipts) == {receipts[i].job : i \in DOMAIN receipts}

\* Faulty variant: only receipts of the same block count as seen.
AnchorableForgetsChain(receipts, n) ==
  \A i \in 1..n : receipts[i].job \notin (ctx.seen \ db.seen) \cup JobsOf(SubSeq(receipts, 1, i - 1))

\* The first n receipts are new to the chain, to the block and to each other.
Anchorable(receipts, n) ==
  \A i \in 1..n : receipts[i].job \notin ctx.seen \cup JobsOf(SubSeq(receipts, 1, i - 1))

\* Receipts marked before the loop of apply_receipt_batch ends or returns.
Marked(receipts) ==
  LET n == Max({m \in 0..Len(receipts) : Anchorable(receipts, m)})
  IN SubSeq(receipts, 1, n)

\* The rewards a batch queues, one per receipt.
Queue(pending, receipts) ==
  [j \in Job |->
     IF j \notin JobsOf(receipts) THEN pending[j]
     ELSE LET r == receipts[CHOOSE i \in DOMAIN receipts : receipts[i].job = j]
          IN [tokens |-> r.tokens, epoch |-> Epoch(db.height), compute |-> NodeAddr[r.node],
              verifier |-> Treasury, treasury |-> Treasury, tee |-> IF r.tee THEN 3 ELSE 2]]

\* apply_receipt_batch, whether it accepts the batch or rejects a duplicate.
\* Outside bootstrap an accepted batch queues nothing.
ReceiptBatch(tx) ==
  LET marked == Marked(tx.receipts)
  IN /\ tx.kind = "ReceiptBatch"
     /\ tx.receipts # <<>>
     /\ tx.root_matches
     /\ ctx' = [ctx EXCEPT
          !.seen = @ \cup JobsOf(marked),
          !.pending = IF marked = tx.receipts /\ Bootstrapping THEN Queue(@, marked) ELSE @]

\* apply_dispute accepts or rejects and writes nothing; committing the block
\* slashes for it either way, see BlockEnd.
Dispute(tx) == tx.kind = "Dispute" /\ UNCHANGED ctx

-----------------------------------------------------------------------------
(***************************************************************************)
(* Stake: deposit, withdraw into an unbonding entry, complete it,          *)
(* redelegate.  Pools are left out: a pool is one more component of a      *)
(* position's key.                                                         *)
(***************************************************************************)
CONSTANTS UnbondingPeriod,     \* UNBONDING_PERIOD_BLOCKS
          RedelegateCooldown,  \* REDELEGATE_COOLDOWN_BLOCKS
          MinStake             \* inline_base_min_stake, by role

ASSUME StakeAssumption ==
  /\ UnbondingPeriod \in Nat \ {0}
  /\ RedelegateCooldown \in Nat
  /\ MinStake \in [Role -> Nat]

\* A position counts from its first deposit; a top-up keeps bonded_at.
Topped(entry, amount) ==
  [amount |-> entry.amount + amount,
   bonded_at |-> IF entry.amount = 0 THEN db.height ELSE entry.bonded_at]

\* apply_deposit.  Self-stake has no delegator; the minimum applies to the
\* resulting position and only after bootstrap.
Deposit(tx) ==
  LET key == <<tx.node, tx.role, tx.delegator>>
  IN /\ tx.kind = "Deposit"
     /\ tx.delegator \in {None, tx.sender}
     /\ Bootstrapping \/ GetStake(key).amount + tx.amount >= MinStake[tx.role]
     /\ CanPay(tx.sender, tx.amount)
     /\ ctx' = [ctx EXCEPT !.acct = Debit(@, tx.sender, tx.amount),
                           !.stake = SetStake(@, key, Topped(GetStake(key), tx.amount))]

\* Faulty variant: the fallback looks for any delegator's position.
PositionAnyDelegator(node, role, sender) ==
  {k \in StakeKey : k[1] = node /\ k[2] = role /\ ctx.stake[k].amount > 0}

\* The position a sender acts on: its delegation, or else the self-stake.
Position(node, role, sender) ==
  LET own == <<node, role, sender>>
      self == <<node, role, None>>
  IN IF GetStake(own).amount > 0 THEN {own}
     ELSE IF GetStake(self).amount > 0 THEN {self} ELSE {}

Without(entry, amount) == [entry EXCEPT !.amount = @ - amount]

\* Faulty variant: the counter is read past the block's overlay.
FreshIdCommitted == db.next_unbond_id

\* The id the next unbonding entry takes.
FreshId == ctx.next_unbond_id

\* apply_withdraw.
Withdraw(tx) ==
  /\ tx.kind = "Withdraw"
  /\ \E key \in Position(tx.node, tx.role, tx.sender) :
       /\ tx.amount <= GetStake(key).amount
       /\ ctx' = [ctx EXCEPT
            !.stake = SetStake(@, key, Without(GetStake(key), tx.amount)),
            !.unbond = SetUnbonding(@, [id |-> FreshId, node |-> tx.node, role |-> tx.role,
                                        delegator |-> key[3], amount |-> tx.amount,
                                        started_at |-> db.height,
                                        completes_at |-> db.height + UnbondingPeriod]),
            !.next_unbond_id = FreshId + 1]

\* Faulty variant: one block too early.
IsCompleteEarly(entry) == db.height + 1 >= entry.completes_at

IsComplete(entry) == db.height >= entry.completes_at

\* apply_complete: a delegator's entry pays the delegator, an operator's
\* entry pays the sender.
Complete(tx) ==
  /\ tx.kind = "Complete"
  /\ \E u \in GetUnbonding(tx.node, tx.id) :
       LET payee == IF u.delegator = None THEN tx.sender ELSE u.delegator
       IN /\ u.delegator \in {None, tx.sender}
          /\ IsComplete(u)
          /\ ctx' = [ctx EXCEPT !.acct = Credit(@, payee, u.amount), !.unbond = @ \ {u}]

\* apply_redelegate: the destination position keeps the source's delegator.
Redelegate(tx) ==
  /\ tx.kind = "Redelegate"
  /\ tx.from # tx.to
  /\ \E key \in Position(tx.from, tx.role, tx.sender) :
       LET dst == <<tx.to, tx.role, key[3]>>
           source == Without(GetStake(key), tx.amount)
       IN /\ tx.amount <= GetStake(key).amount
          /\ db.height >= GetStake(key).bonded_at + RedelegateCooldown
          /\ ctx' = [ctx EXCEPT
               !.stake = SetStake(SetStake(@, key, source), dst, Topped(GetStake(dst), tx.amount))]

-----------------------------------------------------------------------------
(***************************************************************************)
(* Proposals and votes, and the model, TEE and gateway registries.  None   *)
(* of their tables has an overlay: every check reads the committed state.  *)
(***************************************************************************)
CONSTANTS ProposalDeposit,  \* PROPOSAL_DEPOSIT
          ModelDeposit      \* MODEL_DEPOSIT

ASSUME DepositAssumption == ProposalDeposit \in Nat /\ ModelDeposit \in Nat

\* apply_gov_proposal: the signer pays the deposit; the proposer named in
\* the body, who may be another, is who gets it back.
GovProposal(tx) ==
  LET id == NextProposalId
  IN /\ tx.kind = "GovProposal"
     /\ id < MaxProposals
     /\ tx.deposit >= ProposalDeposit
     /\ CanPay(tx.signer, tx.deposit)
     /\ ctx' = [ctx EXCEPT
          !.acct = Debit(@, tx.signer, tx.deposit),
          !.proposal[id] = [proposer |-> tx.proposer, deposit |-> tx.deposit,
                            discussion_ends |-> tx.discussion_ends,
                            voting_ends |-> tx.voting_ends, phase |-> "Discussion",
                            submitted_at |-> db.height],
          !.next_proposal_id = id + 1]

Votable(id) == id \in Proposals /\ GetProposal(id).phase = "Voting"

\* Faulty variant: a second vote replaces the first.
NotVotedIgnored(id, voter) == TRUE

NotVoted(id, voter) == GetVote(id, voter) = None

\* apply_gov_vote.
GovVote(tx) ==
  /\ tx.kind = "GovVote"
  /\ Votable(tx.id)
  /\ NotVoted(tx.id, tx.voter)
  /\ ctx' = [ctx EXCEPT !.vote[<<tx.id, tx.voter>>] = tx.choice]

-----------------------------------------------------------------------------
\* apply_register_model: the deposit is not returned.
RegisterModel(tx) ==
  /\ tx.kind = "RegisterModel"
  /\ tx.deposit >= ModelDeposit
  /\ ~Registered(tx.model)
  /\ CanPay(tx.registrar, tx.deposit)
  /\ ctx' = [ctx EXCEPT !.acct = Debit(@, tx.registrar, tx.deposit), !.model = @ \cup {tx.model}]

\* apply_register_tee: `valid` stands for the structural checks of the quote.
RegisterTee(tx) ==
  /\ tx.kind = "RegisterTee"
  /\ tx.valid
  /\ ctx' = [ctx EXCEPT !.tee = @ \cup {tx.node}]

\* apply_register_gateway: `valid` stands for the checks of the URL.
RegisterGateway(tx) ==
  /\ tx.kind = "RegisterGateway"
  /\ tx.valid
  /\ ctx' = [ctx EXCEPT !.gateway[tx.node] = tx.operator]

\* apply_unregister_gateway.
UnregisterGateway(tx) ==
  /\ tx.kind = "UnregisterGateway"
  /\ ctx' = [ctx EXCEPT !.gateway[tx.node] = None]

=============================================================================
