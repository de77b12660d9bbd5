----------------------------- MODULE BlockEnd ------------------------------
(***************************************************************************)
(* What committing a block adds to its transactions: the slash for each    *)
(* dispute (crates/staking/src/slashing.rs), and at an epoch boundary the  *)
(* rotation of the validator set (crates/staking/src/validator_set.rs),    *)
(* the rewards of the epoch that ends and the governance of                *)
(* crates/consensus/src/commit.rs, with the tally of                       *)
(* crates/governance/src/proposals.rs.                                     *)
(*                                                                         *)
(* All of them iterate the committed tables.  A slash computes each new    *)
(* entry from the committed one and writes it over whatever the open block *)
(* left there, and a second dispute about the same node does so again,     *)
(* from the same committed entries, and pays again; rewards and refunds    *)
(* are paid into the balances as the open block has them.                  *)
(***************************************************************************)
EXTENDS TxHandlers, SequencesExt

CONSTANTS SlashPercent,     \* FailedDeterministicVerification
          MaxActive,        \* MAX_ACTIVE_VALIDATORS
          AtomsPerArk       \* ATOMS_PER_ARK

ASSUME SlashAssumption ==
  SlashPercent \in 0..100 /\ MaxActive \in Nat /\ AtomsPerArk \in Nat \ {0}

\* commit_block slashes for every dispute in the block whose two hashes
\* differ, whether apply_tx accepted it or not.
Slashable == {i \in DOMAIN block : block[i].kind = "Dispute" /\ block[i].hashes_differ}

Disputed == {block[i].node : i \in Slashable}

Slash(amount) == (amount * SlashPercent) \div 100

Slashed(entry) == [entry EXCEPT !.amount = @ - Slash(@)]

SlashedKeys == {k \in UNION {StakesOf(n) : n \in Disputed} :
                  k[2] = "Compute" /\ Slash(db.stake[k].amount) > 0}

\* Unbonding entries still short of completion; complete ones count as
\* returned to their holder.
Trimmed ==
  {u \in UNION {UnbondingsOf(n) : n \in Disputed} :
     u.role = "Compute" /\ u.completes_at > db.height /\ Slash(u.amount) > 0}

SlashedStake(stake) ==
  LET keys == SlashedKeys
  IN [k \in StakeKey |-> IF k \in keys THEN SetStake(stake, k, Slashed(db.stake[k]))[k]
                         ELSE stake[k]]

SlashedUnbond(unbond) ==
  {u \in unbond : \A t \in Trimmed : <<t.node, t.id>> # <<u.node, u.id>>}
  \cup {Slashed(t) : t \in Trimmed}

TakenStake(node) ==
  SumFunction([k \in {j \in SlashedKeys : j[1] = node} |-> Slash(db.stake[k].amount)])

\* Faulty variant: complete unbondings count as taken.
TakenIncludingComplete(node) ==
  TakenStake(node) + SumFunction([u \in UnbondingsOf(node) |-> Slash(u.amount)])

\* What one slash of a node takes, over its stakes and its unbondings.
Taken(node) ==
  TakenStake(node)
  + SumFunction([u \in {t \in Trimmed : t.node = node} |-> Slash(u.amount)])

ToReporter(taken) == (taken * 5) \div 100

Burned(taken) == (taken * 90) \div 100

ToTreasury(taken) == taken - Burned(taken) - ToReporter(taken)

\* Balances after every dispute has paid its reporter and the treasury.
SlashPaid(bal) ==
  LET reported(a) == SumFunction([i \in {k \in Slashable : block[k].reporter = a} |->
                                   ToReporter(Taken(block[i].node))])
      treasury == SumFunction([i \in Slashable |-> ToTreasury(Taken(block[i].node))])
  IN [a \in Addr |-> bal[a] + reported(a) + IF a = Treasury THEN treasury ELSE 0]

-----------------------------------------------------------------------------
\* Faulty variant: delegations do not count.
ValidatorStakeSelf(s, node) == s.stake[<<node, "Validator", None>>].amount

\* sum_validator_stake, in a given state of the tables.
ValidatorStake(s, node) ==
  SumFunction([k \in {j \in StakeKey : j[1] = node /\ j[2] = "Validator"} |-> s.stake[k].amount])

\* Faulty variant: ascending by stake.
RankedAscending(staked) ==
  {n \in Active(db) : Cardinality({m \in Active(db) : staked[m] < staked[n]}) < MaxActive}

\* rank_candidates: the first MaxActive registered validators by stake, then
\* operator, then the order of iteration.
Ranked(staked) ==
  LET key(n) == <<0 - staked[n], db.validator[n].operator, n>>
      before(n, m) == \E i \in 1..3 : /\ key(n)[i] < key(m)[i]
                                      /\ \A j \in 1..(i - 1) : key(n)[j] = key(m)[j]
  IN {n \in Active(db) : Cardinality({m \in Active(db) : before(m, n)}) < MaxActive}

Power(stake) == IF stake \div AtomsPerArk > 1 THEN stake \div AtomsPerArk ELSE 1

\* recompute_validator_set: a registered validator outside the top
\* MaxActive is neither rewritten nor removed.
Rotated(validator, height) ==
  LET staked == [n \in Node |-> ValidatorStake(db, n)]
      candidates == Ranked(staked)
      bootstrap == InBootstrap(height, Cardinality(candidates))
  IN [n \in Node |->
        IF n \notin candidates THEN validator[n]
        ELSE IF bootstrap \/ staked[n] > 0
        THEN [operator |-> db.validator[n].operator, voting_power |-> Power(staked[n]),
              jailed |-> FALSE]
        ELSE None]

-----------------------------------------------------------------------------
CONSTANT EpochBudget   \* epoch_budget(year)

ASSUME BudgetAssumption == EpochBudget \in Nat

\* The members of a set of numbers, ascending.
InOrder(S) ==
  CHOOSE f \in [1..Cardinality(S) -> S] : \A i, j \in 1..Cardinality(S) : i < j => f[i] < f[j]

-----------------------------------------------------------------------------
(* epoch_boundary_mint *)

\* iter_pending_rewards_for_epoch.
Due(ending) == InOrder({j \in Job : db.pending[j] # None /\ db.pending[j].epoch = ending})

\* What each due job is owed: the reward of its tokens at the epoch's rate, of a
\* text model of 7 billion parameters whatever the job's model is, times its TEE
\* multiplier.
Owed(due) ==
  LET tokens == SumFunction([i \in DOMAIN due |-> db.pending[due[i]].tokens])
      rate == IF tokens > 0 THEN EpochBudget \div tokens ELSE 0
      reward(pr) == BlockReward(pr.tokens, rate, "Text", 7, 100, 100, 9500)
  IN [i \in DOMAIN due |-> (reward(db.pending[due[i]]) * db.pending[due[i]].tee) \div 2]

\* The delegations to the node that an address operates, if it operates one.
Delegations(operator) ==
  LET nodes == {n \in Active(db) : db.validator[n].operator = operator}
  IN IF nodes = {} THEN {}
     ELSE {a \in Addr : <<Min(nodes), "Compute", a>> \in StakesOf(Min(nodes))}

\* distribute_to_delegators: what `a` gets of the delegators' share.
Delegated(operator, share, a) ==
  LET order == InOrder(Delegations(operator))
      node == Min({n \in Active(db) : db.validator[n].operator = operator})
      amounts == [i \in DOMAIN order |-> db.stake[<<node, "Compute", order[i]>>].amount]
  IN IF order = <<>>
     THEN IF a = operator THEN share ELSE 0
     ELSE SumFunction([i \in {k \in DOMAIN order : order[k] = a} |->
                        DelegatorShare(share, amounts, i)])

\* What one minted reward pays to `a`.
RewardTo(pr, minted, a) ==
  LET s == Split(minted)
      cut(who, part) == IF who = a THEN part ELSE 0
  IN cut(pr.compute, s.compute) + cut(pr.verifier, s.verifier) + cut(pr.treasury, s.treasury)
     + Delegated(pr.compute, s.delegators, a)

MintPaid(bal, ending) ==
  LET due == Due(ending)
      owed == Owed(due)
      to(a) == SumFunction([i \in DOMAIN due |->
                            RewardTo(db.pending[due[i]], Minted(owed, EpochBudget, i), a)])
  IN [a \in Addr |-> bal[a] + to(a)]

\* Jobs that minted nothing stay queued.
Unpaid(pending, ending) ==
  LET due == Due(ending)
      owed == Owed(due)
      paid == {due[i] : i \in {k \in DOMAIN due : Minted(owed, EpochBudget, k) > 0}}
  IN [j \in Job |-> IF j \in paid THEN None ELSE pending[j]]

-----------------------------------------------------------------------------
(* Tally *)

QuorumBps == 5000

VetoThresholdBps == 3300

ApprovalThresholdBps == 6600

Total(t) == t.Yes + t.No + t.Abstain + t.NoWithVeto

NonAbstain(t) == t.Yes + t.No + t.NoWithVeto

\* Each percentage is truncated to basis points before it is compared.
Bps(part, whole) == (part * 10000) \div whole

\* Faulty variant: any vote makes a quorum.
QuorumMetByAny(t, bonded) == bonded > 0 /\ Total(t) > 0

QuorumMet(t, bonded) == bonded > 0 /\ Total(t) > 0 /\ Bps(Total(t), bonded) >= QuorumBps

Vetoed(t) == Bps(t.NoWithVeto, Total(t)) >= VetoThresholdBps

Approved(t) == NonAbstain(t) > 0 /\ Bps(t.Yes, NonAbstain(t)) >= ApprovalThresholdBps

\* Tally::evaluate.
Evaluate(t, bonded) ==
  IF ~QuorumMet(t, bonded) THEN "Rejected"
  ELSE IF Vetoed(t) THEN "RejectedWithVeto"
  ELSE IF Approved(t) THEN "Passed" ELSE "Rejected"

-----------------------------------------------------------------------------
(* process_governance_proposals *)

Bonded(s) == SumFunction([k \in StakeKey |-> s.stake[k].amount])

\* Committed votes, each weighted by the voter's balance.
TallyOf(id, bal) ==
  LET weight(choice) == SumFunctionOnSet(bal, {a \in VotersOn(id) : GetVote(id, a) = choice})
  IN [c \in Choices4 |-> weight(c)]

\* Faulty variant: a resolved proposal is tallied again.
VotingOverAlways(p, now) == p.phase # "Discussion" /\ now >= p.voting_ends

VotingOver(p, now) == p.phase = "Voting" /\ now >= p.voting_ends

\* One proposal's turn; acc carries the balances and the proposals.
Advance(now, acc, id) ==
  LET p == GetProposal(id)
      outcome == Evaluate(TallyOf(id, acc.bal), Bonded(db))
      refund == IF outcome = "RejectedWithVeto" THEN 0 ELSE p.deposit
  IN IF p.phase = "Discussion" /\ now >= p.discussion_ends
     THEN [acc EXCEPT !.proposal[id] = [p EXCEPT !.phase = "Voting"]]
     ELSE IF VotingOver(p, now)
     THEN [bal |-> [acc.bal EXCEPT ![p.proposer] = @ + refund],
           proposal |-> [acc.proposal EXCEPT ![id] = [p EXCEPT !.phase = outcome]]]
     ELSE acc

Governed(bal, proposal, now) ==
  FoldLeft(LAMBDA acc, id : Advance(now, acc, id), [bal |-> bal, proposal |-> proposal],
           InOrder(Proposals))

=============================================================================
