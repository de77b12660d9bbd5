--------------------------- MODULE MCGovernance ---------------------------
(***************************************************************************)
(* Instance of CommitBlock with two scenarios; a behaviour stays in one.   *)
(* Every block is an epoch boundary, bootstrap ends within the behaviour,  *)
(* and two of three validators fit in the active set.                      *)
(*                                                                         *)
(* "governance": addresses 1 and 2 propose and vote, with weights on both  *)
(* sides of the quorum and of the thresholds (every block may move weight  *)
(* by a transfer), and block timestamps may go backwards.  One validator   *)
(* has no stake, which costs it its record once bootstrap ends.            *)
(*                                                                         *)
(* "rotation": the operators deposit and withdraw validator stake before,  *)
(* in and after the block at a boundary, and use the registries.           *)
(***************************************************************************)
EXTENDS CommitBlock

CONSTANT RotationHeight  \* bound: committed blocks of the rotation scenario

VARIABLE scenario

MCAddr == {1, 2, 9}

MCNodeAddr == [n \in Node |-> 1]

MCMinStake == [r \in Role |-> 0]

MCGasCost == [k \in TxKinds |-> 0]

GovernanceStart ==
  [Fresh([a \in MCAddr |-> [balance |-> CASE a = 1 -> 70 [] a = 2 -> 40 [] OTHER -> 0, nonce |-> 0]],
         [n \in Node |-> [operator |-> IF n = 3 THEN 2 ELSE 1, voting_power |-> 1, jailed |-> FALSE]])
   EXCEPT !.stake[<<1, "Validator", None>>] = [amount |-> 100, bonded_at |-> 0],
          !.stake[<<3, "Validator", 2>>] = [amount |-> 50, bonded_at |-> 0]]

\* Validator 3 is the genesis validator without stake; one model was seeded.
RotationStart ==
  [SeedGenesisModels(Fresh([a \in MCAddr |-> [balance |-> 300, nonce |-> 0]],
         [n \in Node |-> [operator |-> IF n = 1 THEN 1 ELSE 2, voting_power |-> 1, jailed |-> FALSE]]),
         {"seeded"})
   EXCEPT !.stake[<<1, "Validator", None>>] = [amount |-> 200, bonded_at |-> 0],
          !.stake[<<2, "Validator", 1>>] = [amount |-> 100, bonded_at |-> 0]]

ProposalTx(signer, proposer) ==
  [kind |-> "GovProposal", signer |-> signer, proposer |-> proposer, deposit |-> 10,
   discussion_ends |-> 1, voting_ends |-> 1]

VoteTx(voter, id, choice) == [kind |-> "GovVote", id |-> id, voter |-> voter, choice |-> choice]

ProposalTxs == {ProposalTx(1, 1), ProposalTx(2, 1)}

Votes == {VoteTx(1, 0, "Yes"), VoteTx(1, 0, "NoWithVeto"), VoteTx(2, 0, "Abstain"), VoteTx(2, 0, "Yes"), VoteTx(2, 1, "Yes")}

GovTxs ==
  ProposalTxs \cup Votes
  \cup {[kind |-> "Transfer", from |-> 1, to |-> 2, amount |-> 30, nonce |-> 0, fee |-> 1]}

DepositTx(who, node, amount, delegator) ==
  [kind |-> "Deposit", sender |-> who, node |-> node, role |-> "Validator", amount |-> amount,
   delegator |-> delegator]

RotationTxs ==
  { DepositTx(2, 3, 300, None), DepositTx(1, 2, 200, 1),
    [kind |-> "Withdraw", sender |-> 2, node |-> 1, role |-> "Validator", amount |-> 200],
    [kind |-> "Withdraw", sender |-> 1, node |-> 2, role |-> "Validator", amount |-> 100],
    [kind |-> "RegisterModel", registrar |-> 9, deposit |-> 200, model |-> "m"],
    [kind |-> "RegisterModel", registrar |-> 9, deposit |-> 200, model |-> "seeded"],
    [kind |-> "RegisterTee", node |-> 1, valid |-> TRUE],
    [kind |-> "RegisterGateway", node |-> 1, operator |-> 1, valid |-> TRUE],
    [kind |-> "UnregisterGateway", node |-> 1] }

MCTxs == GovTxs \cup RotationTxs

MCInit ==
  /\ scenario \in {"governance", "rotation"}
  /\ db = IF scenario = "governance" THEN GovernanceStart ELSE RotationStart
  /\ ctx = db
  /\ block = <<>>
  /\ gas = 0

Apply == \E tx \in IF scenario = "governance" THEN GovTxs ELSE RotationTxs : ApplyTx(tx)

MCNext ==
  /\ scenario = "rotation" => db.height < RotationHeight
  /\ \/ Apply
     \/ \E header \in Headers : Commit(header) \/ RootMismatch(header)
  /\ UNCHANGED scenario

MCSpec == MCInit /\ [][MCNext]_<<vars, scenario>>

=============================================================================
