----------------------------- MODULE BlockState -----------------------------
(***************************************************************************)
(* The chain state and the block being applied to it: State and BlockCtx   *)
(* of crates/chain/src/state.rs.                                           *)
(*                                                                         *)
(* db is what RocksDB holds.  ctx is db with the open block's buffered     *)
(* writes laid over it; committing makes it the new db in one write batch, *)
(* dropping it leaves db alone.  What a transaction handler reads depends  *)
(* on the table.  BlockCtx keeps an overlay for accounts, stakes,          *)
(* unbondings, receipt marks and the unbonding counter, so a handler sees  *)
(* earlier writes of its block there: it reads ctx.  It keeps none for     *)
(* escrows, pending rewards, proposals, votes, models, gateways, TEE       *)
(* records, validators, the base fee and the proposal counter, and the     *)
(* iterators never look at an overlay: for those a handler reads db.       *)
(*                                                                         *)
(* An absent account reads as the default one and an emptied stake is      *)
(* deleted, so both tables are total here, with zero for absent.           *)
(***************************************************************************)
EXTENDS Integers, Sequences, FiniteSets, FiniteSetsExt, Functions

CONSTANTS Addr,         \* account addresses, in byte order
          Treasury,     \* the address blake3("arknet-treasury-v1")
          Node,         \* node identifiers, in byte order
          NodeAddr,     \* node -> the address derived from its identifier
          Role,         \* stake roles
          Job,          \* job identifiers, in byte order
          Model,        \* model identifiers
          MaxProposals, \* bound: proposals ever numbered (next id is a u64)
          None          \* an absent entry

StakeRole == {"Validator", "Router", "Verifier", "Compute"}

ASSUME StateAssumption ==
  /\ Treasury \in Addr
  /\ NodeAddr \in [Node -> Addr]
  /\ Addr \subseteq Nat /\ Node \subseteq Nat /\ Job \subseteq Nat
  /\ IsFiniteSet(Addr) /\ IsFiniteSet(Node) /\ IsFiniteSet(Job)
  /\ Role \subseteq StakeRole
  /\ MaxProposals \in Nat
  /\ None \notin Addr

VARIABLES db,      \* committed tables
          ctx,     \* the same tables as the open block leaves them
          block    \* transactions applied in the open block

-----------------------------------------------------------------------------
(* The tables. *)

Account == [balance : Nat, nonce : Nat]

\* A position: the node, the role, and the delegator or None for self-stake.
StakeKey == Node \X Role \X (Addr \cup {None})

StakeEntry == [amount : Nat, bonded_at : Nat]

Unbonding == [id : Nat, node : Node, role : Role, delegator : Addr \cup {None},
              amount : Nat, started_at : Nat, completes_at : Nat]

Escrow == [user : Addr, amount : Nat, created_at : Nat, state : {"Locked", "Settled"}]

\* tee is the TEE multiplier in halves: 2 for 1.0x, 3 for 1.5x.
PendingReward == [tokens : Nat, epoch : Nat, compute : Addr, verifier : Addr,
                  treasury : Addr, tee : {2, 3}]

Phases == {"Discussion", "Voting", "Passed", "Rejected", "RejectedWithVeto"}

Choices4 == {"Yes", "No", "Abstain", "NoWithVeto"}

ProposalId == 0..MaxProposals

Proposal == [proposer : Addr, deposit : Nat, discussion_ends : Nat, voting_ends : Nat,
             phase : Phases, submitted_at : Nat]

Validator == [operator : Addr, voting_power : Nat, jailed : BOOLEAN]

\* An absent entry is none of them.
ASSUME AbsentAssumption == None \notin Escrow \cup PendingReward \cup Proposal \cup Validator

State ==
  [acct : [Addr -> Account],
   stake : [StakeKey -> StakeEntry],
   unbond : SUBSET Unbonding,
   next_unbond_id : Nat,
   seen : SUBSET Job,
   escrow : [Job -> Escrow \cup {None}],
   pending : [Job -> PendingReward \cup {None}],
   proposal : [ProposalId -> Proposal \cup {None}],
   vote : [ProposalId \X Addr -> Choices4 \cup {None}],
   next_proposal_id : Nat,
   model : SUBSET Model,
   tee : SUBSET Node,
   gateway : [Node -> Addr \cup {None}],
   validator : [Node -> Validator \cup {None}],
   base_fee : Nat,
   height : Nat]

\* The tables of a fresh chain, for given accounts and validators.
Fresh(acct, validator) ==
  [acct |-> acct,
   stake |-> [k \in StakeKey |-> [amount |-> 0, bonded_at |-> 0]],
   unbond |-> {}, next_unbond_id |-> 0, seen |-> {},
   escrow |-> [j \in Job |-> None],
   pending |-> [j \in Job |-> None],
   proposal |-> [i \in ProposalId |-> None],
   vote |-> [k \in ProposalId \X Addr |-> None],
   next_proposal_id |-> 0,
   model |-> {}, tee |-> {},
   gateway |-> [n \in Node |-> None],
   validator |-> validator,
   base_fee |-> 1, height |-> 0]

\* seed_genesis_models, at the first boot: the genesis file's models are
\* registered without a deposit.
SeedGenesisModels(s, models) == [s EXCEPT !.model = @ \cup models]

-----------------------------------------------------------------------------
(* Reads through the open block's overlay. *)

GetAccount(a) == ctx.acct[a]

GetStake(key) == ctx.stake[key]

GetUnbonding(node, id) == {u \in ctx.unbond : u.node = node /\ u.id = id}

(* Reads of the committed tables, whatever the open block has written. *)

StakesOf(node) == {k \in StakeKey : k[1] = node /\ db.stake[k].amount > 0}

UnbondingsOf(node) == {u \in db.unbond : u.node = node}

GetEscrow(job) == db.escrow[job]

Escrows == {j \in Job : db.escrow[j] # None}

GetProposal(id) == db.proposal[id]

Proposals == {i \in ProposalId : db.proposal[i] # None}

NextProposalId == db.next_proposal_id

GetVote(id, voter) == db.vote[<<id, voter>>]

VotersOn(id) == {a \in Addr : db.vote[<<id, a>>] # None}

Registered(model) == model \in db.model

-----------------------------------------------------------------------------
(* BlockCtx writes. *)

Credit(acct, a, amount) == [acct EXCEPT ![a].balance = @ + amount]

Debit(acct, a, amount) == [acct EXCEPT ![a].balance = @ - amount]

\* Faulty variant: the nonce stays.
SpendKeepsNonce(acct, a, amount) == Debit(acct, a, amount)

\* Debit and advance the nonce, as transfers and escrow locks do.
Spend(acct, a, amount) ==
  [acct EXCEPT ![a] = [balance |-> @.balance - amount, nonce |-> @.nonce + 1]]

\* set_stake: an entry of amount zero is deleted.
SetStake(stake, key, entry) ==
  [stake EXCEPT ![key] = IF entry.amount = 0 THEN [amount |-> 0, bonded_at |-> 0] ELSE entry]

\* set_unbonding: the key is the node and the id.
SetUnbonding(unbond, entry) ==
  {u \in unbond : <<u.node, u.id>> # <<entry.node, entry.id>>} \cup {entry}

Active(s) == {n \in Node : s.validator[n] # None}

-----------------------------------------------------------------------------
(* What the tables are worth. *)

Open(phase) == phase \in {"Discussion", "Voting"}

Opened(s) == {i \in ProposalId : s.proposal[i] # None /\ Open(s.proposal[i].phase)}

Locked(s) == {j \in Job : s.escrow[j] # None /\ s.escrow[j].state = "Locked"}

Supply(s) ==
  LET held == SumFunction([a \in Addr |-> s.acct[a].balance])
      staked == SumFunction([k \in StakeKey |-> s.stake[k].amount])
      leaving == SumFunction([u \in s.unbond |-> u.amount])
      locked == SumFunction([j \in Locked(s) |-> s.escrow[j].amount])
      deposits == SumFunction([i \in Opened(s) |-> s.proposal[i].deposit])
  IN held + staked + leaving + locked + deposits

=============================================================================
