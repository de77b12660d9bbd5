------------------------------- MODULE Engine -------------------------------
(***************************************************************************)
(* The replicated part of the node: the engine loop of                     *)
(* crates/consensus/src/engine.rs around the Malachite consensus core,     *)
(* on every validator, with the gossip between them.                       *)
(*                                                                         *)
(* Malachite is external.  What is assumed of it: a certificate for a      *)
(* block needs more than two thirds of the validators, each in the block's *)
(* height and round with the proposal in hand and not yet bound to another *)
(* block; they vote in one step here.  Decide is raised once per height at *)
(* a validator that has the proposal, at any later time; a round can end   *)
(* at any time by a timeout.  A validator keeps its binding until it leaves*)
(* the height or restarts (the engine answers WalAppend with no log).      *)
(*                                                                         *)
(* A block is its height, the round it was built in, its transactions and  *)
(* its state root.  The state is the set of transactions applied to it and *)
(* a root is that set, so a replay gives the header's root exactly when it *)
(* starts from the state the proposer built on.  CommitBlock shows where   *)
(* the builder's root differs although the states agree.                   *)
(***************************************************************************)
EXTENDS Integers, FiniteSets

CONSTANTS N,            \* validators, numbered in the order of their set
          InitialHeight,\* genesis.initial_height + 1
          Transaction,  \* transactions clients submit
          MayRestart,   \* validators that may crash and restart
          MaxHeight,    \* bound: heights a validator may start
          MaxRound,     \* bound: rounds of a height
          MaxRestarts,  \* bound: restarts of a validator
          None          \* no block, no stash

ASSUME EngineAssumption ==
  /\ N \in Nat \ {0, 1} /\ InitialHeight \in Nat \ {0}
  /\ IsFiniteSet(Transaction) /\ MayRestart \subseteq 1..N
  /\ MaxHeight \in Nat /\ InitialHeight <= MaxHeight + 1
  /\ MaxRound \in Nat /\ MaxRestarts \in Nat

Validators == 1..N

Heights == InitialHeight..MaxHeight

Rounds == 0..MaxRound

Block == [height : Heights, round : Rounds, txs : SUBSET Transaction, root : SUBSET Transaction]

ASSUME NoneAssumption == None \notin Block

VARIABLES
  height,          \* height the consensus core is at
  round,           \* its round
  current_height,  \* the engine's current_height
  decided_block_cache,
  last_proposed_drain,
  mempool,         \* pending transactions
  chain,           \* height -> block stored there, or None
  applied,         \* transactions in the committed state
  known,           \* proposals the consensus core holds, for this height and later
  bound,           \* block the validator has precommitted at this height, or None
  inbox,           \* proposals on their way: validator -> set of blocks
  certs,           \* blocks with a commit certificate
  submitted,       \* transactions clients have submitted
  restarts

engine == <<height, round, current_height, decided_block_cache, last_proposed_drain>>
store == <<chain, applied>>
core == <<known, bound>>
vars == <<engine, mempool, store, core, inbox, certs, submitted, restarts>>

-----------------------------------------------------------------------------
(* Helpers *)

Proposer(r) == (r % N) + 1

Running(n) == height[n] <= MaxHeight

\* StartHeight: the core drops what it holds of earlier heights.
StartHeight(n, h) ==
  /\ height' = [height EXCEPT ![n] = h]
  /\ round' = [round EXCEPT ![n] = 0]
  /\ known' = [known EXCEPT ![n] = {b \in @ : b.height >= h}]
  /\ bound' = [bound EXCEPT ![n] = None]

\* What BlockBuilder::build makes of the validator's pool: transactions that
\* were applied before are drained with the others and left out.
Built(n) ==
  LET txs == mempool[n] \ applied[n]
  IN [height |-> height[n], round |-> round[n], txs |-> txs,
      root |-> applied[n] \cup txs]

-----------------------------------------------------------------------------
(* Clients *)

\* Command::SubmitTx.
Submit(n, tx) ==
  /\ tx \notin submitted
  /\ submitted' = submitted \cup {tx}
  /\ mempool' = [mempool EXCEPT ![n] = @ \cup {tx}]
  /\ UNCHANGED <<engine, store, core, inbox, certs, restarts>>

-----------------------------------------------------------------------------
(* Consensus rounds *)

\* Effect::GetValue and the Input::Propose that follows it.
GetValue(n) ==
  LET b == Built(n)
  IN /\ Running(n)
     /\ n = Proposer(round[n])
     /\ bound[n] = None
     /\ \A k \in known[n] : <<k.height, k.round>> # <<height[n], round[n]>>
     /\ last_proposed_drain' =
          [last_proposed_drain EXCEPT ![n] = [height |-> height[n], txs |-> mempool[n]]]
     /\ decided_block_cache' = [decided_block_cache EXCEPT ![n] = b]
     /\ mempool' = [mempool EXCEPT ![n] = {}]
     /\ known' = [known EXCEPT ![n] = @ \cup {b}]
     /\ inbox' = [m \in Validators |-> IF m = n THEN inbox[m] ELSE inbox[m] \cup {b}]
     /\ UNCHANGED <<height, round, current_height, store, bound, certs, submitted, restarts>>

\* A proposer that has precommitted a block in an earlier round proposes that
\* one again; the engine only publishes it.
Repropose(n) ==
  /\ Running(n)
  /\ n = Proposer(round[n])
  /\ bound[n] # None /\ bound[n].round < round[n]
  /\ inbox' = [m \in Validators |-> IF m = n THEN inbox[m] ELSE inbox[m] \cup {bound[n]}]
  /\ UNCHANGED <<engine, mempool, store, core, certs, submitted, restarts>>

\* The heights whose inbound proposals replace the cached block.
Cacheable(n, b) == b.height \in {current_height[n], current_height[n] + 1}

\* An inbound proposal, in any order.
ReceiveProposal(n, b) ==
  /\ b \in inbox[n]
  /\ inbox' = [inbox EXCEPT ![n] = @ \ {b}]
  /\ decided_block_cache' = IF Cacheable(n, b) THEN [decided_block_cache EXCEPT ![n] = b]
                            ELSE decided_block_cache
  /\ known' = IF b.height >= height[n] THEN [known EXCEPT ![n] = @ \cup {b}] ELSE known
  /\ UNCHANGED <<height, round, current_height, last_proposed_drain, mempool, store, bound,
                 certs, submitted, restarts>>

\* Input::TimeoutElapsed takes the core to the next round.
NextRound(n) ==
  /\ Running(n)
  /\ round[n] < MaxRound
  /\ round' = [round EXCEPT ![n] = @ + 1]
  /\ UNCHANGED <<height, current_height, decided_block_cache, last_proposed_drain,
                 mempool, store, core, inbox, certs, submitted, restarts>>

\* The votes of a round: a quorum prevotes and precommits its block.
Precommit(quorum, b) ==
  /\ 3 * Cardinality(quorum) > 2 * N
  /\ \A n \in quorum : /\ Running(n) /\ height[n] = b.height /\ round[n] = b.round
                       /\ b \in known[n] /\ bound[n] = None
  /\ bound' = [n \in Validators |-> IF n \in quorum THEN b ELSE bound[n]]
  /\ certs' = certs \cup {b}
  /\ UNCHANGED <<engine, mempool, store, known, inbox, submitted, restarts>>

-----------------------------------------------------------------------------
(* Effect::Decide *)

\* Faulty variant: only the height of the cached block is compared.
MatchesHeightOnly(cached, cert) == cached # None /\ cached.height = cert.height

\* The cached block is the one the certificate names.
Matches(cached, cert) == cached # None /\ cached.height = cert.height /\ cached = cert

\* Faulty variant: the replayed root is not compared with the header's.
ReplaysUnchecked(n, b) == TRUE

\* commit_block's comparison of the replayed root with the header's.
Replays(n, b) == applied[n] \cup b.txs = b.root

\* commit_block and apply_commit, when they succeed.
CommitDecided(n, b) ==
  /\ chain' = [chain EXCEPT ![n][b.height] = b]
  /\ applied' = [applied EXCEPT ![n] = @ \cup b.txs]
  /\ mempool' = [mempool EXCEPT ![n] = @ \ b.txs]
  /\ current_height' = [current_height EXCEPT ![n] = b.height]

\* The stash of drained transactions once height h is decided.
StashAfter(stash, h) == IF stash # None /\ stash.height = h THEN None ELSE stash

\* A block that is missing, another, or does not replay is logged and
\* skipped; either way the drained transactions are dropped and the next
\* height starts (a single validator may wait for a transaction first: Node).
Decide(n, b) ==
  LET cached == decided_block_cache[n]
  IN /\ Running(n)
     /\ b \in certs /\ b.height = height[n] /\ b \in known[n]
     /\ decided_block_cache' = [decided_block_cache EXCEPT ![n] = None]
     /\ IF Matches(cached, b) /\ Replays(n, cached)
        THEN CommitDecided(n, cached)
        ELSE UNCHANGED <<store, mempool, current_height>>
     /\ last_proposed_drain' = [last_proposed_drain EXCEPT ![n] = StashAfter(@, height[n])]
     /\ StartHeight(n, height[n] + 1)
     /\ UNCHANGED <<inbox, certs, submitted, restarts>>

-----------------------------------------------------------------------------
\* A crash and a new start: the store is kept, the engine's state and the
\* core's are not, and validator.rs starts at the genesis height.
Restart(n) ==
  /\ n \in MayRestart /\ restarts[n] < MaxRestarts
  /\ restarts' = [restarts EXCEPT ![n] = @ + 1]
  /\ height' = [height EXCEPT ![n] = InitialHeight]
  /\ round' = [round EXCEPT ![n] = 0]
  /\ current_height' = [current_height EXCEPT ![n] = InitialHeight]
  /\ decided_block_cache' = [decided_block_cache EXCEPT ![n] = None]
  /\ last_proposed_drain' = [last_proposed_drain EXCEPT ![n] = None]
  /\ mempool' = [mempool EXCEPT ![n] = {}]
  /\ known' = [known EXCEPT ![n] = {}]
  /\ bound' = [bound EXCEPT ![n] = None]
  /\ UNCHANGED <<store, inbox, certs, submitted>>

-----------------------------------------------------------------------------
Init ==
  /\ height = [n \in Validators |-> InitialHeight]
  /\ round = [n \in Validators |-> 0]
  /\ current_height = [n \in Validators |-> InitialHeight]
  /\ decided_block_cache = [n \in Validators |-> None]
  /\ last_proposed_drain = [n \in Validators |-> None]
  /\ mempool = [n \in Validators |-> {}]
  /\ chain = [n \in Validators |-> [h \in Heights |-> None]]
  /\ applied = [n \in Validators |-> {}]
  /\ known = [n \in Validators |-> {}]
  /\ bound = [n \in Validators |-> None]
  /\ inbox = [n \in Validators |-> {}]
  /\ certs = {}
  /\ submitted = {}
  /\ restarts = [n \in Validators |-> 0]

Next ==
  \/ \E n \in Validators, tx \in Transaction : Submit(n, tx)
  \/ \E n \in Validators : GetValue(n)
  \/ \E n \in Validators : Repropose(n)
  \/ \E n \in Validators : \E b \in inbox[n] : ReceiveProposal(n, b)
  \/ \E n \in Validators : NextRound(n)
  \/ \E n \in Validators, quorum \in SUBSET Validators : \E b \in known[n] : Precommit(quorum, b)
  \/ \E n \in Validators : \E b \in certs : Decide(n, b)
  \/ \E n \in Validators : Restart(n)

Spec == Init /\ [][Next]_vars

-----------------------------------------------------------------------------
(* Properties *)

Drained(h) == [height : {h}, txs : SUBSET Transaction]

\* Types of the engine's state, of the store and of what is on the wire; the
\* stash, the votes and the proposals in hand are of no earlier height.
TypeOK ==
  /\ height \in [Validators -> InitialHeight..(MaxHeight + 1)]
  /\ round \in [Validators -> Rounds]
  /\ current_height \in [Validators -> InitialHeight..(MaxHeight + 1)]
  /\ decided_block_cache \in [Validators -> Block \cup {None}]
  /\ \A n \in Validators : last_proposed_drain[n] \in Drained(height[n]) \cup {None}
  /\ mempool \in [Validators -> SUBSET Transaction]
  /\ chain \in [Validators -> [Heights -> Block \cup {None}]]
  /\ applied \in [Validators -> SUBSET Transaction]
  /\ \A n \in Validators : \A b \in known[n] : b \in Block /\ b.height >= height[n]
  /\ \A n \in Validators : bound[n] = None \/ (bound[n] \in Block /\ bound[n].height = height[n])
  /\ inbox \in [Validators -> SUBSET Block]
  /\ certs \subseteq Block
  /\ submitted \subseteq Transaction
  /\ restarts \in [Validators -> 0..MaxRestarts]

Stored(n) == {h \in Heights : chain[n][h] # None}

Tip(n) == CHOOSE h \in Stored(n) : \A k \in Stored(n) : k <= h

\* The replicas' log: see ChainLog.  A validator whose cache was overwritten
\* by a late proposal or that lags skips a height; it never stores another
\* block there.
Log == INSTANCE ChainLog WITH Validators <- Validators, Heights <- Heights, Block <- Block, None <- None,
                             chain <- chain

LogSpec == Log!Spec

\* Validators that have not restarted and whose chains end in the same height
\* hold the same state, also if one of them skipped a block on the way.
ReplicasConverge ==
  \A n, m \in {k \in Validators : restarts[k] = 0 /\ Stored(k) # {}} :
    Tip(n) = Tip(m) => applied[n] = applied[m]

=============================================================================
