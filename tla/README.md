# arknet: TLA+ specifications

arknet is a decentralized inference network: validators run a BFT chain (Malachite) that pays for
inference jobs, routers hand jobs to compute nodes, verifiers spot-check the results. These modules
specify the part of it that decides about money, agreement and answers: the transaction pool, the
ledger a block is applied to, the engine that proposes, decides and commits blocks, the node around
it from the wallet to the block store, the routers with their free tier, the way of an inference
request and of its answer, the model files, the receipts and the verifier, the peers, and the
process from its genesis file to its exit. TLC checks them on small instances, and TLAPS proves
theorems about some of them for every value of the constants.

Paths below are under `src/crates/` unless they say otherwise.

## 1. Inventory

| Component | State | Operations | Hard behaviours | What makes it correct |
|---|---|---|---|---|
| Transaction pool, `consensus/src/mempool.rs` | `by_hash`, `by_priority`, `by_sender`, `current_bytes`, `next_seq` under one mutex | `insert`, `remove(_many)`, `drain_for_block`, `readmit` | one fact in three indexes and a counter; caps; eviction of the newcomer; readmission after newer bids | indexes agree, caps hold, only a higher fee displaces, the cheapest go first and no more than must |
| Chain state, `chain/src/state.rs` | RocksDB column families, tree of accounts, `BlockCtx` overlay, block store, transaction index | reads through or past the overlay, `commit`, `preview_state_root`, block and index writes, pruning | some tables have an overlay, some none, iterators never look at one; a commit is three writes | what one transaction writes the next respects; the index points at what is there |
| Transaction application, `chain/src/apply.rs`, `stake_apply.rs` | the open block | 16 transaction kinds | several transactions of a block on one entry; rejected ones that leave traces | nonces spent once, no overdraft, no value created, escrows and receipts paid once |
| Slashing and rotation, `staking/src/slashing.rs`, `validator_set.rs` | stakes, unbondings, validators | `apply_slash`, `recompute_validator_set` | reads committed entries while the block changes them | delegations safe from others, unbonding funds slashable to the end, only unstaked validators leave |
| Commit and epoch boundary, `consensus/src/commit.rs`, `block_builder.rs` | height, base fee, reward queue, proposals | `commit_block`, `epoch_boundary_mint`, `process_governance_proposals`, builder root and escrow refunds | two code paths compute one root; order of the boundary's steps; clocks | both roots agree; the epoch's budget is the limit; proposals only move forward |
| Pricing and emission libraries, `payments/src/pricing.rs`, `emission.rs` | price, demand of the epoch; budget, rollover, supply | record a job, `advance_epoch`, `try_mint` | several epochs at once, halvings, the cap | the price follows demand within its bounds; what an epoch left is carried over once |
| Consensus engine, `consensus/src/engine.rs`, `node/src/validator.rs` | `current_height`, `decided_block_cache`, `last_proposed_drain`, queue of inputs, timers | submit, propose, receive, time out, decide, wake up, restart | one cache slot written from two sides; late and early proposals; no log of votes; a select that starts over | one block per height; equal chains mean equal states; callers are served; shutdown is heard |
| Gossip codec, `consensus/src/{network_bridge,signing,validators}.rs` | - | encode, sign, classify, verify | the decoder fills in what the encoder dropped | what arrives is what was signed |
| Router, `router/src/*`, `compute/src/free_tier.rs`, `node/src/router_role.rs` | quota per wallet, pending ticks, candidates, breaker | accept, fail over, gossip and absorb consumption, hear offers | quota charged before dispatch; two routers' counters; an answer that races the timeout | no wallet overcharged, a request charged once and sent where its model was offered |
| Compute jobs, `compute/src/job.rs`, `node/src/compute_role.rs`, `l2_dispatch.rs` | replay cache, event streams, response channels | run, bridge events, dispatch, answer | bounded cache and queues; one response channel shared | a nonce runs once in the window; every client gets one well-formed stream |
| Inference, `inference/src/*`, `rpc/src/openai.rs` | session, undecoded bytes, event channel | decode, cut at stop strings, forward | characters and stop strings split over tokens; a full channel; a client that leaves | the client's text is the model's, up to where it was cut |
| Model manager, `model-manager/src/*` | index and files | get, download, insert, evict, `gc_for` | concurrent downloads and lookups, resumption | what is in a slot is the model, the cap holds |
| Receipts, `receipts/src/*`, `crypto/src/merkle.rs` | staged receipts, batches | stage, seal, anchor, prove | odd layers, two ways to a batch | a root stands for its receipts |
| Verifier, `verifier/src/*`, `node/src/verifier_role.rs` | block at hand, known peers, probe | follow blocks, select, re-execute, dispute, probe | missed broadcasts; a wait within a select | disputes well founded; divergences disputed |
| Network, `network/src/*`, `node/src/network_boot.rs` | peer book and its file, connections, response channels | connect, identify, reject, request, respond | several connections to a peer; crashes; bounded queues | the book follows the connections; a request ends |
| Client library, `sdk-rust/src/*` | candidates, session, response queue | listen, `infer` with retries | two calls on one queue; late answers | a call gets its own answer, or an error |
| Process, `node/src/cli/start.rs`, `scheduler.rs`, `chain/src/genesis.rs` | tasks, cancellation token | boot, serve, shut down | order of awaits; tasks that end early | the process ends when told to |
| Staking helpers, data availability, bindings, documentation, packaging | - | - | - | not modelled: section 8 |

How they interact. A wallet asks the RPC server for its nonce and hands a signed transaction to the
engine's command channel (`Command::SubmitTx`), which inserts it into the pool. When Malachite asks
the proposer for a value (`Effect::GetValue`), `BlockBuilder::build` drains the pool, applies the
transactions in a scratch `BlockCtx`, refunds expired escrows there, and puts the resulting root in
the header. The block is gossiped inside the proposal; every receiver keeps the last acceptable one in
`decided_block_cache`. At `Effect::Decide` the cached block is compared with the certificate and
handed to `commit_block`, which replays the transactions, slashes, runs the epoch boundary, compares
roots, writes one batch, then the block and its index entries; the engine removes the transactions
from the pool and broadcasts the block to the verifier. Compute nodes announce their models by gossip;
routers and clients keep them as candidates and send them requests. A compute node answers with the
stream of its session and stages a receipt, which reaches the chain in a batch under a Merkle root;
the verifier re-executes what its lot selects and submits a dispute where the outputs differ.

`PROJECT.json` lists every component with its status, and under `hazards` the places that are hard to
test, each at its line with the properties that watch it or the reason none does.

## 2. Modules

```
Mempool <- Node <- NodeProofs, MCNode
        <- MCMempool <- MCIntake
BlockState <- TxHandlers (+ Rewards) <- BlockEnd <- CommitBlock <- LedgerProofs,
                                                    MCLedger (+ Economics), MCGovernance
ChainLog (abstract) <= Engine <- MCEngine
Engine, Mempool <- ConsensusProofs
Messages <- Driver <- Process <- MCProcess
Quota <- Intake <- IntakeProofs, MCIntake
AnswerStream (abstract) <= Dispatch <- DispatchProofs, MCDispatch
ModelCache, Chat <- MCModelCache
Receipts <- Verification <- MCVerification <- MCNetwork
ModelCache, Chat, Verification <- ServingProofs
Peering <- Client, Probes <- MCNetwork
Client, Process <- NetworkProofs
FoldTheorems <- LedgerProofs, IntakeProofs, NodeProofs, ServingProofs, ConsensusProofs
```

**Mempool.** Every operation runs under the pool's mutex and is one action: `Insert` (with the whole
chain of rejections, the replacement and the eviction loop), `RemoveMany`, `DrainForBlock`. `readmit`
is a loop of `insert`s, modelled one insert per step with the mutex held (`readmitting`). A
transaction is a record of what the pool reads off it; the record is its hash. The eviction loop is
stated by its result: the victims are the keys below the longest prefix of the priority order that
fits. Hashes that are absent make `remove_many` a no-op, so `RemoveMany` requires one that is present.

**BlockState, TxHandlers, BlockEnd, CommitBlock**: the ledger; the tables, the handlers of the 16
transaction kinds, what a commit adds to them (slashes, rotation, rewards, governance), and the steps. `db` is the committed store and `ctx` the store as the open
block leaves it. What a handler reads is the substance of these modules: `BlockCtx` has an overlay for
accounts, stakes, unbondings, receipt marks and the unbonding counter, so handlers read `ctx` there;
for escrows, pending rewards, proposals, votes, models, gateways, TEE records, validators, base fee
and proposal counter the getters go to the database, and so do all iterators: they read `db`. One
action applies one transaction (`ApplyTx`, dispatching to one operator per transaction kind, as
`apply_tx` does). A rejected transaction changes nothing, so checks are guards; the exception is a
receipt batch with a duplicate, which leaves the marks of the receipts before it. `Commit` is all of
`commit_block` after the replay loop: slashes for every dispute in the block (accepted or not), then
at an epoch boundary rotation, reward minting and governance, then height and base fee. The header's
root is an input: `"replay"` is what the replay computes, `"builder"` is what `BlockBuilder::build`
computes with its escrow refunds. Its base fee is an input too: the next one is computed from it and
nothing compares it with the stored one. If the roots differ the block is dropped (`RootMismatch`). The state root
covers accounts only, as in the code, where only `set_account` feeds the tree.

**Economics** is the price oracle and the emission schedule as the library keeps them from one epoch
to the next: `PricingState` with its demand, smoothing and bounds, `EpochEmissionState` with budget,
rollover and cap. The commit path uses the schedule with a fresh state per epoch; that is in
`BlockEnd`.

**Engine.** All validators, with the gossip between them. The variables have the names of the engine
loop's locals, plus what is stored (`chain`, `applied`) and what Malachite holds (`height`, `round`,
`known`, `bound`). Malachite is external and assumed correct: a certificate needs more than two thirds
of the validators, each in that round, holding the proposal and not yet bound to another block;
`Decide` is raised once per height, at any later time. A block is its height, round, transactions and
root; the state is the set of applied transactions and a root is that set, so a replay matches exactly
when it starts from the state the proposer built on. `Decide` takes the cache whatever it holds,
commits it if it matches and replays, and moves on either way, as the code does. `Restart` keeps the
store and starts at the genesis height with nothing else, as `start_validator` does. **ChainLog** is
what the replicas promise together: one block per height, never two different ones on two validators.
It allows gaps, because the engine has them.

**Node** is one validator alone, with skip-block, composed with `Mempool`: the wallet fetches a nonce
and sends, the engine drains, builds, decides, and commits in the code's three writes (state, block,
index, with pruning), and RPC lookups read the store at any moment between them. `restarts` come at any
step.

**Messages, Driver, Process.** `Messages` says what encoding keeps of a vote and a proposal and what a
signature covers; a term of it is decoded to what the decoder makes of it. `Driver` is the engine's
loop: the gossip, which carries what validators sign and publish and anything else besides (forged
under another key, altered, of a later version, of another topic), the batch of queued inputs with the commands taken between two of them, then the `select!` over
shutdown, commands, gossip and timers; Malachite is a nondeterministic source of effects. `Process` is
`arknet start` around it: which genesis files boot, the order in which network, engine, servers and
role start, and the order in which they are awaited at the end.

**Quota, Intake.** `Quota` is the free tier on several routers, with hour and day buckets, the pending
records, and a mesh that loses, delays, reorders and repeats ticks. What no code calls, recording an
admitted job for the gossip, is a step of its own that comes later or never (`Record`). `Intake` is `Router::accept` in
the three steps its locks allow, with the signatures of request and delegation, the registry filled by
offers, which are unsigned and may come from anyone in any node's name (`Impersonate`), selection, job
ids, restarts, and the circuit breaker with each of its operations as an action, in any order.

**Dispatch, AnswerStream.** A request tries its ranked candidates. The local runner and a remote node
run the same job (replay cache, event bridge); the remote one is reached through the inference
protocol with its bounded queues, its table of response channels and the response receiver that all
dispatchers share under a mutex. `AnswerStream` is what the requester is promised: it hears one
candidate, in order, and then an end. `Dispatch` implements it.

**ModelCache.** A task per request, interrupted at every await, over names and files: a rename takes
a file with it that another download goes on writing to. A request over RPC opens the cache anew and so
has an index of its own, which the directory may leave behind; the others share the runtime's. Eviction removes the file, awaits, and
then takes the entry out of the index (`Prune`), whatever was put in the slot meanwhile. `crowded` is
raised when an insert makes room without counting a file (`Uncounted`): one that is about to be moved
in, or one in its slot that its index does not list. **Chat** is a completion over HTTP from the
request to its last event: the session thread, the channel, the handler that streams or collects.

**Receipts, Verification.** Hashes are terms. `Receipts` has the Merkle tree, the router's batches, the
compute node's batches of one, proposers that may put any receipts under a root they saw, and what the chain
decides about each batch. `Verification` is the verifier's loop over the broadcast of blocks.

**Peering, Client, Probes.** `Peering` handles the swarm's events over the peer book and its file.
`Client` is the SDK over one swarm, with calls that share a queue of responses. `Probes` is the
verifier's task that probes compute nodes it heard of.

The map from each definition to the lines it stands for is in `PROJECT.json` under `map`. Every
property has a faulty variant of one definition, written next to the correct one and marked
`Faulty variant`; putting it in makes TLC report that property under the same configuration.

## 3. Runs

Where a run has scenarios, a behaviour stays in one of them: the modules share a run, not a state.

| Run | Instance | Distinct states | Shows |
|---|---|---|---|
| `ledger` | scenarios payments (2 users, 2 jobs, epochs of 2 blocks), staking (operator, delegator, 2 nodes), 4 blocks of up to 2 transactions; pricing and emission over 6 epochs | 979,000 | `BlockSound`, `SupplyConserved`, `EscrowOnce`, `OneRewardPerReceipt`, `StakeKept`, `EpochCloses` |
| `governance` | scenarios governance (2 proposers, 2 voters, clocks 0 and 1 in any order, 5 blocks) and rotation (3 validators for 2 seats, registries); every block a boundary | 107,000 | `ProposalForward`, `VotesSettled`, `QuorumHeld`, `RotationFollowsStake` |
| `engine` | 2 validators, 3 heights of 2 rounds, one restart | 2,041,000 | `ReplicasConverge`, `LogSpec` (Engine implements ChainLog) |
| `node` | 2 accounts, 6 transactions, a pool of two bytes, 3 heights, one retained block, one restart | 736,000 | `IndexSound`, `UnknownExplained`, `OwedIsUsed` |
| `process` | 5 genesis files, 2 heights, 2 transactions, a query, gossip of another validator, in its name and of other kinds | 113,000 | `GossipFaithful`, `CommandsServed`, `Exits` |
| `dispatch` | 2 requests with two nonces, a local and a remote node that has seen one of them, all queues of one | 465,000 | `StreamWellFormed`, `ReplayWindow`, `Answered`, `StreamSpec` (Dispatch implements AnswerStream) |
| `admission` | scenarios pool (8 transactions, 3 senders, 4 slots, room for 3 transactions or 5 bytes, 6 admissions), gossip (2 routers, 3 requests, 4 hours over 2 days), discovery (2 nodes, and offers in their name) and breaker; one restart | 1,685,000 | `IndexesAgree`, `CapsHold`, `FeeBumpOnly`, `EvictsLowestFees`, `ChargesSound`, `SentWhereOffered`, `StoppedByBreaker` |
| `models` | scenarios cache (2 tasks, 3 models, a cache of two chunks that is empty at first or holds a model, one restart) and chat (3 tokens of 6 pieces, a channel of two) | 284,000 | `CacheSound`, `Answered`, `StreamFaithful`, `ChatAnswered` |
| `network` | scenarios node (2 peers, 2 addresses, a restart), client (2 calls, 2 candidates), verifier (2 probes, 4 events) and blocks (3 receipts, collected in one order, in 2 batches, 2 blocks, a broadcast that holds one) | 453,000 | `BookFollowsPeers`, `OwnAnswer`, `InferReturns`, `ProbesEnd`, `DisputesHold`, `InclusionProved`, `DivergenceDisputed` |
| `builder_roots` | the payments of `ledger` | - | `BuilderAgreesWithReplay` fails: section 6 |
| `merkle_roots` | the batches of `network`, in any order | - | `NoSecondPreimage` fails: section 6 |
| `breaker_boundary` | the breaker of `admission` | - | `BoundaryTrips` fails: section 6 |

**Bounds and why they are enough.** Each bound is a CONSTANT marked `bound` in its module.

- Pool: with six admissions into room for three it fills, evicts, drains and has a drained transaction
  return to a slot a newer bid has taken; five bytes make one large admission evict two small ones.
- Ledger: its hazards are pairs of transactions in one block (two withdrawals, a deposit and a
  dispute, a transfer and a vote's tally); four or five blocks let each lifecycle run to its end with
  one to spare (deposit, withdraw, wait, complete; lock, settle, boundary; propose, discuss, vote,
  resolve). Genesis refuses initial accounts, so the instances start as the tests of `commit.rs` do,
  with accounts and validators already written. Epoch length, unbonding period and minimum stakes are
  scaled down; percentages are the code's own, with amounts chosen so that every split rounds. The
  emission table has three years of two epochs, with heights past one and two halvings and a cap
  within reach.
- Engine: three heights let a proposal arrive one height early and one late, a height be skipped and a
  validator rejoin; two rounds let two blocks of a height be in flight.
- Node: three heights with one retained block let a looked-up block be pruned and, after a restart,
  be replaced; one transaction fits no block and one is refused by the pool. Two bytes are one long
  transaction or two short ones, so a long one evicts one that is owed a place, or is evicted itself.
- Process: a genesis that names the node alone, first or second of two, under a foreign operator, with
  an unreadable key and with an impossible gas limit. A transaction that no block takes is among those
  submitted, since it is what keeps the loop busy.
- Dispatch: with queues of one every queue can be full, and with two requests each can hold the
  receiver while the other's answer arrives. The remote node's cache holds one nonce and starts with that
  of one request: it is refused, until the other request has pushed its nonce out.
- Intake: four hours over days of three, limits of one and two, and a nonce cache of two: each limit
  is reached with ticks left to come, and a tick can return after it was forgotten. The breaker ends
  two epochs, with each trigger, an override and a guardian's halt, in any order.
- Models: two models do not fit together and one has two chunks, so a download can break off between
  them and another can go on in its file. Six pieces include halves of a character, a stop string
  within a piece and over two, and the empty piece.
- Verification: an honest receipt, one that claims another output and one with a quote for a proof;
  the broadcast holds one block, so a busy verifier misses one. The VRF's lots select all but one
  pair of job and block.
- Network: two connections at a time and a book over two addresses; two calls of two attempts each
  over a queue of one.

**Deadlock.** The chain, the pool, the routers and the stores stop at their bounds, the two processes
at their end; those configurations switch deadlock detection off and say so. What must not get stuck is
said by liveness properties instead: `OwedIsUsed`, `CommandsServed`, `Exits`, `Answered` (twice),
`ChatAnswered`, `DivergenceDisputed`, `InferReturns`, `ProbesEnd`.

**What the exceptions in the properties mean.** `SupplyConserved` speaks of blocks without overlapping
writes (`Overlapping`): a slash of a position the same block changed, two slashes of one node, two
settlements of one escrow. In those the code really creates or loses value; section 6.
`OneRewardPerReceipt` lets an `EscrowSettle` queue its reward again, since it counts no tokens.
`CacheSound` speaks of models that no two requests downloaded at once, and of the cap as long as every
insert that made room counted every other file (`crowded`); section 6 says what happens otherwise. `OwedIsUsed` and `Exits` except a
transaction that no block takes; `OwedIsUsed` excepts one that a higher bid for its nonce replaced, and one
that a full pool evicted for others that pay no less (`PushedOut`): the caps keep no promise to a
transaction whose turn has come. `InclusionProved` speaks of batches that apply, and of proofs whose
index is one of the batch; section 6. `ChargesSound` compares the job ids of one router; section 6.
`StoppedByBreaker` speaks of triggers that fire, not of those that `advance_epoch` has cleared. Dispatch's `Answered` excepts an answer longer than the channel it is
unpacked into. `DivergenceDisputed` is about blocks the verifier receives. `StreamWellFormed` lets a
stream without a token end twice.

## 4. Fairness

- `node`: `WF(EngineStep)`. The engine is one task that handles its queued inputs and Malachite's
  effects before anything else; an idle one polls every 100 ms and a heartbeat ends its wait. Nothing
  is assumed of wallets, lookups and restarts.
- `process`: `WF` of the engine's own steps; `SF` of each branch of its `select!`, since
  `tokio::select!` takes a ready branch at random and each stays ready until taken, though other
  inputs make the loop come round again; `WF` of the awaits at the end and of a query's reply.
- `dispatch`: `WF` of each router task (its timeouts end every wait), of the end of each network
  request (libp2p reports a response or a failure), and of a node's decoding and forwarding tasks.
- `models`: `WF` of every task's step (a download ends, breaks off or times out), of the session
  thread and of the handler. The client may leave or stay.
- `network`: `WF` of each call's step (the 120 s timeout ends a wait; tokio's mutex is handed on in
  order), `WF(Probing)` (the deadline), `SF(SelectCancelled)` for the random select, and
  `WF(VerifierStep)`; blocks and batches may stop coming.

The engine with several validators has no liveness property: a transaction drained for a proposal that
loses is dropped (section 6), so "submitted is applied" is false for a reason the code has.

## 5. Proofs

33 theorems, checked by TLAPS to the last leaf. 28 of them state a property that a run checks, and so
extend it from the run's instance to every value of the constants; of the others, four say that a
component's variables keep their types, and `ProposedApplies` that a decided block applies whole. Each
inductive invariant below was checked by TLC on its component's instance before it was proved.

| Module | Theorem | Property | Inductive invariant |
|---|---|---|---|
| `ConsensusProofs` | `TypeCorrect`, `Convergence`, `ImplementsLog` | `TypeOK`, `ReplicasConverge`, `LogSpec` | `IInv` |
| | `PoolTypeCorrect`, `IndexAgreement`, `PoolBounded`, `SlotsBumpFees` | `PoolTypeOK`, `IndexesAgree`, `CapsHold`, `FeeBumpOnly` | `PoolIInv` |
| | `LowestFeesEvicted` | `EvictsLowestFees` | `PoolBytesInv` |
| `LedgerProofs` | `BlockAlwaysSound` | `BlockSound` | `BlockInv` |
| | `EscrowCommittedOnce` | `EscrowOnce` | `EscrowInv` |
| | `CommittedVotesSettled` | `VotesSettled` | `VoteInv` |
| | `StakeAlwaysKept`, `ReceiptsEarnOnce`, `ProposalsMoveForward`, `RotationFollows`, `QuorumAlwaysHeld` | `StakeKept`, `OneRewardPerReceipt`, `ProposalForward`, `RotationFollowsStake`, `QuorumHeld` | `OpenBlockInv` |
| `NodeProofs` | `ProposedApplies`, `IndexIsSound`, `UnknownsAreExplained` | -, `IndexSound`, `UnknownExplained` | `NodeInv` |
| `IntakeProofs` | `TypeCorrect`, `BreakerStopsIntake` | `TypeOK`, `StoppedByBreaker` | `TypeInv` with `BreakerInv` |
| | `SentOnlyWhereOffered` | `SentWhereOffered` | `TypeInv`, `SentInv` |
| | `BooksAlwaysSound` | `ChargesSound` | `BooksInv` |
| `DispatchProofs` | `TypeCorrect`, `NoEarlyReplay` | `TypeOK`, `ReplayWindow` | `Typed`, `ReplayInv` |
| | `StreamAlwaysWellFormed`, `ImplementsAnswers` | `StreamWellFormed`, `StreamSpec` | `Typed`, `StreamInv` |
| `ServingProofs` | `AnswersAreFaithful` | `StreamFaithful` | `ChatInv` |
| | `CacheIsSound` | `CacheSound` | `CacheInv` |
| | `DisputesAreFounded` | `DisputesHold` | `DisputeInv` |
| `NetworkProofs` | `BookAlwaysFollows` | `BookFollowsPeers` | `BookInv` |
| | `OwnAnswerAlways` | `OwnAnswer` | `ClientInv` |
| | `GossipReachesCore` | `GossipFaithful` | `GossipInv` |

**Pool.** None of the three invariants is inductive alone: a removal rebuilds the priority index from
`by_hash` and the sender index from the slots, so its result is typed and within the caps only if the
indexes agreed before, and the eviction loop counts keys where the cap counts entries. `DiscardKeeps`
and `AdmitKeeps` carry `IInv` over the two ways the pool changes; drains, removals and readmissions are
instances of them. `SlotsBumpFees` needs `PoolIInv` to know that the slot's occupant is the one the fee
was compared with. `PoolBytesInv` adds that the byte counter is the sum of the pool's sizes
(`DiscardCounts`, `AdmitCounts`), which is what keeps the saturating subtractions of `remove_by_hash`
exact. The eviction then cuts the priority order after a prefix that fits and that its next key would
overfill, so the best of the victims (`BestVictim`) is a transaction the caps had no room for, and every
victim ranks below every key that stays (`AdmitEvicts`).

**Ledger.** The checks of a handler are made transaction by transaction against the tables of the
previous commit, while a property speaks of what one commit does, through a block of any size in which
later transactions see some of the earlier ones' writes and not others. So every proof relates the
open block `ctx` to the committed `db`. `BlockInv` has the types of both, of every amount that a slash,
a reward, a rotation or a proposal's outcome computes, and that ids and nonces are given out in order.
`EscrowInv` and `VoteInv` say that the open block extends what is committed. `OpenInv` says for each
position, mark, reward and proposal of the open block where it comes from: a delegation that shrank
has a withdrawal or a redelegation of its owner in the block, a queued reward with tokens has a mark
that the committed store lacks. `Writers` and `TableWriters` say which handlers touch a table, so that each
invariant is shown for those alone; `CommitOrDrop` says what ends a block. Assumed: the types of the
transactions and of the starting state, whose counters are ahead of the ids it holds
(`StartAssumption`), and that the absent entry is no entry (`AbsentAssumption`).

**Engine.** `Certified` says that behind every certificate there is a quorum whose members, but for
those that may restart, are bound to its block or past its height. With `QuorumsMeet`, that any two
quorums share a validator that cannot restart, a height has one certificate, and a chain stores only
certified blocks; `TipNamesState` adds that the tip of a validator that has not restarted names its
state, which is convergence. `QuorumsMeet` is the hypothesis of `Convergence` and `ImplementsLog`;
`ThirdRestarts` proves it wherever at most a third of the validators may restart, and the instance of
`engine`, with one of two, satisfies it as well. A hypothesis of this kind is needed: a restarted
validator has no log of its votes (section 6), so it may take part in two certificates of one height.

**Node.** The builder tries the drained transactions in the order of their priority and keeps those whose
turn it is; at the decision they are applied again, to the nonces of that moment. What it keeps is a
chain of turns, and a chain is applied whole (`TakenApplies`), so the two agree (`DecidedApplies`). A chain has no two transactions of one slot, which is why an entry that is
written later cannot meet an older one with its nonce (`BlockSpent`). Between the writes of the block
and of its last entry the block stays stored with what is left to index in it (`Indexing`): it is the
newest height, which pruning does not reach. `LookupHolds` carries a reader from the entry it found
over any number of commits to the block it then misses, so `UnknownExplained` has pruning or a replaced
block as the only reasons left. Assumed is `NodeAssumption`: the fields of a transaction, finitely many
of them, and limits that are numbers.

**Intake.** `NotOvercharged` compares a counter of one router with what all routers admitted, while
ticks are pending, on the mesh, repeated and forgotten. `TickInv` accounts for each job: a wallet's
counter at a router is what the ticks that the router knows tell and what it has yet to emit, no two
ticks of one router share a nonce, and a tick within the replay cache is not absorbed twice. `LimitInv`
keeps what was admitted below the counters while they may be asked for, across prunes. `JobInv`
relates salts and times. `SentInv` traces every candidate to an offer on the mesh. `BreakerInv` says of
each breaker that it is tripped if a trigger fired at its last evaluation, and that an override is of
the epoch it was given in (`Armed`); whatever moves the breaker keeps this, in any order.

**Dispatch.** `ReplayInv` describes the cache as the end of the list of accepted nonces. `StreamInv`
follows the events of an attempt through the decoder's channel, the bridge, the response and the
router's stream to the requester (`Flows`, `Delivers`, `Complete`): wherever they are, the tokens
count on from one place to the next and nothing follows a terminal event, in each state of the job.
`ImplementsAnswers` shows every step to be one of `AnswerStream` or a stutter, with `PhaseOf` and
`Shown` as the refinement mapping.

**Chat.** `Going` and `Closed` describe a session by what it has offered, the client's events followed by
the channel's: while nothing was refused they tell the decoded text but for the bytes held back, and
no stop string ends it before the last token; the reason it will give is right at every moment, also
before it is told. Text is a fold over events, reached through its values after each event
(`TextPasses`).

**Models.** `FilesInv` says at each place a request can be interrupted what its descriptor, the
directory and its index mean for its file: no two models share a file, a partial resumes where its
file ends and is hashed as far as it goes (`Resumes`, `Hashes`), and a file in a slot was verified,
as long as its model was never downloaded by two requests at once (`Alone`). The cap needs three more:
sizes in indexes and requests are those of the models (`Sized`), at most one request at a time is
between making room and moving its file in (`OnePlaces`), and that file fits beside all the others
(`Capped`). A first form of the property excused only inserts that overlap; the proof did not go
through, since a third request can make room from an index that does not list a file which is there
(section 6), and `crowded` excuses that as well. Assumed is `ModelCacheAssumption`: finitely many
models and requests, no empty model, and files enough for every name and every open descriptor.

**Verification.** The loop keeps the hash of the block at hand, what is left of its receipts and the
receipt under re-execution in three variables, while blocks go on being added. `Scanning` and
`RunSelected` tie them to that one block; `BlocksStay` says that a stored block never changes, so a
dispute that was founded stays so. That receipts come out of a block in their type, and a block of
batches in its own, are two folds (`ReceiptsTyped`, `BlockTyped`).

**Gossip.** `WireKeeps` is the round trip of the codec: whatever vote or proposal is signed and
published, classifying gives back what was signed and nothing else. An engine starts with nothing received
(`StartsOnce`), a batch is no longer than the queue it was taken from, and the queue is empty when the
`select!` fills it anew (`BatchHeld`), and every signed input in it was received (`QueuedReceived`); so a
message is either still queued or was judged under its sender's key. In the other direction a signature
that verifies under a key shows that the key signed the message (`SignedShows`, `AcceptsShown`), so of
what is forged, altered or replayed from another sender only what was signed is accepted. Nothing is
assumed of the gossip; `MessageAssumption` says that the messages of validators are votes and proposals.

**Network.** `NetworkSpec` lets the events of a node's swarm and the calls of a client happen
together, so it has the behaviours of the scenarios node and client of the run `network`. While the swarm runs its file
is the book; and a call waits for the answer to the last request it sent, in the mutex's queue once.

**FoldTheorems.** Sums over sets are folds, which the library defines by recursion over finite sets.
`SetInduction` and its kin state induction for one fixed set of subsets instead of an operator, which
is first-order; from it follow that a fold exists and is unique, and what a sum is over one element
more, over a union and under pointwise order. A fold over a sequence is shown to pass through one value
after each element (`FoldTrace`), which lets a proof count up from position to position; what a node
applies and what a client reads are such folds.

**What is only model-checked.**

- Liveness and everything under fairness: `OwedIsUsed`, `CommandsServed`, `Exits`, both `Answered`,
  `ChatAnswered`, `DivergenceDisputed`, `InferReturns`, `ProbesEnd`. The prover has neither `ENABLED`
  nor weak fairness.
- `SupplyConserved`: the value that each of the 16 handlers and each step of the boundary moves between
  five tables, which sums over rounded shares. The lemmas on sums are there; the bookkeeping is not.
- `EpochCloses`, `InclusionProved`: `Economics` and the Merkle tree of `Receipts` compute recursively,
  and what a recursive operator yields for all inputs cannot be stated to the provers.

## 6. Where code and comments part

Three disagreements have a run that exhibits them.

- `builder_roots`: the builder refunds expired escrows inside the header's root
  (`block_builder.rs:126-128`, `:168`), `commit_block` refunds none, so once a lock expires no block
  replays; and since only a commit could mark the escrow, no later one does.
- `merkle_roots`: `merkle.rs:4` and `:13-14` call the tree resistant to duplication and to second
  preimages. Leaves a, b, c and a, b, c, c have one root, since an odd layer pairs its last node with
  itself, and c has a proof at index 3 of 4. The chain keeps no such second batch, because a repeated
  receipt makes it reject; `InclusionProved` is about the batches it applies.
- `breaker_boundary`: `circuit_breaker.rs:158-159` asks for `advance_epoch` before `evaluate` at each
  boundary. It clears the failures and slashes that `evaluate` should find, so that of the triggers
  of `:9-11` only the missing validators are left.

The others were found while modelling, and the modules do what the code does.

Ledger:

- Two locks or two settlements of one job in one block both pass, although `payments/src/escrow.rs:17`
  says that a second escrow of a job is rejected; a second settlement pays again. The same holds for
  two votes of one voter and two proposals in one block, against the note before `apply_gov_vote`.
- A receipt batch rejected at a duplicate leaves the marks of the receipts before it; the comment at
  `chain/src/apply.rs:261` counts on a context that is dropped, which the committing one is not.
- A slash overwrites what the same block deposited into or withdrew from the position, and a rejected
  dispute slashes like an accepted one (`consensus/src/commit.rs:121`).
- `commit.rs:162-163` says that rewards queued in epoch N are minted at epoch N+1. One queued by the
  boundary block carries the ending epoch, after that epoch's queue was read. It is never minted.
- `commit.rs:88-91` says that the validator set is recomputed after the block's transactions "so stake
  deposits from this block count toward next-epoch membership". The ranking sums the stakes committed
  before the block (`validator_set.rs:121`): a validator without any that is given some in the boundary
  block loses its record all the same, and nothing on the commit path writes it again.
  `RotationFollowsStake` says what the ranking does, with the committed stakes; the scenario rotation
  of `governance` has such deposits.
- A failed commit is logged and the next height starts, where `commit.rs:17-20` says the engine should
  halt.
- `rewards.rs:6` says 75/7/5/5/3/5 where the constant is 80. `commit_block` passes constants for size,
  category, latency and uptime. Nothing in the node calls `PricingState`, the escrow library or
  `EpochEmissionState::advance_epoch` (`commit.rs:283-290` builds a fresh state per epoch), so
  rollover and cap do not act. Within the library, advancing over several epochs grants one budget
  only, and since demand can only lower the price below its genesis value the ceiling never acts.
- Seeding the genesis models is skipped if a height was committed, not "if CF_MODELS already has
  entries" (`node/src/validator.rs:83-84`); the models are outside the state root.

Engine, node and process:

- `engine.rs:709-712` says the cache is filled before `Decide`. It has one slot; a proposal of another
  round or of the next height replaces the decided block, which is then skipped.
- `engine.rs:790` says that a restart starts at the current height. `node/src/validator.rs:121` starts
  at the genesis height, and a lone validator then replaces blocks it had stored. There is no log of
  votes.
- The pool's caps evict transactions whose turn has come (`mempool.rs:242`) and were accepted for it;
  `OwedIsUsed` excepts them.
- `signing.rs:95` says that the signature of a proposal commits to the body through the value's id. The
  id hashes the header, whose `tx_root` names the body, but nothing compares the two: a body is bound
  by the replay's root only. `GossipFaithful` is about what the signature covers.
- `engine.rs:337` and `block_builder.rs:58` say that drained transactions are readmitted when their
  proposal loses. Nothing calls `readmit`: they are dropped.
- A single validator whose pool holds a transaction that fits no block (fee above the gas limit) never
  comes to its select again: it serves commands but does not hear shutdown (`engine.rs:389-405`),
  where `engine.rs:267` and the end-to-end test expect an orderly one. `Exits` excepts it.
- `arknet start --role verifier` boots no consensus engine (`cli/start.rs:74`), so the role fails at
  once. A metrics or RPC server that cannot bind is noticed at the end of the process only; a dead
  engine leaves the role running.
- Disputes that verifiers file never pass the pool (`verifier_role.rs:141`), nor do stake operations
  from the wallet; the pool's module comment says only transfers are admitted (`mempool.rs:9`).
- `get_tx` compares hashes as text; `/v1/status` names the initial height before a first commit; index
  entries of replaced blocks stay after a restart (`UnknownExplained`).

Router and compute:

- Nothing in the node calls the breaker's recording half, nor evaluates it. In the order of its tests
  (`circuit_breaker.rs:187-222`), which evaluate first, every trigger trips it; but a clean evaluation
  under an override leaves it tripped, and the next `advance_epoch` pauses it again, where `:16-17`
  has it reset after one clean epoch. A router that restarts starts with a new breaker.
- Nothing calls `PendingConsumption::record`: what a router charges never reaches the gossip, where
  `quota_gossip.rs:3-6` has any observed consumption published. The model records it at any later time, or never.
- A job id hashes the wallet, the time and a salt that counts from 0 on every router
  (`intake.rs:135-150`): two routers that admit a wallet's requests in one millisecond can give both
  one id. `IdsOfRouterUnique`, within `ChargesSound`, is about one router's.
- `job.rs:241` speaks of "a per-address FIFO of the last `cap` nonces", forgotten "once a user blows past
  `cap`". There is one FIFO for all addresses, so a user's nonces are forgotten once all users together
  are past it, as in the run `dispatch`; `ReplayWindow` counts the nonces of all.
- Offers are unsigned (`router_role.rs:84-119`): what a registry holds of a node is what was last
  claimed in its name. `SentWhereOffered` traces a request to an offer, its own or not.
- Ticks are deduplicated by wallet and the emitter's counter, which starts at 0 everywhere, so other
  routers' ticks, and those after a restart, are dropped: a wallet may use its quota once per router.
  A pending record that crosses an hour is moved whole to the new one.
- `wire.rs:97-98` and `inference/src/events.rs:3-4` promise exactly one `Stop`. A stream without a
  token gets two; one whose channel is full may get none.
- `PRIMARY_FIRST_TOKEN_TIMEOUT` does not cover the dispatch itself, during which a remote node
  collects its whole stream. The router role is never attached in the node.
- The verifier compares a hash chain of tokens (`reexec.rs:104-106`); the compute role's receipt hashes
  the token count and takes the batch id for a root (`compute_role.rs:328-375`).

Inference and models:

- `engine.rs:126` of the inference crate says a slow consumer back-pressures the decoder; a full
  channel cancels the session instead, and the collected answer is then told as stopped.
- Stop strings are looked for at the end of a token only, where `session.rs:33-34` says "any appears".
  Bytes that are no character hold everything behind them back until the end, and reach the summary
  only.
- Two requests that download one model append to one partial file, each hashing what it wrote itself
  (`puller.rs:149`); the first to finish renames a file of both requests' bytes into the slot, although
  `model-manager/src/lib.rs:4-6` says the bytes "have been hash-verified". Two inserts that overlap
  leave the cache above its "hard cap" (`cache.rs:38`); so does an insert whose index does not list a
  file in its slot, because another request put it there or because its own eviction, after the await,
  forgot one put back meanwhile (`cache.rs:219-226`). A hash mismatch deletes the partial file
  (`puller.rs:5-6` keeps it). Inference over RPC opens an engine of its own, where
  `runtime/mod.rs:11-12` says that one is shared.

Verifier, network, client:

- The broadcast is bounded and the subscription is renewed at every call, so blocks finalized meanwhile
  are missed, where `verifier_role.rs:3-4` says it "scans each block". `EngineReexecutor`, the node's
  own back end, always fails, for want of the prompt.
- A probe waits for any response and looks at none (`verifier_role.rs:244-246` says it verifies); a
  lagging subscription ends it; shutdown is not heard for up to 30 s.
- Inbound connections enter ephemeral addresses into the peer book; a dial in flight may reconnect a
  rejected peer; a peer of no protocol at all stays.
- `sdk-rust/src/discovery.rs:69` says the validator relays a request; it is sent to the candidate
  itself. The SDK decodes a list of events where nodes send an `InferenceResponse`.

## 7. Assumptions and abstractions

- Amounts are naturals. The code saturates at 128 bits; supplies here stay far below.
- Hashes do not collide, no two account tables share a root, and signatures are unforgeable terms.
- Pools (`pool_id`) are one more component of a position's key and are left out; so are the reward
  multipliers that the minting path fixes to 1.0.
- `parent_hash`, `tx_root` and the block's other header fields carry no behaviour: nothing checks them
  on commit. The base fee in the header is what the next one is computed from.
- `StakeOp`, `ReceiptBatch`, `Dispute`, `EscrowSettle` and `RewardMint` are not admitted by the pool, but
  `apply_tx` handles them and a proposer may carry them, so the ledger modules model them.
- `CommitBlock` commits consecutive heights; which heights a validator may skip is the engine's matter.
- The votes of a round are one step, and the validator set of the engine is fixed, as in the code.
- `Node` records a transaction as owed only while enough heights are left under the bound to apply it.
- Batches are made before the first block and blocks only while nothing is staged: what an aggregator
  does between two blocks commutes with them.
- No task panics; malformed input is refused before it reaches what is modelled, except where the
  models have it (unreadable genesis keys, malformed model names, undecodable gossip).
- libp2p, llama.cpp, RocksDB and tokio are external: each module says what it takes of them.

## 8. Not modelled, and why

- Malachite itself, represented by what the engine may assume of it.
- `staking/src/min_stake.rs`, `payments/src/escrow.rs` and `chain/src/da.rs`: helpers that nothing on
  the committed path calls.
- The batch builder's callers and `build_anchor_tx`: only tests use them.
- Parsing, formatting, metrics and command lines; the Merkle tree of accounts (a root stands for its
  accounts); sampling and llama.cpp; TEE quotes; Kademlia, ping and transports; bindings, the
  documentation site and packaging.

## 9. Plan

The system's core is modelled, and the safety of every component that a run checks is proved, but for
what section 5 leaves to TLC. What is left is `SupplyConserved`, table by table, from the lemmas on
sums: first the handlers, each of which moves value between two entries, then slashes, rewards and
deposits of a commit.
