-------------------------------- MODULE Node --------------------------------
(***************************************************************************)
(* A node that is its chain's only validator, from the wallet to the block *)
(* store and back: the wallet's command line                               *)
(* (crates/node/src/cli/wallet.rs), the RPC endpoints of                   *)
(* crates/node/src/rpc.rs, the pool (Mempool, composed here), the engine   *)
(* loop with skip-block (crates/consensus/src/engine.rs), the writes of    *)
(* commit_block one by one, and the block store with its transaction index *)
(* and its pruning (crates/chain/src/state.rs).                            *)
(*                                                                         *)
(* One validator decides what it proposes, without rounds or timeouts; the *)
(* engine of several validators is Engine, and what a commit does to the   *)
(* ledger is CommitBlock.  Of an account only the nonce is kept: senders   *)
(* are funded, and a transfer applies when its nonce is the account's.     *)
(*                                                                         *)
(* The engine's task answers submissions between inputs, never while it    *)
(* commits; accounts, blocks and the index are read straight from the      *)
(* store, at any moment of a commit.                                       *)
(***************************************************************************)
EXTENDS Integers, Sequences, SequencesExt, FiniteSets

CONSTANTS Tx, MaxTxBytes, MaxCount, MaxBytes, BlockGas, BlockBytes, MaxSeq, \* of the pool
          InitialHeight, \* genesis.initial_height + 1
          Retention,     \* BLOCK_RETENTION
          MaxHeight,     \* bound: heights
          MaxSends,      \* bound: transfers sent
          MaxRestarts,   \* bound: restarts
          None           \* nothing

VARIABLES
  by_hash, by_priority, by_sender, current_bytes, next_seq, drained, readmitting, \* of the pool
  nonces,        \* committed state: nonce of each account
  blocks,        \* CF_BLOCKS: height -> transactions of the block there, or None
  tx_index,      \* CF_TX_INDEX: transaction -> height
  stage,         \* where the engine's task is
  height,        \* height the consensus core is at
  current_height,\* the engine's current_height
  block,         \* decided_block_cache: transactions of the block being decided
  todo,          \* transactions the running write, or deletion, has still to index, or drop
  wallet,        \* account -> the nonce its wallet has fetched, or None
  lookup,        \* the lookup of /v1/tx/:hash that is under way
  restarts,
  owed,          \* history: accepted transactions whose turn it was or had been, not evicted since
  rewritten,     \* history: heights whose stored block was replaced
  sent           \* bound: transfers sent

pool == <<by_hash, by_priority, by_sender, current_bytes, next_seq, drained, readmitting>>
store == <<nonces, blocks, tx_index>>
engine == <<stage, height, current_height, block, todo>>
history == <<owed, rewritten, restarts>>
vars == <<pool, store, engine, wallet, lookup, sent, history>>

P == INSTANCE Mempool

Account == {tx.sender : tx \in Tx}

Heights == InitialHeight..MaxHeight

ASSUME NodeAssumption ==
  /\ Tx \subseteq [kind : {"Transfer"} \cup P!Unsupported, sender : STRING, nonce : Nat,
                   fee : Nat, size : Nat, tag : Nat]
  /\ IsFiniteSet(Tx)
  /\ InitialHeight \in Nat \ {0} /\ Retention \in Nat
  /\ MaxHeight \in Nat /\ MaxSends \in Nat /\ MaxRestarts \in Nat
  /\ None \notin Seq(Tx)

-----------------------------------------------------------------------------
(* The wallet and other clients *)

\* Whether the engine's task takes commands.
Listening == stage \in {"propose", "decide", "waiting"}

\* The nonces /v1/account may give for an account: the committed one, or none,
\* which the wallet takes for 0, as it does every error.
Reported(a) == {nonces[a], 0}

\* `arknet wallet send` asks for its account.
Fetch(a) ==
  /\ wallet[a] = None
  /\ sent < MaxSends
  /\ sent' = sent + 1
  /\ \E n \in Reported(a) : wallet' = [wallet EXCEPT ![a] = n]
  /\ UNCHANGED <<pool, store, engine, lookup, history>>

\* The slots an admission empties: a full pool evicts what pays least.
PushedOut ==
  {s \in DOMAIN by_sender \ DOMAIN by_sender' :
     \A tx \in DOMAIN by_hash' : P!Fee(by_sender[s]) <= P!Fee(tx)}

\* /v1/tx hands the transaction to the engine's task, which asks the pool.
\* A transaction whose turn has come is owed a place in the chain once it is
\* accepted (as long as the instance has two more heights to give it), until
\* a full pool pushes it, or what outbid it for its nonce, out.
SubmitTx(tx) ==
  /\ Listening
  /\ IF P!Refused(tx)
     THEN UNCHANGED <<pool, owed>>
     ELSE /\ P!Insert(tx)
          /\ owed' = {t \in owed : P!Slot(t) \notin PushedOut} \cup
                     {t \in {tx} \cap DOMAIN by_hash' :
                        tx.nonce <= nonces[tx.sender] /\ height + 2 <= MaxHeight}
  /\ UNCHANGED <<store, engine, lookup, rewritten, restarts>>

\* What `wallet send` signs carries the fetched nonce; `wallet stake`, unstake,
\* complete-unbond and redelegate sign a stake operation, which has none.
Signable(tx) == tx.kind = "Transfer" => tx.nonce = wallet[tx.sender]

\* The wallet signs a transaction and submits it.
Send(tx) ==
  /\ wallet[tx.sender] # None
  /\ Signable(tx)
  /\ SubmitTx(tx)
  /\ wallet' = [wallet EXCEPT ![tx.sender] = None]
  /\ UNCHANGED sent

\* /v1/tx/:hash first reads the index (a hash without an entry is answered at
\* once) ...
FindHeight(tx) ==
  /\ lookup = None
  /\ tx \in DOMAIN tx_index
  /\ lookup' = [tx |-> tx, height |-> tx_index[tx]]
  /\ UNCHANGED <<pool, store, engine, wallet, sent, history>>

\* ... then the block the index names, and answers with the transaction's kind
\* and sender if it is in it, and with "unknown" if not.
FindInBlock ==
  /\ lookup # None
  /\ lookup' = None
  /\ UNCHANGED <<pool, store, engine, wallet, sent, history>>

Holds(txs, tx) == txs # None /\ Contains(txs, tx)

-----------------------------------------------------------------------------
(* The engine's task *)

\* Faulty variant: an old nonce is accepted again.
TurnOrLater(tx, at) == tx.nonce <= at[tx.sender]

\* The nonce check of apply_tx.
Turn(tx, at) == tx.nonce = at[tx.sender]

\* apply_tx, for the transactions in order: those whose turn it is.
Apply(start, txs) ==
  FoldLeft(LAMBDA acc, tx : IF Turn(tx, acc.nonces)
                            THEN [nonces |-> [acc.nonces EXCEPT ![tx.sender] = @ + 1],
                                  txs |-> Append(acc.txs, tx)]
                            ELSE acc,
           [nonces |-> start, txs |-> <<>>], txs)

\* Keys in the order the builder tries them, each before those it outranks.
InOrder(keys) ==
  {ranked \in SetToSeqs(keys) : \A i, j \in DOMAIN ranked : i < j => P!Outranks(ranked[i], ranked[j])}

\* An empty pool gives an empty drain.
Drain ==
  IF by_priority = {}
  THEN /\ drained' = {}
       /\ UNCHANGED <<by_hash, by_priority, by_sender, current_bytes, next_seq, readmitting>>
  ELSE P!DrainForBlock

\* Effect::GetValue: what does not apply is dropped silently.
Propose ==
  /\ stage = "propose"
  /\ height <= MaxHeight
  /\ Drain
  /\ \E ranked \in InOrder(drained') :
       block' = Apply(nonces, [i \in DOMAIN ranked |-> ranked[i].tx]).txs
  /\ stage' = "decide"
  /\ UNCHANGED <<store, height, current_height, todo, wallet, lookup, sent, history>>

\* Effect::Decide.  First the state, in one write batch.
CommitState ==
  /\ stage = "decide"
  /\ nonces' = Apply(nonces, block).nonces
  /\ stage' = "store"
  /\ UNCHANGED <<pool, blocks, tx_index, height, current_height, block, todo, wallet, lookup, sent, history>>

\* State::store_block: the body ...
StoreBlock ==
  /\ stage = "store"
  /\ blocks' = [blocks EXCEPT ![height] = block]
  /\ rewritten' = IF blocks[height] # None THEN rewritten \cup {height} ELSE rewritten
  /\ todo' = block
  /\ stage' = "index"
  /\ UNCHANGED <<pool, nonces, tx_index, height, current_height, block, wallet, lookup, sent, owed, restarts>>

\* ... then an entry for each transaction.
IndexTx ==
  /\ stage = "index"
  /\ IF todo = <<>>
     THEN stage' = "prune" /\ UNCHANGED <<tx_index, todo>>
     ELSE /\ tx_index' = [tx \in DOMAIN tx_index \cup {Head(todo)} |->
                            IF tx = Head(todo) THEN height ELSE tx_index[tx]]
          /\ todo' = Tail(todo)
          /\ UNCHANGED stage
  /\ UNCHANGED <<pool, nonces, blocks, height, current_height, block, wallet, lookup, sent, history>>

\* Faulty variant: one block too many is pruned.
PrunableOneMore == {h \in Heights : h <= height - Retention /\ blocks[h] # None}

\* prune_blocks_before: the stored heights below the retained ones, lowest
\* first.
Prunable == {h \in Heights : h < height - Retention /\ blocks[h] # None}

Lowest(hs) == CHOOSE h \in hs : \A k \in hs : h <= k

\* Faulty variant: the body is removed with the first of its entries.
BodyAfterAtOnce(h, left) == None

\* What is left of a body while entries of it are left.
BodyAfter(h, left) == IF left = {} THEN None ELSE blocks[h]

\* One turn: an entry of the lowest block, or its body once no entry is left.
Prune ==
  LET h == Lowest(Prunable)
      left == {i \in DOMAIN blocks[h] : blocks[h][i] \in DOMAIN tx_index}
      gone == IF left = {} THEN {} ELSE {blocks[h][Lowest(left)]}
  IN /\ stage = "prune"
     /\ IF Prunable = {}
        THEN stage' = "finish" /\ UNCHANGED <<blocks, tx_index>>
        ELSE /\ tx_index' = [tx \in DOMAIN tx_index \ gone |-> tx_index[tx]]
             /\ blocks' = [blocks EXCEPT ![h] = BodyAfter(h, left)]
             /\ UNCHANGED stage
     /\ UNCHANGED <<pool, nonces, height, current_height, block, todo, wallet, lookup, sent, history>>

\* The hashes remove_many is given.
Landed == {block[i] : i \in DOMAIN block}

\* The end of commit_block and of Decide: the pool drops what landed, and the
\* next height starts if it holds anything.
Finish ==
  /\ stage = "finish"
  /\ P!Discard(Landed)
  /\ drained' = {}
  /\ UNCHANGED readmitting
  /\ current_height' = height
  /\ block' = None
  /\ IF DOMAIN by_hash' = {}
     THEN stage' = "waiting" /\ UNCHANGED height
     ELSE stage' = "propose" /\ height' = height + 1
  /\ UNCHANGED <<store, todo, wallet, lookup, sent, history>>

Wake ==
  /\ stage' = "propose"
  /\ height' = current_height + 1
  /\ UNCHANGED <<pool, store, current_height, block, todo, wallet, lookup, sent, history>>

\* Skip-block: a transaction is there ...
WakeUp == stage = "waiting" /\ DOMAIN by_hash # {} /\ Wake

\* ... or the heartbeat's minute is over.
Heartbeat == stage = "waiting" /\ DOMAIN by_hash = {} /\ Wake

-----------------------------------------------------------------------------
\* The node goes down at any moment and starts at the genesis height with an
\* empty pool; the store is as the last write left it.
Restart ==
  /\ restarts < MaxRestarts
  /\ restarts' = restarts + 1
  /\ by_hash' = <<>> /\ by_priority' = {} /\ by_sender' = <<>> /\ current_bytes' = 0
  /\ drained' = {} /\ readmitting' = {}
  /\ UNCHANGED next_seq
  /\ stage' = "propose" /\ height' = InitialHeight /\ current_height' = InitialHeight
  /\ block' = None /\ todo' = <<>>
  /\ lookup' = None
  /\ owed' = {}
  /\ UNCHANGED <<store, wallet, sent, rewritten>>

Init ==
  /\ P!PoolInit
  /\ nonces = [a \in Account |-> 0]
  /\ blocks = [h \in Heights |-> None]
  /\ tx_index = <<>>
  /\ stage = "propose" /\ height = InitialHeight /\ current_height = InitialHeight
  /\ block = None /\ todo = <<>>
  /\ wallet = [a \in Account |-> None]
  /\ lookup = None
  /\ sent = 0
  /\ restarts = 0 /\ owed = {} /\ rewritten = {}

EngineStep == Propose \/ CommitState \/ StoreBlock \/ IndexTx \/ Prune \/ Finish \/ WakeUp

Next ==
  \/ \E a \in Account : Fetch(a)
  \/ \E tx \in Tx : Send(tx)
  \/ \E tx \in Tx : FindHeight(tx)
  \/ FindInBlock
  \/ EngineStep
  \/ Heartbeat
  \/ Restart

Spec == Init /\ [][Next]_vars

\* The engine's task runs on: a single validator's votes are its own, and an
\* idle engine polls the pool every 100 ms.
FairSpec == Spec /\ WF_vars(EngineStep)

-----------------------------------------------------------------------------
(* Properties *)

Stages == {"propose", "decide", "store", "index", "prune", "finish", "waiting"}

\* Types of the engine's and the store's state.
TypeOK ==
  /\ nonces \in [Account -> Nat]
  /\ blocks \in [Heights -> Seq(Tx) \cup {None}]
  /\ DOMAIN tx_index \subseteq Tx /\ tx_index \in [DOMAIN tx_index -> Heights]
  /\ stage \in Stages
  /\ height \in Nat /\ current_height \in Nat /\ InitialHeight <= height

\* A reader who follows the index finds the transaction in the block it names,
\* at every moment of a commit, of the pruning and after a crash in between;
\* only heights whose block a restarted engine replaced are excepted.
IndexPoints ==
  \A tx \in DOMAIN tx_index :
    tx_index[tx] \notin rewritten => Holds(blocks[tx_index[tx]], tx)

\* A transaction that can be found has been applied, whatever crashed in
\* between, and no two that can be found used one nonce of an account.
FoundIsApplied ==
  /\ \A tx \in DOMAIN tx_index : tx.nonce < nonces[tx.sender]
  /\ \A tx, other \in DOMAIN tx_index :
       tx.sender = other.sender /\ tx.nonce = other.nonce => tx = other

\* What a reader finds by the index is there, and was applied.
IndexSound == IndexPoints /\ FoundIsApplied

\* Blocks take transactions that fit their limits.
Fits(tx) == tx.fee <= BlockGas /\ tx.size <= BlockBytes

\* A transaction that was accepted when its turn had come, by a node that does
\* not crash, is applied in the end, or another of the same nonce is: neither
\* what is drained and dropped, nor an idle engine, nor a transaction that fits
\* no block stops it.  Only two things do: such a one that outbid it for its own
\* nonce, and a pool at its caps that evicts it for others that pay no less.
OwedIsUsed ==
  \A tx \in Tx : tx \in owed /\ Fits(tx) ~>
    \/ tx.nonce < nonces[tx.sender] \/ tx \notin owed
    \/ \E rival \in DOMAIN by_hash : P!Slot(rival) = P!Slot(tx) /\ ~Fits(rival)

\* A lookup that found the index entry and then not the transaction ran into
\* the pruning or into a block that a restarted node replaced: never into the
\* middle of a commit.
UnknownExplained ==
  [][lookup # None /\ lookup' = None /\ ~Holds(blocks[lookup.height], lookup.tx) =>
       \/ lookup.height \in rewritten \/ lookup.height < height - Retention
       \/ restarts' # restarts]_vars

=============================================================================
