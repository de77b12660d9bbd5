---------------------------- MODULE Verification ----------------------------
(***************************************************************************)
(* The verifier role: its loop over finalized blocks                       *)
(* (crates/node/src/verifier_role.rs), the broadcast it takes them from    *)
(* (next_finalized_block of crates/consensus/src/engine.rs), the selection *)
(* by VRF, the re-execution and the dispute                                *)
(* (crates/verifier/src/selection.rs, reexec.rs and dispute.rs), over the  *)
(* blocks and batches of Receipts.                                         *)
(*                                                                         *)
(* A block's hash is its height, a VRF output the pair of key and input,   *)
(* and which outputs fall under the threshold is a constant.  A            *)
(* re-execution gives the text of the constant Reexecution, or fails where *)
(* it has none; the node's own back end (EngineReexecutor) always fails,   *)
(* for want of the prompt.                                                 *)
(***************************************************************************)
EXTENDS Receipts

CONSTANTS Reexecution,    \* receipt -> text, for the receipts that can be re-executed
          Under,          \* VRF outputs under the sampling threshold
          BLOCK_EVENT_CAPACITY,  \* of the broadcast of finalized blocks
          Key             \* the verifier's signing key

VARIABLES loop,         \* where the loop is
          block_events, \* heights received by the current subscription
          lagged,       \* whether the subscription lost some
          block_hash,   \* of the block being scanned
          todo,         \* its receipts still to look at
          under_way,    \* re-execution under way: the receipt and its selection
          disputes,     \* disputes submitted, in order
          scanned       \* history: heights taken from the broadcast, in order

verifierVars == <<loop, block_events, lagged, block_hash, todo, under_way, disputes, scanned>>
verificationVars == <<receiptVars, verifierVars>>

ASSUME VerificationAssumption ==
  /\ DOMAIN Reexecution \subseteq Receipt
  /\ BLOCK_EVENT_CAPACITY \in Nat \ {0}

-----------------------------------------------------------------------------
(* Pure parts *)

\* vrf_input, and the proof with the output it determines.
VrfInput(job, hash) == <<job, hash>>
VrfProve(key, input) == <<key, input>>

\* select_verifier
Selection(job, hash) ==
  [proof |-> VrfProve(Key, VrfInput(job, hash)), selected |-> VrfProve(Key, VrfInput(job, hash)) \in Under]

\* verify_selection, of a proof some key claims.
VerifySelection(key, job, hash, proof) ==
  proof = VrfProve(key, VrfInput(job, hash)) /\ proof \in Under

\* HashChainBuilder::for_job and absorb_bytes, and the verifier's chain, which
\* absorbs the whole text at once.
Seed(job) == <<"chain", job>>
Absorb(head, text) == <<"chain", head, text>>
RebuildHashChain(job, text) == <<Seed(job), Absorb(Seed(job), text)>>

\* verify_receipt once the text is there.
Diverged(r) == Last(RebuildHashChain(r.job, Reexecution[r])) # r.output

\* build_dispute
Dispute(r, proof) ==
  LET chain == RebuildHashChain(r.job, Reexecution[r])
  IN [job |-> r.job, claimed |-> r.output, reexec |-> Last(chain), chain |-> chain, vrf_proof |-> proof]

-----------------------------------------------------------------------------
(* The broadcast and the loop *)

\* The engine's send: a receiver that is full loses its oldest block.
Deliver(h) ==
  IF loop = "waiting"
  THEN /\ block_events' = Append(IF Len(block_events) < BLOCK_EVENT_CAPACITY THEN block_events ELSE Tail(block_events), h)
       /\ lagged' = (lagged \/ Len(block_events) = BLOCK_EVENT_CAPACITY)
  ELSE UNCHANGED <<block_events, lagged>>

Finalize ==
  /\ FinalizeBlock
  /\ Deliver(Len(blocks'))
  /\ UNCHANGED <<loop, block_hash, todo, under_way, disputes, scanned>>

\* next_finalized_block subscribes anew at every call.
Subscribe ==
  /\ loop = "between"
  /\ loop' = "waiting"
  /\ block_events' = <<>> /\ lagged' = FALSE
  /\ UNCHANGED <<receiptVars, block_hash, todo, under_way, disputes, scanned>>

\* The receipts of a block's batches, applied or rejected, in order.
WithReceipts(receipts, entry) == receipts \o entry.batch.receipts
ReceiptsIn(entries) == FoldLeft(WithReceipts, <<>>, entries)
ReceiptsOf(h) == ReceiptsIn(blocks[h])

\* Faulty variant: the parent's hash.
ParentFor(h) == h - 1

\* The hash the selection is for.
HashFor(h) == h

\* One block is taken and the subscription dropped with all it holds; after a
\* loss the first recv is an error and nothing is taken.
NextFinalizedBlock ==
  /\ loop = "waiting"
  /\ block_events # <<>>
  /\ IF lagged
     THEN /\ loop' = "between"
          /\ UNCHANGED <<block_hash, todo, scanned>>
     ELSE LET h == Head(block_events)
          IN /\ loop' = "scanning"
             /\ block_hash' = HashFor(h)
             /\ todo' = ReceiptsOf(h)
             /\ scanned' = Append(scanned, h)
  /\ block_events' = <<>> /\ lagged' = FALSE
  /\ UNCHANGED <<receiptVars, under_way, disputes>>

\* Faulty variant: the block is done with after one.
RestDropped(receipts) == <<>>

\* What is left of a block after a receipt is dealt with.
Rest(receipts) == Tail(receipts)

\* A receipt that is not selected, or has no hash chain, is passed over; for
\* another the re-execution starts.
Examine ==
  /\ loop = "scanning" /\ todo # <<>> /\ under_way = <<>>
  /\ LET r == Head(todo)
         selection == Selection(r.job, block_hash)
     IN IF selection.selected /\ r.proof = "HashChain"
        THEN /\ under_way' = <<r, selection.proof>>
             /\ UNCHANGED todo
        ELSE /\ todo' = Rest(todo)
             /\ UNCHANGED under_way
  /\ UNCHANGED <<receiptVars, loop, block_events, lagged, block_hash, disputes, scanned>>

\* The re-execution ends: on divergence a dispute is signed and submitted, to a
\* pool that refuses it; an error is logged.
Judge ==
  /\ under_way # <<>>
  /\ LET r == under_way[1]
     IN disputes' = IF r \in DOMAIN Reexecution /\ Diverged(r)
                    THEN Append(disputes, Dispute(r, under_way[2]))
                    ELSE disputes
  /\ under_way' = <<>>
  /\ todo' = Rest(todo)
  /\ UNCHANGED <<receiptVars, loop, block_events, lagged, block_hash, scanned>>

BlockDone ==
  /\ loop = "scanning" /\ todo = <<>>
  /\ loop' = "between"
  /\ UNCHANGED <<receiptVars, block_events, lagged, block_hash, todo, under_way, disputes, scanned>>

VerifierInit ==
  /\ loop = "between" /\ block_events = <<>> /\ lagged = FALSE
  /\ block_hash = 0 /\ todo = <<>> /\ under_way = <<>>
  /\ disputes = <<>> /\ scanned = <<>>

VerifierStep == Subscribe \/ NextFinalizedBlock \/ Examine \/ Judge \/ BlockDone

VerificationInit == ReceiptsInit /\ VerifierInit
VerificationNext ==
  \/ Collect /\ UNCHANGED verifierVars
  \/ Finalize
  \/ VerifierStep

VerificationSpec == VerificationInit /\ [][VerificationNext]_verificationVars

\* The verifier's task is polled as long as the node runs, and a re-execution
\* ends.
FairVerificationSpec == VerificationSpec /\ WF_verificationVars(VerifierStep)

-----------------------------------------------------------------------------
(* Properties *)

\* Whether a receipt of the block at height h calls for a dispute.
Disputable(r, h) ==
  /\ Selection(r.job, h).selected
  /\ r.proof = "HashChain"
  /\ r \in DOMAIN Reexecution /\ Diverged(r)

\* A dispute is well founded: some finalized block carries a receipt of its job
\* with the output it disputes, the verifier's selection can be verified for
\* that block, and its hash chain belongs to the job and ends elsewhere.
DisputesHold ==
  \A d \in ToSet(disputes) :
    /\ d.reexec # d.claimed /\ d.reexec = Last(d.chain) /\ Head(d.chain) = Seed(d.job)
    /\ \E h \in DOMAIN blocks :
         /\ VerifySelection(Key, d.job, h, d.vrf_proof)
         /\ \E r \in ToSet(ReceiptsOf(h)) : r.job = d.job /\ r.output = d.claimed

\* A block finalized while the verifier waits with nothing received is looked at
\* to the end: every receipt of it that calls for a dispute gets one, unless more
\* blocks arrive before the verifier's turn than the broadcast holds.
Caught(h) ==
  \/ lagged
  \/ \A r \in ToSet(ReceiptsOf(h)) : Disputable(r, h) =>
       \E d \in ToSet(disputes) : d = Dispute(r, Selection(r.job, h).proof)
DivergenceDisputed ==
  \A h \in 1..MaxBlocks : (loop = "waiting" /\ block_events = <<h>>) ~> (h \in DOMAIN blocks /\ Caught(h))

=============================================================================
