------------------------------ MODULE Receipts ------------------------------
(***************************************************************************)
(* Receipts on their way into blocks: the batches a router collects, seals *)
(* and signs (crates/receipts/src/batch.rs and anchor.rs), the batch of    *)
(* one that a compute node makes for itself (submit_receipt of             *)
(* crates/node/src/compute_role.rs), and what apply_receipt_batch          *)
(* (crates/chain/src/apply.rs) decides about them block after block.       *)
(*                                                                         *)
(* The pool refuses receipt batches, so they reach a block through its     *)
(* proposer alone; a proposer may also put other receipts under a root it  *)
(* has seen, since the aggregator's signature and the batch id are checked *)
(* by nobody.  A batch stays in its block when it is rejected.             *)
(*                                                                         *)
(* A receipt is its job, the output hash it claims and its kind of proof.  *)
(***************************************************************************)
EXTENDS Integers, Sequences, SequencesExt, FiniteSets

CONSTANTS Receipt,         \* receipts that exist
          RECEIPT_BATCH_MAX,
          BatchSizeCap,    \* MAX_RECEIPT_BATCH_BYTES, in receipts
          MaxBatches,      \* bound: batches made
          MaxBlockBatches, \* bound: batches in a block
          MaxBlocks        \* bound: blocks

VARIABLES staged,       \* ReceiptBatchBuilder::receipts of the router
          batches,      \* batches made and known to proposers
          signed,       \* history: those among them an aggregator sealed and signed
          blocks,       \* finalized blocks, each its batches and their outcomes
          receipts_seen \* CF_RECEIPTS_SEEN

receiptVars == <<staged, batches, signed, blocks, receipts_seen>>

\* The kinds of proof; only hash chains can be recomputed.
ComputeProof == {"HashChain", "TeeQuote", "ZkProof"}

ASSUME ReceiptsAssumption ==
  /\ \A r \in Receipt : r.proof \in ComputeProof
  /\ RECEIPT_BATCH_MAX \in Nat \ {0} /\ BatchSizeCap \in Nat
  /\ MaxBatches \in Nat /\ MaxBlockBatches \in Nat /\ MaxBlocks \in Nat

Job == {r.job : r \in Receipt}

-----------------------------------------------------------------------------
(* The binary Merkle tree of crates/crypto/src/merkle.rs over abstract     *)
(* hashes: a hash is the term that was hashed, with its domain tag, so two *)
(* are equal exactly when the hashed values are.                           *)

HashLeaf(x) == <<"leaf", x>>
HashNode(left, right) == <<"node", left, right>>

-----------------------------------------------------------------------------
(* Building a tree *)

\* Faulty variant: the last of an odd layer moves up as it is.
ParentsPromoted(layer) ==
  [i \in 1..(Len(layer) + 1) \div 2 |->
     IF 2 * i <= Len(layer) THEN HashNode(layer[2 * i - 1], layer[2 * i]) ELSE layer[2 * i - 1]]

\* The layer above: neighbours hashed in pairs, the last of an odd layer with
\* itself.
Parents(layer) ==
  [i \in 1..(Len(layer) + 1) \div 2 |->
     HashNode(layer[2 * i - 1], layer[IF 2 * i <= Len(layer) THEN 2 * i ELSE 2 * i - 1])]

\* Layers above the leaves of a tree of some width.
Height[width \in Nat] == IF width <= 1 THEN 0 ELSE 1 + Height[(width + 1) \div 2]

\* All layers of a tree over a non-empty sequence, the leaves' at 0.
Layers(leaves) ==
  LET layer[k \in 0..Height[Len(leaves)]] ==
        IF k = 0 THEN [i \in 1..Len(leaves) |-> HashLeaf(leaves[i])] ELSE Parents(layer[k - 1])
  IN layer

Root(leaves) == Layers(leaves)[Height[Len(leaves)]][1]

-----------------------------------------------------------------------------
(* Inclusion proofs; indices start at 0 *)

Even(index) == index % 2 = 0

SiblingIndex(index, width) ==
  CASE ~Even(index)       -> index - 1
    [] index + 1 < width  -> index + 1
    [] OTHER              -> index

\* Proof for the leaf at an index below the number of leaves.
Proof(leaves, index) ==
  LET layers == Layers(leaves)
      sibling(k) == SiblingIndex(index \div 2^k, Len(layers[k]))
  IN [index |-> index, count |-> Len(leaves),
      siblings |-> [k \in 1..Height[Len(leaves)] |-> layers[k - 1][sibling(k - 1) + 1]]]

\* One layer up: the hash so far with its sibling on the side its index says,
\* or with itself at the end of an odd layer, where the sibling must be equal.
Climb(at, sibling) ==
  LET alone == Even(at.index) /\ at.index = at.width - 1
  IN [hash  |-> IF Even(at.index) THEN HashNode(at.hash, sibling) ELSE HashNode(sibling, at.hash),
      index |-> at.index \div 2,
      width |-> (at.width + 1) \div 2,
      ok    |-> at.ok /\ (alone => sibling = at.hash)]

VerifyProof(root, leaf, proof) ==
  LET start == [hash |-> HashLeaf(leaf), index |-> proof.index, width |-> proof.count, ok |-> TRUE]
      top == FoldLeft(Climb, start, proof.siblings)
  IN /\ proof.index < proof.count
     /\ Len(proof.siblings) = Height[proof.count]
     /\ top.ok /\ top.hash = root

-----------------------------------------------------------------------------
(* Batches *)

Batch(receipts, root) == [receipts |-> receipts, merkle_root |-> root]

\* compute_batch_id: the hash over the receipts' bodies.
BatchId(receipts) == <<"batch", receipts>>

Known(b) == batches' = batches \cup {b}

\* ReceiptBatchBuilder::push refuses receipts beyond the maximum.
Push(r) ==
  /\ Len(staged) < RECEIPT_BATCH_MAX
  /\ staged' = Append(staged, r)
  /\ UNCHANGED <<batches, signed, blocks, receipts_seen>>

\* seal and build_anchor_tx: the builder is consumed, whether its batch fits the
\* size cap or not.
Seal ==
  /\ staged # <<>>
  /\ Cardinality(batches) < MaxBatches
  /\ LET b == Batch(staged, Root(staged))
     IN IF Len(staged) <= BatchSizeCap
        THEN Known(b) /\ signed' = signed \cup {b}
        ELSE UNCHANGED <<batches, signed>>
  /\ staged' = <<>>
  /\ UNCHANGED <<blocks, receipts_seen>>

\* submit_receipt: a compute node's batch of one, with the batch id for a root.
SubmitOwn(r) ==
  /\ Cardinality(batches) < MaxBatches
  /\ Known(Batch(<<r>>, BatchId(<<r>>)))
  /\ UNCHANGED <<staged, signed, blocks, receipts_seen>>

\* Another batch under the root of a signed one: without its last receipt, with
\* that one repeated, or in another order.
Rewrap(b) ==
  /\ Cardinality(batches) < MaxBatches
  /\ \E receipts \in {Front(b.receipts), Append(b.receipts, Last(b.receipts)), Reverse(b.receipts)} :
       Known(Batch(receipts, b.merkle_root))
  /\ UNCHANGED <<staged, signed, blocks, receipts_seen>>

-----------------------------------------------------------------------------
(* Blocks *)

\* Faulty variant: a batch is looked up before any of it is marked.
RepeatedInChain(receipts, i, known) == receipts[i].job \in known

\* Whether the i-th receipt is of a job that was seen, earlier in its own batch
\* included.
Repeated(receipts, i, known) ==
  \/ receipts[i].job \in known
  \/ \E j \in 1..i - 1 : receipts[j].job = receipts[i].job

\* apply_receipt_batch: the outcome, and the jobs marked, which are all of the
\* batch or those before the first repeated one.
Anchored(b, known) ==
  LET repeated == {i \in DOMAIN b.receipts : Repeated(b.receipts, i, known)}
      marked == {i \in DOMAIN b.receipts : \A j \in repeated : i < j}
  IN IF b.receipts = <<>> \/ Root(b.receipts) # b.merkle_root
     THEN [applied |-> FALSE, seen |-> known]
     ELSE [applied |-> repeated = {}, seen |-> known \cup {b.receipts[i].job : i \in marked}]

\* Every block is applied on one overlay, committed with the marks of rejected
\* batches.
WithBatch(at, b) ==
  LET a == Anchored(b, at.seen)
  IN [seen |-> a.seen, entries |-> Append(at.entries, [batch |-> b, applied |-> a.applied])]
BlockOf(bs) == FoldLeft(WithBatch, [seen |-> receipts_seen, entries |-> <<>>], bs)

\* A block with any of the known batches is finalized (bound: none while the
\* router has receipts staged, whose batch no block could have yet).
FinalizeBlock ==
  /\ staged = <<>>
  /\ Len(blocks) < MaxBlocks
  /\ \E n \in 0..MaxBlockBatches : \E bs \in [1..n -> batches] :
       /\ blocks' = Append(blocks, BlockOf(bs).entries)
       /\ receipts_seen' = BlockOf(bs).seen
  /\ UNCHANGED <<staged, batches, signed>>

ReceiptsInit ==
  /\ staged = <<>> /\ batches = {} /\ signed = {} /\ blocks = <<>> /\ receipts_seen = {}

\* Bound: batches are made before the first block, which may then hold any of
\* them or none; made later, they would reach the same blocks.
Collect ==
  /\ blocks = <<>>
  /\ \/ \E r \in Receipt : Push(r) \/ SubmitOwn(r)
     \/ Seal
     \/ \E b \in signed : Rewrap(b)

-----------------------------------------------------------------------------
(* Properties *)

AppliedIn(block) == {block[k].batch : k \in {k \in DOMAIN block : block[k].applied}}

\* A signed root means its receipts: a batch that applies under the root of a
\* sealed one has the same receipts in the same order, each once.  An odd layer
\* is hashed as if its last node were doubled, so batches with receipts repeated
\* at the end share a root (merkle.rs:61-63); what keeps the repeated one out is
\* that apply_receipt_batch marks jobs while it walks the batch.
RootNamesReceipts(b) ==
  \A s \in signed :
    b.merkle_root = s.merkle_root =>
      /\ IsPrefix(b.receipts, s.receipts) /\ ToSet(b.receipts) = ToSet(s.receipts)
      /\ Cardinality({r.job : r \in ToSet(b.receipts)}) = Len(b.receipts)

\* All proofs of a receipt's place among some number of receipts that use the
\* hashes of a tree.
ProofsFrom(leaves) ==
  LET layers == Layers(leaves)
      hashes == UNION {ToSet(layers[k]) : k \in DOMAIN layers}
  IN UNION {{[index |-> i, count |-> n, siblings |-> s] : i \in 0..n - 1, s \in [1..Height[n] -> hashes]}
              : n \in 1..Len(leaves) + 1}

\* What one receipt's proof shows: that the batch has it, and, at an index below
\* the batch's length, that it has it there, whatever count the proof claims.  A
\* larger count may place the last receipts once more behind the end, see
\* NoSecondPreimage.
ProvesPlace(b, r, p) ==
  /\ r \in ToSet(b.receipts)
  /\ p.index < Len(b.receipts) => r = b.receipts[p.index + 1]

\* For a batch that applies, the root stands for its receipts, and inclusion can
\* be proved, and only inclusion: each receipt's proof verifies against the root
\* (proof and verify_proof treat the odd end of a layer alike), and a proof put
\* together from the tree's hashes verifies only for a receipt of the batch, in
\* its own place among the batch's indices.
InclusionProved ==
  [][\A n \in DOMAIN blocks' \ DOMAIN blocks : \A b \in AppliedIn(blocks'[n]) :
       /\ RootNamesReceipts(b)
       /\ \A i \in DOMAIN b.receipts :
            VerifyProof(b.merkle_root, b.receipts[i], Proof(b.receipts, i - 1))
       /\ \A r \in Receipt, p \in ProofsFrom(b.receipts) :
            VerifyProof(b.merkle_root, r, p) => ProvesPlace(b, r, p)]_blocks

-----------------------------------------------------------------------------
(* A claim of the comments that the code does not keep *)

RootOk(b) == b.receipts # <<>> /\ b.merkle_root = Root(b.receipts)

\* merkle.rs says the tree resists duplication, and that doubling the last node
\* of an odd layer is safe against second preimages: two batches under the root
\* of their receipts would have the same receipts.  Three receipts and the same
\* with the last repeated share theirs.
NoSecondPreimage ==
  \A b, c \in batches : RootOk(b) /\ RootOk(c) /\ b.merkle_root = c.merkle_root => b.receipts = c.receipts

=============================================================================
