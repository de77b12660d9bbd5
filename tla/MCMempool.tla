----------------------------- MODULE MCMempool -----------------------------
(***************************************************************************)
(* Instance of Mempool for TLC.  Eight transactions of three senders cover *)
(* a fee bump on one slot, equal fees, a later nonce, a kind that enters   *)
(* under nonce 0 and so meets a transfer's slot, an unsupported kind and an*)
(* oversized one.  There are four slots, and three pending transactions or *)
(* five bytes fill the pool: both caps bite, and a large admission evicts  *)
(* two small ones.                                                         *)
(***************************************************************************)
EXTENDS Mempool

Make(kind, sender, nonce, fee, size, tag) ==
  [kind |-> kind, sender |-> sender, nonce |-> nonce, fee |-> fee, size |-> size, tag |-> tag]

MCTx == { Make("Transfer", "alice", 0, 30000, 1, 1),
          Make("Transfer", "alice", 0, 31000, 4, 2),
          Make("EscrowLock", "alice", 1, 31000, 1, 3),
          Make("Transfer", "bob", 0, 20000, 2, 4),
          Make("GovVote", "bob", 0, 0, 3, 5),
          Make("Transfer", "carol", 0, 25000, 1, 8),
          Make("StakeOp", "bob", 1, 0, 1, 6),
          Make("Transfer", "bob", 1, 90000, 6, 7) }

=============================================================================
