------------------------------- MODULE MCNode -------------------------------
(***************************************************************************)
(* Instance of Node for TLC: two accounts; two bids for alice's first      *)
(* nonce and one for her second; for bob a long one that fits a block but  *)
(* not a pool that holds one of alice's, one that fits no block and a      *)
(* stake operation, which the pool refuses.                                *)
(***************************************************************************)
EXTENDS Node

Transfer(a, n, fee, size, tag) ==
  [kind |-> "Transfer", sender |-> a, nonce |-> n, fee |-> fee, size |-> size, tag |-> tag]
MCTx == { Transfer("alice", 0, 2, 1, 1), Transfer("alice", 0, 3, 1, 2), Transfer("alice", 1, 3, 1, 3),
          Transfer("bob", 0, 3, 2, 4), Transfer("bob", 0, 7, 1, 5),
          [kind |-> "StakeOp", sender |-> "bob", nonce |-> 0, fee |-> 0, size |-> 1, tag |-> 6] }

=============================================================================
