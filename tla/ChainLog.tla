------------------------------ MODULE ChainLog ------------------------------
(***************************************************************************)
(* What the validators promise together: a log with one block per height.  *)
(* Each validator stores blocks at heights, in any order and with gaps; a  *)
(* block stored at a height by one is the only one any other may store     *)
(* there, and it is never replaced.                                        *)
(***************************************************************************)
EXTENDS Integers

CONSTANTS Validators, Heights, Block, None

VARIABLE chain    \* validator -> height -> block or None

Store(n, h, b) ==
  /\ \A m \in Validators : chain[m][h] \in {None, b}
  /\ chain' = [chain EXCEPT ![n][h] = b]

Init == chain = [n \in Validators |-> [h \in Heights |-> None]]

Next == \E n \in Validators, h \in Heights : \E b \in Block : Store(n, h, b)

Spec == Init /\ [][Next]_chain

=============================================================================
