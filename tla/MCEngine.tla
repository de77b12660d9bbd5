------------------------------ MODULE MCEngine ------------------------------
(***************************************************************************)
(* Instance of Engine for TLC: a few validators, two rounds of each height,*)
(* so that a late proposal of another round or of the previous height can  *)
(* arrive before the decision, and one transaction whose block a validator *)
(* may miss.                                                               *)
(***************************************************************************)
EXTENDS Engine

=============================================================================
