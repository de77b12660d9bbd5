----------------------------- MODULE MCDispatch -----------------------------
(***************************************************************************)
(* Instance of Dispatch: two requests of two addresses try the same remote *)
(* node first, one of them the router's own node after it.  The remote node*)
(* has accepted the nonce of the first before: it is a replay there, until *)
(* the second has pushed its nonce out of the cache.                       *)
(***************************************************************************)
EXTENDS Dispatch

MCRanked == [q \in Request |-> IF q = "q1" THEN <<"remote", "home">> ELSE <<"remote">>]

MCMaxTokens == [q \in Request |-> IF q = "q1" THEN 1 ELSE 0]

MCNonce == [q \in Request |-> IF q = "q1" THEN "x" ELSE "y"]

MCInit == InitAfter([n \in Node |-> IF n = "remote" THEN <<"x">> ELSE <<>>])

MCSpec == MCInit /\ [][Next]_vars /\ Fairness

=============================================================================
