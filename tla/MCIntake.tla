------------------------------ MODULE MCIntake ------------------------------
(***************************************************************************)
(* Instance of Intake and of Mempool; a behaviour stays in one scenario.   *)
(*                                                                         *)
(* "gossip": two routers admit the requests of one wallet over the hours   *)
(* of two days and tell each other; no candidate is known.                 *)
(* "discovery": two nodes announce themselves, with and without a TEE and  *)
(* with equal stakes, to one router, and requests with and without a TEE   *)
(* and a delegation that expires arrive.  Somebody else may offer in       *)
(* the name of either node.                                                *)
(* "breaker": everything that moves the breaker of one router.             *)
(* "pool": MCMempool's transactions.                                       *)
(***************************************************************************)
EXTENDS Intake, MCMempool

CONSTANT Scenarios  \* those a run checks

VARIABLE scenario

\* "k" is the wallet's key and "s" that of a session it delegates to.
MCAddressOf == [k \in Key |-> IF k = "k" THEN "w" ELSE "sw"]

Sign(key, over) == [key |-> key, over |-> over]

Session ==
  LET body == [session |-> "s", expiry |-> 1, wallet |-> "w"]
  IN [body |-> body, main_key |-> "k", signature |-> Sign("k", body)]

PlainBody == [user |-> "k", model |-> "m", stamp |-> 1, empty |-> FALSE, encrypted |-> FALSE,
              prefer_tee |-> FALSE, max_tokens |-> 1, delegation |-> None]

ConfidentialBody ==
  [PlainBody EXCEPT !.user = "s", !.stamp = 0, !.empty = TRUE, !.encrypted = TRUE, !.prefer_tee = TRUE,
                    !.delegation = Session]

Signed(body, policy) == [body |-> body, signature |-> Sign(body.user, body), policy |-> policy]

MCRequestOf ==
  [q \in Request |-> IF q = 2 THEN Signed(ConfidentialBody, "Skip") ELSE Signed(PlainBody, "Enforce")]

\* What another claims for a node: a TEE, more stake and a time to come.
MCClaims == {[models |-> {"m"}, tee |-> TRUE, stake |-> 2, seen |-> 3]}

MCStakeOf == [p \in Peer |-> 1]

FirstRouter == CHOOSE r \in Router : TRUE

Routers == IF scenario = "gossip" THEN Router ELSE {FirstRouter}

Requests ==
  CASE scenario = "gossip" -> Request \ {2}
    [] scenario = "discovery" -> {1, 2}
    [] scenario = "breaker" -> {1}

\* The requests of the gossip scenario are alike: they arrive in one order.
InTurn(q) == scenario = "gossip" => \A p \in Requests : p < q => stage[p] # "new"

\* So are the routers: the first request arrives at the first.
RoutersOf(q) == IF q = 1 THEN {FirstRouter} ELSE Routers

MCInit == Init /\ PoolInit /\ scenario \in Scenarios

RouterNext ==
  /\ scenario # "pool"
  /\ \/ \E q \in Requests : (InTurn(q) /\ \E r \in RoutersOf(q) : Arrive(q, r)) \/ Consume(q) \/ Select(q)
     \/ scenario = "gossip" /\ Gossip
     \/ /\ scenario = "discovery"
        /\ \/ \E p \in Peer, models \in SUBSET Model, tee \in BOOLEAN : Announce(p, models, tee)
           \/ \E p \in Peer, claim \in Claims : Impersonate(p, claim)
           \/ \E r \in Routers, o \in offers : Hear(r, o)
     \/ scenario = "breaker" /\ \E r \in Routers : BreakerStep(r)
     \/ \E r \in Routers : Restart(r)
     \/ scenario # "breaker" /\ Advance

MCNext ==
  \/ RouterNext /\ UNCHANGED <<poolVars, scenario>>
  \/ scenario = "pool" /\ PoolNext /\ UNCHANGED <<vars, scenario>>

MCSpec == MCInit /\ [][MCNext]_<<vars, poolVars, scenario>>

=============================================================================
