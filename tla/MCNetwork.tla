----------------------------- MODULE MCNetwork ------------------------------
(***************************************************************************)
(* Four scenarios: "node", whose peers come, go and are rejected over a    *)
(* restart, "client", whose calls share the responses, "verifier", whose   *)
(* probe task follows the offers of two peers, and "blocks", in which a    *)
(* verifier follows MCVerification's receipts over the finalized blocks.   *)
(***************************************************************************)
EXTENDS Client, Probes, MCVerification, TLC

CONSTANTS p1, p2, p3, a1, a2, c1, c2

VARIABLE scenario

MCvars == <<vars, probesVars, verificationVars, scenario>>

MCAgent == (p1 :> [kind |-> "arknet", version |-> 1, network_id |-> "mainnet"])
           @@ (p2 :> [kind |-> "arknet", version |-> 1, network_id |-> "testnet"])
           @@ (p3 :> [kind |-> "arknet", version |-> 1, network_id |-> "mainnet"])
MCBootstrap == p1 :> a1
MCModel == (p1 :> {"m"}) @@ (p2 :> {}) @@ (p3 :> {"m"})
MCOfferedModels == {<<>>, <<"m">>}
MCStake == (p1 :> 2) @@ (p2 :> 1) @@ (p3 :> 1)

MCInit ==
  /\ PeeringInit /\ ClientInit /\ ProbesInit /\ VerificationInit
  /\ scenario \in {"node", "client", "verifier", "blocks"}

\* The node meets one peer of its network and one of another, at two addresses.
NodeNext ==
  /\ scenario = "node"
  /\ \/ Start \/ Stop
     \/ \E p \in {p1, p2} :
          \/ \E addr \in Address : ConnectionEstablished(p, addr) \/ OutgoingConnectionError(p, addr)
          \/ ConnectionClosed(p) \/ Identified(p)
  /\ UNCHANGED <<clientVars, probesVars>>

\* The client is started once, and meets one of the two candidates over one
\* connection, identified before it asks
\* anything; no offer arrives once it asks, since a call has read the table.
ClientNext ==
  /\ scenario = "client"
  /\ \/ /\ \/ starts = 0 /\ Start
           \/ \E p \in {p1, p3} :
                \/ established < 1 /\ ConnectionEstablished(p, a1)
                \/ OutgoingConnectionError(p, a1)
                \/ p = p1 /\ asked # <<>> /\ ConnectionClosed(p)
                \/ routes[p] = {} /\ asked = <<>> /\ Identified(p)
        /\ UNCHANGED clientVars
     \/ /\ asked = <<>>
        /\ \/ \E p \in {p1, p3}, at \in 0..now : PoolOffer(p, 1, at)
           \/ Listen
           \/ Tick
     \/ Calling
  /\ UNCHANGED probesVars

\* The verifier's network is started once.
Verifier(A) == scenario = "verifier" /\ A /\ UNCHANGED <<clientVars, verificationVars, scenario>>
VerifierNext ==
  \/ starts = 0 /\ Start /\ UNCHANGED probesVars
  \/ ProbesNext

\* A verifier's block loop.  The router collects receipts in one order, also
\* some of them twice; others come about by rewrapping.
InOrder(receipts) == \A i, j \in DOMAIN receipts : i < j => receipts[i].job <= receipts[j].job
Following(A) == scenario = "blocks" /\ A /\ UNCHANGED <<vars, probesVars, scenario>>

MCNext ==
  \/ (NodeNext \/ ClientNext) /\ UNCHANGED <<verificationVars, scenario>>
  \/ Verifier(VerifierNext)
  \/ Following(VerificationNext) /\ InOrder(staged')

\* A call's task runs on, and its waits end.  So do a probe's, and the probe
\* task's select takes what stays ready, and a block loop; a behaviour has one.
Fairness ==
  /\ \A c \in Call : WF_MCvars(scenario = "client" /\ CallStep(c) /\ UNCHANGED <<probesVars, verificationVars, scenario>>)
  /\ WF_MCvars(Verifier(Probing) \/ Following(VerifierStep))
  /\ SF_MCvars(Verifier(SelectCancelled))

MCSpec == MCInit /\ [][MCNext]_MCvars /\ Fairness

=============================================================================
