------------------------------- MODULE Probes -------------------------------
(***************************************************************************)
(* The probe task of the verifier role (run_gossip_probes of               *)
(* crates/node/src/verifier_role.rs): it follows the offers of compute     *)
(* nodes on the network's broadcast and asks one of them, at every tick of *)
(* its timer, for an inference whose answer it never looks at.             *)
(*                                                                         *)
(* A probe listens on a subscription of its own, and the task to nothing   *)
(* else meanwhile: its own subscription fills up, and neither the timer    *)
(* nor the token is looked at.  Every handle to the network keeps its      *)
(* broadcast open, so neither subscription is ever closed.                 *)
(***************************************************************************)
EXTENDS Peering

CONSTANTS OfferedModels, \* lists of models an offer may carry
          MaxProbes,     \* bound: probes begun
          MaxGossip      \* bound: events of the network while the task runs

VARIABLES task,        \* "off", "running" or "done"
          known_peers, \* sequence of [peer, models]
          probe,       \* the probe under way: [step, peer, model]
          unread,      \* events its subscription holds or has lost
          cancelled,   \* the shutdown token
          probes,      \* bound: probes begun
          gossiped     \* bound: events of the network

taskVars == <<task, known_peers, probe>>
probesVars == <<taskVars, unread, cancelled, probes, gossiped>>

ASSUME ProbesAssumption == MaxProbes \in Nat /\ MaxGossip \in Nat

NoProbe == [step |-> "none"]

-----------------------------------------------------------------------------
(* The network, and the token *)

\* run: the task is spawned with the role, and subscribes.
Spawn ==
  /\ running /\ task = "off"
  /\ task' = "running"
  /\ events' = <<>>
  /\ UNCHANGED <<swarm, persisted, established, rejected, starts,
                 known_peers, probe, unread, cancelled, probes, gossiped>>

\* An event reaches the task's subscription and, if it waits for an answer, the
\* probe's.
Reaches(A) ==
  /\ task = "running" /\ gossiped < MaxGossip
  /\ gossiped' = gossiped + 1
  /\ A
  /\ unread' = IF probe.step = "waiting" THEN unread + 1 ELSE unread
  /\ UNCHANGED <<swarm, persisted, established, rejected, starts, taskVars, cancelled, probes>>

OfferArrives(p, models) == Reaches(Gossip([peer |-> p, models |-> models]))

OtherEvent(p) == Reaches(running /\ Emit([kind |-> "PeerConnected", peer |-> p]))

Cancel ==
  /\ ~cancelled
  /\ cancelled' = TRUE
  /\ UNCHANGED <<peeringVars, taskVars, unread, probes, gossiped>>

\* The network's task ends with the token.
NetworkEnds ==
  /\ cancelled /\ running
  /\ running' = FALSE
  /\ UNCHANGED <<dialed, connections, closing, routes, persisted, events, established, rejected, starts, probesVars>>

-----------------------------------------------------------------------------
(* The loop *)

Selects == task = "running" /\ probe = NoProbe

SelectCancelled ==
  /\ Selects /\ cancelled
  /\ task' = "done"
  /\ UNCHANGED <<peeringVars, known_peers, probe, unread, cancelled, probes, gossiped>>

\* A tick: any known peer is asked for the first model of its list, if it has one.
SelectTimer ==
  /\ Selects /\ probes < MaxProbes
  /\ \E i \in DOMAIN known_peers :
       /\ known_peers[i].models # <<>>
       /\ probe' = [step |-> "sending", peer |-> known_peers[i].peer, model |-> Head(known_peers[i].models)]
  /\ probes' = probes + 1
  /\ UNCHANGED <<peeringVars, task, known_peers, unread, cancelled, gossiped>>

\* The peer's first entry takes the offer's models, or it gets an entry.
Updated(known, offer) ==
  LET mine == {i \in DOMAIN known : known[i].peer = offer.peer}
  IN IF mine = {} THEN Append(known, offer)
     ELSE [known EXCEPT ![CHOOSE i \in mine : \A j \in mine : i <= j].models = offer.models]

\* An event: only offers matter, and a loss is passed over.
SelectEvent ==
  /\ Selects /\ events # <<>>
  /\ known_peers' = IF Head(events).kind = "GossipMessage"
                    THEN Updated(known_peers, Head(events).message)
                    ELSE known_peers
  /\ events' = Tail(events)
  /\ UNCHANGED <<swarm, persisted, established, rejected, starts,
                 task, probe, unread, cancelled, probes, gossiped>>

-----------------------------------------------------------------------------
(* probe_compute_node *)

ProbeOver ==
  /\ probe' = NoProbe
  /\ unread' = 0
  /\ UNCHANGED <<peeringVars, task, known_peers, cancelled, probes, gossiped>>

\* send_inference_request: the network takes the command and answers with the
\* request's id, or it has ended.
SendsRequest == running

\* The request is sent, and the probe subscribes.
SendProbe ==
  /\ probe.step = "sending"
  /\ IF SendsRequest
     THEN /\ probe' = [probe EXCEPT !.step = "waiting"]
          /\ UNCHANGED <<peeringVars, task, known_peers, unread, cancelled, probes, gossiped>>
     ELSE ProbeOver

\* An event is passed over, be it the answer or not; a loss ends the probe.
ProbeHears ==
  /\ probe.step = "waiting" /\ unread > 0
  /\ IF unread > EVENT_CAPACITY
     THEN ProbeOver
     ELSE /\ unread' = unread - 1
          /\ UNCHANGED <<peeringVars, taskVars, cancelled, probes, gossiped>>

\* Faulty variant: the probe waits without a deadline.
DeadlineNever == FALSE
\* timeout_at, which takes an event that is there first.
Deadline == unread = 0

ProbeTimeout == probe.step = "waiting" /\ Deadline /\ ProbeOver

-----------------------------------------------------------------------------

ProbesInit ==
  /\ task = "off" /\ known_peers = <<>> /\ probe = NoProbe /\ unread = 0
  /\ cancelled = FALSE /\ probes = 0 /\ gossiped = 0

Probing == SendProbe \/ ProbeHears \/ ProbeTimeout

ProbesNext ==
  \/ Spawn \/ Cancel \/ NetworkEnds
  \/ \E p \in Peer : OtherEvent(p) \/ \E models \in OfferedModels : OfferArrives(p, models)
  \/ SelectCancelled \/ SelectTimer \/ SelectEvent
  \/ Probing

-----------------------------------------------------------------------------
(* Properties *)

\* A peer is known once, however often it announces itself, so that no tick asks
\* it for what an entry left behind says (verifier_role.rs:289-296); and the task
\* ends with its token, also when it comes while a probe waits and the network,
\* which would have woken it, has gone before (verifier_role.rs:265-268, 351-365).
KnownOnce == \A i, j \in DOMAIN known_peers : known_peers[i].peer = known_peers[j].peer => i = j
ProbesEnd ==
  /\ []KnownOnce
  /\ (cancelled /\ task = "running") ~> (task = "done")

=============================================================================
