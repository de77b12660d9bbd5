------------------------------- MODULE Client -------------------------------
(***************************************************************************)
(* A client of the SDK (crates/sdk-rust): the candidate table filled from  *)
(* gossip (candidate_table.rs, discovery.rs), calls of Client::infer that  *)
(* share one swarm and one queue of responses (lib.rs, discovery.rs), and  *)
(* the request-response half of the network task (network.rs).             *)
(*                                                                         *)
(* The candidates are external: one asked may answer at any time while it  *)
(* is connected, also after the call gave up, and a request may fail at    *)
(* any time.  Time is now; the 120 s a call waits pass whenever it waits.  *)
(***************************************************************************)
EXTENDS Peering

CONSTANTS Call,              \* calls of Client::infer
          Model,             \* the models served by a peer: peer -> models
          WantedModel,       \* the model the calls ask for
          Stake,             \* peer -> total_stake of its offers
          CANDIDATE_TTL,
          SESSION_EXPIRY,    \* of the session key
          MAX_RETRIES,
          RESPONSE_CAPACITY, \* of the queue of responses
          MaxTime,           \* bound: the clock
          MaxOffers          \* bound: offers gossiped

VARIABLES now,
          offers,     \* bound: offers gossiped
          table,      \* CandidateTable: the offers upserted, one for a peer
          calls,      \* call -> [phase, left, request, result]
          waiters,    \* calls that hold or wait for the mutex of the responses, in order
          asked,      \* requests sent: their ids are the positions
          pending,    \* ids the network awaits an answer to
          responses   \* queue of responses: [request, peer, answer]

clientVars == <<now, offers, table, calls, waiters, asked, pending, responses>>
vars == <<peeringVars, clientVars>>

ASSUME ClientAssumption ==
  /\ DOMAIN Model = Peer /\ DOMAIN Stake = Peer
  /\ RESPONSE_CAPACITY \in Nat \ {0}
  /\ CANDIDATE_TTL \in Nat /\ SESSION_EXPIRY \in Nat /\ MAX_RETRIES \in Nat

-----------------------------------------------------------------------------
(* Discovery *)

\* A compute node gossips an offer of now, or one of an earlier time arrives late.
PoolOffer(p, slots, at) ==
  /\ offers < MaxOffers
  /\ offers' = offers + 1
  /\ Gossip([peer |-> p, available_slots |-> slots, timestamp |-> at])
  /\ UNCHANGED <<swarm, persisted, established, rejected, starts,
                 now, table, calls, waiters, asked, pending, responses>>

\* The gossip task takes an event: an offer replaces the peer's, anything else
\* is logged.
Listen ==
  /\ running /\ events # <<>>
  /\ LET event == Head(events) IN
       table' = IF event.kind = "GossipMessage"
                THEN {offer \in table : offer.peer # event.message.peer} \cup {event.message}
                ELSE table
  /\ events' = Tail(events)
  /\ UNCHANGED <<swarm, persisted, established, rejected, starts,
                 now, offers, calls, waiters, asked, pending, responses>>

\* The candidates of a model: fresh offers of peers that serve it.
EligibleFor(model) ==
  {offer \in table : now - offer.timestamp <= CANDIDATE_TTL /\ model \in Model[offer.peer]}

\* Their order: by slots, then by stake; a tie falls either way.
Precedes(a, b) ==
  \/ a.available_slots > b.available_slots
  \/ a.available_slots = b.available_slots /\ Stake[a.peer] >= Stake[b.peer]
Rankings(candidates) ==
  {s \in SetToSeqs(candidates) : \A i, j \in DOMAIN s : i < j => Precedes(s[i], s[j])}

-----------------------------------------------------------------------------
(* Client::infer *)

Done(c, result) ==
  calls' = [calls EXCEPT ![c] = [@ EXCEPT !.phase = "done", !.result = result]]

\* The call: the session key must be valid and some candidate must serve the model.
Infer(c) ==
  /\ calls[c].phase = "idle"
  /\ IF now > SESSION_EXPIRY \/ EligibleFor(WantedModel) = {}
     THEN Done(c, [kind |-> "refused"])
     ELSE \E ranking \in Rankings(EligibleFor(WantedModel)) :
            calls' = [calls EXCEPT ![c].phase = "next",
                                   ![c].left = SubSeq(ranking, 1, IF MAX_RETRIES < Len(ranking)
                                                                  THEN MAX_RETRIES ELSE Len(ranking))]
  /\ UNCHANGED <<peeringVars, now, offers, table, waiters, asked, pending, responses>>

\* No candidate left: AllComputeNodesBusy.
GiveUp(c) ==
  /\ calls[c].phase = "next" /\ calls[c].left = <<>>
  /\ Done(c, [kind |-> "AllComputeNodesBusy"])
  /\ UNCHANGED <<peeringVars, now, offers, table, waiters, asked, pending, responses>>

\* send_inference: the request is given to the swarm, which dials a peer it has
\* no connection to at the addresses it was told; the call queues for the responses.
SendInference(c) ==
  /\ calls[c].phase = "next" /\ calls[c].left # <<>>
  /\ LET p == Head(calls[c].left).peer IN
       IF running
       THEN /\ asked' = Append(asked, [call |-> c, peer |-> p])
            /\ pending' = pending \cup {Len(asked) + 1}
            /\ calls' = [calls EXCEPT ![c].phase = "waiting", ![c].request = Len(asked) + 1,
                                      ![c].left = Tail(@)]
            /\ waiters' = Append(waiters, c)
            /\ dialed' = IF connections[p] > 0 THEN dialed ELSE dialed \cup {p} \X routes[p]
       ELSE /\ calls' = [calls EXCEPT ![c].left = Tail(@)]
            /\ UNCHANGED <<asked, pending, waiters, dialed>>
  /\ UNCHANGED <<running, connections, closing, routes, persisted, events, established, rejected,
                 starts, now, offers, table, responses>>

\* Faulty variant: the response is taken from the peer asked, whatever request it answers.
MineByPeer(c, response) == response.peer = asked[calls[c].request].peer
\* The response to the call's own request.
Mine(c, response) == response.request = calls[c].request

\* The holder of the mutex takes a response: its own ends the attempt, with the
\* answer or for the next candidate; another's is discarded.
Receive(c) ==
  /\ waiters # <<>> /\ Head(waiters) = c
  /\ responses # <<>>
  /\ responses' = Tail(responses)
  /\ LET response == Head(responses) IN
       IF ~Mine(c, response)
       THEN UNCHANGED <<calls, waiters>>
       ELSE /\ waiters' = Tail(waiters)
            /\ IF response.answer \in {"failed", "busy"}
               THEN calls' = [calls EXCEPT ![c].phase = "next"]
               ELSE Done(c, [kind |-> "answer", request |-> response.request, peer |-> response.peer])
  /\ UNCHANGED <<peeringVars, now, offers, table, asked, pending>>

\* Faulty variant: the wait for a response has no end.
SilenceNever(c) == FALSE /\ UNCHANGED vars
\* The holder has waited 120 s without a response, or the swarm has stopped.
Silence(c) ==
  /\ waiters # <<>> /\ Head(waiters) = c
  /\ responses = <<>>
  /\ waiters' = Tail(waiters)
  /\ calls' = [calls EXCEPT ![c].phase = "next"]
  /\ UNCHANGED <<peeringVars, now, offers, table, asked, pending, responses>>

-----------------------------------------------------------------------------
(* The network's half *)

\* A response is queued for the client, and lost when the queue is full.
Respond(id, answer) ==
  /\ id \in pending
  /\ pending' = pending \ {id}
  /\ responses' = IF Len(responses) < RESPONSE_CAPACITY
                  THEN Append(responses, [request |-> id, peer |-> asked[id].peer, answer |-> answer])
                  ELSE responses
  /\ UNCHANGED <<peeringVars, now, offers, table, calls, waiters, asked>>

\* The candidate answers, over a connection.
Answer(id, answer) == running /\ connections[asked[id].peer] > 0 /\ Respond(id, answer)

\* The dial or the connection fails, or 300 s have passed.
OutboundFailure(id) == running /\ Respond(id, "failed")

\* Client::shutdown: the swarm's task ends and the requests with it.
Shutdown ==
  /\ running
  /\ running' = FALSE
  /\ dialed' = {} /\ connections' = [p \in Peer |-> 0] /\ closing' = [p \in Peer |-> 0]
  /\ events' = <<>>
  /\ pending' = {}
  /\ UNCHANGED <<routes, persisted, established, rejected, starts,
                 now, offers, table, calls, waiters, asked, responses>>

Tick ==
  /\ now < MaxTime
  /\ now' = now + 1
  /\ UNCHANGED <<peeringVars, offers, table, calls, waiters, asked, pending, responses>>

-----------------------------------------------------------------------------

ClientInit ==
  /\ now = 0 /\ offers = 0
  /\ table = {}
  /\ calls = [c \in Call |-> [phase |-> "idle", left |-> <<>>, request |-> 0, result |-> [kind |-> "none"]]]
  /\ waiters = <<>> /\ asked = <<>> /\ pending = {} /\ responses = <<>>

CallStep(c) == GiveUp(c) \/ SendInference(c) \/ Receive(c) \/ Silence(c)

Calling ==
  \/ \E c \in Call : Infer(c) \/ CallStep(c)
  \/ \E id \in pending : \/ \E answer \in {"tokens", "busy"} : Answer(id, answer)
                         \/ OutboundFailure(id)
  \/ Shutdown

-----------------------------------------------------------------------------
(* Properties *)

\* Calls that share the queue do not take each other's answers: a call that ends
\* with an answer has the one to the last request it sent itself, from the
\* candidate it sent it to, and not the late one to a request it had given up
\* (discovery.rs:77-90).
OwnAnswer ==
  \A c \in Call :
    calls[c].result.kind = "answer" =>
      LET result == calls[c].result IN
        /\ asked[result.request] = [call |-> c, peer |-> result.peer]
        /\ \A later \in result.request + 1..Len(asked) : asked[later].call # c

\* Every call ends, with an answer or an error, whatever is lost: each candidate
\* is waited for a bounded time, and the mutex is passed on (lib.rs:179-205).
InferReturns ==
  \A c \in Call : calls[c].phase \in {"next", "waiting"} ~> calls[c].phase = "done"

=============================================================================
