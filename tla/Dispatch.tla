------------------------------ MODULE Dispatch ------------------------------
(***************************************************************************)
(* An inference request on its way from the router to a compute node and   *)
(* back: router/src/failover.rs, node/src/l2_dispatch.rs, the inference    *)
(* half of network/src/network.rs, node/src/compute_role.rs,               *)
(* compute/src/job.rs and the decoding loop of crates/inference.           *)
(*                                                                         *)
(* Every request is a task of the router that tries its ranked candidates  *)
(* in turn.  The router's own node is reached through a local runner, any  *)
(* other through a request on the network.  All remote dispatches share    *)
(* one channel of responses behind a mutex: whoever holds it takes every   *)
(* message off and drops those that are not its own.                       *)
(*                                                                         *)
(* The decoder pushes events into a bounded channel without waiting; tasks *)
(* move them on with blocking sends, which are merged here into one move   *)
(* per event (Bridge).  A remote node collects the whole stream before it  *)
(* answers.  libp2p is external: an outbound request ends in exactly one   *)
(* response or failure, whatever became of it at the other side.           *)
(***************************************************************************)
EXTENDS Integers, Sequences, FiniteSets, SequencesExt

CONSTANTS Request,     \* inference requests
          Node,        \* compute nodes
          Home,        \* the router's own node
          Ranked,      \* request -> its candidates, best first; with none it ends at once
          Nonce,       \* request -> its (billing address, nonce)
          MaxTokens,   \* request -> the tokens its text may have, its max_tokens at most
          EventCap,    \* capacity of the decoder's event channel
          StreamCap,   \* capacity of the channel a response is unpacked into
          InboundCap,  \* capacity of a node's queue of inbound requests
          ResponseCap, \* capacity of the router's response channel
          NonceCap,    \* NONCE_CACHE_CAP
          None

ASSUME DispatchAssumption ==
  /\ IsFiniteSet(Request) /\ Home \in Node /\ None \notin Request
  /\ Ranked \in [Request -> Seq(Node)]
  /\ \A q \in Request : Ranked[q] # <<>> /\ IsInjective(Ranked[q])
  /\ DOMAIN Nonce = Request
  /\ MaxTokens \in [Request -> Nat]
  /\ {EventCap, StreamCap, InboundCap, ResponseCap, NonceCap} \subseteq Nat \ {0}

\* A request at one of its candidates, also the id of the outbound request.
Attempt == UNION {{<<q, i>> : i \in DOMAIN Ranked[q]} : q \in Request}

NodeOf(a) == Ranked[a[1]][a[2]]

Remote == {a \in Attempt : NodeOf(a) # Home}

VARIABLES
  pc,        \* where the router's task for a request is
  at,        \* the candidate it is trying
  holder,    \* the task that holds response_rx, or None
  replies,   \* the response channel
  outbound,  \* outbound requests the network has not ended yet
  pending,   \* pending_channels of the nodes
  nonces,    \* a node's replay cache, oldest first
  accepted,  \* history: every nonce a node has accepted
  job,       \* where the job of an attempt is
  made,      \* tokens it has generated
  cancelled, \* attempts whose decoder was refused a token
  chan,      \* events in the decoder's channel
  listening, \* attempts whose decoder still has a receiver
  out,       \* events handed on to the dispatcher, or collected for a response
  wanted,    \* attempts whose stream the router still reads
  user       \* events the requester has received

router == <<pc, at, holder, user>>
net == <<replies, outbound>>
cache == <<nonces, accepted>>
decoder == <<made, cancelled>>
vars == <<router, net, pending, cache, job, decoder, chan, listening, out, wanted>>

-----------------------------------------------------------------------------
(* Events *)

Token(a, i) == [of |-> a, kind |-> "Token", index |-> i]

Stop(a, why) == [of |-> a, kind |-> why, index |-> 0]

Error(a) == [of |-> a, kind |-> "Error", index |-> 0]

Event == [of : Attempt, kind : {"Token", "Done", "Cancelled", "Error"}, index : Nat]

\* Stop, with either reason, or Error.
Terminal(e) == e.kind # "Token"

HasTerminal(s) == \E i \in DOMAIN s : Terminal(s[i])

Cur(q) == <<q, at[q]>>

-----------------------------------------------------------------------------
(* The router: dispatch_with_failover and dispatch_one *)

\* A candidate failed before its first event: the next one, or an error.
Failed(q) ==
  IF at[q] = Len(Ranked[q])
  THEN pc' = [pc EXCEPT ![q] = "failed"] /\ UNCHANGED at
  ELSE pc' = [pc EXCEPT ![q] = "dispatch"] /\ at' = [at EXCEPT ![q] = @ + 1]

\* Faulty variant: no replay check.
SeenNever(n, x) == FALSE

Seen(n, x) == x \in ToSet(nonces[n])

\* NonceCache::insert at its cap drops the oldest entry.
Remembering(s, x) == Append(IF Len(s) >= NonceCap THEN Tail(s) ELSE s, x)

\* ComputeJobRunner::run: the job is refused (stale request, replayed nonce),
\* or its nonce is spent and its model loaded; a load that fails leaves the
\* nonce spent.
Run(a, state) ==
  LET n == NodeOf(a)
      x == Nonce[a[1]]
  IN /\ job' = [job EXCEPT ![a] = state]
     /\ listening' = IF state = "decoding" THEN listening \cup {a} ELSE listening
     /\ \/ state = "refused" /\ UNCHANGED cache
        \/ /\ ~Seen(n, x)
           /\ nonces' = [nonces EXCEPT ![n] = Remembering(@, x)]
           /\ accepted' = [accepted EXCEPT ![n] = Append(@, x)]

\* The stream of an attempt the router no longer reads.
Discard(a) == wanted' = wanted \ {a} /\ out' = [out EXCEPT ![a] = <<>>]

\* RemoteComputeDispatcher: the request goes to the network.
SendRequest(q) ==
  LET a == Cur(q)
  IN /\ pc[q] = "dispatch" /\ a \in Remote
     /\ pc' = [pc EXCEPT ![q] = "lock"]
     /\ job' = [job EXCEPT ![a] = "posted"]
     /\ outbound' = outbound \cup {a}
     /\ UNCHANGED <<at, holder, user, replies, pending, cache, decoder, chan, listening, out, wanted>>

\* LocalComputeDispatcher: the job is started in the same task.
RunLocal(q) ==
  LET a == Cur(q)
  IN /\ pc[q] = "dispatch" /\ a \notin Remote
     /\ \/ /\ Run(a, "refused")
           /\ Failed(q)
           /\ UNCHANGED wanted
        \/ /\ Run(a, "decoding")
           /\ pc' = [pc EXCEPT ![q] = "peek"]
           /\ wanted' = wanted \cup {a}
           /\ UNCHANGED at
     /\ UNCHANGED <<holder, user, net, pending, decoder, chan, out>>

Lock(q) ==
  /\ pc[q] = "lock" /\ holder = None
  /\ holder' = q
  /\ pc' = [pc EXCEPT ![q] = "receive"]
  /\ UNCHANGED <<at, user, net, pending, cache, job, decoder, chan, listening, out, wanted>>

\* Faulty variant: whatever response comes next is taken for the own one.
IsAnswerAny(r, a) == TRUE

IsAnswer(r, a) == r.id = a

Overlong(a) == Len(out[a]) > StreamCap

\* Faulty variant: the mutex is held while the response is unpacked.
HolderAfterKept(q, a) == IF Overlong(a) THEN q ELSE None

\* The mutex is released before the response is unpacked.
HolderAfter(q, a) == None

\* One message off the shared channel: the answer, or someone else's, which
\* is dropped.  The events of the answer go into a channel nobody reads before
\* dispatch returns: with more of them than it holds, the task waits forever.
Receive(q) ==
  LET a == Cur(q)
      r == Head(replies)
  IN /\ pc[q] = "receive" /\ replies # <<>>
     /\ replies' = Tail(replies)
     /\ \/ /\ ~IsAnswer(r, a)
           /\ UNCHANGED <<pc, at, holder, out, wanted>>
        \/ /\ IsAnswer(r, a) /\ ~r.ok
           /\ holder' = None
           /\ Failed(q)
           /\ UNCHANGED <<out, wanted>>
        \/ /\ IsAnswer(r, a) /\ r.ok
           /\ holder' = HolderAfter(q, r.id)
           /\ out' = [out EXCEPT ![a] = out[r.id]]
           /\ wanted' = wanted \cup {a}
           /\ pc' = [pc EXCEPT ![q] = IF Overlong(r.id) THEN "stuck" ELSE "peek"]
           /\ UNCHANGED at
     /\ UNCHANGED <<user, outbound, pending, cache, job, decoder, chan, listening>>

\* Five minutes without a message.
ReceiveTimeout(q) ==
  /\ pc[q] = "receive" /\ replies = <<>>
  /\ holder' = None
  /\ Failed(q)
  /\ UNCHANGED <<user, net, pending, cache, job, decoder, chan, listening, out, wanted>>

\* The stream ends without another event.  A local one gets its terminal event
\* from the dispatcher; a remote one is whatever the response held.
Exhausted(a) == out[a] = <<>> /\ (a \in Remote \/ job[a] = "closed")

\* The first event, within five seconds: an error or an empty stream is a
\* failure of the candidate.
Peek(q) ==
  LET a == Cur(q)
      failed == Exhausted(a) \/ (out[a] # <<>> /\ Head(out[a]).kind = "Error")
  IN /\ pc[q] = "peek"
     /\ failed \/ out[a] # <<>>
     /\ IF failed THEN Failed(q) /\ Discard(a)
        ELSE pc' = [pc EXCEPT ![q] = "forward"] /\ UNCHANGED <<at, wanted, out>>
     /\ UNCHANGED <<holder, user, net, pending, cache, job, decoder, chan, listening>>

FirstTokenTimeout(q) ==
  /\ pc[q] = "peek" /\ out[Cur(q)] = <<>> /\ ~Exhausted(Cur(q))
  /\ Failed(q)
  /\ Discard(Cur(q))
  /\ UNCHANGED <<holder, user, net, pending, cache, job, decoder, chan, listening>>

\* Faulty variant: the forwarder goes on after a terminal event.
EndsStreamNever(e) == FALSE

EndsStream(e) == Terminal(e)

\* The forwarder passes one event on and returns after a terminal one, which
\* it does not look for in the first event, the one that was peeked at; a
\* stream that just ends is closed by Cancelled.
Forward(q) ==
  LET a == Cur(q)
      next == IF Exhausted(a) THEN Stop(a, "Cancelled") ELSE Head(out[a])
  IN /\ pc[q] = "forward"
     /\ Exhausted(a) \/ out[a] # <<>>
     /\ user' = [user EXCEPT ![q] = Append(@, next)]
     /\ IF Exhausted(a) \/ (user[q] # <<>> /\ EndsStream(next))
        THEN pc' = [pc EXCEPT ![q] = "ended"] /\ Discard(a)
        ELSE out' = [out EXCEPT ![a] = Tail(@)] /\ UNCHANGED <<pc, wanted>>
     /\ UNCHANGED <<at, holder, net, pending, cache, job, decoder, chan, listening>>

\* The requester goes away.
Drop(q) ==
  /\ pc[q] = "forward"
  /\ pc' = [pc EXCEPT ![q] = "dropped"]
  /\ Discard(Cur(q))
  /\ UNCHANGED <<at, holder, user, net, pending, cache, job, decoder, chan, listening>>

-----------------------------------------------------------------------------
(* The network *)

\* The swarm task does not wait for room in the response channel.
Reply(r) == replies' = IF Len(replies) < ResponseCap THEN Append(replies, r) ELSE replies

\* The request reaches its node: its channel is kept, and it is dropped if
\* the node's queue is full.
RequestArrives(a) ==
  LET queue == {b \in Remote : NodeOf(b) = NodeOf(a) /\ job[b] = "queued"}
  IN /\ job[a] = "posted"
     /\ pending' = pending \cup {a}
     /\ job' = [job EXCEPT ![a] = IF Cardinality(queue) < InboundCap THEN "queued" ELSE "lost"]
     /\ UNCHANGED <<router, net, cache, decoder, chan, listening, out, wanted>>

\* OutboundFailure: the connection broke or the request timed out.
OutboundFailure(a) ==
  /\ a \in outbound
  /\ outbound' = outbound \ {a}
  /\ Reply([id |-> a, ok |-> FALSE])
  /\ UNCHANGED <<router, pending, cache, job, decoder, chan, listening, out, wanted>>

ResponseArrives(a) ==
  /\ a \in outbound /\ job[a] = "answered"
  /\ outbound' = outbound \ {a}
  /\ Reply([id |-> a, ok |-> TRUE])
  /\ UNCHANGED <<router, pending, cache, job, decoder, chan, listening, out, wanted>>

-----------------------------------------------------------------------------
\* handle_inference_request at the compute node.
Start(a) ==
  /\ job[a] = "queued"
  /\ \E state \in {"refused", "decoding"} : Run(a, state)
  /\ UNCHANGED <<router, net, pending, decoder, chan, out, wanted>>

-----------------------------------------------------------------------------
(* The decoding loop: Session::run over a sink that never waits *)

Room(a) == a \in listening /\ Len(chan[a]) < EventCap

Accept(a, e) == chan' = IF Room(a) THEN [chan EXCEPT ![a] = Append(@, e)] ELSE chan

\* A token that the sink refuses, because the channel is full or closed,
\* cancels the session.
Sample(a) ==
  /\ job[a] = "decoding" /\ a \notin cancelled /\ made[a] < MaxTokens[a[1]]
  /\ Accept(a, Token(a, made[a]))
  /\ made' = [made EXCEPT ![a] = @ + 1]
  /\ cancelled' = IF Room(a) THEN cancelled ELSE cancelled \cup {a}
  /\ UNCHANGED <<router, net, pending, cache, job, listening, out, wanted>>

\* The end of the text, a stop string or max_tokens; Stop may be refused too.
Finish(a) ==
  /\ job[a] = "decoding"
  /\ Accept(a, Stop(a, IF a \in cancelled THEN "Cancelled" ELSE "Done"))
  /\ job' = [job EXCEPT ![a] = "stopped"]
  /\ UNCHANGED <<router, net, pending, cache, decoder, listening, out, wanted>>

DecodeFails(a) ==
  /\ job[a] = "decoding" /\ a \notin cancelled
  /\ Accept(a, Error(a))
  /\ job' = [job EXCEPT ![a] = "stopped"]
  /\ UNCHANGED <<router, net, pending, cache, decoder, listening, out, wanted>>

-----------------------------------------------------------------------------
(* bridge_events and what reads it *)

\* One event on its way.  A local stream whose reader is gone, or that has
\* its terminal event, drops the decoder's channel.
Bridge(a) ==
  LET e == Head(chan[a])
      broken == a \notin Remote /\ a \notin wanted
  IN /\ chan[a] # <<>>
     /\ out' = IF broken THEN out ELSE [out EXCEPT ![a] = Append(@, e)]
     /\ IF broken THEN chan' = [chan EXCEPT ![a] = <<>>] /\ listening' = listening \ {a}
        ELSE chan' = [chan EXCEPT ![a] = Tail(@)] /\ UNCHANGED listening
     /\ UNCHANGED <<router, net, pending, cache, job, decoder, wanted>>

PendingAfter(a) == pending \ {a}

\* The stream ends: the local dispatcher supplies a missing terminal event, a
\* remote node sends what it has collected.
Close(a) ==
  /\ job[a] = "stopped" /\ chan[a] = <<>>
  /\ IF a \in Remote
     THEN /\ job' = [job EXCEPT ![a] = "answered"]
          /\ pending' = PendingAfter(a)
          /\ UNCHANGED out
     ELSE /\ job' = [job EXCEPT ![a] = "closed"]
          /\ out' = [out EXCEPT ![a] = IF a \notin wanted \/ HasTerminal(@) THEN @ ELSE Append(@, Stop(a, "Cancelled"))]
          /\ UNCHANGED pending
  /\ listening' = listening \ {a}
  /\ UNCHANGED <<router, net, cache, decoder, chan, wanted>>

-----------------------------------------------------------------------------
\* The router starts; the nodes have accepted some nonces before, no more than
\* their caches hold.
InitAfter(before) ==
  /\ pc = [q \in Request |-> "dispatch"]
  /\ at = [q \in Request |-> 1]
  /\ holder = None
  /\ replies = <<>>
  /\ outbound = {}
  /\ pending = {}
  /\ nonces = before
  /\ accepted = before
  /\ job = [a \in Attempt |-> "none"]
  /\ made = [a \in Attempt |-> 0]
  /\ cancelled = {}
  /\ chan = [a \in Attempt |-> <<>>]
  /\ listening = {}
  /\ out = [a \in Attempt |-> <<>>]
  /\ wanted = {}
  /\ user = [q \in Request |-> <<>>]

Init == InitAfter([n \in Node |-> <<>>])

RouterStep(q) ==
  \/ SendRequest(q)
  \/ RunLocal(q)
  \/ Lock(q)
  \/ Receive(q)
  \/ ReceiveTimeout(q)
  \/ Peek(q)
  \/ FirstTokenTimeout(q)
  \/ Forward(q)

NetworkEnds(a) == OutboundFailure(a) \/ ResponseArrives(a)

JobStep(a) ==
  \/ Start(a)
  \/ Sample(a)
  \/ Finish(a)
  \/ DecodeFails(a)

Next ==
  \/ \E q \in Request : RouterStep(q) \/ Drop(q)
  \/ \E a \in Remote : RequestArrives(a) \/ NetworkEnds(a)
  \/ \E a \in Attempt : JobStep(a) \/ Bridge(a) \/ Close(a)

Spec == Init /\ [][Next]_vars

\* The router's tasks, the swarm, the decoder's thread and the tasks behind it
\* run on, the timers among them; the requester may stay forever.
Fairness ==
  /\ \A q \in Request : WF_vars(RouterStep(q))
  /\ \A a \in Remote : WF_vars(NetworkEnds(a))
  /\ \A a \in Attempt : WF_vars(JobStep(a)) /\ WF_vars(Bridge(a)) /\ WF_vars(Close(a))

FairSpec == Spec /\ Fairness

-----------------------------------------------------------------------------
(* Properties *)

Places == {"dispatch", "lock", "receive", "stuck", "peek", "forward", "ended", "failed", "dropped"}

JobStates == {"none", "posted", "lost", "queued", "refused", "decoding",
              "stopped", "answered", "closed"}

\* Types; and no channel holds more than its capacity.
TypeOK ==
  /\ pc \in [Request -> Places]
  /\ \A q \in Request : Cur(q) \in Attempt
  /\ holder \in Request \cup {None}
  /\ replies \in Seq([id : Remote, ok : BOOLEAN]) /\ Len(replies) <= ResponseCap
  /\ outbound \subseteq Remote
  /\ pending \subseteq Remote
  /\ \A n \in Node : Len(nonces[n]) <= NonceCap
  /\ job \in [Attempt -> JobStates]
  /\ \A a \in Attempt : made[a] \in 0..MaxTokens[a[1]]
  /\ cancelled \subseteq Attempt
  /\ \A a \in Attempt : /\ chan[a] \in Seq(Event) /\ Len(chan[a]) <= EventCap
                         /\ out[a] \in Seq(Event)
  /\ listening \subseteq Attempt
  /\ wanted \subseteq Attempt
  /\ user \in [Request -> Seq(Event)]

\* What a requester receives is the stream of the candidate its request ended
\* up with, and of no other request or candidate, whatever the shared channel
\* carried: tokens in order and without a gap, then one terminal event, which
\* is there once the stream has ended.  Only a stream without a token has two,
\* the second one a Cancelled.
StreamWellFormed ==
  \A q \in Request :
    LET s == user[q]
        closes(i) == i = Len(s) \/ (i = 1 /\ Len(s) = 2 /\ s[2] = Stop(Cur(q), "Cancelled"))
    IN /\ \A i \in DOMAIN s : /\ s[i].of = Cur(q)
                             /\ IF Terminal(s[i]) THEN closes(i) ELSE s[i].index = i - 1
       /\ pc[q] = "ended" => HasTerminal(s)
       /\ HasTerminal(s) /\ Len(s) > 1 => pc[q] = "ended"

\* What the requester sees: all a router does before a stream is forwarded is
\* waiting.
PhaseOf(q) ==
  CASE pc[q] = "forward" -> "open"
    [] pc[q] = "ended" -> "closed"
    [] pc[q] = "dropped" -> "left"
    [] pc[q] = "failed" -> "failed"
    [] OTHER -> "waiting"

Shown(s) == [i \in DOMAIN s |-> [kind |-> s[i].kind, index |-> s[i].index]]

\* The stream a requester is promised, see AnswerStream.
Answers == INSTANCE AnswerStream WITH
  Request <- Request,
  phase <- [q \in Request |-> PhaseOf(q)],
  received <- [q \in Request |-> Shown(user[q])]

\* Every step of router, network and nodes is a step of the promised streams
\* or leaves them as they are.
StreamSpec == Answers!Spec

\* Between two acceptances of a nonce of a billing address a node accepts at
\* least NonceCap others, of any address: the replay cache forgets no earlier.
\* It is one FIFO for all addresses, so those others need not be of the address
\* that spent the nonce.
ReplayWindow ==
  \A n \in Node : \A i, j \in DOMAIN accepted[n] :
    i < j /\ accepted[n][i] = accepted[n][j] => j - i > NonceCap

\* Every request comes to an end, whatever is lost or refused on the way and
\* whoever takes its response off the shared channel, unless its own response
\* is longer than the channel it is unpacked into.
Answered ==
  \A q \in Request : pc[q] = "dispatch" ~> (pc[q] \in {"ended", "failed", "dropped"} \/ (pc[q] = "stuck" /\ Overlong(Cur(q))))

=============================================================================
