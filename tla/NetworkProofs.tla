---------------------------- MODULE NetworkProofs ---------------------------
(***************************************************************************)
(* What the peer book is worth at a crash (BookFollowsPeers), whose answer *)
(* a call of the SDK returns (OwnAnswer), and what of the gossip reaches   *)
(* the consensus core (GossipFaithful), for any number of peers, addresses,*)
(* connections, calls, responses, validators and messages.                 *)
(***************************************************************************)
EXTENDS Client, Process, SequenceTheorems, FiniteSetTheorems, TLAPS

Offer == [peer : Peer, available_slots : Nat, timestamp : Nat]

\* The swarm's events, at a node and at a client alike.
PeeringNext ==
  \/ Start \/ Stop
  \/ \E p \in Peer :
       \/ \E addr \in Address : ConnectionEstablished(p, addr) \/ OutgoingConnectionError(p, addr)
       \/ ConnectionClosed(p) \/ Identified(p)

\* A node's network and a client's calls at once, in any order: what either
\* does by itself is part of it.
NetworkNext ==
  \/ PeeringNext /\ UNCHANGED clientVars
  \/ \E p \in Peer, slots \in Nat, timestamp \in Nat : PoolOffer(p, slots, timestamp)
  \/ Listen
  \/ Tick
  \/ Calling

NetworkSpec == PeeringInit /\ ClientInit /\ [][NetworkNext]_vars

-----------------------------------------------------------------------------
(* The peer book *)

\* While the swarm runs its file is the book, and there is no connection else.
BookInv ==
  /\ book \in [Peer -> SUBSET Address] /\ file \in [Peer -> SUBSET Address]
  /\ connections \in [Peer -> Nat] /\ closing \in [Peer -> Nat]
  /\ running \in BOOLEAN /\ rejected \subseteq Peer
  /\ running => book = file
  /\ ~running => \A p \in Peer : connections[p] = 0
  /\ BookFollowsPeers

\* Every event of the swarm keeps the book and its file with the connections
\* (run_swarm).
LEMMA PeeringKeepsBook ==
  ASSUME BookInv, PeeringNext
  PROVE  BookInv'
<1>1. /\ book \in [Peer -> SUBSET Address] /\ file \in [Peer -> SUBSET Address]
      /\ connections \in [Peer -> Nat] /\ closing \in [Peer -> Nat]
      /\ running \in BOOLEAN /\ rejected \subseteq Peer
      /\ \A p \in rejected : book[p] = {} /\ file[p] = {}
      /\ \A p \in Peer : connections[p] > closing[p] => file[p] # {}
  BY DEF BookInv, BookFollowsPeers, ForgetsRejected, RemembersConnected
<1>2. CASE Start
  <2>1. ~running /\ running' = TRUE /\ book' = file
        /\ UNCHANGED <<connections, closing, file, rejected>>
    BY <1>2 DEF Start
  <2> QED BY <1>1, <2>1 DEF BookInv, BookFollowsPeers, ForgetsRejected, RemembersConnected
<1>3. CASE Stop
  <2>1. /\ running' = FALSE /\ book' = [p \in Peer |-> {}] /\ connections' = [p \in Peer |-> 0]
        /\ closing' = [p \in Peer |-> 0] /\ UNCHANGED <<file, rejected>>
    BY <1>3 DEF Stop
  <2>2. /\ book' \in [Peer -> SUBSET Address] /\ connections' \in [Peer -> Nat] /\ closing' \in [Peer -> Nat]
        /\ \A p \in Peer : book'[p] = {} /\ connections'[p] = 0 /\ closing'[p] = 0
    BY <2>1
  <2>3. \A r \in rejected' : book'[r] = {} /\ file'[r] = {}
    BY <1>1, <2>1, <2>2
  <2>4. \A r \in Peer : connections'[r] > closing'[r] => file'[r] # {}
    BY <2>2
  <2> QED BY <1>1, <2>1, <2>2, <2>3, <2>4 DEF BookInv, BookFollowsPeers, ForgetsRejected, RemembersConnected
<1>4. ASSUME NEW p \in Peer, NEW addr \in Address, ConnectionEstablished(p, addr) PROVE BookInv'
  <2>1. /\ running /\ running' = running /\ book = file
        /\ connections' = [connections EXCEPT ![p] = @ + 1] /\ closing' = closing
        /\ book' = [book EXCEPT ![p] = @ \cup {addr}] /\ file' = book' /\ rejected' = rejected \ {p}
    BY <1>4 DEF ConnectionEstablished, Insert, BookInv
  <2>2. /\ book' \in [Peer -> SUBSET Address] /\ connections' \in [Peer -> Nat]
        /\ \A r \in Peer \ {p} : book'[r] = book[r] /\ connections'[r] = connections[r]
        /\ addr \in book'[p]
    BY <1>1, <2>1
  <2>3. \A r \in rejected' : book'[r] = {} /\ file'[r] = {}
    BY <1>1, <2>1, <2>2
  <2>4. \A r \in Peer : connections'[r] > closing'[r] => file'[r] # {}
    BY <1>1, <2>1, <2>2
  <2> QED BY <1>1, <2>1, <2>2, <2>3, <2>4 DEF BookInv, BookFollowsPeers, ForgetsRejected, RemembersConnected
<1>5. ASSUME NEW p \in Peer, NEW addr \in Address, OutgoingConnectionError(p, addr) PROVE BookInv'
  BY <1>5 DEF OutgoingConnectionError, persisted, BookInv, BookFollowsPeers, ForgetsRejected, RemembersConnected
<1>6. ASSUME NEW p \in Peer, ConnectionClosed(p) PROVE BookInv'
  <2>1. /\ running /\ UNCHANGED <<running, book, file, rejected>> /\ connections[p] > 0
        /\ connections' = [connections EXCEPT ![p] = @ - 1]
        /\ closing' = [closing EXCEPT ![p] = IF @ > 0 THEN @ - 1 ELSE 0]
    BY <1>6 DEF ConnectionClosed, persisted
  <2>2. /\ connections' \in [Peer -> Nat] /\ closing' \in [Peer -> Nat]
        /\ \A r \in Peer : connections'[r] > closing'[r] => connections[r] > closing[r]
    BY <1>1, <2>1
  <2> QED BY <1>1, <2>1, <2>2 DEF BookInv, BookFollowsPeers, ForgetsRejected, RemembersConnected
<1>7. ASSUME NEW p \in Peer, Identified(p) PROVE BookInv'
  <2>1. running /\ UNCHANGED <<running, connections>> /\ book = file
    BY <1>7 DEF Identified, BookInv
  <2>2. CASE closing' = [closing EXCEPT ![p] = connections[p]] /\ UNCHANGED <<book, file, rejected>>
    <3>1. closing' \in [Peer -> Nat] /\ \A r \in Peer : connections'[r] > closing'[r] => connections[r] > closing[r]
      BY <1>1, <2>1, <2>2
    <3> QED BY <1>1, <2>1, <2>2, <3>1 DEF BookInv, BookFollowsPeers, ForgetsRejected, RemembersConnected
  <2>3. CASE /\ closing' = [closing EXCEPT ![p] = connections[p]] /\ rejected' = rejected \cup {p}
             /\ book' = [book EXCEPT ![p] = {}] /\ file' = book'
    <3>1. closing' \in [Peer -> Nat] /\ book' \in [Peer -> SUBSET Address]
      BY <1>1, <2>3
    <3>2. \A r \in rejected' : book'[r] = {} /\ file'[r] = {}
      BY <1>1, <2>3
    <3>3. \A r \in Peer : connections'[r] > closing'[r] => file'[r] # {}
      <4>1. \A r \in Peer \ {p} : closing'[r] = closing[r] /\ file'[r] = file[r]
        BY <1>1, <2>1, <2>3
      <4>2. ~(connections'[p] > closing'[p])
        BY <1>1, <2>1, <2>3
      <4> QED BY <1>1, <2>1, <4>1, <4>2
    <3> QED BY <1>1, <2>1, <2>3, <3>1, <3>2, <3>3 DEF BookInv, BookFollowsPeers, ForgetsRejected, RemembersConnected
  <2>4. CASE UNCHANGED <<closing, book, file, rejected>>
    BY <2>1, <2>4 DEF BookInv, BookFollowsPeers, ForgetsRejected, RemembersConnected
  <2> QED BY <1>7, <2>2, <2>3, <2>4 DEF Identified, Disconnect, Forget, persisted
<1> QED BY <1>2, <1>3, <1>4, <1>5, <1>6, <1>7 DEF PeeringNext

\* A peer rejected for its network or version is forgotten, in the book and in
\* its file, and one that stays connected is in the file: at every moment a
\* crash may come (peer.rs, network.rs).
THEOREM BookAlwaysFollows == NetworkSpec => []BookFollowsPeers
<1>1. PeeringInit => BookInv
  <2>1. ASSUME PeeringInit PROVE BookInv
    <3>1. /\ book \in [Peer -> SUBSET Address] /\ file \in [Peer -> SUBSET Address]
          /\ connections \in [Peer -> Nat] /\ closing \in [Peer -> Nat]
          /\ \A p \in Peer : book[p] = {} /\ file[p] = {} /\ connections[p] = 0 /\ closing[p] = 0
      BY <2>1 DEF PeeringInit
    <3>2. \A p \in Peer : ~(connections[p] > closing[p])
      BY <3>1
    <3>3. running = FALSE /\ rejected = {}
      BY <2>1 DEF PeeringInit
    <3> QED BY <3>1, <3>2, <3>3 DEF BookInv, BookFollowsPeers, ForgetsRejected, RemembersConnected
  <2> QED BY <2>1
<1>2. BookInv /\ [NetworkNext]_vars => BookInv'
  <2> SUFFICES ASSUME BookInv, [NetworkNext]_vars PROVE BookInv'
    OBVIOUS
  <2>1. CASE UNCHANGED <<running, connections, closing, book, file, rejected>>
    BY <2>1 DEF BookInv, BookFollowsPeers, ForgetsRejected, RemembersConnected
  <2>2. CASE PeeringNext
    BY <2>2, PeeringKeepsBook
  <2>3. CASE Shutdown
    <3>1. /\ running' = FALSE /\ connections' = [p \in Peer |-> 0] /\ closing' = [p \in Peer |-> 0]
          /\ UNCHANGED <<book, file, rejected>>
      BY <2>3 DEF Shutdown, persisted
    <3>2. /\ connections' \in [Peer -> Nat] /\ closing' \in [Peer -> Nat]
          /\ \A p \in Peer : connections'[p] = 0 /\ closing'[p] = 0
      BY <3>1
    <3>3. \A r \in Peer : connections'[r] > closing'[r] => file'[r] # {}
      BY <3>2
    <3> QED BY <3>1, <3>2, <3>3 DEF BookInv, BookFollowsPeers, ForgetsRejected, RemembersConnected
  <2>4. CASE (\E p \in Peer, slots \in Nat, timestamp \in Nat : PoolOffer(p, slots, timestamp)) \/ Listen \/ Tick
    BY <2>1, <2>4 DEF PoolOffer, Gossip, Listen, Tick, peeringVars, swarm, persisted
  <2>5. CASE Calling /\ ~Shutdown
    BY <2>1, <2>5
       DEF Calling, Infer, CallStep, GiveUp, SendInference, Receive, Silence, Answer, OutboundFailure, Respond,
           peeringVars, swarm, persisted
  <2>6. CASE UNCHANGED vars
    BY <2>1, <2>6 DEF vars, peeringVars, swarm, persisted
  <2> QED BY <2>2, <2>3, <2>4, <2>5, <2>6 DEF NetworkNext
<1>3. BookInv => BookFollowsPeers
  BY DEF BookInv
<1> QED BY <1>1, <1>2, <1>3, PTL DEF NetworkSpec

-----------------------------------------------------------------------------
(* The calls of a client *)

NetworkEvent == [kind : {"PeerConnected", "PeerDisconnected"}, peer : Peer]
                \cup [kind : {"GossipMessage"}, message : Offer]

Result == [kind : {"none", "refused", "AllComputeNodesBusy"}]
          \cup [kind : {"answer"}, request : Nat, peer : Peer]

CallState == [phase : {"idle", "next", "waiting", "done"}, left : Seq(Offer), request : Nat, result : Result]

\* What the candidates come from: offers gossiped and kept.
OffersTyped ==
  /\ events \in Seq(NetworkEvent)
  /\ table \subseteq Offer /\ IsFiniteSet(table)

CallsTyped ==
  /\ calls \in [Call -> CallState]
  /\ waiters \in Seq(Call)
  /\ asked \in Seq([call : Call, peer : Peer])
  /\ pending \subseteq 1..Len(asked)
  /\ responses \in Seq([request : Nat, peer : Peer, answer : {"failed", "busy", "tokens"}])

\* The request r is the last one that call c has sent.
LastOf(c, r) == r \in 1..Len(asked) /\ asked[r].call = c /\ \A later \in (r + 1)..Len(asked) : asked[later].call # c

\* A response names the request and the peer it comes from.
Honest == \A i \in 1..Len(responses) :
            /\ responses[i].request \in 1..Len(asked)
            /\ responses[i].peer = asked[responses[i].request].peer

\* A call is in the queue for the mutex once, while it waits for an answer to
\* its last request.
Queued ==
  /\ \A i \in 1..Len(waiters) : calls[waiters[i]].phase = "waiting"
  /\ \A i, j \in 1..Len(waiters) : waiters[i] = waiters[j] => i = j

CallInv(c) ==
  /\ calls[c].phase = "waiting" => LastOf(c, calls[c].request)
  /\ calls[c].phase # "done" => calls[c].result.kind = "none"
  /\ calls[c].result.kind = "answer" =>
       LastOf(c, calls[c].result.request) /\ asked[calls[c].result.request].peer = calls[c].result.peer

ClientInv == OffersTyped /\ CallsTyped /\ Honest /\ Queued /\ \A c \in Call : CallInv(c)

\* What the driver's tables say of a request the client has sent, and of a
\* response it has received.
LEMMA Lookups ==
  ASSUME CallsTyped
  PROVE  /\ \A i \in 1..Len(asked) :
              asked[i].call \in Call /\ asked[i].peer \in Peer
              /\ asked[i] = [call |-> asked[i].call, peer |-> asked[i].peer]
         /\ \A i \in 1..Len(responses) : responses[i].request \in Nat /\ responses[i].peer \in Peer
<1> DEFINE A == [call : Call, peer : Peer]
           R == [request : Nat, peer : Peer, answer : {"failed", "busy", "tokens"}]
<1>1. asked \in Seq(A) /\ responses \in Seq(R)
  BY DEF CallsTyped
<1>2. /\ \A a \in A : a.call \in Call /\ a.peer \in Peer /\ a = [call |-> a.call, peer |-> a.peer]
      /\ \A r \in R : r.request \in Nat /\ r.peer \in Peer
  OBVIOUS
<1> HIDE DEF A, R
<1>3. (\A i \in 1..Len(asked) : asked[i] \in A) /\ \A i \in 1..Len(responses) : responses[i] \in R
  BY <1>1
<1> QED BY <1>2, <1>3

\* A subscriber's queue holds events, however many it has lost.
LEMMA SentTyped ==
  ASSUME events \in Seq(NetworkEvent), NEW event \in NetworkEvent
  PROVE  Sent(events, event) \in Seq(NetworkEvent)
<1>1. Len(events) \in Nat /\ EVENT_CAPACITY \in Nat \ {0}
  BY PeeringAssumption
<1>2. CASE Len(events) < EVENT_CAPACITY
  BY <1>2 DEF Sent
<1>3. CASE ~(Len(events) < EVENT_CAPACITY)
  <2>1. Tail(events) \in Seq(NetworkEvent)
    <3>1. events # <<>>
      BY <1>1, <1>3, EmptySeq
    <3> QED BY <3>1, HeadTailProperties
  <2> HIDE DEF NetworkEvent
  <2> QED BY <1>3, <2>1 DEF Sent
<1> QED BY <1>2, <1>3

\* A call tries offers, in one of the orders their slots and stakes allow.
LEMMA RankingTyped ==
  ASSUME table \subseteq Offer, IsFiniteSet(table), NEW s \in Rankings(EligibleFor(WantedModel))
  PROVE  s \in Seq(Offer) /\ \A k \in Nat : k <= Len(s) => SubSeq(s, 1, k) \in Seq(Offer)
<1> DEFINE C == EligibleFor(WantedModel)
<1>1. C \subseteq Offer /\ IsFiniteSet(C)
  <2>1. C \subseteq table
    BY DEF EligibleFor
  <2> QED BY <2>1, FS_Subset
<1>2. Cardinality(C) \in Nat
  BY <1>1, FS_CardinalityType
<1>3. s \in [1..Cardinality(C) -> C]
  BY DEF Rankings, SetToSeqs
<1> HIDE DEF C
<1>4. s \in Seq(Offer)
  BY <1>1, <1>2, <1>3
<1>5. ASSUME NEW k \in Nat, k <= Len(s) PROVE SubSeq(s, 1, k) \in Seq(Offer)
  <2>1. \A i \in 1..k : i \in 1..Len(s)
    BY <1>4, <1>5
  <2> HIDE DEF C
  <2> QED BY <1>4, <2>1, SubSeqProperties
<1> QED BY <1>4, <1>5

\* The events of a node's swarm, and the offers gossiped over it.
LEMMA OffersStep ==
  ASSUME OffersTyped, NetworkNext
  PROVE  OffersTyped'
<1>1. events \in Seq(NetworkEvent) /\ table \subseteq Offer /\ IsFiniteSet(table)
  BY DEF OffersTyped
<1>2. CASE UNCHANGED <<events, table>>
  BY <1>1, <1>2 DEF OffersTyped
<1>3. CASE events' = <<>> /\ UNCHANGED table
  <2>1. <<>> \in Seq(NetworkEvent)
    BY EmptySeq
  <2> QED BY <1>1, <1>3, <2>1 DEF OffersTyped
<1>4. ASSUME NEW event \in NetworkEvent, Emit(event), UNCHANGED table PROVE OffersTyped'
  BY <1>1, <1>4, SentTyped DEF Emit, OffersTyped
<1>5. ASSUME NEW p \in Peer, ConnectionClosed(p) \/ Identified(p), UNCHANGED clientVars PROVE OffersTyped'
  <2>1. [kind |-> "PeerDisconnected", peer |-> p] \in NetworkEvent /\ [kind |-> "PeerConnected", peer |-> p] \in NetworkEvent
    BY DEF NetworkEvent
  <2>2. UNCHANGED table
    BY <1>5 DEF clientVars
  <2>3. \/ UNCHANGED events
        \/ Emit([kind |-> "PeerDisconnected", peer |-> p])
        \/ Emit([kind |-> "PeerConnected", peer |-> p])
    BY <1>5 DEF ConnectionClosed, Identified
  <2> QED BY <1>2, <1>4, <2>1, <2>2, <2>3
<1>6. ASSUME NEW p \in Peer, NEW slots \in Nat, NEW timestamp \in Nat, PoolOffer(p, slots, timestamp) PROVE OffersTyped'
  <2> DEFINE message == [peer |-> p, available_slots |-> slots, timestamp |-> timestamp]
  <2>1. [kind |-> "GossipMessage", message |-> message] \in NetworkEvent
    BY DEF NetworkEvent, Offer
  <2>2. Emit([kind |-> "GossipMessage", message |-> message]) /\ UNCHANGED table
    BY <1>6 DEF PoolOffer, Gossip
  <2> QED BY <1>4, <2>1, <2>2
<1>7. CASE Listen
  <2>1. events # <<>> /\ events' = Tail(events)
    BY <1>7 DEF Listen
  <2>2. Head(events) \in NetworkEvent /\ Tail(events) \in Seq(NetworkEvent)
    BY <1>1, <2>1, HeadTailProperties
  <2>3. table' \subseteq Offer /\ IsFiniteSet(table')
    <3>1. CASE Head(events).kind = "GossipMessage"
      <4> DEFINE message == Head(events).message
                 kept == {offer \in table : offer.peer # message.peer}
      <4>1. message \in Offer
        BY <2>2, <3>1 DEF NetworkEvent
      <4>2. table' = kept \cup {message}
        BY <1>7, <3>1 DEF Listen
      <4>3. kept \subseteq table /\ IsFiniteSet(kept)
        BY <1>1, FS_Subset
      <4> HIDE DEF message, kept
      <4>4. IsFiniteSet(kept \cup {message})
        BY <4>3, FS_AddElement
      <4> QED BY <1>1, <4>1, <4>2, <4>3, <4>4
    <3>2. CASE Head(events).kind # "GossipMessage"
      BY <1>1, <1>7, <3>2 DEF Listen
    <3> QED BY <3>1, <3>2
  <2> QED BY <2>1, <2>2, <2>3 DEF OffersTyped
<1>8. CASE PeeringNext /\ UNCHANGED clientVars
  BY <1>2, <1>3, <1>5, <1>8
     DEF PeeringNext, Start, Stop, ConnectionEstablished, OutgoingConnectionError, clientVars
<1>9. CASE Tick
  BY <1>2, <1>9 DEF Tick, peeringVars
<1>10. CASE Calling
  BY <1>2, <1>3, <1>10
     DEF Calling, Shutdown, Infer, CallStep, GiveUp, SendInference, Receive, Silence, Answer, OutboundFailure, Respond,
         peeringVars
<1> QED BY <1>6, <1>7, <1>8, <1>9, <1>10 DEF NetworkNext

\* The queue for the mutex after its holder has left it.
LEMMA QueueTail ==
  ASSUME CallsTyped, Queued, waiters # <<>>
  PROVE  /\ Tail(waiters) \in Seq(Call)
         /\ Head(waiters) \in Call /\ calls[Head(waiters)].phase = "waiting"
         /\ \A i \in 1..Len(Tail(waiters)) : i + 1 \in 1..Len(waiters) /\ Tail(waiters)[i] = waiters[i + 1]
         /\ \A i \in 1..Len(Tail(waiters)) : Tail(waiters)[i] # Head(waiters)
<1> DEFINE t == Tail(waiters)
<1>1. waiters \in Seq(Call) /\ Len(waiters) \in Nat /\ 1 \in 1..Len(waiters)
  <2>1. waiters \in Seq(Call)
    BY DEF CallsTyped
  <2> QED BY <2>1, EmptySeq
<1>2. /\ t \in Seq(Call) /\ Len(t) = Len(waiters) - 1 /\ \A i \in 1..Len(t) : t[i] = waiters[i + 1]
      /\ Head(waiters) = waiters[1] /\ Head(waiters) \in Call
  BY <1>1, HeadTailProperties
<1> HIDE DEF t
<1>3. \A i \in 1..Len(t) : i + 1 \in 1..Len(waiters)
  BY <1>1, <1>2
<1>4. \A i \in 1..Len(t) : t[i] # Head(waiters)
  <2>1. ASSUME NEW i \in 1..Len(t), t[i] = Head(waiters) PROVE FALSE
    <3>1. i + 1 \in 1..Len(waiters) /\ waiters[i + 1] = waiters[1]
      BY <1>2, <1>3, <2>1
    <3>2. i + 1 = 1
      BY <1>1, <3>1 DEF Queued
    <3> QED BY <1>2, <3>2
  <2> QED BY <2>1
<1>5. calls[Head(waiters)].phase = "waiting"
  BY <1>1, <1>2 DEF Queued
<1> QED BY <1>2, <1>3, <1>4, <1>5 DEF t

\* A call moves on without a request of its own being sent, and is no longer in
\* the queue for the mutex.
LEMMA MovesOn ==
  ASSUME ClientInv, NEW c \in Call, NEW x \in CallState, calls' = [calls EXCEPT ![c] = x], asked' = asked,
         \/ waiters' = waiters /\ calls[c].phase # "waiting"
         \/ waiters # <<>> /\ waiters' = Tail(waiters) /\ c = Head(waiters),
         x.phase # "waiting",
         x.phase # "done" => x.result.kind = "none",
         x.result.kind = "answer" => LastOf(c, x.result.request) /\ asked[x.result.request].peer = x.result.peer
  PROVE  /\ calls' \in [Call -> CallState] /\ waiters' \in Seq(Call)
         /\ Queued' /\ \A d \in Call : CallInv(d)'
<1>1. /\ CallsTyped /\ Queued /\ \A d \in Call : CallInv(d)
      /\ calls \in [Call -> CallState] /\ waiters \in Seq(Call)
  BY DEF ClientInv, CallsTyped
<1>2. calls' \in [Call -> CallState] /\ calls'[c] = x /\ \A d \in Call \ {c} : calls'[d] = calls[d]
  <2> HIDE DEF CallState
  <2> QED BY <1>1
<1>3. \A d \in Call : CallInv(d)'
  <2>1. \A d, r : LastOf(d, r)' <=> LastOf(d, r)
    BY DEF LastOf
  <2>2. CallInv(c)'
    BY <1>2, <2>1 DEF CallInv
  <2>3. \A d \in Call \ {c} : CallInv(d)'
    BY <1>1, <1>2, <2>1 DEF CallInv
  <2> QED BY <2>2, <2>3
<1>4. CASE waiters' = waiters /\ calls[c].phase # "waiting"
  <2>1. \A i \in 1..Len(waiters) : waiters[i] \in Call /\ waiters[i] # c
    BY <1>1, <1>4 DEF Queued
  <2>2. Queued'
    BY <1>1, <1>2, <1>4, <2>1 DEF Queued
  <2> QED BY <1>1, <1>2, <1>3, <1>4, <2>2
<1>5. CASE waiters # <<>> /\ waiters' = Tail(waiters) /\ c = Head(waiters)
  <2> DEFINE t == Tail(waiters)
  <2>1. /\ t \in Seq(Call)
        /\ \A i \in 1..Len(t) : i + 1 \in 1..Len(waiters) /\ t[i] = waiters[i + 1] /\ t[i] # c
    BY <1>1, <1>5, QueueTail
  <2> HIDE DEF t
  <2>2. \A i \in 1..Len(t) : t[i] \in Call
    BY <2>1
  <2>3. \A i \in 1..Len(t) : calls'[t[i]].phase = "waiting"
    BY <1>1, <1>2, <2>1, <2>2 DEF Queued
  <2>4. ASSUME NEW i \in 1..Len(t), NEW j \in 1..Len(t), t[i] = t[j] PROVE i = j
    <3>1. i + 1 = j + 1
      BY <1>1, <2>1, <2>4 DEF Queued
    <3> QED BY <3>1
  <2>5. waiters' = t
    BY <1>5 DEF t
  <2> QED BY <1>2, <1>3, <2>1, <2>3, <2>4, <2>5 DEF Queued
<1> QED BY <1>4, <1>5

\* Call c becomes x, which is not an answer.
Becomes(c, x) ==
  /\ calls' = [calls EXCEPT ![c] = x]
  /\ x.phase \in {"next", "done"} /\ x.result.kind # "answer"
  /\ x.phase # "done" => x.result.kind = "none"

\* A call begins, and gives up.
LEMMA BeginStep ==
  ASSUME ClientInv, NEW c \in Call, Infer(c) \/ GiveUp(c)
  PROVE  CallsTyped' /\ Honest' /\ Queued' /\ \A d \in Call : CallInv(d)'
<1>1. /\ CallsTyped /\ Honest /\ calls \in [Call -> CallState] /\ calls[c] \in CallState /\ CallInv(c)
      /\ table \subseteq Offer /\ IsFiniteSet(table)
      /\ calls[c].phase \in {"idle", "next"} /\ calls[c].result.kind = "none"
  BY DEF ClientInv, CallsTyped, OffersTyped, CallInv, Infer, GiveUp
<1>2. UNCHANGED <<waiters, asked, pending, responses>>
  BY DEF Infer, GiveUp
<1>3. \E x \in CallState : Becomes(c, x)
  <2>1. ASSUME NEW k \in {"refused", "AllComputeNodesBusy"}, Done(c, [kind |-> k])
        PROVE  \E x \in CallState : Becomes(c, x)
    <3> DEFINE x == [calls[c] EXCEPT !.phase = "done", !.result = [kind |-> k]]
    <3>1. x \in CallState /\ x.phase = "done" /\ x.result.kind = k
      BY <1>1 DEF CallState, Result
    <3>2. calls' = [calls EXCEPT ![c] = x]
      BY <2>1 DEF Done
    <3> HIDE DEF x
    <3> QED BY <3>1, <3>2 DEF Becomes
  <2>2. ASSUME NEW s \in Rankings(EligibleFor(WantedModel)),
               calls' = [calls EXCEPT ![c].phase = "next",
                                      ![c].left = SubSeq(s, 1, IF MAX_RETRIES < Len(s) THEN MAX_RETRIES ELSE Len(s))]
        PROVE  \E x \in CallState : Becomes(c, x)
    <3> DEFINE k == IF MAX_RETRIES < Len(s) THEN MAX_RETRIES ELSE Len(s)
               l == SubSeq(s, 1, k)
               x == [calls[c] EXCEPT !.phase = "next", !.left = l]
    <3>1. l \in Seq(Offer)
      <4>1. s \in Seq(Offer)
        BY <1>1, RankingTyped
      <4>2. k \in Nat /\ k <= Len(s)
        BY <4>1, ClientAssumption
      <4> HIDE DEF k
      <4> QED BY <1>1, <4>2, RankingTyped
    <3> HIDE DEF l
    <3>2. x \in CallState /\ x.phase = "next" /\ x.result.kind = "none"
      BY <1>1, <3>1 DEF CallState
    <3>3. calls' = [calls EXCEPT ![c] = x]
      BY <2>2 DEF l
    <3> HIDE DEF x
    <3> QED BY <3>2, <3>3 DEF Becomes
  <2> QED BY <2>1, <2>2 DEF Infer, GiveUp
<1>4. calls' \in [Call -> CallState] /\ waiters' \in Seq(Call) /\ Queued' /\ \A d \in Call : CallInv(d)'
  <2>1. PICK x \in CallState : Becomes(c, x)
    BY <1>3
  <2>2. waiters' = waiters /\ asked' = asked /\ calls[c].phase # "waiting"
    BY <1>1, <1>2
  <2> QED BY <2>1, <2>2, MovesOn DEF Becomes
<1> QED BY <1>1, <1>2, <1>4 DEF CallsTyped, Honest

\* The holder of the mutex takes a response, or has waited in vain: it discards
\* what another call has asked for.
LEMMA ReceiveStep ==
  ASSUME ClientInv, NEW c \in Call, Receive(c) \/ Silence(c)
  PROVE  CallsTyped' /\ Honest' /\ Queued' /\ \A d \in Call : CallInv(d)'
<1>1. /\ CallsTyped /\ Honest /\ Queued /\ \A d \in Call : CallInv(d)
      /\ calls \in [Call -> CallState] /\ calls[c] \in CallState /\ waiters \in Seq(Call)
      /\ responses \in Seq([request : Nat, peer : Peer, answer : {"failed", "busy", "tokens"}])
  BY DEF ClientInv, CallsTyped
<1>2. waiters # <<>> /\ Head(waiters) = c /\ UNCHANGED <<asked, pending>>
  BY DEF Receive, Silence
<1>3. calls[c].phase = "waiting" /\ calls[c].result.kind = "none" /\ LastOf(c, calls[c].request)
  <2>1. calls[c].phase = "waiting"
    BY <1>1, <1>2, QueueTail
  <2> QED BY <1>1, <2>1 DEF CallInv
<1>4. responses' \in Seq([request : Nat, peer : Peer, answer : {"failed", "busy", "tokens"}]) /\ Honest'
  <2>1. CASE responses' = responses
    BY <1>1, <1>2, <2>1 DEF Honest
  <2>2. CASE responses # <<>> /\ responses' = Tail(responses)
    <3> DEFINE R == [request : Nat, peer : Peer, answer : {"failed", "busy", "tokens"}]
               t == Tail(responses)
    <3>1. responses \in Seq(R)
      BY <1>1
    <3> HIDE DEF R
    <3>2. t \in Seq(R) /\ Len(t) = Len(responses) - 1 /\ \A i \in 1..Len(t) : t[i] = responses[i + 1]
      BY <2>2, <3>1, HeadTailProperties
    <3>3. Len(responses) \in Nat
      BY <3>1
    <3> HIDE DEF t
    <3>4. \A i \in 1..Len(t) : i + 1 \in 1..Len(responses)
      BY <3>2, <3>3
    <3>5. responses' = t
      BY <2>2 DEF t
    <3>6. Honest'
      BY <1>1, <1>2, <3>2, <3>4, <3>5 DEF Honest
    <3> QED BY <3>2, <3>5, <3>6 DEF R
  <2> QED BY <2>1, <2>2 DEF Receive, Silence
<1>5. CASE UNCHANGED <<calls, waiters>>
  <2>1. \A d \in Call : CallInv(d)'
    BY <1>1, <1>2, <1>5 DEF CallInv, LastOf
  <2>2. Queued'
    BY <1>1, <1>5 DEF Queued
  <2> QED BY <1>1, <1>2, <1>4, <1>5, <2>1, <2>2 DEF CallsTyped
<1>6. ASSUME waiters' = Tail(waiters), NEW x \in CallState, calls' = [calls EXCEPT ![c] = x], x.phase # "waiting",
             x.phase # "done" => x.result.kind = "none",
             x.result.kind = "answer" => LastOf(c, x.result.request) /\ asked[x.result.request].peer = x.result.peer
      PROVE  CallsTyped' /\ Honest' /\ Queued' /\ \A d \in Call : CallInv(d)'
  <2>1. calls' \in [Call -> CallState] /\ waiters' \in Seq(Call) /\ Queued' /\ \A d \in Call : CallInv(d)'
    BY <1>2, <1>6, MovesOn
  <2> QED BY <1>1, <1>2, <1>4, <2>1 DEF CallsTyped
<1>7. CASE waiters' = Tail(waiters) /\ calls' = [calls EXCEPT ![c].phase = "next"]
  <2> DEFINE x == [calls[c] EXCEPT !.phase = "next"]
  <2>1. x \in CallState /\ x.phase = "next" /\ x.result.kind = "none"
    BY <1>1, <1>3 DEF CallState
  <2>2. calls' = [calls EXCEPT ![c] = x]
    BY <1>7
  <2> HIDE DEF x
  <2> QED BY <1>6, <1>7, <2>1, <2>2
<1>8. CASE /\ waiters' = Tail(waiters) /\ responses # <<>> /\ Mine(c, Head(responses))
           /\ Done(c, [kind |-> "answer", request |-> Head(responses).request, peer |-> Head(responses).peer])
  <2> DEFINE r == Head(responses)
             result == [kind |-> "answer", request |-> r.request, peer |-> r.peer]
             x == [calls[c] EXCEPT !.phase = "done", !.result = result]
  <2>1. 1 \in 1..Len(responses) /\ r = responses[1]
    BY <1>1, <1>8, EmptySeq
  <2>2. r.request \in Nat /\ r.peer \in Peer /\ r.peer = asked[r.request].peer
    <3> HIDE DEF r
    <3>1. responses[1].request \in Nat /\ responses[1].peer \in Peer
      BY <1>1, <2>1, Lookups
    <3>2. responses[1].peer = asked[responses[1].request].peer
      BY <1>1, <2>1 DEF Honest
    <3> QED BY <2>1, <3>1, <3>2
  <2>3. r.request = calls[c].request
    BY <1>8 DEF Mine
  <2> HIDE DEF r
  <2>4. result \in Result /\ result.kind = "answer" /\ LastOf(c, result.request) /\ asked[result.request].peer = result.peer
    BY <1>3, <2>2, <2>3 DEF Result
  <2>5. calls' = [calls EXCEPT ![c] = x]
    BY <1>8 DEF Done, r
  <2> HIDE DEF result
  <2>6. x \in CallState /\ x.phase = "done" /\ x.result = result
    BY <1>1, <2>4 DEF CallState
  <2> HIDE DEF x
  <2> QED BY <1>6, <1>8, <2>4, <2>5, <2>6
<1> QED BY <1>2, <1>5, <1>7, <1>8 DEF Receive, Silence

\* A call sends a request, which becomes its last one, or finds the swarm stopped.
LEMMA SendStep ==
  ASSUME ClientInv, NEW c \in Call, SendInference(c)
  PROVE  CallsTyped' /\ Honest' /\ Queued' /\ \A d \in Call : CallInv(d)'
<1> DEFINE A == [call : Call, peer : Peer]
           l == calls[c].left
<1>1. /\ CallsTyped /\ Honest /\ Queued /\ \A d \in Call : CallInv(d)
      /\ calls \in [Call -> CallState] /\ calls[c] \in CallState /\ waiters \in Seq(Call)
      /\ asked \in Seq(A) /\ pending \subseteq 1..Len(asked) /\ UNCHANGED responses
  BY DEF ClientInv, CallsTyped, SendInference
<1>2. calls[c].phase = "next" /\ calls[c].result.kind = "none" /\ l \in Seq(Offer) /\ l # <<>>
  BY <1>1 DEF SendInference, CallInv, CallState
<1>3. Head(l) \in Offer /\ Tail(l) \in Seq(Offer)
  <2> HIDE DEF l
  <2> QED BY <1>2, HeadTailProperties
<1> PICK n \in Nat : n = Len(asked) + 1
  <2>1. Len(asked) \in Nat
    BY <1>1
  <2> QED BY <2>1
<1>4. CASE running
  <2> DEFINE e == [call |-> c, peer |-> Head(l).peer]
             x == [calls[c] EXCEPT !.phase = "waiting", !.request = n, !.left = Tail(l)]
  <2>1. e \in A /\ e.call = c
    BY <1>3 DEF Offer
  <2>2. /\ asked' = Append(asked, e) /\ pending' = pending \cup {n}
        /\ calls' = [calls EXCEPT ![c].phase = "waiting", ![c].request = n, ![c].left = Tail(@)]
        /\ waiters' = Append(waiters, c)
    BY <1>4 DEF SendInference
  <2>3. calls' = [calls EXCEPT ![c] = x]
    BY <2>2
  <2>4. Len(asked) \in Nat /\ n = Len(asked) + 1
    BY <1>1
  <2> HIDE DEF A, e, l
  <2>5. x \in CallState /\ x.phase = "waiting" /\ x.request = n /\ x.result = calls[c].result
    BY <1>1, <1>3, <2>4 DEF CallState
  <2> HIDE DEF x, CallState
  <2>6. calls' \in [Call -> CallState] /\ calls'[c] = x /\ \A d \in Call \ {c} : calls'[d] = calls[d]
    BY <1>1, <2>3, <2>5
  <2>7. /\ asked' \in Seq(A) /\ Len(asked') = n /\ asked'[n] = e
        /\ \A i \in 1..Len(asked) : asked'[i] = asked[i]
    BY <1>1, <2>1, <2>2, AppendProperties
  <2>8. 1..n = 1..Len(asked) \cup {n}
    BY <2>4
  <2>9. /\ waiters' \in Seq(Call) /\ Len(waiters') = Len(waiters) + 1 /\ waiters'[Len(waiters) + 1] = c
        /\ \A i \in 1..Len(waiters) : waiters'[i] = waiters[i]
    BY <1>1, <2>2, AppendProperties
  <2>10. Len(waiters) \in Nat /\ \A i \in 1..Len(waiters) : waiters[i] \in Call
    BY <1>1
  <2>11. 1..Len(waiters') = 1..Len(waiters) \cup {Len(waiters) + 1}
    BY <2>9, <2>10
  <2>12. \A i \in 1..Len(waiters) : waiters[i] # c
    BY <1>1, <1>2 DEF Queued
  <2>13. CallsTyped'
    <3>1. pending' \subseteq 1..Len(asked')
      BY <1>1, <2>2, <2>7, <2>8
    <3> QED BY <1>1, <2>6, <2>7, <2>9, <3>1 DEF CallsTyped, A
  <2>14. Honest'
    BY <1>1, <2>7, <2>8 DEF Honest
  <2>15. Queued'
    <3>1. \A i \in 1..Len(waiters') : calls'[waiters'[i]].phase = "waiting"
      BY SMTT(30), <1>1, <2>5, <2>6, <2>9, <2>10, <2>11, <2>12 DEF Queued
    <3>2. \A i, j \in 1..Len(waiters') : waiters'[i] = waiters'[j] => i = j
      BY <1>1, <2>9, <2>11, <2>12 DEF Queued
    <3> QED BY <3>1, <3>2 DEF Queued
  <2>16. LastOf(c, n)'
    <3>1. n \in 1..n /\ (n + 1)..n = {}
      BY <2>4
    <3>2. n \in 1..Len(asked') /\ asked'[n].call = c
      BY <2>1, <2>7, <3>1
    <3>3. \A later \in (n + 1)..Len(asked') : asked'[later].call # c
      BY <2>7, <3>1
    <3> QED BY <3>2, <3>3 DEF LastOf
  <2>17. ASSUME NEW d \in Call \ {c}, NEW r, LastOf(d, r) PROVE LastOf(d, r)' /\ asked'[r] = asked[r]
    <3>1. r \in 1..Len(asked) /\ asked[r].call = d /\ \A later \in (r + 1)..Len(asked) : asked[later].call # d
      BY <2>17 DEF LastOf
    <3>2. \A later \in (r + 1)..n : later = n \/ (later \in (r + 1)..Len(asked) /\ later \in 1..Len(asked))
      BY <2>4, <3>1
    <3>3. \A later \in (r + 1)..n : asked'[later].call # d
      BY <2>1, <2>7, <2>17, <3>1, <3>2
    <3>4. r \in 1..n
      BY <2>8, <3>1
    <3> QED BY <2>7, <3>1, <3>3, <3>4 DEF LastOf
  <2>18. CallInv(c)'
    <3>1. calls'[c].phase = "waiting" /\ calls'[c].request = n /\ calls'[c].result.kind = "none"
      BY <1>2, <2>5, <2>6
    <3>2. LastOf(c, calls[c].request)'
      BY <2>16, <3>1
    <3> QED BY <3>1, <3>2 DEF CallInv
  <2>19. ASSUME NEW d \in Call \ {c} PROVE CallInv(d)'
    BY <1>1, <2>6, <2>17 DEF CallInv
  <2> QED BY <2>13, <2>14, <2>15, <2>18, <2>19
<1>5. CASE ~running
  <2> DEFINE x == [calls[c] EXCEPT !.left = Tail(l)]
  <2>1. /\ calls' = [calls EXCEPT ![c].left = Tail(@)]
        /\ UNCHANGED <<asked, pending, waiters>>
    BY <1>5 DEF SendInference
  <2>2. calls' = [calls EXCEPT ![c] = x]
    BY <2>1
  <2> HIDE DEF l
  <2>3. x \in CallState /\ x.phase = "next" /\ x.result.kind = "none"
    BY <1>1, <1>2, <1>3 DEF CallState
  <2> HIDE DEF x
  <2>4. calls' \in [Call -> CallState] /\ waiters' \in Seq(Call) /\ Queued' /\ \A d \in Call : CallInv(d)'
    BY <1>2, <2>1, <2>2, <2>3, MovesOn
  <2> QED BY <1>1, <2>1, <2>4 DEF CallsTyped, Honest
<1> QED BY <1>4, <1>5

\* A response names the request it answers and the peer it comes from, and is
\* queued or lost.
LEMMA RespondStep ==
  ASSUME ClientInv, NEW id \in pending, NEW answer \in {"failed", "busy", "tokens"}, Respond(id, answer)
  PROVE  CallsTyped' /\ Honest' /\ Queued' /\ \A d \in Call : CallInv(d)'
<1> DEFINE R == [request : Nat, peer : Peer, answer : {"failed", "busy", "tokens"}]
           r == [request |-> id, peer |-> asked[id].peer, answer |-> answer]
<1>1. /\ CallsTyped /\ Honest /\ Queued /\ \A d \in Call : CallInv(d)
      /\ asked \in Seq([call : Call, peer : Peer]) /\ pending \subseteq 1..Len(asked) /\ responses \in Seq(R)
  BY DEF ClientInv, CallsTyped
<1>2. /\ pending' = pending \ {id} /\ UNCHANGED <<calls, waiters, asked>>
      /\ \/ responses' = responses
         \/ responses' = Append(responses, r)
  BY DEF Respond
<1>3. id \in 1..Len(asked) /\ asked[id].peer \in Peer
  <2>1. id \in 1..Len(asked)
    BY <1>1
  <2> QED BY <1>1, <2>1, Lookups
<1>4. r \in R /\ r.request = id /\ r.peer = asked[id].peer
  <2>1. Len(asked) \in Nat
    BY <1>1
  <2> QED BY <1>3, <2>1
<1> HIDE DEF R, r
<1>5. responses' \in Seq(R) /\ Honest'
  <2>1. CASE responses' = responses
    BY <1>1, <1>2, <2>1 DEF Honest
  <2>2. CASE responses' = Append(responses, r)
    <3>1. /\ responses' \in Seq(R) /\ Len(responses') = Len(responses) + 1 /\ responses'[Len(responses) + 1] = r
          /\ \A i \in 1..Len(responses) : responses'[i] = responses[i]
      BY <1>1, <1>4, <2>2, AppendProperties
    <3>2. Len(responses) \in Nat
      BY <1>1
    <3>3. 1..Len(responses') = 1..Len(responses) \cup {Len(responses) + 1}
      BY <3>1, <3>2
    <3>4. Honest'
      BY <1>1, <1>2, <1>3, <1>4, <3>1, <3>3 DEF Honest
    <3> QED BY <3>1, <3>4
  <2> QED BY <1>2, <2>1, <2>2
<1>6. CallsTyped' /\ Queued' /\ \A d \in Call : CallInv(d)'
  <2>1. CallsTyped'
    BY <1>1, <1>2, <1>5 DEF CallsTyped, R
  <2> QED BY <1>1, <1>2, <2>1 DEF Queued, CallInv, LastOf
<1> QED BY <1>5, <1>6

\* Every step keeps what a call knows of its requests and their answers.
LEMMA ClientStep ==
  ASSUME ClientInv, [NetworkNext]_vars
  PROVE  ClientInv'
<1>1. /\ CallsTyped /\ Honest /\ Queued /\ \A d \in Call : CallInv(d)
  BY DEF ClientInv
<1>2. CASE /\ OffersTyped' /\ CallsTyped' /\ Honest' /\ Queued' /\ \A d \in Call : CallInv(d)'
  BY <1>2 DEF ClientInv
<1>3. ASSUME UNCHANGED <<calls, waiters, asked, responses>>, pending' \subseteq pending, OffersTyped'
      PROVE  ClientInv'
  <2>1. CallsTyped'
    BY <1>1, <1>3 DEF CallsTyped
  <2>2. Honest' /\ Queued'
    BY <1>1, <1>3 DEF Honest, Queued
  <2>3. \A d \in Call : CallInv(d)'
    BY <1>1, <1>3 DEF CallInv, LastOf
  <2> QED BY <1>3, <2>1, <2>2, <2>3 DEF ClientInv
<1>4. OffersTyped'
  <2>1. CASE UNCHANGED vars
    BY <2>1 DEF ClientInv, OffersTyped, vars, peeringVars, clientVars
  <2> QED BY <2>1, OffersStep DEF ClientInv
<1>5. CASE Calling
  <2>1. CASE Shutdown
    BY <1>3, <1>4, <2>1 DEF Shutdown
  <2>2. ASSUME NEW c \in Call, Infer(c) \/ GiveUp(c) PROVE ClientInv'
    BY <1>2, <1>4, <2>2, BeginStep
  <2>3. ASSUME NEW c \in Call, SendInference(c) PROVE ClientInv'
    BY <1>2, <1>4, <2>3, SendStep
  <2>4. ASSUME NEW c \in Call, Receive(c) \/ Silence(c) PROVE ClientInv'
    BY <1>2, <1>4, <2>4, ReceiveStep
  <2>5. ASSUME NEW id \in pending, NEW answer \in {"failed", "busy", "tokens"}, Respond(id, answer) PROVE ClientInv'
    BY <1>2, <1>4, <2>5, RespondStep
  <2>6. ASSUME NEW id \in pending, NEW answer \in {"tokens", "busy"}, Answer(id, answer) PROVE ClientInv'
    BY <2>5, <2>6 DEF Answer
  <2>7. ASSUME NEW id \in pending, OutboundFailure(id) PROVE ClientInv'
    BY <2>5, <2>7 DEF OutboundFailure
  <2> QED BY <1>5, <2>1, <2>2, <2>3, <2>4, <2>6, <2>7 DEF Calling, CallStep
<1>6. CASE ~Calling
  <2>1. UNCHANGED <<calls, waiters, asked, responses, pending>>
    BY <1>6 DEF NetworkNext, PoolOffer, Listen, Tick, clientVars, vars
  <2> QED BY <1>3, <1>4, <2>1
<1> QED BY <1>5, <1>6

\* A call that ends with an answer has the one to the last request it sent
\* itself, from the candidate it sent it to, whichever calls share the queue of
\* responses with it (send_inference).
THEOREM OwnAnswerAlways == NetworkSpec => []OwnAnswer
<1>1. PeeringInit /\ ClientInit => ClientInv
  <2> SUFFICES ASSUME PeeringInit, ClientInit PROVE ClientInv
    OBVIOUS
  <2>1. /\ events = <<>> /\ table = {} /\ waiters = <<>> /\ asked = <<>> /\ pending = {} /\ responses = <<>>
        /\ calls = [c \in Call |-> [phase |-> "idle", left |-> <<>>, request |-> 0, result |-> [kind |-> "none"]]]
    BY DEF PeeringInit, ClientInit
  <2>2. OffersTyped
    BY <2>1, FS_EmptySet, EmptySeq DEF OffersTyped
  <2>3. CallsTyped
    <3>1. [phase |-> "idle", left |-> <<>>, request |-> 0, result |-> [kind |-> "none"]] \in CallState
      BY EmptySeq DEF CallState, Result
    <3>2. calls \in [Call -> CallState]
      BY <2>1, <3>1
    <3> QED BY <2>1, <3>2, EmptySeq DEF CallsTyped
  <2>4. Honest /\ Queued
    <3>1. Len(waiters) = 0 /\ Len(responses) = 0
      BY <2>1
    <3> QED BY <3>1 DEF Honest, Queued
  <2>5. \A c \in Call : CallInv(c)
    BY <2>1 DEF CallInv
  <2> QED BY <2>2, <2>3, <2>4, <2>5 DEF ClientInv
<1>2. ClientInv /\ [NetworkNext]_vars => ClientInv'
  BY ClientStep
<1>3. ClientInv => OwnAnswer
  <2> SUFFICES ASSUME ClientInv, NEW c \in Call, calls[c].result.kind = "answer"
               PROVE  /\ asked[calls[c].result.request] = [call |-> c, peer |-> calls[c].result.peer]
                      /\ \A later \in calls[c].result.request + 1..Len(asked) : asked[later].call # c
    BY DEF OwnAnswer
  <2> DEFINE r == calls[c].result.request
  <2>1. LastOf(c, r) /\ asked[r].peer = calls[c].result.peer /\ CallsTyped
    BY DEF ClientInv, CallInv
  <2> HIDE DEF r
  <2>2. r \in 1..Len(asked) /\ asked[r].call = c
    BY <2>1 DEF LastOf
  <2>3. asked[r] = [call |-> asked[r].call, peer |-> asked[r].peer]
    BY <2>1, <2>2, Lookups
  <2>4. asked[r] = [call |-> c, peer |-> calls[c].result.peer]
    BY <2>1, <2>2, <2>3
  <2> QED BY <2>1, <2>4 DEF LastOf, r
<1> QED BY <1>1, <1>2, <1>3, PTL DEF NetworkSpec

-----------------------------------------------------------------------------
(* The gossip of validators *)

Timeouts == [kind : Kinds, round : Nat]

SignedInputs == [kind : {"Signed"}, signed : UNION {ClassifyInbound(event) : event \in OnTheWire}]

Inputs ==
  [kind : {"StartHeight"}, height : Nat] \cup {Input("Propose"), Input("ProposedValue")}
  \cup [kind : {"TimeoutElapsed"}, timeout : Timeouts] \cup SignedInputs

\* What of the loop matters to what it has received.
LoopTyped ==
  /\ stage \in {"off", "top", "batch", "select", "stopped"}
  /\ pending_inputs \in Seq(Inputs)
  /\ batch \in Nat
  /\ IsFiniteSet(pending_timeouts) /\ pending_timeouts \subseteq [timeout : Timeouts, deadline : Nat]
  /\ current_height \in Nat /\ clock \in Nat
  /\ core \in [height : Nat, round : Nat]
  /\ net_rx \in Seq(OnTheWire)

\* The engine starts once, with nothing received.
StartsOnce ==
  /\ step \in {"keypair", "network", "runtime", "consensus"} => stage = "off"
  /\ stage = "off" => pending_inputs = <<>> /\ taken = {} /\ accepted = {}

\* Inputs that run out of a batch are there, and none waits when others come.
BatchHeld ==
  /\ stage = "batch" => batch <= Len(pending_inputs)
  /\ stage = "select" => pending_inputs = <<>>

\* What is queued was received.
QueuedReceived == NotesIn(pending_inputs) \subseteq UNION taken

GossipInv == LoopTyped /\ StartsOnce /\ BatchHeld /\ QueuedReceived /\ GossipFaithful

\* What is signed survives the encoding and the decoding: nothing that the
\* signature covers is dropped or filled in otherwise (network_bridge.rs:55-181).
LEMMA WireKeeps ==
  ASSUME NEW m \in Message
  PROVE  ClassifyInbound(Published(m)) = {Signed(m, m.validator_address)}
<1> DEFINE s == Signed(m, m.validator_address)
<1>1. CASE IsVote(m)
  <2>1. m.kind = "vote" /\ s.message = m
    BY <1>1 DEF IsVote, Signed
  <2>2. Published(m).topic = TOPIC_CONSENSUS_VOTE /\ Published(m).data = EncodeSignedVote(s)
    BY <2>1 DEF Published, OutboundMessage
  <2>3. WellFormed(EncodeSignedVote(s))
    BY <1>1, <2>1 DEF WellFormed, EncodeSignedVote, TypeByte, IsVote
  <2>4. DecodeSignedVote(EncodeSignedVote(s)).message = m
    <3> DEFINE w == EncodeSignedVote(s)
    <3>1. w.height = m.height /\ w.round = m.round /\ w.validator_address = m.validator_address
      BY <2>1 DEF EncodeSignedVote
    <3>2. (IF w.vote_type = 1 THEN "Prevote" ELSE "Precommit") = m.vote_type
      BY <1>1, <2>1 DEF EncodeSignedVote, TypeByte, IsVote
    <3>3. (IF w.value_tag = 0 THEN NoValue ELSE w.value) = m.value
      BY <1>1, <2>1 DEF EncodeSignedVote, IsVote, NoValue
    <3>4. DecodeSignedVote(w).message =
            Vote(w.height, w.round, IF w.vote_type = 1 THEN "Prevote" ELSE "Precommit",
                 IF w.value_tag = 0 THEN NoValue ELSE w.value, w.validator_address)
      BY DEF DecodeSignedVote
    <3>5. DecodeSignedVote(w).message = Vote(m.height, m.round, m.vote_type, m.value, m.validator_address)
      BY <3>1, <3>2, <3>3, <3>4
    <3> QED BY <1>1, <3>5 DEF IsVote
  <2>5. DecodeSignedVote(EncodeSignedVote(s)).signature = s.signature
    BY DEF DecodeSignedVote, EncodeSignedVote
  <2>6. DecodeSignedVote(EncodeSignedVote(s)) = s
    BY <2>1, <2>4, <2>5 DEF DecodeSignedVote, Signed
  <2> QED BY <2>2, <2>3, <2>6 DEF ClassifyInbound
<1>2. CASE IsProposal(m)
  <2>1. m.kind = "proposal" /\ s.message = m
    BY <1>2 DEF IsProposal, Signed
  <2>2. Published(m).topic = TOPIC_BLOCK_PROP /\ Published(m).data = EncodeSignedProposal(s)
    BY <2>1 DEF Published, OutboundMessage
  <2>3. DecodeSignedProposal(EncodeSignedProposal(s)).message = m
    BY <1>2, <2>1 DEF DecodeSignedProposal, EncodeSignedProposal, IsProposal
  <2>4. DecodeSignedProposal(EncodeSignedProposal(s)) = s
    BY <2>1, <2>3 DEF DecodeSignedProposal, EncodeSignedProposal, Signed
  <2> QED BY <2>2, <2>4 DEF ClassifyInbound, TOPIC_BLOCK_PROP, TOPIC_CONSENSUS_VOTE
<1> QED BY <1>1, <1>2, MessageAssumption

\* A message is what it shows of itself when its key signed it.
LEMMA SignedShows ==
  ASSUME NEW m \in Message
  PROVE  Shows(Signed(m, m.validator_address)) = {[message |-> m, key |-> m.validator_address]}
BY DEF Shows, Note, Signed

\* An event gives one signed message or none, and its note says what that shows.
LEMMA EventGives ==
  ASSUME NEW event \in OnTheWire
  PROVE  /\ event.of = UNION {Shows(signed) : signed \in ClassifyInbound(event)}
         /\ ClassifyInbound(event) = {} \/ \E signed : ClassifyInbound(event) = {signed}
         /\ \A signed \in ClassifyInbound(event) :
              signed = [message |-> signed.message, signature |-> signed.signature]
<1>1. event.of = UNION {Shows(signed) : signed \in ClassifyInbound(event)}
  <2>1. ASSUME NEW m \in Message, event = Published(m)
        PROVE  event.of = UNION {Shows(signed) : signed \in ClassifyInbound(event)}
    <3>1. ClassifyInbound(event) = {Signed(m, m.validator_address)}
      BY <2>1, WireKeeps
    <3>2. event.of = {[message |-> m, key |-> m.validator_address]}
      BY <2>1 DEF Published
    <3> QED BY <3>1, <3>2, SignedShows
  <2>2. ASSUME NEW e \in Foreign, event = Heard(e)
        PROVE  event.of = UNION {Shows(signed) : signed \in ClassifyInbound(event)}
    <3>1. event.topic = e.topic /\ event.data = e.data
          /\ event.of = UNION {Shows(signed) : signed \in ClassifyInbound(e)}
      BY <2>2 DEF Heard
    <3>2. ClassifyInbound(event) = ClassifyInbound(e)
      BY <3>1 DEF ClassifyInbound
    <3> QED BY <3>1, <3>2
  <2> QED BY <2>1, <2>2 DEF OnTheWire
<1>2. ClassifyInbound(event) = {} \/ \E signed : ClassifyInbound(event) = {signed}
  BY DEF ClassifyInbound
<1>3. ASSUME NEW signed \in ClassifyInbound(event)
      PROVE  signed = [message |-> signed.message, signature |-> signed.signature]
  <2>1. signed = DecodeSignedVote(event.data) \/ signed = DecodeSignedProposal(event.data)
    BY <1>3 DEF ClassifyInbound
  <2> QED BY <2>1 DEF DecodeSignedVote, DecodeSignedProposal
<1> QED BY <1>1, <1>2, <1>3

\* The messages of a queue, of one with an input more, and of one without its first.
LEMMA MessagesOf ==
  ASSUME NEW inputs \in Seq(Inputs)
  PROVE  /\ NotesIn(<<>>) = {}
         /\ \A input \in Inputs : input.kind # "Signed" =>
              NotesIn(Append(inputs, input)) = NotesIn(inputs)
         /\ inputs # <<>> =>
              /\ NotesIn(Tail(inputs)) \subseteq NotesIn(inputs)
              /\ Head(inputs).kind # "Signed" => NotesIn(inputs) \subseteq NotesIn(Tail(inputs))
              /\ Head(inputs).kind = "Signed" =>
                   /\ Shows(Head(inputs).signed) \subseteq NotesIn(inputs)
                   /\ NotesIn(inputs) \subseteq NotesIn(Tail(inputs)) \cup Shows(Head(inputs).signed)
<1>1. NotesIn(<<>>) = {}
  BY DEF NotesIn
<1>2. ASSUME NEW input \in Inputs, input.kind # "Signed"
      PROVE  NotesIn(Append(inputs, input)) = NotesIn(inputs)
  <2> DEFINE more == Append(inputs, input)
  <2>1. Len(more) = Len(inputs) + 1 /\ more[Len(inputs) + 1] = input /\ \A i \in 1..Len(inputs) : more[i] = inputs[i]
    OBVIOUS
  <2>2. DOMAIN more = 1..Len(inputs) + 1 /\ DOMAIN inputs = 1..Len(inputs)
    OBVIOUS
  <2> HIDE DEF more
  <2>3. {j \in DOMAIN more : more[j].kind = "Signed"} = {j \in DOMAIN inputs : inputs[j].kind = "Signed"}
    BY <1>2, <2>1, <2>2
  <2> QED BY <2>1, <2>2, <2>3 DEF NotesIn, more
<1>3. ASSUME inputs # <<>>
      PROVE  /\ NotesIn(Tail(inputs)) \subseteq NotesIn(inputs)
             /\ Head(inputs).kind # "Signed" => NotesIn(inputs) \subseteq NotesIn(Tail(inputs))
             /\ Head(inputs).kind = "Signed" =>
                  /\ Shows(Head(inputs).signed) \subseteq NotesIn(inputs)
                  /\ NotesIn(inputs) \subseteq NotesIn(Tail(inputs)) \cup Shows(Head(inputs).signed)
  <2> DEFINE t == Tail(inputs)
             h == Head(inputs)
  <2>1. /\ h = inputs[1] /\ 1 \in DOMAIN inputs /\ DOMAIN inputs = 1..Len(inputs) /\ DOMAIN t = 1..Len(inputs) - 1
        /\ \A i \in DOMAIN t : i + 1 \in DOMAIN inputs /\ t[i] = inputs[i + 1]
    BY <1>3
  <2>2. Len(inputs) \in Nat
    OBVIOUS
  <2> HIDE DEF t, h
  <2>3. NotesIn(t) \subseteq NotesIn(inputs)
    BY <2>1 DEF NotesIn
  <2>4. ASSUME NEW m \in NotesIn(inputs), m \notin NotesIn(t)
        PROVE  h.kind = "Signed" /\ m \in Shows(h.signed)
    <3>1. PICK i \in DOMAIN inputs : inputs[i].kind = "Signed" /\ m \in Shows(inputs[i].signed)
      BY DEF NotesIn
    <3>2. CASE i # 1
      <4>1. i - 1 \in DOMAIN t /\ (i - 1) + 1 = i
        BY <2>1, <2>2, <3>1, <3>2
      <4>2. t[i - 1] = inputs[i]
        BY <2>1, <4>1
      <4> QED BY <2>4, <3>1, <4>1, <4>2 DEF NotesIn
    <3> QED BY <2>1, <3>1, <3>2
  <2>5. h.kind = "Signed" => Shows(h.signed) \subseteq NotesIn(inputs)
    BY <2>1 DEF NotesIn
  <2> QED BY <2>3, <2>4, <2>5 DEF t, h
<1> QED BY <1>1, <1>2, <1>3

-----------------------------------------------------------------------------

\* Timeouts have a time, and there are finitely many of them.
TimeoutsTyped(timeouts) == IsFiniteSet(timeouts) /\ timeouts \subseteq [timeout : Timeouts, deadline : Nat]

\* So it stays when one is scheduled or cancelled.
LEMMA TimeoutsKept ==
  ASSUME clock \in Nat, NEW timeouts, TimeoutsTyped(timeouts), NEW t \in Timeouts
  PROVE  TimeoutsTyped(Scheduled(timeouts, t)) /\ TimeoutsTyped(Cancelled(timeouts, t))
<1>1. {p \in timeouts : p.timeout # t} \subseteq timeouts
  OBVIOUS
<1>2. IsFiniteSet({p \in timeouts : p.timeout # t})
  BY <1>1, FS_Subset DEF TimeoutsTyped
<1>3. [timeout |-> t, deadline |-> clock + DurationFor(t)] \in [timeout : Timeouts, deadline : Nat]
  <2>1. t.kind \in Kinds /\ t.round \in Nat
    BY DEF Timeouts
  <2>2. DurationFor(t) \in Nat
    BY <2>1, DriverAssumption DEF DurationFor
  <2> QED BY <2>2
<1>4. IsFiniteSet(Scheduled(timeouts, t))
  BY <1>2, FS_AddElement DEF Scheduled
<1> QED BY <1>1, <1>2, <1>3, <1>4 DEF TimeoutsTyped, Scheduled, Cancelled

\* An effect leaves the queue as it is or adds an input of the engine's own.
Extended(inputs) ==
  \/ pending_inputs' = inputs
  \/ \E x \in Inputs : x.kind # "Signed" /\ pending_inputs' = Append(inputs, x)

\* What an effect keeps.
EffectTyped ==
  /\ TimeoutsTyped(pending_timeouts)
  /\ current_height \in Nat
  /\ core \in [height : Nat, round : Nat]

\* The next height is one, and starts with an input of the engine's own.
LEMMA HeightsAdd ==
  ASSUME NEW h \in Nat
  PROVE  NextHeight(h) \in Nat /\ StartHeight(NextHeight(h)) \in Inputs
<1>1. (h + 1) % Heights \in Nat
  BY DriverAssumption
<1> QED BY <1>1 DEF NextHeight, StartHeight, Inputs

\* Entering a round has effects of that kind only.
LEMMA RoundEntered ==
  ASSUME clock \in Nat, NEW height \in Nat, NEW round \in Nat, NEW inputs, EnterRound(height, round, inputs),
         EffectTyped, current_height' = current_height
  PROVE  EffectTyped' /\ Extended(inputs)
<1>1. core' \in [height : Nat, round : Nat]
  BY DEF EnterRound
<1>2. Input("Propose") \in Inputs /\ Input("Propose").kind # "Signed"
  BY DEF Inputs, Input
<1>3. TimeoutsTyped({})
  BY FS_EmptySet DEF TimeoutsTyped
<1>4. TimeoutsTyped(Scheduled({}, [kind |-> "Propose", round |-> round]))
  <2>1. [kind |-> "Propose", round |-> round] \in Timeouts
    BY DriverAssumption DEF Timeouts
  <2> QED BY <1>3, <2>1, TimeoutsKept
<1>5. TimeoutsTyped(pending_timeouts')
  BY <1>3, <1>4 DEF EnterRound
<1>6. Extended(inputs)
  BY <1>2 DEF EnterRound, Extended
<1> QED BY <1>1, <1>5, <1>6 DEF EffectTyped, TimeoutsTyped

\* So has a decision,
LEMMA HeightDecided ==
  ASSUME NEW inputs, Decide(inputs), EffectTyped
  PROVE  EffectTyped' /\ Extended(inputs)
<1>1. core.height \in Nat
  BY DEF EffectTyped
<1>2. StartHeight(NextHeight(core.height)) \in Inputs /\ StartHeight(NextHeight(core.height)).kind # "Signed"
  BY <1>1, HeightsAdd DEF StartHeight
<1>3. Extended(inputs)
  BY <1>2 DEF Decide, Extended
<1>4. current_height' \in Nat /\ pending_timeouts' = pending_timeouts /\ core' = core
  BY <1>1 DEF Decide, EffectTyped
<1> QED BY <1>3, <1>4 DEF EffectTyped, TimeoutsTyped

\* and whatever else the core does with an input.
LEMMA CoreReacts ==
  ASSUME clock \in Nat, NEW inputs, React(inputs), EffectTyped
  PROVE  EffectTyped' /\ Extended(inputs)
<1>1. \A kind \in Kinds : Timeout(kind) \in Timeouts
  BY DEF Timeout, Timeouts, EffectTyped
<1>2. TimeoutsTyped(pending_timeouts')
  BY <1>1, TimeoutsKept DEF React, EffectTyped
<1>3. current_height' = current_height /\ core' = core /\ pending_inputs' = inputs
  BY DEF React
<1> QED BY <1>2, <1>3 DEF EffectTyped, Extended, TimeoutsTyped

\* What an extended queue holds.
LEMMA ExtendedHolds ==
  ASSUME NEW inputs \in Seq(Inputs), Extended(inputs)
  PROVE  /\ pending_inputs' \in Seq(Inputs)
         /\ Len(inputs) <= Len(pending_inputs')
         /\ NotesIn(pending_inputs)' = NotesIn(inputs)
<1>1. CASE pending_inputs' = inputs
  BY <1>1 DEF NotesIn
<1>2. ASSUME NEW x \in Inputs, x.kind # "Signed", pending_inputs' = Append(inputs, x)
      PROVE  /\ pending_inputs' \in Seq(Inputs) /\ Len(inputs) <= Len(pending_inputs')
             /\ NotesIn(pending_inputs)' = NotesIn(inputs)
  <2>1. NotesIn(pending_inputs') = NotesIn(inputs)
    BY <1>2, MessagesOf
  <2>2. NotesIn(pending_inputs)' = NotesIn(pending_inputs')
    BY DEF NotesIn
  <2> QED BY <1>2, <2>1, <2>2
<1> QED BY <1>1, <1>2 DEF Extended

\* The core accepts a signed message if it shows that the key of its sender in
\* the set signed it, and only then.
LEMMA AcceptsShown ==
  ASSUME NEW signed, signed = [message |-> signed.message, signature |-> signed.signature]
  PROVE  /\ Accepted(signed) => Note(signed) \in Shows(signed) /\ InSet(Note(signed))
         /\ ~Accepted(signed) => \A note \in Shows(signed) : ~InSet(note)
<1> DEFINE keys == PubkeyForAddress(validators, signed.message.validator_address)
<1>1. Accepted(signed) <=> \E key \in keys : Verified(signed, key)
  BY DEF Accepted
<1>2. Note(signed).message = signed.message /\ Note(signed).key = signed.signature.key
  BY DEF Note
<1>3. InSet(Note(signed)) <=> Note(signed).key \in keys
  BY <1>2 DEF InSet
<1> HIDE DEF keys
<1>4. ASSUME NEW key \in keys, Verified(signed, key)
      PROVE  Note(signed) \in Shows(signed) /\ InSet(Note(signed))
  <2>1. signed.signature = [key |-> key, digest |-> Digest(signed.message)]
    BY <1>4 DEF Verified
  <2>2. Note(signed).key = key
    BY <1>2, <2>1
  <2>3. signed = Signed(Note(signed).message, Note(signed).key)
    BY <1>2, <2>1, <2>2 DEF Signed
  <2> QED BY <1>3, <1>4, <2>2, <2>3 DEF Shows
<1>5. ASSUME NEW note \in Shows(signed), InSet(note)
      PROVE  Accepted(signed)
  <2>1. note = Note(signed) /\ signed = Signed(note.message, note.key)
    BY <1>5 DEF Shows
  <2>2. note.key \in keys
    BY <1>3, <1>5, <2>1
  <2>3. signed.signature = [key |-> note.key, digest |-> Digest(note.message)]
    BY <2>1 DEF Signed
  <2>4. Verified(signed, note.key)
    BY <1>2, <2>1, <2>3 DEF Verified
  <2> QED BY <1>1, <2>2, <2>4
<1> QED BY <1>1, <1>4, <1>5

\* An input is taken in: of the messages received, those of the set are accepted
\* and the others dropped.
LEMMA InputFed ==
  ASSUME GossipInv, Feed, step' = step
  PROVE  GossipInv'
<1> DEFINE input == Head(pending_inputs)
           rest == Tail(pending_inputs)
<1>1. /\ stage = "batch" /\ batch > 0 /\ batch' = batch - 1 /\ stage' = stage /\ validators' = validators
      /\ net_rx' = net_rx /\ clock' = clock /\ taken' = taken
  BY DEF Feed
<1>2. pending_inputs \in Seq(Inputs) /\ batch \in Nat /\ batch <= Len(pending_inputs) /\ clock \in Nat
  BY <1>1 DEF GossipInv, LoopTyped, BatchHeld
<1>3. pending_inputs # <<>>
  BY <1>1, <1>2
<1>4. input \in Inputs /\ rest \in Seq(Inputs) /\ Len(rest) = Len(pending_inputs) - 1
  BY <1>2, <1>3
<1>5. EffectTyped
  BY DEF GossipInv, LoopTyped, EffectTyped, TimeoutsTyped
<1>6. EffectTyped' /\ Extended(rest)
  <2>1. CASE /\ input.kind = "StartHeight" /\ EnterRound(input.height, 0, rest)
             /\ UNCHANGED current_height
    <3>1. input.height \in Nat
      BY <1>4, <2>1 DEF Inputs, Input, SignedInputs
    <3> HIDE DEF input, rest
    <3> QED BY <1>2, <1>5, <2>1, <3>1, RoundEntered
  <2>2. CASE Decide(rest)
    BY <1>5, <2>2, HeightDecided
  <2>3. CASE React(rest)
    BY <1>2, <1>5, <2>3, CoreReacts
  <2>4. CASE EnterRound(core.height, core.round + 1, rest) /\ UNCHANGED current_height
    <3>1. core.height \in Nat /\ core.round + 1 \in Nat
      BY <1>5 DEF EffectTyped
    <3> HIDE DEF rest
    <3> QED BY <1>2, <1>5, <2>4, <3>1, RoundEntered
  <2>5. CASE pending_inputs' = rest /\ UNCHANGED <<pending_timeouts, core, current_height>>
    BY <1>5, <2>5 DEF EffectTyped, TimeoutsTyped, Extended
  <2> QED BY <2>1, <2>2, <2>3, <2>4, <2>5 DEF Feed
<1>7. /\ input.kind # "Signed" => accepted' = accepted
      /\ input.kind = "Signed" =>
           accepted' = IF Accepted(input.signed) THEN accepted \cup {Note(input.signed)} ELSE accepted
  BY DEF Feed
<1> HIDE DEF input, rest
<1>8. /\ pending_inputs' \in Seq(Inputs) /\ Len(rest) <= Len(pending_inputs')
      /\ NotesIn(pending_inputs)' = NotesIn(rest)
  BY <1>4, <1>6, ExtendedHolds
<1>9. LoopTyped'
  <2>1. batch' \in Nat
    BY <1>1, <1>2
  <2> QED BY <1>1, <1>6, <1>8, <2>1 DEF GossipInv, LoopTyped, EffectTyped, TimeoutsTyped
<1>10. StartsOnce' /\ BatchHeld'
  <2>1. batch' <= Len(pending_inputs')
    BY <1>1, <1>2, <1>4, <1>8
  <2>2. step \notin {"keypair", "network", "runtime", "consensus"}
    BY <1>1 DEF GossipInv, StartsOnce
  <2> QED BY <1>1, <2>1, <2>2 DEF StartsOnce, BatchHeld
<1>11. /\ NotesIn(rest) \subseteq NotesIn(pending_inputs)
       /\ input.kind # "Signed" => NotesIn(pending_inputs) \subseteq NotesIn(rest)
       /\ input.kind = "Signed" =>
            /\ Shows(input.signed) \subseteq NotesIn(pending_inputs)
            /\ NotesIn(pending_inputs) \subseteq NotesIn(rest) \cup Shows(input.signed)
  BY <1>2, <1>3, MessagesOf DEF input, rest
<1>12. QueuedReceived'
  BY <1>1, <1>8, <1>11 DEF GossipInv, QueuedReceived
<1>13. Received' = Received
  BY <1>1 DEF Received, InSet
<1>14. /\ accepted \subseteq Received /\ Received \subseteq accepted \cup NotesIn(pending_inputs)
       /\ NotesIn(pending_inputs) \subseteq UNION taken
  BY DEF GossipInv, GossipFaithful, QueuedReceived
<1>15. accepted' \subseteq Received /\ Received \subseteq accepted' \cup NotesIn(rest)
  <2>1. CASE input.kind # "Signed"
    BY <1>7, <1>11, <1>14, <2>1
  <2>2. CASE input.kind = "Signed"
    <3>1. PICK event \in OnTheWire : input.signed \in ClassifyInbound(event)
      BY <1>4, <2>2 DEF Inputs, Input, SignedInputs
    <3>2. input.signed = [message |-> input.signed.message, signature |-> input.signed.signature]
      BY <3>1, EventGives
    <3>3. \A note \in Shows(input.signed) : note = Note(input.signed) /\ note \in UNION taken
      BY <1>11, <1>14, <2>2 DEF Shows
    <3>4. CASE Accepted(input.signed)
      <4>1. accepted' = accepted \cup {Note(input.signed)}
        BY <1>7, <2>2, <3>4
      <4>2. Note(input.signed) \in Shows(input.signed) /\ InSet(Note(input.signed))
        BY <3>2, <3>4, AcceptsShown
      <4>3. Note(input.signed) \in Received
        BY <3>3, <4>2 DEF Received
      <4> QED BY <1>11, <1>14, <2>2, <3>3, <4>1, <4>3
    <3>5. CASE ~Accepted(input.signed)
      <4>1. accepted' = accepted
        BY <1>7, <2>2, <3>5
      <4>2. \A note \in Shows(input.signed) : note \notin Received
        BY <3>2, <3>5, AcceptsShown DEF Received
      <4> QED BY <1>11, <1>14, <2>2, <4>1, <4>2
    <3> QED BY <3>4, <3>5
  <2> QED BY <2>1, <2>2
<1>16. GossipFaithful'
  BY <1>8, <1>13, <1>15 DEF GossipFaithful
<1> QED BY <1>9, <1>10, <1>12, <1>16 DEF GossipInv

\* What the invariant reads besides the stages and the clock.
receiving == <<validators, pending_inputs, batch, pending_timeouts, current_height, core, net_rx, taken, accepted>>

Boots == {"keypair", "network", "runtime", "consensus"}

\* A step that leaves it alone keeps the invariant, if the stages still fit.
LEMMA ReceivingAlone ==
  ASSUME GossipInv, UNCHANGED receiving, clock' \in Nat,
         stage' \in {"off", "top", "batch", "select", "stopped"},
         step' \in Boots => stage' = "off",
         stage' = "off" => stage = "off",
         stage' = "batch" => stage = "batch",
         stage' = "select" => pending_inputs = <<>>
  PROVE  GossipInv'
<1>1. LoopTyped' /\ BatchHeld'
  BY DEF GossipInv, LoopTyped, BatchHeld, receiving
<1>2. StartsOnce'
  BY DEF GossipInv, StartsOnce, receiving, Boots
<1>3. NotesIn(pending_inputs)' = NotesIn(pending_inputs) /\ Received' = Received
  BY DEF NotesIn, Received, InSet, receiving
<1>4. QueuedReceived' /\ GossipFaithful'
  BY <1>3 DEF GossipInv, QueuedReceived, GossipFaithful, receiving
<1> QED BY <1>1, <1>2, <1>4 DEF GossipInv

\* The queue is replaced while it holds nothing.
LEMMA QueueReplaced ==
  ASSUME GossipInv, pending_inputs = <<>>, pending_inputs' \in Seq(Inputs),
         NotesIn(pending_inputs)' = {},
         UNCHANGED <<validators, taken, accepted>>
  PROVE  QueuedReceived' /\ GossipFaithful'
<1>1. NotesIn(pending_inputs) = {}
  BY MessagesOf DEF GossipInv, LoopTyped
<1>2. Received' = Received
  BY DEF Received, InSet
<1> QED BY <1>1, <1>2 DEF GossipInv, QueuedReceived, GossipFaithful

\* A batch is what the queue holds.
LEMMA BatchStarted ==
  ASSUME GossipInv, StartBatch, step' = step
  PROVE  GossipInv'
<1>1. /\ stage = "top" /\ stage' = "batch" /\ batch' = Len(pending_inputs)
      /\ UNCHANGED <<validators, pending_inputs, pending_timeouts, current_height, core, net_rx, taken, accepted, clock>>
  BY DEF StartBatch, history
<1>2. Len(pending_inputs) \in Nat
  BY DEF GossipInv, LoopTyped
<1>3. LoopTyped' /\ BatchHeld' /\ StartsOnce'
  BY <1>1, <1>2 DEF GossipInv, LoopTyped, BatchHeld, StartsOnce
<1>4. NotesIn(pending_inputs)' = NotesIn(pending_inputs) /\ Received' = Received
  BY <1>1 DEF NotesIn, Received, InSet
<1> QED BY <1>1, <1>3, <1>4 DEF GossipInv, QueuedReceived, GossipFaithful

\* An idle engine begins a height of its own.
LEMMA BatchEnded ==
  ASSUME GossipInv, EndBatch, step' = step
  PROVE  GossipInv'
<1>1. /\ stage = "batch" /\ stage' \in {"top", "select"}
      /\ UNCHANGED <<validators, batch, pending_timeouts, current_height, core, net_rx, clock, taken, accepted>>
  BY DEF EndBatch
<1>2. step \notin Boots /\ clock \in Nat
  BY <1>1 DEF GossipInv, StartsOnce, LoopTyped, Boots
<1>3. CASE pending_inputs' = pending_inputs /\ (stage' = "select" => pending_inputs = <<>>)
  BY <1>1, <1>2, <1>3, ReceivingAlone DEF receiving
<1>4. CASE pending_inputs = <<>> /\ pending_inputs' = <<StartHeight(NextHeight(current_height))>> /\ stage' = "top"
  <2>1. StartHeight(NextHeight(current_height)) \in Inputs
    BY HeightsAdd DEF GossipInv, LoopTyped
  <2>2. StartHeight(NextHeight(current_height)).kind # "Signed"
    BY DEF StartHeight
  <2>3. pending_inputs' \in Seq(Inputs) /\ NotesIn(pending_inputs)' = {}
    BY <1>4, <2>1, <2>2 DEF NotesIn
  <2>4. QueuedReceived' /\ GossipFaithful'
    BY <1>1, <1>4, <2>3, QueueReplaced
  <2>5. LoopTyped' /\ BatchHeld' /\ StartsOnce'
    BY <1>1, <1>2, <1>4, <2>3 DEF GossipInv, LoopTyped, BatchHeld, StartsOnce, Boots
  <2> QED BY <2>4, <2>5 DEF GossipInv
<1> QED BY <1>3, <1>4 DEF EndBatch

\* The timeouts that have passed become inputs.
LEMMA TimerSelected ==
  ASSUME GossipInv, SelectTimer, step' = step
  PROVE  GossipInv'
<1> DEFINE expired == {p \in pending_timeouts : p.deadline <= clock}
<1>1. /\ stage = "select" /\ stage' = "top" /\ pending_timeouts' = pending_timeouts \ expired
      /\ UNCHANGED <<validators, batch, current_height, core, net_rx, clock, taken, accepted>>
  BY DEF SelectTimer
<1>2. PICK order \in SetToSeqs(expired) :
        pending_inputs' = [i \in DOMAIN order |-> [kind |-> "TimeoutElapsed", timeout |-> order[i].timeout]]
  BY DEF SelectTimer
<1>3. IsFiniteSet(expired) /\ IsFiniteSet(pending_timeouts') /\ expired \subseteq [timeout : Timeouts, deadline : Nat]
  <2>1. expired \subseteq pending_timeouts /\ pending_timeouts' \subseteq pending_timeouts
    BY <1>1
  <2> QED BY <2>1, FS_Subset DEF GossipInv, LoopTyped
<1> HIDE DEF expired
<1>4. Cardinality(expired) \in Nat /\ order \in [1..Cardinality(expired) -> expired]
  BY <1>2, <1>3, FS_CardinalityType DEF SetToSeqs
<1>5. \A i \in DOMAIN order : [kind |-> "TimeoutElapsed", timeout |-> order[i].timeout] \in Inputs
  BY <1>3, <1>4 DEF Inputs
<1>6. pending_inputs' \in [1..Cardinality(expired) -> Inputs]
  BY <1>2, <1>4, <1>5
<1>7. pending_inputs' \in Seq(Inputs)
  BY <1>4, <1>6, SeqDef
<1>8. NotesIn(pending_inputs)' = {}
  BY <1>2 DEF NotesIn
<1>9. QueuedReceived' /\ GossipFaithful'
  BY <1>1, <1>7, <1>8, QueueReplaced DEF GossipInv, BatchHeld
<1>10. LoopTyped' /\ BatchHeld'
  BY <1>1, <1>3, <1>7 DEF GossipInv, LoopTyped, BatchHeld
<1>11. StartsOnce'
  BY <1>1 DEF GossipInv, StartsOnce
<1> QED BY <1>9, <1>10, <1>11 DEF GossipInv

\* A message off the wire becomes an input, as it was signed by whomever.
LEMMA EventSelected ==
  ASSUME GossipInv, SelectEvent, step' = step
  PROVE  GossipInv'
<1> DEFINE event == Head(net_rx)
<1>1. /\ stage = "select" /\ stage' = "top" /\ net_rx # <<>> /\ net_rx' = Tail(net_rx)
      /\ taken' = taken \cup {event.of}
      /\ UNCHANGED <<validators, batch, pending_timeouts, current_height, core, clock, accepted>>
  BY DEF SelectEvent
<1>2. event \in OnTheWire /\ net_rx' \in Seq(OnTheWire)
  BY <1>1 DEF GossipInv, LoopTyped
<1>3. \/ ClassifyInbound(event) = {} /\ pending_inputs' = <<>>
      \/ \E signed \in ClassifyInbound(event) : pending_inputs' = InputsOf(signed)
  BY DEF SelectEvent
<1> HIDE DEF event
<1>4. pending_inputs' \in Seq(Inputs) /\ NotesIn(pending_inputs') = event.of
  <2>1. CASE ClassifyInbound(event) = {}
    <3>1. pending_inputs' = <<>> /\ event.of = {}
      BY <1>2, <1>3, <2>1, EventGives
    <3> QED BY <3>1 DEF NotesIn
  <2>2. ASSUME NEW s, ClassifyInbound(event) = {s}
        PROVE  pending_inputs' \in Seq(Inputs) /\ NotesIn(pending_inputs') = event.of
    <3> DEFINE x == [kind |-> "Signed", signed |-> s]
    <3>1. event.of = Shows(s)
      <4>1. event.of = UNION {Shows(signed) : signed \in ClassifyInbound(event)}
        BY <1>2, EventGives
      <4> HIDE DEF x
      <4> QED BY <2>2, <4>1
    <3>2. pending_inputs' = InputsOf(s)
      BY <1>3, <2>2
    <3>3. x \in Inputs /\ x.kind = "Signed" /\ x.signed = s
      BY <1>2, <2>2 DEF Inputs, SignedInputs
    <3>4. Input("ProposedValue") \in Inputs /\ Input("ProposedValue").kind # "Signed"
      BY DEF Inputs, Input
    <3>5. pending_inputs' = <<x>> \/ pending_inputs' = <<x, Input("ProposedValue")>>
      BY <3>2 DEF InputsOf
    <3> HIDE DEF x
    <3>6. CASE pending_inputs' = <<x>>
      <4>1. DOMAIN pending_inputs' = {1} /\ pending_inputs'[1] = x
        BY <3>6
      <4>2. NotesIn(pending_inputs') = Shows(s)
        BY <3>3, <4>1 DEF NotesIn
      <4> QED BY <3>1, <3>3, <3>6, <4>2
    <3>7. CASE pending_inputs' = <<x, Input("ProposedValue")>>
      <4>1. DOMAIN pending_inputs' = {1, 2} /\ pending_inputs'[1] = x /\ pending_inputs'[2] = Input("ProposedValue")
        BY <3>7
      <4>2. NotesIn(pending_inputs') = Shows(s)
        BY <3>3, <3>4, <4>1 DEF NotesIn
      <4> QED BY <3>1, <3>3, <3>4, <3>7, <4>2
    <3> QED BY <3>5, <3>6, <3>7
  <2> QED BY <1>2, <2>1, <2>2, EventGives
<1>5. NotesIn(pending_inputs)' = event.of
  BY <1>4 DEF NotesIn
<1>6. pending_inputs = <<>> /\ NotesIn(pending_inputs) = {}
  BY <1>1, MessagesOf DEF GossipInv, BatchHeld, LoopTyped
<1>7. \A m : m \in UNION taken' <=> m \in UNION taken \/ m \in event.of
  <2>1. taken' = taken \cup {event.of}
    BY <1>1
  <2> TAKE m
  <2> QED BY <2>1
<1>8. Received \subseteq Received' /\ Received' \subseteq Received \cup event.of
  BY <1>1, <1>7 DEF Received, InSet
<1>9. accepted \subseteq Received /\ Received \subseteq accepted
  BY <1>6 DEF GossipInv, GossipFaithful
<1>10. QueuedReceived' /\ GossipFaithful'
  BY <1>1, <1>5, <1>7, <1>8, <1>9 DEF QueuedReceived, GossipFaithful
<1>11. LoopTyped' /\ BatchHeld'
  BY <1>1, <1>2, <1>4 DEF GossipInv, LoopTyped, BatchHeld
<1>12. StartsOnce'
  BY <1>1 DEF GossipInv, StartsOnce
<1> QED BY <1>10, <1>11, <1>12 DEF GossipInv

\* The other steps of the engine and of its callers take nothing in.
LEMMA EngineAlone ==
  ASSUME GossipInv, step' = step,
         SelectShutdown \/ SelectCommand \/ Advance \/ \E c \in Command : Ask(c)
  PROVE  GossipInv'
<1>1. clock \in Nat
  BY DEF GossipInv, LoopTyped
<1>2. UNCHANGED receiving /\ clock' \in Nat
  BY <1>1 DEF SelectShutdown, SelectCommand, Advance, Ask, Serve, receiving, loop, history
<1>3. \/ stage = "select" /\ stage' \in {"top", "stopped"}
      \/ stage' = stage
  BY DEF SelectShutdown, SelectCommand, Advance, Ask, loop
<1>4. /\ stage \in {"off", "top", "batch", "select", "stopped"}
      /\ step \in Boots => stage = "off"
      /\ stage = "select" => pending_inputs = <<>>
  BY DEF GossipInv, LoopTyped, StartsOnce, BatchHeld, Boots
<1> QED BY <1>2, <1>3, <1>4, ReceivingAlone

\* A subscriber that is behind loses its oldest event.
LEMMA EventDelivered ==
  ASSUME GossipInv, step' = step, NEW event \in OnTheWire, Deliver(event)
  PROVE  GossipInv'
<1>1. /\ stage \in {"top", "batch", "select"}
      /\ UNCHANGED <<stage, validators, pending_inputs, batch, pending_timeouts, current_height, core, clock, taken, accepted>>
  BY DEF Deliver, Running, loop, history
<1>2. net_rx' \in Seq(OnTheWire)
  <2>1. net_rx \in Seq(OnTheWire) /\ Len(net_rx) \in Nat /\ NET_RX_CAPACITY \in Nat \ {0}
    BY DriverAssumption DEF GossipInv, LoopTyped
  <2>2. net_rx' = Append(net_rx, event) \/ (net_rx # <<>> /\ net_rx' = Append(Tail(net_rx), event))
    BY <2>1 DEF Deliver
  <2> QED BY <2>1, <2>2
<1>3. LoopTyped' /\ BatchHeld' /\ StartsOnce'
  BY <1>1, <1>2 DEF GossipInv, LoopTyped, BatchHeld, StartsOnce
<1>4. NotesIn(pending_inputs)' = NotesIn(pending_inputs) /\ Received' = Received
  BY <1>1 DEF NotesIn, Received, InSet
<1> QED BY <1>1, <1>3, <1>4 DEF GossipInv, QueuedReceived, GossipFaithful

\* The engine starts with an empty history.
LEMMA ConsensusStarted ==
  ASSUME GossipInv, StartConsensus, genesis \in Genesis
  PROVE  GossipInv'
<1>1. /\ step = "consensus" /\ step' = "metrics"
      /\ UNCHANGED <<batch, pending_timeouts, core, net_rx, clock, taken, accepted>>
  BY DEF StartConsensus, history
<1>2. stage = "off" /\ pending_inputs = <<>> /\ taken = {} /\ accepted = {} /\ clock \in Nat
  BY <1>1 DEF GossipInv, StartsOnce, LoopTyped
<1>3. CASE UNCHANGED <<stage, validators, current_height, pending_inputs>>
  BY <1>1, <1>2, <1>3, ReceivingAlone DEF receiving, Boots
<1>4. CASE Bootable(genesis) /\ StartEngine(ConfigOf(genesis))
  <2>1. ConfigOf(genesis).initial_height \in Nat
    BY <1>4, ConfigAssumption DEF EngineConfig
  <2>2. current_height' \in Nat
    BY <1>4, <2>1, DriverAssumption DEF StartEngine
  <2>3. stage' = "top" /\ pending_inputs' = <<StartHeight(current_height')>>
    BY <1>4 DEF StartEngine
  <2>4. StartHeight(current_height') \in Inputs /\ StartHeight(current_height').kind # "Signed"
    BY <2>2 DEF StartHeight, Inputs
  <2>5. pending_inputs' \in Seq(Inputs) /\ NotesIn(pending_inputs)' = {}
    BY <2>3, <2>4 DEF NotesIn
  <2>6. LoopTyped' /\ BatchHeld' /\ StartsOnce'
    BY <1>1, <1>2, <2>2, <2>3, <2>5 DEF GossipInv, LoopTyped, BatchHeld, StartsOnce
  <2>7. Received' = {}
    BY <1>1, <1>2 DEF Received
  <2> QED BY <1>1, <1>2, <2>5, <2>6, <2>7 DEF GossipInv, QueuedReceived, GossipFaithful
<1> QED BY <1>3, <1>4 DEF StartConsensus

\* What the process does around the engine.
LEMMA ProcessAlone ==
  ASSUME GossipInv,
         \/ LoadKeypair \/ StartNetwork \/ OpenRuntime \/ Launch \/ Fail \/ Signal \/ Polled
         \/ MetricsEnds \/ RpcEnds \/ Ending
  PROVE  GossipInv'
<1>1. clock \in Nat /\ stage \in {"off", "top", "batch", "select", "stopped"}
      /\ (step \in Boots => stage = "off") /\ (stage = "select" => pending_inputs = <<>>)
  BY DEF GossipInv, LoopTyped, StartsOnce, BatchHeld, Boots
<1>2. CASE Fail
  <2>1. UNCHANGED receiving /\ clock' = clock /\ step' = "failed"
        /\ stage' = (IF stage = "off" THEN "off" ELSE "stopped")
    BY <1>2 DEF Fail, receiving
  <2> QED BY <1>1, <2>1, ReceivingAlone DEF Boots
<1>3. CASE Signal
  <2>1. UNCHANGED <<receiving, clock, stage, step>>
    BY <1>3 DEF Signal, receiving, loop, history, processVars
  <2> QED BY <1>1, <2>1, ReceivingAlone
<1>4. CASE LoadKeypair \/ StartNetwork \/ OpenRuntime \/ Launch
  <2>1. UNCHANGED <<receiving, clock, stage>> /\ (step' \in Boots => step \in Boots)
    BY <1>4 DEF LoadKeypair, StartNetwork, OpenRuntime, Launch, receiving, driverVars, loop, history, Boots
  <2> QED BY <1>1, <2>1, ReceivingAlone
<1>5. CASE Polled \/ MetricsEnds \/ RpcEnds \/ NetworkEnds \/ ServersEnd \/ RoleEnds
  <2>1. UNCHANGED <<receiving, clock, stage, step>>
    BY <1>5 DEF Polled, MetricsEnds, RpcEnds, NetworkEnds, ServersEnd, RoleEnds, Ends, receiving, driverVars, loop, history
  <2> QED BY <1>1, <2>1, ReceivingAlone
<1>6. CASE AwaitRole \/ Join
  <2>1. UNCHANGED <<receiving, clock, stage>> /\ step' \notin Boots
    BY <1>6 DEF AwaitRole, Join, receiving, driverVars, loop, history, Boots
  <2> QED BY <1>1, <2>1, ReceivingAlone
<1> QED BY <1>2, <1>3, <1>4, <1>5, <1>6 DEF Ending

\* What the keys of the set signed reaches the core as it was signed, and nothing
\* else does, through the loop's batches, its select and the life of the process,
\* for any validators, messages, timeouts and commands and among any other
\* gossip, forged and altered messages included (engine.rs run,
\* network_bridge.rs, signing.rs, start.rs).
THEOREM GossipReachesCore == ProcessSpec => []GossipFaithful
<1> DEFINE Inv == GossipInv /\ genesis \in Genesis
<1>1. ProcessInit => Inv
  <2> SUFFICES ASSUME ProcessInit PROVE Inv
    OBVIOUS
  <2>1. LoopTyped
    BY FS_EmptySet DEF ProcessInit, DriverInit, LoopTyped
  <2>2. NotesIn(pending_inputs) = {} /\ Received = {}
    BY DEF ProcessInit, DriverInit, NotesIn, Received
  <2> QED BY <2>1, <2>2
    DEF ProcessInit, DriverInit, GossipInv, StartsOnce, BatchHeld, QueuedReceived, GossipFaithful
<1>2. Inv /\ [ProcessNext]_allVars => Inv'
  <2> SUFFICES ASSUME Inv, [ProcessNext]_allVars PROVE Inv'
    OBVIOUS
  <2>1. CASE Booting
    BY <2>1, ConsensusStarted, ProcessAlone DEF Booting, LoadKeypair, StartNetwork, OpenRuntime, StartConsensus, Launch
  <2>2. CASE Fail \/ Signal \/ Polled \/ MetricsEnds \/ RpcEnds \/ Ending
    <3>1. genesis' = genesis
      BY <2>2 DEF Fail, Signal, Polled, MetricsEnds, RpcEnds, Ending, NetworkEnds, ServersEnd, RoleEnds, Ends,
                  AwaitRole, Join, processVars
    <3> QED BY <2>2, <3>1, ProcessAlone
  <2>3. CASE \E q \in Query : Poll(q)
    <3>1. step' = step /\ genesis' = genesis /\ \E c \in Command : Ask(c)
      BY <2>3 DEF Poll, Command
    <3> QED BY <3>1, EngineAlone
  <2>4. CASE Engine(EngineStep \/ Select \/ Advance)
    <3>1. step' = step /\ genesis' = genesis
      BY <2>4 DEF Engine, processVars
    <3> QED BY <2>4, <3>1, BatchStarted, InputFed, BatchEnded, EventSelected, TimerSelected, EngineAlone
      DEF Engine, EngineStep, Select
  <2>5. CASE \E tx \in Tx : Engine(Ask(tx))
    <3>1. step' = step /\ genesis' = genesis /\ \E c \in Command : Ask(c)
      BY <2>5 DEF Engine, processVars, Command
    <3> QED BY <3>1, EngineAlone
  <2>6. CASE \E event \in OnTheWire : Engine(Deliver(event))
    <3>1. step' = step /\ genesis' = genesis /\ \E event \in OnTheWire : Deliver(event)
      BY <2>6 DEF Engine, processVars
    <3> QED BY <3>1, EventDelivered
  <2>7. CASE UNCHANGED allVars
    <3>1. UNCHANGED <<receiving, clock, stage, step, genesis>>
      BY <2>7 DEF allVars, receiving, driverVars, loop, history, processVars
    <3>2. clock \in Nat /\ stage \in {"off", "top", "batch", "select", "stopped"}
          /\ (step \in Boots => stage = "off") /\ (stage = "select" => pending_inputs = <<>>)
      BY DEF GossipInv, LoopTyped, StartsOnce, BatchHeld, Boots
    <3> QED BY <3>1, <3>2, ReceivingAlone
  <2> QED BY <2>1, <2>2, <2>3, <2>4, <2>5, <2>6, <2>7 DEF ProcessNext
<1>3. Inv => GossipFaithful
  BY DEF GossipInv
<1> QED BY <1>1, <1>2, <1>3, PTL DEF ProcessSpec

=============================================================================
