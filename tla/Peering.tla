------------------------------- MODULE Peering ------------------------------
(***************************************************************************)
(* The peers of a node: the swarm's events as run_swarm handles them       *)
(* (crates/network/src/network.rs), the handshake carried by identify      *)
(* (handshake.rs), and the peer book with its file (peer.rs), over starts  *)
(* and restarts (Network::start, start_network of                          *)
(* crates/node/src/network_boot.rs).                                       *)
(*                                                                         *)
(* libp2p is external: it establishes and closes connections as it likes,  *)
(* several to a peer, and identifies a peer at any time while one is open. *)
(* A handler runs to its end between two events, and a book write is a     *)
(* rename, so a crash leaves the file of the last handled event.           *)
(***************************************************************************)
EXTENDS Integers, Sequences, SequencesExt, FiniteSets

CONSTANTS Peer,
          Agent,           \* peer -> what its agent version says: [kind, version, network_id]
          Address,         \* multiaddrs
          Bootstrap,       \* peer -> address, of config.bootstrap_peers
          HANDSHAKE_VERSION,
          network_id,
          EVENT_CAPACITY,  \* of the broadcast of network events
          MaxConnections,  \* bound: open connections to a peer
          MaxEstablished,  \* bound: connections established
          MaxRestarts      \* bound: restarts

VARIABLES running,     \* whether the swarm's task runs
          dialed,      \* addresses whose dial is under way, as <<peer, address>>
          connections, \* open connections, a bag: peer -> how many
          closing,     \* those that disconnect_peer_id has asked to close
          book,        \* PeerBook::entries: peer -> addresses
          file,        \* peers.json
          routes,      \* addresses told to kademlia: peer -> addresses
          events,      \* network events not yet received by the subscriber
          established, \* bound: connections established
          rejected,    \* history: peers rejected since they last connected
          starts       \* bound: starts

swarm == <<running, dialed, connections, closing, routes>>
persisted == <<book, file>>
peeringVars == <<swarm, persisted, events, established, rejected, starts>>

ASSUME PeeringAssumption ==
  /\ DOMAIN Agent = Peer
  /\ \A p \in Peer : Agent[p].kind \in {"arknet", "foreign", "malformed"}
  /\ DOMAIN Bootstrap \subseteq Peer
  /\ EVENT_CAPACITY \in Nat \ {0}
  /\ MaxConnections \in Nat /\ MaxEstablished \in Nat /\ MaxRestarts \in Nat

-----------------------------------------------------------------------------
(* The peer book *)

\* Faulty variant: the file is left for the flush at shutdown.
InsertUnflushed(p, addr) ==
  /\ book' = [book EXCEPT ![p] = @ \cup {addr}]
  /\ UNCHANGED file

\* insert_connected: the address joins those known, and the file is rewritten.
Insert(p, addr) ==
  /\ book' = [book EXCEPT ![p] = @ \cup {addr}]
  /\ file' = book'

\* Faulty variant: the file is left for the next insertion to rewrite.
ForgetUnflushed(p) ==
  /\ book' = [book EXCEPT ![p] = {}]
  /\ UNCHANGED file

\* remove: the peer is forgotten with all its addresses.
Forget(p) ==
  /\ book' = [book EXCEPT ![p] = {}]
  /\ file' = book'

-----------------------------------------------------------------------------
(* Events for subscribers *)

\* A subscriber that is full loses its oldest events.
Sent(queue, event) ==
  IF Len(queue) < EVENT_CAPACITY THEN Append(queue, event) ELSE Append(Tail(queue), event)
Emit(event) == events' = Sent(events, event)

-----------------------------------------------------------------------------
(* Starting and stopping *)

\* Network::start: the bootstrap peers and every address of the book are dialed.
Start ==
  /\ ~running
  /\ running' = TRUE
  /\ starts' = starts + 1
  /\ book' = file
  /\ dialed' = {<<p, Bootstrap[p]>> : p \in DOMAIN Bootstrap}
               \cup UNION {{p} \X file[p] : p \in Peer}
  /\ UNCHANGED <<connections, closing, routes, file, events, established, rejected>>

\* The process ends, with or without the final flush, which writes what the file
\* already holds.
Stop ==
  /\ running
  /\ starts <= MaxRestarts
  /\ running' = FALSE
  /\ dialed' = {} /\ routes' = [p \in Peer |-> {}] /\ book' = [p \in Peer |-> {}]
  /\ connections' = [p \in Peer |-> 0] /\ closing' = [p \in Peer |-> 0]
  /\ events' = <<>>
  /\ UNCHANGED <<file, established, rejected, starts>>

-----------------------------------------------------------------------------
(* The swarm's events *)

\* A connection is established by a dial that got through or by the peer, whose
\* address is then one of its outgoing ports.
ConnectionEstablished(p, addr) ==
  /\ running
  /\ connections[p] < MaxConnections /\ established < MaxEstablished
  /\ connections' = [connections EXCEPT ![p] = @ + 1]
  /\ dialed' = dialed \ {<<p, addr>>}
  /\ Insert(p, addr)
  /\ rejected' = rejected \ {p}
  /\ established' = established + 1
  /\ UNCHANGED <<running, closing, routes, events, starts>>

\* A dial fails: it is logged, and the address stays in the book.
OutgoingConnectionError(p, addr) ==
  /\ running
  /\ <<p, addr>> \in dialed
  /\ dialed' = dialed \ {<<p, addr>>}
  /\ UNCHANGED <<running, connections, closing, routes, persisted, events, established, rejected, starts>>

\* A connection closes, by the peer or because disconnect_peer_id asked for it;
\* each is told to the subscriber.
ConnectionClosed(p) ==
  /\ running
  /\ connections[p] > 0
  /\ connections' = [connections EXCEPT ![p] = @ - 1]
  /\ closing' = [closing EXCEPT ![p] = IF @ > 0 THEN @ - 1 ELSE 0]
  /\ Emit([kind |-> "PeerDisconnected", peer |-> p])
  /\ UNCHANGED <<running, dialed, routes, persisted, established, rejected, starts>>

\* check_compatible, of an agent version that parses.
Compatible(info) == info.kind = "arknet" /\ info.version = HANDSHAKE_VERSION /\ info.network_id = network_id

\* disconnect_peer_id: all connections open now will close.
Disconnect(p) == closing' = [closing EXCEPT ![p] = connections[p]]

\* identify::Event::Received, once connected and every minute after: a
\* compatible peer is announced, any other disconnected, and one of another
\* network or version forgotten.
Identified(p) ==
  /\ running
  /\ connections[p] > closing[p]
  /\ \/ /\ Agent[p].kind # "arknet"
        /\ Disconnect(p)
        /\ UNCHANGED <<routes, persisted, events, rejected>>
     \/ /\ Agent[p].kind = "arknet" /\ ~Compatible(Agent[p])
        /\ Disconnect(p)
        /\ Forget(p)
        /\ rejected' = rejected \cup {p}
        /\ UNCHANGED <<routes, events>>
     \/ /\ Compatible(Agent[p])
        /\ routes' = [routes EXCEPT ![p] = Address]
        /\ Emit([kind |-> "PeerConnected", peer |-> p])
        /\ UNCHANGED <<closing, persisted, rejected>>
  /\ UNCHANGED <<running, dialed, connections, established, starts>>

\* Publish, whose reply the caller awaits: the mesh delivers to whoever follows.
\* A message of the mesh reaches the subscribers as an event.
Gossip(message) ==
  /\ running
  /\ Emit([kind |-> "GossipMessage", message |-> message])

PeeringInit ==
  /\ running = FALSE /\ dialed = {}
  /\ connections = [p \in Peer |-> 0] /\ closing = [p \in Peer |-> 0]
  /\ routes = [p \in Peer |-> {}]
  /\ book = [p \in Peer |-> {}] /\ file = [p \in Peer |-> {}]
  /\ events = <<>> /\ established = 0 /\ rejected = {} /\ starts = 0

-----------------------------------------------------------------------------
(* Properties *)

\* A peer that was rejected for its network or version is forgotten, until it
\* connects again by itself: neither in the book nor in its file, whatever else
\* was written meanwhile, so that no restart dials it.
ForgetsRejected == \A p \in rejected : book[p] = {} /\ file[p] = {}

\* A node comes back to its peers: every peer it has a connection to that is not
\* being closed is in the file, with an address to dial after a crash.
RemembersConnected == \A p \in Peer : connections[p] > closing[p] => file[p] # {}

\* The peer book follows the connections at every moment a crash may come
\* (peer.rs:80-107, network.rs:448-499).
BookFollowsPeers == ForgetsRejected /\ RemembersConnected

=============================================================================
