------------------------------- MODULE Driver -------------------------------
(***************************************************************************)
(* The loop of one engine (run, drive_one_input and handle_effect of       *)
(* crates/consensus/src/engine.rs) between the consensus core, the network,*)
(* the timers and the callers of ConsensusHandle.  What the validators     *)
(* reach together is Engine; here is how one of them is driven.            *)
(*                                                                         *)
(* Malachite, the core, is external: at an input it raises effects as it   *)
(* likes, within what is said at Feed.  The messages of other validators   *)
(* come in any order, and any number of times, on any topic, and so does   *)
(* gossip of whatever origin: under another key than its sender's, altered,*)
(* of another version of the software, about other things.                 *)
(*                                                                         *)
(* tokio::select! takes a ready branch at random.                          *)
(***************************************************************************)
EXTENDS Messages

CONSTANTS Tx,              \* transactions submitted
          Stuck,           \* those that fit no block: a fee above gas_limit
          Query,           \* callers of current_height
          Duration,        \* TimeoutConfig: timeout kind -> ticks
          per_round_delta,
          HEARTBEAT,       \* 60 s
          NET_RX_CAPACITY, \* of the broadcast of network events
          SELF,            \* the node's key
          Message,         \* what the other validators sign and gossip
          Foreign,         \* any other gossip: [topic, data]
          Heights,         \* bound: heights are counted modulo this
          MaxRound,        \* bound: rounds of a height
          MaxClock,        \* bound: the clock
          MaxGossip        \* bound: messages of other validators delivered

VARIABLES stage,           \* of the engine's task: "off", "top" of the loop, "batch", "select", "stopped"
          validators,      \* EngineConfig::validator_set
          pending_inputs,
          batch,           \* inputs left of the batch being drained
          pending_timeouts,\* [timeout, deadline]
          current_height,
          waiting_for_tx, heartbeat_deadline,
          mempool,         \* transactions of the pool
          core,            \* the core's [height, round]
          commands,        \* channel of commands
          net_rx,          \* network events the engine has not received
          shutdown,        \* whether the token is cancelled
          clock,
          commanded, answered, \* history: commands sent and answered
          taken, accepted, \* history: who signed what was received, and what the core accepted
          gossiped         \* bound: messages delivered

loop == <<stage, validators, pending_inputs, batch, pending_timeouts, current_height,
          waiting_for_tx, heartbeat_deadline, mempool>>
history == <<commanded, answered, taken, accepted>>
driverVars == <<loop, core, commands, net_rx, shutdown, clock, history, gossiped>>

Kinds == DOMAIN Duration
Command == Tx \cup Query

ASSUME DriverAssumption ==
  /\ Stuck \subseteq Tx
  /\ "Propose" \in Kinds /\ \A k \in Kinds : Duration[k] \in Nat
  /\ per_round_delta \in Nat /\ HEARTBEAT \in Nat /\ NET_RX_CAPACITY \in Nat \ {0}
  /\ Heights \in Nat \ {0} /\ MaxRound \in Nat /\ MaxClock \in Nat /\ MaxGossip \in Nat

\* A message and the key that its signature is said to be of.
Note(signed) == [message |-> signed.message, key |-> signed.signature.key]

\* That key signed that message; of what was altered, nothing is known.
Shows(signed) == {note \in {Note(signed)} : signed = Signed(note.message, note.key)}

\* A message on the wire, as its sender signs and publishes it, with a note for
\* the history of who signed what.
Published(m) ==
  LET out == OutboundMessage(Signed(m, m.validator_address))
  IN [topic |-> out.topic, data |-> out.data, of |-> {[message |-> m, key |-> m.validator_address]}]

\* So any other gossip, whoever signed what it decodes to.
Heard(event) ==
  [topic |-> event.topic, data |-> event.data, of |-> UNION {Shows(signed) : signed \in ClassifyInbound(event)}]

OnTheWire == {Published(m) : m \in Message} \cup {Heard(event) : event \in Foreign}

ASSUME MessageAssumption == \A m \in Message : IsVote(m) \/ IsProposal(m)

NextHeight(h) == (h + 1) % Heights

Running == stage \in {"top", "batch", "select"}

-----------------------------------------------------------------------------
(* Effects, as functions of the parts of the loop they change *)

DurationFor(t) == Duration[t.kind] + per_round_delta * t.round

\* Effect::ScheduleTimeout replaces a pending one.
Scheduled(pending, t) ==
  {p \in pending : p.timeout # t} \cup {[timeout |-> t, deadline |-> clock + DurationFor(t)]}

\* Effect::CancelTimeout.
Cancelled(pending, t) == {p \in pending : p.timeout # t}

\* A timeout of the core's round.
Timeout(kind) == [kind |-> kind, round |-> core.round]

Input(kind) == [kind |-> kind]
StartHeight(h) == [kind |-> "StartHeight", height |-> h]

-----------------------------------------------------------------------------
(* The callers of ConsensusHandle *)

\* submit_tx and current_height send a command and await its reply.
Ask(c) ==
  /\ Running
  /\ c \notin commanded
  /\ commanded' = commanded \cup {c}
  /\ commands' = Append(commands, c)
  /\ UNCHANGED <<loop, core, net_rx, shutdown, clock, answered, taken, accepted, gossiped>>

\* The pool takes the transactions of the commands.
Serve(cs) ==
  /\ answered' = answered \cup cs
  /\ mempool' = mempool \cup (cs \cap Tx)

-----------------------------------------------------------------------------
(* The network *)

\* A message of another validator arrives on a topic; a full subscriber loses
\* its oldest event.
Deliver(event) ==
  /\ Running /\ gossiped < MaxGossip
  /\ gossiped' = gossiped + 1
  /\ net_rx' = IF Len(net_rx) < NET_RX_CAPACITY THEN Append(net_rx, event) ELSE Append(Tail(net_rx), event)
  /\ UNCHANGED <<loop, core, commands, shutdown, clock, history>>

-----------------------------------------------------------------------------
(* The inner drain *)

\* A batch is what is pending at its start.
StartBatch ==
  /\ stage = "top"
  /\ stage' = "batch"
  /\ batch' = Len(pending_inputs)
  /\ UNCHANGED <<validators, pending_inputs, pending_timeouts, current_height, waiting_for_tx,
                 heartbeat_deadline, mempool, core, commands, net_rx, shutdown, clock, history, gossiped>>

\* The core enters a round: its proposer is asked for a value, any other waits.
\* Effect::GetValue builds a block, and what fits leaves the pool.
EnterRound(height, round, inputs) ==
  /\ core' = [height |-> height, round |-> round]
  /\ IF SelectProposer(validators, round).operator = SELF
     THEN /\ pending_inputs' = Append(inputs, Input("Propose"))
          /\ mempool' = mempool \cap Stuck
          /\ pending_timeouts' = {}
     ELSE /\ pending_inputs' = inputs
          /\ pending_timeouts' = Scheduled({}, [kind |-> "Propose", round |-> round])
          /\ UNCHANGED mempool

\* Effect::Decide: the block is committed, and the next height starts unless the
\* validator is alone and its pool empty.  A failed commit is logged, and leaves
\* current_height behind.
Decide(inputs) ==
  /\ current_height' \in {core.height, current_height}
  /\ IF mempool # {} \/ Len(validators) > 1
     THEN /\ waiting_for_tx' = FALSE
          /\ pending_inputs' = Append(inputs, StartHeight(NextHeight(core.height)))
          /\ UNCHANGED heartbeat_deadline
     ELSE /\ waiting_for_tx' = TRUE
          /\ heartbeat_deadline' = clock + HEARTBEAT
          /\ pending_inputs' = inputs
  /\ UNCHANGED <<pending_timeouts, mempool, core>>

\* What the core does with an input it has use for, besides nothing: it waits
\* for votes of its round, anew or no longer.
React(inputs) ==
  \/ /\ pending_inputs' = inputs
     /\ UNCHANGED <<pending_timeouts, mempool, core, current_height, waiting_for_tx, heartbeat_deadline>>
  \/ \E kind \in Kinds \ {"Propose"} :
       /\ pending_timeouts' = Scheduled(pending_timeouts, Timeout(kind))
       /\ pending_inputs' = inputs
       /\ UNCHANGED <<mempool, core, current_height, waiting_for_tx, heartbeat_deadline>>
  \/ \E kind \in Kinds :
       /\ pending_timeouts' = Cancelled(pending_timeouts, Timeout(kind))
       /\ pending_inputs' = inputs
       /\ UNCHANGED <<mempool, core, current_height, waiting_for_tx, heartbeat_deadline>>

\* Faulty variant: a sender in the set is enough.
AcceptedUnverified(signed) == PubkeyForAddress(validators, signed.message.validator_address) # {}

\* The core has Effect::VerifySignature check a message under the key of its
\* sender in the set; one of nobody in the set is dropped before.
Accepted(signed) ==
  \E key \in PubkeyForAddress(validators, signed.message.validator_address) : Verified(signed, key)

\* drive_one_input, of the head of the queue.
Feed ==
  /\ stage = "batch" /\ batch > 0
  /\ batch' = batch - 1
  /\ LET input == Head(pending_inputs)
         rest == Tail(pending_inputs) IN
       \/ /\ input.kind = "StartHeight"
          /\ EnterRound(input.height, 0, rest)
          /\ UNCHANGED <<current_height, waiting_for_tx, heartbeat_deadline, accepted>>
       \/ /\ input.kind = "Propose" \* alone in the set, the proposal is decided
          /\ IF Len(validators) = 1 THEN Decide(rest) ELSE React(rest)
          /\ UNCHANGED accepted
       \/ /\ input.kind = "TimeoutElapsed"
          /\ \/ React(rest)
             \/ /\ core.round < MaxRound
                /\ EnterRound(core.height, core.round + 1, rest)
                /\ UNCHANGED <<current_height, waiting_for_tx, heartbeat_deadline>>
          /\ UNCHANGED accepted
       \/ /\ input.kind = "Signed" /\ Accepted(input.signed)
          /\ accepted' = accepted \cup {Note(input.signed)}
          /\ React(rest) \/ Decide(rest) \* a decision needs a message of another validator
       \/ /\ \/ input.kind = "Signed" /\ ~Accepted(input.signed)
             \/ input.kind = "ProposedValue"
          /\ pending_inputs' = rest
          /\ UNCHANGED <<pending_timeouts, mempool, core, current_height, waiting_for_tx,
                         heartbeat_deadline, accepted>>
  /\ UNCHANGED <<stage, validators, commands, net_rx, shutdown, clock, commanded, answered, taken, gossiped>>

Waiting == {commands[i] : i \in DOMAIN commands}

\* Faulty variant: the commands wait for the select.
TakeNone == {}
\* try_recv until the channel is empty.
TakeAll == Waiting

\* After a batch with more to follow, the commands are served first; an idle
\* validator looks for a transaction or the end of its minute.
EndBatch ==
  /\ stage = "batch" /\ batch = 0
  /\ \/ /\ pending_inputs # <<>>
        /\ stage' = "top"
        /\ Serve(TakeAll)
        /\ commands' = SelectSeq(commands, LAMBDA c : c \notin TakeAll)
        /\ UNCHANGED <<pending_inputs, waiting_for_tx>>
     \/ /\ pending_inputs = <<>>
        /\ waiting_for_tx /\ (mempool # {} \/ clock >= heartbeat_deadline)
        /\ stage' = "top"
        /\ waiting_for_tx' = FALSE
        /\ pending_inputs' = <<StartHeight(NextHeight(current_height))>>
        /\ UNCHANGED <<mempool, commands, answered>>
     \/ /\ pending_inputs = <<>>
        /\ ~(waiting_for_tx /\ (mempool # {} \/ clock >= heartbeat_deadline))
        /\ stage' = "select"
        /\ UNCHANGED <<pending_inputs, waiting_for_tx, mempool, commands, answered>>
  /\ UNCHANGED <<validators, batch, pending_timeouts, current_height, heartbeat_deadline, core, net_rx,
                 shutdown, clock, commanded, taken, accepted, gossiped>>

-----------------------------------------------------------------------------
(* The select *)

SelectShutdown ==
  /\ stage = "select" /\ shutdown
  /\ stage' = "stopped"
  /\ commands' = <<>> \* their callers get an error
  /\ answered' = answered \cup Waiting
  /\ UNCHANGED <<validators, pending_inputs, batch, pending_timeouts, current_height, waiting_for_tx,
                 heartbeat_deadline, mempool, core, net_rx, shutdown, clock, commanded, taken,
                 accepted, gossiped>>

SelectCommand ==
  /\ stage = "select" /\ commands # <<>>
  /\ Serve({Head(commands)})
  /\ commands' = Tail(commands)
  /\ stage' = "top"
  /\ UNCHANGED <<validators, pending_inputs, batch, pending_timeouts, current_height, waiting_for_tx,
                 heartbeat_deadline, core, net_rx, shutdown, clock, commanded, taken, accepted, gossiped>>

\* A vote is an input; a proposal comes with its value, taken to be valid.
InputsOf(signed) ==
  LET input == [kind |-> "Signed", signed |-> signed]
  IN IF signed.message.kind = "vote" THEN <<input>> ELSE <<input, Input("ProposedValue")>>

SelectEvent ==
  /\ stage = "select" /\ net_rx # <<>>
  /\ net_rx' = Tail(net_rx)
  /\ \/ ClassifyInbound(Head(net_rx)) = {} /\ pending_inputs' = <<>>
     \/ \E signed \in ClassifyInbound(Head(net_rx)) : pending_inputs' = InputsOf(signed)
  /\ taken' = taken \cup {Head(net_rx).of}
  /\ stage' = "top"
  /\ UNCHANGED <<validators, batch, pending_timeouts, current_height, waiting_for_tx, heartbeat_deadline,
                 mempool, core, commands, shutdown, clock, commanded, answered, accepted, gossiped>>

\* The timeouts whose deadline has passed become inputs, in some order.  (An idle
\* engine wakes every 100 ms instead, and finds them too.)
SelectTimer ==
  /\ stage = "select"
  /\ LET expired == {p \in pending_timeouts : p.deadline <= clock} IN
       /\ expired # {} \/ waiting_for_tx
       /\ pending_timeouts' = pending_timeouts \ expired
       /\ \E order \in SetToSeqs(expired) :
            pending_inputs' = [i \in DOMAIN order |-> [kind |-> "TimeoutElapsed", timeout |-> order[i].timeout]]
  /\ stage' = "top"
  /\ UNCHANGED <<validators, batch, current_height, waiting_for_tx, heartbeat_deadline, mempool, core,
                 commands, net_rx, shutdown, clock, commanded, answered, taken, accepted, gossiped>>

Advance ==
  /\ clock < MaxClock
  /\ clock' = clock + 1
  /\ UNCHANGED <<loop, core, commands, net_rx, shutdown, history, gossiped>>

-----------------------------------------------------------------------------

\* What the engine is started with, of which the gas limits and the addresses
\* matter to what it builds only.
EngineConfig == [initial_height : Nat, validator_set : Seq(ChainValidator)]

\* ConsensusEngine::start: the loop starts with the initial height.
StartEngine(config) ==
  /\ stage' = "top"
  /\ validators' = config.validator_set
  /\ current_height' = config.initial_height % Heights
  /\ pending_inputs' = <<StartHeight(current_height')>>

DriverInit ==
  /\ stage = "off" /\ validators = <<>>
  /\ pending_inputs = <<>> /\ batch = 0 /\ pending_timeouts = {}
  /\ current_height = 0 /\ waiting_for_tx = FALSE /\ heartbeat_deadline = HEARTBEAT
  /\ mempool = {} /\ core = [height |-> 0, round |-> 0]
  /\ commands = <<>> /\ net_rx = <<>> /\ shutdown = FALSE /\ clock = 0
  /\ commanded = {} /\ answered = {}
  /\ taken = {} /\ accepted = {} /\ gossiped = 0

EngineStep == StartBatch \/ Feed \/ EndBatch
Select == SelectShutdown \/ SelectCommand \/ SelectEvent \/ SelectTimer

-----------------------------------------------------------------------------
(* Properties *)

\* What validators of the set gossip reaches the core as they signed it, and
\* nothing else does: the key that the set has for the sender signed every
\* message the core accepted, whatever was forged or altered on the way, and of
\* those received none is lost, so that what is signed, what is sent and what is
\* verified agree (network_bridge.rs:19-22, engine.rs:773-780).
InSet(note) == note.key \in PubkeyForAddress(validators, note.message.validator_address)
Received == {note \in UNION taken : InSet(note)}
NotesIn(inputs) ==
  UNION {Shows(inputs[i].signed) : i \in {j \in DOMAIN inputs : inputs[j].kind = "Signed"}}
GossipFaithful == accepted \subseteq Received /\ Received \subseteq accepted \cup NotesIn(pending_inputs)

\* Every caller gets a reply, also from an engine whose inputs never run out
\* (engine.rs:389-403).
CommandsServed == \A c \in Command : c \in commanded ~> c \in answered

=============================================================================
