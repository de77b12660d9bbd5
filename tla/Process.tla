------------------------------- MODULE Process ------------------------------
(***************************************************************************)
(* `arknet start` (crates/node/src/cli/start.rs): the order in which a node*)
(* boots its network, its engine, its servers and its role, and in which   *)
(* it takes them down; the validator's boot from the genesis file          *)
(* (crates/node/src/validator.rs, crates/chain/src/genesis.rs), and the    *)
(* roles (scheduler.rs, compute_role.rs, verifier_role.rs).  The engine is *)
(* that of Driver.                                                         *)
(*                                                                         *)
(* No task panics, and the requests of a server that shuts down end.       *)
(***************************************************************************)
EXTENDS Driver

CONSTANT Genesis \* genesis files

VARIABLES step,    \* of start: what it does next
          role,
          genesis,
          tasks,   \* task -> "none", "running" or "ended"; the engine's is stage
          polling  \* the query the validator's role awaits an answer to, or none

processVars == <<step, role, genesis, tasks, polling>>
allVars == <<driverVars, processVars>>

Task == {"network", "metrics", "rpc", "role"}
Role == {"validator", "compute", "verifier"}

NoQuery == "none"

Became(task, state) == tasks' = [tasks EXCEPT ![task] = state]

-----------------------------------------------------------------------------
(* The genesis file *)

\* A key or an address that does not decode; those that do are naturals.
Malformed == -1
Decoded == Nat \cup {Malformed}

GenesisValidator == [key : Decoded, operator : Decoded, voting_power : Nat]
GenesisParams == [gas_target : Nat, gas_limit : Nat]
GenesisConfig == [validators : Seq(GenesisValidator), initial_accounts : SUBSET Decoded,
                  initial_height : Nat, params : GenesisParams]

ASSUME GenesisAssumption == Genesis \subseteq GenesisConfig

DecodesPubkey(key) == key # Malformed
DecodesAddress(address) == address # Malformed

\* validate_genesis.
ValidGenesis(g) ==
  /\ g.validators # <<>>
  /\ g.initial_accounts = {}
  /\ g.initial_height = 0
  /\ g.params.gas_target # 0 /\ g.params.gas_limit >= g.params.gas_target
  /\ \A i \in DOMAIN g.validators :
       DecodesPubkey(g.validators[i].key) /\ DecodesAddress(g.validators[i].operator)

\* genesis_to_validator_info.
Infos(g) ==
  [i \in DOMAIN g.validators |->
     [key |-> g.validators[i].key, operator |-> g.validators[i].operator,
      voting_power |-> g.validators[i].voting_power, jailed |-> FALSE]]

\* What start_validator asks for: a set with an active validator, and the node's
\* own key among the infos (whatever operator address stands beside it).
Bootable(g) ==
  /\ ValidGenesis(g)
  /\ FromInfos(Infos(g)) # <<>>
  /\ \E i \in DOMAIN Infos(g) : Infos(g)[i].key = SELF

\* The genesis height is that of no block: the first is one above it.
ConfigOf(g) == [initial_height |-> g.initial_height + 1, validator_set |-> FromInfos(Infos(g))]

ASSUME ConfigAssumption == \A g \in Genesis : Bootable(g) => ConfigOf(g) \in EngineConfig

-----------------------------------------------------------------------------
(* Booting *)

\* An error before the role runs ends the process, and its tasks with it.
Fail ==
  /\ step \in {"keypair", "network", "runtime", "consensus", "metrics", "rpc"}
  /\ step' = "failed"
  /\ tasks' = [t \in Task |-> IF tasks[t] = "none" THEN "none" ELSE "ended"]
  /\ stage' = IF stage = "off" THEN "off" ELSE "stopped"
  /\ answered' = answered \cup Waiting /\ commands' = <<>>
  /\ UNCHANGED <<role, genesis, polling, validators, pending_inputs, batch, pending_timeouts, current_height,
                 waiting_for_tx, heartbeat_deadline, mempool, core, net_rx, shutdown, clock, commanded,
                 taken, accepted, gossiped>>

\* A key file of 64 bytes is loaded, or one is written.
LoadKeypair ==
  /\ step = "keypair"
  /\ step' = "network"
  /\ UNCHANGED <<driverVars, role, genesis, tasks, polling>>

StartNetwork ==
  /\ step = "network"
  /\ Became("network", "running")
  /\ step' = "runtime"
  /\ UNCHANGED <<driverVars, role, genesis, polling>>

OpenRuntime ==
  /\ step = "runtime"
  /\ step' = "consensus"
  /\ UNCHANGED <<driverVars, role, genesis, tasks, polling>>

\* Only a validator boots the engine, from a genesis file that names its key.
StartConsensus ==
  /\ step = "consensus"
  /\ IF role = "validator"
     THEN Bootable(genesis) /\ StartEngine(ConfigOf(genesis))
     ELSE UNCHANGED <<stage, validators, current_height, pending_inputs>>
  /\ step' = "metrics"
  /\ UNCHANGED <<batch, pending_timeouts, waiting_for_tx, heartbeat_deadline, mempool,
                 core, commands, net_rx, shutdown, clock, history, gossiped, role, genesis, tasks, polling>>

\* The servers and the role are spawned or run one after the other.
Launch ==
  /\ \/ step = "metrics" /\ Became("metrics", "running") /\ step' = "rpc"
     \/ step = "rpc" /\ Became("rpc", "running") /\ step' = "launch"
     \/ step = "launch" /\ Became("role", "running") /\ step' = "role"
  /\ UNCHANGED <<driverVars, role, genesis, polling>>

-----------------------------------------------------------------------------
(* Running *)

\* SIGINT or SIGTERM cancels the token.
Signal ==
  /\ ~shutdown
  /\ shutdown' = TRUE
  /\ UNCHANGED <<loop, core, commands, net_rx, clock, history, gossiped, processVars>>

Ends(t) ==
  /\ tasks[t] = "running"
  /\ Became(t, "ended")
  /\ UNCHANGED <<driverVars, step, role, genesis, polling>>

\* The swarm ends with the token, after a last write of its peers.
NetworkEnds == shutdown /\ Ends("network")

\* So do the servers once their requests have ended, or at once when they cannot
\* bind, and the node runs on without.
MetricsEnds == Ends("metrics")
RpcEnds == Ends("rpc")

\* run_validator, every two seconds: the height is asked for, and waited for.
Poll(q) ==
  /\ role = "validator" /\ tasks["role"] = "running" /\ polling = NoQuery
  /\ Ask(q)
  /\ polling' = q
  /\ UNCHANGED <<step, role, genesis, tasks>>
Polled ==
  /\ polling # NoQuery /\ polling \in answered
  /\ polling' = NoQuery
  /\ UNCHANGED <<driverVars, step, role, genesis, tasks>>

\* run_validator ends with the token, when it waits for no height; ...
ValidatorRole == shutdown /\ polling = NoQuery
\* ... the compute role's loop with the token, whatever requests are under way; ...
ComputeRole == shutdown
\* ... and the verifier's at once, since no engine is booted beside it.
VerifierRole == stage = "off"

RoleEnds ==
  /\ \/ role = "validator" /\ ValidatorRole
     \/ role = "compute" /\ ComputeRole
     \/ role = "verifier" /\ VerifierRole
  /\ Ends("role")

-----------------------------------------------------------------------------
(* Taking down *)

\* Faulty variant: the servers are awaited without the token.
AwaitRoleOnly == shutdown' = shutdown
\* token.cancel().
CancelToken == shutdown' = TRUE

AwaitRole ==
  /\ step = "role" /\ tasks["role"] = "ended"
  /\ step' = "join"
  /\ CancelToken
  /\ UNCHANGED <<loop, core, commands, net_rx, clock, history, gossiped, role, genesis, tasks, polling>>

\* The metrics, the RPC server, the engine and the network are awaited in turn.
Joined == (\A t \in Task : tasks[t] = "ended") /\ stage \in {"off", "stopped"}

Join ==
  /\ step = "join"
  /\ Joined
  /\ step' = "exited"
  /\ UNCHANGED <<driverVars, role, genesis, tasks, polling>>

-----------------------------------------------------------------------------

ProcessInit ==
  /\ DriverInit
  /\ step = "keypair" /\ role \in Role /\ genesis \in Genesis
  /\ tasks = [t \in Task |-> "none"] /\ polling = NoQuery

Booting == LoadKeypair \/ StartNetwork \/ OpenRuntime \/ StartConsensus \/ Launch
ServersEnd == shutdown /\ (MetricsEnds \/ RpcEnds)
Ending == NetworkEnds \/ ServersEnd \/ RoleEnds \/ AwaitRole \/ Join

\* The engine acts beside the process.
Engine(A) == A /\ UNCHANGED processVars

ProcessNext ==
  \/ Booting \/ Fail \/ Signal
  \/ \E q \in Query : Poll(q)
  \/ Polled \/ MetricsEnds \/ RpcEnds \/ Ending
  \/ Engine(EngineStep \/ Select \/ Advance)
  \/ \E tx \in Tx : Engine(Ask(tx))
  \/ \E event \in OnTheWire : Engine(Deliver(event))

ProcessSpec == ProcessInit /\ [][ProcessNext]_allVars

-----------------------------------------------------------------------------
(* Properties *)

\* A node that is told to stop, or whose role ends, exits: neither a reply that
\* the role waits for nor a server keeps it, nor an engine, unless its pool holds
\* what it can never drain, and then it starts height after height without a
\* look at the token.  And when the process returns, nothing of it runs any more:
\* no engine that still commits, no network that still publishes
\* (start.rs:122-147).
Quiet == stage \in {"off", "stopped"} /\ \A t \in Task : tasks[t] = "ended"
Exits ==
  /\ [](step = "exited" => Quiet)
  /\ (step = "role" /\ (shutdown \/ tasks["role"] = "ended")) ~>
       (step = "exited" \/ mempool \cap Stuck # {})

=============================================================================
