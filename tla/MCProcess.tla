----------------------------- MODULE MCProcess ------------------------------
(***************************************************************************)
(* A node of every role, booted from genesis files that name it alone, with *)
(* another validator, or under an operator address that is not its own.    *)
(* Clients and the network act on a validator whose process is up.         *)
(***************************************************************************)
EXTENDS Process, TLC

\* Keys: 1 is the node's, 2 the other validator's, which has the first round.
Entry(key, operator) == [key |-> key, operator |-> operator, voting_power |-> key]
File(entries) == [validators |-> entries, initial_accounts |-> {}, initial_height |-> 0,
                  params |-> [gas_target |-> 1, gas_limit |-> 1]]
Unreadable == [key |-> Malformed, operator |-> 2, voting_power |-> 1]
MCGenesis == { File(<<Entry(1, 1)>>), File(<<Entry(2, 2), Entry(1, 1)>>), File(<<Entry(2, 2), Entry(1, 3)>>),
               File(<<Entry(1, 1), Unreadable>>),
               [File(<<Entry(1, 1)>>) EXCEPT !.params.gas_limit = 0] }

MCDuration == [k \in {"Propose", "Prevote"} |-> 1]

\* What the network delivers: messages of the other validator, a vote in its
\* name under another key, one that is not what it signed, one of a later
\* version, and gossip of another topic.
MCMessage == { Vote(0, 0, "Prevote", NoValue, 2), Vote(0, RoundNil, "Precommit", 5, 2),
             Proposal(0, 0, RoundNil, [header |-> 5, body |-> "b"], 2) }
Gossip(signed) == [topic |-> TOPIC_CONSENSUS_VOTE, data |-> EncodeSignedVote(signed)]
Nil == Vote(0, 0, "Prevote", NoValue, 2)
ForValue == Vote(0, 0, "Prevote", 5, 2)
Forged == Gossip(Signed(ForValue, 3))
Altered == Gossip([Signed(Nil, 2) EXCEPT !.message = ForValue])
Later == [Gossip(Signed(ForValue, 2)) EXCEPT !.data.vote_type = 3]
Other == [topic |-> "arknet/pool/offer/1", data |-> "offer"]
MCForeign == { Forged, Altered, Later, Other }

\* Of a node with another validator the gossip and the timers matter, of one
\* that is alone its callers and its end.
Alone == Len(genesis.validators) = 1
Up == step = "role" /\ stage # "off" /\ ~shutdown

MCNext ==
  \/ Booting \/ Fail
  \/ Signal
  \/ \E q \in Query : Alone /\ Poll(q)
  \/ Polled \/ Ending
  \/ Alone /\ (MetricsEnds \/ RpcEnds)
  \/ Engine(EngineStep \/ Select)
  \/ Up /\ Alone /\ \E tx \in Tx : Engine(Ask(tx))
  \/ Up /\ Engine(Advance)
  \/ Up /\ ~Alone /\ \E event \in OnTheWire : Engine(Deliver(event))

\* The tasks run on, and the select takes what stays ready.
Fairness ==
  /\ WF_allVars(Engine(EngineStep))
  /\ SF_allVars(Engine(SelectShutdown)) /\ SF_allVars(Engine(SelectCommand))
  /\ SF_allVars(Engine(SelectEvent)) /\ SF_allVars(Engine(SelectTimer))
  /\ WF_allVars(Polled) /\ WF_allVars(Ending)

MCSpec == ProcessInit /\ [][MCNext]_allVars /\ Fairness

=============================================================================
