---------------------------- MODULE AnswerStream ----------------------------
(***************************************************************************)
(* What a requester is promised: a request waits, then either fails or     *)
(* opens a stream; an open stream delivers tokens in order and without a   *)
(* gap, and once it has delivered a terminal event nothing but the         *)
(* forwarder's own Cancelled follows.  No stream is reopened, replaced or  *)
(* taken back, whatever happens to candidates, responses and channels.     *)
(***************************************************************************)
EXTENDS Integers, Sequences

CONSTANT Request

VARIABLES phase,    \* request -> where it is
          received  \* request -> the events its requester has

Terminals == {"Done", "Cancelled", "Error"}

Open(q) ==
  /\ phase[q] = "waiting"
  /\ phase' = [phase EXCEPT ![q] = "open"]
  /\ UNCHANGED received

Fail(q) ==
  /\ phase[q] = "waiting"
  /\ phase' = [phase EXCEPT ![q] = "failed"]
  /\ UNCHANGED received

Leave(q) ==
  /\ phase[q] = "open"
  /\ phase' = [phase EXCEPT ![q] = "left"]
  /\ UNCHANGED received

Begun(q) == received[q] # <<>>

Over(q) == Begun(q) /\ received[q][Len(received[q])].kind \in Terminals

Deliver(q, e) == received' = [received EXCEPT ![q] = Append(@, e)]

\* Neither the first event nor a token closes the stream.
DeliverToken(q) ==
  /\ phase[q] = "open" /\ ~Over(q)
  /\ Deliver(q, [kind |-> "Token", index |-> Len(received[q])])
  /\ UNCHANGED phase

DeliverEmpty(q) ==
  /\ phase[q] = "open" /\ ~Begun(q)
  /\ \E kind \in Terminals \ {"Error"} : Deliver(q, [kind |-> kind, index |-> 0])
  /\ UNCHANGED phase

Close(q) ==
  /\ phase[q] = "open" /\ Begun(q)
  /\ phase' = [phase EXCEPT ![q] = "closed"]
  /\ \E kind \in IF Over(q) THEN {"Cancelled"} ELSE Terminals : Deliver(q, [kind |-> kind, index |-> 0])

Init ==
  /\ phase = [q \in Request |-> "waiting"]
  /\ received = [q \in Request |-> <<>>]

Next ==
  \E q \in Request :
    Open(q) \/ Fail(q) \/ Leave(q) \/ DeliverToken(q) \/ DeliverEmpty(q) \/ Close(q)

Spec == Init /\ [][Next]_<<phase, received>>

=============================================================================
