---------------------------- MODULE MCModelCache ----------------------------
(***************************************************************************)
(* Instance of ModelCache and of Chat; a behaviour is about one of them.   *)
(*                                                                         *)
(* "cache": two requests at a time over two models that do not fit         *)
(* together, the larger of two chunks, so that a download can stop between *)
(* them.                                                                   *)
(*                                                                         *)
(* "chat": one completion of a loaded model, over pieces that split        *)
(* characters and stop strings, with a channel that fills up.              *)
(***************************************************************************)
EXTENDS ModelCache, Chat

CONSTANTS big, small, odd

VARIABLE scenario

MCSizeOf == [m \in Model |-> IF m = big THEN 2 ELSE 1]

MCMirrors == [m \in Model |-> IF m = small THEN 2 ELSE 1]

Asked == [endpoint |-> "chat", messages |-> 1, prefer_tee |-> FALSE, model |-> "loaded", mode |-> "serving",
          stream |-> TRUE, max_tokens |-> 3, stop |-> <<>>, prompt |-> 1]

MCCompletions ==
  { Asked, [Asked EXCEPT !.stream = FALSE], [Asked EXCEPT !.stop = << <<"a", "b">> >>],
    [Asked EXCEPT !.stream = FALSE, !.stop = << <<"b">>, <<"a", "b">> >>],
    [Asked EXCEPT !.endpoint = "inference"], [Asked EXCEPT !.endpoint = "inference", !.mode = "other"],
    [Asked EXCEPT !.endpoint = "inference", !.model = "malformed"],
    [Asked EXCEPT !.messages = 0], [Asked EXCEPT !.prefer_tee = TRUE], [Asked EXCEPT !.model = "unknown"],
    [Asked EXCEPT !.max_tokens = 4], [Asked EXCEPT !.max_tokens = 0] }

MCPiece == { <<"a">>, <<"b">>, <<"a", Lead>>, <<Cont>>, <<Lead, Cont>>, <<>> }

\* A node that starts on what an earlier run left: the model m in its slot.
InitWith(m) ==
  LET f == CHOOSE f \in FileId : TRUE
  IN /\ dir = [k \in Model |-> [slot |-> IF k = m THEN f ELSE None, staging |-> None, partial |-> None]]
     /\ files = [g \in FileId |-> IF g = f THEN Full(m) ELSE <<>>]
     /\ index = [i \in Task \cup {Main} |-> IF i = Main THEN << [model |-> m, size |-> SizeOf[m]] >> ELSE <<>>]
     /\ engine = <<>> /\ manifests = {} /\ loaded_models = {}
     /\ task = [t \in Task |-> Idle]
     /\ overlapped = {} /\ crowded = FALSE /\ requests = 0 /\ restarts = 0

MCInit ==
  /\ scenario \in {"cache", "chat"}
  /\ Init \/ (scenario = "cache" /\ InitWith(small))
  /\ ChatInit
  /\ scenario = "cache" => request = Asked

Cache(A) == scenario = "cache" /\ A /\ UNCHANGED <<chatVars, scenario>>
Completing(A) == scenario = "chat" /\ A /\ UNCHANGED <<vars, scenario>>

MCNext == Cache(Next) \/ Completing(ChatNext)

allVars == <<vars, chatVars, scenario>>

MCSpec ==
  /\ MCInit /\ [][MCNext]_allVars
  /\ \A t \in Task : WF_allVars(Cache(Step(t)))
  /\ WF_allVars(Completing(SessionStep)) /\ WF_allVars(Completing(HandlerStep))

=============================================================================
