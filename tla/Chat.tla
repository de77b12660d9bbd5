-------------------------------- MODULE Chat --------------------------------
(***************************************************************************)
(* A completion over HTTP, once its model is loaded: POST                  *)
(* /v1/chat/completions and /v1/inference (crates/node/src/rpc.rs,         *)
(* crates/rpc/src/openai.rs), the session that decodes on a thread of its  *)
(* own (crates/inference/src/session.rs) and the bounded channel between   *)
(* them (crates/inference/src/engine.rs).  How the model got loaded is     *)
(* ModelCache.                                                             *)
(*                                                                         *)
(* Text is a sequence of bytes.  A character is one byte, or Lead and Cont *)
(* together; a token's piece may end within one.  llama.cpp is external:   *)
(* it samples any piece, and may fail.  The prompt and max_tokens sum up   *)
(* to a u32.                                                               *)
(***************************************************************************)
EXTENDS Integers, FiniteSets, SequencesExt

CONSTANTS Completions,  \* requests
          Piece,        \* bytes of a token
          tee_enabled,
          n_ctx,        \* tokens that the context holds
          CHANNEL       \* 64 events

VARIABLES request,
          phase,     \* of the connection: "idle", "asked", "open", "answered", "gone"
          status,    \* of the response
          body,      \* events that the handler took from the channel
          session,   \* "none", "ingest", "sampling", "ended"
          generated, \* number of tokens
          pending,   \* PieceBuffer's bytes
          full_text,
          reason,
          channel,
          decoded,   \* history: bytes of the sampled pieces
          refused    \* history: whether the channel refused an event

http == <<request, phase, status, body>>
decoding == <<session, generated, pending, full_text, reason>>
chatVars == <<http, decoding, channel, decoded, refused>>

Lead == "lead"
Cont == "cont"

Byte == UNION {Range(bytes) : bytes \in Piece}

\* The fields of the two request bodies that count, in one record: temperature and
\* top_p only steer the sampling; n and require_https are read by nobody.
ChatCompletionRequest ==
  [endpoint : {"chat"}, model : {"loaded", "unknown", "malformed"}, messages : Nat,
   max_tokens : Nat, stream : BOOLEAN, stop : Seq(Seq(Byte)), prefer_tee : BOOLEAN,
   prompt : Nat, mode : {"serving"}]
InferRequestBody ==
  [endpoint : {"inference"}, model : {"loaded", "unknown", "malformed"}, prompt : Nat,
   max_tokens : Nat, mode : {"serving", "deterministic", "other"}, stop : Seq(Seq(Byte)),
   messages : {1}, stream : {TRUE}, prefer_tee : {FALSE}]

ASSUME ChatAssumption ==
  /\ n_ctx \in Nat /\ CHANNEL \in Nat \ {0} /\ tee_enabled \in BOOLEAN
  /\ Piece \subseteq Seq(Byte)
  /\ \A r \in Completions : r \in ChatCompletionRequest \cup InferRequestBody

Token(text) == [kind |-> "Token", text |-> text]
Stop(why) == [kind |-> "Stop", reason |-> why]
Error == [kind |-> "Error"]

IsToken(e) == e.kind = "Token"
\* Their positions.
Tokens(events) == {i \in DOMAIN events : IsToken(events[i])}
TextOf(events) == FoldLeft(LAMBDA text, e : IF IsToken(e) THEN text \o e.text ELSE text, <<>>, events)

-----------------------------------------------------------------------------
(* The piece buffer *)

Valid(bytes) ==
  \A i \in DOMAIN bytes :
    /\ bytes[i] = Lead => i < Len(bytes) /\ bytes[i + 1] = Cont
    /\ bytes[i] = Cont => i > 1 /\ bytes[i - 1] = Lead

\* from_utf8's valid_up_to.
ValidUpTo(bytes) == Max({n \in 0..Len(bytes) : Valid(SubSeq(bytes, 1, n))})

\* Faulty variant: every token is decoded by itself.
FeedLossy(bytes) == [text |-> SelectSeq(bytes, LAMBDA b : b \notin {Lead, Cont}), pending |-> <<>>]

\* The valid prefix is text, the rest waits.  (What is no character at all waits
\* too, and everything behind it.)
Feed(bytes) ==
  [text |-> SubSeq(bytes, 1, ValidUpTo(bytes)),
   pending |-> SubSeq(bytes, ValidUpTo(bytes) + 1, Len(bytes))]

-----------------------------------------------------------------------------
(* The session *)

HasRoom == phase = "open" /\ Len(channel) < CHANNEL

\* try_send: a full channel, or one whose receiver is gone, refuses the event.
Offer(e) ==
  /\ channel' = IF HasRoom THEN Append(channel, e) ELSE channel
  /\ refused' = (refused \/ ~HasRoom)

\* The thread ends with an error, which it offers as an event.
EndWithError ==
  /\ session' = "ended"
  /\ Offer(Error)

\* The prompt is tokenized and decoded in one batch.
Ingest ==
  /\ session = "ingest"
  /\ \/ EndWithError
     \/ /\ request.prompt > 0 /\ request.prompt + request.max_tokens <= n_ctx
        /\ session' = "sampling"
        /\ UNCHANGED <<channel, refused>>
  /\ UNCHANGED <<http, generated, pending, full_text, reason, decoded>>

\* Whether the text ends in a stop string.
Stops(text) == \E i \in DOMAIN request.stop : IsSuffix(request.stop[i], text)

\* One token.  A refused one cancels the session; one that ends in a stop string
\* is the last; any other is fed back, and that may fail.
Sample(piece) ==
  /\ session = "sampling" /\ reason = "MaxTokens"
  /\ generated < request.max_tokens
  /\ LET fed == Feed(pending \o piece)
         text == full_text \o fed.text IN
       /\ Offer(Token(fed.text))
       /\ pending' = fed.pending
       /\ full_text' = text
       /\ reason' = CASE ~HasRoom -> "Cancelled"
                      [] HasRoom /\ Stops(text) -> "StopString"
                      [] OTHER -> "MaxTokens"
  /\ generated' = generated + 1
  /\ decoded' = decoded \o piece
  /\ UNCHANGED <<http, session>>

DecodeFails ==
  /\ session = "sampling" /\ reason = "MaxTokens"
  /\ generated > 0
  /\ EndWithError
  /\ UNCHANGED <<http, generated, pending, full_text, reason, decoded>>

EndOfStream ==
  /\ session = "sampling" /\ reason = "MaxTokens"
  /\ generated < request.max_tokens
  /\ reason' = "EndOfStream"
  /\ UNCHANGED <<http, session, generated, pending, full_text, channel, decoded, refused>>

\* What is left in the buffer joins the text, but goes to nobody.
FinishSession ==
  /\ session = "sampling"
  /\ reason # "MaxTokens" \/ generated = request.max_tokens
  /\ session' = "ended"
  /\ Offer(Stop(reason))
  /\ full_text' = full_text \o pending
  /\ pending' = <<>>
  /\ UNCHANGED <<http, generated, reason, decoded>>

-----------------------------------------------------------------------------
(* The handlers *)

\* The checks of a handler in their order, with the status of a refusal.
ChatChecks(r) ==
  << [fails |-> r.messages = 0, status |-> 400],
     [fails |-> r.prefer_tee /\ ~tee_enabled, status |-> 503],
     [fails |-> r.model = "malformed", status |-> 400],
     [fails |-> r.model = "unknown", status |-> 404] >>
InferChecks(r) ==
  << [fails |-> r.model = "malformed", status |-> 400],
     [fails |-> r.model = "unknown", status |-> 400],
     [fails |-> r.mode \notin {"serving", "deterministic"}, status |-> 400] >>
Failing(r) ==
  SelectSeq(IF r.endpoint = "chat" THEN ChatChecks(r) ELSE InferChecks(r), LAMBDA c : c.fails)

\* The client posts its request.
Post ==
  /\ phase = "idle"
  /\ phase' = "asked"
  /\ UNCHANGED <<request, status, body, decoding, channel, decoded, refused>>

Reply(code) ==
  /\ status' = code
  /\ phase' = "answered"

RefuseRequest ==
  /\ phase = "asked" /\ Failing(request) # <<>>
  /\ Reply(Head(Failing(request)).status)
  /\ UNCHANGED <<request, body, decoding, channel, decoded, refused>>

\* Opening the runtime of the request and loading the model into it may fail.
LoadFails ==
  /\ phase = "asked" /\ Failing(request) = <<>>
  /\ Reply(500)
  /\ UNCHANGED <<request, body, decoding, channel, decoded, refused>>

OpenSession ==
  /\ phase = "asked" /\ Failing(request) = <<>>
  /\ phase' = "open"
  /\ status' = 200 \* of a stream it is sent now
  /\ session' = "ingest"
  /\ UNCHANGED <<request, body, generated, pending, full_text, reason, channel, decoded, refused>>

Streams(r) == r.stream

\* An event of the channel goes to the client, or to try_collect, which gives up
\* at an error.
Take ==
  /\ phase = "open" /\ channel # <<>>
  /\ channel' = Tail(channel)
  /\ body' = Append(body, Head(channel))
  /\ IF Head(channel) = Error /\ ~Streams(request)
     THEN Reply(500)
     ELSE UNCHANGED <<phase, status>>
  /\ UNCHANGED <<request, decoding, decoded, refused>>

\* Faulty variant: the answer goes on until its last event says that it ended.
OverAtStop == channel = <<>> /\ body # <<>> /\ ~IsToken(Last(body))
\* The sender is gone and the channel empty.
Over == channel = <<>> /\ session = "ended"

EndBody ==
  /\ phase = "open" /\ Over
  /\ Reply(status)
  /\ UNCHANGED <<request, body, decoding, channel, decoded, refused>>

\* The client disconnects.
Leave ==
  /\ phase = "open"
  /\ phase' = "gone"
  /\ channel' = <<>>
  /\ UNCHANGED <<request, status, body, decoding, decoded, refused>>

\* finish_reason of an event.
FinishOf(e) ==
  CASE IsToken(e) -> "none"
    [] e = Stop("MaxTokens") -> "length"
    [] OTHER -> "stop"

\* What counts of a chunk: its one choice's delta and finish_reason.
ChatCompletionChunk(e, first) ==
  [role |-> IF IsToken(e) /\ first THEN "assistant" ELSE "none",
   content |-> IF IsToken(e) THEN e.text ELSE <<>>,
   finish |-> FinishOf(e)]

\* A stream sends a chunk per event, with the role on the first token.
Chunks ==
  [i \in DOMAIN body |->
     ChatCompletionChunk(body[i], \A j \in 1..(i - 1) : ~IsToken(body[j]))]

\* What counts of a collected answer: its one choice and the usage.
ChatCompletionResponse(text, completion_tokens, finish) ==
  [text |-> text, completion_tokens |-> completion_tokens, finish |-> finish]

\* It finishes with "stop" unless an event says otherwise.
Completion ==
  ChatCompletionResponse(TextOf(body), Cardinality(Tokens(body)),
    IF \E i \in DOMAIN body : FinishOf(body[i]) = "length" THEN "length" ELSE "stop")

-----------------------------------------------------------------------------

ChatInit ==
  /\ request \in Completions /\ phase = "idle" /\ status = 0 /\ body = <<>>
  /\ session = "none" /\ generated = 0 /\ pending = <<>> /\ full_text = <<>> /\ reason = "MaxTokens"
  /\ channel = <<>> /\ decoded = <<>> /\ refused = FALSE

SessionStep ==
  \/ Ingest \/ (\E piece \in Piece : Sample(piece)) \/ DecodeFails \/ EndOfStream \/ FinishSession
HandlerStep == RefuseRequest \/ LoadFails \/ OpenSession \/ Take \/ EndBody

ChatNext == Post \/ SessionStep \/ HandlerStep \/ Leave

ChatSpec == ChatInit /\ [][ChatNext]_chatVars

-----------------------------------------------------------------------------
(* Properties *)

\* No byte is lost, doubled or reordered between the tokens and the client, how
\* ever characters are split over them: until the channel refuses an event, what
\* was offered and what the buffer holds are what was decoded, and the buffer
\* holds no character that is whole (tokenizer.rs:182-183).
TextKept ==
  session \in {"ingest", "sampling"} /\ ~refused /\ phase = "open" =>
    /\ TextOf(body \o channel) = full_text
    /\ full_text \o pending = decoded
    /\ ValidUpTo(pending) = 0

\* The text before the last token ends in no stop string, also not in one that is
\* split over tokens (session.rs:137-138).
StopsAtStop ==
  \A m, n \in Tokens(body) :
    m < n => ~Stops(TextOf(SubSeq(body, 1, m)))

\* A completed answer says once, at its end, how it ended, if the channel refused
\* nothing; and "length" stands for all of max_tokens, without a stop.
MetStop == Completion.completion_tokens > 0 /\ Stops(Completion.text)
FinishTold ==
  LET told == {i \in DOMAIN body : ~IsToken(body[i])} IN
    /\ told \subseteq {Len(body)}
    /\ \A i, j \in DOMAIN body : Chunks[i].role = "assistant" /\ Chunks[j].role = "assistant" => i = j
    /\ phase = "answered" /\ session = "ended" /\ ~refused =>
         /\ told # {}
         /\ Last(body) # Error =>
              \A finish \in {Completion.finish, Last(Chunks).finish} :
                (finish = "length") <=> (Completion.completion_tokens = request.max_tokens /\ ~MetStop)

StreamFaithful == TextKept /\ StopsAtStop /\ FinishTold

\* Every request is answered unless its client leaves, and no session goes on for
\* a client that has left.
ChatAnswered ==
  /\ phase \in {"asked", "open"} ~> phase \in {"answered", "gone"}
  /\ session # "none" ~> session = "ended"

=============================================================================
