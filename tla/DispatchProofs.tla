--------------------------- MODULE DispatchProofs ---------------------------
(***************************************************************************)
(* What a requester receives (StreamWellFormed, StreamSpec) and what a     *)
(* node's replay cache is worth (ReplayWindow), for any number of          *)
(* requests, nodes and tokens and for channels of any capacity.            *)
(***************************************************************************)
EXTENDS Dispatch, SequenceTheorems, TLAPS

-----------------------------------------------------------------------------
(* The events of an attempt on their way *)

\* The events of attempt a: the requester has u, o is handed on, c is in the
\* decoder's channel, and the job is in state j.  Tokens go on counting from
\* one to the next, and nothing follows a terminal event.
Flows(a, u, o, c, j) ==
  /\ \A i \in 1..Len(o) :
       /\ o[i].of = a
       /\ Terminal(o[i]) => i = Len(o) /\ c = <<>> /\ j # "decoding" /\ o[i].index = 0
       /\ ~Terminal(o[i]) => o[i].index = Len(u) + i - 1
  /\ \A i \in 1..Len(c) :
       /\ c[i].of = a
       /\ Terminal(c[i]) => i = Len(c) /\ j # "decoding" /\ c[i].index = 0
       /\ ~Terminal(c[i]) => c[i].index = Len(u) + Len(o) + i - 1

\* One event moves on from the decoder's channel (bridge_events).
LEMMA FlowBridge ==
  ASSUME NEW a, NEW u \in Seq(Event), NEW o \in Seq(Event), NEW c \in Seq(Event), NEW j,
         Flows(a, u, o, c, j), c # <<>>
  PROVE  Flows(a, u, Append(o, Head(c)), Tail(c), j)
<1> DEFINE p == Append(o, Head(c))
           d == Tail(c)
<1>1. Len(u) \in Nat /\ Len(o) \in Nat /\ Len(c) \in Nat /\ Len(c) > 0
  BY EmptySeq
<1>2. /\ Len(p) = Len(o) + 1 /\ p[Len(o) + 1] = c[1] /\ \A i \in 1..Len(o) : p[i] = o[i]
      /\ d \in Seq(Event) /\ Len(d) = Len(c) - 1 /\ \A i \in 1..Len(d) : d[i] = c[i + 1]
  BY HeadTailProperties, AppendProperties
<1>3. \A i \in 1..Len(o) : ~Terminal(o[i])
  <2> HIDE DEF p, d
  <2> QED BY DEF Flows
<1>4. Terminal(c[1]) => d = <<>>
  <2>1. Terminal(c[1]) => Len(c) = 1
    <3>1. 1 \in 1..Len(c)
      BY <1>1
    <3> QED BY <3>1 DEF Flows
  <2>2. Len(d) = 0 => d = <<>>
    BY <1>2, EmptySeq
  <2> QED BY <1>2, <2>1, <2>2
<1> HIDE DEF p, d
<1>5. ASSUME NEW i \in 1..Len(p)
      PROVE  /\ p[i].of = a
             /\ Terminal(p[i]) => i = Len(p) /\ d = <<>> /\ j # "decoding" /\ p[i].index = 0
             /\ ~Terminal(p[i]) => p[i].index = Len(u) + i - 1
  <2>1. CASE i \in 1..Len(o)
    BY <1>2, <1>3, <2>1 DEF Flows
  <2>2. CASE i = Len(o) + 1
    <3>1. /\ c[1].of = a
          /\ Terminal(c[1]) => j # "decoding" /\ c[1].index = 0
          /\ ~Terminal(c[1]) => c[1].index = Len(u) + Len(o) + 1 - 1
      BY <1>1 DEF Flows
    <3> QED BY <1>1, <1>2, <1>4, <2>2, <3>1
  <2> QED BY <1>1, <1>2, <2>1, <2>2
<1>6. ASSUME NEW i \in 1..Len(d)
      PROVE  /\ d[i].of = a
             /\ Terminal(d[i]) => i = Len(d) /\ j # "decoding" /\ d[i].index = 0
             /\ ~Terminal(d[i]) => d[i].index = Len(u) + Len(p) + i - 1
  <2>1. i + 1 \in 1..Len(c) /\ d[i] = c[i + 1]
    BY <1>1, <1>2
  <2>2. /\ c[i + 1].of = a
        /\ Terminal(c[i + 1]) => i + 1 = Len(c) /\ j # "decoding" /\ c[i + 1].index = 0
        /\ ~Terminal(c[i + 1]) => c[i + 1].index = Len(u) + Len(o) + (i + 1) - 1
    BY <2>1 DEF Flows
  <2> QED BY <1>1, <1>2, <2>1, <2>2
<1>7. Flows(a, u, p, d, j)
  BY <1>5, <1>6 DEF Flows
<1> QED BY <1>7 DEF p, d

\* The decoder pushes an event while its job is decoding: the next token, or a
\* terminal event with which the job stops.
LEMMA FlowPush ==
  ASSUME NEW a, NEW u \in Seq(Event), NEW o \in Seq(Event), NEW c \in Seq(Event),
         Flows(a, u, o, c, "decoding"), NEW e \in Event, e.of = a, NEW j,
         \/ ~Terminal(e) /\ e.index = Len(u) + Len(o) + Len(c)
         \/ Terminal(e) /\ e.index = 0 /\ j # "decoding"
  PROVE  Flows(a, u, o, Append(c, e), j)
<1> DEFINE d == Append(c, e)
<1>1. Len(u) \in Nat /\ Len(o) \in Nat /\ Len(c) \in Nat
  OBVIOUS
<1>2. Len(d) = Len(c) + 1 /\ d[Len(c) + 1] = e /\ \A i \in 1..Len(c) : d[i] = c[i]
  BY AppendProperties
<1> HIDE DEF d
<1>3. \A i \in 1..Len(o) : o[i].of = a /\ ~Terminal(o[i]) /\ o[i].index = Len(u) + i - 1
  BY DEF Flows
<1>4. \A i \in 1..Len(c) : c[i].of = a /\ ~Terminal(c[i]) /\ c[i].index = Len(u) + Len(o) + i - 1
  BY DEF Flows
<1>5. ASSUME NEW i \in 1..Len(d)
      PROVE  /\ d[i].of = a
             /\ Terminal(d[i]) => i = Len(d) /\ j # "decoding" /\ d[i].index = 0
             /\ ~Terminal(d[i]) => d[i].index = Len(u) + Len(o) + i - 1
  <2>1. CASE i \in 1..Len(c)
    BY <1>2, <1>4, <2>1
  <2>2. CASE i = Len(c) + 1
    BY <1>1, <1>2, <2>2
  <2> QED BY <1>1, <1>2, <2>1, <2>2
<1> QED BY <1>3, <1>5 DEF Flows, d

\* A job that stops with its terminal event refused.
LEMMA FlowStop ==
  ASSUME NEW a, NEW u, NEW o, NEW c, Flows(a, u, o, c, "decoding"), NEW j
  PROVE  Flows(a, u, o, c, j)
BY DEF Flows

\* The local dispatcher supplies a missing terminal event.
LEMMA FlowClose ==
  ASSUME NEW a, NEW u \in Seq(Event), NEW o \in Seq(Event), NEW j, j # "decoding",
         Flows(a, u, o, <<>>, j), ~HasTerminal(o), NEW e \in Event, e.of = a, Terminal(e), e.index = 0
  PROVE  Flows(a, u, Append(o, e), <<>>, j)
<1> DEFINE p == Append(o, e)
<1>1. Len(u) \in Nat /\ Len(o) \in Nat
  OBVIOUS
<1>2. Len(p) = Len(o) + 1 /\ p[Len(o) + 1] = e /\ \A i \in 1..Len(o) : p[i] = o[i]
  BY AppendProperties
<1>3. \A i \in 1..Len(o) : o[i].of = a /\ ~Terminal(o[i]) /\ o[i].index = Len(u) + i - 1
  BY DEF Flows, HasTerminal
<1> HIDE DEF p
<1>4. ASSUME NEW i \in 1..Len(p)
      PROVE  /\ p[i].of = a
             /\ Terminal(p[i]) => i = Len(p) /\ j # "decoding" /\ p[i].index = 0
             /\ ~Terminal(p[i]) => p[i].index = Len(u) + i - 1
  <2>1. CASE i \in 1..Len(o)
    BY <1>2, <1>3, <2>1
  <2>2. CASE i = Len(o) + 1
    BY <1>1, <1>2, <2>2
  <2> QED BY <1>1, <1>2, <2>1, <2>2
<1> QED BY <1>4 DEF Flows, p

\* The forwarder passes an event on to the requester.
LEMMA FlowForward ==
  ASSUME NEW a, NEW u \in Seq(Event), NEW o \in Seq(Event), NEW c \in Seq(Event), NEW j,
         Flows(a, u, o, c, j), o # <<>>
  PROVE  Flows(a, Append(u, Head(o)), Tail(o), c, j)
<1> DEFINE v == Append(u, Head(o))
           p == Tail(o)
<1>1. Len(u) \in Nat /\ Len(o) \in Nat /\ Len(c) \in Nat /\ Len(o) > 0
  BY EmptySeq
<1>2. /\ Len(v) = Len(u) + 1
      /\ p \in Seq(Event) /\ Len(p) = Len(o) - 1 /\ \A i \in 1..Len(p) : p[i] = o[i + 1]
  BY HeadTailProperties, AppendProperties
<1> HIDE DEF v, p
<1>3. ASSUME NEW i \in 1..Len(p)
      PROVE  /\ p[i].of = a
             /\ Terminal(p[i]) => i = Len(p) /\ c = <<>> /\ j # "decoding" /\ p[i].index = 0
             /\ ~Terminal(p[i]) => p[i].index = Len(v) + i - 1
  <2>1. i + 1 \in 1..Len(o) /\ p[i] = o[i + 1]
    BY <1>1, <1>2
  <2>2. /\ o[i + 1].of = a
        /\ Terminal(o[i + 1]) => i + 1 = Len(o) /\ c = <<>> /\ j # "decoding" /\ o[i + 1].index = 0
        /\ ~Terminal(o[i + 1]) => o[i + 1].index = Len(u) + (i + 1) - 1
    BY <2>1 DEF Flows
  <2> QED BY <1>1, <1>2, <2>1, <2>2
<1>4. ASSUME NEW i \in 1..Len(c)
      PROVE  /\ c[i].of = a
             /\ Terminal(c[i]) => i = Len(c) /\ j # "decoding" /\ c[i].index = 0
             /\ ~Terminal(c[i]) => c[i].index = Len(v) + Len(p) + i - 1
  <2>1. /\ c[i].of = a
        /\ Terminal(c[i]) => i = Len(c) /\ j # "decoding" /\ c[i].index = 0
        /\ ~Terminal(c[i]) => c[i].index = Len(u) + Len(o) + i - 1
    BY DEF Flows
  <2> QED BY <1>1, <1>2, <2>1
<1>5. Flows(a, v, p, c, j)
  BY <1>3, <1>4 DEF Flows
<1> QED BY <1>5 DEF v, p

-----------------------------------------------------------------------------
(* What the requester has of them *)

\* A stream as a requester may have it in the end.
Complete(a, s) ==
  \A i \in 1..Len(s) :
    /\ s[i].of = a
    /\ Terminal(s[i]) => i = Len(s) \/ (i = 1 /\ Len(s) = 2 /\ s[2] = Stop(a, "Cancelled"))
    /\ ~Terminal(s[i]) => s[i].index = i - 1

\* While it is forwarded: a terminal event is the first one, which does not
\* close the stream, and then nothing but the dispatcher's Cancelled is left.
\* Before the first event that event is there, and it is no error.
Delivers(a, u, o, c, j) ==
  /\ \A i \in 1..Len(u) :
       /\ u[i].of = a
       /\ Terminal(u[i]) => /\ Len(u) = 1 /\ c = <<>> /\ j # "decoding"
                            /\ o = <<>> \/ o = <<Stop(a, "Cancelled")>>
       /\ ~Terminal(u[i]) => u[i].index = i - 1
  /\ u = <<>> => o # <<>> /\ Head(o).kind # "Error"

\* A job ends its stream with one event of its own, outside the tokens' count.
LEMMA StopIs ==
  ASSUME NEW a \in Attempt, NEW why \in {"Done", "Cancelled"}
  PROVE  /\ Stop(a, why) \in Event /\ Stop(a, why).of = a /\ Stop(a, why).index = 0
         /\ Terminal(Stop(a, why)) /\ Stop(a, why).kind = why
BY DEF Stop, Event, Terminal

\* The bridge task moves the oldest event of a job's channel to the stream, and the
\* order of what the job has sent is kept (dispatch.rs).
LEMMA DeliverBridge ==
  ASSUME NEW a, NEW u \in Seq(Event), NEW o \in Seq(Event), NEW c \in Seq(Event), NEW j,
         Delivers(a, u, o, c, j), c # <<>>
  PROVE  Delivers(a, u, Append(o, Head(c)), Tail(c), j)
<1>1. \A i \in 1..Len(u) : u[i].of = a /\ ~Terminal(u[i]) /\ u[i].index = i - 1
  BY DEF Delivers
<1>2. u = <<>> => Append(o, Head(c)) # <<>> /\ Head(Append(o, Head(c))).kind # "Error"
  <2>1. ASSUME u = <<>> PROVE Append(o, Head(c)) # <<>> /\ Head(Append(o, Head(c))) = Head(o)
    <3>1. o # <<>> /\ Head(c) \in Event
      BY <2>1, HeadTailProperties DEF Delivers
    <3> DEFINE h == Head(c)
    <3>2. h \in Event
      BY <3>1
    <3> HIDE DEF h
    <3>3. Append(o, h) # <<>> /\ Head(Append(o, h)) = Head(o)
      BY <3>1, <3>2, EmptySeq, AppendProperties
    <3> QED BY <3>3 DEF h
  <2> QED BY <2>1 DEF Delivers
<1> QED BY <1>1, <1>2 DEF Delivers

\* What a job that still decodes has sent stays a beginning of what it will send.
LEMMA DeliverPush ==
  ASSUME NEW a, NEW u, NEW o, NEW c, Delivers(a, u, o, c, "decoding"), NEW d, NEW j
  PROVE  Delivers(a, u, o, d, j)
BY DEF Delivers

\* A job that is cancelled adds the event that says so, once.
LEMMA DeliverClose ==
  ASSUME NEW a \in Attempt, NEW u \in Seq(Event), NEW o \in Seq(Event), NEW j, NEW k, k # "decoding",
         Delivers(a, u, o, <<>>, j)
  PROVE  /\ Delivers(a, u, o, <<>>, k)
         /\ ~HasTerminal(o) => Delivers(a, u, Append(o, Stop(a, "Cancelled")), <<>>, k)
<1> DEFINE e == Stop(a, "Cancelled")
<1>1. Delivers(a, u, o, <<>>, k)
  BY DEF Delivers
<1>2. ASSUME ~HasTerminal(o) PROVE Delivers(a, u, Append(o, e), <<>>, k)
  <2>1. e \in Event /\ Terminal(e)
    BY StopIs
  <2>2. o = <<>> => Append(o, e) = <<e>>
    BY <2>1
  <2>3. o # <<e>>
    BY <1>2, <2>1 DEF HasTerminal
  <2>4. o # <<>> => Append(o, e) # <<>> /\ Head(Append(o, e)) = Head(o)
    <3> HIDE DEF e
    <3> QED BY <2>1, EmptySeq, AppendProperties
  <2>5. \A i \in 1..Len(u) :
          /\ u[i].of = a
          /\ Terminal(u[i]) => Len(u) = 1 /\ o = <<>>
          /\ ~Terminal(u[i]) => u[i].index = i - 1
    BY <2>3 DEF Delivers
  <2>6. u = <<>> => o # <<>> /\ Head(o).kind # "Error"
    BY DEF Delivers
  <2> HIDE DEF e
  <2> QED BY <1>2, <2>2, <2>4, <2>5, <2>6 DEF Delivers, e
<1> QED BY <1>1, <1>2

\* One event more, and it is not the last one the forwarder passes on.
LEMMA DeliverForward ==
  ASSUME NEW a, NEW u \in Seq(Event), NEW o \in Seq(Event), NEW c, NEW j,
         Delivers(a, u, o, c, j), Flows(a, u, o, c, j), o # <<>>, u = <<>> \/ ~Terminal(Head(o))
  PROVE  Delivers(a, Append(u, Head(o)), Tail(o), c, j)
<1> DEFINE v == Append(u, Head(o))
           p == Tail(o)
<1>1. /\ Len(u) \in Nat /\ Len(o) \in Nat /\ Len(o) > 0 /\ Head(o) = o[1] /\ Head(o) \in Event
      /\ 1 \in 1..Len(o)
  BY EmptySeq, HeadTailProperties
<1>2. /\ v # <<>> /\ Len(v) = Len(u) + 1 /\ v[Len(u) + 1] = o[1] /\ \A i \in 1..Len(u) : v[i] = u[i]
  <2> DEFINE h == Head(o)
  <2>1. h \in Event /\ h = o[1]
    BY <1>1
  <2> HIDE DEF h
  <2>2. Append(u, h) # <<>> /\ Len(Append(u, h)) = Len(u) + 1 /\ Append(u, h)[Len(u) + 1] = h
        /\ \A i \in 1..Len(u) : Append(u, h)[i] = u[i]
    BY <2>1, AppendProperties
  <2> QED BY <2>1, <2>2 DEF h
<1>3. Len(o) = 1 => p = <<>>
  <2>1. p \in Seq(Event) /\ Len(p) = Len(o) - 1
    BY HeadTailProperties
  <2> HIDE DEF p
  <2>2. Len(p) = 0 => p = <<>>
    BY <2>1, EmptySeq
  <2> QED BY <2>1, <2>2
<1>4. /\ o[1].of = a
      /\ Terminal(o[1]) => Len(o) = 1 /\ c = <<>> /\ j # "decoding"
      /\ ~Terminal(o[1]) => o[1].index = Len(u)
  <2>1. /\ o[1].of = a
        /\ Terminal(o[1]) => 1 = Len(o) /\ c = <<>> /\ j # "decoding"
        /\ ~Terminal(o[1]) => o[1].index = Len(u) + 1 - 1
    BY <1>1 DEF Flows
  <2> QED BY <1>1, <2>1
<1>5. \A i \in 1..Len(u) : u[i].of = a /\ ~Terminal(u[i]) /\ u[i].index = i - 1
  <2>1. \A i \in 1..Len(u) : u[i].of = a /\ (~Terminal(u[i]) => u[i].index = i - 1)
    BY DEF Delivers
  <2>2. ASSUME NEW i \in 1..Len(u), Terminal(u[i]) PROVE FALSE
    <3>1. o = <<Stop(a, "Cancelled")>> /\ Len(u) = 1
      <4>1. Len(u) = 1 /\ (o = <<>> \/ o = <<Stop(a, "Cancelled")>>)
        <5> HIDE DEF v, p
        <5> QED BY <2>2 DEF Delivers
      <4> QED BY <4>1
    <3>2. u # <<>>
      BY <3>1, EmptySeq
    <3>3. Terminal(Head(o))
      BY <3>1 DEF Terminal, Stop
    <3> QED BY <3>2, <3>3
  <2> QED BY <2>1, <2>2
<1>6. Terminal(o[1]) => Len(u) = 0
  BY <1>1
<1> HIDE DEF v, p
<1>7. ASSUME NEW i \in 1..Len(v)
      PROVE  /\ v[i].of = a
             /\ Terminal(v[i]) => Len(v) = 1 /\ c = <<>> /\ j # "decoding" /\ p = <<>>
             /\ ~Terminal(v[i]) => v[i].index = i - 1
  <2>1. CASE i \in 1..Len(u)
    BY <1>2, <1>5, <2>1
  <2>2. CASE i = Len(u) + 1
    BY <1>1, <1>2, <1>3, <1>4, <1>6, <2>2
  <2> QED BY <1>1, <1>2, <2>1, <2>2
<1> QED BY <1>2, <1>7 DEF Delivers, v, p

\* The event that closes a stream.
LEMMA DeliverLast ==
  ASSUME NEW a, NEW u \in Seq(Event), NEW o, NEW c, NEW j, Delivers(a, u, o, c, j),
         NEW e \in Event, Terminal(e), e.of = a, o = <<>> => e = Stop(a, "Cancelled"), o # <<>> => e = Head(o)
  PROVE  Complete(a, Append(u, e)) /\ HasTerminal(Append(u, e))
<1> DEFINE v == Append(u, e)
<1>1. Len(u) \in Nat /\ v \in Seq(Event)
      /\ Len(v) = Len(u) + 1 /\ v[Len(u) + 1] = e /\ \A i \in 1..Len(u) : v[i] = u[i]
  BY AppendProperties
<1> HIDE DEF v
<1>2. ASSUME NEW i \in 1..Len(u)
      PROVE  /\ u[i].of = a
             /\ Terminal(u[i]) => Len(u) = 1 /\ e = Stop(a, "Cancelled")
             /\ ~Terminal(u[i]) => u[i].index = i - 1
  <2>1. /\ u[i].of = a
        /\ Terminal(u[i]) => Len(u) = 1 /\ (o = <<>> \/ o = <<Stop(a, "Cancelled")>>)
        /\ ~Terminal(u[i]) => u[i].index = i - 1
    BY DEF Delivers
  <2>2. o = <<Stop(a, "Cancelled")>> => o # <<>> /\ Head(o) = Stop(a, "Cancelled")
    OBVIOUS
  <2> QED BY <2>1, <2>2
<1>3. ASSUME NEW i \in 1..Len(v)
      PROVE  /\ v[i].of = a
             /\ Terminal(v[i]) => i = Len(v) \/ (i = 1 /\ Len(v) = 2 /\ v[2] = Stop(a, "Cancelled"))
             /\ ~Terminal(v[i]) => v[i].index = i - 1
  <2>1. CASE i \in 1..Len(u)
    BY <1>1, <1>2, <2>1
  <2>2. CASE i = Len(u) + 1
    BY <1>1, <2>2
  <2> QED BY <1>1, <2>1, <2>2
<1>4. HasTerminal(v)
  <2>1. DOMAIN v = 1..Len(v) /\ Len(u) + 1 \in 1..Len(v)
    BY <1>1
  <2> QED BY <1>1, <2>1 DEF HasTerminal
<1> QED BY <1>3, <1>4 DEF Complete, v

\* What a requester has that goes away.
LEMMA DeliverSome ==
  ASSUME NEW a, NEW u \in Seq(Event), NEW o, NEW c, NEW j, Delivers(a, u, o, c, j)
  PROVE  Complete(a, u) /\ (HasTerminal(u) => Len(u) = 1)
<1>1. DOMAIN u = 1..Len(u) /\ Len(u) \in Nat
  OBVIOUS
<1>2. \A i \in 1..Len(u) :
        /\ u[i].of = a
        /\ Terminal(u[i]) => Len(u) = 1
        /\ ~Terminal(u[i]) => u[i].index = i - 1
  BY DEF Delivers
<1>3. \A i \in 1..Len(u) : Len(u) = 1 => i = Len(u)
  BY <1>1
<1>5. Complete(a, u)
  BY <1>2, <1>3 DEF Complete
<1>4. HasTerminal(u) => Len(u) = 1
  BY <1>1, <1>2 DEF HasTerminal
<1> QED BY <1>4, <1>5

-----------------------------------------------------------------------------
(* Types *)

NonceOf == {Nonce[q] : q \in Request}

Response == [id : Remote, ok : BOOLEAN]

RouterTyped ==
  /\ pc \in [Request -> Places]
  /\ at \in [Request -> Nat]
  /\ \A q \in Request : at[q] \in 1..Len(Ranked[q])
  /\ holder \in Request \cup {None}
  /\ user \in [Request -> Seq(Event)]

NetTyped ==
  /\ replies \in Seq(Response) /\ Len(replies) <= ResponseCap
  /\ outbound \subseteq Remote
  /\ pending \subseteq Remote

CacheTyped ==
  /\ nonces \in [Node -> Seq(NonceOf)]
  /\ \A n \in Node : Len(nonces[n]) <= NonceCap
  /\ accepted \in [Node -> Seq(NonceOf)]

JobTyped ==
  /\ job \in [Attempt -> JobStates]
  /\ made \in [Attempt -> Nat]
  /\ \A a \in Attempt : made[a] <= MaxTokens[a[1]]
  /\ cancelled \subseteq Attempt
  /\ chan \in [Attempt -> Seq(Event)]
  /\ \A a \in Attempt : Len(chan[a]) <= EventCap
  /\ listening \subseteq Attempt

OutTyped ==
  /\ out \in [Attempt -> Seq(Event)]
  /\ wanted \subseteq Attempt

Typed == RouterTyped /\ NetTyped /\ CacheTyped /\ JobTyped /\ OutTyped

\* An attempt is a request and the number of one of its candidates.
LEMMA Attempts ==
  /\ \A q \in Request : Ranked[q] \in Seq(Node) /\ Len(Ranked[q]) \in Nat \ {0} /\ DOMAIN Ranked[q] = 1..Len(Ranked[q])
  /\ \A q \in Request : \A i \in 1..Len(Ranked[q]) :
       /\ <<q, i>> \in Attempt /\ <<q, i>>[1] = q /\ <<q, i>>[2] = i
  /\ \A a \in Attempt : /\ a[1] \in Request /\ a[2] \in 1..Len(Ranked[a[1]]) /\ a = <<a[1], a[2]>>
                        /\ NodeOf(a) \in Node /\ Nonce[a[1]] \in NonceOf /\ MaxTokens[a[1]] \in Nat
  /\ Remote \subseteq Attempt
<1>1. ASSUME NEW q \in Request
      PROVE  Ranked[q] \in Seq(Node) /\ Len(Ranked[q]) \in Nat \ {0} /\ DOMAIN Ranked[q] = 1..Len(Ranked[q])
  <2>1. Ranked[q] \in Seq(Node) /\ Ranked[q] # <<>>
    BY DispatchAssumption
  <2> QED BY <2>1, EmptySeq
<1>2. ASSUME NEW q \in Request, NEW i \in 1..Len(Ranked[q])
      PROVE  <<q, i>> \in Attempt /\ <<q, i>>[1] = q /\ <<q, i>>[2] = i
  BY <1>1 DEF Attempt
<1>3. ASSUME NEW a \in Attempt
      PROVE  /\ a[1] \in Request /\ a[2] \in 1..Len(Ranked[a[1]]) /\ a = <<a[1], a[2]>>
             /\ NodeOf(a) \in Node /\ Nonce[a[1]] \in NonceOf /\ MaxTokens[a[1]] \in Nat
  <2>0. PICK q \in Request : \E i \in 1..Len(Ranked[q]) : a = <<q, i>>
    BY <1>1 DEF Attempt
  <2>1. PICK i \in 1..Len(Ranked[q]) : a = <<q, i>>
    BY <2>0
  <2>2. a[1] = q /\ a[2] = i
    BY <2>1
  <2>3. Ranked[q][i] \in Node
    BY <1>1
  <2>4. MaxTokens[q] \in Nat
    BY DispatchAssumption
  <2> QED BY <2>1, <2>2, <2>3, <2>4 DEF NodeOf, NonceOf
<1> QED BY <1>1, <1>2, <1>3 DEF Remote

\* The candidate a request is at is one of its candidates.
LEMMA CurIs ==
  ASSUME RouterTyped, NEW q \in Request
  PROVE  Cur(q) \in Attempt /\ Cur(q)[1] = q /\ Cur(q)[2] = at[q] /\ at[q] \in 1..Len(Ranked[q])
BY Attempts DEF RouterTyped, Cur

\* After a failed candidate comes the next one or the end (dispatch_with_failover).
LEMMA FailedIs ==
  ASSUME RouterTyped, NEW q \in Request, Failed(q)
  PROVE  /\ pc' \in [Request -> Places] /\ at' \in [Request -> Nat]
         /\ \A p \in Request : at'[p] \in 1..Len(Ranked[p])
         /\ \A p \in Request \ {q} : pc'[p] = pc[p] /\ at'[p] = at[p]
         /\ \/ pc'[q] = "failed" /\ at'[q] = at[q]
            \/ pc'[q] = "dispatch" /\ at'[q] = at[q] + 1
<1>1. at[q] \in 1..Len(Ranked[q]) /\ Len(Ranked[q]) \in Nat
  BY Attempts DEF RouterTyped
<1>2. CASE at[q] = Len(Ranked[q])
  <2>1. pc' = [pc EXCEPT ![q] = "failed"] /\ at' = at
    BY <1>2 DEF Failed
  <2> QED BY <2>1 DEF RouterTyped, Places
<1>3. CASE at[q] # Len(Ranked[q])
  <2>1. pc' = [pc EXCEPT ![q] = "dispatch"] /\ at' = [at EXCEPT ![q] = @ + 1]
    BY <1>3 DEF Failed
  <2>2. at[q] + 1 \in 1..Len(Ranked[q])
    BY <1>1, <1>3
  <2> QED BY <1>1, <2>1, <2>2 DEF RouterTyped, Places
<1> QED BY <1>2, <1>3

\* A node's replay cache stays within its capacity (NonceCache::insert).
LEMMA RememberingIs ==
  ASSUME NEW s \in Seq(NonceOf), Len(s) <= NonceCap, NEW x \in NonceOf
  PROVE  /\ Remembering(s, x) \in Seq(NonceOf)
         /\ Len(Remembering(s, x)) <= NonceCap
         /\ Len(Remembering(s, x)) = IF Len(s) >= NonceCap THEN NonceCap ELSE Len(s) + 1
         /\ Remembering(s, x)[Len(Remembering(s, x))] = x
         /\ Len(s) >= NonceCap => \A i \in 1..(NonceCap - 1) : Remembering(s, x)[i] = s[i + 1]
         /\ Len(s) < NonceCap => \A i \in 1..Len(s) : Remembering(s, x)[i] = s[i]
<1>1. NonceCap \in Nat \ {0} /\ Len(s) \in Nat
  BY DispatchAssumption
<1>2. CASE Len(s) >= NonceCap
  <2>1. s # <<>> /\ Len(s) = NonceCap
    BY <1>1, <1>2, EmptySeq
  <2> DEFINE r == Tail(s)
  <2>2. r \in Seq(NonceOf) /\ Len(r) = NonceCap - 1 /\ \A i \in 1..Len(r) : r[i] = s[i + 1]
    BY <2>1, HeadTailProperties
  <2>3. Remembering(s, x) = Append(r, x)
    BY <1>2 DEF Remembering
  <2> HIDE DEF r
  <2>4. /\ Append(r, x) \in Seq(NonceOf) /\ Len(Append(r, x)) = Len(r) + 1
        /\ \A i \in 1..Len(r) : Append(r, x)[i] = r[i]
        /\ Append(r, x)[Len(r) + 1] = x
    BY <2>2, AppendProperties
  <2> QED BY <1>1, <1>2, <2>2, <2>3, <2>4
<1>3. CASE Len(s) < NonceCap
  <2>1. Remembering(s, x) = Append(s, x)
    BY <1>1, <1>3 DEF Remembering
  <2>2. /\ Append(s, x) \in Seq(NonceOf) /\ Len(Append(s, x)) = Len(s) + 1
        /\ \A i \in 1..Len(s) : Append(s, x)[i] = s[i]
        /\ Append(s, x)[Len(s) + 1] = x
    BY AppendProperties
  <2> QED BY <1>1, <1>3, <2>1, <2>2
<1> QED BY <1>1, <1>2, <1>3

\* What starting a job changes: its state, the nonces of its node, and who listens.
LEMMA RunIs ==
  ASSUME Typed, NEW a \in Attempt, NEW state \in {"refused", "decoding"}, Run(a, state)
  PROVE  /\ CacheTyped'
         /\ job' = [job EXCEPT ![a] = state] /\ job' \in [Attempt -> JobStates]
         /\ listening' \subseteq Attempt
<1>1. job' = [job EXCEPT ![a] = state] /\ job' \in [Attempt -> JobStates]
  BY DEF Run, Typed, JobTyped, JobStates
<1>2. listening' \subseteq Attempt
  BY DEF Run, Typed, JobTyped
<1>3. CASE UNCHANGED cache
  BY <1>1, <1>2, <1>3 DEF Typed, CacheTyped, cache
<1>4. CASE /\ nonces' = [nonces EXCEPT ![NodeOf(a)] = Remembering(@, Nonce[a[1]])]
           /\ accepted' = [accepted EXCEPT ![NodeOf(a)] = Append(@, Nonce[a[1]])]
  <2> DEFINE n == NodeOf(a)
             x == Nonce[a[1]]
  <2>1. n \in Node /\ x \in NonceOf
    BY Attempts
  <2>2. /\ nonces' = [nonces EXCEPT ![n] = Remembering(nonces[n], x)]
        /\ accepted' = [accepted EXCEPT ![n] = Append(accepted[n], x)]
    BY <1>4
  <2> HIDE DEF n, x
  <2>3. nonces[n] \in Seq(NonceOf) /\ Len(nonces[n]) <= NonceCap /\ accepted[n] \in Seq(NonceOf)
    BY <2>1 DEF Typed, CacheTyped
  <2>4. Remembering(nonces[n], x) \in Seq(NonceOf) /\ Len(Remembering(nonces[n], x)) <= NonceCap
    BY <2>1, <2>3, RememberingIs
  <2>5. Append(accepted[n], x) \in Seq(NonceOf)
    BY <2>1, <2>3
  <2>6. CacheTyped'
    <3>1. nonces' \in [Node -> Seq(NonceOf)] /\ accepted' \in [Node -> Seq(NonceOf)]
      BY <2>2, <2>4, <2>5 DEF Typed, CacheTyped
    <3>2. ASSUME NEW m \in Node PROVE Len(nonces'[m]) <= NonceCap
      BY <2>2, <2>4 DEF Typed, CacheTyped
    <3> QED BY <3>1, <3>2 DEF CacheTyped
  <2> QED BY <1>1, <1>2, <2>6
<1> QED BY <1>1, <1>2, <1>3, <1>4 DEF Run

\* A response joins those the router has not read, or is lost at the channel's capacity.
LEMMA ReplyTyped ==
  ASSUME NetTyped, NEW r \in Response, Reply(r)
  PROVE  replies' \in Seq(Response) /\ Len(replies') <= ResponseCap
<1>1. Len(replies) \in Nat /\ ResponseCap \in Nat
  BY DispatchAssumption DEF NetTyped
<1>2. Append(replies, r) \in Seq(Response) /\ Len(Append(replies, r)) = Len(replies) + 1
  BY DEF NetTyped
<1> QED BY <1>1, <1>2 DEF Reply, NetTyped

\* A stream that is no longer read is emptied.
LEMMA DiscardTyped ==
  ASSUME OutTyped, NEW a \in Attempt, Discard(a)
  PROVE  OutTyped'
BY DEF Discard, OutTyped

\* A refused event leaves a channel as it is, an accepted one fits.
LEMMA AcceptIs ==
  ASSUME JobTyped, NEW a \in Attempt, NEW e \in Event, Accept(a, e)
  PROVE  /\ chan' \in [Attempt -> Seq(Event)] /\ \A b \in Attempt : Len(chan'[b]) <= EventCap
         /\ \A b \in Attempt \ {a} : chan'[b] = chan[b]
         /\ chan'[a] = IF Room(a) THEN Append(chan[a], e) ELSE chan[a]
<1>1. chan[a] \in Seq(Event) /\ Append(chan[a], e) \in Seq(Event) /\ Len(Append(chan[a], e)) = Len(chan[a]) + 1
  BY DEF JobTyped
<1>2. Len(chan[a]) \in Nat /\ EventCap \in Nat
  BY <1>1, DispatchAssumption
<1>3. CASE Room(a)
  <2>1. chan' = [chan EXCEPT ![a] = Append(chan[a], e)] /\ Len(Append(chan[a], e)) <= EventCap
    BY <1>1, <1>2, <1>3 DEF Accept, Room
  <2> QED BY <1>1, <1>3, <2>1 DEF JobTyped
<1>4. CASE ~Room(a)
  BY <1>4 DEF Accept, JobTyped
<1> QED BY <1>3, <1>4

\* The steps of a request's task.
LEMMA RouterTypeStep ==
  ASSUME Typed, NEW q \in Request, RouterStep(q) \/ Drop(q)
  PROVE  Typed'
<1>1. RouterTyped /\ NetTyped /\ CacheTyped /\ JobTyped /\ OutTyped
  BY DEF Typed
<1>2. Cur(q) \in Attempt /\ Remote \subseteq Attempt
  BY <1>1, CurIs, Attempts
<1>3. CASE SendRequest(q)
  BY <1>1, <1>2, <1>3
     DEF SendRequest, Typed, RouterTyped, NetTyped, CacheTyped, cache, JobTyped, decoder, OutTyped, Places, JobStates
<1>4. CASE RunLocal(q)
  <2>1. PICK state \in {"refused", "decoding"} : Run(Cur(q), state)
    BY <1>4 DEF RunLocal
  <2>2. CacheTyped' /\ job' \in [Attempt -> JobStates] /\ listening' \subseteq Attempt
    BY <1>2, <2>1, RunIs
  <2>3. RouterTyped'
    <3>1. CASE Failed(q)
      BY <1>1, <1>4, <3>1, FailedIs DEF RunLocal, RouterTyped
    <3>2. CASE pc' = [pc EXCEPT ![q] = "peek"] /\ UNCHANGED at
      BY <1>1, <1>4, <3>2 DEF RunLocal, RouterTyped, Places
    <3> QED BY <1>4, <3>1, <3>2 DEF RunLocal
  <2>4. OutTyped'
    BY <1>1, <1>2, <1>4 DEF RunLocal, OutTyped
  <2>5. NetTyped' /\ JobTyped'
    BY <1>1, <1>4, <2>2 DEF RunLocal, NetTyped, net, JobTyped, decoder
  <2> QED BY <2>2, <2>3, <2>4, <2>5 DEF Typed
<1>5. CASE Lock(q)
  BY <1>1, <1>5
     DEF Lock, Typed, RouterTyped, NetTyped, net, CacheTyped, cache, JobTyped, decoder, OutTyped, Places
<1>6. CASE Receive(q)
  <2>1. replies \in Seq(Response) /\ replies # <<>> /\ replies' = Tail(replies)
    BY <1>1, <1>6 DEF Receive, NetTyped
  <2>2. Tail(replies) \in Seq(Response) /\ Len(Tail(replies)) = Len(replies) - 1 /\ Head(replies) \in Response
    BY <2>1, HeadTailProperties
  <2>3. Len(replies) \in Nat /\ Len(replies) <= ResponseCap /\ ResponseCap \in Nat
    BY <1>1, <2>1, DispatchAssumption DEF NetTyped
  <2>4. NetTyped'
    BY <1>1, <1>6, <2>1, <2>2, <2>3 DEF Receive, NetTyped
  <2>5. CacheTyped' /\ JobTyped'
    BY <1>1, <1>6 DEF Receive, CacheTyped, cache, JobTyped, decoder
  <2>6. RouterTyped' /\ OutTyped'
    <3>1. CASE UNCHANGED <<pc, at, holder, out, wanted>>
      BY <1>1, <1>6, <3>1 DEF Receive, RouterTyped, OutTyped
    <3>2. CASE Failed(q) /\ holder' = None /\ UNCHANGED <<out, wanted>>
      BY <1>1, <1>6, <3>2, FailedIs DEF Receive, RouterTyped, OutTyped
    <3>3. CASE /\ IsAnswer(Head(replies), Cur(q)) /\ holder' = HolderAfter(q, Head(replies).id)
               /\ out' = [out EXCEPT ![Cur(q)] = out[Head(replies).id]]
               /\ wanted' = wanted \cup {Cur(q)}
               /\ pc' = [pc EXCEPT ![q] = IF Overlong(Head(replies).id) THEN "stuck" ELSE "peek"]
               /\ UNCHANGED at
      <4>1. Head(replies).id \in Attempt
        BY <1>2, <2>2 DEF Response
      <4>2. RouterTyped'
        BY <1>1, <1>6, <3>3 DEF Receive, RouterTyped, HolderAfter, Places
      <4>3. OutTyped'
        BY <1>1, <1>2, <3>3, <4>1 DEF OutTyped
      <4> QED BY <4>2, <4>3
    <3> QED BY <1>6, <3>1, <3>2, <3>3 DEF Receive
  <2> QED BY <2>4, <2>5, <2>6 DEF Typed
<1>7. CASE ReceiveTimeout(q)
  BY <1>1, <1>7, FailedIs
     DEF ReceiveTimeout, Typed, RouterTyped, NetTyped, net, CacheTyped, cache, JobTyped, decoder, OutTyped
<1>8. CASE Peek(q)
  <2>1. RouterTyped'
    <3>1. CASE Failed(q)
      BY <1>1, <1>8, <3>1, FailedIs DEF Peek, RouterTyped
    <3>2. CASE pc' = [pc EXCEPT ![q] = "forward"] /\ UNCHANGED at
      BY <1>1, <1>8, <3>2 DEF Peek, RouterTyped, Places
    <3> QED BY <1>8, <3>1, <3>2 DEF Peek
  <2>2. OutTyped'
    <3>1. CASE Discard(Cur(q))
      BY <1>1, <1>2, <3>1, DiscardTyped
    <3>2. CASE UNCHANGED <<wanted, out>>
      BY <1>1, <3>2 DEF OutTyped
    <3> QED BY <1>8, <3>1, <3>2 DEF Peek
  <2>3. NetTyped' /\ CacheTyped' /\ JobTyped'
    BY <1>1, <1>8 DEF Peek, NetTyped, net, CacheTyped, cache, JobTyped, decoder
  <2> QED BY <2>1, <2>2, <2>3 DEF Typed
<1>9. CASE FirstTokenTimeout(q)
  <2>1. RouterTyped' /\ OutTyped'
    BY <1>1, <1>2, <1>9, FailedIs, DiscardTyped DEF FirstTokenTimeout, RouterTyped
  <2>2. NetTyped' /\ CacheTyped' /\ JobTyped'
    BY <1>1, <1>9 DEF FirstTokenTimeout, NetTyped, net, CacheTyped, cache, JobTyped, decoder
  <2> QED BY <2>1, <2>2 DEF Typed
<1>10. CASE Forward(q)
  <2> DEFINE a == Cur(q)
             next == IF Exhausted(a) THEN Stop(a, "Cancelled") ELSE Head(out[a])
  <2>1. out[a] \in Seq(Event)
    BY <1>1, <1>2 DEF OutTyped
  <2>2. next \in Event
    <3>1. Exhausted(a) => next \in Event
      BY <1>2, StopIs
    <3>2. ~Exhausted(a) => next \in Event
      BY <1>10, <2>1, HeadTailProperties DEF Forward
    <3> QED BY <3>1, <3>2
  <2>3. user' = [user EXCEPT ![q] = Append(@, next)] /\ (pc' = [pc EXCEPT ![q] = "ended"] \/ pc' = pc)
        /\ UNCHANGED <<at, holder>>
    BY <1>10 DEF Forward
  <2>4. Discard(a) \/ (out' = [out EXCEPT ![a] = Tail(@)] /\ out[a] # <<>> /\ UNCHANGED wanted)
    BY <1>10 DEF Forward
  <2>5. NetTyped' /\ CacheTyped' /\ JobTyped'
    BY <1>1, <1>10 DEF Forward, NetTyped, net, CacheTyped, cache, JobTyped, decoder
  <2> HIDE DEF next
  <2>6. RouterTyped'
    <3>1. user[q] \in Seq(Event)
      BY <1>1 DEF RouterTyped
    <3>2. Append(user[q], next) \in Seq(Event)
      BY <2>2, <3>1
    <3> QED BY <1>1, <2>3, <3>2 DEF RouterTyped, Places
  <2>7. OutTyped'
    <3>1. CASE Discard(a)
      BY <1>1, <1>2, <3>1, DiscardTyped
    <3>2. CASE out' = [out EXCEPT ![a] = Tail(@)] /\ out[a] # <<>> /\ UNCHANGED wanted
      <4>1. Tail(out[a]) \in Seq(Event)
        BY <2>1, <3>2, HeadTailProperties
      <4> QED BY <1>1, <3>2, <4>1 DEF OutTyped
    <3> QED BY <2>4, <3>1, <3>2
  <2> QED BY <2>5, <2>6, <2>7 DEF Typed
<1>11. CASE Drop(q)
  <2>1. RouterTyped' /\ OutTyped'
    BY <1>1, <1>2, <1>11, DiscardTyped DEF Drop, RouterTyped, Places
  <2>2. NetTyped' /\ CacheTyped' /\ JobTyped'
    BY <1>1, <1>11 DEF Drop, NetTyped, net, CacheTyped, cache, JobTyped, decoder
  <2> QED BY <2>1, <2>2 DEF Typed
<1> QED BY <1>3, <1>4, <1>5, <1>6, <1>7, <1>8, <1>9, <1>10, <1>11 DEF RouterStep

\* The steps of the network, of a node and of its decoder.
LEMMA JobTypeStep ==
  ASSUME Typed, NEW a \in Attempt,
         \/ a \in Remote /\ (RequestArrives(a) \/ NetworkEnds(a))
         \/ JobStep(a) \/ Bridge(a) \/ Close(a)
  PROVE  Typed'
<1>1. RouterTyped /\ NetTyped /\ CacheTyped /\ JobTyped /\ OutTyped
  BY DEF Typed
<1>2. CASE a \in Remote /\ RequestArrives(a)
  <2>1. JobTyped'
    BY <1>1, <1>2 DEF RequestArrives, JobTyped, decoder, JobStates
  <2>2. RouterTyped' /\ NetTyped' /\ CacheTyped' /\ OutTyped'
    BY <1>1, <1>2
       DEF RequestArrives, RouterTyped, router, NetTyped, net, CacheTyped, cache, OutTyped
  <2> QED BY <2>1, <2>2 DEF Typed
<1>3. CASE a \in Remote /\ NetworkEnds(a)
  <2>1. PICK ok \in BOOLEAN : Reply([id |-> a, ok |-> ok])
    BY <1>3 DEF NetworkEnds, OutboundFailure, ResponseArrives
  <2>2. [id |-> a, ok |-> ok] \in Response
    BY <1>3 DEF Response
  <2>3. NetTyped'
    BY <1>1, <1>3, <2>1, <2>2, ReplyTyped DEF NetworkEnds, OutboundFailure, ResponseArrives, NetTyped
  <2>4. RouterTyped' /\ CacheTyped' /\ JobTyped' /\ OutTyped'
    BY <1>1, <1>3
       DEF NetworkEnds, OutboundFailure, ResponseArrives, RouterTyped, router, CacheTyped, cache, JobTyped, decoder,
           OutTyped
  <2> QED BY <2>3, <2>4 DEF Typed
<1>4. CASE Start(a)
  <2>1. PICK state \in {"refused", "decoding"} : Run(a, state)
    BY <1>4 DEF Start
  <2>2. CacheTyped' /\ job' \in [Attempt -> JobStates] /\ listening' \subseteq Attempt
    BY <2>1, RunIs
  <2>3. RouterTyped' /\ NetTyped' /\ JobTyped' /\ OutTyped'
    BY <1>1, <1>4, <2>2 DEF Start, RouterTyped, router, NetTyped, net, JobTyped, decoder, OutTyped
  <2> QED BY <2>2, <2>3 DEF Typed
<1>5. CASE Sample(a)
  <2>1. made[a] \in Nat /\ MaxTokens[a[1]] \in Nat /\ made[a] < MaxTokens[a[1]]
    BY <1>1, <1>5, Attempts DEF Sample, JobTyped
  <2>2. Token(a, made[a]) \in Event
    BY <2>1 DEF Token, Event
  <2>3. chan' \in [Attempt -> Seq(Event)] /\ \A b \in Attempt : Len(chan'[b]) <= EventCap
    BY <1>1, <1>5, <2>2, AcceptIs DEF Sample
  <2>4. made' \in [Attempt -> Nat] /\ \A b \in Attempt : made'[b] <= MaxTokens[b[1]]
    BY <1>1, <1>5, <2>1 DEF Sample, JobTyped
  <2>5. JobTyped'
    BY <1>1, <1>5, <2>3, <2>4 DEF Sample, JobTyped
  <2>6. RouterTyped' /\ NetTyped' /\ CacheTyped' /\ OutTyped'
    BY <1>1, <1>5 DEF Sample, RouterTyped, router, NetTyped, net, CacheTyped, cache, OutTyped
  <2> QED BY <2>5, <2>6 DEF Typed
<1>6. CASE Finish(a) \/ DecodeFails(a)
  <2>1. PICK e \in Event : Accept(a, e)
    <3>1. Error(a) \in Event
      BY DEF Error, Event
    <3>2. Stop(a, "Cancelled") \in Event /\ Stop(a, "Done") \in Event
      BY StopIs
    <3> QED BY <1>6, <3>1, <3>2 DEF Finish, DecodeFails
  <2>2. chan' \in [Attempt -> Seq(Event)] /\ \A b \in Attempt : Len(chan'[b]) <= EventCap
    BY <1>1, <2>1, AcceptIs
  <2>3. JobTyped'
    BY <1>1, <1>6, <2>2 DEF Finish, DecodeFails, JobTyped, decoder, JobStates
  <2>4. RouterTyped' /\ NetTyped' /\ CacheTyped' /\ OutTyped'
    BY <1>1, <1>6 DEF Finish, DecodeFails, RouterTyped, router, NetTyped, net, CacheTyped, cache, OutTyped
  <2> QED BY <2>3, <2>4 DEF Typed
<1>7. CASE Bridge(a)
  <2>1. /\ chan[a] \in Seq(Event) /\ chan[a] # <<>> /\ Len(chan[a]) <= EventCap
        /\ out[a] \in Seq(Event)
    BY <1>1, <1>7 DEF Bridge, JobTyped, OutTyped
  <2>2. Head(chan[a]) \in Event /\ Tail(chan[a]) \in Seq(Event) /\ Len(Tail(chan[a])) = Len(chan[a]) - 1
    BY <2>1, HeadTailProperties
  <2>3. Len(chan[a]) \in Nat /\ EventCap \in Nat
    BY <2>1, DispatchAssumption
  <2>4. \/ out' = out /\ chan' = [chan EXCEPT ![a] = <<>>] /\ listening' = listening \ {a}
        \/ out' = [out EXCEPT ![a] = Append(@, Head(chan[a]))] /\ chan' = [chan EXCEPT ![a] = Tail(@)] /\ UNCHANGED listening
    BY <1>7 DEF Bridge
  <2>5. OutTyped'
    <3>1. Append(out[a], Head(chan[a])) \in Seq(Event)
      BY <2>1, <2>2
    <3> QED BY <1>1, <1>7, <2>4, <3>1 DEF Bridge, OutTyped
  <2>6. chan' \in [Attempt -> Seq(Event)] /\ (\A b \in Attempt : Len(chan'[b]) <= EventCap) /\ listening' \subseteq Attempt
    <3>1. <<>> \in Seq(Event) /\ Len(<<>>) = 0
      BY EmptySeq
    <3>2. CASE chan' = [chan EXCEPT ![a] = <<>>] /\ listening' = listening \ {a}
      <4>1. \A b \in Attempt : chan'[b] = IF b = a THEN <<>> ELSE chan[b]
        BY <1>1, <3>2 DEF JobTyped
      <4> QED BY <1>1, <2>3, <3>1, <3>2, <4>1 DEF JobTyped
    <3>3. CASE chan' = [chan EXCEPT ![a] = Tail(@)] /\ UNCHANGED listening
      <4>1. \A b \in Attempt : chan'[b] = IF b = a THEN Tail(chan[a]) ELSE chan[b]
        BY <1>1, <3>3 DEF JobTyped
      <4>2. Len(Tail(chan[a])) <= EventCap
        BY <2>1, <2>2, <2>3
      <4> QED BY <1>1, <2>2, <3>3, <4>1, <4>2 DEF JobTyped
    <3> QED BY <2>4, <3>2, <3>3
  <2>7. JobTyped'
    BY <1>1, <1>7, <2>6 DEF Bridge, JobTyped, decoder
  <2>8. RouterTyped' /\ NetTyped' /\ CacheTyped'
    BY <1>1, <1>7 DEF Bridge, RouterTyped, router, NetTyped, net, CacheTyped, cache
  <2> QED BY <2>5, <2>7, <2>8 DEF Typed
<1>8. CASE Close(a)
  <2>1. Stop(a, "Cancelled") \in Event
    BY StopIs
  <2>2. OutTyped'
    <3>1. out[a] \in Seq(Event) /\ Append(out[a], Stop(a, "Cancelled")) \in Seq(Event)
      BY <1>1, <2>1 DEF OutTyped
    <3>2. \E s \in Seq(Event) : out' = [out EXCEPT ![a] = s]
      <4>1. out = [out EXCEPT ![a] = out[a]]
        BY <1>1 DEF OutTyped
      <4> QED BY <1>8, <3>1, <4>1 DEF Close
    <3> QED BY <1>1, <1>8, <3>2 DEF Close, OutTyped
  <2>3. JobTyped' /\ pending' \subseteq Remote
    BY <1>1, <1>8 DEF Close, PendingAfter, JobTyped, decoder, JobStates, NetTyped
  <2>4. RouterTyped' /\ NetTyped' /\ CacheTyped'
    BY <1>1, <1>8, <2>3 DEF Close, RouterTyped, router, NetTyped, net, CacheTyped, cache
  <2> QED BY <2>2, <2>3, <2>4 DEF Typed
<1> QED BY <1>2, <1>3, <1>4, <1>5, <1>6, <1>7, <1>8 DEF JobStep

\* Every step keeps the variables in their types.
LEMMA TypeStep ==
  ASSUME Typed, [Next]_vars
  PROVE  Typed'
<1>1. CASE UNCHANGED vars
  BY <1>1
     DEF vars, router, net, cache, decoder, Typed, RouterTyped, NetTyped, CacheTyped, JobTyped, OutTyped
<1>2. Remote \subseteq Attempt
  BY Attempts
<1> QED BY <1>1, <1>2, RouterTypeStep, JobTypeStep DEF Next

\* The router starts with nothing dispatched.
LEMMA TypeInit ==
  ASSUME Init
  PROVE  Typed
<1>1. \A q \in Request : 1 \in 1..Len(Ranked[q])
  BY Attempts
<1>2. <<>> \in Seq(Response) /\ <<>> \in Seq(NonceOf) /\ <<>> \in Seq(Event) /\ Len(<<>>) = 0
  BY EmptySeq
<1>3. ResponseCap \in Nat /\ NonceCap \in Nat /\ EventCap \in Nat
  BY DispatchAssumption
<1>4. \A a \in Attempt : MaxTokens[a[1]] \in Nat
  BY Attempts
<1>5. RouterTyped /\ NetTyped /\ CacheTyped
  BY <1>1, <1>2, <1>3 DEF Init, InitAfter, RouterTyped, NetTyped, CacheTyped, Places
<1>6. JobTyped /\ OutTyped
  BY <1>2, <1>3, <1>4 DEF Init, InitAfter, JobTyped, OutTyped, JobStates
<1> QED BY <1>5, <1>6 DEF Typed

\* Every variable keeps its type, and no channel or cache holds more than it
\* has room for, whoever fills it.
THEOREM TypeCorrect == Spec => []TypeOK
<1>1. Typed => TypeOK
  <2>1. ASSUME Typed PROVE TypeOK
    <3>1. \A q \in Request : Cur(q) \in Attempt
      BY <2>1, CurIs DEF Typed
    <3>2. \A a \in Attempt : made[a] \in 0..MaxTokens[a[1]]
      <4>1. \A a \in Attempt : made[a] \in Nat /\ MaxTokens[a[1]] \in Nat /\ made[a] <= MaxTokens[a[1]]
        BY <2>1, Attempts DEF Typed, JobTyped
      <4> QED BY <4>1
    <3> QED BY <2>1, <3>1, <3>2
            DEF Typed, RouterTyped, NetTyped, CacheTyped, JobTyped, OutTyped, Response, TypeOK
  <2> QED BY <2>1
<1> QED BY <1>1, TypeInit, TypeStep, PTL DEF Spec

-----------------------------------------------------------------------------
(* The replay cache *)

\* A cache holds the last nonces its node has accepted, oldest first, as many
\* as it has room for.
Recent(s, x) ==
  /\ Len(s) = IF Len(x) < NonceCap THEN Len(x) ELSE NonceCap
  /\ \A i \in 1..Len(s) : s[i] = x[Len(x) - Len(s) + i]

Apart(x) == \A i, j \in DOMAIN x : i < j /\ x[i] = x[j] => j - i > NonceCap

ReplayInv == \A n \in Node : Recent(nonces[n], accepted[n]) /\ Apart(accepted[n])

\* A nonce the cache does not hold is accepted (NonceCache::insert).
LEMMA AcceptNonce ==
  ASSUME NEW s \in Seq(NonceOf), NEW x \in Seq(NonceOf), NEW c \in NonceOf,
         Recent(s, x), Apart(x), c \notin ToSet(s)
  PROVE  Recent(Remembering(s, c), Append(x, c)) /\ Apart(Append(x, c))
<1> DEFINE r == Remembering(s, c)
           y == Append(x, c)
<1>1. NonceCap \in Nat \ {0} /\ Len(s) \in Nat /\ Len(x) \in Nat /\ Len(s) <= NonceCap /\ Len(s) <= Len(x)
  BY DispatchAssumption DEF Recent
<1>2. /\ Len(r) = IF Len(s) >= NonceCap THEN NonceCap ELSE Len(s) + 1
      /\ r[Len(r)] = c
      /\ Len(s) >= NonceCap => \A i \in 1..(NonceCap - 1) : r[i] = s[i + 1]
      /\ Len(s) < NonceCap => \A i \in 1..Len(s) : r[i] = s[i]
  BY <1>1, RememberingIs
<1>3. /\ Len(y) = Len(x) + 1 /\ DOMAIN y = 1..(Len(x) + 1) /\ y[Len(x) + 1] = c
      /\ \A i \in 1..Len(x) : y[i] = x[i]
  BY AppendProperties
<1>4. \A i \in 1..Len(s) : s[i] = x[Len(x) - Len(s) + i] /\ Len(x) - Len(s) + i \in 1..Len(x)
  <2> HIDE DEF r, y
  <2>1. \A i \in 1..Len(s) : s[i] = x[Len(x) - Len(s) + i]
    BY DEF Recent
  <2>2. \A i \in 1..Len(s) : Len(x) - Len(s) + i \in 1..Len(x)
    BY <1>1
  <2> QED BY <2>1, <2>2
<1> HIDE DEF r, y
<1>5. Recent(r, y)
  <2>1. CASE Len(s) >= NonceCap
    <3>1. Len(s) = NonceCap /\ Len(r) = NonceCap /\ Len(x) >= NonceCap
      BY <1>1, <1>2, <2>1
    <3>2. Len(r) = IF Len(y) < NonceCap THEN Len(y) ELSE NonceCap
      BY <1>1, <1>3, <3>1
    <3>3. ASSUME NEW i \in 1..Len(r) PROVE r[i] = y[Len(y) - Len(r) + i]
      <4>1. CASE i = NonceCap
        BY <1>1, <1>2, <1>3, <3>1, <4>1
      <4>2. CASE i \in 1..(NonceCap - 1)
        <5>1. r[i] = s[i + 1] /\ i + 1 \in 1..Len(s)
          BY <1>1, <1>2, <2>1, <3>1, <4>2
        <5>2. s[i + 1] = x[Len(x) - Len(s) + (i + 1)] /\ Len(x) - Len(s) + (i + 1) \in 1..Len(x)
          BY <1>4, <5>1
        <5>3. y[Len(x) - Len(s) + (i + 1)] = x[Len(x) - Len(s) + (i + 1)]
          BY <1>3, <5>2
        <5>4. Len(y) - Len(r) + i = Len(x) - Len(s) + (i + 1)
          BY <1>1, <1>3, <3>1
        <5> QED BY <5>1, <5>2, <5>3, <5>4
      <4> QED BY <1>1, <3>1, <4>1, <4>2
    <3> QED BY <3>2, <3>3 DEF Recent
  <2>2. CASE Len(s) < NonceCap
    <3>1. Len(r) = Len(s) + 1 /\ Len(s) = Len(x)
      BY <1>1, <1>2, <2>2 DEF Recent
    <3>2. Len(r) = IF Len(y) < NonceCap THEN Len(y) ELSE NonceCap
      BY <1>1, <1>3, <2>2, <3>1
    <3>3. ASSUME NEW i \in 1..Len(r) PROVE r[i] = y[Len(y) - Len(r) + i]
      <4>1. Len(y) - Len(r) + i = i
        BY <1>1, <1>3, <3>1
      <4>2. CASE i = Len(s) + 1
        BY <1>2, <1>3, <3>1, <4>1, <4>2
      <4>3. CASE i \in 1..Len(s)
        <5>1. r[i] = s[i] /\ s[i] = x[Len(x) - Len(s) + i] /\ Len(x) - Len(s) + i = i
          BY <1>1, <1>2, <1>4, <2>2, <3>1, <4>3
        <5> QED BY <1>3, <3>1, <4>1, <4>3, <5>1
      <4> QED BY <1>1, <3>1, <4>2, <4>3
    <3> QED BY <3>2, <3>3 DEF Recent
  <2> QED BY <1>1, <2>1, <2>2
<1>6. Apart(y)
  <2> SUFFICES ASSUME NEW i \in 1..(Len(x) + 1), NEW j \in 1..(Len(x) + 1), i < j, y[i] = y[j]
               PROVE  j - i > NonceCap
    BY <1>3 DEF Apart
  <2>1. i \in 1..Len(x) /\ y[i] = x[i]
    BY <1>1, <1>3
  <2>2. CASE j \in 1..Len(x)
    <3>1. y[i] = x[i] /\ y[j] = x[j]
      BY <1>3, <2>1, <2>2
    <3>2. DOMAIN x = 1..Len(x)
      OBVIOUS
    <3>3. x[i] = x[j]
      BY <3>1
    <3> QED BY <2>1, <2>2, <3>2, <3>3 DEF Apart
  <2>3. CASE j = Len(x) + 1
    <3>1. x[i] = c
      BY <1>3, <2>1, <2>3
    <3>2. ~(i > Len(x) - Len(s))
      <4> SUFFICES ASSUME i > Len(x) - Len(s) PROVE FALSE
        OBVIOUS
      <4> DEFINE k == i - (Len(x) - Len(s))
      <4>1. k \in 1..Len(s) /\ Len(x) - Len(s) + k = i
        BY <1>1, <2>1
      <4> HIDE DEF k
      <4>2. s[k] = c
        BY <1>4, <3>1, <4>1
      <4>3. DOMAIN s = 1..Len(s)
        OBVIOUS
      <4> QED BY <4>1, <4>2, <4>3 DEF ToSet
    <3>3. Len(s) = NonceCap
      BY <1>1, <2>1, <3>2 DEF Recent
    <3> QED BY <1>1, <2>1, <2>3, <3>2, <3>3
  <2> QED BY <1>1, <2>2, <2>3
<1> QED BY <1>5, <1>6 DEF r, y

\* A job that starts spends a nonce its node does not hold, and the oldest one makes
\* room for it.
LEMMA ReplayRun ==
  ASSUME Typed, ReplayInv, NEW a \in Attempt, NEW state, Run(a, state)
  PROVE  ReplayInv'
<1>1. CASE UNCHANGED cache
  BY <1>1 DEF ReplayInv, cache
<1>2. CASE ~UNCHANGED cache
  <2> DEFINE n == NodeOf(a)
             x == Nonce[a[1]]
  <2>1. /\ n \in Node /\ x \in NonceOf /\ x \notin ToSet(nonces[n])
        /\ nonces' = [nonces EXCEPT ![n] = Remembering(nonces[n], x)]
        /\ accepted' = [accepted EXCEPT ![n] = Append(accepted[n], x)]
    BY <1>2, Attempts DEF Run, Seen
  <2> HIDE DEF n, x
  <2>2. nonces[n] \in Seq(NonceOf) /\ accepted[n] \in Seq(NonceOf)
    BY <2>1 DEF Typed, CacheTyped
  <2>3. Recent(Remembering(nonces[n], x), Append(accepted[n], x)) /\ Apart(Append(accepted[n], x))
    BY <2>1, <2>2, AcceptNonce DEF ReplayInv
  <2>4. \A m \in Node : /\ nonces'[m] = IF m = n THEN Remembering(nonces[n], x) ELSE nonces[m]
                        /\ accepted'[m] = IF m = n THEN Append(accepted[n], x) ELSE accepted[m]
    BY <2>1 DEF Typed, CacheTyped
  <2>5. ASSUME NEW m \in Node PROVE Recent(nonces'[m], accepted'[m]) /\ Apart(accepted'[m])
    BY <2>3, <2>4 DEF ReplayInv
  <2> QED BY <2>5 DEF ReplayInv
<1> QED BY <1>1, <1>2

\* A node accepts a nonce again only after at least NonceCap others, of that
\* address or of any other, whoever sends it and however often it is retried,
\* for a cache of any capacity.
THEOREM NoEarlyReplay == Spec => []ReplayWindow
<1>1. Init => Typed /\ ReplayInv
  <2>1. ASSUME Init PROVE ReplayInv
    <3>1. NonceCap \in Nat \ {0} /\ Len(<<>>) = 0 /\ DOMAIN <<>> = {}
      BY DispatchAssumption, EmptySeq
    <3>2. Recent(<<>>, <<>>) /\ Apart(<<>>)
      BY <3>1 DEF Recent, Apart
    <3> QED BY <2>1, <3>2 DEF Init, InitAfter, ReplayInv
  <2> QED BY <2>1, TypeInit
<1>2. Typed /\ ReplayInv /\ [Next]_vars => (Typed /\ ReplayInv)'
  <2> SUFFICES ASSUME Typed, ReplayInv, [Next]_vars PROVE ReplayInv'
    BY TypeStep
  <2>1. CASE UNCHANGED cache
    BY <2>1 DEF ReplayInv, cache
  <2>2. ASSUME NEW q \in Request, RouterStep(q) \/ Drop(q), ~UNCHANGED cache PROVE ReplayInv'
    <3>1. RunLocal(q)
      BY <2>2 DEF RouterStep, SendRequest, Lock, Receive, ReceiveTimeout, Peek, FirstTokenTimeout, Forward, Drop, cache
    <3>2. Cur(q) \in Attempt
      BY CurIs DEF Typed
    <3>3. Run(Cur(q), "refused") \/ Run(Cur(q), "decoding")
      BY <3>1 DEF RunLocal
    <3> QED BY <3>2, <3>3, ReplayRun
  <2>3. ASSUME NEW a \in Attempt, JobStep(a) \/ Bridge(a) \/ Close(a) \/ RequestArrives(a) \/ NetworkEnds(a),
               ~UNCHANGED cache
        PROVE  ReplayInv'
    <3>1. Start(a)
      BY <2>3 DEF JobStep, Sample, Finish, DecodeFails, Bridge, Close, RequestArrives, NetworkEnds, OutboundFailure,
                  ResponseArrives, cache
    <3>2. \E state \in {"refused", "decoding"} : Run(a, state)
      BY <3>1 DEF Start
    <3> QED BY <3>2, ReplayRun
  <2>4. CASE UNCHANGED vars
    BY <2>1, <2>4 DEF vars
  <2>5. Remote \subseteq Attempt
    BY Attempts
  <2> QED BY <2>1, <2>2, <2>3, <2>4, <2>5 DEF Next
<1>3. Typed /\ ReplayInv => ReplayWindow
  BY DEF ReplayInv, Apart, ReplayWindow
<1> QED BY <1>1, <1>2, <1>3, PTL DEF Spec

-----------------------------------------------------------------------------
(* The streams *)

\* A job that has not begun has produced nothing.
Unstarted == {"none", "posted", "lost", "queued", "refused"}

JobInv(a) ==
  /\ job[a] \in Unstarted => made[a] = 0 /\ a \notin cancelled /\ chan[a] = <<>> /\ out[a] = <<>>
  /\ job[a] \in {"answered", "closed"} => chan[a] = <<>>

\* The candidates still to be tried have not been asked.
Ahead(q) ==
  \A i \in 1..Len(Ranked[q]) : i > at[q] \/ (i = at[q] /\ pc[q] = "dispatch") => job[<<q, i>>] = "none"

\* Where the job stands whose stream the router reads.
Placed(q) ==
  /\ pc[q] \in {"lock", "receive"} => Cur(q) \in Remote
  /\ pc[q] \in {"peek", "forward"} =>
       IF Cur(q) \in Remote THEN job[Cur(q)] = "answered"
       ELSE Cur(q) \in wanted /\ job[Cur(q)] \in {"decoding", "stopped", "closed"}

\* The stream of attempt a, of which the requester has u.
Streams(a, u) ==
  /\ Flows(a, u, out[a], chan[a], job[a])
  /\ job[a] = "decoding" /\ a \notin cancelled => made[a] = Len(u) + Len(out[a]) + Len(chan[a])

\* What the requester has at each place.
Held(q) ==
  /\ pc[q] \notin {"forward", "ended", "dropped"} => user[q] = <<>>
  /\ pc[q] \in {"lock", "receive", "peek", "forward"} => Streams(Cur(q), user[q])
  /\ pc[q] = "forward" => Delivers(Cur(q), user[q], out[Cur(q)], chan[Cur(q)], job[Cur(q)])
  /\ pc[q] \in {"ended", "dropped"} => Complete(Cur(q), user[q])
  /\ pc[q] = "ended" => HasTerminal(user[q])
  /\ pc[q] = "dropped" /\ HasTerminal(user[q]) => Len(user[q]) = 1

RequestInv(q) == Ahead(q) /\ Placed(q) /\ Held(q)

\* A response that carries a stream carries all of it.
AnswerInv == \A i \in 1..Len(replies) : replies[i].ok => job[replies[i].id] = "answered"

StreamInv ==
  /\ AnswerInv
  /\ \A a \in Attempt : JobInv(a)
  /\ \A q \in Request : RequestInv(q)

\* Attempt a is left as it is.
Same(a) ==
  /\ job'[a] = job[a] /\ made'[a] = made[a] /\ (a \in cancelled' <=> a \in cancelled)
  /\ chan'[a] = chan[a] /\ out'[a] = out[a] /\ (a \in wanted' <=> a \in wanted)

\* The steps of an attempt's job and of the network on its behalf.
AttemptStep(a) ==
  \/ a \in Remote /\ (RequestArrives(a) \/ NetworkEnds(a))
  \/ JobStep(a) \/ Bridge(a) \/ Close(a)

\* A step of a request's task touches neither another request nor another
\* attempt than the one it is at, and no decoder.
LEMMA RouterFrame ==
  ASSUME Typed, NEW q \in Request, RouterStep(q) \/ Drop(q)
  PROVE  /\ \A p \in Request \ {q} : pc'[p] = pc[p] /\ at'[p] = at[p] /\ user'[p] = user[p]
         /\ \A a \in Attempt : a # Cur(q) => Same(a)
         /\ made' = made /\ cancelled' = cancelled /\ chan' = chan
<1>1. RouterTyped /\ JobTyped /\ OutTyped /\ Cur(q) \in Attempt
  BY CurIs DEF Typed
<1>2. made' = made /\ cancelled' = cancelled /\ chan' = chan
  BY DEF RouterStep, SendRequest, RunLocal, Lock, Receive, ReceiveTimeout, Peek, FirstTokenTimeout, Forward, Drop, decoder
<1>3. \A a \in Attempt : a # Cur(q) => job'[a] = job[a]
  <2>1. job' = job \/ \E j : job' = [job EXCEPT ![Cur(q)] = j]
    BY DEF RouterStep, SendRequest, RunLocal, Run, Lock, Receive, ReceiveTimeout, Peek, FirstTokenTimeout, Forward, Drop
  <2> QED BY <1>1, <2>1 DEF JobTyped
<1>4. \A a \in Attempt : a # Cur(q) => out'[a] = out[a]
  <2>1. out' = out \/ \E o : out' = [out EXCEPT ![Cur(q)] = o]
    BY DEF RouterStep, SendRequest, RunLocal, Lock, Receive, ReceiveTimeout, Peek, FirstTokenTimeout, Forward, Drop, Discard
  <2> QED BY <1>1, <2>1 DEF OutTyped
<1>5. \A a \in Attempt : a # Cur(q) => (a \in wanted' <=> a \in wanted)
  BY DEF RouterStep, SendRequest, RunLocal, Lock, Receive, ReceiveTimeout, Peek, FirstTokenTimeout, Forward, Drop, Discard
<1>6. \A p \in Request \ {q} : pc'[p] = pc[p] /\ at'[p] = at[p]
  <2>1. CASE Failed(q)
    BY <1>1, <2>1, FailedIs
  <2>2. CASE ~Failed(q)
    <3>1. UNCHANGED at /\ (pc' = pc \/ \E place : pc' = [pc EXCEPT ![q] = place])
      BY <2>2 DEF RouterStep, SendRequest, RunLocal, Lock, Receive, ReceiveTimeout, Peek, FirstTokenTimeout, Forward, Drop
    <3> QED BY <1>1, <3>1 DEF RouterTyped
  <2> QED BY <2>1, <2>2
<1>7. \A p \in Request \ {q} : user'[p] = user[p]
  <2>1. user' = user \/ \E u : user' = [user EXCEPT ![q] = u]
    BY DEF RouterStep, SendRequest, RunLocal, Lock, Receive, ReceiveTimeout, Peek, FirstTokenTimeout, Forward, Drop
  <2> QED BY <1>1, <2>1 DEF RouterTyped
<1> QED BY <1>2, <1>3, <1>4, <1>5, <1>6, <1>7 DEF Same

\* A step of an attempt touches no task of the router and no other attempt.
LEMMA AttemptFrame ==
  ASSUME Typed, NEW a \in Attempt, AttemptStep(a)
  PROVE  /\ pc' = pc /\ at' = at /\ user' = user /\ wanted' = wanted
         /\ \A b \in Attempt : b # a => Same(b)
<1>1. JobTyped /\ OutTyped
  BY DEF Typed
<1>2. pc' = pc /\ at' = at /\ user' = user /\ wanted' = wanted
  BY DEF AttemptStep, RequestArrives, NetworkEnds, OutboundFailure, ResponseArrives, JobStep, Start, Sample, Finish, DecodeFails, Bridge, Close, router
<1>3. \A b \in Attempt : b # a => job'[b] = job[b]
  <2>1. job' = job \/ \E j : job' = [job EXCEPT ![a] = j]
    BY DEF AttemptStep, RequestArrives, NetworkEnds, OutboundFailure, ResponseArrives, JobStep, Start, Run, Sample, Finish, DecodeFails, Bridge, Close
  <2> QED BY <1>1, <2>1 DEF JobTyped
<1>4. \A b \in Attempt : b # a => made'[b] = made[b]
  <2>1. made' = made \/ \E m : made' = [made EXCEPT ![a] = m]
    BY DEF AttemptStep, RequestArrives, NetworkEnds, OutboundFailure, ResponseArrives, JobStep, Start, Sample, Finish, DecodeFails, Bridge, Close, decoder
  <2> QED BY <1>1, <2>1 DEF JobTyped
<1>5. \A b \in Attempt : b # a => (b \in cancelled' <=> b \in cancelled)
  BY DEF AttemptStep, RequestArrives, NetworkEnds, OutboundFailure, ResponseArrives, JobStep, Start, Sample, Finish, DecodeFails, Bridge, Close, decoder
<1>6. \A b \in Attempt : b # a => chan'[b] = chan[b]
  <2>1. chan' = chan \/ \E c : chan' = [chan EXCEPT ![a] = c]
    BY DEF AttemptStep, RequestArrives, NetworkEnds, OutboundFailure, ResponseArrives, JobStep, Start, Sample, Finish, DecodeFails, Accept, Bridge, Close
  <2> QED BY <1>1, <2>1 DEF JobTyped
<1>7. \A b \in Attempt : b # a => out'[b] = out[b]
  <2>1. out' = out \/ \E o : out' = [out EXCEPT ![a] = o]
    BY DEF AttemptStep, RequestArrives, NetworkEnds, OutboundFailure, ResponseArrives, JobStep, Start, Sample, Finish, DecodeFails, Bridge, Close
  <2> QED BY <1>1, <2>1 DEF OutTyped
<1> QED BY <1>2, <1>3, <1>4, <1>5, <1>6, <1>7 DEF Same

\* A job goes one way (handle_inference_request, Session::run).
LEMMA JobMoves ==
  ASSUME Typed, NEW a \in Attempt, AttemptStep(a)
  PROVE  \/ job'[a] = job[a]
         \/ job[a] = "posted" /\ job'[a] \in {"queued", "lost"}
         \/ job[a] = "queued" /\ job'[a] \in {"refused", "decoding"}
         \/ job[a] = "decoding" /\ job'[a] = "stopped"
         \/ job[a] = "stopped" /\ job'[a] = IF a \in Remote THEN "answered" ELSE "closed"
<1>1. job \in [Attempt -> JobStates]
  BY DEF Typed, JobTyped
<1>2. CASE RequestArrives(a)
  BY <1>1, <1>2 DEF RequestArrives
<1>3. CASE NetworkEnds(a) \/ Sample(a) \/ Bridge(a)
  BY <1>3 DEF NetworkEnds, OutboundFailure, ResponseArrives, Sample, Bridge
<1>4. CASE Start(a)
  BY <1>1, <1>4 DEF Start, Run
<1>5. CASE Finish(a) \/ DecodeFails(a)
  BY <1>1, <1>5 DEF Finish, DecodeFails
<1>6. CASE Close(a)
  BY <1>1, <1>6 DEF Close
<1> QED BY <1>2, <1>3, <1>4, <1>5, <1>6 DEF AttemptStep, JobStep

\* A job produces nothing before it starts, and its channel is empty when it ends.
LEMMA JobInvStep ==
  ASSUME Typed, NEW a \in Attempt, JobInv(a), AttemptStep(a)
  PROVE  JobInv(a)'
<1>1. job \in [Attempt -> JobStates]
  BY DEF Typed, JobTyped
<1>2. CASE RequestArrives(a)
  <2>1. job[a] = "posted" /\ job'[a] \in {"queued", "lost"}
    BY <1>1, <1>2 DEF RequestArrives
  <2> QED BY <1>2, <2>1 DEF RequestArrives, decoder, JobInv, Unstarted
<1>3. CASE NetworkEnds(a)
  BY <1>3 DEF NetworkEnds, OutboundFailure, ResponseArrives, decoder, JobInv
<1>4. CASE Start(a)
  <2>1. job[a] = "queued" /\ job'[a] \in {"refused", "decoding"}
    BY <1>1, <1>4 DEF Start, Run
  <2> QED BY <1>4, <2>1 DEF Start, decoder, JobInv, Unstarted
<1>5. CASE Sample(a)
  BY <1>5 DEF Sample, JobInv, Unstarted
<1>6. CASE Finish(a) \/ DecodeFails(a)
  <2>1. job'[a] = "stopped"
    BY <1>1, <1>6 DEF Finish, DecodeFails
  <2> QED BY <2>1 DEF JobInv, Unstarted
<1>7. CASE Bridge(a)
  BY <1>7 DEF Bridge, JobInv
<1>8. CASE Close(a)
  <2>1. job'[a] \in {"answered", "closed"} /\ chan'[a] = <<>>
    BY <1>1, <1>8 DEF Close
  <2> QED BY <2>1 DEF JobInv, Unstarted
<1> QED BY <1>2, <1>3, <1>4, <1>5, <1>6, <1>7, <1>8 DEF AttemptStep, JobStep

\* With no event on its way there is nothing to be out of order.
LEMMA FlowEmpty ==
  ASSUME NEW a, NEW u, NEW j
  PROVE  Flows(a, u, <<>>, <<>>, j)
<1>1. Len(<<>>) = 0
  BY EmptySeq
<1> QED BY <1>1 DEF Flows

\* A job that is over stays over.
LEMMA FlowRest ==
  ASSUME NEW a, NEW u, NEW o, NEW c, NEW j, NEW k, k # "decoding", Flows(a, u, o, c, j)
  PROVE  Flows(a, u, o, c, k)
<1>1. \A i \in 1..Len(o) :
        /\ o[i].of = a
        /\ Terminal(o[i]) => i = Len(o) /\ c = <<>> /\ o[i].index = 0
        /\ ~Terminal(o[i]) => o[i].index = Len(u) + i - 1
  BY DEF Flows
<1>2. \A i \in 1..Len(c) :
        /\ c[i].of = a
        /\ Terminal(c[i]) => i = Len(c) /\ c[i].index = 0
        /\ ~Terminal(c[i]) => c[i].index = Len(u) + Len(o) + i - 1
  BY DEF Flows
<1> QED BY <1>1, <1>2 DEF Flows

\* One event more or none in the decoder's channel, as it has room.
LEMMA Pushed ==
  ASSUME Typed, NEW a \in Attempt, NEW e \in Event, Accept(a, e)
  PROVE  \/ chan'[a] = Append(chan[a], e) /\ Room(a)
         \/ chan'[a] = chan[a] /\ ~Room(a)
<1>1. JobTyped
  BY DEF Typed
<1>2. chan'[a] = IF Room(a) THEN Append(chan[a], e) ELSE chan[a]
  BY <1>1, AcceptIs
<1> QED BY <1>2

\* A step of an attempt keeps the order of its stream while the router reads
\* it, whatever the requester has of it already.
LEMMA StreamStep ==
  ASSUME Typed, NEW a \in Attempt, JobInv(a), AttemptStep(a), a \in Remote \/ a \in wanted,
         NEW u \in Seq(Event), Streams(a, u), job[a] = "queued" => u = <<>>
  PROVE  Streams(a, u)'
<1>1. /\ job \in [Attempt -> JobStates] /\ out \in [Attempt -> Seq(Event)] /\ chan \in [Attempt -> Seq(Event)]
      /\ made \in [Attempt -> Nat] /\ out[a] \in Seq(Event) /\ chan[a] \in Seq(Event) /\ made[a] \in Nat
  BY DEF Typed, JobTyped, OutTyped
<1>2. Flows(a, u, out[a], chan[a], job[a])
  BY DEF Streams
<1>3. Len(u) \in Nat /\ Len(out[a]) \in Nat /\ Len(chan[a]) \in Nat
  BY <1>1
<1>4. CASE RequestArrives(a)
  <2>1. job[a] = "posted" /\ job'[a] \in {"queued", "lost"} /\ out' = out /\ chan' = chan
    BY <1>1, <1>4 DEF RequestArrives
  <2> QED BY <1>2, <2>1, FlowRest DEF Streams
<1>5. CASE NetworkEnds(a)
  BY <1>5 DEF NetworkEnds, OutboundFailure, ResponseArrives, decoder, Streams
<1>6. CASE Start(a)
  <2>1. /\ job[a] = "queued" /\ u = <<>> /\ made[a] = 0 /\ chan[a] = <<>> /\ out[a] = <<>>
        /\ made' = made /\ out' = out /\ chan' = chan
    BY <1>6 DEF Start, decoder, JobInv, Unstarted
  <2>2. Len(u) = 0 /\ Len(out'[a]) = 0 /\ Len(chan'[a]) = 0 /\ made'[a] = 0
    BY <1>1, <2>1, EmptySeq
  <2>3. Flows(a, u, <<>>, <<>>, job'[a])
    BY FlowEmpty
  <2>4. made'[a] = Len(u) + Len(out'[a]) + Len(chan'[a])
    BY <2>2
  <2>5. Flows(a, u, out'[a], chan'[a], job'[a])
    BY <2>1, <2>3
  <2> QED BY <2>4, <2>5 DEF Streams
<1>7. CASE Sample(a)
  <2> DEFINE e == Token(a, made[a])
  <2>1. e \in Event /\ e.of = a /\ ~Terminal(e) /\ e.index = made[a]
    BY <1>1 DEF Token, Event, Terminal
  <2>2. /\ Accept(a, e) /\ job' = job /\ out' = out /\ job[a] = "decoding" /\ a \notin cancelled
        /\ made'[a] = made[a] + 1 /\ (a \in cancelled' <=> ~Room(a))
    BY <1>1, <1>7 DEF Sample
  <2>3. e.index = Len(u) + Len(out[a]) + Len(chan[a])
    BY <2>1, <2>2 DEF Streams
  <2> HIDE DEF e
  <2>4. CASE chan'[a] = Append(chan[a], e) /\ Room(a)
    <3>1. Flows(a, u, out[a], Append(chan[a], e), "decoding")
      BY <1>1, <1>2, <2>1, <2>2, <2>3, FlowPush
    <3>2. Len(Append(chan[a], e)) = Len(chan[a]) + 1
      BY <1>1, <2>1
    <3> QED BY <1>1, <1>3, <2>1, <2>2, <2>3, <2>4, <3>1, <3>2 DEF Streams
  <2>5. CASE chan'[a] = chan[a] /\ ~Room(a)
    BY <1>2, <2>2, <2>5 DEF Streams
  <2> QED BY <2>1, <2>2, <2>4, <2>5, Pushed
<1>8. CASE Finish(a) \/ DecodeFails(a)
  <2>1. PICK e \in Event : Accept(a, e) /\ e.of = a /\ Terminal(e) /\ e.index = 0
    <3>1. Error(a) \in Event /\ Error(a).of = a /\ Terminal(Error(a)) /\ Error(a).index = 0
      BY DEF Error, Event, Terminal
    <3> QED BY <1>8, <3>1, StopIs DEF Finish, DecodeFails
  <2>2. job[a] = "decoding" /\ job'[a] = "stopped" /\ out' = out
    BY <1>1, <1>8 DEF Finish, DecodeFails
  <2>3. Flows(a, u, out[a], Append(chan[a], e), "stopped")
    BY <1>1, <1>2, <2>1, <2>2, FlowPush
  <2>4. Flows(a, u, out[a], chan[a], "stopped")
    BY <1>2, FlowRest
  <2> QED BY <2>1, <2>2, <2>3, <2>4, Pushed DEF Streams
<1>9. CASE Bridge(a)
  <2>1. /\ chan[a] # <<>> /\ out'[a] = Append(out[a], Head(chan[a])) /\ chan'[a] = Tail(chan[a])
        /\ job' = job /\ made' = made /\ cancelled' = cancelled
    BY <1>1, <1>9 DEF Bridge, decoder
  <2>2. Flows(a, u, Append(out[a], Head(chan[a])), Tail(chan[a]), job[a])
    BY <1>1, <1>2, <2>1, FlowBridge
  <2>3. Len(Append(out[a], Head(chan[a]))) = Len(out[a]) + 1 /\ Len(Tail(chan[a])) = Len(chan[a]) - 1
    BY <1>1, <2>1, HeadTailProperties
  <2> QED BY <1>1, <1>3, <2>1, <2>2, <2>3 DEF Streams
<1>10. CASE Close(a)
  <2>1. chan[a] = <<>> /\ chan' = chan /\ job[a] = "stopped" /\ job'[a] \in {"answered", "closed"}
    BY <1>1, <1>10 DEF Close
  <2>2. CASE out'[a] = out[a]
    BY <1>2, <2>1, <2>2, FlowRest DEF Streams
  <2>3. CASE out'[a] = Append(out[a], Stop(a, "Cancelled")) /\ ~HasTerminal(out[a])
    <3> DEFINE e == Stop(a, "Cancelled")
    <3>1. e \in Event /\ e.of = a /\ Terminal(e) /\ e.index = 0
      BY StopIs
    <3> HIDE DEF e
    <3>2. Flows(a, u, Append(out[a], e), <<>>, "stopped")
      BY <1>1, <1>2, <2>1, <2>3, <3>1, FlowClose
    <3>3. Flows(a, u, Append(out[a], e), <<>>, job'[a])
      BY <2>1, <3>2, FlowRest
    <3> QED BY <2>1, <2>3, <3>3 DEF Streams, e
  <2> QED BY <1>1, <1>10, <2>2, <2>3 DEF Close
<1> QED BY <1>4, <1>5, <1>6, <1>7, <1>8, <1>9, <1>10 DEF AttemptStep, JobStep

\* The same of a stream that is being forwarded.
LEMMA DeliverStep ==
  ASSUME Typed, NEW a \in Attempt, AttemptStep(a), a \in Remote \/ a \in wanted,
         job[a] \notin {"posted", "queued"},
         NEW u \in Seq(Event), Delivers(a, u, out[a], chan[a], job[a])
  PROVE  Delivers(a, u, out[a], chan[a], job[a])'
<1>1. /\ job \in [Attempt -> JobStates] /\ out \in [Attempt -> Seq(Event)] /\ chan \in [Attempt -> Seq(Event)]
      /\ out[a] \in Seq(Event) /\ chan[a] \in Seq(Event)
  BY DEF Typed, JobTyped, OutTyped
<1>2. CASE NetworkEnds(a)
  BY <1>2 DEF NetworkEnds, OutboundFailure, ResponseArrives
<1>3. CASE Sample(a) \/ Finish(a) \/ DecodeFails(a)
  <2>1. job[a] = "decoding" /\ out' = out
    BY <1>3 DEF Sample, Finish, DecodeFails
  <2> QED BY <2>1, DeliverPush
<1>4. CASE Bridge(a)
  <2>1. chan[a] # <<>> /\ out'[a] = Append(out[a], Head(chan[a])) /\ chan'[a] = Tail(chan[a]) /\ job' = job
    BY <1>1, <1>4 DEF Bridge
  <2>2. Delivers(a, u, Append(out[a], Head(chan[a])), Tail(chan[a]), job[a])
    BY <1>1, <2>1, DeliverBridge
  <2> QED BY <2>1, <2>2
<1>5. CASE Close(a)
  <2>1. chan[a] = <<>> /\ chan' = chan /\ job'[a] \in {"answered", "closed"}
    BY <1>1, <1>5 DEF Close
  <2>2. \/ out'[a] = out[a]
        \/ out'[a] = Append(out[a], Stop(a, "Cancelled")) /\ ~HasTerminal(out[a])
    BY <1>1, <1>5 DEF Close
  <2>3. /\ Delivers(a, u, out[a], <<>>, job'[a])
        /\ ~HasTerminal(out[a]) => Delivers(a, u, Append(out[a], Stop(a, "Cancelled")), <<>>, job'[a])
    BY <1>1, <2>1, DeliverClose
  <2> QED BY <2>1, <2>2, <2>3
<1> QED BY <1>2, <1>3, <1>4, <1>5 DEF AttemptStep, JobStep, RequestArrives, Start

\* A step of an attempt keeps what is known of every request.
LEMMA AttemptKeeps ==
  ASSUME Typed, NEW a \in Attempt, JobInv(a), AttemptStep(a), NEW q \in Request, RequestInv(q)
  PROVE  RequestInv(q)'
<1> DEFINE b == Cur(q)
<1>1. /\ b \in Attempt /\ at[q] \in 1..Len(Ranked[q]) /\ user[q] \in Seq(Event)
      /\ pc[q] \in Places
  BY CurIs DEF Typed, RouterTyped
<1>2. pc' = pc /\ at' = at /\ user' = user /\ wanted' = wanted /\ b' = b
  BY AttemptFrame DEF Cur
<1>3. \A c \in Attempt : c # a => Same(c)
  BY AttemptFrame
<1>4. Ahead(q)'
  <2>1. \A i \in 1..Len(Ranked[q]) : <<q, i>> \in Attempt
    BY Attempts
  <2>2. \A c \in Attempt : job[c] = "none" => job'[c] = "none"
    BY <1>3, JobMoves DEF Same
  <2> QED BY <1>2, <2>1, <2>2 DEF RequestInv, Ahead
<1>5. Placed(q)'
  <2>1. job[b] = "answered" => job'[b] = "answered"
    BY <1>1, <1>3, JobMoves DEF Same
  <2>2. b \notin Remote /\ job[b] \in {"decoding", "stopped", "closed"} => job'[b] \in {"decoding", "stopped", "closed"}
    BY <1>1, <1>3, JobMoves DEF Same
  <2>3. Placed(q)
    BY DEF RequestInv
  <2> HIDE DEF b
  <2>4. /\ pc'[q] \in {"lock", "receive"} => b \in Remote
        /\ pc'[q] \in {"peek", "forward"} =>
             IF b \in Remote THEN job'[b] = "answered" ELSE b \in wanted' /\ job'[b] \in {"decoding", "stopped", "closed"}
    BY <1>2, <2>1, <2>2, <2>3 DEF Placed, b
  <2> QED BY <1>2, <2>4 DEF Placed, b
<1>6. Held(q)'
  <2>1. Held(q) /\ Placed(q)
    BY DEF RequestInv
  <2>2. PICK c \in Attempt : c = b
    BY <1>1
  <2>3. PICK u \in Seq(Event) : u = user[q]
    BY <1>1
  <2>4. pc[q] \in {"lock", "receive", "peek", "forward"} => Streams(c, u)'
    <3> SUFFICES ASSUME pc[q] \in {"lock", "receive", "peek", "forward"} PROVE Streams(c, u)'
      OBVIOUS
    <3>1. Streams(c, u)
      BY <2>1, <2>2, <2>3 DEF Held
    <3>2. CASE c = a
      <4>1. c \in Remote \/ c \in wanted
        BY <2>1, <2>2 DEF Placed
      <4>2. job[c] = "queued" => u = <<>>
        BY <2>1, <2>2, <2>3 DEF Placed, Held
      <4> HIDE DEF b
      <4> QED BY <3>1, <3>2, <4>1, <4>2, StreamStep
    <3>3. CASE c # a
      BY <1>3, <3>1, <3>3 DEF Same, Streams
    <3> QED BY <3>2, <3>3
  <2>5. pc[q] = "forward" => Delivers(c, u, out[c], chan[c], job[c])'
    <3> SUFFICES ASSUME pc[q] = "forward" PROVE Delivers(c, u, out[c], chan[c], job[c])'
      OBVIOUS
    <3>1. Delivers(c, u, out[c], chan[c], job[c])
      BY <2>1, <2>2, <2>3 DEF Held
    <3>2. CASE c = a
      <4>1. (c \in Remote \/ c \in wanted) /\ job[c] \notin {"posted", "queued"}
        BY <2>1, <2>2 DEF Placed
      <4> HIDE DEF b
      <4> QED BY <3>1, <3>2, <4>1, DeliverStep
    <3>3. CASE c # a
      BY <1>3, <3>1, <3>3 DEF Same
    <3> QED BY <3>2, <3>3
  <2>6. Cur(q)' = c /\ user'[q] = u
    BY <1>2, <2>2, <2>3
  <2>7. /\ pc[q] \notin {"forward", "ended", "dropped"} => u = <<>>
        /\ pc[q] \in {"ended", "dropped"} => Complete(c, u)
        /\ pc[q] = "ended" => HasTerminal(u)
        /\ pc[q] = "dropped" /\ HasTerminal(u) => Len(u) = 1
    BY <2>1, <2>2, <2>3 DEF Held
  <2> HIDE DEF b
  <2> QED BY <1>2, <2>4, <2>5, <2>6, <2>7 DEF Held
<1> QED BY <1>4, <1>5, <1>6 DEF RequestInv

\* A step of a request's task keeps what is known of the other requests.
LEMMA OthersKept ==
  ASSUME Typed, NEW q \in Request, RouterStep(q) \/ Drop(q), NEW p \in Request \ {q}, RequestInv(p)
  PROVE  RequestInv(p)'
<1>1. pc'[p] = pc[p] /\ at'[p] = at[p] /\ user'[p] = user[p]
  BY RouterFrame
<1>2. \A i \in 1..Len(Ranked[p]) : <<p, i>> \in Attempt /\ Same(<<p, i>>)
  <2>1. \A i \in 1..Len(Ranked[p]) : <<p, i>> \in Attempt /\ <<p, i>>[1] = p
    BY Attempts
  <2>2. Cur(q)[1] = q
    BY CurIs DEF Typed
  <2>3. \A i \in 1..Len(Ranked[p]) : <<p, i>> # Cur(q)
    BY <2>1, <2>2
  <2> QED BY <2>1, <2>3, RouterFrame
<1>3. Ahead(p)'
  BY <1>1, <1>2 DEF RequestInv, Ahead, Same
<1>4. PICK c \in Attempt : c = Cur(p) /\ Same(c)
  BY <1>2, CurIs DEF Typed, Cur
<1>5. Cur(p)' = c
  BY <1>1, <1>4 DEF Cur
<1>6. Placed(p)' /\ Held(p)'
  <2>1. Placed(p) /\ Held(p)
    BY DEF RequestInv
  <2>2. Placed(p)'
    BY <1>1, <1>4, <1>5, <2>1 DEF Placed, Same
  <2>3. Held(p)'
    BY <1>1, <1>4, <1>5, <2>1 DEF Held, Streams, Same
  <2> QED BY <2>2, <2>3
<1> QED BY <1>3, <1>6 DEF RequestInv

\* The next candidate after a failed one has not been asked, and the requester
\* has nothing yet (dispatch_with_failover).
LEMMA FailedKeeps ==
  ASSUME Typed, NEW q \in Request, RequestInv(q), Failed(q), user' = user, user[q] = <<>>,
         \A a \in Attempt : a # Cur(q) => Same(a)
  PROVE  RequestInv(q)'
<1>1. /\ at[q] \in 1..Len(Ranked[q])
      /\ \/ pc'[q] = "failed" /\ at'[q] = at[q]
         \/ pc'[q] = "dispatch" /\ at'[q] = at[q] + 1
  BY FailedIs DEF Typed, RouterTyped
<1>2. Placed(q)' /\ Held(q)'
  BY <1>1 DEF Placed, Held
<1>3. Ahead(q)'
  <2>1. \A i \in 1..Len(Ranked[q]) : i > at[q] => job[<<q, i>>] = "none"
    BY DEF RequestInv, Ahead
  <2>2. \A i \in 1..Len(Ranked[q]) : i > at[q] => job'[<<q, i>>] = job[<<q, i>>]
    <3>1. ASSUME NEW i \in 1..Len(Ranked[q]), i > at[q] PROVE job'[<<q, i>>] = job[<<q, i>>]
      <4>1. <<q, i>> \in Attempt /\ <<q, i>>[2] = i
        BY Attempts
      <4>2. Cur(q)[2] = at[q]
        BY CurIs DEF Typed
      <4>3. <<q, i>> # Cur(q)
        BY <1>1, <3>1, <4>1, <4>2
      <4> QED BY <4>1, <4>3 DEF Same
    <3> QED BY <3>1
  <2>3. \A i \in 1..Len(Ranked[q]) : i > at'[q] \/ (i = at'[q] /\ pc'[q] = "dispatch") => i > at[q]
    BY <1>1
  <2> QED BY <2>1, <2>2, <2>3 DEF Ahead
<1> QED BY <1>2, <1>3 DEF RequestInv

\* A request that goes on with the candidate it is at leaves the later ones alone.
LEMMA AheadKept ==
  ASSUME Typed, NEW q \in Request, Ahead(q), at'[q] = at[q], pc'[q] # "dispatch",
         \A a \in Attempt : a # Cur(q) => Same(a)
  PROVE  Ahead(q)'
<1>1. at[q] \in 1..Len(Ranked[q])
  BY DEF Typed, RouterTyped
<1>2. ASSUME NEW i \in 1..Len(Ranked[q]), i > at[q] PROVE job'[<<q, i>>] = "none"
  <2>1. <<q, i>> \in Attempt /\ <<q, i>>[2] = i /\ Cur(q)[2] = at[q]
    BY Attempts, CurIs DEF Typed
  <2>2. <<q, i>> # Cur(q)
    BY <1>1, <1>2, <2>1
  <2> QED BY <1>2, <2>1, <2>2 DEF Same, Ahead
<1> QED BY <1>2 DEF Ahead

\* A request that goes on with the candidate it is at, before its requester has
\* anything.
LEMMA GoesOn ==
  ASSUME Typed, NEW q \in Request, RequestInv(q), NEW a \in Attempt, a = Cur(q),
         \A b \in Attempt : b # Cur(q) => Same(b), at' = at, user' = user, user[q] = <<>>,
         pc'[q] \in {"lock", "receive", "stuck", "peek", "forward"},
         pc'[q] \in {"lock", "receive"} => a \in Remote,
         pc'[q] \in {"peek", "forward"} =>
           IF a \in Remote THEN job'[a] = "answered"
           ELSE a \in wanted' /\ job'[a] \in {"decoding", "stopped", "closed"},
         pc'[q] # "stuck" => Streams(a, <<>>)',
         pc'[q] = "forward" => Delivers(a, <<>>, out'[a], chan'[a], job'[a])
  PROVE  RequestInv(q)'
<1>1. Ahead(q)'
  BY AheadKept DEF RequestInv
<1>2. Cur(q)' = a /\ user'[q] = <<>>
  BY DEF Cur
<1>3. Placed(q)'
  BY <1>2 DEF Placed
<1>4. Held(q)'
  BY <1>2 DEF Held
<1> QED BY <1>1, <1>3, <1>4 DEF RequestInv

\* What a candidate that was just asked has streamed.
LEMMA AskedStreams ==
  ASSUME NEW a \in Attempt, JobInv(a), job[a] = "none",
         made' = made, cancelled' = cancelled, chan' = chan, out' = out
  PROVE  Streams(a, <<>>)'
<1>1. made'[a] = 0 /\ out'[a] = <<>> /\ chan'[a] = <<>>
  BY DEF JobInv, Unstarted
<1>2. Flows(a, <<>>, out'[a], chan'[a], job'[a])
  BY <1>1, FlowEmpty
<1>3. made'[a] = Len(<<>>) + Len(out'[a]) + Len(chan'[a])
  <2>1. Len(<<>>) = 0
    BY EmptySeq
  <2> QED BY <1>1, <2>1
<1> QED BY <1>2, <1>3 DEF Streams

\* A request that is sent, started, answered or given up before its stream is
\* forwarded (dispatch_one).
LEMMA WaitingStep ==
  ASSUME Typed, AnswerInv, NEW q \in Request, RequestInv(q), JobInv(Cur(q)),
         \/ SendRequest(q) \/ RunLocal(q) \/ Lock(q) \/ Receive(q)
         \/ ReceiveTimeout(q) \/ Peek(q) \/ FirstTokenTimeout(q)
  PROVE  RequestInv(q)'
<1>1. PICK a \in Attempt : a = Cur(q)
  BY CurIs DEF Typed
<1>2. /\ pc \in [Request -> Places] /\ job \in [Attempt -> JobStates] /\ out \in [Attempt -> Seq(Event)]
      /\ replies \in Seq(Response) /\ at[q] \in 1..Len(Ranked[q])
  BY DEF Typed, RouterTyped, NetTyped, JobTyped, OutTyped
<1>3. Ahead(q) /\ Placed(q) /\ Held(q)
  BY DEF RequestInv
<1>4. \A b \in Attempt : b # Cur(q) => Same(b)
  BY RouterFrame DEF RouterStep
<1>5. user' = user /\ user[q] = <<>>
  BY <1>3 DEF SendRequest, RunLocal, Lock, Receive, ReceiveTimeout, Peek, FirstTokenTimeout, Held
<1>6. made' = made /\ cancelled' = cancelled /\ chan' = chan
  BY RouterFrame DEF RouterStep
<1>7. CASE Failed(q)
  BY <1>4, <1>5, <1>7, FailedKeeps
<1>8. pc[q] = "dispatch" => job[a] = "none"
  BY <1>1, <1>2, <1>3 DEF Ahead, Cur
<1>9. CASE SendRequest(q)
  <2>1. pc'[q] = "lock" /\ a \in Remote /\ at' = at /\ pc[q] = "dispatch" /\ out' = out
    BY <1>1, <1>2, <1>9 DEF SendRequest
  <2>2. Streams(a, <<>>)'
    BY <1>1, <1>6, <1>8, <2>1, AskedStreams
  <2> QED BY <1>1, <1>4, <1>5, <2>1, <2>2, GoesOn
<1>10. CASE RunLocal(q) /\ ~Failed(q)
  <2>1. /\ pc'[q] = "peek" /\ a \notin Remote /\ a \in wanted' /\ job'[a] = "decoding"
        /\ at' = at /\ pc[q] = "dispatch" /\ out' = out
    BY <1>1, <1>2, <1>10 DEF RunLocal, Run
  <2>2. Streams(a, <<>>)'
    BY <1>1, <1>6, <1>8, <2>1, AskedStreams
  <2> QED BY <1>1, <1>4, <1>5, <2>1, <2>2, GoesOn
<1>11. CASE Lock(q)
  <2>1. pc[q] = "lock" /\ pc'[q] = "receive" /\ at' = at /\ job' = job /\ out' = out
    BY <1>2, <1>11 DEF Lock
  <2>2. Streams(a, <<>>)
    BY <1>1, <1>3, <1>5, <2>1 DEF Held
  <2>3. Streams(a, <<>>)'
    BY <1>6, <2>1, <2>2 DEF Streams
  <2>4. a \in Remote
    BY <1>1, <1>3, <2>1 DEF Placed
  <2> QED BY <1>1, <1>4, <1>5, <2>1, <2>3, <2>4, GoesOn
<1>12. CASE Receive(q) /\ ~Failed(q)
  <2>1. pc[q] = "receive" /\ at' = at /\ job' = job /\ replies # <<>>
    BY <1>12 DEF Receive
  <2>2. Streams(a, <<>>) /\ a \in Remote
    BY <1>1, <1>3, <1>5, <2>1 DEF Held, Placed
  <2>3. CASE UNCHANGED <<pc, out>>
    <3>1. Streams(a, <<>>)'
      BY <1>6, <2>1, <2>2, <2>3 DEF Streams
    <3> QED BY <1>1, <1>4, <1>5, <2>1, <2>2, <2>3, <3>1, GoesOn
  <2>4. CASE /\ Head(replies).id = a /\ Head(replies).ok
             /\ out' = [out EXCEPT ![a] = out[a]]
             /\ pc' = [pc EXCEPT ![q] = IF Overlong(a) THEN "stuck" ELSE "peek"]
    <3>1. out' = out /\ pc'[q] \in {"stuck", "peek"}
      BY <1>2, <2>4
    <3>2. Head(replies) = replies[1] /\ 1 \in 1..Len(replies)
      BY <1>2, <2>1, HeadTailProperties, EmptySeq
    <3>3. job'[a] = "answered"
      BY <2>1, <2>4, <3>2 DEF AnswerInv
    <3>4. Streams(a, <<>>)'
      BY <1>6, <2>1, <2>2, <3>1 DEF Streams
    <3> QED BY <1>1, <1>4, <1>5, <2>1, <2>2, <3>1, <3>3, <3>4, GoesOn
  <2> QED BY <1>1, <1>12, <2>3, <2>4 DEF Receive, IsAnswer
<1>13. CASE Peek(q) /\ ~Failed(q)
  <2>1. /\ pc[q] = "peek" /\ pc'[q] = "forward" /\ at' = at /\ job' = job /\ out' = out /\ wanted' = wanted
        /\ out[a] # <<>> /\ Head(out[a]).kind # "Error"
    BY <1>1, <1>2, <1>13 DEF Peek
  <2>2. Streams(a, <<>>)
    BY <1>1, <1>3, <1>5, <2>1 DEF Held
  <2>3. Streams(a, <<>>)'
    BY <1>6, <2>1, <2>2 DEF Streams
  <2>4. Delivers(a, <<>>, out'[a], chan'[a], job'[a])
    <3>1. Len(<<>>) = 0
      BY EmptySeq
    <3> QED BY <2>1, <3>1 DEF Delivers
  <2>5. IF a \in Remote THEN job'[a] = "answered" ELSE a \in wanted' /\ job'[a] \in {"decoding", "stopped", "closed"}
    BY <1>1, <1>3, <2>1 DEF Placed
  <2> QED BY <1>1, <1>4, <1>5, <2>1, <2>3, <2>4, <2>5, GoesOn
<1>14. ReceiveTimeout(q) \/ FirstTokenTimeout(q) => Failed(q)
  BY DEF ReceiveTimeout, FirstTokenTimeout
<1> QED BY <1>7, <1>9, <1>10, <1>11, <1>12, <1>13, <1>14

\* The event the forwarder passes on: the next one, or its own Cancelled when
\* the stream just ends (dispatch_with_failover).
NextEvent(a) == IF Exhausted(a) THEN Stop(a, "Cancelled") ELSE Head(out[a])

\* The forwarder passes an event on, or closes the stream with it.
LEMMA ForwardStep ==
  ASSUME Typed, NEW q \in Request, RequestInv(q), Forward(q)
  PROVE  RequestInv(q)'
<1>1. PICK a \in Attempt : a = Cur(q)
  BY CurIs DEF Typed
<1>2. PICK u \in Seq(Event) : u = user[q]
  BY DEF Typed, RouterTyped
<1>3. /\ pc \in [Request -> Places] /\ user \in [Request -> Seq(Event)]
      /\ out \in [Attempt -> Seq(Event)] /\ out[a] \in Seq(Event) /\ chan[a] \in Seq(Event)
  BY DEF Typed, RouterTyped, JobTyped, OutTyped
<1>4. /\ pc[q] = "forward" /\ (Exhausted(a) \/ out[a] # <<>>)
      /\ at' = at /\ job' = job /\ chan' = chan /\ made' = made /\ cancelled' = cancelled
  BY <1>1 DEF Forward, decoder
<1>5. /\ Ahead(q) /\ Placed(q)
      /\ Streams(a, u) /\ Delivers(a, u, out[a], chan[a], job[a]) /\ Flows(a, u, out[a], chan[a], job[a])
  BY <1>1, <1>2, <1>4 DEF RequestInv, Held, Streams
<1>6. Ahead(q)'
  <2>1. \A b \in Attempt : b # Cur(q) => Same(b)
    BY RouterFrame DEF RouterStep
  <2>2. pc'[q] # "dispatch"
    BY <1>3, <1>4 DEF Forward
  <2> QED BY <1>4, <1>5, <2>1, <2>2, AheadKept
<1>7. Cur(q)' = a
  BY <1>1, <1>4 DEF Cur
<1>8. /\ user'[q] = Append(u, NextEvent(a))
      /\ \/ /\ Exhausted(a) \/ (u # <<>> /\ Terminal(NextEvent(a)))
            /\ pc'[q] = "ended"
         \/ /\ ~Exhausted(a) /\ ~(u # <<>> /\ Terminal(NextEvent(a)))
            /\ pc' = pc /\ wanted' = wanted /\ out'[a] = Tail(out[a])
  BY <1>1, <1>2, <1>3 DEF Forward, NextEvent, EndsStream
<1>9. /\ Exhausted(a) => NextEvent(a) = Stop(a, "Cancelled") /\ out[a] = <<>>
      /\ ~Exhausted(a) => NextEvent(a) = Head(out[a]) /\ out[a] # <<>>
  BY <1>4 DEF NextEvent, Exhausted
<1>10. NextEvent(a) \in Event /\ NextEvent(a).of = a
  <2>1. CASE Exhausted(a)
    BY <1>9, <2>1, StopIs
  <2>2. CASE ~Exhausted(a)
    <3>1. Head(out[a]) = out[a][1] /\ 1 \in 1..Len(out[a]) /\ Head(out[a]) \in Event
      BY <1>3, <1>9, <2>2, EmptySeq, HeadTailProperties
    <3>2. out[a][1].of = a
      BY <1>5, <3>1 DEF Flows
    <3> QED BY <1>9, <2>2, <3>1, <3>2
  <2> QED BY <2>1, <2>2
<1>11. CASE pc'[q] = "ended" /\ (Exhausted(a) \/ Terminal(NextEvent(a)))
  <2>1. Terminal(NextEvent(a))
    BY <1>9, <1>11, StopIs
  <2>2. Complete(a, Append(u, NextEvent(a))) /\ HasTerminal(Append(u, NextEvent(a)))
    <3>1. /\ out[a] = <<>> => NextEvent(a) = Stop(a, "Cancelled")
          /\ out[a] # <<>> => NextEvent(a) = Head(out[a])
      BY <1>9
    <3> QED BY <1>5, <1>10, <2>1, <3>1, DeliverLast
  <2>3. Placed(q)' /\ Held(q)'
    BY <1>7, <1>8, <1>11, <2>2 DEF Placed, Held
  <2> QED BY <1>6, <2>3 DEF RequestInv
<1>12. CASE /\ ~Exhausted(a) /\ ~(u # <<>> /\ Terminal(NextEvent(a)))
            /\ pc' = pc /\ wanted' = wanted /\ out'[a] = Tail(out[a])
  <2> DEFINE v == Append(u, Head(out[a]))
             o == Tail(out[a])
  <2>1. NextEvent(a) = Head(out[a]) /\ out[a] # <<>> /\ (u = <<>> \/ ~Terminal(Head(out[a])))
    BY <1>9, <1>12
  <2>2. Delivers(a, v, o, chan[a], job[a])
    BY <1>3, <1>5, <2>1, DeliverForward
  <2>3. Flows(a, v, o, chan[a], job[a])
    BY <1>3, <1>5, <2>1, FlowForward
  <2>4. Len(v) = Len(u) + 1 /\ Len(o) = Len(out[a]) - 1
    <3>1. Head(out[a]) \in Event /\ Len(o) = Len(out[a]) - 1
      BY <1>3, <2>1, HeadTailProperties
    <3> QED BY <3>1, AppendProperties
  <2>5. pc'[q] = "forward" /\ user'[q] = v /\ out'[a] = o
    BY <1>4, <1>8, <1>12, <2>1
  <2>6. Placed(q)'
    BY <1>1, <1>4, <1>5, <1>7, <1>12 DEF Placed
  <2> HIDE DEF v, o
  <2>7. job[a] = "decoding" /\ a \notin cancelled => made[a] = Len(v) + Len(o) + Len(chan[a])
    <3>1. Len(u) \in Nat /\ Len(out[a]) \in Nat /\ Len(chan[a]) \in Nat
      BY <1>3
    <3>2. job[a] = "decoding" /\ a \notin cancelled => made[a] = Len(u) + Len(out[a]) + Len(chan[a])
      BY <1>5 DEF Streams
    <3>3. \A k, l, m \in Nat : (k + 1) + (l - 1) + m = k + l + m
      OBVIOUS
    <3>4. Len(v) + Len(o) + Len(chan[a]) = Len(u) + Len(out[a]) + Len(chan[a])
      <4>1. Len(v) + Len(o) + Len(chan[a]) = (Len(u) + 1) + (Len(out[a]) - 1) + Len(chan[a])
        BY <2>4, Zenon
      <4> QED BY <3>1, <3>3, <4>1
    <3> QED BY <3>2, <3>4
  <2>8. Held(q)'
    <3>1. PICK x : x = v
      OBVIOUS
    <3>2. Streams(a, x)'
      <4>1. Flows(a, x, out'[a], chan'[a], job'[a])
        BY <1>4, <2>3, <2>5, <3>1
      <4>2. job'[a] = "decoding" /\ a \notin cancelled' => made'[a] = Len(x) + Len(out'[a]) + Len(chan'[a])
        BY <1>4, <2>5, <2>7, <3>1
      <4> QED BY <4>1, <4>2 DEF Streams
    <3>3. Delivers(a, x, out[a], chan[a], job[a])'
      BY <1>4, <2>2, <2>5, <3>1
    <3> QED BY <1>7, <2>5, <3>1, <3>2, <3>3 DEF Held
  <2> QED BY <1>6, <2>6, <2>8 DEF RequestInv
<1> QED BY <1>8, <1>11, <1>12

\* The requester goes away and keeps what it has.
LEMMA DropStep ==
  ASSUME Typed, NEW q \in Request, RequestInv(q), Drop(q)
  PROVE  RequestInv(q)'
<1>1. PICK a \in Attempt : a = Cur(q)
  BY CurIs DEF Typed
<1>2. pc[q] = "forward" /\ pc'[q] = "dropped" /\ at' = at /\ user' = user
  BY DEF Drop, Typed, RouterTyped
<1>3. Cur(q)' = a
  BY <1>1, <1>2 DEF Cur
<1>4. Complete(a, user[q]) /\ (HasTerminal(user[q]) => Len(user[q]) = 1)
  <2>1. Delivers(a, user[q], out[a], chan[a], job[a]) /\ user[q] \in Seq(Event)
    BY <1>1, <1>2 DEF RequestInv, Held, Typed, RouterTyped
  <2> QED BY <2>1, DeliverSome
<1>5. Ahead(q)'
  <2>1. \A b \in Attempt : b # Cur(q) => Same(b)
    BY RouterFrame
  <2> QED BY <1>2, <2>1, AheadKept DEF RequestInv
<1>6. Placed(q)' /\ Held(q)'
  BY <1>2, <1>3, <1>4 DEF Placed, Held
<1> QED BY <1>5, <1>6 DEF RequestInv

\* A request's task starts a job only at a candidate that has not been asked.
LEMMA RouterJobs ==
  ASSUME Typed, NEW q \in Request, RequestInv(q), RouterStep(q) \/ Drop(q), NEW b \in Attempt
  PROVE  \/ job'[b] = job[b]
         \/ job[b] = "none" /\ job'[b] \in {"posted", "refused", "decoding"}
<1>1. job \in [Attempt -> JobStates] /\ at[q] \in 1..Len(Ranked[q])
  BY DEF Typed, RouterTyped, JobTyped
<1>2. CASE SendRequest(q) \/ RunLocal(q)
  <2>1. pc[q] = "dispatch"
    BY <1>2 DEF SendRequest, RunLocal
  <2>2. job[Cur(q)] = "none"
    BY <1>1, <2>1 DEF RequestInv, Ahead, Cur
  <2>3. PICK j \in {"posted", "refused", "decoding"} : job' = [job EXCEPT ![Cur(q)] = j]
    BY <1>2 DEF SendRequest, RunLocal, Run
  <2> QED BY <1>1, <2>2, <2>3
<1>3. CASE ~(SendRequest(q) \/ RunLocal(q))
  BY <1>3 DEF RouterStep, Lock, Receive, ReceiveTimeout, Peek, FirstTokenTimeout, Forward, Drop
<1> QED BY <1>2, <1>3

\* A step of a request's task keeps what is known of every job.
LEMMA RouterJobInv ==
  ASSUME Typed, NEW q \in Request, RequestInv(q), RouterStep(q) \/ Drop(q), NEW b \in Attempt, JobInv(b)
  PROVE  JobInv(b)'
<1>1. made' = made /\ cancelled' = cancelled /\ chan' = chan
  BY RouterFrame
<1>2. /\ job'[b] \in Unstarted => job[b] \in Unstarted
      /\ job'[b] \in {"answered", "closed"} => job[b] \in {"answered", "closed"}
  BY RouterJobs DEF Unstarted
<1>3. CASE b # Cur(q)
  <2>1. Same(b)
    BY <1>3, RouterFrame
  <2> QED BY <2>1 DEF Same, JobInv
<1>4. CASE b = Cur(q)
  <2>1. out \in [Attempt -> Seq(Event)]
    BY DEF Typed, OutTyped
  <2>2. CASE Forward(q)
    <3>1. job[b] \notin Unstarted /\ job' = job
      <4>1. pc[q] = "forward" /\ job' = job
        BY <2>2 DEF Forward
      <4> QED BY <1>4, <4>1 DEF RequestInv, Placed, Unstarted
    <3> QED BY <1>1, <3>1 DEF JobInv
  <2>3. CASE ~Forward(q)
    <3>1. out'[b] = out[b] \/ out'[b] = <<>>
      BY <1>4, <2>1, <2>3
         DEF RouterStep, SendRequest, RunLocal, Lock, Receive, IsAnswer, ReceiveTimeout, Peek, FirstTokenTimeout, Drop, Discard
    <3> QED BY <1>1, <1>2, <3>1 DEF JobInv
  <2> QED BY <2>2, <2>3
<1> QED BY <1>3, <1>4

\* No step takes back an answer, and a response with a stream is sent once
\* there is one (ResponseArrives).
LEMMA AnswerStep ==
  ASSUME Typed, StreamInv,
         \/ \E q \in Request : RouterStep(q) \/ Drop(q)
         \/ \E a \in Attempt : AttemptStep(a)
  PROVE  AnswerInv'
<1>1. /\ replies \in Seq(Response) /\ \A i \in 1..Len(replies) : replies[i].id \in Attempt
  <2>1. replies \in Seq(Response)
    BY DEF Typed, NetTyped
  <2>2. \A i \in 1..Len(replies) : replies[i] \in Response
    BY <2>1
  <2> QED BY <2>1, <2>2, Attempts DEF Response
<1>2. \A b \in Attempt : job[b] = "answered" => job'[b] = "answered"
  <2>1. ASSUME NEW q \in Request, RouterStep(q) \/ Drop(q), NEW b \in Attempt, job[b] = "answered"
        PROVE  job'[b] = "answered"
    BY <2>1, RouterJobs DEF StreamInv
  <2>2. ASSUME NEW a \in Attempt, AttemptStep(a), NEW b \in Attempt, job[b] = "answered"
        PROVE  job'[b] = "answered"
    <3>1. CASE b = a
      BY <2>2, <3>1, JobMoves
    <3>2. CASE b # a
      BY <2>2, <3>2, AttemptFrame DEF Same
    <3> QED BY <3>1, <3>2
  <2> QED BY <2>1, <2>2
<1>3. \A i \in 1..Len(replies) : replies[i].ok => job'[replies[i].id] = "answered"
  BY <1>1, <1>2 DEF StreamInv, AnswerInv
<1>4. CASE replies' = replies
  BY <1>3, <1>4 DEF AnswerInv
<1>5. CASE replies # <<>> /\ replies' = Tail(replies)
  <2> DEFINE t == Tail(replies)
  <2>1. Len(t) = Len(replies) - 1 /\ (\A i \in 1..Len(t) : t[i] = replies[i + 1]) /\ Len(replies) \in Nat
    BY <1>1, <1>5, HeadTailProperties
  <2> HIDE DEF t
  <2>2. \A i \in 1..Len(t) : i + 1 \in 1..Len(replies)
    BY <2>1
  <2>3. \A i \in 1..Len(t) : t[i].ok => job'[t[i].id] = "answered"
    BY <1>3, <2>1, <2>2
  <2> QED BY <1>5, <2>3 DEF AnswerInv, t
<1>6. ASSUME NEW r \in Response, r.ok => job'[r.id] = "answered", Reply(r)
      PROVE  AnswerInv'
  <2>1. CASE replies' = Append(replies, r)
    <3> DEFINE t == Append(replies, r)
    <3>1. /\ Len(t) = Len(replies) + 1 /\ t[Len(replies) + 1] = r /\ Len(replies) \in Nat
          /\ \A i \in 1..Len(replies) : t[i] = replies[i]
      BY <1>1, AppendProperties
    <3> HIDE DEF t
    <3>2. ASSUME NEW i \in 1..Len(t) PROVE t[i].ok => job'[t[i].id] = "answered"
      <4>1. CASE i \in 1..Len(replies)
        BY <1>3, <3>1, <4>1
      <4>2. CASE i = Len(replies) + 1
        BY <1>6, <3>1, <4>2
      <4> QED BY <3>1, <4>1, <4>2
    <3> QED BY <2>1, <3>2 DEF AnswerInv, t
  <2> QED BY <1>4, <1>6, <2>1 DEF Reply
<1>7. ASSUME NEW q \in Request, RouterStep(q) \/ Drop(q) PROVE AnswerInv'
  <2>1. replies' = replies \/ (replies # <<>> /\ replies' = Tail(replies))
    BY <1>7 DEF RouterStep, SendRequest, RunLocal, Lock, Receive, ReceiveTimeout, Peek, FirstTokenTimeout, Forward, Drop, net
  <2> QED BY <1>4, <1>5, <2>1
<1>8. ASSUME NEW a \in Attempt, AttemptStep(a) PROVE AnswerInv'
  <2>1. CASE a \in Remote /\ OutboundFailure(a)
    <3>1. [id |-> a, ok |-> FALSE] \in Response
      BY <2>1 DEF Response
    <3> QED BY <1>6, <2>1, <3>1 DEF OutboundFailure
  <2>2. CASE a \in Remote /\ ResponseArrives(a)
    <3>1. [id |-> a, ok |-> TRUE] \in Response /\ job'[a] = "answered"
      BY <2>2 DEF Response, ResponseArrives
    <3> QED BY <1>6, <2>2, <3>1 DEF ResponseArrives
  <2>3. CASE ~(a \in Remote /\ NetworkEnds(a))
    <3>1. replies' = replies
      BY <1>8, <2>3 DEF AttemptStep, RequestArrives, JobStep, Start, Sample, Finish, DecodeFails, Bridge, Close, net
    <3> QED BY <1>4, <3>1
  <2> QED BY <2>1, <2>2, <2>3 DEF NetworkEnds
<1> QED BY <1>7, <1>8

\* A request starts with nothing asked, streamed or received.
LEMMA StreamInit ==
  ASSUME Init
  PROVE  StreamInv
<1>1. AnswerInv
  <2>1. Len(<<>>) = 0
    BY EmptySeq
  <2> QED BY <2>1 DEF Init, InitAfter, AnswerInv
<1>2. \A a \in Attempt : JobInv(a)
  BY DEF Init, InitAfter, JobInv
<1>3. ASSUME NEW q \in Request PROVE RequestInv(q)
  <2>1. \A i \in 1..Len(Ranked[q]) : <<q, i>> \in Attempt
    BY Attempts
  <2>2. Ahead(q)
    BY <2>1 DEF Init, InitAfter, Ahead
  <2>3. pc[q] = "dispatch" /\ user[q] = <<>>
    BY DEF Init, InitAfter
  <2> QED BY <2>2, <2>3 DEF RequestInv, Placed, Held
<1> QED BY <1>1, <1>2, <1>3 DEF StreamInv

\* A step belongs to the task of one request or to one attempt.
LEMMA Steps ==
  ASSUME [Next]_vars
  PROVE  \/ \E q \in Request : RouterStep(q) \/ Drop(q)
         \/ \E a \in Attempt : AttemptStep(a)
         \/ UNCHANGED vars
BY Attempts DEF Next, AttemptStep

\* Every step keeps what is known of jobs, requests and responses.
LEMMA StreamInvStep ==
  ASSUME Typed, StreamInv, [Next]_vars
  PROVE  StreamInv'
<1>1. AnswerInv /\ (\A a \in Attempt : JobInv(a)) /\ (\A q \in Request : RequestInv(q))
  BY DEF StreamInv
<1>2. ASSUME NEW q \in Request, RouterStep(q) \/ Drop(q) PROVE StreamInv'
  <2>1. AnswerInv'
    BY <1>2, AnswerStep
  <2>2. \A a \in Attempt : JobInv(a)'
    BY <1>1, <1>2, RouterJobInv
  <2>3. RequestInv(q)'
    <3>1. JobInv(Cur(q))
      BY <1>1, CurIs DEF Typed
    <3> QED BY <1>1, <1>2, <3>1, WaitingStep, ForwardStep, DropStep DEF RouterStep
  <2>4. \A p \in Request \ {q} : RequestInv(p)'
    BY <1>1, <1>2, OthersKept
  <2> QED BY <2>1, <2>2, <2>3, <2>4 DEF StreamInv
<1>3. ASSUME NEW a \in Attempt, AttemptStep(a) PROVE StreamInv'
  <2>1. AnswerInv'
    BY <1>3, AnswerStep
  <2>2. JobInv(a)'
    BY <1>1, <1>3, JobInvStep
  <2>3. \A b \in Attempt \ {a} : JobInv(b)'
    BY <1>1, <1>3, AttemptFrame DEF Same, JobInv
  <2>4. \A q \in Request : RequestInv(q)'
    BY <1>1, <1>3, AttemptKeeps
  <2> QED BY <2>1, <2>2, <2>3, <2>4 DEF StreamInv
<1>4. CASE UNCHANGED vars
  BY <1>1, <1>4
     DEF vars, router, net, decoder, StreamInv, AnswerInv, JobInv, RequestInv, Ahead, Placed, Held, Streams, Cur
<1> QED BY <1>2, <1>3, <1>4, Steps

\* The invariant of the streams.
LEMMA StreamsKept == Spec => [](Typed /\ StreamInv)
<1>1. Init => Typed /\ StreamInv
  BY TypeInit, StreamInit
<1>2. Typed /\ StreamInv /\ [Next]_vars => (Typed /\ StreamInv)'
  BY TypeStep, StreamInvStep
<1> QED BY <1>1, <1>2, PTL DEF Spec

\* What a requester receives is the stream of the one candidate its request
\* ended up with, in order, without a gap and closed by one terminal event
\* (dispatch_with_failover), for any number of requests on the shared channel.
THEOREM StreamAlwaysWellFormed == Spec => []StreamWellFormed
<1>1. ASSUME Typed, StreamInv PROVE StreamWellFormed
  <2> SUFFICES ASSUME NEW q \in Request
               PROVE  LET s == user[q]
                          closes(i) == i = Len(s) \/ (i = 1 /\ Len(s) = 2 /\ s[2] = Stop(Cur(q), "Cancelled"))
                      IN /\ \A i \in DOMAIN s : /\ s[i].of = Cur(q)
                                               /\ IF Terminal(s[i]) THEN closes(i) ELSE s[i].index = i - 1
                         /\ pc[q] = "ended" => HasTerminal(s)
                         /\ HasTerminal(s) /\ Len(s) > 1 => pc[q] = "ended"
    BY DEF StreamWellFormed
  <2> DEFINE s == user[q]
  <2>1. s \in Seq(Event) /\ DOMAIN s = 1..Len(s) /\ Held(q)
    BY <1>1 DEF Typed, RouterTyped, StreamInv, RequestInv
  <2>2. /\ Complete(Cur(q), s)
        /\ pc[q] # "ended" /\ HasTerminal(s) => Len(s) = 1
    <3>1. CASE s = <<>>
      <4>1. Len(s) = 0
        BY <2>1, <3>1, EmptySeq
      <4>2. ~HasTerminal(s)
        BY <2>1, <4>1 DEF HasTerminal
      <4>3. Complete(Cur(q), s)
        BY <4>1 DEF Complete
      <4> QED BY <4>2, <4>3
    <3>2. CASE pc[q] = "forward"
      <4>1. Delivers(Cur(q), s, out[Cur(q)], chan[Cur(q)], job[Cur(q)])
        BY <2>1, <3>2 DEF Held
      <4> QED BY <2>1, <4>1, DeliverSome
    <3>3. CASE pc[q] \in {"ended", "dropped"}
      BY <2>1, <3>3 DEF Held
    <3>4. CASE pc[q] \notin {"forward", "ended", "dropped"}
      BY <2>1, <3>1, <3>4 DEF Held
    <3> QED BY <3>2, <3>3, <3>4
  <2>3. pc[q] = "ended" => HasTerminal(s)
    BY <2>1 DEF Held
  <2>4. HasTerminal(s) /\ Len(s) > 1 => pc[q] = "ended"
    <3>1. ASSUME HasTerminal(s), Len(s) > 1, pc[q] # "ended" PROVE FALSE
      <4>1. Len(s) = 1
        BY <2>2, <3>1
      <4> QED BY <3>1, <4>1
    <3> QED BY <3>1
  <2> HIDE DEF s
  <2> QED BY <2>1, <2>2, <2>3, <2>4 DEF Complete, s
<1> QED BY <1>1, StreamsKept, PTL

-----------------------------------------------------------------------------
(* The promised streams *)

Face(e) == [kind |-> e.kind, index |-> e.index]

Phase == [q \in Request |-> PhaseOf(q)]

Received == [q \in Request |-> Shown(user[q])]

\* What a requester sees of an event more.
LEMMA ShownIs ==
  ASSUME NEW u \in Seq(Event)
  PROVE  /\ Len(Shown(u)) = Len(u) /\ (Shown(u) = <<>> <=> u = <<>>)
         /\ \A i \in 1..Len(u) : Shown(u)[i] = Face(u[i])
         /\ \A e \in Event : Shown(Append(u, e)) = Append(Shown(u), Face(e))
<1> DEFINE R == {Face(e) : e \in Event}
<1>1. DOMAIN u = 1..Len(u) /\ Len(u) \in Nat
  OBVIOUS
<1>2. \A i \in 1..Len(u) : Face(u[i]) \in R
  OBVIOUS
<1>3. Shown(u) = [i \in 1..Len(u) |-> Face(u[i])]
  BY <1>1 DEF Shown, Face
<1>4. Shown(u) \in Seq(R) /\ Len(Shown(u)) = Len(u)
  <2> HIDE DEF R
  <2> QED BY <1>1, <1>2, <1>3
<1>5. Shown(u) = <<>> <=> u = <<>>
  BY <1>1, <1>4, EmptySeq
<1>6. \A i \in 1..Len(u) : Shown(u)[i] = Face(u[i])
  BY <1>3
<1>7. ASSUME NEW e \in Event PROVE Shown(Append(u, e)) = Append(Shown(u), Face(e))
  <2> DEFINE v == Append(u, e)
             w == Append(Shown(u), Face(e))
  <2>1. v \in Seq(Event) /\ Len(v) = Len(u) + 1 /\ v[Len(u) + 1] = e /\ \A i \in 1..Len(u) : v[i] = u[i]
    BY AppendProperties
  <2>2. Face(e) \in R
    OBVIOUS
  <2> HIDE DEF R
  <2>3. /\ w \in Seq(R) /\ Len(w) = Len(u) + 1 /\ w[Len(u) + 1] = Face(e)
        /\ \A i \in 1..Len(u) : w[i] = Face(u[i])
    BY <1>4, <1>6, <2>2, AppendProperties
  <2> HIDE DEF v, w
  <2>4. Shown(v) = [i \in 1..(Len(u) + 1) |-> Face(v[i])]
    <3>1. DOMAIN v = 1..(Len(u) + 1)
      BY <2>1
    <3> QED BY <3>1 DEF Shown, Face
  <2>5. w = [i \in 1..(Len(u) + 1) |-> w[i]]
    BY <2>3
  <2>6. \A i \in 1..(Len(u) + 1) : w[i] = Face(v[i])
    <3>1. \A i \in 1..(Len(u) + 1) : i \in 1..Len(u) \/ i = Len(u) + 1
      BY <1>1
    <3> QED BY <2>1, <2>3, <3>1
  <2>7. Shown(v) = w
    BY <2>4, <2>5, <2>6
  <2> QED BY <2>7 DEF v, w
<1> QED BY <1>4, <1>5, <1>6, <1>7

\* A step of one request's task changes what that requester sees, if anything.
LEMMA OneRequest ==
  ASSUME Typed, Typed', NEW q \in Request, RouterStep(q) \/ Drop(q)
  PROVE  /\ Phase' = [Phase EXCEPT ![q] = PhaseOf(q)']
         /\ Received' = [Received EXCEPT ![q] = Shown(user[q])']
<1>1. \A p \in Request \ {q} : pc'[p] = pc[p] /\ user'[p] = user[p]
  BY RouterFrame
<1>2. \A p \in Request \ {q} : PhaseOf(p)' = PhaseOf(p)
  BY <1>1 DEF PhaseOf
<1> QED BY <1>1, <1>2 DEF Phase, Received

\* Before its stream is forwarded a request waits, and then opens or fails.
LEMMA WaitingMaps ==
  ASSUME Typed, Typed', StreamInv, NEW q \in Request,
         \/ SendRequest(q) \/ RunLocal(q) \/ Lock(q) \/ Receive(q)
         \/ ReceiveTimeout(q) \/ Peek(q) \/ FirstTokenTimeout(q)
  PROVE  [Answers!Next]_<<Phase, Received>>
<1>1. PhaseOf(q) = "waiting" /\ Received' = Received
  <2>1. user' = user /\ pc[q] \in {"dispatch", "lock", "receive", "peek"}
    BY DEF SendRequest, RunLocal, Lock, Receive, ReceiveTimeout, Peek, FirstTokenTimeout
  <2> QED BY <2>1 DEF PhaseOf, Received
<1>2. PhaseOf(q)' \in {"waiting", "open", "failed"}
  <2>1. pc \in [Request -> Places]
    BY DEF Typed, RouterTyped
  <2>2. pc'[q] \in {"failed", "dispatch", "lock", "receive", "stuck", "peek", "forward"}
    <3>1. CASE Failed(q)
      BY <3>1, FailedIs DEF Typed
    <3>2. CASE ~Failed(q)
      BY <2>1, <3>2 DEF SendRequest, RunLocal, Lock, Receive, ReceiveTimeout, Peek, FirstTokenTimeout
    <3> QED BY <3>1, <3>2
  <2> QED BY <2>2 DEF PhaseOf
<1>3. Phase' = [Phase EXCEPT ![q] = PhaseOf(q)'] /\ Phase[q] = "waiting"
  BY <1>1, OneRequest DEF RouterStep, Phase
<1>4. CASE PhaseOf(q)' = "waiting"
  BY <1>1, <1>3, <1>4 DEF Phase
<1>5. CASE PhaseOf(q)' = "open"
  <2>1. Answers!Open(q)
    BY <1>1, <1>3, <1>5 DEF Answers!Open, Phase, Received
  <2> QED BY <2>1 DEF Answers!Next
<1>6. CASE PhaseOf(q)' = "failed"
  <2>1. Answers!Fail(q)
    BY <1>1, <1>3, <1>6 DEF Answers!Fail, Phase, Received
  <2> QED BY <2>1 DEF Answers!Next
<1> QED BY <1>2, <1>4, <1>5, <1>6

\* What the forwarder passes on, by what the requester has already: after a
\* terminal event only Cancelled is left, and an Error never comes first.
LEMMA NextIs ==
  ASSUME NEW a \in Attempt, NEW u \in Seq(Event), NEW o \in Seq(Event), NEW c, NEW j,
         Delivers(a, u, o, c, j), Flows(a, u, o, c, j), NEW e,
         o = <<>> => e = Stop(a, "Cancelled"), o # <<>> => e = Head(o)
  PROVE  /\ e \in Event
         /\ Terminal(e) => e.index = 0
         /\ ~Terminal(e) => e.index = Len(u) /\ o # <<>>
         /\ u # <<>> /\ Terminal(u[Len(u)]) => e.kind = "Cancelled"
         /\ u = <<>> => o # <<>> /\ e.kind # "Error"
<1>1. CASE o = <<>>
  <2>1. e = Stop(a, "Cancelled")
    BY <1>1
  <2>2. u # <<>>
    BY <1>1 DEF Delivers
  <2> QED BY <2>1, <2>2, StopIs
<1>2. CASE o # <<>>
  <2>1. Len(o) \in Nat /\ 1 \in 1..Len(o) /\ Head(o) = o[1] /\ Head(o) \in Event /\ Len(u) \in Nat
    BY <1>2, EmptySeq, HeadTailProperties
  <2>2. e = o[1] /\ e = Head(o)
    BY <1>2, <2>1
  <2>3. /\ Terminal(o[1]) => o[1].index = 0
        /\ ~Terminal(o[1]) => o[1].index = Len(u) + 1 - 1
    BY <2>1 DEF Flows
  <2>4. ASSUME u # <<>>, Terminal(u[Len(u)]) PROVE e.kind = "Cancelled"
    <3>1. Len(u) \in 1..Len(u)
      BY <2>1, <2>4, EmptySeq
    <3>2. o = <<>> \/ o = <<Stop(a, "Cancelled")>>
      BY <2>4, <3>1 DEF Delivers
    <3>3. Head(o) = Stop(a, "Cancelled")
      BY <1>2, <3>2
    <3> QED BY <2>2, <3>3, StopIs
  <2>5. u = <<>> => e.kind # "Error"
    BY <2>2 DEF Delivers
  <2> QED BY <1>2, <2>1, <2>2, <2>3, <2>4, <2>5
<1> QED BY <1>1, <1>2

\* An event passed on is a token in order, a first terminal event, or the end.
LEMMA ForwardMaps ==
  ASSUME Typed, Typed', StreamInv, NEW q \in Request, Forward(q)
  PROVE  Answers!Next
<1>1. PICK a \in Attempt : a = Cur(q)
  BY CurIs DEF Typed
<1>2. PICK u \in Seq(Event) : u = user[q]
  BY DEF Typed, RouterTyped
<1>3. out[a] \in Seq(Event) /\ pc \in [Request -> Places] /\ user \in [Request -> Seq(Event)] /\ pc[q] = "forward"
  BY DEF Typed, RouterTyped, OutTyped, Forward
<1>4. Delivers(a, u, out[a], chan[a], job[a]) /\ Flows(a, u, out[a], chan[a], job[a])
  BY <1>1, <1>2, <1>3 DEF StreamInv, RequestInv, Held, Streams
<1>5. PICK e : e = NextEvent(a)
  OBVIOUS
<1>6. /\ out[a] = <<>> => e = Stop(a, "Cancelled") /\ Exhausted(a)
      /\ out[a] # <<>> => e = Head(out[a]) /\ ~Exhausted(a)
  BY <1>1, <1>5 DEF Forward, NextEvent, Exhausted
<1>7. /\ e \in Event
      /\ Terminal(e) => e.index = 0
      /\ ~Terminal(e) => e.index = Len(u) /\ out[a] # <<>>
      /\ u # <<>> /\ Terminal(u[Len(u)]) => e.kind = "Cancelled"
      /\ u = <<>> => out[a] # <<>> /\ e.kind # "Error"
  BY <1>3, <1>4, <1>6, NextIs
<1>8. /\ user'[q] = Append(u, e)
      /\ \/ pc'[q] = "ended" /\ (Exhausted(a) \/ (u # <<>> /\ Terminal(e)))
         \/ pc'[q] = "forward" /\ ~Exhausted(a) /\ ~(u # <<>> /\ Terminal(e))
  BY <1>1, <1>2, <1>3, <1>5 DEF Forward, NextEvent, EndsStream
<1>9. /\ Phase' = [Phase EXCEPT ![q] = PhaseOf(q)'] /\ Phase[q] = "open"
      /\ Received' = [Received EXCEPT ![q] = Append(Received[q], Face(e))] /\ Received[q] = Shown(u)
  <2>1. PhaseOf(q) = "open"
    BY <1>3 DEF PhaseOf
  <2>2. Phase' = [Phase EXCEPT ![q] = PhaseOf(q)'] /\ Received' = [Received EXCEPT ![q] = Shown(user[q])']
    BY OneRequest DEF RouterStep
  <2>3. Shown(user[q])' = Append(Shown(u), Face(e))
    <3>1. Shown(Append(u, e)) = Append(Shown(u), Face(e))
      BY <1>7, ShownIs
    <3> QED BY <1>8, <3>1 DEF Shown
  <2> QED BY <1>2, <2>1, <2>2, <2>3 DEF Phase, Received
<1>10. /\ Received[q] # <<>> <=> u # <<>>
       /\ Len(Received[q]) = Len(u)
       /\ u # <<>> => Received[q][Len(u)].kind = u[Len(u)].kind /\ u[Len(u)] \in Event
  <2>1. u # <<>> => Len(u) \in 1..Len(u) /\ u[Len(u)] \in Event
    BY EmptySeq
  <2>2. Len(Shown(u)) = Len(u) /\ (Shown(u) = <<>> <=> u = <<>>) /\ \A i \in 1..Len(u) : Shown(u)[i] = Face(u[i])
    BY ShownIs
  <2>3. u # <<>> => Received[q][Len(u)] = Face(u[Len(u)])
    BY <1>9, <2>1, <2>2
  <2>4. \A x : Face(x).kind = x.kind
    BY DEF Face
  <2> QED BY <1>9, <2>1, <2>2, <2>3, <2>4
<1>11. \A x \in Event : Terminal(x) <=> x.kind \in {"Done", "Cancelled", "Error"}
  BY DEF Event, Terminal
<1>12. CASE pc'[q] = "ended"
  <2>1. PhaseOf(q)' = "closed"
    BY <1>12 DEF PhaseOf
  <2>2. u # <<>> /\ Terminal(e)
    BY <1>6, <1>7, <1>8, <1>12
  <2>3. Face(e) = [kind |-> e.kind, index |-> 0]
    BY <1>7, <2>2 DEF Face
  <2>4. Answers!Over(q) => e.kind = "Cancelled"
    BY <1>7, <1>10, <1>11, <2>2 DEF Answers!Over, Answers!Terminals, Received
  <2>5. e.kind \in IF Answers!Over(q) THEN {"Cancelled"} ELSE Answers!Terminals
    BY <1>7, <1>11, <2>2, <2>4 DEF Answers!Terminals
  <2>6. Answers!Deliver(q, [kind |-> e.kind, index |-> 0])
    BY <1>9, <2>3 DEF Answers!Deliver, Received
  <2>7. Phase' = [Phase EXCEPT ![q] = "closed"]
    BY <1>9, <2>1
  <2>8. Answers!Close(q)
    BY <1>9, <1>10, <2>2, <2>5, <2>6, <2>7 DEF Answers!Close, Answers!Begun, Phase, Received
  <2> QED BY <2>8 DEF Answers!Next
<1>13. CASE pc'[q] = "forward" /\ ~Exhausted(a) /\ ~(u # <<>> /\ Terminal(e))
  <2>1. PhaseOf(q)' = "open"
    BY <1>13 DEF PhaseOf
  <2>2. Phase' = Phase
    BY <1>9, <2>1 DEF Phase
  <2>3. CASE Terminal(e)
    <3>1. u = <<>> /\ e.kind \in {"Done", "Cancelled"}
      BY <1>7, <1>11, <1>13, <2>3
    <3>2. Face(e) = [kind |-> e.kind, index |-> 0]
      BY <1>7, <2>3 DEF Face
    <3>3. Answers!Deliver(q, [kind |-> e.kind, index |-> 0])
      BY <1>9, <3>2 DEF Answers!Deliver, Received
    <3>4. Answers!DeliverEmpty(q)
      BY <1>9, <1>10, <2>2, <3>1, <3>3
         DEF Answers!DeliverEmpty, Answers!Begun, Answers!Terminals, Phase, Received
    <3> QED BY <3>4 DEF Answers!Next
  <2>4. CASE ~Terminal(e)
    <3>1. e.kind = "Token" /\ e.index = Len(u)
      BY <1>7, <2>4 DEF Terminal
    <3>2. ~Answers!Over(q)
      <4>1. u # <<>> => ~Terminal(u[Len(u)])
        BY <1>7, <3>1
      <4> QED BY <1>10, <1>11, <4>1 DEF Answers!Over, Answers!Begun, Answers!Terminals, Received
    <3>3. Face(e) = [kind |-> "Token", index |-> Len(Received[q])]
      BY <1>10, <3>1 DEF Face
    <3>4. Answers!Deliver(q, [kind |-> "Token", index |-> Len(Received[q])])
      BY <1>9, <3>3 DEF Answers!Deliver, Received
    <3>5. Answers!DeliverToken(q)
      BY <1>9, <2>2, <3>2, <3>4 DEF Answers!DeliverToken, Phase, Received
    <3> QED BY <3>5 DEF Answers!Next
  <2> QED BY <2>3, <2>4
<1> QED BY <1>8, <1>12, <1>13

\* Every step of the router, the network and the nodes is a step of the
\* promised streams or leaves them as they are.
THEOREM ImplementsAnswers == Spec => StreamSpec
<1>1. Init => Answers!Init
  <2>1. ASSUME Init PROVE Answers!Init
    <3>1. \A q \in Request : PhaseOf(q) = "waiting" /\ Shown(user[q]) = <<>>
      <4>1. DOMAIN <<>> = {} /\ <<>> \in Seq(Event)
        OBVIOUS
      <4>2. Shown(<<>>) = <<>>
        BY <4>1, ShownIs
      <4> QED BY <2>1, <4>2 DEF Init, InitAfter, PhaseOf
    <3> QED BY <3>1 DEF Answers!Init
  <2> QED BY <2>1
<1>2. ASSUME Typed, Typed', StreamInv, [Next]_vars PROVE [Answers!Next]_<<Phase, Received>>
  <2>1. ASSUME NEW q \in Request, RouterStep(q) PROVE [Answers!Next]_<<Phase, Received>>
    BY <1>2, <2>1, WaitingMaps, ForwardMaps DEF RouterStep
  <2>2. ASSUME NEW q \in Request, Drop(q) PROVE Answers!Next
    <3>1. PhaseOf(q) = "open" /\ PhaseOf(q)' = "left" /\ user' = user
      BY <1>2, <2>2 DEF Drop, PhaseOf, Typed, RouterTyped
    <3>2. Phase' = [Phase EXCEPT ![q] = "left"] /\ Phase[q] = "open" /\ Received' = Received
      BY <1>2, <2>2, <3>1, OneRequest DEF Phase, Received
    <3>3. Answers!Leave(q)
      BY <3>2 DEF Answers!Leave, Phase, Received
    <3> QED BY <3>3 DEF Answers!Next
  <2>3. ASSUME pc' = pc, user' = user PROVE UNCHANGED <<Phase, Received>>
    BY <2>3 DEF Phase, PhaseOf, Received
  <2>4. ASSUME NEW a \in Attempt, AttemptStep(a) PROVE UNCHANGED <<Phase, Received>>
    BY <1>2, <2>3, <2>4, AttemptFrame
  <2>5. CASE UNCHANGED vars
    BY <2>3, <2>5 DEF vars, router
  <2> QED BY <1>2, <2>1, <2>2, <2>4, <2>5, Steps
<1>3. Typed /\ StreamInv /\ (Typed /\ StreamInv)' /\ [Next]_vars =>
        [Answers!Next]_<<[q \in Request |-> PhaseOf(q)], [q \in Request |-> Shown(user[q])]>>
  BY <1>2 DEF Phase, Received
<1> QED BY <1>1, <1>3, StreamsKept, PTL DEF Spec, StreamSpec, Answers!Spec

=============================================================================
