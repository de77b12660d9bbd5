---------------------------- MODULE ServingProofs ----------------------------
(***************************************************************************)
(* Of a request that is served (Chat): the text that reaches the client is *)
(* the text that was decoded, up to its first stop, and the answer's end   *)
(* tells how it ended.  Of the model files it is served from (ModelCache): *)
(* they are what their digests say, on the disk and in every request that  *)
(* loads them, and the cache keeps under its cap.  Of the verifier of what *)
(* was served (Verification): its disputes are founded.                    *)
(***************************************************************************)
EXTENDS Chat, ModelCache, Verification, FoldTheorems, SequenceTheorems

Reasons == {"MaxTokens", "StopString", "EndOfStream", "Cancelled"}

Events == [kind : {"Token"}, text : Seq(Byte)] \cup [kind : {"Stop"}, reason : Reasons] \cup {Error}

\* What was offered and not refused, but for what a client that left has not taken.
Offered == body \o channel

AllTokens(events) == \A i \in DOMAIN events : IsToken(events[i])

\* All but the last are tokens.
TokensFirst(events) == \A i \in DOMAIN events : i < Len(events) => IsToken(events[i])

\* Stops, of any stop strings.
StopsAt(stop, text) == \E i \in DOMAIN stop : IsSuffix(stop[i], text)

\* No stop string ends the text before the last token.
NoStopInside(stop, events) ==
  \A m, n \in Tokens(events) : m < n => ~StopsAt(stop, TextOf(SubSeq(events, 1, m)))

ChatTypeOK ==
  /\ request \in Completions
  /\ phase \in {"idle", "asked", "open", "answered", "gone"}
  /\ body \in Seq(Events)
  /\ session \in {"none", "ingest", "sampling", "ended"}
  /\ generated \in Nat
  /\ pending \in Seq(Byte)
  /\ full_text \in Seq(Byte)
  /\ reason \in Reasons
  /\ channel \in Seq(Events)
  /\ decoded \in Seq(Byte)
  /\ refused \in BOOLEAN

\* Before there is a session there are no events, and at most one follows it.
Unstarted ==
  session \in {"none", "ingest"} =>
    /\ body = <<>> /\ channel = <<>> /\ ~refused /\ reason = "MaxTokens"
    /\ generated = 0 /\ full_text = <<>> /\ pending = <<>> /\ decoded = <<>>
Opened ==
  /\ phase \in {"idle", "asked"} => session = "none"
  /\ phase = "open" => session # "none"
  /\ phase \in {"answered", "gone"} => channel = <<>>

\* A session that goes on has offered its tokens, and no end.
Going ==
  session \in {"ingest", "sampling"} =>
    /\ AllTokens(Offered)
    /\ refused => reason = "Cancelled"
    /\ reason = "StopString" => generated > 0 /\ StopsAt(request.stop, full_text)
    /\ reason = "MaxTokens" /\ generated > 0 => ~StopsAt(request.stop, full_text)
    /\ reason = "EndOfStream" => generated < request.max_tokens
    /\ reason = "Cancelled" => refused
    /\ phase = "open" /\ ~refused =>
         /\ TextOf(Offered) = full_text /\ Len(Offered) = generated
         /\ full_text \o pending = decoded
         /\ ValidUpTo(pending) = 0

\* One that has ended said so.
Told(r, events) ==
  /\ events # <<>> /\ ~IsToken(Last(events))
  /\ Last(events) = Error
     \/ \E why \in Reasons :
          /\ Last(events) = Stop(why)
          /\ why = "MaxTokens" <=>
               /\ Len(events) - 1 = r.max_tokens
               /\ ~(Len(events) > 1 /\ StopsAt(r.stop, TextOf(events)))
Closed ==
  session = "ended" /\ ~refused /\ phase \in {"open", "answered"} => Told(request, Offered)

ChatInv ==
  /\ ChatTypeOK /\ Unstarted /\ Opened /\ Going /\ Closed
  /\ TokensFirst(Offered) /\ NoStopInside(request.stop, Offered)

-----------------------------------------------------------------------------
(* The text of a sequence of events *)

\* What an event adds to the text before it.
TextWith(text, e) == IF IsToken(e) THEN text \o e.text ELSE text

\* Collecting the text passes through a value after each event.
LEMMA TextPasses ==
  ASSUME NEW events \in Seq(Events)
  PROVE  \E a \in [0..Len(events) -> Seq(Byte)] :
           /\ a[0] = <<>>
           /\ \A k \in 1..Len(events) : a[k] = TextWith(a[k - 1], events[k])
           /\ TextOf(events) = a[Len(events)]
<1> DEFINE n == Len(events)
           S == DOMAIN events
           V == Seq(Byte)
           base == <<>>
           F == [p \in S \X V |-> TextWith(p[2], events[p[1]])]
           Body(g, s) == IF s = {} THEN base
                         ELSE LET x == Max(s) IN TextWith(g[s \ {x}], events[x])
           iter == CHOOSE g : g = [s \in SUBSET S |-> Body(g, s)]
<1>1. n \in Nat /\ S = 1..n /\ IsFiniteSet(S) /\ \A x \in S : events[x] \in Events
  <2>1. n \in Nat /\ S = 1..n
    BY LenProperties
  <2>2. \A x \in S : events[x] \in Events
    BY <2>1, ElementOfSeq
  <2>3. IsFiniteSet(S)
    BY <2>1, FS_Interval
  <2> QED BY <2>1, <2>2, <2>3
<1>2. \A x \in S, v \in V : F[<<x, v>>] \in V /\ F[<<x, v>>] = TextWith(v, events[x])
  <2> SUFFICES ASSUME NEW x \in S, NEW v \in V PROVE TextWith(v, events[x]) \in V
    OBVIOUS
  <2>1. PICK e : e = events[x]
    OBVIOUS
  <2>2. e \in Events
    BY <1>1, <2>1
  <2>3. IsToken(e) => e.text \in Seq(Byte)
    BY <2>2 DEF IsToken, Events, Error
  <2>4. IsToken(e) => v \o e.text \in Seq(Byte)
    BY <2>3, ConcatProperties
  <2> QED BY <2>1, <2>4 DEF TextWith
<1>3. base \in V
  OBVIOUS
<1>4. iter = [s \in SUBSET S |-> Body(iter, s)]
  <2> DEFINE c == LastOf(n)
  <2>1. \A s \in SUBSET S : s # {} => c[s] = Max(s) /\ c[s] \in s
    <3>1. \A s \in SUBSET (1..n) : s # {} => c[s] \in s
      BY <1>1, LastIs
    <3>2. \A s \in SUBSET (1..n) : c[s] = Max(s)
      BY DEF Max, LastOf
    <3> QED BY <1>1, <3>1, <3>2
  <2>2. Chooses(c, S)
    BY <2>1 DEF Chooses
  <2> HIDE DEF S, F, base, c, n, V
  <2>3. PICK g : Folds(g, F, base, c, S)
    BY <1>1, <2>2, FoldExists
  <2>4. g \in [SUBSET S -> V]
    BY <1>1, <1>2, <1>3, <2>2, <2>3, FoldType
  <2>5. ASSUME NEW s \in SUBSET S PROVE g[s] = Body(g, s)
    <3>1. g[s] = IF s = {} THEN base ELSE F[<<c[s], g[s \ {c[s]}]>>]
      BY <2>3 DEF Folds
    <3>2. CASE s # {}
      <4>1. c[s] = Max(s) /\ c[s] \in S /\ s \ {c[s]} \in SUBSET S
        BY <2>1, <3>2
      <4>2. F[<<c[s], g[s \ {c[s]}]>>] = TextWith(g[s \ {c[s]}], events[c[s]])
        BY <1>2, <2>4, <4>1
      <4> QED BY <3>1, <3>2, <4>1, <4>2
    <3> QED BY <3>1, <3>2
  <2>6. g = [s \in SUBSET S |-> Body(g, s)]
    BY <2>4, <2>5
  <2> QED BY <2>6
<1>5. TextOf(events) = iter[S]
  BY DEF TextOf, TextWith, FoldLeft, MapThenFoldSet
<1>6. iter[{}] = base
  BY <1>4
<1>7. ASSUME NEW s \in SUBSET (1..n), s # {}, iter[s \ {LastOf(n)[s]}] \in V
      PROVE  iter[s] = F[<<LastOf(n)[s], iter[s \ {LastOf(n)[s]}]>>]
  <2> HIDE DEF iter, F
  <2>1. iter[s] = TextWith(iter[s \ {Max(s)}], events[Max(s)])
    BY <1>1, <1>4, <1>7
  <2>2. LastOf(n)[s] = Max(s) /\ LastOf(n)[s] \in S
    <3>1. LastOf(n)[s] \in s
      BY <1>1, <1>7, LastIs
    <3>2. LastOf(n)[s] = Max(s)
      BY DEF Max, LastOf
    <3> QED BY <1>1, <3>1, <3>2
  <2> QED BY <1>2, <1>7, <2>1, <2>2
<1>8. PICK a : Trace(a, F, base, n, V) /\ iter[1..n] = a[n]
  <2>1. StaysIn(F, n, V)
    BY <1>1, <1>2 DEF StaysIn
  <2>2. Unrolls(iter, F, base, n, V)
    BY <1>6, <1>7 DEF Unrolls
  <2> HIDE DEF iter, F, base, n, V
  <2> QED BY <1>1, <1>3, <2>1, <2>2, FoldTrace
<1> HIDE DEF iter, F
<1>9. \A k \in 1..n : a[k] = TextWith(a[k - 1], events[k])
  <2> SUFFICES ASSUME NEW k \in 1..n PROVE a[k] = TextWith(a[k - 1], events[k])
    OBVIOUS
  <2>1. k - 1 \in 0..n /\ k \in S
    BY <1>1
  <2>2. a[k - 1] \in V /\ a[k] = F[<<k, a[k - 1]>>]
    BY <1>8, <2>1 DEF Trace
  <2> QED BY <1>2, <2>1, <2>2
<1> QED BY <1>1, <1>5, <1>8, <1>9 DEF Trace

\* No events have no text, and one more event adds what it has.
LEMMA TextGrows ==
  ASSUME NEW events \in Seq(Events)
  PROVE  /\ TextOf(events) \in Seq(Byte)
         /\ events = <<>> => TextOf(events) = <<>>
         /\ \A e \in Events : TextOf(Append(events, e)) = TextWith(TextOf(events), e)
<1> DEFINE n == Len(events)
<1>1. n \in Nat
  BY LenProperties
<1>2. PICK a \in [0..n -> Seq(Byte)] :
        /\ a[0] = <<>>
        /\ \A k \in 1..n : a[k] = TextWith(a[k - 1], events[k])
        /\ TextOf(events) = a[n]
  BY TextPasses
<1>3. ASSUME NEW e \in Events
      PROVE  TextOf(Append(events, e)) = TextWith(TextOf(events), e)
  <2>1. /\ Append(events, e) \in Seq(Events) /\ Len(Append(events, e)) = n + 1
        /\ \A k \in 1..n : Append(events, e)[k] = events[k]
        /\ Append(events, e)[n + 1] = e
    BY <1>1
  <2>2. PICK more : more = Append(events, e)
    OBVIOUS
  <2>3. PICK b \in [0..(n + 1) -> Seq(Byte)] :
          /\ b[0] = <<>>
          /\ \A k \in 1..(n + 1) : b[k] = TextWith(b[k - 1], more[k])
          /\ TextOf(more) = b[n + 1]
    <3>1. more \in Seq(Events) /\ Len(more) = n + 1
      BY <2>1, <2>2
    <3> HIDE DEF n
    <3> QED BY <3>1, TextPasses
  <2> DEFINE P == {k \in 0..n : a[k] = b[k]}
  <2>4. 0 \in P
    BY <1>1, <1>2, <2>3
  <2>5. ASSUME NEW k \in 1..n, k - 1 \in P PROVE k \in P
    <3>1. a[k] = TextWith(a[k - 1], events[k]) /\ b[k] = TextWith(b[k - 1], events[k])
      BY <1>1, <1>2, <2>1, <2>2, <2>3
    <3> QED BY <2>5, <3>1
  <2> HIDE DEF P
  <2>6. n \in P
    <3> HIDE DEF n
    <3>1. \A k \in 0..n : k \in P
      BY <1>1, <2>4, <2>5, NumbersUpTo
    <3> QED BY <1>1, <3>1
  <2>7. b[n + 1] = TextWith(b[n], e)
    <3>1. n + 1 \in 1..(n + 1) /\ (n + 1) - 1 = n /\ more[n + 1] = e
      BY <1>1, <2>1, <2>2
    <3> QED BY <2>3, <3>1
  <2> QED BY <1>2, <2>2, <2>3, <2>6, <2>7 DEF P
<1> QED BY <1>1, <1>2, <1>3

-----------------------------------------------------------------------------
(* The piece buffer *)

\* The valid prefix is the longest one.
LEMMA LongestValid ==
  ASSUME NEW bytes \in Seq(Byte)
  PROVE  /\ ValidUpTo(bytes) \in 0..Len(bytes)
         /\ Valid(SubSeq(bytes, 1, ValidUpTo(bytes)))
         /\ \A n \in 0..Len(bytes) : Valid(SubSeq(bytes, 1, n)) => n <= ValidUpTo(bytes)
<1> DEFINE S == {n \in 0..Len(bytes) : Valid(SubSeq(bytes, 1, n))}
<1>1. Len(bytes) \in Nat
  BY LenProperties
<1>2. S \in SUBSET Int /\ IsFiniteSet(S) /\ 0 \in S
  <2>1. SubSeq(bytes, 1, 0) = <<>>
    BY SubSeqEmpty
  <2>2. Valid(<<>>)
    BY DEF Valid
  <2>3. IsFiniteSet(0..Len(bytes))
    BY <1>1, FS_Interval
  <2>4. S \subseteq 0..Len(bytes) /\ 0 \in S
    <3>1. Valid(SubSeq(bytes, 1, 0))
      BY <2>1, <2>2
    <3> HIDE DEF Valid
    <3> QED BY <1>1, <3>1
  <2> HIDE DEF S
  <2>5. IsFiniteSet(S)
    BY <2>3, <2>4, FS_Subset
  <2> QED BY <2>4, <2>5
<1>3. PICK n \in S : \A m \in S : m <= n
  <2> HIDE DEF S
  <2> QED BY <1>2, LargestMember
<1>4. Max(S) \in S /\ \A m \in S : m <= Max(S)
  <2> HIDE DEF S
  <2>1. \A m \in S : n >= m
    BY <1>2, <1>3
  <2> QED BY <1>2, <2>1 DEF Max
<1>5. ValidUpTo(bytes) = Max(S)
  BY DEF ValidUpTo
<1> QED BY <1>4, <1>5

\* What is valid behind something valid is valid with it.
LEMMA ValidTogether ==
  ASSUME NEW bytes \in Seq(Byte), NEW v \in 0..Len(bytes), NEW n \in v..Len(bytes),
         Valid(SubSeq(bytes, 1, v)), Valid(SubSeq(bytes, v + 1, n))
  PROVE  Valid(SubSeq(bytes, 1, n))
<1>1. Len(bytes) \in Nat /\ \A i \in 1..Len(bytes) : bytes[i] \in Byte
  BY LenProperties, ElementOfSeq
<1>2. PICK s : s = SubSeq(bytes, 1, v)
  OBVIOUS
<1>3. PICK t : t = SubSeq(bytes, v + 1, n)
  OBVIOUS
<1>4. PICK u : u = SubSeq(bytes, 1, n)
  OBVIOUS
<1>5. Len(s) = v /\ DOMAIN s = 1..v /\ \A i \in 1..v : s[i] = bytes[i]
  <2>1. s \in Seq(Byte) /\ Len(s) = v /\ \A i \in 1..v : s[i] = bytes[i]
    BY <1>1, <1>2, SubSeqProperties
  <2> QED BY <2>1, LenProperties
<1>6. Len(t) = n - v /\ DOMAIN t = 1..(n - v) /\ \A i \in 1..(n - v) : t[i] = bytes[v + i]
  <2>1. t \in Seq(Byte) /\ Len(t) = n - v /\ \A i \in 1..(n - v) : t[i] = bytes[v + i]
    BY <1>1, <1>3, SubSeqProperties
  <2> QED BY <2>1, LenProperties
<1>7. Len(u) = n /\ DOMAIN u = 1..n /\ \A i \in 1..n : u[i] = bytes[i]
  <2>1. u \in Seq(Byte) /\ Len(u) = n /\ \A i \in 1..n : u[i] = bytes[i]
    BY <1>1, <1>4, SubSeqProperties
  <2> QED BY <2>1, LenProperties
<1>8. Valid(s) /\ Valid(t)
  BY <1>2, <1>3
<1>9. Valid(u)
  <2> SUFFICES ASSUME NEW i \in 1..n
               PROVE  /\ u[i] = Lead => i < n /\ u[i + 1] = Cont
                      /\ u[i] = Cont => i > 1 /\ u[i - 1] = Lead
    BY <1>7 DEF Valid
  <2>1. CASE i <= v
    <3>1. i \in 1..v
      BY <2>1
    <3>2. /\ s[i] = Lead => i < v /\ s[i + 1] = Cont
          /\ s[i] = Cont => i > 1 /\ s[i - 1] = Lead
      BY <1>5, <1>8, <3>1 DEF Valid
    <3> QED BY <1>5, <1>7, <3>1, <3>2
  <2>2. CASE i > v
    <3>1. PICK j : j = i - v
      OBVIOUS
    <3>2. j \in 1..(n - v) /\ v + j = i /\ v + (j + 1) = i + 1 /\ v + (j - 1) = i - 1
      BY <2>2, <3>1
    <3>3. /\ t[j] = Lead => j < n - v /\ t[j + 1] = Cont
          /\ t[j] = Cont => j > 1 /\ t[j - 1] = Lead
      BY <1>6, <1>8, <3>2 DEF Valid
    <3>4. t[j] = u[i]
      BY <1>6, <1>7, <3>2
    <3>5. j < n - v => t[j + 1] = u[i + 1]
      <4>1. j < n - v => j + 1 \in 1..(n - v) /\ i + 1 \in 1..n
        BY <3>2
      <4> QED BY <1>6, <1>7, <3>2, <4>1
    <3>6. j > 1 => t[j - 1] = u[i - 1]
      <4>1. j > 1 => j - 1 \in 1..(n - v) /\ i - 1 \in 1..n
        BY <3>2
      <4> QED BY <1>6, <1>7, <3>2, <4>1
    <3>7. u[i] = Lead => i < n /\ u[i + 1] = Cont
      BY <3>2, <3>3, <3>4, <3>5
    <3>8. u[i] = Cont => i > 1 /\ u[i - 1] = Lead
      <4>1. j > 1 => i > 1
        BY <3>2
      <4> QED BY <3>3, <3>4, <3>6, <4>1
    <3> QED BY <3>7, <3>8
  <2> QED BY <2>1, <2>2
<1> QED BY <1>4, <1>9

\* The buffer keeps every byte, and none of a whole character.
LEMMA FeedKeeps ==
  ASSUME NEW bytes \in Seq(Byte)
  PROVE  /\ Feed(bytes).text \in Seq(Byte)
         /\ Feed(bytes).pending \in Seq(Byte)
         /\ Feed(bytes).text \o Feed(bytes).pending = bytes
         /\ ValidUpTo(Feed(bytes).pending) = 0
<1>1. Len(bytes) \in Nat /\ \A i \in 1..Len(bytes) : bytes[i] \in Byte
  BY LenProperties, ElementOfSeq
<1>2. PICK v \in 0..Len(bytes) :
        /\ v = ValidUpTo(bytes) /\ Valid(SubSeq(bytes, 1, v))
        /\ \A n \in 0..Len(bytes) : Valid(SubSeq(bytes, 1, n)) => n <= v
  BY LongestValid
<1>3. PICK rest : rest = SubSeq(bytes, v + 1, Len(bytes))
  OBVIOUS
<1>4. rest \in Seq(Byte) /\ Len(rest) = Len(bytes) - v
      /\ \A i \in 1..(Len(bytes) - v) : rest[i] = bytes[v + i]
  BY <1>1, <1>3, SubSeqProperties
<1>5. SubSeq(bytes, 1, v) \in Seq(Byte)
  BY <1>1, SubSeqProperties
<1>6. SubSeq(bytes, 1, v) \o rest = bytes
  <2>1. SubSeq(bytes, 1, v) \o SubSeq(bytes, v + 1, Len(bytes)) = SubSeq(bytes, 1, Len(bytes))
    <3>1. 1 \in 1..(Len(bytes) + 1) /\ v \in (1 - 1)..Len(bytes) /\ Len(bytes) \in v..Len(bytes)
      BY <1>1
    <3> QED BY <3>1, ConcatAdjacentSubSeq
  <2> QED BY <1>3, <2>1, SubSeqFull
<1>7. ValidUpTo(rest) = 0
  <2>1. PICK n \in 0..Len(rest) : n = ValidUpTo(rest) /\ Valid(SubSeq(rest, 1, n))
    BY <1>4, LongestValid
  <2> SUFFICES ASSUME n > 0 PROVE FALSE
    BY <2>1
  <2>2. SubSeq(rest, 1, n) = SubSeq(bytes, v + 1, v + n)
    <3>1. v + 1 \in 1..Len(bytes) /\ Len(bytes) \in 1..Len(bytes)
          /\ 1 \in 1..(Len(bytes) - (v + 1) + 1) /\ n \in 1..(Len(bytes) - (v + 1) + 1)
      BY <1>1, <1>4
    <3>2. SubSeq(SubSeq(bytes, v + 1, Len(bytes)), 1, n) = SubSeq(bytes, (v + 1) + 1 - 1, (v + 1) + n - 1)
      BY <3>1, SubSeqOfSubSeq
    <3>3. (v + 1) + 1 - 1 = v + 1 /\ (v + 1) + n - 1 = v + n
      OBVIOUS
    <3> QED BY <1>3, <3>2, <3>3
  <2>3. v + n \in v..Len(bytes) /\ v + n \in 0..Len(bytes) /\ ~(v + n <= v)
    BY <1>1, <1>4
  <2>4. Valid(SubSeq(bytes, 1, v + n))
    BY <1>2, <2>1, <2>2, <2>3, ValidTogether
  <2> QED BY <1>2, <2>3, <2>4
<1> QED BY <1>2, <1>3, <1>4, <1>5, <1>6, <1>7 DEF Feed

-----------------------------------------------------------------------------
(* What an event does to what was offered *)

\* The sequence with one more event.
LEMMA OneMore ==
  ASSUME NEW events \in Seq(Events), NEW e \in Events
  PROVE  /\ Append(events, e) \in Seq(Events) /\ Append(events, e) # <<>>
         /\ Len(events) \in Nat /\ Len(Append(events, e)) = Len(events) + 1
         /\ DOMAIN events = 1..Len(events) /\ DOMAIN Append(events, e) = 1..(Len(events) + 1)
         /\ \A i \in 1..Len(events) : Append(events, e)[i] = events[i]
         /\ Append(events, e)[Len(events) + 1] = e /\ Last(Append(events, e)) = e
         /\ \A m \in 1..Len(events) : SubSeq(Append(events, e), 1, m) = SubSeq(events, 1, m)
<1>1. /\ Append(events, e) \in Seq(Events) /\ Append(events, e) # <<>>
      /\ Len(events) \in Nat /\ Len(Append(events, e)) = Len(events) + 1
      /\ DOMAIN events = 1..Len(events) /\ DOMAIN Append(events, e) = 1..(Len(events) + 1)
      /\ \A i \in 1..Len(events) : Append(events, e)[i] = events[i]
      /\ Append(events, e)[Len(events) + 1] = e
  OBVIOUS
<1>2. Last(Append(events, e)) = e
  BY <1>1 DEF Last
<1>3. ASSUME NEW m \in 1..Len(events)
      PROVE  SubSeq(Append(events, e), 1, m) = SubSeq(events, 1, m)
  <2>1. \A i \in 1..m : events[i] \in Events /\ Append(events, e)[i] = events[i]
    BY <1>1, ElementOfSeq
  <2>2. \A i \in 1..m : Append(events, e)[i] \in Events
    BY <2>1
  <2>3. /\ SubSeq(events, 1, m) \in Seq(Events) /\ Len(SubSeq(events, 1, m)) = m
        /\ \A i \in 1..m : SubSeq(events, 1, m)[i] = events[i]
    BY <1>1, <2>1, SubSeqProperties
  <2>4. /\ SubSeq(Append(events, e), 1, m) \in Seq(Events) /\ Len(SubSeq(Append(events, e), 1, m)) = m
        /\ \A i \in 1..m : SubSeq(Append(events, e), 1, m)[i] = Append(events, e)[i]
    BY <1>1, <2>2, SubSeqProperties
  <2> QED BY <2>1, <2>3, <2>4, SeqEqual
<1> QED BY <1>1, <1>2, <1>3

\* A token joins tokens whose text ends in no stop string.
LEMMA TokenJoins ==
  ASSUME NEW stop, NEW events \in Seq(Events), NEW e \in Events, IsToken(e),
         AllTokens(events), NoStopInside(stop, events),
         Len(events) > 0 => ~StopsAt(stop, TextOf(events))
  PROVE  AllTokens(Append(events, e)) /\ NoStopInside(stop, Append(events, e))
<1>1. PICK more : more = Append(events, e)
  OBVIOUS
<1>2. PICK n \in Nat : n = Len(events)
  BY OneMore
<1>3. /\ DOMAIN events = 1..n /\ DOMAIN more = 1..(n + 1) /\ more[n + 1] = e
      /\ \A i \in 1..n : more[i] = events[i] /\ SubSeq(more, 1, i) = SubSeq(events, 1, i)
  BY <1>1, <1>2, OneMore
<1>4. AllTokens(more)
  BY <1>3 DEF AllTokens
<1>5. ASSUME NEW m \in Tokens(more), NEW k \in Tokens(more), m < k
      PROVE  ~StopsAt(stop, TextOf(SubSeq(more, 1, m)))
  <2>1. m \in 1..n /\ SubSeq(more, 1, m) = SubSeq(events, 1, m)
    BY <1>3, <1>5 DEF Tokens
  <2>2. CASE m = n
    <3>1. SubSeq(events, 1, n) = events
      BY <1>2, SubSeqFull
    <3>2. SubSeq(more, 1, m) = events /\ Len(events) > 0
      BY <1>2, <2>1, <2>2, <3>1
    <3> QED BY <3>2
  <2>3. CASE m < n
    <3>1. m \in Tokens(events) /\ n \in Tokens(events)
      BY <1>3, <2>1, <2>3 DEF Tokens, AllTokens
    <3> QED BY <2>1, <2>3, <3>1 DEF NoStopInside
  <2> QED BY <1>2, <2>1, <2>2, <2>3
<1> QED BY <1>1, <1>4, <1>5 DEF NoStopInside

\* An event that is no token ends them.
LEMMA EndJoins ==
  ASSUME NEW stop, NEW events \in Seq(Events), NEW e \in Events, ~IsToken(e),
         AllTokens(events), NoStopInside(stop, events)
  PROVE  TokensFirst(Append(events, e)) /\ NoStopInside(stop, Append(events, e))
<1>1. PICK more : more = Append(events, e)
  OBVIOUS
<1>2. PICK n \in Nat : n = Len(events)
  BY OneMore
<1>3. /\ DOMAIN events = 1..n /\ DOMAIN more = 1..(n + 1) /\ more[n + 1] = e /\ Len(more) = n + 1
      /\ \A i \in 1..n : more[i] = events[i] /\ SubSeq(more, 1, i) = SubSeq(events, 1, i)
  BY <1>1, <1>2, OneMore
<1>4. TokensFirst(more)
  BY <1>3 DEF TokensFirst, AllTokens
<1>5. ASSUME NEW m \in Tokens(more), NEW k \in Tokens(more), m < k
      PROVE  ~StopsAt(stop, TextOf(SubSeq(more, 1, m)))
  <2>1. m \in 1..n /\ k \in 1..n /\ m \in Tokens(events) /\ k \in Tokens(events)
    BY <1>3, <1>5 DEF Tokens
  <2> QED BY <1>3, <1>5, <2>1 DEF NoStopInside
<1> QED BY <1>1, <1>4, <1>5 DEF NoStopInside

\* What was taken first has no stop string inside either.
LEMMA TakenFirst ==
  ASSUME NEW stop, NEW s \in Seq(Events), NEW t \in Seq(Events),
         TokensFirst(s \o t), NoStopInside(stop, s \o t)
  PROVE  TokensFirst(s) /\ NoStopInside(stop, s)
<1>1. PICK all : all = s \o t
  OBVIOUS
<1>2. /\ all \in Seq(Events) /\ Len(s) \in Nat /\ Len(all) \in Nat /\ Len(s) <= Len(all)
      /\ \A i \in 1..Len(s) : all[i] = s[i]
      /\ DOMAIN s = 1..Len(s) /\ DOMAIN all = 1..Len(all)
  <2>1. /\ all \in Seq(Events) /\ Len(all) = Len(s) + Len(t)
        /\ \A i \in 1..Len(s) + Len(t) : all[i] = IF i <= Len(s) THEN s[i] ELSE t[i - Len(s)]
    BY <1>1, ConcatProperties
  <2>2. Len(s) \in Nat /\ Len(t) \in Nat
    BY LenProperties
  <2>3. DOMAIN s = 1..Len(s) /\ DOMAIN all = 1..Len(all)
    BY <2>1, LenProperties
  <2> QED BY <2>1, <2>2, <2>3
<1>3. TokensFirst(s)
  BY <1>1, <1>2 DEF TokensFirst
<1>4. ASSUME NEW m \in Tokens(s), NEW k \in Tokens(s), m < k
      PROVE  ~StopsAt(stop, TextOf(SubSeq(s, 1, m)))
  <2>1. m \in Tokens(all) /\ k \in Tokens(all) /\ m \in 1..Len(s)
    BY <1>2 DEF Tokens
  <2>2. SubSeq(all, 1, m) = SubSeq(s, 1, m)
    <3>1. 1 \in 1..Len(s)
      BY <1>2, <2>1
    <3> QED BY <1>1, <2>1, <3>1, SubSeqOfConcat1
  <2> QED BY <1>1, <1>4, <2>1, <2>2 DEF NoStopInside
<1> QED BY <1>3, <1>4 DEF NoStopInside

\* Taking an event moves it and no other.
LEMMA TakeKeeps ==
  ASSUME NEW s \in Seq(Events), NEW t \in Seq(Events), t # <<>>
  PROVE  /\ Append(s, Head(t)) \in Seq(Events) /\ Tail(t) \in Seq(Events)
         /\ Append(s, Head(t)) \o Tail(t) = s \o t
         /\ ~IsToken(Head(t)) /\ TokensFirst(s \o t) => Tail(t) = <<>>
<1>1. Head(t) \in Events /\ Tail(t) \in Seq(Events) /\ Append(s, Head(t)) \in Seq(Events)
  BY HeadTailProperties
<1>2. Append(s, Head(t)) \o Tail(t) = s \o t
  OBVIOUS
<1>3. ~IsToken(Head(t)) /\ TokensFirst(s \o t) => Tail(t) = <<>>
  <2> SUFFICES ASSUME ~IsToken(Head(t)), TokensFirst(s \o t) PROVE Tail(t) = <<>>
    OBVIOUS
  <2>1. /\ Len(s) \in Nat /\ Len(t) \in Nat \ {0} /\ Len(s \o t) = Len(s) + Len(t)
        /\ Len(s) + 1 \in DOMAIN (s \o t) /\ (s \o t)[Len(s) + 1] = Head(t)
    OBVIOUS
  <2>2. ~(Len(s) + 1 < Len(s) + Len(t))
    BY <2>1 DEF TokensFirst
  <2>3. PICK a \in Nat, b \in Nat : a = Len(s) /\ b = Len(t)
    BY <2>1
  <2>4. Len(t) = 1
    <3>1. ~(a + 1 < a + b) /\ b # 0
      BY <2>1, <2>2, <2>3
    <3>2. b = 1
      BY <3>1
    <3> QED BY <2>3, <3>2
  <2>5. Len(Tail(t)) = 0
    BY <2>4, HeadTailProperties
  <2> QED BY <1>1, <2>5, EmptySeq
<1> QED BY <1>1, <1>2, <1>3

-----------------------------------------------------------------------------
(* The steps *)

\* An event joins what was offered, or is refused.
LEMMA Offering ==
  ASSUME ChatTypeOK, NEW e \in Events, Offer(e), UNCHANGED http
  PROVE  /\ channel' \in Seq(Events) /\ refused' \in BOOLEAN
         /\ Offered \in Seq(Events)
         /\ HasRoom => Offered' = Append(Offered, e) /\ refused' = refused /\ phase = "open"
         /\ ~HasRoom => Offered' = Offered /\ channel' = channel /\ refused' = TRUE
<1>1. body \in Seq(Events) /\ channel \in Seq(Events) /\ refused \in BOOLEAN /\ body' = body
  BY DEF ChatTypeOK, http
<1>2. CASE HasRoom
  <2>1. channel' = Append(channel, e) /\ refused' = refused /\ phase = "open"
    BY <1>1, <1>2 DEF Offer, HasRoom
  <2>2. body \o Append(channel, e) = Append(body \o channel, e)
    BY <1>1
  <2> QED BY <1>1, <1>2, <2>1, <2>2 DEF Offered
<1>3. CASE ~HasRoom
  <2>1. channel' = channel /\ refused' = TRUE
    BY <1>1, <1>3 DEF Offer
  <2>2. body \o channel \in Seq(Events)
    BY <1>1, ConcatProperties
  <2> QED BY <1>1, <1>3, <2>1, <2>2 DEF Offered
<1> QED BY <1>2, <1>3

\* Tokens end in no other event.
LEMMA TokensAreFirst ==
  ASSUME NEW events, AllTokens(events) PROVE TokensFirst(events)
BY DEF AllTokens, TokensFirst

\* An end that is offered: the session is over, and said so unless it was refused.
LEMMA Ending ==
  ASSUME ChatInv, NEW e \in Events, ~IsToken(e), Offer(e), UNCHANGED http,
         session \in {"ingest", "sampling"}, session' = "ended",
         ~refused /\ phase = "open" => Told(request, Append(Offered, e)),
         generated' \in Nat, pending' \in Seq(Byte), full_text' \in Seq(Byte),
         reason' \in Reasons, decoded' \in Seq(Byte)
  PROVE  ChatInv'
<1>1. ChatTypeOK /\ Unstarted /\ Opened /\ Going /\ Closed /\ NoStopInside(request.stop, Offered)
  BY DEF ChatInv
<1>2. /\ channel' \in Seq(Events) /\ refused' \in BOOLEAN
      /\ Offered \in Seq(Events)
      /\ HasRoom => Offered' = Append(Offered, e) /\ refused' = refused /\ phase = "open"
      /\ ~HasRoom => Offered' = Offered /\ channel' = channel /\ refused' = TRUE
  BY <1>1, Offering
<1>3. request' = request /\ phase' = phase /\ body' = body
  BY DEF http
<1>4. AllTokens(Offered)
  BY <1>1 DEF Going
<1>5. ChatTypeOK'
  BY <1>1, <1>2, <1>3 DEF ChatTypeOK
<1>6. Unstarted' /\ Opened' /\ Going'
  BY <1>1, <1>2, <1>3 DEF Unstarted, Opened, Going, HasRoom
<1>7. Closed'
  <2> SUFFICES ASSUME ~refused', phase' \in {"open", "answered"} PROVE Told(request, Offered)'
    BY DEF Closed
  <2>1. HasRoom /\ ~refused /\ phase = "open" /\ Offered' = Append(Offered, e)
    BY <1>2
  <2>2. Told(request, Append(Offered, e))
    BY <2>1
  <2> QED BY <1>3, <2>1, <2>2
<1>8. TokensFirst(Offered)' /\ NoStopInside(request.stop, Offered)'
  <2>1. CASE HasRoom
    BY <1>1, <1>2, <1>3, <1>4, <2>1, EndJoins
  <2>2. CASE ~HasRoom
    BY <1>1, <1>2, <1>3, <1>4, <2>2, TokensAreFirst
  <2> QED BY <2>1, <2>2
<1> QED BY <1>5, <1>6, <1>7, <1>8 DEF ChatInv

\* A step that offers nothing and ends nothing.
LEMMA IngestKeeps == ASSUME ChatInv, Ingest PROVE ChatInv'
<1>1. ChatTypeOK /\ Unstarted /\ Opened /\ Going /\ Closed
      /\ TokensFirst(Offered) /\ NoStopInside(request.stop, Offered)
  BY DEF ChatInv
<1>2. /\ session = "ingest" /\ UNCHANGED <<http, generated, pending, full_text, reason, decoded>>
  BY DEF Ingest
<1>3. CASE EndWithError
  <2>1. Error \in Events /\ ~IsToken(Error)
    BY DEF Events, Error, IsToken
  <2>2. Told(request, Append(Offered, Error))
    <3>1. Offered \in Seq(Events)
      BY <1>1, ConcatProperties DEF Offered, ChatTypeOK
    <3> QED BY <2>1, <3>1, OneMore DEF Told
  <2>3. Offer(Error) /\ session' = "ended" /\ UNCHANGED http
    BY <1>2, <1>3 DEF EndWithError
  <2> QED BY <1>1, <1>2, <2>1, <2>2, <2>3, Ending DEF ChatTypeOK
<1>4. CASE session' = "sampling" /\ UNCHANGED <<channel, refused>>
  <2>1. /\ request' = request /\ phase' = phase /\ body' = body /\ channel' = channel
        /\ refused' = refused /\ generated' = generated /\ pending' = pending
        /\ full_text' = full_text /\ reason' = reason /\ decoded' = decoded /\ Offered' = Offered
    BY <1>2, <1>4 DEF http, Offered
  <2>2. ChatTypeOK'
    BY <1>1, <1>4, <2>1 DEF ChatTypeOK
  <2>3. Unstarted' /\ Opened' /\ Closed'
    BY <1>1, <1>2, <1>4, <2>1 DEF Unstarted, Opened, Closed
  <2>4. Going'
    BY <1>1, <1>2, <1>4, <2>1 DEF Going
  <2> QED BY <1>1, <2>1, <2>2, <2>3, <2>4 DEF ChatInv
<1> QED BY <1>3, <1>4 DEF Ingest

\* A token that is offered continues the text, or ends it with a stop string.
LEMMA SampleKeeps == ASSUME ChatInv, NEW piece \in Piece, Sample(piece) PROVE ChatInv'
<1>1. ChatTypeOK /\ Unstarted /\ Opened /\ Going /\ Closed
      /\ TokensFirst(Offered) /\ NoStopInside(request.stop, Offered)
  BY DEF ChatInv
<1>2. /\ pending \in Seq(Byte) /\ full_text \in Seq(Byte) /\ decoded \in Seq(Byte)
      /\ piece \in Seq(Byte) /\ generated \in Nat
  BY <1>1, ChatAssumption DEF ChatTypeOK
<1>3. PICK text, rest : text = Feed(pending \o piece).text /\ rest = Feed(pending \o piece).pending
  OBVIOUS
<1>4. /\ text \in Seq(Byte) /\ rest \in Seq(Byte) /\ text \o rest = pending \o piece
      /\ ValidUpTo(rest) = 0
  <2>1. pending \o piece \in Seq(Byte)
    BY <1>2, ConcatProperties
  <2> QED BY <1>3, <2>1, FeedKeeps
<1>5. PICK e : e = Token(text)
  OBVIOUS
<1>6. e \in Events /\ IsToken(e) /\ e.text = text
  BY <1>4, <1>5 DEF Token, IsToken, Events
<1>7. /\ session = "sampling" /\ reason = "MaxTokens" /\ Offer(e)
      /\ pending' = rest /\ full_text' = full_text \o text
      /\ reason' = CASE ~HasRoom -> "Cancelled"
                     [] HasRoom /\ Stops(full_text \o text) -> "StopString"
                     [] OTHER -> "MaxTokens"
      /\ generated' = generated + 1 /\ decoded' = decoded \o piece
      /\ UNCHANGED <<http, session>>
  BY <1>3, <1>5 DEF Sample
<1>8. /\ channel' \in Seq(Events) /\ refused' \in BOOLEAN
      /\ Offered \in Seq(Events)
      /\ HasRoom => Offered' = Append(Offered, e) /\ refused' = refused /\ phase = "open"
      /\ ~HasRoom => Offered' = Offered /\ channel' = channel /\ refused' = TRUE
  BY <1>1, <1>6, <1>7, Offering
<1>9. request' = request /\ phase' = phase /\ body' = body /\ session' = "sampling"
  BY <1>7 DEF http
<1>10. AllTokens(Offered) /\ ~refused /\ (generated > 0 => ~StopsAt(request.stop, full_text))
  BY <1>1, <1>7 DEF Going
<1>11. /\ reason' \in {"Cancelled", "StopString", "MaxTokens"}
       /\ reason' = "Cancelled" <=> ~HasRoom
       /\ reason' = "StopString" => StopsAt(request.stop, full_text \o text)
       /\ reason' = "MaxTokens" => ~StopsAt(request.stop, full_text \o text)
  <2>1. Stops(full_text \o text) <=> StopsAt(request.stop, full_text \o text)
    BY DEF Stops, StopsAt
  <2>2. HasRoom \in BOOLEAN /\ Stops(full_text \o text) \in BOOLEAN
    BY DEF HasRoom, Stops
  <2> QED BY <1>7, <2>1, <2>2
<1>12. full_text \o text \in Seq(Byte) /\ decoded \o piece \in Seq(Byte)
  BY <1>2, <1>4, ConcatProperties
<1>13. ChatTypeOK'
  <2>1. request' \in Completions /\ phase' = phase /\ body' \in Seq(Events) /\ session' = "sampling"
    BY <1>1, <1>9 DEF ChatTypeOK
  <2>2. generated' \in Nat /\ pending' \in Seq(Byte) /\ full_text' \in Seq(Byte) /\ decoded' \in Seq(Byte)
    BY <1>2, <1>4, <1>7, <1>12
  <2>3. reason' \in Reasons /\ channel' \in Seq(Events) /\ refused' \in BOOLEAN
    BY <1>8, <1>11 DEF Reasons
  <2> QED BY <1>1, <2>1, <2>2, <2>3 DEF ChatTypeOK
<1>14. Unstarted' /\ Opened' /\ Closed'
  <2>1. Unstarted' /\ Closed'
    BY <1>9 DEF Unstarted, Closed
  <2>2. Opened'
    BY <1>1, <1>7, <1>8, <1>9 DEF Opened
  <2> QED BY <2>1, <2>2
<1>15. HasRoom =>
         /\ TextOf(Offered) = full_text /\ Len(Offered) = generated /\ full_text \o pending = decoded
  BY <1>1, <1>7, <1>8, <1>10 DEF Going
<1>16. HasRoom => AllTokens(Offered)' /\ NoStopInside(request.stop, Offered)'
  BY <1>1, <1>6, <1>8, <1>9, <1>10, <1>15, TokenJoins
<1>17. HasRoom => TextOf(Offered)' = (full_text \o text) /\ Len(Offered)' = generated + 1
  <2> SUFFICES ASSUME HasRoom
               PROVE  TextOf(Append(Offered, e)) = (full_text \o text) /\ Len(Append(Offered, e)) = generated + 1
    BY <1>8
  <2>1. TextOf(Append(Offered, e)) = TextWith(full_text, e)
    BY <1>6, <1>8, <1>15, TextGrows
  <2>2. Len(Append(Offered, e)) = Len(Offered) + 1
    BY <1>6, <1>8, OneMore
  <2> QED BY <1>6, <1>15, <2>1, <2>2 DEF TextWith
<1>18. HasRoom => (full_text \o text) \o rest = decoded \o piece
  <2>1. (full_text \o text) \o rest = full_text \o (text \o rest)
    <3>1. full_text \in Seq(Byte) /\ text \in Seq(Byte) /\ rest \in Seq(Byte)
      BY <1>2, <1>4
    <3> QED BY <3>1, ConcatAssociative
  <2>2. full_text \o (pending \o piece) = (full_text \o pending) \o piece
    <3>1. full_text \in Seq(Byte) /\ pending \in Seq(Byte) /\ piece \in Seq(Byte)
      BY <1>2
    <3> QED BY <3>1, ConcatAssociative
  <2> QED BY <1>4, <1>15, <2>1, <2>2
<1>19. AllTokens(Offered)' /\ NoStopInside(request.stop, Offered)'
  BY <1>1, <1>8, <1>9, <1>10, <1>16
<1>20. Going'
  <2>1. generated' > 0
    BY <1>2, <1>7
  <2>2. CASE HasRoom
    <3>1. refused' = FALSE /\ reason' # "Cancelled" /\ reason' # "EndOfStream"
      BY <1>8, <1>10, <1>11, <2>2
    <3>2. /\ TextOf(Offered)' = full_text' /\ Len(Offered)' = generated'
          /\ (full_text \o pending)' = decoded' /\ ValidUpTo(pending)' = 0
      BY <1>4, <1>7, <1>17, <1>18, <2>2
    <3> QED BY <1>7, <1>9, <1>11, <1>19, <2>1, <3>1, <3>2 DEF Going
  <2>3. CASE ~HasRoom
    <3>1. refused' = TRUE /\ reason' = "Cancelled"
      BY <1>8, <1>11, <2>3
    <3> QED BY <1>19, <3>1 DEF Going
  <2> QED BY <2>2, <2>3
<1>21. TokensFirst(Offered)'
  BY <1>19, TokensAreFirst
<1> QED BY <1>13, <1>14, <1>19, <1>20, <1>21 DEF ChatInv

\* A session that fails says so.
LEMMA DecodeFailsKeeps == ASSUME ChatInv, DecodeFails PROVE ChatInv'
<1>1. ChatTypeOK
  BY DEF ChatInv
<1>2. /\ session \in {"ingest", "sampling"} /\ Offer(Error) /\ session' = "ended"
      /\ UNCHANGED <<http, generated, pending, full_text, reason, decoded>>
  BY DEF DecodeFails, EndWithError
<1>3. Error \in Events /\ ~IsToken(Error)
  BY DEF Events, Error, IsToken
<1>4. Told(request, Append(Offered, Error))
  <2>1. Offered \in Seq(Events)
    BY <1>1, ConcatProperties DEF Offered, ChatTypeOK
  <2> QED BY <1>3, <2>1, OneMore DEF Told
<1> QED BY <1>1, <1>2, <1>3, <1>4, Ending DEF ChatTypeOK

\* Only the reason is set.
LEMMA EndOfStreamKeeps == ASSUME ChatInv, EndOfStream PROVE ChatInv'
<1>1. ChatTypeOK /\ Unstarted /\ Opened /\ Going /\ Closed
      /\ TokensFirst(Offered) /\ NoStopInside(request.stop, Offered)
  BY DEF ChatInv
<1>2. /\ session = "sampling" /\ reason = "MaxTokens" /\ reason' = "EndOfStream"
      /\ generated < request.max_tokens
      /\ request' = request /\ phase' = phase /\ body' = body /\ channel' = channel
      /\ session' = session /\ refused' = refused /\ generated' = generated /\ pending' = pending
      /\ full_text' = full_text /\ decoded' = decoded /\ Offered' = Offered
  BY DEF EndOfStream, http, Offered
<1>3. ChatTypeOK'
  BY <1>1, <1>2 DEF ChatTypeOK, Reasons
<1>4. Unstarted' /\ Opened' /\ Closed'
  BY <1>1, <1>2 DEF Unstarted, Opened, Closed
<1>5. Going'
  BY <1>1, <1>2 DEF Going
<1> QED BY <1>1, <1>2, <1>3, <1>4, <1>5 DEF ChatInv

\* The end that a session tells is the way it ended.
LEMMA FinishSessionKeeps == ASSUME ChatInv, FinishSession PROVE ChatInv'
<1>1. ChatTypeOK /\ Going
  BY DEF ChatInv
<1>2. PICK e : e = Stop(reason)
  OBVIOUS
<1>3. /\ session = "sampling" /\ (reason # "MaxTokens" \/ generated = request.max_tokens)
      /\ session' = "ended" /\ Offer(e)
      /\ full_text' = full_text \o pending /\ pending' = <<>>
      /\ UNCHANGED <<http, generated, reason, decoded>>
  BY <1>2 DEF FinishSession
<1>4. /\ pending \in Seq(Byte) /\ full_text \in Seq(Byte) /\ decoded \in Seq(Byte)
      /\ generated \in Nat /\ reason \in Reasons /\ Offered \in Seq(Events)
  BY <1>1, ConcatProperties DEF ChatTypeOK, Offered
<1>5. e \in Events /\ ~IsToken(e)
  BY <1>2, <1>4 DEF Events, Stop, IsToken
<1>6. ASSUME ~refused, phase = "open" PROVE Told(request, Append(Offered, e))
  <2>1. /\ Append(Offered, e) # <<>> /\ Last(Append(Offered, e)) = e
        /\ Len(Offered) \in Nat /\ Len(Append(Offered, e)) = Len(Offered) + 1
    BY <1>4, <1>5, OneMore
  <2>2. TextOf(Append(Offered, e)) = full_text /\ Len(Offered) = generated
    <3>1. TextOf(Offered) = full_text /\ Len(Offered) = generated
      BY <1>1, <1>3, <1>6 DEF Going
    <3> QED BY <1>4, <1>5, <3>1, TextGrows DEF TextWith
  <2>3. reason = "MaxTokens" <=>
          generated = request.max_tokens /\ ~(generated > 0 /\ StopsAt(request.stop, full_text))
    <3>1. reason # "Cancelled"
      BY <1>1, <1>3, <1>6 DEF Going
    <3>2. CASE reason = "MaxTokens"
      BY <1>1, <1>3, <3>2 DEF Going
    <3>3. CASE reason = "StopString"
      BY <1>1, <1>3, <3>3 DEF Going
    <3>4. CASE reason = "EndOfStream"
      <4>1. generated < request.max_tokens
        BY <1>1, <1>3, <3>4 DEF Going
      <4>2. generated # request.max_tokens
        BY <1>4, <4>1
      <4> QED BY <3>4, <4>2
    <3> QED BY <1>4, <3>1, <3>2, <3>3, <3>4 DEF Reasons
  <2>4. PICK n \in Nat : n = generated /\ n = Len(Offered) /\ Len(Append(Offered, e)) = n + 1
    BY <2>1, <2>2
  <2>5. (n + 1) - 1 = generated /\ (n + 1 > 1 <=> generated > 0)
    BY <2>4
  <2> QED BY <1>2, <1>4, <1>5, <2>1, <2>2, <2>3, <2>4, <2>5 DEF Told
<1>7. full_text' \in Seq(Byte) /\ pending' \in Seq(Byte)
  <2>1. full_text \o pending \in Seq(Byte)
    BY <1>4, ConcatProperties
  <2> QED BY <1>3, <2>1
<1> QED BY <1>3, <1>4, <1>5, <1>6, <1>7, Ending

\* Steps of the connection that touch neither events nor session.
LEMMA QuietKeeps ==
  ASSUME ChatInv, UNCHANGED <<request, body, decoding, channel, decoded, refused>>,
         \/ phase \in {"idle", "asked"} /\ phase' \in {"asked", "answered"}
         \/ phase = "open" /\ phase' = "answered" /\ channel = <<>> /\ session = "ended"
         \/ phase' = phase
  PROVE  ChatInv'
<1>1. ChatTypeOK /\ Unstarted /\ Opened /\ Going /\ Closed
      /\ TokensFirst(Offered) /\ NoStopInside(request.stop, Offered)
  BY DEF ChatInv
<1>2. /\ request' = request /\ body' = body /\ channel' = channel
      /\ session' = session /\ refused' = refused /\ generated' = generated /\ pending' = pending
      /\ full_text' = full_text /\ decoded' = decoded /\ reason' = reason /\ Offered' = Offered
  BY DEF decoding, Offered
<1>3. ChatTypeOK'
  BY <1>1, <1>2 DEF ChatTypeOK
<1>4. Unstarted' /\ Opened' /\ Going' /\ Closed'
  BY <1>1, <1>2 DEF Unstarted, Opened, Going, Closed
<1> QED BY <1>1, <1>2, <1>3, <1>4 DEF ChatInv

\* A session starts with nothing.
LEMMA OpenSessionKeeps == ASSUME ChatInv, OpenSession PROVE ChatInv'
<1>1. ChatTypeOK /\ Unstarted /\ Opened /\ Going /\ Closed
      /\ TokensFirst(Offered) /\ NoStopInside(request.stop, Offered)
  BY DEF ChatInv
<1>2. /\ phase = "asked" /\ phase' = "open" /\ session' = "ingest"
      /\ request' = request /\ body' = body /\ channel' = channel
      /\ refused' = refused /\ generated' = generated /\ pending' = pending
      /\ full_text' = full_text /\ decoded' = decoded /\ reason' = reason /\ Offered' = Offered
  BY DEF OpenSession, Offered
<1>3. /\ session = "none" /\ body = <<>> /\ channel = <<>> /\ ~refused /\ reason = "MaxTokens"
      /\ generated = 0 /\ full_text = <<>> /\ pending = <<>> /\ decoded = <<>>
  BY <1>1, <1>2 DEF Opened, Unstarted
<1>4. ChatTypeOK'
  BY <1>1, <1>2 DEF ChatTypeOK
<1>5. Unstarted' /\ Opened' /\ Closed'
  BY <1>2, <1>3 DEF Unstarted, Opened, Closed
<1>6. Going'
  <2>1. Offered = <<>> /\ AllTokens(Offered) /\ TextOf(Offered) = <<>> /\ Len(Offered) = 0
    <3>1. Offered = <<>> /\ <<>> \in Seq(Events)
      BY <1>3 DEF Offered
    <3>2. TextOf(<<>>) = <<>>
      BY <3>1, TextGrows
    <3> QED BY <3>1, <3>2 DEF AllTokens
  <2>2. ValidUpTo(<<>>) = 0
    <3>1. PICK none : none = <<>>
      OBVIOUS
    <3>2. none \in Seq(Byte) /\ Len(none) = 0
      BY <3>1
    <3>3. ValidUpTo(none) \in 0..Len(none)
      BY <3>2, LongestValid
    <3>4. ValidUpTo(none) = 0
      BY <3>2, <3>3
    <3> QED BY <3>1, <3>4
  <2>3. <<>> \o <<>> = <<>>
    OBVIOUS
  <2> QED BY <1>2, <1>3, <2>1, <2>2, <2>3 DEF Going
<1> QED BY <1>1, <1>2, <1>4, <1>5, <1>6 DEF ChatInv

\* Events are taken in order; a collected answer fails with the last.
LEMMA TakeStepKeeps == ASSUME ChatInv, Take PROVE ChatInv'
<1>1. ChatTypeOK /\ Unstarted /\ Opened /\ Going /\ Closed
      /\ TokensFirst(Offered) /\ NoStopInside(request.stop, Offered)
  BY DEF ChatInv
<1>2. /\ phase = "open" /\ channel # <<>>
      /\ channel' = Tail(channel) /\ body' = Append(body, Head(channel))
      /\ phase' = phase \/ (phase' = "answered" /\ Head(channel) = Error)
      /\ request' = request /\ session' = session /\ refused' = refused
      /\ generated' = generated /\ pending' = pending
      /\ full_text' = full_text /\ decoded' = decoded /\ reason' = reason
  BY DEF Take, Reply, decoding
<1>3. body \in Seq(Events) /\ channel \in Seq(Events)
  BY <1>1 DEF ChatTypeOK
<1>4. /\ body' \in Seq(Events) /\ channel' \in Seq(Events) /\ Offered' = Offered
      /\ Head(channel) = Error => channel' = <<>>
  <2>1. ~IsToken(Error)
    BY DEF IsToken, Error
  <2> QED BY <1>1, <1>2, <1>3, <2>1, TakeKeeps DEF Offered
<1>5. ChatTypeOK'
  BY <1>1, <1>2, <1>4 DEF ChatTypeOK
<1>6. session # "none" /\ session # "ingest"
  BY <1>1, <1>2 DEF Opened, Unstarted
<1>7. Unstarted' /\ Opened' /\ Going' /\ Closed'
  BY <1>1, <1>2, <1>4, <1>6 DEF Unstarted, Opened, Going, Closed
<1> QED BY <1>1, <1>2, <1>4, <1>5, <1>7 DEF ChatInv

\* What a client that leaves has not taken is gone.
LEMMA LeaveKeeps == ASSUME ChatInv, Leave PROVE ChatInv'
<1>1. ChatTypeOK /\ Unstarted /\ Opened /\ Going /\ Closed
      /\ TokensFirst(Offered) /\ NoStopInside(request.stop, Offered)
  BY DEF ChatInv
<1>2. /\ phase = "open" /\ phase' = "gone" /\ channel' = <<>>
      /\ request' = request /\ session' = session /\ refused' = refused /\ body' = body
      /\ generated' = generated /\ pending' = pending
      /\ full_text' = full_text /\ decoded' = decoded /\ reason' = reason
  BY DEF Leave, decoding
<1>3. body \in Seq(Events) /\ channel \in Seq(Events)
  BY <1>1 DEF ChatTypeOK
<1>4. Offered' = body
  BY <1>2, <1>3, ConcatEmptySeq DEF Offered
<1>5. ChatTypeOK'
  BY <1>1, <1>2 DEF ChatTypeOK
<1>6. Unstarted' /\ Opened' /\ Closed'
  BY <1>1, <1>2 DEF Unstarted, Opened, Closed
<1>7. Going'
  <2>1. AllTokens(Offered) => AllTokens(body)
    <3>1. \A i \in DOMAIN body : i \in DOMAIN (body \o channel) /\ (body \o channel)[i] = body[i]
      BY <1>3
    <3> QED BY <3>1 DEF AllTokens, Offered
  <2> QED BY <1>1, <1>2, <1>4, <2>1 DEF Going
<1>8. TokensFirst(Offered)' /\ NoStopInside(request.stop, Offered)'
  BY <1>1, <1>2, <1>3, <1>4, TakenFirst DEF Offered
<1> QED BY <1>5, <1>6, <1>7, <1>8 DEF ChatInv

-----------------------------------------------------------------------------
(* The theorem *)

\* Nothing is offered yet.
LEMMA ChatStarts == ASSUME ChatInit PROVE ChatInv
<1>1. /\ request \in Completions /\ phase = "idle" /\ body = <<>>
      /\ session = "none" /\ generated = 0 /\ pending = <<>> /\ full_text = <<>> /\ reason = "MaxTokens"
      /\ channel = <<>> /\ decoded = <<>> /\ refused = FALSE
  BY DEF ChatInit
<1>2. ChatTypeOK
  <2>1. <<>> \in Seq(Events) /\ <<>> \in Seq(Byte) /\ "MaxTokens" \in Reasons
    BY EmptySeq DEF Reasons
  <2> QED BY <1>1, <2>1 DEF ChatTypeOK
<1>3. Unstarted /\ Opened /\ Going /\ Closed
  BY <1>1 DEF Unstarted, Opened, Going, Closed
<1>4. Offered = <<>>
  BY <1>1 DEF Offered
<1>5. TokensFirst(Offered) /\ NoStopInside(request.stop, Offered)
  BY <1>4 DEF TokensFirst, NoStopInside, Tokens
<1> QED BY <1>2, <1>3, <1>5 DEF ChatInv

\* Every step keeps the invariant.
LEMMA ChatStep == ASSUME ChatInv, [ChatNext]_chatVars PROVE ChatInv'
<1>1. CASE Post
  BY <1>1, QuietKeeps DEF Post
<1>2. CASE Ingest
  BY <1>2, IngestKeeps
<1>3. ASSUME NEW piece \in Piece, Sample(piece) PROVE ChatInv'
  BY <1>3, SampleKeeps
<1>4. CASE DecodeFails
  BY <1>4, DecodeFailsKeeps
<1>5. CASE EndOfStream
  BY <1>5, EndOfStreamKeeps
<1>6. CASE FinishSession
  BY <1>6, FinishSessionKeeps
<1>7. CASE RefuseRequest
  BY <1>7, QuietKeeps DEF RefuseRequest, Reply
<1>8. CASE LoadFails
  BY <1>8, QuietKeeps DEF LoadFails, Reply
<1>9. CASE OpenSession
  BY <1>9, OpenSessionKeeps
<1>10. CASE Take
  BY <1>10, TakeStepKeeps
<1>11. CASE EndBody
  BY <1>11, QuietKeeps DEF EndBody, Over, Reply
<1>12. CASE Leave
  BY <1>12, LeaveKeeps
<1>13. CASE UNCHANGED chatVars
  BY <1>13, QuietKeeps DEF chatVars, http
<1> QED BY <1>1, <1>2, <1>3, <1>4, <1>5, <1>6, <1>7, <1>8, <1>9, <1>10, <1>11, <1>12, <1>13
        DEF ChatNext, SessionStep, HandlerStep

\* The answer that was taken whole tells its end as the session did.
LEMMA EndIsTold ==
  ASSUME ChatInv, phase = "answered", session = "ended", ~refused
  PROVE  /\ {i \in DOMAIN body : ~IsToken(body[i])} # {}
         /\ Last(body) # Error =>
              \A finish \in {Completion.finish, Last(Chunks).finish} :
                (finish = "length") <=> (Completion.completion_tokens = request.max_tokens /\ ~MetStop)
<1>1. body \in Seq(Events) /\ channel = <<>>
  BY DEF ChatInv, ChatTypeOK, Opened
<1>2. Offered = body
  BY <1>1, ConcatEmptySeq DEF Offered
<1>3. Told(request, body) /\ TokensFirst(body)
  BY <1>2 DEF ChatInv, Closed
<1>4. PICK n \in Nat : n = Len(body) /\ n > 0 /\ DOMAIN body = 1..n /\ Last(body) = body[n]
  <2>1. Len(body) \in Nat /\ Len(body) > 0 /\ DOMAIN body = 1..Len(body)
    BY <1>1, <1>3 DEF Told
  <2> QED BY <2>1 DEF Last
<1>5. ~IsToken(body[n]) /\ \A i \in 1..n : i < n => IsToken(body[i])
  BY <1>3, <1>4 DEF Told, TokensFirst
<1>6. Tokens(body) = 1..(n - 1) /\ Cardinality(Tokens(body)) = n - 1
  <2>1. Tokens(body) = 1..(n - 1)
    BY <1>4, <1>5 DEF Tokens
  <2>2. Cardinality(1..(n - 1)) = n - 1
    <3>1. PICK m \in Nat : m = n - 1
      BY <1>4
    <3>2. Cardinality(1..m) = IF 1 > m THEN 0 ELSE m - 1 + 1
      BY FS_Interval
    <3>3. Cardinality(1..m) = m
      BY <3>2
    <3> QED BY <3>1, <3>3
  <2> QED BY <2>1, <2>2
<1>7. /\ Completion.completion_tokens = n - 1 /\ Completion.text = TextOf(body)
      /\ Completion.finish = IF \E i \in DOMAIN body : FinishOf(body[i]) = "length" THEN "length" ELSE "stop"
  BY <1>6 DEF Completion, ChatCompletionResponse
<1>8. MetStop <=> n > 1 /\ StopsAt(request.stop, TextOf(body))
  BY <1>7 DEF MetStop, Stops, StopsAt
<1>9. ASSUME body[n] # Error
      PROVE  FinishOf(body[n]) = "length" <=> (n - 1 = request.max_tokens /\ ~MetStop)
  <2>1. PICK why \in Reasons :
          /\ body[n] = Stop(why)
          /\ why = "MaxTokens" <=>
               n - 1 = request.max_tokens /\ ~(n > 1 /\ StopsAt(request.stop, TextOf(body)))
    BY <1>3, <1>4, <1>9 DEF Told
  <2>2. body[n] = Stop("MaxTokens") <=> why = "MaxTokens"
    BY <2>1 DEF Stop
  <2>3. FinishOf(body[n]) = "length" <=> body[n] = Stop("MaxTokens")
    BY <1>5 DEF FinishOf
  <2> QED BY <1>8, <2>1, <2>2, <2>3
<1>10. Completion.finish = "length" <=> FinishOf(body[n]) = "length"
  <2>1. \A i \in 1..n : i < n => FinishOf(body[i]) # "length"
    <3>1. \A e : IsToken(e) => FinishOf(e) = "none"
      BY DEF FinishOf, IsToken, Stop
    <3> QED BY <1>5, <3>1
  <2>2. \A i \in 1..n : i = n \/ i < n
    OBVIOUS
  <2> QED BY <1>4, <1>7, <2>1, <2>2
<1>11. Last(Chunks).finish = FinishOf(body[n])
  <2>1. Chunks[n].finish = FinishOf(body[n])
    BY <1>4 DEF Chunks, ChatCompletionChunk
  <2>2. Len(Chunks) = n
    BY <1>4 DEF Chunks
  <2> QED BY <2>1, <2>2 DEF Last
<1> QED BY <1>4, <1>5, <1>7, <1>9, <1>10, <1>11

\* The text of the answer is what was decoded, up to its first stop, and its end is
\* told as it was (session.rs, openai.rs).
THEOREM AnswersAreFaithful == ChatSpec => []StreamFaithful
<1>1. ChatInv => StreamFaithful
  <2> SUFFICES ASSUME ChatInv PROVE StreamFaithful
    OBVIOUS
  <2>1. body \in Seq(Events) /\ channel \in Seq(Events)
    BY DEF ChatInv, ChatTypeOK
  <2>2. TextKept
    BY DEF ChatInv, Going, TextKept, Offered
  <2>3. TokensFirst(body) /\ NoStopInside(request.stop, body)
    BY <2>1, TakenFirst DEF ChatInv, Offered
  <2>4. StopsAtStop
    BY <2>3 DEF StopsAtStop, NoStopInside, Stops, StopsAt
  <2>5. FinishTold
    <3>1. {i \in DOMAIN body : ~IsToken(body[i])} \subseteq {Len(body)}
      <4>1. DOMAIN body = 1..Len(body) /\ Len(body) \in Nat
        BY <2>1, LenProperties
      <4> QED BY <2>3, <4>1 DEF TokensFirst
    <3>2. ASSUME NEW i \in DOMAIN body, NEW j \in DOMAIN body,
                 Chunks[i].role = "assistant", Chunks[j].role = "assistant"
          PROVE  i = j
      <4>1. /\ IsToken(body[i]) /\ \A k \in 1..(i - 1) : ~IsToken(body[k])
            /\ IsToken(body[j]) /\ \A k \in 1..(j - 1) : ~IsToken(body[k])
        BY <3>2 DEF Chunks, ChatCompletionChunk
      <4>2. DOMAIN body = 1..Len(body) /\ Len(body) \in Nat
        BY <2>1, LenProperties
      <4>3. i \notin 1..(j - 1) /\ j \notin 1..(i - 1)
        BY <4>1
      <4> QED BY <4>2, <4>3
    <3> QED BY <3>1, <3>2, EndIsTold DEF FinishTold
  <2> QED BY <2>2, <2>4, <2>5 DEF StreamFaithful
<1> QED BY <1>1, ChatStarts, ChatStep, PTL DEF ChatSpec

-----------------------------------------------------------------------------
(* The model files: the invariant *)

Names == {"slot", "staging", "partial"}

\* The chunks of a model's file, right and wrong ones.
ChunksOf(m) == ({m} \X Nat) \cup {Bad}
AllChunks == (Model \X Nat) \cup {Bad}

Entry == [model : Model, size : Nat]

Request == [pc : Labels, kind : {None, "load", "own", "gc"}, model : Model \cup {None}, mirror : Nat,
            fd : FileId \cup {None}, from : Nat, hashed : Seq(AllChunks), size : Nat,
            victim : Model \cup {None}, seen : Seq(AllChunks), got : Seq(AllChunks)]

\* No index lists a model twice.
Unique(idx) == \A j, k \in DOMAIN idx : idx[j].model = idx[k].model => j = k

DirRecord == [slot : FileId \cup {None}, staging : FileId \cup {None}, partial : FileId \cup {None}]

IndexTypes ==
  /\ index \in [Task \cup {Main} -> Seq(Entry)]
  /\ \A i \in Task \cup {Main} : Unique(index[i])

EngineTypes == engine \in [DOMAIN engine -> Seq(AllChunks)]

CacheTypeOK ==
  /\ dir \in [Model -> DirRecord]
  /\ files \in [FileId -> Seq(AllChunks)]
  /\ IndexTypes /\ EngineTypes
  /\ task \in [Task -> Request]
  /\ manifests \subseteq Model /\ overlapped \subseteq Model /\ crowded \in BOOLEAN

\* A request has its model, unless it makes room for an operator.
Working(t) ==
  /\ task[t].kind = "gc" => task[t].pc \in {"idle", "room", "drop", "done"}
  /\ task[t].pc # "idle" /\ task[t].kind # "gc" => task[t].model \in Model
  /\ task[t].fd # None <=> task[t].pc = "stream"

\* Its file has no name of another model, and chunks of its own.
Writes(t) ==
  /\ \A m \in Model : \A x \in Names :
       task[t].fd # None /\ task[t].model # m => dir[m][x] # task[t].fd
  /\ task[t].pc = "stream" => files[task[t].fd] \in Seq(ChunksOf(task[t].model))
  /\ task[t].pc = "read" => task[t].seen \in Seq(ChunksOf(task[t].model))

\* It goes on where the partial ends, and has hashed what the partial holds.
Resumes(t) ==
  task[t].pc = "request" /\ task[t].model \notin overlapped =>
    task[t].from = IF dir[task[t].model].partial = None THEN 0 ELSE Len(files[dir[task[t].model].partial])
Hashes(t) ==
  task[t].pc = "stream" /\ task[t].model \notin overlapped =>
    dir[task[t].model].partial = task[t].fd /\ files[task[t].fd] = task[t].hashed

\* It has the model.
Gets(t) ==
  /\ task[t].pc = "read" /\ task[t].model \notin overlapped => task[t].seen = Full(task[t].model)
  /\ task[t].pc = "done" /\ task[t].kind # "gc" /\ task[t].model \notin overlapped =>
       task[t].seen = Full(task[t].model) /\ task[t].got = Full(task[t].model)

TaskInv(t) == Working(t) /\ Writes(t) /\ Resumes(t) /\ Hashes(t) /\ Gets(t)

\* The files of a model have chunks of the model and one name each, and those
\* that were verified are the model.
ModelInv(m) ==
  /\ \A x, y \in Names : dir[m][x] = dir[m][y] /\ dir[m][x] # None => x = y
  /\ \A x \in Names : dir[m][x] # None => files[dir[m][x]] \in Seq(ChunksOf(m))
  /\ m \notin overlapped =>
       \A x \in {"slot", "staging"} : dir[m][x] # None => files[dir[m][x]] = Full(m)

\* Models share no files.
NamesApart ==
  \A m, k \in Model : m # k => \A x, y \in Names : dir[m][x] # None => dir[m][x] # dir[k][y]
FdsApart ==
  \A t, u \in Task : task[t].fd = task[u].fd /\ task[t].fd # None => task[t].model = task[u].model

Erased == \A f \in FileId : f \notin Referenced => files[f] = <<>>

\* A model that is downloaded by two at once counts as overlapped.
Alone ==
  \A t, u \in Task :
    Downloading(t) /\ Downloading(u) /\ task[t].model = task[u].model /\ task[t].model \notin overlapped => t = u

EngineHolds == \A m \in Model \ overlapped : Full(m) \in DOMAIN engine => engine[Full(m)] = Full(m)

FilesInv ==
  /\ CacheTypeOK
  /\ \A t \in Task : TaskInv(t)
  /\ \A m \in Model : ModelInv(m)
  /\ NamesApart /\ FdsApart /\ Erased /\ Alone /\ EngineHolds

\* Sizes are those of the models.
Measured(idx) == \A j \in DOMAIN idx : idx[j].size = SizeOf[idx[j].model]
Sized ==
  overlapped = {} =>
    /\ \A i \in Task \cup {Main} : Measured(index[i])
    /\ \A t \in Task :
         task[t].pc \in {"room", "drop", "place", "record"} /\ task[t].kind # "gc" =>
           task[t].size = SizeOf[task[t].model] /\ task[t].size <= MaxBytes

OnePlaces == ~crowded => \A t, u \in Task : Placing(t) /\ Placing(u) => t = u

SlotBytes == [m \in Model |-> IF dir[m].slot = None THEN 0 ELSE Len(files[dir[m].slot])]

\* The file that is about to be moved in fits beside the others.
Capped ==
  ~crowded /\ overlapped = {} =>
    /\ OnDisk <= MaxBytes
    /\ \A t \in Task :
         task[t].pc = "place" =>
           SumFunctionOnSet(SlotBytes, Model \ {task[t].model}) + SizeOf[task[t].model] <= MaxBytes

CacheInv == FilesInv /\ Sized /\ OnePlaces /\ Capped

-----------------------------------------------------------------------------
(* A step of one request *)

\* What a step of a request leaves to the others.
Touches(t) ==
  LET mine == task[t].model
      fd == task[t].fd
  IN /\ \A u \in Task \ {t} : task'[u] = task[u]
     /\ overlapped \subseteq overlapped'
     /\ \A m \in Model \ {mine} :
          /\ dir'[m].partial = dir[m].partial
          /\ \A x \in Names : dir'[m][x] \in {None, dir[m][x]}
     /\ mine \in Model =>
          /\ \A x \in Names :
               \/ dir'[mine][x] \in {None} \cup {dir[mine][y] : y \in Names}
               \/ dir'[mine][x] \notin Referenced
          /\ \/ dir'[mine].partial = dir[mine].partial
             \/ Downloading(t)
             \/ \A u \in Task \ {t} : Downloading(u) /\ task[u].model = mine => mine \in overlapped'
     /\ \A f \in FileId : f \in Referenced' /\ f # fd => files'[f] = files[f]
     /\ fd # None /\ fd \in Referenced' => files'[fd] \in Seq(ChunksOf(mine))
     /\ Erased'

\* What it does to itself, when it goes on downloading or opens a file.
Continues(t) ==
  /\ task'[t].pc \in {"request", "stream"} =>
       /\ task'[t].model = task[t].model
       /\ \/ Downloading(t)
          \/ \A u \in Task \ {t} :
               Downloading(u) /\ task[u].model = task[t].model => task[t].model \in overlapped'
  /\ task'[t].fd # None =>
       /\ task[t].model \in Model
       /\ \/ task'[t].fd \in {task[t].fd} \cup {dir[task[t].model][y] : y \in Names}
          \/ task'[t].fd \notin Referenced

\* Names and open files are referenced.
LEMMA Refers ==
  /\ \A m \in Model : \A x \in Names : dir[m][x] \in Referenced
  /\ \A t \in Task : task[t].fd \in Referenced
BY DEF Referenced, Names

\* Or will be.
LEMMA WillRefer ==
  /\ \A m \in Model : \A x \in Names : dir'[m][x] \in Referenced'
  /\ \A t \in Task : task'[t].fd \in Referenced'
BY DEF Referenced, Names

\* A name's file, if it has one.
LEMMA NameTypes ==
  ASSUME dir \in [Model -> DirRecord]
  PROVE  \A m \in Model : \A x \in Names : dir[m][x] \in FileId \cup {None}
<1> SUFFICES ASSUME NEW m \in Model PROVE \A x \in Names : dir[m][x] \in FileId \cup {None}
  OBVIOUS
<1>1. dir[m] \in DirRecord
  OBVIOUS
<1> QED BY <1>1 DEF Names, DirRecord

\* What a model has after a step of another's request.
LEMMA OtherModels ==
  ASSUME FilesInv, NEW t \in Task, Touches(t), CacheTypeOK', NEW m \in Model, m # task[t].model
  PROVE  /\ ModelInv(m)'
         /\ \A x \in Names : dir'[m][x] # None =>
              /\ dir'[m][x] = dir[m][x] /\ dir[m][x] \in FileId
              /\ dir[m][x] # task[t].fd /\ files'[dir[m][x]] = files[dir[m][x]]
<1>1. ModelInv(m) /\ TaskInv(t) /\ CacheTypeOK
  BY DEF FilesInv
<1>2. ASSUME NEW x \in Names, dir'[m][x] # None
      PROVE  /\ dir'[m][x] = dir[m][x] /\ dir[m][x] \in FileId
             /\ dir[m][x] # task[t].fd /\ files'[dir[m][x]] = files[dir[m][x]]
  <2>1. dir'[m][x] = dir[m][x]
    BY <1>2 DEF Touches
  <2>2. dir[m][x] \in FileId
    BY <1>1, <1>2, <2>1, NameTypes DEF CacheTypeOK
  <2>3. dir[m][x] # task[t].fd
    <3>1. task[t].fd # None => dir[m][x] # task[t].fd
      BY <1>1 DEF TaskInv, Writes
    <3> QED BY <1>2, <2>1, <3>1
  <2>4. dir[m][x] \in Referenced'
    BY <2>1, WillRefer
  <2> QED BY <2>1, <2>2, <2>3, <2>4 DEF Touches
<1>3. overlapped \subseteq overlapped'
  BY DEF Touches
<1>4. \A x, y \in Names : dir'[m][x] = dir'[m][y] /\ dir'[m][x] # None => x = y
  BY <1>1, <1>2 DEF ModelInv
<1>5. \A x \in Names : dir'[m][x] # None => files'[dir'[m][x]] \in Seq(ChunksOf(m))
  BY <1>1, <1>2 DEF ModelInv
<1>6. ASSUME m \notin overlapped', NEW x \in {"slot", "staging"}, dir'[m][x] # None
      PROVE  files'[dir'[m][x]] = Full(m)
  <2>1. x \in Names /\ m \notin overlapped
    BY <1>3, <1>6 DEF Names
  <2>2. dir'[m][x] = dir[m][x] /\ files'[dir[m][x]] = files[dir[m][x]]
    BY <1>2, <1>6, <2>1
  <2>3. files[dir[m][x]] = Full(m)
    BY <1>1, <1>6, <2>1, <2>2 DEF ModelInv
  <2> QED BY <2>2, <2>3
<1>7. Full(m)' = Full(m)
  BY DEF Full
<1> QED BY <1>2, <1>4, <1>5, <1>6, <1>7 DEF ModelInv

\* What another request has.
LEMMA OtherTasks ==
  ASSUME FilesInv, NEW t \in Task, Touches(t), CacheTypeOK', NEW u \in Task, u # t
  PROVE  TaskInv(u)'
<1>1. TaskInv(u) /\ TaskInv(t) /\ CacheTypeOK /\ task'[u] = task[u] /\ overlapped \subseteq overlapped'
  BY DEF FilesInv, Touches
<1>2. PICK m : m = task[u].model
  OBVIOUS
<1>3. PICK fd : fd = task[u].fd
  OBVIOUS
<1>4. PICK n : n = task[t].model
  OBVIOUS
<1>5. fd \in FileId \cup {None} /\ fd \in Referenced /\ fd \in Referenced'
  <2>1. task[u] \in Request
    BY <1>1 DEF CacheTypeOK
  <2> QED BY <1>1, <1>3, <2>1, Refers, WillRefer DEF Request
<1>6. Working(u)'
  BY <1>1 DEF TaskInv, Working
<1>7. task[u].pc = "stream" => fd # None /\ fd \in FileId /\ m \in Model
  <2>1. task[u].pc = "stream" => fd # None
    BY <1>1, <1>3 DEF TaskInv, Working
  <2>2. task[u].pc = "stream" => task[u].pc # "idle" /\ task[u].kind # "gc"
    BY <1>1 DEF TaskInv, Working
  <2>3. task[u].pc = "stream" => m \in Model
    BY <1>1, <1>2, <2>2 DEF TaskInv, Working
  <2> QED BY <1>5, <2>1, <2>3
<1>8. task[u].pc = "stream" => files'[fd] \in Seq(ChunksOf(m))
  <2> SUFFICES ASSUME task[u].pc = "stream" PROVE files'[fd] \in Seq(ChunksOf(m))
    OBVIOUS
  <2>1. files[fd] \in Seq(ChunksOf(m))
    BY <1>1, <1>2, <1>3 DEF TaskInv, Writes
  <2>2. CASE fd = task[t].fd
    <3>1. n = m
      BY <1>2, <1>3, <1>4, <1>7, <2>2 DEF FilesInv, FdsApart
    <3> QED BY <1>4, <1>5, <1>7, <2>2, <3>1 DEF Touches
  <2>3. CASE fd # task[t].fd
    BY <1>5, <1>7, <2>1, <2>3 DEF Touches
  <2> QED BY <2>2, <2>3
<1>9. \A k \in Model : \A x \in Names : fd # None /\ m # k => dir'[k][x] # fd
  <2> SUFFICES ASSUME NEW k \in Model, NEW x \in Names, fd # None, m # k PROVE dir'[k][x] # fd
    OBVIOUS
  <2>1. \A y \in Names : dir[k][y] # fd
    BY <1>1, <1>2, <1>3 DEF TaskInv, Writes
  <2>2. CASE k = n
    BY <1>4, <1>5, <2>1, <2>2 DEF Touches
  <2>3. CASE k # n
    BY <1>4, <2>1, <2>3 DEF Touches
  <2> QED BY <2>2, <2>3
<1>10. Writes(u)'
  <2>1. task[u].pc = "read" => task[u].seen \in Seq(ChunksOf(m))
    BY <1>1, <1>2 DEF TaskInv, Writes
  <2>2. \A k \in Model : \A x \in Names : task'[u].fd # None /\ task'[u].model # k => dir'[k][x] # task'[u].fd
    BY <1>1, <1>2, <1>3, <1>9
  <2>4. task'[u].pc = "stream" => files'[task'[u].fd] \in Seq(ChunksOf(task'[u].model))
    BY <1>1, <1>2, <1>3, <1>8
  <2>5. task'[u].pc = "read" => task'[u].seen \in Seq(ChunksOf(task'[u].model))
    BY <1>1, <1>2, <2>1
  <2> QED BY <2>2, <2>4, <2>5 DEF Writes
\* While it downloads a model alone, the partial stays as it is.
<1>11. ASSUME Downloading(u), m \notin overlapped'
       PROVE  /\ m \in Model /\ dir'[m].partial = dir[m].partial
              /\ dir[m].partial # None =>
                   dir[m].partial # task[t].fd /\ files'[dir[m].partial] = files[dir[m].partial]
  <2>1. m \notin overlapped
    BY <1>1, <1>11
  <2>2. m \in Model
    BY <1>1, <1>2, <1>11 DEF Downloading, TaskInv, Working
  <2>3. CASE m = n
    <3>1. ~Downloading(t)
      BY <1>2, <1>4, <1>11, <2>1, <2>3 DEF FilesInv, Alone
    <3>2. dir'[m].partial = dir[m].partial
      BY <1>2, <1>4, <1>11, <2>2, <2>3, <3>1 DEF Touches
    <3>3. task[t].fd = None
      BY <1>1, <3>1 DEF Downloading, TaskInv, Working
    <3>4. dir[m].partial # None => files'[dir[m].partial] = files[dir[m].partial]
      <4>1. dir'[m]["partial"] \in Referenced' /\ dir[m]["partial"] \in FileId \cup {None}
        BY <1>1, <2>2, WillRefer, NameTypes DEF Names, CacheTypeOK
      <4> QED BY <3>2, <3>3, <4>1 DEF Touches
    <3> QED BY <2>2, <3>2, <3>3, <3>4
  <2>4. CASE m # n
    <3>1. dir'[m].partial = dir[m].partial
      BY <1>4, <2>2, <2>4 DEF Touches
    <3>2. dir'[m]["partial"] # None =>
            dir[m]["partial"] # task[t].fd /\ files'[dir[m]["partial"]] = files[dir[m]["partial"]]
      BY <1>4, <2>2, <2>4, OtherModels DEF Names
    <3> QED BY <2>2, <3>1, <3>2
  <2> QED BY <2>3, <2>4
<1>12. Resumes(u)'
  <2> SUFFICES ASSUME task[u].pc = "request", m \notin overlapped'
               PROVE  task[u].from = IF dir'[m].partial = None THEN 0 ELSE Len(files'[dir'[m].partial])
    BY <1>1, <1>2 DEF Resumes
  <2>1. m \notin overlapped /\ Downloading(u)
    BY <1>1 DEF Downloading
  <2>2. task[u].from = IF dir[m].partial = None THEN 0 ELSE Len(files[dir[m].partial])
    BY <1>1, <1>2, <2>1 DEF TaskInv, Resumes
  <2>3. PICK p : p = dir[m].partial
    OBVIOUS
  <2>4. dir'[m].partial = p /\ (p # None => files'[p] = files[p])
    BY <1>11, <2>1, <2>3
  <2> QED BY <2>2, <2>3, <2>4
<1>13. Hashes(u)'
  <2> SUFFICES ASSUME task[u].pc = "stream", m \notin overlapped'
               PROVE  dir'[m].partial = fd /\ files'[fd] = task[u].hashed
    BY <1>1, <1>2, <1>3 DEF Hashes
  <2>1. m \notin overlapped /\ Downloading(u)
    BY <1>1 DEF Downloading
  <2>2. dir[m].partial = fd /\ files[fd] = task[u].hashed
    BY <1>1, <1>2, <1>3, <2>1 DEF TaskInv, Hashes
  <2> QED BY <1>7, <1>11, <2>1, <2>2
<1>14. Gets(u)'
  <2>1. Full(m)' = Full(m)
    BY DEF Full
  <2> QED BY <1>1, <1>2, <2>1 DEF TaskInv, Gets
<1> QED BY <1>6, <1>10, <1>12, <1>13, <1>14 DEF TaskInv

\* A step that touches nothing of the others and leaves its own in order keeps
\* the invariant.
LEMMA StepKeeps ==
  ASSUME FilesInv, NEW t \in Task, Touches(t), Continues(t), CacheTypeOK',
         TaskInv(t)', \A m \in Model : m = task[t].model => ModelInv(m)', EngineHolds'
  PROVE  FilesInv'
<1>1. \A u \in Task : TaskInv(u)'
  BY OtherTasks
<1>2. ASSUME NEW m \in Model PROVE ModelInv(m)'
  BY OtherModels
<1>3. PICK n : n = task[t].model
  OBVIOUS
<1>4. ASSUME NEW m \in Model, NEW k \in Model, m # k, NEW x \in Names, NEW y \in Names, dir'[m][x] # None
      PROVE  dir'[m][x] # dir'[k][y]
  <2>1. \A z, w \in Names : dir[m][z] # None => dir[m][z] # dir[k][w]
    BY <1>4 DEF FilesInv, NamesApart
  <2>2. \A z, w \in Names : dir[k][z] # None => dir[k][z] # dir[m][w]
    BY <1>4 DEF FilesInv, NamesApart
  <2>3. CASE m # n /\ k # n
    BY <1>3, <1>4, <2>1, <2>3 DEF Touches
  <2>4. CASE m = n
    <3>1. dir'[k][y] \in {None, dir[k][y]} /\ dir[k][y] \in Referenced
      BY <1>3, <1>4, <2>4, Refers DEF Touches
    <3>2. dir'[m][x] \in {dir[m][z] : z \in Names} \/ dir'[m][x] \notin Referenced
      BY <1>3, <1>4, <2>4 DEF Touches
    <3> QED BY <1>4, <2>1, <2>2, <3>1, <3>2
  <2>5. CASE k = n
    <3>1. dir'[m][x] = dir[m][x] /\ dir[m][x] \in Referenced
      BY <1>3, <1>4, <2>5, Refers DEF Touches
    <3>2. dir'[k][y] \in {None} \cup {dir[k][z] : z \in Names} \/ dir'[k][y] \notin Referenced
      BY <1>3, <1>4, <2>5 DEF Touches
    <3> QED BY <1>4, <2>1, <2>2, <3>1, <3>2
  <2> QED BY <2>3, <2>4, <2>5
<1>5. NamesApart'
  BY <1>4 DEF NamesApart
<1>6. \A u \in Task \ {t} : task'[u] = task[u]
  BY DEF Touches
<1>7. ASSUME NEW u \in Task \ {t}, task'[t].fd # None, task'[t].fd = task[u].fd
      PROVE  task'[t].model = task[u].model
  <2>1. n \in Model /\ (task'[t].fd \in {task[t].fd} \cup {dir[n][y] : y \in Names} \/ task'[t].fd \notin Referenced)
    BY <1>3, <1>7 DEF Continues
  <2>2. task[u].fd \in Referenced
    BY Refers
  <2>3. task'[t].model = n
    <3>1. task'[t].pc = "stream"
      BY <1>7 DEF TaskInv, Working
    <3> QED BY <1>3, <3>1 DEF Continues
  <2>4. CASE task'[t].fd = task[t].fd
    BY <1>3, <1>7, <2>3, <2>4 DEF FilesInv, FdsApart
  <2>5. ASSUME NEW y \in Names, task'[t].fd = dir[n][y] PROVE task[u].model = n
    <3>1. TaskInv(u)
      BY DEF FilesInv
    <3> QED BY <1>7, <2>1, <2>5, <3>1 DEF TaskInv, Writes
  <2> QED BY <1>7, <2>1, <2>2, <2>3, <2>4, <2>5
<1>8. FdsApart'
  <2> SUFFICES ASSUME NEW v \in Task, NEW u \in Task, task'[v].fd = task'[u].fd, task'[v].fd # None
               PROVE  task'[v].model = task'[u].model
    BY DEF FdsApart
  <2>1. CASE v # t /\ u # t
    BY <1>6, <2>1 DEF FilesInv, FdsApart
  <2>2. CASE v = t /\ u # t
    BY <1>6, <1>7, <2>2
  <2>3. CASE v # t /\ u = t
    BY <1>6, <1>7, <2>3
  <2> QED BY <2>1, <2>2, <2>3
<1>9. ASSUME NEW u \in Task \ {t}, Downloading(t)', Downloading(u),
             task'[t].model = task[u].model, task'[t].model \notin overlapped'
      PROVE  FALSE
  <2>1. task'[t].model = n /\ (Downloading(t) \/ \A v \in Task \ {t} : Downloading(v) /\ task[v].model = n => n \in overlapped')
    BY <1>3, <1>9 DEF Continues, Downloading
  <2>2. n \notin overlapped
    BY <1>9, <2>1 DEF Touches
  <2> QED BY <1>3, <1>9, <2>1, <2>2 DEF FilesInv, Alone
<1>10. Alone'
  <2> SUFFICES ASSUME NEW v \in Task, NEW u \in Task, Downloading(v)', Downloading(u)',
                      task'[v].model = task'[u].model, task'[v].model \notin overlapped', v # u
               PROVE  FALSE
    BY DEF Alone
  <2>1. CASE v # t /\ u # t
    <3>1. Downloading(v) /\ Downloading(u) /\ task[v].model = task[u].model /\ task[v].model \notin overlapped
      BY <1>6, <2>1 DEF Downloading, Touches
    <3> QED BY <3>1 DEF FilesInv, Alone
  <2>2. CASE v = t /\ u # t
    <3>1. Downloading(u) /\ task'[u] = task[u]
      BY <1>6, <2>2 DEF Downloading
    <3> QED BY <1>9, <2>2, <3>1
  <2>3. CASE v # t /\ u = t
    <3>1. Downloading(v) /\ task'[v] = task[v]
      BY <1>6, <2>3 DEF Downloading
    <3> QED BY <1>9, <2>3, <3>1
  <2> QED BY <2>1, <2>2, <2>3
<1>11. Erased'
  BY DEF Touches
<1> QED BY <1>1, <1>2, <1>5, <1>8, <1>10, <1>11 DEF FilesInv

-----------------------------------------------------------------------------
(* The index *)

\* The entries of an index, each in one place, are of some set.
IndexOf(idx, E) == idx \in Seq(E) /\ Unique(idx)

\* Without one entry, the others stay in their order.
LEMMA RemoveAtIs ==
  ASSUME NEW E, NEW s \in Seq(E), NEW p \in DOMAIN s
  PROVE  /\ RemoveAt(s, p) \in Seq(E) /\ DOMAIN RemoveAt(s, p) = 1..(Len(s) - 1)
         /\ \A j \in 1..(Len(s) - 1) : RemoveAt(s, p)[j] = s[IF j < p THEN j ELSE j + 1]
<1>1. p \in 1..Len(s) /\ Len(s) \in Nat
  OBVIOUS
<1>2. PICK a : a = SubSeq(s, 1, p - 1)
  OBVIOUS
<1>3. PICK b : b = SubSeq(s, p + 1, Len(s))
  OBVIOUS
<1>4. /\ a \in Seq(E) /\ Len(a) = p - 1
      /\ \A i \in 1..(p - 1) : a[i] = s[i]
  <2>1. \A i \in 1..(p - 1) : i \in DOMAIN s
    BY <1>1
  <2>2. \A i \in 1..(p - 1) : s[i] \in E
    BY <2>1
  <2>3. /\ a \in Seq(E) /\ Len(a) = IF 1 <= p - 1 THEN (p - 1) - 1 + 1 ELSE 0
        /\ \A i \in 1..((p - 1) - 1 + 1) : a[i] = s[1 + i - 1]
    BY <1>1, <1>2, <2>2, SubSeqProperties
  <2> QED BY <1>1, <2>3
<1>5. /\ b \in Seq(E) /\ Len(b) = Len(s) - p
      /\ \A i \in 1..(Len(s) - p) : b[i] = s[p + i]
  <2>1. \A i \in (p + 1)..Len(s) : i \in DOMAIN s
    BY <1>1
  <2>2. \A i \in (p + 1)..Len(s) : s[i] \in E
    BY <2>1
  <2>3. /\ b \in Seq(E) /\ Len(b) = IF p + 1 <= Len(s) THEN Len(s) - (p + 1) + 1 ELSE 0
        /\ \A i \in 1..(Len(s) - (p + 1) + 1) : b[i] = s[(p + 1) + i - 1]
    BY <1>1, <1>3, <2>2, SubSeqProperties
  <2>4. Len(b) = Len(s) - p
    BY <1>1, <2>3
  <2>5. ASSUME NEW i \in 1..(Len(s) - p) PROVE b[i] = s[p + i]
    <3>1. i \in 1..(Len(s) - (p + 1) + 1) /\ (p + 1) + i - 1 = p + i
      BY <1>1
    <3> QED BY <2>3, <3>1
  <2> QED BY <2>3, <2>4, <2>5
<1>6. PICK c : c = a \o b
  OBVIOUS
<1>7. RemoveAt(s, p) = c
  BY <1>2, <1>3, <1>6 DEF RemoveAt
<1>8. /\ c \in Seq(E) /\ Len(c) = Len(s) - 1
      /\ \A i \in 1..(Len(s) - 1) : c[i] = IF i <= p - 1 THEN a[i] ELSE b[i - (p - 1)]
  <2>1. /\ c \in Seq(E) /\ Len(c) = Len(a) + Len(b)
        /\ \A i \in 1..(Len(a) + Len(b)) : c[i] = IF i <= Len(a) THEN a[i] ELSE b[i - Len(a)]
    BY <1>4, <1>5, <1>6, ConcatProperties
  <2>2. Len(a) = p - 1 /\ Len(a) + Len(b) = Len(s) - 1
    BY <1>1, <1>4, <1>5
  <2> QED BY <2>1, <2>2
<1>9. ASSUME NEW j \in 1..(Len(s) - 1) PROVE c[j] = s[IF j < p THEN j ELSE j + 1]
  <2>1. CASE j < p
    <3>1. j \in 1..(p - 1) /\ j <= p - 1
      BY <1>1, <2>1
    <3> QED BY <1>4, <1>8, <2>1, <3>1
  <2>2. CASE ~(j < p)
    <3>1. j - (p - 1) \in 1..(Len(s) - p) /\ ~(j <= p - 1) /\ p + (j - (p - 1)) = j + 1
      BY <1>1, <2>2
    <3> QED BY <1>5, <1>8, <2>2, <3>1
  <2> QED BY <2>1, <2>2
<1>10. DOMAIN c = 1..(Len(s) - 1)
  <2>1. DOMAIN c = 1..Len(c)
    BY <1>8
  <2> QED BY <1>8, <2>1
<1>11. /\ c \in Seq(E) /\ DOMAIN c = 1..(Len(s) - 1)
       /\ \A j \in 1..(Len(s) - 1) : c[j] = s[IF j < p THEN j ELSE j + 1]
  BY <1>8, <1>9, <1>10
<1> QED BY <1>7, <1>11

\* An index without a model's entry.
LEMMA WithoutIs ==
  ASSUME NEW E, NEW idx, IndexOf(idx, E), NEW m
  PROVE  IndexOf(Without(idx, m), E) /\ m \notin Listed(Without(idx, m))
<1>1. CASE ~Holds(idx, m)
  BY <1>1 DEF Without, Holds
<1>2. CASE Holds(idx, m)
  <2>1. PICK p : p = PositionOf(idx, m)
    OBVIOUS
  <2>2. p \in DOMAIN idx /\ idx[p].model = m
    BY <1>2, <2>1 DEF Holds, Listed, PositionOf
  <2>3. PICK w : w = RemoveAt(idx, p)
    OBVIOUS
  <2>4. /\ w \in Seq(E) /\ DOMAIN w = 1..(Len(idx) - 1)
        /\ \A j \in 1..(Len(idx) - 1) : w[j] = idx[IF j < p THEN j ELSE j + 1]
    BY <2>2, <2>3, RemoveAtIs DEF IndexOf
  <2>5. Len(idx) \in Nat /\ DOMAIN idx = 1..Len(idx) /\ p \in 1..Len(idx)
    BY <2>2 DEF IndexOf
  <2>6. \A j \in DOMAIN w : (IF j < p THEN j ELSE j + 1) \in DOMAIN idx /\ (IF j < p THEN j ELSE j + 1) # p
    BY <2>4, <2>5
  <2>7. Unique(w)
    <3> SUFFICES ASSUME NEW j \in DOMAIN w, NEW k \in DOMAIN w, w[j].model = w[k].model PROVE j = k
      BY DEF Unique
    <3>1. PICK a \in DOMAIN idx : a = IF j < p THEN j ELSE j + 1
      BY <2>6
    <3>2. PICK b \in DOMAIN idx : b = IF k < p THEN k ELSE k + 1
      BY <2>6
    <3>3. w[j] = idx[a] /\ w[k] = idx[b]
      BY <2>4, <3>1, <3>2
    <3>4. a = b
      BY <3>3 DEF IndexOf, Unique
    <3> QED BY <2>4, <2>5, <3>1, <3>2, <3>4
  <2>8. ASSUME NEW j \in DOMAIN w PROVE w[j].model # m
    <3>1. PICK a \in DOMAIN idx : a = IF j < p THEN j ELSE j + 1
      BY <2>6
    <3>2. w[j] = idx[a] /\ a # p
      BY <2>4, <2>6, <3>1
    <3> QED BY <2>2, <3>2 DEF IndexOf, Unique
  <2>9. m \notin Listed(w)
    BY <2>8 DEF Listed
  <2> QED BY <1>2, <2>1, <2>3, <2>4, <2>7, <2>9 DEF Without, IndexOf
<1> QED BY <1>1, <1>2

\* An index with a model's entry put last.
LEMMA AppendedIs ==
  ASSUME NEW E, NEW idx, IndexOf(idx, E), NEW e \in E, e.model \notin Listed(idx)
  PROVE  IndexOf(Append(idx, e), E)
<1>1. PICK w : w = Append(idx, e)
  OBVIOUS
<1>2. /\ w \in Seq(E) /\ Len(w) = Len(idx) + 1
      /\ \A i \in 1..Len(idx) : w[i] = idx[i]
      /\ w[Len(idx) + 1] = e
  BY <1>1, AppendProperties DEF IndexOf
<1>3. Len(idx) \in Nat /\ DOMAIN idx = 1..Len(idx) /\ DOMAIN w = 1..(Len(idx) + 1)
  BY <1>2 DEF IndexOf
<1>4. \A j \in 1..Len(idx) : w[j] = idx[j] /\ idx[j].model # e.model
  BY <1>2, <1>3 DEF Listed
<1>5. \A j \in DOMAIN w : j \in 1..Len(idx) \/ j = Len(idx) + 1
  BY <1>3
<1>6. Unique(w)
  BY <1>2, <1>3, <1>4, <1>5 DEF Unique, IndexOf
<1> QED BY <1>1, <1>2, <1>6 DEF IndexOf

\* An index whose entry of a model was used.
LEMMA TouchedIs ==
  ASSUME NEW E, NEW idx, IndexOf(idx, E), NEW m
  PROVE  IndexOf(Touched(idx, m), E)
<1>1. CASE ~Holds(idx, m)
  BY <1>1 DEF Touched
<1>2. CASE Holds(idx, m)
  <2>1. PICK e : e = idx[PositionOf(idx, m)]
    OBVIOUS
  <2>2. PositionOf(idx, m) \in DOMAIN idx /\ e.model = m
    BY <1>2, <2>1 DEF Holds, Listed, PositionOf
  <2>3. e \in E
    BY <2>1, <2>2 DEF IndexOf
  <2>4. IndexOf(Append(Without(idx, m), e), E)
    BY <2>2, <2>3, WithoutIs, AppendedIs
  <2> QED BY <1>2, <2>1, <2>4 DEF Touched
<1> QED BY <1>1, <1>2

\* The entries of the files that are in their slots.
OnSlots == {[model |-> m, size |-> Len(files[dir[m].slot])] : m \in {k \in Model : dir[k].slot # None}}

\* An index that is made from the directory.
LEMMA RebuiltIs ==
  ASSUME NEW idx \in Rebuilds
  PROVE  IndexOf(idx, OnSlots)
<1>1. IsFiniteSet(OnSlots)
  <2> DEFINE S == {k \in Model : dir[k].slot # None}
             g == [m \in S |-> [model |-> m, size |-> Len(files[dir[m].slot])]]
  <2>1. IsFiniteSet(S)
    BY ModelCacheAssumption, FS_Subset DEF ModelCacheAssumption
  <2>2. g \in Surjection(S, OnSlots)
    BY DEF Surjection, OnSlots
  <2> QED BY <2>1, <2>2, FS_Surjection
<1>2. PICK n \in Nat : n = Cardinality(OnSlots)
  BY <1>1, FS_CardinalityType
<1>3. idx \in [1..n -> OnSlots] /\ \A i, j \in 1..n : i # j => idx[i] # idx[j]
  BY <1>2 DEF Rebuilds, SetToSeqs, OnSlots
<1>4. idx \in Seq(OnSlots) /\ DOMAIN idx = 1..n
  BY <1>3
<1>5. \A a, b \in OnSlots : a.model = b.model => a = b
  BY DEF OnSlots
<1>6. Unique(idx)
  BY <1>3, <1>4, <1>5 DEF Unique
<1> QED BY <1>4, <1>6 DEF IndexOf

-----------------------------------------------------------------------------
(* The steps that leave the directory alone *)

\* A request that does not download.
Fit(r) ==
  /\ r \in Request /\ r.fd = None /\ r.pc \notin {"request", "stream"}
  /\ r.kind = "gc" => r.pc \in {"idle", "room", "drop", "done"}
  /\ r.pc # "idle" /\ r.kind # "gc" => r.model \in Model
  /\ r.pc = "read" => r.seen \in Seq(ChunksOf(r.model))

\* What it says to have is its model.
Earned(r, over) ==
  /\ r.pc = "read" /\ r.model \notin over => r.seen = Full(r.model)
  /\ r.pc = "done" /\ r.kind # "gc" /\ r.model \notin over => r.seen = Full(r.model) /\ r.got = Full(r.model)

\* Such a request is in order.
LEMMA FitIs ==
  ASSUME NEW t \in Task, NEW r, Fit(r), Earned(r, overlapped'), task'[t] = r
  PROVE  TaskInv(t)'
<1>1. Working(t)'
  BY DEF Fit, Working
<1>2. Writes(t)'
  BY DEF Fit, Writes
<1>3. Resumes(t)'
  BY DEF Fit, Resumes
<1>4. Hashes(t)'
  BY DEF Fit, Hashes
<1>5. Gets(t)'
  BY DEF Earned, Gets
<1> QED BY <1>1, <1>2, <1>3, <1>4, <1>5 DEF TaskInv

\* Keeping the directory and the files keeps the invariant.
LEMMA DiskRests ==
  ASSUME FilesInv, NEW t \in Task, NEW r, Fit(r), Earned(r, overlapped), task' = [task EXCEPT ![t] = r],
         task[t].pc # "stream", dir' = dir, files' = files, overlapped' = overlapped,
         IndexTypes', EngineTypes', EngineHolds', crowded' \in BOOLEAN, manifests' \subseteq Model
  PROVE  FilesInv'
<1>1. CacheTypeOK /\ TaskInv(t) /\ r \in Request
  BY DEF FilesInv, Fit
<1>2. task'[t] = r /\ \A u \in Task \ {t} : task'[u] = task[u]
  BY <1>1 DEF CacheTypeOK
<1>3. task[t].fd = None /\ r.fd = None
  BY <1>1 DEF TaskInv, Working, Fit
<1>4. \A u \in Task : task'[u].fd = task[u].fd
  BY <1>2, <1>3
<1>5. Referenced' = Referenced
  BY <1>4 DEF Referenced
<1>6. Erased'
  BY <1>5 DEF Erased, FilesInv
<1>7. CacheTypeOK'
  <2>1. task' \in [Task -> Request]
    BY <1>1 DEF CacheTypeOK
  <2> QED BY <1>1, <2>1 DEF CacheTypeOK
<1>8. Touches(t)
  <2>1. \A m \in Model : \A x \in Names : dir'[m][x] = dir[m][x]
    OBVIOUS
  <2>2. \A m \in Model : dir'[m].partial = dir[m].partial
    OBVIOUS
  <2> QED BY <1>2, <1>3, <1>6, <2>1, <2>2 DEF Touches
<1>9. Continues(t)
  BY <1>2 DEF Continues, Fit
<1>10. TaskInv(t)'
  BY <1>2, FitIs
<1>11. ASSUME NEW m \in Model PROVE ModelInv(m)'
  <2>1. ModelInv(m)
    BY DEF FilesInv
  <2> QED BY <2>1 DEF ModelInv
<1> QED BY <1>7, <1>8, <1>9, <1>10, <1>11, StepKeeps

\* An index takes the place of another.
LEMMA IndexSet ==
  ASSUME CacheTypeOK, NEW i \in Task \cup {Main}, NEW idx, IndexOf(idx, Entry), index' = [index EXCEPT ![i] = idx]
  PROVE  IndexTypes'
<1>1. idx \in Seq(Entry) /\ Unique(idx)
  BY DEF IndexOf
<1>2. index' \in [Task \cup {Main} -> Seq(Entry)]
  BY <1>1 DEF CacheTypeOK, IndexTypes
<1>3. \A k \in Task \cup {Main} : index'[k] = IF k = i THEN idx ELSE index[k]
  BY DEF CacheTypeOK, IndexTypes
<1>4. \A k \in Task \cup {Main} : Unique(index'[k])
  BY <1>1, <1>3 DEF CacheTypeOK, IndexTypes
<1> QED BY <1>2, <1>4 DEF IndexTypes

\* What an index holds.
LEMMA IndexTyped ==
  ASSUME CacheTypeOK, NEW i \in Task \cup {Main}
  PROVE  IndexOf(index[i], Entry)
BY DEF CacheTypeOK, IndexTypes, IndexOf

\* The index a request works with is one.
LEMMA MgrIs == ASSUME NEW t \in Task PROVE Mgr(t) \in Task \cup {Main}
BY DEF Mgr

\* The entries of the directory.
LEMMA SlotEntries ==
  ASSUME CacheTypeOK
  PROVE  OnSlots \subseteq Entry
<1> SUFFICES ASSUME NEW m \in Model, dir[m].slot # None PROVE [model |-> m, size |-> Len(files[dir[m].slot])] \in Entry
  BY DEF OnSlots
<1>1. dir[m].slot \in FileId
  BY DEF CacheTypeOK, DirRecord
<1>2. files[dir[m].slot] \in Seq(AllChunks)
  BY <1>1 DEF CacheTypeOK
<1>3. Len(files[dir[m].slot]) \in Nat
  BY <1>2
<1> QED BY <1>3 DEF Entry

\* An index made from the directory has its type.
LEMMA RebuiltTyped ==
  ASSUME CacheTypeOK, NEW idx \in Rebuilds
  PROVE  IndexOf(idx, Entry)
BY RebuiltIs, SlotEntries DEF IndexOf

\* A whole file.
LEMMA FullIs ==
  ASSUME NEW m \in Model
  PROVE  /\ Full(m) \in Seq(ChunksOf(m)) /\ Len(Full(m)) = SizeOf[m] /\ SizeOf[m] \in Nat \ {0}
         /\ Full(m) # <<>> /\ Full(m)[1] = <<m, 1>>
<1>1. SizeOf[m] \in Nat \ {0}
  BY ModelCacheAssumption DEF ModelCacheAssumption
<1>2. PICK n \in Nat : n = SizeOf[m] /\ n >= 1
  BY <1>1
<1>3. Full(m) = [i \in 1..n |-> <<m, i>>]
  BY <1>2 DEF Full
<1>4. \A i \in 1..n : <<m, i>> \in ChunksOf(m)
  BY DEF ChunksOf
<1>5. Full(m) \in Seq(ChunksOf(m)) /\ Len(Full(m)) = n /\ Full(m)[1] = <<m, 1>>
  BY <1>2, <1>3, <1>4
<1> QED BY <1>1, <1>2, <1>5

\* A model's chunks are chunks.
LEMMA ChunksAre ==
  ASSUME NEW m \in Model
  PROVE  ChunksOf(m) \subseteq AllChunks /\ Seq(ChunksOf(m)) \subseteq Seq(AllChunks)
<1>1. ChunksOf(m) \subseteq AllChunks
  BY DEF ChunksOf, AllChunks
<1> QED BY <1>1

\* Another model's file is no sequence of a model's chunks.
LEMMA FullApart ==
  ASSUME NEW m \in Model, NEW k \in Model, Full(k) \in Seq(ChunksOf(m))
  PROVE  k = m
<1>1. 1 \in DOMAIN Full(k) /\ Full(k)[1] = <<k, 1>>
  BY FullIs
<1>2. <<k, 1>> \in ChunksOf(m)
  BY <1>1
<1> QED BY <1>2 DEF ChunksOf, Bad

\* What is in a model's slot.
LEMMA SlotIs ==
  ASSUME FilesInv, NEW m \in Model, dir[m].slot # None
  PROVE  /\ dir[m].slot \in FileId /\ files[dir[m].slot] \in Seq(ChunksOf(m))
         /\ files[dir[m].slot] \in Seq(AllChunks)
         /\ m \notin overlapped => files[dir[m].slot] = Full(m)
<1>1. "slot" \in Names /\ dir[m]["slot"] = dir[m].slot
  BY DEF Names
<1>2. ModelInv(m) /\ CacheTypeOK
  BY DEF FilesInv
<1>3. dir[m].slot \in FileId
  BY <1>1, <1>2, NameTypes DEF CacheTypeOK
<1> QED BY <1>1, <1>2, <1>3, ChunksAre DEF ModelInv

\* A running request that does not make room for an operator has its model.
LEMMA HasModel ==
  ASSUME FilesInv, NEW t \in Task, task[t].pc \notin {"idle", "room", "drop", "done"}
  PROVE  /\ task[t].kind # "gc" /\ task[t].model \in Model /\ task[t] \in Request
         /\ task[t].pc # "stream" => task[t].fd = None
<1>1. TaskInv(t) /\ CacheTypeOK
  BY DEF FilesInv
<1> QED BY <1>1 DEF TaskInv, Working, CacheTypeOK

\* A request that goes on, with nothing open and nothing read.
LEMMA GoesOn ==
  ASSUME FilesInv, NEW t \in Task, task[t].pc \notin {"idle", "room", "drop", "done", "stream"},
         NEW l \in Labels \ {"idle", "request", "stream", "read", "done"}, NEW over
  PROVE  LET r == [task[t] EXCEPT !.pc = l] IN Fit(r) /\ Earned(r, over)
<1>1. PICK r : r = [task[t] EXCEPT !.pc = l]
  OBVIOUS
<1>2. task[t].kind # "gc" /\ task[t].model \in Model /\ task[t] \in Request /\ task[t].fd = None
  BY HasModel
<1>3. r \in Request /\ r.pc = l /\ r.kind = task[t].kind /\ r.model = task[t].model /\ r.fd = None
  BY <1>1, <1>2 DEF Request
<1>4. Fit(r)
  BY <1>2, <1>3 DEF Fit
<1>5. Earned(r, over)
  BY <1>3 DEF Earned
<1> QED BY <1>1, <1>4, <1>5

\* A request that has ended.
EndOf(t, l, seen, got) ==
  [Idle EXCEPT !.pc = l, !.kind = task[t].kind, !.model = task[t].model, !.seen = seen, !.got = got]

\* Its parts.
LEMMA EndIs ==
  ASSUME FilesInv, NEW t \in Task, task[t].pc # "idle", NEW l \in {"failed", "done"}, l = "failed" => task[t].kind # "gc",
         NEW seen \in Seq(AllChunks), NEW got \in Seq(AllChunks), NEW over,
         l = "done" /\ task[t].kind # "gc" /\ task[t].model \notin over => seen = Full(task[t].model) /\ got = Full(task[t].model)
  PROVE  /\ Fit(EndOf(t, l, seen, got)) /\ Earned(EndOf(t, l, seen, got), over)
         /\ EndOf(t, l, seen, got).pc = l /\ EndOf(t, l, seen, got).kind = task[t].kind
<1>1. PICK r : r = EndOf(t, l, seen, got)
  OBVIOUS
<1>2. TaskInv(t) /\ task[t] \in Request
  BY DEF FilesInv, CacheTypeOK
<1>3. r = [pc |-> l, kind |-> task[t].kind, model |-> task[t].model, mirror |-> 1, fd |-> None, from |-> 0,
           hashed |-> <<>>, size |-> 0, victim |-> None, seen |-> seen, got |-> got]
  BY <1>1 DEF EndOf, Idle
<1>4. r \in Request
  BY <1>2, <1>3 DEF Request, Labels
<1>5. Fit(r)
  BY <1>2, <1>3, <1>4 DEF Fit, TaskInv, Working
<1>6. Earned(r, over)
  BY <1>3 DEF Earned
<1> QED BY <1>1, <1>3, <1>5, <1>6

\* A request that fails, or tries the next mirror.
LEMMA FailsIs ==
  ASSUME FilesInv, NEW t \in Task, task[t].pc \notin {"idle", "room", "drop", "done"}, Fails(t) \/ NextMirror(t), NEW over
  PROVE  \E r : /\ task' = [task EXCEPT ![t] = r] /\ Fit(r) /\ Earned(r, over)
                /\ r.pc \in {"failed", "stat"}
<1>1. task[t].kind # "gc" /\ task[t].model \in Model /\ task[t] \in Request
  BY HasModel
<1>2. CASE Fails(t)
  <2>1. task' = [task EXCEPT ![t] = EndOf(t, "failed", <<>>, <<>>)]
    BY <1>2 DEF Fails, Ended, EndOf
  <2>2. <<>> \in Seq(AllChunks) /\ "failed" \in {"failed", "done"} /\ "failed" # "done"
    OBVIOUS
  <2>3. /\ Fit(EndOf(t, "failed", <<>>, <<>>)) /\ Earned(EndOf(t, "failed", <<>>, <<>>), over)
        /\ EndOf(t, "failed", <<>>, <<>>).pc = "failed"
    BY <1>1, <2>2, EndIs
  <2> QED BY <2>1, <2>3
<1>3. CASE NextMirror(t) /\ ~Fails(t)
  <2>1. PICK r : r = [Idle EXCEPT !.pc = "stat", !.kind = task[t].kind, !.model = task[t].model,
                                  !.mirror = task[t].mirror + 1]
    OBVIOUS
  <2>2. task' = [task EXCEPT ![t] = r]
    BY <1>3, <2>1 DEF NextMirror
  <2>3. r = [pc |-> "stat", kind |-> task[t].kind, model |-> task[t].model, mirror |-> task[t].mirror + 1,
             fd |-> None, from |-> 0, hashed |-> <<>>, size |-> 0, victim |-> None, seen |-> <<>>, got |-> <<>>]
    BY <2>1 DEF Idle
  <2>4. r \in Request
    BY <1>1, <2>3 DEF Request, Labels
  <2>5. Fit(r) /\ Earned(r, over) /\ r.pc = "stat"
    BY <1>1, <2>3, <2>4 DEF Fit, Earned
  <2> QED BY <2>2, <2>5
<1> QED BY <1>2, <1>3

\* A request begins.
LEMMA BeginsFit ==
  ASSUME NEW l \in {"room", "get"}, NEW kind \in {"load", "own", "gc"}, NEW m \in Model \cup {None},
         kind = "gc" => l = "room", kind # "gc" => m \in Model, NEW over
  PROVE  LET r == [Idle EXCEPT !.pc = l, !.kind = kind, !.model = m] IN Fit(r) /\ Earned(r, over)
<1>1. PICK r : r = [Idle EXCEPT !.pc = l, !.kind = kind, !.model = m]
  OBVIOUS
<1>2. r = [pc |-> l, kind |-> kind, model |-> m, mirror |-> 1, fd |-> None, from |-> 0,
           hashed |-> <<>>, size |-> 0, victim |-> None, seen |-> <<>>, got |-> <<>>]
  BY <1>1 DEF Idle
<1>3. r \in Request
  BY <1>2 DEF Request, Labels
<1>4. Fit(r) /\ Earned(r, over)
  BY <1>2, <1>3 DEF Fit, Earned
<1> QED BY <1>1, <1>4

\* Beginning keeps the invariant.
LEMMA BeginKeeps ==
  ASSUME FilesInv, NEW t \in Task,
         BeginGc(t) \/ \E m \in Model : BeginLoad(t, m) \/ BeginInfer(t, m)
  PROVE  FilesInv'
<1>1. CacheTypeOK /\ EngineHolds
  BY DEF FilesInv
<1>2. IndexTypes /\ EngineTypes /\ crowded \in BOOLEAN /\ manifests \subseteq Model
  BY <1>1 DEF CacheTypeOK
<1>3. ASSUME NEW kind \in {"load", "own", "gc"}, NEW m \in Model \cup {None}, kind # "gc" => m \in Model,
             Begin(t, kind, m), IndexTypes', manifests' \subseteq Model
      PROVE  FilesInv'
  <2>1. PICK l \in {"room", "get"} : l = IF kind = "gc" THEN "room" ELSE "get"
    OBVIOUS
  <2>2. PICK r : r = [Idle EXCEPT !.pc = l, !.kind = kind, !.model = m]
    OBVIOUS
  <2>3. Fit(r) /\ Earned(r, overlapped)
    BY <1>3, <2>1, <2>2, BeginsFit
  <2>4. task' = [task EXCEPT ![t] = r]
    BY <1>3, <2>1, <2>2 DEF Begin
  <2>5. /\ task[t].pc # "stream" /\ dir' = dir /\ files' = files /\ overlapped' = overlapped
        /\ engine' = engine /\ crowded' = crowded
    BY <1>3 DEF Begin, At, disk, history
  <2>6. EngineTypes' /\ EngineHolds'
    BY <1>1, <1>2, <2>5 DEF EngineTypes, EngineHolds
  <2> QED BY <1>2, <1>3, <2>3, <2>4, <2>5, <2>6, DiskRests
<1>4. CASE BeginGc(t)
  <2>1. index' = index /\ manifests' = manifests /\ Begin(t, "gc", None)
    BY <1>4 DEF BeginGc
  <2> QED BY <1>2, <1>3, <2>1 DEF IndexTypes
<1>5. ASSUME NEW m \in Model, BeginLoad(t, m) PROVE FilesInv'
  <2>1. index' = index /\ manifests' = manifests \cup {m} /\ Begin(t, "load", m)
    BY <1>5 DEF BeginLoad
  <2>2. "load" # "gc"
    OBVIOUS
  <2> QED BY <1>2, <1>3, <2>1 DEF IndexTypes
<1>6. ASSUME NEW m \in Model, BeginInfer(t, m) PROVE FilesInv'
  <2>1. manifests' = manifests /\ Begin(t, "own", m)
    BY <1>6 DEF BeginInfer
  <2>2. PICK idx \in Rebuilds : index' = [index EXCEPT ![t] = idx]
    BY <1>6 DEF BeginInfer
  <2>3. IndexTypes'
    BY <1>1, <2>2, RebuiltTyped, IndexSet
  <2> QED BY <1>2, <1>3, <2>1, <2>3
<1> QED BY <1>4, <1>5, <1>6

\* What a step leaves, of what the invariant needs.
Rests ==
  dir' = dir /\ files' = files /\ overlapped' = overlapped /\ crowded' = crowded /\ manifests' = manifests

\* A step of a request that works with its index only.
LEMMA IndexKeeps ==
  ASSUME FilesInv, NEW t \in Task,
         Get(t) \/ Exists(t) \/ Prune(t) \/ Validate(t) \/ EvictEntry(t) \/ Refuse(t) \/ Insert(t)
  PROVE  FilesInv'
<1>1. CacheTypeOK /\ EngineHolds
  BY DEF FilesInv
<1>2. IndexTypes /\ EngineTypes /\ crowded \in BOOLEAN /\ manifests \subseteq Model
  BY <1>1 DEF CacheTypeOK
<1>3. ASSUME NEW r, Fit(r), Earned(r, overlapped), task' = [task EXCEPT ![t] = r], task[t].pc # "stream",
             Rests, engine' = engine, IndexTypes'
      PROVE  FilesInv'
  <2>1. EngineTypes' /\ EngineHolds'
    BY <1>1, <1>2, <1>3 DEF EngineTypes, EngineHolds, Rests
  <2> QED BY <1>2, <1>3, <2>1, DiskRests DEF Rests
<1>4. ASSUME NEW l, Go(t, l) PROVE task' = [task EXCEPT ![t] = [task[t] EXCEPT !.pc = l]]
  BY <1>4 DEF Go
<1>5. ASSUME index' = index PROVE IndexTypes'
  BY <1>2, <1>5 DEF IndexTypes
<1>6. ASSUME NEW idx, IndexOf(idx, Entry), index' = [index EXCEPT ![Mgr(t)] = idx] PROVE IndexTypes'
  BY <1>1, <1>6, MgrIs, IndexSet
<1>7. IndexOf(index[Mgr(t)], Entry)
  BY <1>1, MgrIs, IndexTyped
<1>8. CASE Get(t)
  <2>1. PICK l \in {"exists", "stat"} : l = IF Holds(index[Mgr(t)], task[t].model) THEN "exists" ELSE "stat"
    OBVIOUS
  <2>2. Go(t, l) /\ index' = [index EXCEPT ![Mgr(t)] = Touched(@, task[t].model)] /\ task[t].pc = "get"
    BY <1>8, <2>1 DEF Get, At
  <2>3. IndexTypes'
    BY <1>6, <1>7, <2>2, TouchedIs
  <2>4. l \in Labels \ {"idle", "request", "stream", "read", "done"}
    BY DEF Labels
  <2>5. Rests /\ engine' = engine
    BY <1>8 DEF Get, Rests, disk, history
  <2> QED BY <1>3, <1>4, <2>2, <2>3, <2>4, <2>5, GoesOn
<1>9. CASE Exists(t)
  <2>1. PICK l \in {"hit", "prune"} : l = IF dir[task[t].model].slot # None THEN "hit" ELSE "prune"
    OBVIOUS
  <2>2. Go(t, l) /\ index' = index /\ task[t].pc = "exists"
    BY <1>9, <2>1 DEF Exists, At
  <2>4. l \in Labels \ {"idle", "request", "stream", "read", "done"}
    BY DEF Labels
  <2>5. Rests /\ engine' = engine
    BY <1>9 DEF Exists, Rests, disk, history
  <2> QED BY <1>3, <1>4, <1>5, <2>2, <2>4, <2>5, GoesOn
<1>10. CASE Prune(t)
  <2>2. Go(t, "stat") /\ index' = [index EXCEPT ![Mgr(t)] = Without(@, task[t].model)] /\ task[t].pc = "prune"
    BY <1>10 DEF Prune, At
  <2>3. IndexTypes'
    BY <1>6, <1>7, <2>2, WithoutIs
  <2>4. "stat" \in Labels \ {"idle", "request", "stream", "read", "done"}
    BY DEF Labels
  <2>5. Rests /\ engine' = engine
    BY <1>10 DEF Prune, Rests, disk, history
  <2> QED BY <1>3, <1>4, <2>2, <2>3, <2>4, <2>5, GoesOn
<1>11. CASE Validate(t)
  <2>1. \E l \in {"evict", "digest", "insert"} : Go(t, l)
    BY <1>11 DEF Validate
  <2>2. PICK l \in {"evict", "digest", "insert"} : Go(t, l)
    BY <2>1
  <2>3. index' = index /\ task[t].pc \in {"hit", "pulled"}
    BY <1>11 DEF Validate, At
  <2>4. l \in Labels \ {"idle", "request", "stream", "read", "done"}
    BY DEF Labels
  <2>5. Rests /\ engine' = engine
    BY <1>11 DEF Validate, Rests, disk, history
  <2> QED BY <1>3, <1>4, <1>5, <2>2, <2>3, <2>4, <2>5, GoesOn
<1>12. CASE EvictEntry(t)
  <2>1. Fails(t) /\ index' = [index EXCEPT ![Mgr(t)] = Without(@, task[t].model)] /\ task[t].pc = "evicted"
    BY <1>12 DEF EvictEntry, At
  <2>2. IndexTypes'
    BY <1>6, <1>7, <2>1, WithoutIs
  <2>3. Rests /\ engine' = engine
    BY <1>12 DEF EvictEntry, Rests, disk, history
  <2> QED BY <1>3, <2>1, <2>2, <2>3, FailsIs
<1>13. CASE Refuse(t)
  <2>1. NextMirror(t) /\ index' = index /\ task[t].pc = "request"
    BY <1>13 DEF Refuse, At
  <2>2. Rests /\ engine' = engine
    BY <1>13 DEF Refuse, Rests, disk, history
  <2> QED BY <1>3, <1>5, <2>1, <2>2, FailsIs
<1>14. CASE Insert(t)
  <2>1. index' = index /\ task[t].pc = "insert"
    BY <1>14 DEF Insert, At
  <2>2. Rests /\ engine' = engine
    BY <1>14 DEF Insert, Rests, disk, history
  <2>3. CASE Fails(t)
    BY <1>3, <1>5, <2>1, <2>2, <2>3, FailsIs
  <2>4. CASE ~Fails(t)
    <3>1. PICK f : f = dir[task[t].model].staging
      OBVIOUS
    <3>2. f # None /\ task' = [task EXCEPT ![t].pc = "room", ![t].size = Len(files[f])]
      BY <1>14, <2>4, <3>1 DEF Insert
    <3>3. task[t].model \in Model /\ task[t] \in Request /\ task[t].kind # "gc" /\ task[t].fd = None
      BY <2>1, HasModel
    <3>4. f \in FileId
      BY <1>1, <3>1, <3>2, <3>3 DEF CacheTypeOK, DirRecord
    <3>5. Len(files[f]) \in Nat
      BY <1>1, <3>4 DEF CacheTypeOK
    <3>6. PICK r : r = [task[t] EXCEPT !.pc = "room", !.size = Len(files[f])]
      OBVIOUS
    <3>7. task' = [task EXCEPT ![t] = r]
      BY <3>2, <3>6
    <3>8. /\ r \in Request /\ r.pc = "room" /\ r.fd = None /\ r.model = task[t].model
          /\ r.kind = task[t].kind
      BY <3>3, <3>5, <3>6 DEF Request, Labels
    <3>9. Fit(r) /\ Earned(r, overlapped)
      BY <3>3, <3>8 DEF Fit, Earned
    <3> QED BY <1>3, <1>5, <2>1, <2>2, <3>7, <3>9
  <2> QED BY <2>3, <2>4
<1> QED BY <1>8, <1>9, <1>10, <1>11, <1>12, <1>13, <1>14

\* A step of a request that makes room or loads.
LEMMA LoadKeeps ==
  ASSUME FilesInv, NEW t \in Task,
         Drop(t) \/ Record(t) \/ Digest(t) \/ LoadFile(t) \/ Answer(t)
  PROVE  FilesInv'
<1>1. CacheTypeOK /\ EngineHolds /\ TaskInv(t) /\ task[t] \in Request
  BY DEF FilesInv, CacheTypeOK
<1>2. IndexTypes /\ EngineTypes /\ crowded \in BOOLEAN /\ manifests \subseteq Model
  BY <1>1 DEF CacheTypeOK
<1>3. ASSUME NEW r, Fit(r), Earned(r, overlapped), task' = [task EXCEPT ![t] = r], task[t].pc # "stream",
             Rests, EngineTypes', EngineHolds', IndexTypes'
      PROVE  FilesInv'
  BY <1>2, <1>3, DiskRests DEF Rests
<1>4. ASSUME engine' = engine, Rests PROVE EngineTypes' /\ EngineHolds'
  BY <1>1, <1>2, <1>4 DEF EngineTypes, EngineHolds, Rests
<1>5. ASSUME index' = index PROVE IndexTypes'
  BY <1>2, <1>5 DEF IndexTypes
<1>6. ASSUME NEW i \in Task \cup {Main}, NEW idx, IndexOf(idx, Entry), index' = [index EXCEPT ![i] = idx]
      PROVE IndexTypes'
  BY <1>1, <1>6, IndexSet
<1>7. IndexOf(index[Mgr(t)], Entry)
  BY <1>1, MgrIs, IndexTyped
<1>8. CASE Drop(t)
  <2>1. task[t].pc = "drop" /\ index' = [index EXCEPT ![Mgr(t)] = Without(@, task[t].victim)]
    BY <1>8 DEF Drop, Dropped, At
  <2>2. IndexTypes'
    BY <1>6, <1>7, <2>1, MgrIs, WithoutIs
  <2>3. PICK r : r = [task[t] EXCEPT !.pc = "room", !.victim = None]
    OBVIOUS
  <2>4. task' = [task EXCEPT ![t] = r]
    BY <1>8, <2>3 DEF Drop
  <2>5. /\ r \in Request /\ r.pc = "room" /\ r.fd = task[t].fd /\ r.model = task[t].model
        /\ r.kind = task[t].kind
    BY <1>1, <2>3 DEF Request, Labels
  <2>6. Fit(r) /\ Earned(r, overlapped)
    BY <1>1, <2>1, <2>5 DEF Fit, Earned, TaskInv, Working
  <2>7. Rests /\ engine' = engine
    BY <1>8 DEF Drop, Rests, disk, history
  <2> QED BY <1>3, <1>4, <2>1, <2>2, <2>4, <2>6, <2>7
<1>9. CASE Record(t)
  <2>1. task[t].pc = "record"
    BY <1>9 DEF Record, At
  <2>2. PICK m : m = task[t].model
    OBVIOUS
  <2>3. m \in Model /\ task[t].kind # "gc" /\ task[t].fd = None /\ task[t].size \in Nat
    BY <1>1, <2>1, <2>2, HasModel DEF Request
  <2>4. PICK e : e = [model |-> m, size |-> task[t].size]
    OBVIOUS
  <2>5. e \in Entry /\ e.model = m
    BY <2>3, <2>4 DEF Entry
  <2>6. IndexOf(Append(Without(index[Mgr(t)], m), e), Entry)
    BY <1>7, <2>5, WithoutIs, AppendedIs
  <2>7. IndexTypes'
    <3>1. index' = [index EXCEPT ![Mgr(t)] = Append(Without(index[Mgr(t)], m), e)]
      BY <1>9, <2>2, <2>4 DEF Record
    <3> QED BY <1>6, <2>6, <3>1, MgrIs
  <2>8. PICK r : r = [task[t] EXCEPT !.pc = "digest", !.size = 0]
    OBVIOUS
  <2>9. task' = [task EXCEPT ![t] = r]
    BY <1>9, <2>8 DEF Record
  <2>10. /\ r \in Request /\ r.pc = "digest" /\ r.fd = task[t].fd /\ r.model = m
         /\ r.kind = task[t].kind
    BY <1>1, <2>2, <2>8 DEF Request, Labels
  <2>11. Fit(r) /\ Earned(r, overlapped)
    BY <2>3, <2>10 DEF Fit, Earned
  <2>12. Rests /\ engine' = engine
    BY <1>9 DEF Record, Rests, disk, history
  <2> QED BY <1>3, <1>4, <2>1, <2>7, <2>9, <2>11, <2>12
<1>10. CASE Digest(t)
  <2>1. task[t].pc = "digest" /\ index' = index
    BY <1>10 DEF Digest, At
  <2>2. PICK m : m = task[t].model
    OBVIOUS
  <2>3. m \in Model /\ task[t].kind # "gc" /\ task[t].fd = None
    BY <1>1, <2>1, <2>2, HasModel
  <2>4. PICK bytes : bytes = files[dir[m].slot]
    OBVIOUS
  <2>5. Rests /\ engine' = engine
    BY <1>10 DEF Digest, Rests, disk, history
  <2>6. CASE dir[m].slot = None
    <3>1. Fails(t)
      BY <1>10, <2>2, <2>6 DEF Digest
    <3> QED BY <1>3, <1>4, <1>5, <2>1, <2>5, <3>1, FailsIs
  <2>7. CASE dir[m].slot # None
    <3>1. /\ bytes \in Seq(ChunksOf(m)) /\ bytes \in Seq(AllChunks)
          /\ m \notin overlapped => bytes = Full(m)
      BY <2>3, <2>4, <2>7, SlotIs
    <3>2. CASE Mgr(t) = Main /\ bytes \in DOMAIN engine
      <4>1. task' = [task EXCEPT ![t] = EndOf(t, "done", bytes, engine[bytes])]
        BY <1>10, <2>2, <2>4, <2>7, <3>2 DEF Digest, Ended, EndOf
      <4>2. engine[bytes] \in Seq(AllChunks)
        BY <1>2, <3>2 DEF EngineTypes
      <4>3. m \notin overlapped => bytes = Full(m) /\ engine[bytes] = Full(m)
        BY <1>1, <2>3, <3>1, <3>2 DEF EngineHolds
      <4>4. "done" \in {"failed", "done"} /\ "done" # "failed" /\ task[t].pc # "idle"
        BY <2>1
      <4>5. Fit(EndOf(t, "done", bytes, engine[bytes])) /\ Earned(EndOf(t, "done", bytes, engine[bytes]), overlapped)
        BY <2>2, <3>1, <4>2, <4>3, <4>4, EndIs
      <4> QED BY <1>3, <1>4, <1>5, <2>1, <2>5, <4>1, <4>5
    <3>3. CASE ~(Mgr(t) = Main /\ bytes \in DOMAIN engine)
      <4>1. PICK r : r = [task[t] EXCEPT !.pc = "read", !.seen = bytes]
        OBVIOUS
      <4>2. task' = [task EXCEPT ![t] = r]
        BY <1>10, <2>2, <2>4, <2>7, <3>3, <4>1 DEF Digest
      <4>3. /\ r \in Request /\ r.pc = "read" /\ r.fd = task[t].fd /\ r.model = m
            /\ r.kind = task[t].kind /\ r.seen = bytes
        BY <1>1, <2>2, <3>1, <4>1 DEF Request, Labels
      <4>4. Fit(r) /\ Earned(r, overlapped)
        BY <2>3, <3>1, <4>3 DEF Fit, Earned
      <4> QED BY <1>3, <1>4, <1>5, <2>1, <2>5, <4>2, <4>4
    <3> QED BY <3>2, <3>3
  <2> QED BY <2>6, <2>7
<1>11. CASE LoadFile(t)
  <2>1. task[t].pc = "read" /\ index' = index
    BY <1>11 DEF LoadFile, At
  <2>2. PICK m : m = task[t].model
    OBVIOUS
  <2>3. m \in Model /\ task[t].kind # "gc" /\ task[t].fd = None
    BY <1>1, <2>1, <2>2, HasModel
  <2>4. PICK bytes : bytes = files[dir[m].slot]
    OBVIOUS
  <2>5. PICK seen : seen = task[t].seen
    OBVIOUS
  <2>6. /\ seen \in Seq(ChunksOf(m)) /\ seen \in Seq(AllChunks)
        /\ m \notin overlapped => seen = Full(m)
    BY <1>1, <2>1, <2>2, <2>5 DEF TaskInv, Writes, Gets, Request
  <2>7. Rests
    BY <1>11 DEF LoadFile, Rests, disk, history
  <2>8. CASE dir[m].slot = None
    <3>1. Fails(t) /\ engine' = engine
      BY <1>11, <2>2, <2>8 DEF LoadFile
    <3> QED BY <1>3, <1>4, <1>5, <2>1, <2>7, <3>1, FailsIs
  <2>9. CASE dir[m].slot # None
    <3>1. bytes \in Seq(AllChunks) /\ (m \notin overlapped => bytes = Full(m))
      BY <2>3, <2>4, <2>9, SlotIs
    <3>2. task' = [task EXCEPT ![t] = EndOf(t, "done", seen, bytes)]
      BY <1>11, <2>2, <2>4, <2>5, <2>9 DEF LoadFile, Ended, EndOf
    <3>3. "done" \in {"failed", "done"} /\ "done" # "failed" /\ task[t].pc # "idle"
      BY <2>1
    <3>4. Fit(EndOf(t, "done", seen, bytes)) /\ Earned(EndOf(t, "done", seen, bytes), overlapped)
      BY <2>2, <2>6, <3>1, <3>3, EndIs
    <3>5. engine' = IF Mgr(t) = Main
                    THEN [d \in DOMAIN engine \cup {seen} |-> IF d = seen THEN bytes ELSE engine[d]]
                    ELSE engine
      BY <1>11, <2>2, <2>4, <2>5, <2>9 DEF LoadFile
    <3>6. EngineTypes'
      BY <1>2, <3>1, <3>5 DEF EngineTypes
    <3>7. ASSUME NEW k \in Model \ overlapped', Full(k) \in DOMAIN engine', Mgr(t) = Main
          PROVE  engine'[Full(k)] = Full(k)
      <4>1. k \notin overlapped
        BY <2>7, <3>7 DEF Rests
      <4>2. CASE Full(k) = seen
        <5>1. k = m
          BY <2>3, <2>6, <4>2, FullApart
        <5> QED BY <3>1, <3>5, <3>7, <4>1, <4>2, <5>1
      <4>3. CASE Full(k) # seen
        BY <1>1, <3>5, <3>7, <4>1, <4>3 DEF EngineHolds
      <4> QED BY <4>2, <4>3
    <3>8. ASSUME Mgr(t) # Main PROVE EngineHolds'
      BY <1>4, <2>7, <3>5, <3>8
    <3>9. EngineHolds'
      BY <3>7, <3>8 DEF EngineHolds
    <3> QED BY <1>3, <1>5, <2>1, <2>7, <3>2, <3>4, <3>6, <3>9
  <2> QED BY <2>8, <2>9
<1>12. CASE Answer(t)
  <2>1. task[t].pc \in {"done", "failed"} /\ task' = [task EXCEPT ![t] = Idle]
    BY <1>12 DEF Answer, At
  <2>2. Fit(Idle) /\ Earned(Idle, overlapped)
    <3>1. Idle \in Request
      BY DEF Idle, Request, Labels
    <3> QED BY <3>1 DEF Fit, Earned, Idle
  <2>3. <<>> \in Seq(Entry) /\ Unique(<<>>)
    BY DEF Unique
  <2>4. IndexTypes'
    BY <1>5, <1>6, <1>12, <2>3 DEF Answer, IndexOf
  <2>5. Rests /\ engine' = engine
    BY <1>12 DEF Answer, Rests, disk, history
  <2> QED BY <1>3, <1>4, <2>1, <2>2, <2>4, <2>5
<1> QED BY <1>8, <1>9, <1>10, <1>11, <1>12

-----------------------------------------------------------------------------
(* The steps that change the directory or a file *)

\* What is left in the files.
LEMMA Written ==
  ASSUME CacheTypeOK, NEW bytes \in [FileId -> Seq(AllChunks)], Write(bytes)
  PROVE  /\ files' \in [FileId -> Seq(AllChunks)] /\ Erased'
         /\ \A f \in FileId : f \in Referenced' => files'[f] = bytes[f]
<1>1. files' = [f \in FileId |-> IF f \in Referenced' THEN bytes[f] ELSE <<>>]
  BY DEF Write
<1>2. <<>> \in Seq(AllChunks)
  OBVIOUS
<1>3. files' \in [FileId -> Seq(AllChunks)]
  BY <1>1, <1>2
<1>4. \A f \in FileId : f \notin Referenced' => files'[f] = <<>>
  BY <1>1
<1> QED BY <1>1, <1>3, <1>4 DEF Erased

\* A model's new names: ones it had, or a file of its own.
NewNames(m, d) ==
  \A x \in Names : d[x] \in {None} \cup {dir[m][y] : y \in Names} \/ d[x] \notin Referenced

\* Names may go.
FewerNames(m, d) == \A x \in Names : d[x] \in {None, dir[m][x]}

\* Only the open file is written, with the model's chunks.
Appends(t, bytes) ==
  /\ \A f \in FileId : f # task[t].fd => bytes[f] = files[f]
  /\ task[t].fd # None => bytes[task[t].fd] \in Seq(ChunksOf(task[t].model))

\* Who else downloads a model makes it an overlapped one.
Shares(t, m) == \A u \in Task \ {t} : Downloading(u) /\ task[u].model = m => m \in overlapped'

\* A request changes the names of a model, its own or one it takes a name from.
Changes(t, r, m, d, bytes) ==
  /\ task' = [task EXCEPT ![t] = r] /\ dir' = [dir EXCEPT ![m] = d] /\ Write(bytes)
  /\ NewNames(m, d) /\ Appends(t, bytes)
  /\ m = task[t].model \/ FewerNames(m, d)
  /\ d.partial = dir[m].partial \/ (m = task[t].model /\ (Downloading(t) \/ Shares(t, m)))
  /\ overlapped \subseteq overlapped' /\ overlapped' \subseteq Model /\ crowded' \in BOOLEAN
  /\ index' = index /\ engine' = engine /\ manifests' = manifests

\* What such a change leaves to the others, and its types.
LEMMA ChangesWell ==
  ASSUME FilesInv, NEW t \in Task, NEW r \in Request, NEW m \in Model, NEW d \in DirRecord,
         NEW bytes \in [FileId -> Seq(AllChunks)], Changes(t, r, m, d, bytes)
  PROVE  /\ Touches(t) /\ CacheTypeOK' /\ EngineHolds' /\ task'[t] = r /\ dir'[m] = d
         /\ \A k \in Model : k # m => dir'[k] = dir[k]
         /\ \A f \in FileId : f \in Referenced' => files'[f] = bytes[f]
<1>1. CacheTypeOK /\ EngineHolds
  BY DEF FilesInv
<1>2. task' = [task EXCEPT ![t] = r] /\ dir' = [dir EXCEPT ![m] = d]
  BY DEF Changes
<1>3. task'[t] = r /\ \A u \in Task \ {t} : task'[u] = task[u]
  BY <1>1, <1>2 DEF CacheTypeOK
<1>4. dir'[m] = d /\ \A k \in Model : k # m => dir'[k] = dir[k]
  BY <1>1, <1>2 DEF CacheTypeOK
<1>5. /\ files' \in [FileId -> Seq(AllChunks)] /\ Erased'
      /\ \A f \in FileId : f \in Referenced' => files'[f] = bytes[f]
  BY <1>1, Written DEF Changes
<1>6. CacheTypeOK'
  <2>1. dir' \in [Model -> DirRecord] /\ task' \in [Task -> Request]
    BY <1>1, <1>2 DEF CacheTypeOK
  <2>2. IndexTypes' /\ EngineTypes'
    BY <1>1 DEF CacheTypeOK, IndexTypes, EngineTypes, Changes
  <2>3. overlapped' \subseteq Model /\ crowded' \in BOOLEAN /\ manifests' \subseteq Model
    BY <1>1 DEF CacheTypeOK, Changes
  <2> QED BY <1>5, <2>1, <2>2, <2>3 DEF CacheTypeOK
<1>7. EngineHolds'
  BY <1>1 DEF EngineHolds, Changes
<1>8. Touches(t)
  <2>1. PICK mine : mine = task[t].model
    OBVIOUS
  <2>2. PICK fd : fd = task[t].fd
    OBVIOUS
  <2>3. ASSUME NEW k \in Model \ {mine}
        PROVE  dir'[k].partial = dir[k].partial /\ \A x \in Names : dir'[k][x] \in {None, dir[k][x]}
    <3>1. CASE k = m
      BY <1>4, <2>1, <3>1 DEF Changes, FewerNames
    <3>2. CASE k # m
      BY <1>4, <3>2
    <3> QED BY <3>1, <3>2
  <2>4. ASSUME mine \in Model, NEW x \in Names
        PROVE  dir'[mine][x] \in {None} \cup {dir[mine][y] : y \in Names} \/ dir'[mine][x] \notin Referenced
    <3>1. CASE mine = m
      BY <1>4, <3>1 DEF Changes, NewNames
    <3>2. CASE mine # m
      BY <1>4, <2>4, <3>2
    <3> QED BY <3>1, <3>2
  <2>5. ASSUME mine \in Model
        PROVE  \/ dir'[mine].partial = dir[mine].partial
               \/ Downloading(t)
               \/ \A u \in Task \ {t} : Downloading(u) /\ task[u].model = mine => mine \in overlapped'
    <3>1. CASE mine = m
      BY <1>4, <2>1, <3>1 DEF Changes, Shares
    <3>2. CASE mine # m
      BY <1>4, <2>5, <3>2
    <3> QED BY <3>1, <3>2
  <2>6. \A f \in FileId : f \in Referenced' /\ f # fd => files'[f] = files[f]
    BY <1>5, <2>2 DEF Changes, Appends
  <2>7. fd # None /\ fd \in Referenced' => files'[fd] \in Seq(ChunksOf(mine))
    <3>1. fd \in FileId \cup {None}
      BY <1>1, <2>2 DEF CacheTypeOK, Request
    <3> QED BY <1>5, <2>1, <2>2, <3>1 DEF Changes, Appends
  <2>8. overlapped \subseteq overlapped'
    BY DEF Changes
  <2> QED BY <1>3, <1>5, <2>1, <2>2, <2>3, <2>4, <2>5, <2>6, <2>7, <2>8 DEF Touches
<1> QED BY <1>3, <1>4, <1>5, <1>6, <1>7, <1>8

\* A model keeps what it has if its names do not change or go.
LEMMA ModelKept ==
  ASSUME FilesInv, NEW k \in Model, \A x \in Names : dir'[k][x] \in {None, dir[k][x]},
         \A f \in FileId : f \in Referenced' => files'[f] = files[f], overlapped \subseteq overlapped'
  PROVE  ModelInv(k)'
<1>1. ModelInv(k) /\ CacheTypeOK
  BY DEF FilesInv
<1>2. ASSUME NEW x \in Names, dir'[k][x] # None
      PROVE  dir'[k][x] = dir[k][x] /\ files'[dir[k][x]] = files[dir[k][x]]
  <2>1. dir'[k][x] = dir[k][x]
    BY <1>2
  <2>2. dir[k][x] \in FileId /\ dir[k][x] \in Referenced'
    BY <1>1, <1>2, <2>1, NameTypes, WillRefer DEF CacheTypeOK
  <2> QED BY <2>1, <2>2
<1>3. \A x, y \in Names : dir'[k][x] = dir'[k][y] /\ dir'[k][x] # None => x = y
  BY <1>1, <1>2 DEF ModelInv
<1>4. \A x \in Names : dir'[k][x] # None => files'[dir'[k][x]] \in Seq(ChunksOf(k))
  BY <1>1, <1>2 DEF ModelInv
<1>5. ASSUME k \notin overlapped', NEW x \in {"slot", "staging"}, dir'[k][x] # None PROVE files'[dir'[k][x]] = Full(k)
  <2>1. k \notin overlapped /\ x \in Names
    BY <1>5 DEF Names
  <2>2. dir'[k][x] = dir[k][x] /\ files'[dir[k][x]] = files[dir[k][x]]
    BY <1>2, <1>5, <2>1
  <2>3. files[dir[k][x]] = Full(k)
    BY <1>1, <1>5, <2>1, <2>2 DEF ModelInv
  <2> QED BY <2>2, <2>3
<1> QED BY <1>3, <1>4, <1>5 DEF ModelInv

\* A request that does not write, and takes names away, keeps the invariant.
LEMMA TakesNames ==
  ASSUME FilesInv, NEW t \in Task, NEW r, Fit(r), Earned(r, overlapped'), NEW m \in Model, NEW d \in DirRecord,
         FewerNames(m, d), Changes(t, r, m, d, files)
  PROVE  FilesInv'
<1>1. CacheTypeOK /\ r \in Request
  BY DEF FilesInv, Fit
<1>2. /\ Touches(t) /\ CacheTypeOK' /\ EngineHolds' /\ task'[t] = r /\ dir'[m] = d
      /\ \A k \in Model : k # m => dir'[k] = dir[k]
      /\ \A f \in FileId : f \in Referenced' => files'[f] = files[f]
  BY <1>1, ChangesWell DEF CacheTypeOK
<1>3. Continues(t)
  BY <1>2 DEF Continues, Fit
<1>4. TaskInv(t)'
  BY <1>2, FitIs
<1>5. ASSUME NEW k \in Model PROVE ModelInv(k)'
  <2>1. \A x \in Names : dir'[k][x] \in {None, dir[k][x]}
    BY <1>2 DEF FewerNames
  <2>2. overlapped \subseteq overlapped'
    BY DEF Changes
  <2> QED BY <1>2, <2>1, <2>2, ModelKept
<1>6. \A k \in Model : k = task[t].model => ModelInv(k)'
  BY <1>5
<1> QED BY <1>2, <1>3, <1>4, <1>6, StepKeeps

\* A request's own file is one of its model's.
LEMMA Unwritten ==
  ASSUME FilesInv, NEW t \in Task
  PROVE  Appends(t, files)
<1>1. TaskInv(t)
  BY DEF FilesInv
<1> QED BY <1>1 DEF Appends, TaskInv, Working, Writes

\* A step that takes names away: the eviction of a file that does not validate
\* or of a victim, and the end of a download.
LEMMA EvictKeeps ==
  ASSUME FilesInv, NEW t \in Task, EvictFiles(t) \/ Break(t) \/ Room(t)
  PROVE  FilesInv'
<1>1. CacheTypeOK /\ TaskInv(t) /\ task[t] \in Request
  BY DEF FilesInv, CacheTypeOK
<1>2. overlapped \subseteq Model /\ crowded \in BOOLEAN
  BY <1>1 DEF CacheTypeOK
<1>3. ASSUME NEW m \in Model, NEW r, Fit(r), Earned(r, overlapped), task' = [task EXCEPT ![t] = r],
             NEW d \in DirRecord, FewerNames(m, d), dir' = [dir EXCEPT ![m] = d], d.partial = dir[m].partial,
             Write(files), overlapped' = overlapped, crowded' \in BOOLEAN,
             index' = index, engine' = engine, manifests' = manifests
      PROVE  FilesInv'
  <2>1. NewNames(m, d)
    BY <1>3 DEF NewNames, FewerNames
  <2>2. Changes(t, r, m, d, files)
    BY <1>2, <1>3, <2>1, Unwritten DEF Changes
  <2> QED BY <1>3, <2>2, TakesNames
<1>4. CASE EvictFiles(t)
  <2>1. task[t].pc = "evict" /\ index' = index /\ engine' = engine /\ manifests' = manifests
    BY <1>4 DEF EvictFiles, At
  <2>2. PICK m : m = task[t].model
    OBVIOUS
  <2>3. m \in Model
    BY <2>1, <2>2, HasModel
  <2>4. PICK d : d = [dir[m] EXCEPT !.slot = None, !.staging = None]
    OBVIOUS
  <2>5. dir[m] \in DirRecord
    BY <1>1, <2>3 DEF CacheTypeOK
  <2>6. d \in DirRecord /\ d.partial = dir[m].partial /\ FewerNames(m, d)
    BY <2>4, <2>5 DEF DirRecord, FewerNames, Names
  <2>7. dir' = [dir EXCEPT ![m] = d]
    BY <1>1, <1>4, <2>2, <2>3, <2>4 DEF EvictFiles, CacheTypeOK, DirRecord
  <2>8. PICK r : r = [task[t] EXCEPT !.pc = "evicted"]
    OBVIOUS
  <2>9. task' = [task EXCEPT ![t] = r]
    BY <1>4, <2>8 DEF EvictFiles, Go
  <2>10. Fit(r) /\ Earned(r, overlapped)
    BY <2>1, <2>8, GoesOn DEF Labels
  <2>11. Write(files) /\ overlapped' = overlapped /\ crowded' = crowded
    BY <1>4 DEF EvictFiles, history
  <2> QED BY <1>2, <1>3, <2>1, <2>3, <2>6, <2>7, <2>9, <2>10, <2>11
<1>5. CASE Break(t)
  <2>1. task[t].pc = "stream" /\ NextMirror(t)
    BY <1>5 DEF Break, At
  <2>2. PICK m : m = task[t].model
    OBVIOUS
  <2>3. m \in Model
    BY <2>1, <2>2, HasModel
  <2>4. PICK d : d = dir[m]
    OBVIOUS
  <2>5. d \in DirRecord /\ FewerNames(m, d)
    BY <1>1, <2>3, <2>4 DEF CacheTypeOK, FewerNames
  <2>6. dir' = [dir EXCEPT ![m] = d]
    BY <1>1, <1>5, <2>3, <2>4 DEF Break, CacheTypeOK
  <2>7. PICK r : task' = [task EXCEPT ![t] = r] /\ Fit(r) /\ Earned(r, overlapped)
    BY <2>1, FailsIs
  <2>8. /\ index' = index /\ engine' = engine /\ manifests' = manifests
        /\ Write(files) /\ overlapped' = overlapped /\ crowded' = crowded
    BY <1>5 DEF Break, history
  <2> QED BY <1>2, <1>3, <2>3, <2>4, <2>5, <2>6, <2>7, <2>8
<1>6. CASE Room(t)
  <2>1. PICK idx : idx = index[Mgr(t)]
    OBVIOUS
  <2>2. PICK enough \in BOOLEAN : enough = (idx = <<>> \/ Fits(idx, task[t].size))
    OBVIOUS
  <2>3. /\ task[t].pc = "room" /\ task[t].fd = None
        /\ index' = index /\ engine' = engine /\ manifests' = manifests /\ overlapped' = overlapped
        /\ Write(files)
    BY <1>1, <1>6 DEF Room, At, TaskInv, Working
  <2>4. crowded' \in BOOLEAN
    BY <1>6 DEF Room
  <2>5. CASE ~enough
    <3>1. idx \in Seq(Entry) /\ idx # <<>>
      BY <1>1, <2>1, <2>2, <2>5, MgrIs DEF CacheTypeOK, IndexTypes
    <3>2. Head(idx) \in Entry
      BY <3>1, HeadTailProperties
    <3>3. PICK m \in Model : m = Head(idx).model
      BY <3>2 DEF Entry
    <3>4. PICK d : d = [dir[m] EXCEPT !.slot = None]
      OBVIOUS
    <3>5. dir[m] \in DirRecord
      BY <1>1 DEF CacheTypeOK
    <3>6. d \in DirRecord /\ d.partial = dir[m].partial /\ FewerNames(m, d)
      BY <3>4, <3>5 DEF DirRecord, FewerNames, Names
    <3>7. dir' = [dir EXCEPT ![m] = d]
      BY <1>6, <2>1, <2>2, <2>5, <3>3, <3>4 DEF Room
    <3>8. PICK r : r = [task[t] EXCEPT !.pc = "drop", !.victim = m]
      OBVIOUS
    <3>9. task' = [task EXCEPT ![t] = r]
      BY <1>6, <2>1, <2>2, <2>5, <3>3, <3>8 DEF Room
    <3>10. /\ r \in Request /\ r.pc = "drop" /\ r.fd = None /\ r.model = task[t].model
           /\ r.kind = task[t].kind
      BY <1>1, <2>3, <3>8 DEF Request, Labels
    <3>11. Fit(r) /\ Earned(r, overlapped)
      BY <1>1, <2>3, <3>10 DEF Fit, Earned, TaskInv, Working
    <3> QED BY <1>3, <2>3, <2>4, <3>6, <3>7, <3>9, <3>11
  <2>6. CASE enough
    <3>1. dir' = dir
      BY <1>6, <2>1, <2>2, <2>6 DEF Room
    <3>2. \E r : Fit(r) /\ Earned(r, overlapped) /\ task' = [task EXCEPT ![t] = r]
      <4>1. CASE task[t].kind = "gc"
        <5>1. task' = [task EXCEPT ![t] = EndOf(t, "done", <<>>, <<>>)]
          BY <1>6, <2>1, <2>2, <2>6, <4>1 DEF Room, Ended, EndOf
        <5>2. /\ <<>> \in Seq(AllChunks) /\ "done" \in {"failed", "done"} /\ "done" # "failed"
              /\ task[t].pc # "idle"
          BY <2>3
        <5>3. Fit(EndOf(t, "done", <<>>, <<>>)) /\ Earned(EndOf(t, "done", <<>>, <<>>), overlapped)
          BY <4>1, <5>2, EndIs
        <5> QED BY <5>1, <5>3
      <4>2. CASE task[t].kind # "gc"
        <5>1. PICK r : r = [task[t] EXCEPT !.pc = "place"]
          OBVIOUS
        <5>2. task' = [task EXCEPT ![t] = r]
          BY <1>6, <2>1, <2>2, <2>6, <4>2, <5>1 DEF Room, Go
        <5>3. /\ r \in Request /\ r.pc = "place" /\ r.fd = None /\ r.model = task[t].model
              /\ r.kind = task[t].kind
          BY <1>1, <2>3, <5>1 DEF Request, Labels
        <5>4. Fit(r) /\ Earned(r, overlapped)
          BY <1>1, <2>3, <4>2, <5>3 DEF Fit, Earned, TaskInv, Working
        <5> QED BY <5>2, <5>4
      <4> QED BY <4>1, <4>2
    <3>3. PICK r : Fit(r) /\ Earned(r, overlapped) /\ task' = [task EXCEPT ![t] = r]
      BY <3>2
    <3>4. \A u \in Task : task'[u].fd = task[u].fd
      BY <1>1, <2>3, <3>3 DEF CacheTypeOK, Fit
    <3>5. Referenced' = Referenced
      BY <3>1, <3>4 DEF Referenced
    <3>6. files' = files
      <4>1. files' = [f \in FileId |-> IF f \in Referenced THEN files[f] ELSE <<>>]
        BY <2>3, <3>5 DEF Write
      <4>2. \A f \in FileId : files'[f] = files[f]
        BY <4>1 DEF FilesInv, Erased
      <4>3. files \in [FileId -> Seq(AllChunks)]
        BY <1>1 DEF CacheTypeOK
      <4> QED BY <4>1, <4>2, <4>3
    <3>7. IndexTypes' /\ EngineTypes' /\ EngineHolds' /\ manifests' \subseteq Model
      BY <1>1, <2>3 DEF FilesInv, CacheTypeOK, IndexTypes, EngineTypes, EngineHolds
    <3>8. task[t].pc # "stream"
      BY <2>3
    <3> QED BY <2>3, <2>4, <3>1, <3>3, <3>6, <3>7, <3>8, DiskRests
  <2> QED BY <2>5, <2>6
<1> QED BY <1>4, <1>5, <1>6

\* One of a model's files is renamed.
Moves(m, d, a, b) ==
  /\ d[a] = None /\ d[b] = dir[m][a]
  /\ \A x \in Names \ {a, b} : d[x] = dir[m][x]

\* Renaming a file that is verified, if it has to be, keeps the invariant.
LEMMA MovesName ==
  ASSUME FilesInv, NEW t \in Task, NEW r, Fit(r), Earned(r, overlapped), overlapped' = overlapped,
         NEW m \in Model, m = task[t].model, NEW d \in DirRecord, Changes(t, r, m, d, files),
         NEW a \in Names, NEW b \in Names, a # b, Moves(m, d, a, b),
         m \notin overlapped /\ dir[m][a] # None => files[dir[m][a]] = Full(m)
  PROVE  FilesInv'
<1>1. CacheTypeOK /\ r \in Request /\ ModelInv(m)
  BY DEF FilesInv, Fit
<1>2. /\ Touches(t) /\ CacheTypeOK' /\ EngineHolds' /\ task'[t] = r /\ dir'[m] = d
      /\ \A f \in FileId : f \in Referenced' => files'[f] = files[f]
  BY <1>1, ChangesWell DEF CacheTypeOK
<1>3. Continues(t)
  BY <1>2 DEF Continues, Fit
<1>4. TaskInv(t)'
  BY <1>2, FitIs
<1>5. ASSUME NEW x \in Names, dir'[m][x] # None
      PROVE  \E y \in Names : /\ dir'[m][x] = dir[m][y] /\ dir[m][y] # None /\ files'[dir[m][y]] = files[dir[m][y]]
                              /\ x = b => y = a
                              /\ x # b => y = x /\ x # a
  <2>1. \E y \in Names : dir'[m][x] = dir[m][y] /\ (x = b => y = a) /\ (x # b => y = x /\ x # a)
    BY <1>2, <1>5 DEF Moves
  <2>2. PICK y \in Names : dir'[m][x] = dir[m][y] /\ (x = b => y = a) /\ (x # b => y = x /\ x # a)
    BY <2>1
  <2>3. dir[m][y] \in FileId /\ dir[m][y] \in Referenced'
    BY <1>1, <1>5, <2>2, NameTypes, WillRefer DEF CacheTypeOK
  <2> QED BY <1>2, <1>5, <2>2, <2>3
<1>6. ASSUME NEW x \in Names, NEW z \in Names, dir'[m][x] = dir'[m][z], dir'[m][x] # None PROVE x = z
  <2>1. PICK y \in Names : dir'[m][x] = dir[m][y] /\ (x = b => y = a) /\ (x # b => y = x /\ x # a)
    BY <1>5, <1>6
  <2>2. PICK w \in Names : dir'[m][z] = dir[m][w] /\ (z = b => w = a) /\ (z # b => w = z /\ z # a)
    BY <1>5, <1>6
  <2>3. y = w
    BY <1>1, <1>6, <2>1, <2>2 DEF ModelInv
  <2> QED BY <2>1, <2>2, <2>3
<1>7. ASSUME NEW x \in Names, dir'[m][x] # None PROVE files'[dir'[m][x]] \in Seq(ChunksOf(m))
  BY <1>1, <1>5, <1>7 DEF ModelInv
<1>8. ASSUME m \notin overlapped, NEW x \in {"slot", "staging"}, dir'[m][x] # None PROVE files'[dir'[m][x]] = Full(m)
  <2>1. x \in Names
    BY DEF Names
  <2>2. PICK y \in Names : /\ dir'[m][x] = dir[m][y] /\ dir[m][y] # None /\ files'[dir[m][y]] = files[dir[m][y]]
                           /\ x = b => y = a
                           /\ x # b => y = x /\ x # a
    BY <1>5, <1>8, <2>1
  <2>3. CASE x = b
    BY <1>8, <2>2, <2>3
  <2>4. CASE x # b
    BY <1>1, <1>8, <2>2, <2>4 DEF ModelInv
  <2> QED BY <2>3, <2>4
<1>9. ModelInv(m)'
  BY <1>6, <1>7, <1>8 DEF ModelInv
<1>10. \A k \in Model : k = task[t].model => ModelInv(k)'
  BY <1>9
<1> QED BY <1>2, <1>3, <1>4, <1>10, StepKeeps

\* A complete download becomes the staging file, and a staging file the model's.
LEMMA MoveKeeps ==
  ASSUME FilesInv, NEW t \in Task, Finish(t) \/ Place(t)
  PROVE  FilesInv'
<1>1. CacheTypeOK /\ TaskInv(t) /\ task[t] \in Request
  BY DEF FilesInv, CacheTypeOK
<1>2. overlapped \subseteq Model /\ crowded \in BOOLEAN
  BY <1>1 DEF CacheTypeOK
<1>3. PICK m : m = task[t].model
  OBVIOUS
<1>4. task[t].pc \in {"stream", "place"}
  BY DEF Finish, Place, At
<1>5. m \in Model /\ dir[m] \in DirRecord /\ task[t].kind # "gc"
  BY <1>1, <1>3, <1>4, HasModel DEF CacheTypeOK
<1>6. /\ Write(files) /\ overlapped' = overlapped /\ crowded' = crowded
      /\ index' = index /\ engine' = engine /\ manifests' = manifests
  BY DEF Finish, Place, history
<1>7. ASSUME NEW r, task' = [task EXCEPT ![t] = r], NEW d \in DirRecord, dir' = [dir EXCEPT ![m] = d], NewNames(m, d),
             d.partial = dir[m].partial \/ task[t].pc = "stream"
      PROVE  Changes(t, r, m, d, files)
  BY <1>2, <1>3, <1>6, <1>7, Unwritten DEF Changes, Downloading
<1>8. ASSUME NextMirror(t) \/ Fails(t), NEW d \in DirRecord, dir' = [dir EXCEPT ![m] = d], FewerNames(m, d),
             d.partial = dir[m].partial \/ task[t].pc = "stream"
      PROVE  FilesInv'
  <2>1. NewNames(m, d)
    BY <1>8 DEF NewNames, FewerNames
  <2>2. PICK r : task' = [task EXCEPT ![t] = r] /\ Fit(r) /\ Earned(r, overlapped')
    BY <1>4, <1>8, FailsIs
  <2> QED BY <1>5, <1>7, <1>8, <2>1, <2>2, TakesNames
<1>9. /\ dir[m] \in DirRecord /\ FewerNames(m, dir[m])
      /\ dir = [dir EXCEPT ![m] = dir[m]]
  BY <1>1, <1>5 DEF CacheTypeOK, FewerNames
<1>10. CASE Finish(t)
  <2>1. task[t].pc = "stream" /\ Len(task[t].hashed) = SizeOf[m]
    BY <1>3, <1>10 DEF Finish, At
  <2>2. CASE ~DigestOk(t)
    <3>1. PICK d : d = [dir[m] EXCEPT !.partial = None]
      OBVIOUS
    <3>2. d \in DirRecord /\ FewerNames(m, d)
      BY <1>5, <3>1 DEF DirRecord, FewerNames, Names
    <3>3. dir' = [dir EXCEPT ![m] = d] /\ NextMirror(t)
      BY <1>3, <1>10, <2>2, <3>1 DEF Finish
    <3> QED BY <1>8, <2>1, <3>2, <3>3
  <2>3. CASE DigestOk(t) /\ dir[m].partial = None
    <3>1. dir' = dir /\ Fails(t)
      BY <1>3, <1>10, <2>3 DEF Finish
    <3> QED BY <1>8, <1>9, <3>1
  <2>4. CASE DigestOk(t) /\ dir[m].partial # None
    <3>1. PICK d : d = [dir[m] EXCEPT !.staging = dir[m].partial, !.partial = None]
      OBVIOUS
    <3>2. /\ d \in DirRecord /\ Moves(m, d, "partial", "staging")
          /\ "partial" \in Names /\ "staging" \in Names /\ "partial" # "staging"
      BY <1>5, <3>1 DEF DirRecord, Moves, Names
    <3>3. NewNames(m, d)
      BY <3>2 DEF NewNames, Moves
    <3>4. dir' = [dir EXCEPT ![m] = d]
      BY <1>1, <1>3, <1>5, <1>10, <2>4, <3>1 DEF Finish, CacheTypeOK, DirRecord
    <3>5. PICK r : r = [Idle EXCEPT !.pc = "pulled", !.kind = task[t].kind, !.model = m]
      OBVIOUS
    <3>6. task' = [task EXCEPT ![t] = r]
      BY <1>3, <1>10, <2>4, <3>5 DEF Finish
    <3>7. r = [pc |-> "pulled", kind |-> task[t].kind, model |-> m, mirror |-> 1, fd |-> None, from |-> 0,
               hashed |-> <<>>, size |-> 0, victim |-> None, seen |-> <<>>, got |-> <<>>]
      BY <3>5 DEF Idle
    <3>8. r \in Request
      BY <1>1, <1>5, <3>7 DEF Request, Labels
    <3>9. Fit(r) /\ Earned(r, overlapped)
      BY <1>5, <3>7, <3>8 DEF Fit, Earned
    <3>10. Changes(t, r, m, d, files)
      BY <1>7, <2>1, <3>2, <3>3, <3>4, <3>6
    <3>11. m \notin overlapped => files[dir[m].partial] = Full(m)
      BY <1>1, <1>3, <2>1, <2>4 DEF TaskInv, Hashes, DigestOk
    <3> QED BY <1>3, <1>5, <1>6, <3>2, <3>9, <3>10, <3>11, MovesName
  <2> QED BY <2>2, <2>3, <2>4
<1>11. CASE Place(t)
  <2>1. task[t].pc = "place"
    BY <1>11 DEF Place, At
  <2>2. CASE dir[m].staging = None
    <3>1. dir' = dir /\ Fails(t)
      BY <1>3, <1>11, <2>2 DEF Place
    <3> QED BY <1>8, <1>9, <3>1
  <2>3. CASE dir[m].staging # None
    <3>1. PICK d : d = [dir[m] EXCEPT !.slot = dir[m].staging, !.staging = None]
      OBVIOUS
    <3>2. /\ d \in DirRecord /\ Moves(m, d, "staging", "slot") /\ d.partial = dir[m].partial
          /\ "staging" \in Names /\ "slot" \in Names /\ "staging" # "slot"
      BY <1>5, <3>1 DEF DirRecord, Moves, Names
    <3>3. NewNames(m, d)
      BY <3>2 DEF NewNames, Moves
    <3>4. dir' = [dir EXCEPT ![m] = d]
      BY <1>1, <1>3, <1>5, <1>11, <2>3, <3>1 DEF Place, CacheTypeOK, DirRecord
    <3>5. PICK r : r = [task[t] EXCEPT !.pc = "record"]
      OBVIOUS
    <3>6. task' = [task EXCEPT ![t] = r]
      BY <1>3, <1>11, <2>3, <3>5 DEF Place, Go
    <3>7. Fit(r) /\ Earned(r, overlapped)
      BY <2>1, <3>5, GoesOn DEF Labels
    <3>8. Changes(t, r, m, d, files)
      BY <1>7, <3>2, <3>3, <3>4, <3>6
    <3>9. m \notin overlapped => files[dir[m].staging] = Full(m)
      <4>1. ModelInv(m) /\ "staging" \in {"slot", "staging"}
        BY <1>5 DEF FilesInv
      <4> QED BY <2>3, <4>1 DEF ModelInv
    <3> QED BY <1>3, <1>5, <1>6, <3>2, <3>7, <3>8, <3>9, MovesName
  <2> QED BY <2>2, <2>3
<1> QED BY <1>10, <1>11

\* A table has no more values than places.
LEMMA TableLeq ==
  ASSUME NEW S, IsFiniteSet(S), NEW R, IsFiniteSet(R), NEW f, NEW A, \A a \in A : \E m \in S, x \in R : a = f[m][x]
  PROVE  IsFiniteSet(A) /\ Cardinality(A) <= Cardinality(S) * Cardinality(R)
<1>1. PICK P : P = S \X R
  OBVIOUS
<1>2. PICK g : g = [p \in P |-> f[p[1]][p[2]]]
  OBVIOUS
<1>3. PICK I : I = {g[p] : p \in P}
  OBVIOUS
<1>4. ASSUME NEW a \in A PROVE a \in I
  <2>1. PICK m \in S, x \in R : a = f[m][x]
    OBVIOUS
  <2>2. <<m, x>> \in P /\ g[<<m, x>>] = f[m][x]
    BY <1>1, <1>2
  <2> QED BY <1>3, <2>1, <2>2
<1>5. g \in Surjection(P, I)
  BY <1>2, <1>3 DEF Surjection
<1>6. IsFiniteSet(P) /\ Cardinality(P) = Cardinality(S) * Cardinality(R)
  BY <1>1, FS_Product
<1>7. IsFiniteSet(I) /\ Cardinality(I) <= Cardinality(P)
  BY <1>5, <1>6, FS_Surjection
<1>8. IsFiniteSet(A) /\ Cardinality(A) <= Cardinality(I)
  <2>1. A \in SUBSET I
    BY <1>4
  <2> QED BY <1>7, <2>1, FS_Subset
<1>9. Cardinality(A) \in Nat /\ Cardinality(I) \in Nat /\ Cardinality(P) \in Nat
  BY <1>6, <1>7, <1>8, FS_CardinalityType
<1> QED BY <1>6, <1>7, <1>8, <1>9

\* There is a file for a download that has none.
LEMMA FreshFile ==
  ASSUME FilesInv, NEW t \in Task, task[t].fd = None
  PROVE  NewFile \in FileId /\ NewFile \notin Referenced
<1> DEFINE A == {f \in FileId : \E m \in Model, x \in Names : f = dir[m][x]}
           Others == Task \ {t}
           B == {task[u].fd : u \in Others}
           h == [u \in Others |-> task[u].fd]
<1>1. IsFiniteSet(Model) /\ IsFiniteSet(Task) /\ IsFiniteSet(FileId) /\ None \notin FileId
      /\ Cardinality(FileId) >= 3 * Cardinality(Model) + Cardinality(Task)
  BY ModelCacheAssumption DEF ModelCacheAssumption
<1>2. IsFiniteSet(Names) /\ Cardinality(Names) = 3
  <2>1. PICK one : one = {"slot"}
    OBVIOUS
  <2>2. PICK two : two = one \cup {"staging"}
    OBVIOUS
  <2>3. IsFiniteSet(one) /\ Cardinality(one) = 1 /\ "staging" \notin one
    BY <2>1, FS_Singleton
  <2>4. IsFiniteSet(two) /\ Cardinality(two) = 2
    BY <2>2, <2>3, FS_AddElement
  <2>5. "partial" \notin two /\ Names = two \cup {"partial"}
    BY <2>1, <2>2 DEF Names
  <2> QED BY <2>4, <2>5, FS_AddElement
<1>3. IsFiniteSet(A) /\ Cardinality(A) <= Cardinality(Model) * 3
  <2>1. \A a \in A : \E m \in Model, x \in Names : a = dir[m][x]
    OBVIOUS
  <2> HIDE DEF A
  <2> QED BY <1>1, <1>2, <2>1, TableLeq
<1>5. IsFiniteSet(Others) /\ Cardinality(Others) = Cardinality(Task) - 1
  BY <1>1, FS_RemoveElement
<1>6. IsFiniteSet(B) /\ Cardinality(B) <= Cardinality(Others)
  <2>1. h \in Surjection(Others, B)
    BY DEF Surjection
  <2> QED BY <1>5, <2>1, FS_Surjection
<1>7. IsFiniteSet(A \cup B) /\ Cardinality(A \cup B) = Cardinality(A) + Cardinality(B) - Cardinality(A \cap B)
      /\ IsFiniteSet(A \cap B)
  <2> HIDE DEF A, B
  <2>1. A \cap B \in SUBSET A
    OBVIOUS
  <2> QED BY <1>3, <1>6, <2>1, FS_Union, FS_Subset
<1>8. /\ Cardinality(A) \in Nat /\ Cardinality(B) \in Nat /\ Cardinality(A \cap B) \in Nat
      /\ Cardinality(Model) \in Nat /\ Cardinality(Task) \in Nat /\ Cardinality(FileId) \in Nat
  BY <1>1, <1>3, <1>6, <1>7, FS_CardinalityType
<1>9. Cardinality(A \cup B) < Cardinality(FileId)
  BY <1>1, <1>3, <1>5, <1>6, <1>7, <1>8
<1>10. \E f \in FileId : f \notin Referenced
  <2> SUFFICES ASSUME FileId \subseteq Referenced PROVE FALSE
    OBVIOUS
  <2>1. \A f \in FileId : f \in A \cup B
    BY <1>1 DEF Referenced, Names
  <2>2. Cardinality(FileId) <= Cardinality(A \cup B)
    BY <1>7, <2>1, FS_Subset
  <2> QED BY <1>7, <1>8, <1>9, <2>2
<1> QED BY <1>10 DEF NewFile

\* A request that asks its mirror for the rest of the file.
LEMMA StatKeeps ==
  ASSUME FilesInv, NEW t \in Task, Stat(t)
  PROVE  FilesInv'
<1>1. CacheTypeOK /\ TaskInv(t) /\ task[t] \in Request /\ task[t].pc = "stat"
  BY DEF FilesInv, CacheTypeOK, Stat, At
<1>2. overlapped \subseteq Model /\ crowded \in BOOLEAN
  BY <1>1 DEF CacheTypeOK
<1>3. PICK m : m = task[t].model
  OBVIOUS
<1>4. m \in Model /\ task[t].kind # "gc" /\ task[t].fd = None
  BY <1>1, <1>3, HasModel
<1>5. dir[m] \in DirRecord
  BY <1>1, <1>4 DEF CacheTypeOK
<1>6. PICK p \in FileId \cup {None} : p = dir[m].partial
  BY <1>5 DEF DirRecord
<1>7. p # None => files[p] \in Seq(AllChunks) /\ Len(files[p]) \in Nat
  BY <1>1, <1>6 DEF CacheTypeOK
<1>8. PICK stale \in BOOLEAN : stale = (p # None /\ Len(files[p]) >= SizeOf[m])
  OBVIOUS
<1>9. PICK from \in Nat : from = IF stale \/ p = None THEN 0 ELSE Len(files[p])
  BY <1>7
<1>10. PICK d : d = IF stale THEN [dir[m] EXCEPT !.partial = None] ELSE dir[m]
  OBVIOUS
<1>11. /\ d \in DirRecord /\ FewerNames(m, d) /\ d.partial = (IF stale THEN None ELSE p)
  BY <1>5, <1>6, <1>10 DEF DirRecord, FewerNames, Names
<1>12. dir' = [dir EXCEPT ![m] = d]
  <2>1. dir' = IF stale THEN [dir EXCEPT ![m].partial = None] ELSE dir
    BY <1>3, <1>6, <1>8 DEF Stat
  <2>2. stale => dir' = [dir EXCEPT ![m] = [dir[m] EXCEPT !.partial = None]]
    BY <2>1
  <2>3. dir = [dir EXCEPT ![m] = dir[m]]
    BY <1>1, <1>4 DEF CacheTypeOK
  <2> QED BY <1>10, <2>1, <2>2, <2>3
<1>13. PICK r : r = [task[t] EXCEPT !.pc = "request", !.from = from]
  OBVIOUS
<1>14. task' = [task EXCEPT ![t] = r]
  BY <1>3, <1>6, <1>8, <1>9, <1>13 DEF Stat
<1>15. /\ r \in Request /\ r.pc = "request" /\ r.from = from /\ r.fd = None /\ r.model = m
       /\ r.kind = task[t].kind
  BY <1>1, <1>3, <1>4, <1>13 DEF Request, Labels
<1>16. /\ overlapped' = IF \E u \in Task \ {t} : Downloading(u) /\ task[u].model = m
                        THEN overlapped \cup {m} ELSE overlapped
       /\ Write(files) /\ crowded' = crowded
       /\ index' = index /\ engine' = engine /\ manifests' = manifests
  BY <1>3 DEF Stat
<1>17. Shares(t, m) /\ overlapped \subseteq overlapped' /\ overlapped' \subseteq Model
  BY <1>2, <1>4, <1>16 DEF Shares
<1>18. Changes(t, r, m, d, files)
  <2>1. NewNames(m, d)
    BY <1>11 DEF NewNames, FewerNames
  <2> QED BY <1>2, <1>3, <1>11, <1>12, <1>14, <1>16, <1>17, <2>1, Unwritten DEF Changes
<1>19. /\ Touches(t) /\ CacheTypeOK' /\ EngineHolds' /\ task'[t] = r /\ dir'[m] = d
       /\ \A k \in Model : k # m => dir'[k] = dir[k]
       /\ \A f \in FileId : f \in Referenced' => files'[f] = files[f]
  BY <1>1, <1>4, <1>11, <1>15, <1>18, ChangesWell DEF CacheTypeOK
<1>20. Continues(t)
  BY <1>3, <1>15, <1>17, <1>19 DEF Continues, Shares
<1>21. TaskInv(t)'
  <2>1. Working(t)'
    BY <1>4, <1>15, <1>19 DEF Working
  <2>2. Writes(t)'
    BY <1>15, <1>19 DEF Writes
  <2>3. Hashes(t)' /\ Gets(t)'
    BY <1>15, <1>19 DEF Hashes, Gets
  <2>4. from = IF dir'[m].partial = None THEN 0 ELSE Len(files'[dir'[m].partial])
    <3>1. dir'[m].partial = IF stale THEN None ELSE p
      BY <1>11, <1>19
    <3>2. ~stale /\ p # None => files'[p] = files[p]
      <4>1. dir'[m]["partial"] \in Referenced'
        BY <1>4, WillRefer DEF Names
      <4> QED BY <1>19, <3>1, <4>1
    <3> QED BY <1>8, <1>9, <3>1, <3>2
  <2>5. Resumes(t)'
    BY <1>15, <1>19, <2>4 DEF Resumes
  <2> QED BY <2>1, <2>2, <2>3, <2>5 DEF TaskInv
<1>22. \A k \in Model : k = task[t].model => ModelInv(k)'
  <2>1. \A x \in Names : dir'[m][x] \in {None, dir[m][x]}
    BY <1>11, <1>19 DEF FewerNames
  <2> QED BY <1>3, <1>4, <1>17, <1>19, <2>1, ModelKept
<1> QED BY <1>19, <1>20, <1>21, <1>22, StepKeeps

\* A chunk is written to a file.
Extends(bytes, fd, c) == bytes = [files EXCEPT ![fd] = Append(@, c)]

\* The file is a download's.
LEMMA ChunkWritten ==
  ASSUME FilesInv, NEW t \in Task, task[t].pc = "stream", NEW m, m = task[t].model, NEW fd, fd = task[t].fd,
         NEW c \in ChunksOf(m), NEW bytes, Extends(bytes, fd, c)
  PROVE  /\ m \in Model /\ fd \in FileId /\ fd # None /\ bytes \in [FileId -> Seq(AllChunks)]
         /\ bytes[fd] = Append(files[fd], c) /\ bytes[fd] \in Seq(ChunksOf(m))
         /\ Appends(t, bytes)
<1>1. CacheTypeOK /\ TaskInv(t) /\ task[t] \in Request
  BY DEF FilesInv, CacheTypeOK
<1>2. m \in Model
  BY HasModel
<1>3. fd # None /\ fd \in FileId
  BY <1>1 DEF TaskInv, Working, Request
<1>4. files[fd] \in Seq(ChunksOf(m))
  BY <1>1 DEF TaskInv, Writes
<1>5. Append(files[fd], c) \in Seq(ChunksOf(m))
  BY <1>4
<1>6. Append(files[fd], c) \in Seq(AllChunks)
  BY <1>2, <1>5, ChunksAre
<1>7. files \in [FileId -> Seq(AllChunks)]
  BY <1>1 DEF CacheTypeOK
<1>8. bytes = [f \in FileId |-> IF f = fd THEN Append(files[fd], c) ELSE files[f]]
  BY <1>3, <1>7 DEF Extends
<1>9. bytes[fd] = Append(files[fd], c) /\ \A f \in FileId : f # fd => bytes[f] = files[f]
  BY <1>3, <1>8
<1>10. bytes \in [FileId -> Seq(AllChunks)]
  BY <1>6, <1>7, <1>8
<1> QED BY <1>2, <1>3, <1>5, <1>9, <1>10 DEF Appends

\* The model's files after it: only the partial may have grown.
LEMMA ChunkModel ==
  ASSUME FilesInv, NEW t \in Task, task[t].pc = "stream", NEW m \in Model, m = task[t].model, NEW fd, fd = task[t].fd,
         NEW bytes, bytes[fd] \in Seq(ChunksOf(m)), Appends(t, bytes), dir' = dir, overlapped' = overlapped,
         \A f \in FileId : f \in Referenced' => files'[f] = bytes[f]
  PROVE  ModelInv(m)'
<1>1. CacheTypeOK /\ TaskInv(t) /\ ModelInv(m)
  BY DEF FilesInv, CacheTypeOK
<1>2. ASSUME NEW x \in Names, dir[m][x] # None PROVE files'[dir[m][x]] = bytes[dir[m][x]] /\ dir[m][x] \in FileId
  <2>1. dir[m][x] \in FileId
    BY <1>1, <1>2, NameTypes DEF CacheTypeOK
  <2>2. dir'[m][x] \in Referenced'
    BY WillRefer
  <2> QED BY <2>1, <2>2
<1>3. ASSUME NEW x \in Names, dir[m][x] # None, dir[m][x] # fd PROVE files'[dir[m][x]] = files[dir[m][x]]
  BY <1>2, <1>3 DEF Appends
<1>4. \A x, y \in Names : dir'[m][x] = dir'[m][y] /\ dir'[m][x] # None => x = y
  BY <1>1 DEF ModelInv
<1>5. ASSUME NEW x \in Names, dir'[m][x] # None PROVE files'[dir'[m][x]] \in Seq(ChunksOf(m))
  <2>1. CASE dir[m][x] = fd
    BY <1>2, <1>5, <2>1
  <2>2. CASE dir[m][x] # fd
    BY <1>1, <1>3, <1>5, <2>2 DEF ModelInv
  <2> QED BY <2>1, <2>2
<1>6. ASSUME m \notin overlapped, NEW x \in {"slot", "staging"}, dir'[m][x] # None PROVE files'[dir'[m][x]] = Full(m)
  <2>1. x \in Names /\ "partial" \in Names /\ x # "partial"
    BY DEF Names
  <2>2. dir[m]["partial"] = fd
    BY <1>1, <1>6 DEF TaskInv, Hashes
  <2>3. dir[m][x] # fd
    BY <1>1, <1>6, <2>1, <2>2 DEF ModelInv
  <2> QED BY <1>1, <1>3, <1>6, <2>1, <2>3 DEF ModelInv
<1> QED BY <1>4, <1>5, <1>6 DEF ModelInv

\* A request that receives a chunk.
LEMMA StreamKeeps ==
  ASSUME FilesInv, NEW t \in Task, Chunk(t, TRUE) \/ Chunk(t, FALSE) \/ Surplus(t)
  PROVE  FilesInv'
<1>1. CacheTypeOK /\ TaskInv(t) /\ task[t] \in Request /\ task[t].pc = "stream"
  BY DEF FilesInv, CacheTypeOK, Chunk, Surplus, At
<1>2. overlapped \subseteq Model /\ crowded \in BOOLEAN
  BY <1>1 DEF CacheTypeOK
<1>3. PICK m : m = task[t].model
  OBVIOUS
<1>4. PICK fd : fd = task[t].fd
  OBVIOUS
<1>5. /\ dir' = dir /\ overlapped' = overlapped /\ crowded' = crowded
      /\ index' = index /\ engine' = engine /\ manifests' = manifests
  BY DEF Chunk, Surplus, history
<1>6. m \in Model /\ task[t].kind # "gc"
  BY <1>1, <1>3, HasModel
<1>7. dir[m] \in DirRecord /\ dir' = [dir EXCEPT ![m] = dir[m]]
  BY <1>1, <1>5, <1>6 DEF CacheTypeOK
<1>8. ASSUME NEW c \in ChunksOf(m), NEW bytes, Extends(bytes, fd, c),
             NEW r \in Request, task' = [task EXCEPT ![t] = r], Write(bytes)
      PROVE  /\ Touches(t) /\ CacheTypeOK' /\ EngineHolds' /\ task'[t] = r /\ ModelInv(m)'
             /\ fd \in FileId /\ fd # None
             /\ fd \in Referenced' => files'[fd] = Append(files[fd], c) /\ files'[fd] \in Seq(ChunksOf(m))
  <2>1. /\ fd \in FileId /\ fd # None /\ bytes \in [FileId -> Seq(AllChunks)]
        /\ bytes[fd] = Append(files[fd], c) /\ bytes[fd] \in Seq(ChunksOf(m)) /\ Appends(t, bytes)
    BY <1>1, <1>3, <1>4, <1>8, ChunkWritten, SMTT(30)
  <2>2. NewNames(m, dir[m])
    BY DEF NewNames
  <2>3. Changes(t, r, m, dir[m], bytes)
    BY <1>2, <1>3, <1>5, <1>7, <1>8, <2>1, <2>2 DEF Changes
  <2>4. /\ Touches(t) /\ CacheTypeOK' /\ EngineHolds' /\ task'[t] = r
        /\ \A f \in FileId : f \in Referenced' => files'[f] = bytes[f]
    BY <1>6, <1>7, <2>1, <2>3, ChangesWell
  <2>5. ModelInv(m)'
    BY <1>1, <1>3, <1>4, <1>5, <1>6, <2>1, <2>4, ChunkModel
  <2> QED BY <2>1, <2>4, <2>5
<1>9. CASE Surplus(t)
  <2>1. PICK r : task' = [task EXCEPT ![t] = r] /\ Fit(r) /\ Earned(r, overlapped)
    BY <1>1, <1>9, FailsIs DEF Surplus
  <2>2. Bad \in ChunksOf(m) /\ r \in Request
    BY <2>1 DEF ChunksOf, Fit
  <2>3. Write([files EXCEPT ![fd] = Append(@, Bad)])
    BY <1>4, <1>9 DEF Surplus
  <2>4. Touches(t) /\ CacheTypeOK' /\ EngineHolds' /\ task'[t] = r /\ ModelInv(m)'
    <3>1. PICK bytes : bytes = [files EXCEPT ![fd] = Append(@, Bad)]
      OBVIOUS
    <3>2. Extends(bytes, fd, Bad) /\ Write(bytes)
      BY <2>3, <3>1 DEF Extends
    <3> QED BY <1>8, <2>1, <2>2, <3>2
  <2>5. Continues(t)
    BY <2>1, <2>4 DEF Continues, Fit
  <2>6. TaskInv(t)'
    BY <1>5, <2>1, <2>4, FitIs
  <2>7. \A k \in Model : k = task[t].model => ModelInv(k)'
    BY <1>3, <2>4
  <2> QED BY <2>4, <2>5, <2>6, <2>7, StepKeeps
<1>10. ASSUME NEW right \in BOOLEAN, Chunk(t, right) PROVE FilesInv'
  <2>1. PICK c : c = IF right THEN <<m, Len(task[t].hashed) + 1>> ELSE Bad
    OBVIOUS
  <2>2. task[t].hashed \in Seq(AllChunks) /\ Len(task[t].hashed) + 1 \in Nat
    BY <1>1 DEF Request
  <2>3. c \in ChunksOf(m) /\ c \in AllChunks
    BY <1>6, <2>1, <2>2, ChunksAre DEF ChunksOf
  <2>4. PICK r : r = [task[t] EXCEPT !.hashed = Append(task[t].hashed, c)]
    OBVIOUS
  <2>5. Append(task[t].hashed, c) \in Seq(AllChunks)
    BY <2>2, <2>3
  <2>6. /\ r \in Request /\ r.pc = "stream" /\ r.fd = fd /\ r.model = m /\ r.kind = task[t].kind
        /\ r.hashed = Append(task[t].hashed, c)
    BY <1>1, <1>3, <1>4, <2>4, <2>5 DEF Request
  <2>7. task' = [task EXCEPT ![t] = r] /\ Write([files EXCEPT ![fd] = Append(@, c)])
    BY <1>3, <1>4, <1>10, <2>1, <2>4 DEF Chunk
  <2>8. /\ Touches(t) /\ CacheTypeOK' /\ EngineHolds' /\ task'[t] = r /\ ModelInv(m)'
        /\ fd \in FileId /\ fd # None
        /\ fd \in Referenced' => files'[fd] = Append(files[fd], c) /\ files'[fd] \in Seq(ChunksOf(m))
    <3>1. PICK bytes : bytes = [files EXCEPT ![fd] = Append(@, c)]
      OBVIOUS
    <3>2. Extends(bytes, fd, c) /\ Write(bytes)
      BY <2>7, <3>1 DEF Extends
    <3> QED BY <1>8, <2>3, <2>6, <2>7, <3>2
  <2>9. files'[fd] = Append(files[fd], c) /\ files'[fd] \in Seq(ChunksOf(m))
    <3>1. task'[t].fd \in Referenced'
      BY WillRefer
    <3> QED BY <2>6, <2>8, <3>1
  <2>10. Continues(t)
    BY <1>1, <1>3, <1>4, <1>6, <2>6, <2>8 DEF Continues, Downloading
  <2>11. Working(t)'
    BY <1>6, <2>6, <2>8 DEF Working
  <2>12. Writes(t)'
    <3>1. \A k \in Model : \A x \in Names : m # k => dir'[k][x] # fd
      BY <1>1, <1>3, <1>4, <1>5, <2>8 DEF TaskInv, Writes
    <3> QED BY <2>6, <2>8, <2>9, <3>1 DEF Writes
  <2>13. Resumes(t)' /\ Gets(t)'
    BY <2>6, <2>8 DEF Resumes, Gets
  <2>14. Hashes(t)'
    <3>1. m \notin overlapped => dir[m].partial = fd /\ files[fd] = task[t].hashed
      BY <1>1, <1>3, <1>4 DEF TaskInv, Hashes
    <3> QED BY <1>5, <2>6, <2>8, <2>9, <3>1 DEF Hashes
  <2>15. TaskInv(t)'
    BY <2>11, <2>12, <2>13, <2>14 DEF TaskInv
  <2>16. \A k \in Model : k = task[t].model => ModelInv(k)'
    BY <1>3, <2>8
  <2> QED BY <2>8, <2>10, <2>15, <2>16, StepKeeps
<1> QED BY <1>9, <1>10

\* A model whose partial is opened, or made anew.
Opens(m, d, fd) ==
  /\ d.slot = dir[m].slot /\ d.staging = dir[m].staging /\ d.partial = fd
  /\ fd \in FileId
  /\ fd = dir[m].partial \/ fd \notin Referenced

\* Such a model keeps its files.
LEMMA OpenModel ==
  ASSUME FilesInv, NEW m \in Model, NEW d, NEW fd, Opens(m, d, fd), dir'[m] = d, overlapped' = overlapped,
         \A f \in FileId : f \in Referenced' => files'[f] = files[f]
  PROVE  ModelInv(m)' /\ files[fd] \in Seq(ChunksOf(m)) /\ files'[fd] = files[fd] /\ fd # None
<1>1. CacheTypeOK /\ ModelInv(m) /\ Erased
  BY DEF FilesInv, CacheTypeOK
<1>2. fd \in FileId /\ fd # None
  BY ModelCacheAssumption DEF Opens, ModelCacheAssumption
<1>3. "partial" \in Names /\ "slot" \in Names /\ "staging" \in Names
  BY DEF Names
<1>4. files[fd] \in Seq(ChunksOf(m))
  <2>1. CASE fd = dir[m]["partial"]
    BY <1>1, <1>2, <1>3, <2>1 DEF ModelInv
  <2>2. CASE fd \notin Referenced
    <3>1. files[fd] = <<>>
      BY <1>1, <1>2, <2>2 DEF Erased
    <3> QED BY <3>1
  <2> QED BY <2>1, <2>2 DEF Opens
<1>5. files'[fd] = files[fd]
  <2>1. dir'[m]["partial"] \in Referenced'
    BY <1>3, WillRefer
  <2> QED BY <1>2, <2>1 DEF Opens
<1>6. \A x \in Names : x # "partial" => dir'[m][x] = dir[m][x] /\ x \in {"slot", "staging"}
  BY DEF Names, Opens
<1>7. ASSUME NEW x \in Names, x # "partial", dir'[m][x] # None
      PROVE  dir'[m][x] = dir[m][x] /\ dir'[m][x] # fd /\ files'[dir[m][x]] = files[dir[m][x]]
  <2>1. dir'[m][x] = dir[m][x] /\ dir[m][x] \in Referenced /\ dir'[m][x] \in Referenced'
    BY <1>6, <1>7, Refers, WillRefer
  <2>2. dir[m][x] \in FileId
    BY <1>1, <1>7, <2>1, NameTypes DEF CacheTypeOK
  <2>3. dir[m][x] # fd
    <3>1. CASE fd = dir[m]["partial"]
      BY <1>1, <1>2, <1>3, <1>7, <3>1 DEF ModelInv
    <3>2. CASE fd \notin Referenced
      BY <2>1, <3>2
    <3> QED BY <3>1, <3>2 DEF Opens
  <2> QED BY <2>1, <2>2, <2>3
<1>8. dir'[m]["partial"] = fd
  BY DEF Opens
<1>9. ASSUME NEW x \in Names, NEW y \in Names, dir'[m][x] = dir'[m][y], dir'[m][x] # None PROVE x = y
  <2>1. CASE x = "partial" \/ y = "partial"
    BY <1>7, <1>8, <1>9, <2>1
  <2>2. CASE x # "partial" /\ y # "partial"
    BY <1>1, <1>6, <1>9, <2>2 DEF ModelInv
  <2> QED BY <2>1, <2>2
<1>10. ASSUME NEW x \in Names, dir'[m][x] # None PROVE files'[dir'[m][x]] \in Seq(ChunksOf(m))
  <2>1. CASE x = "partial"
    BY <1>4, <1>5, <1>8, <2>1
  <2>2. CASE x # "partial"
    BY <1>1, <1>7, <1>10, <2>2 DEF ModelInv
  <2> QED BY <2>1, <2>2
<1>11. ASSUME m \notin overlapped, NEW x \in {"slot", "staging"}, dir'[m][x] # None PROVE files'[dir'[m][x]] = Full(m)
  <2>1. x \in Names /\ x # "partial"
    BY DEF Names
  <2>2. dir'[m][x] = dir[m][x] /\ files'[dir[m][x]] = files[dir[m][x]]
    BY <1>7, <1>11, <2>1
  <2>3. files[dir[m][x]] = Full(m)
    BY <1>1, <1>11, <2>2 DEF ModelInv
  <2> QED BY <2>2, <2>3
<1> QED BY <1>2, <1>4, <1>5, <1>9, <1>10, <1>11 DEF ModelInv

\* A mirror answers.
LEMMA OpenKeeps ==
  ASSUME FilesInv, NEW t \in Task, NEW full \in BOOLEAN, Open(t, full)
  PROVE  FilesInv'
<1>1. CacheTypeOK /\ TaskInv(t) /\ task[t] \in Request /\ task[t].pc = "request"
  BY DEF FilesInv, CacheTypeOK, Open, At
<1>2. overlapped \subseteq Model /\ crowded \in BOOLEAN
  BY <1>1 DEF CacheTypeOK
<1>3. PICK m : m = task[t].model
  OBVIOUS
<1>4. m \in Model /\ task[t].kind # "gc" /\ task[t].fd = None /\ task[t].from \in Nat
  BY <1>1, <1>3, HasModel DEF Request
<1>5. dir[m] \in DirRecord
  BY <1>1, <1>4 DEF CacheTypeOK
<1>6. PICK restart \in BOOLEAN : restart = (full /\ task[t].from > 0)
  OBVIOUS
<1>7. PICK p \in FileId \cup {None} : p = IF restart THEN None ELSE dir[m].partial
  BY <1>5 DEF DirRecord
<1>8. PICK fd : fd = IF p = None THEN NewFile ELSE p
  OBVIOUS
<1>9. PICK held \in Seq(AllChunks) : held = IF p = None THEN <<>> ELSE files[p]
  <2>1. p # None => files[p] \in Seq(AllChunks)
    BY <1>1, <1>7 DEF CacheTypeOK
  <2>2. <<>> \in Seq(AllChunks)
    OBVIOUS
  <2> QED BY <2>1, <2>2
<1>10. PICK off \in Nat : off = Offset(t, full)
  BY <1>4 DEF Offset
<1>11. /\ overlapped' = overlapped /\ crowded' = crowded
       /\ index' = index /\ engine' = engine /\ manifests' = manifests
  BY DEF Open, history
<1>12. CASE restart /\ dir[m].partial = None
  <2>1. NextMirror(t) /\ dir' = dir /\ files' = files
    BY <1>3, <1>6, <1>12 DEF Open, disk
  <2>2. PICK r : task' = [task EXCEPT ![t] = r] /\ Fit(r) /\ Earned(r, overlapped)
    BY <1>1, <2>1, FailsIs
  <2>3. IndexTypes' /\ EngineTypes' /\ EngineHolds' /\ manifests' \subseteq Model
    BY <1>1, <1>11 DEF FilesInv, CacheTypeOK, IndexTypes, EngineTypes, EngineHolds
  <2>4. task[t].pc # "stream"
    BY <1>1
  <2> QED BY <1>2, <1>11, <2>1, <2>2, <2>3, <2>4, DiskRests
<1>13. CASE ~(restart /\ dir[m].partial = None)
  <2>1. NewFile \in FileId /\ NewFile \notin Referenced
    BY <1>4, FreshFile
  <2>2. fd \in FileId /\ (fd = dir[m].partial \/ fd \notin Referenced)
    BY <1>7, <1>8, <2>1
  <2>3. PICK d : d = [dir[m] EXCEPT !.partial = fd]
    OBVIOUS
  <2>4. d \in DirRecord /\ Opens(m, d, fd) /\ NewNames(m, d)
    <3>1. d \in DirRecord /\ d.slot = dir[m].slot /\ d.staging = dir[m].staging /\ d.partial = fd
      BY <1>5, <2>2, <2>3 DEF DirRecord
    <3>2. NewNames(m, d)
      BY <2>2, <3>1 DEF NewNames, Names
    <3> QED BY <2>2, <3>1, <3>2 DEF Opens
  <2>5. dir' = [dir EXCEPT ![m] = d] /\ Write(files)
    BY <1>3, <1>6, <1>7, <1>8, <1>13, <2>3 DEF Open
  <2>6. ASSUME NEW r \in Request, task' = [task EXCEPT ![t] = r]
        PROVE  /\ Touches(t) /\ CacheTypeOK' /\ EngineHolds' /\ task'[t] = r /\ ModelInv(m)' /\ dir'[m] = d
               /\ files[fd] \in Seq(ChunksOf(m)) /\ files'[fd] = files[fd] /\ fd # None
               /\ \A k \in Model : k # m => dir'[k] = dir[k]
    <3>1. Changes(t, r, m, d, files)
      BY <1>1, <1>2, <1>3, <1>11, <2>4, <2>5, <2>6, Unwritten DEF Changes, Downloading
    <3>2. /\ Touches(t) /\ CacheTypeOK' /\ EngineHolds' /\ task'[t] = r /\ dir'[m] = d
          /\ \A k \in Model : k # m => dir'[k] = dir[k]
          /\ \A f \in FileId : f \in Referenced' => files'[f] = files[f]
      BY <1>1, <1>4, <2>4, <2>6, <3>1, ChangesWell DEF CacheTypeOK
    <3>3. ModelInv(m)' /\ files[fd] \in Seq(ChunksOf(m)) /\ files'[fd] = files[fd] /\ fd # None
      BY <1>4, <1>11, <2>4, <3>2, OpenModel
    <3> QED BY <3>2, <3>3
  <2>7. CASE off > 0 /\ Len(held) # off
    <3>1. NextMirror(t)
      BY <1>3, <1>6, <1>7, <1>8, <1>9, <1>10, <1>13, <2>7 DEF Open
    <3>2. PICK r : task' = [task EXCEPT ![t] = r] /\ Fit(r) /\ Earned(r, overlapped)
      BY <1>1, <3>1, FailsIs
    <3>3. Touches(t) /\ CacheTypeOK' /\ EngineHolds' /\ task'[t] = r /\ ModelInv(m)'
      BY <2>6, <3>2 DEF Fit
    <3>4. Continues(t)
      BY <3>2, <3>3 DEF Continues, Fit
    <3>5. TaskInv(t)'
      BY <1>11, <3>2, <3>3, FitIs
    <3>6. \A k \in Model : k = task[t].model => ModelInv(k)'
      BY <1>3, <3>3
    <3> QED BY <3>3, <3>4, <3>5, <3>6, StepKeeps
  <2>8. CASE ~(off > 0 /\ Len(held) # off)
    <3>1. PICK hashed : hashed = SubSeq(held, 1, off)
      OBVIOUS
    <3>2. /\ hashed \in Seq(AllChunks)
          /\ off = 0 => hashed = <<>>
          /\ off # 0 => hashed = held
      BY <1>9, <1>10, <2>8, <3>1
    <3>3. PICK r : r = [task[t] EXCEPT !.pc = "stream", !.fd = fd, !.from = 0, !.hashed = hashed]
      OBVIOUS
    <3>4. task' = [task EXCEPT ![t] = r]
      BY <1>3, <1>6, <1>7, <1>8, <1>9, <1>10, <1>13, <2>8, <3>1, <3>3 DEF Open
    <3>5. /\ r \in Request /\ r.pc = "stream" /\ r.fd = fd /\ r.model = m /\ r.kind = task[t].kind
          /\ r.hashed = hashed
      BY <1>1, <1>3, <2>2, <3>2, <3>3 DEF Request, Labels
    <3>6. /\ Touches(t) /\ CacheTypeOK' /\ EngineHolds' /\ task'[t] = r /\ ModelInv(m)' /\ dir'[m] = d
          /\ files[fd] \in Seq(ChunksOf(m)) /\ files'[fd] = files[fd] /\ fd # None
          /\ \A k \in Model : k # m => dir'[k] = dir[k]
      BY <2>6, <3>4, <3>5
    <3>7. Continues(t)
      <4>1. task'[t].fd \in {task[t].fd} \cup {dir[m][y] : y \in Names} \/ task'[t].fd \notin Referenced
        <5>1. dir[m].partial = dir[m]["partial"] /\ "partial" \in Names
          BY DEF Names
        <5> QED BY <2>2, <3>5, <3>6, <5>1
      <4> QED BY <1>1, <1>3, <1>4, <3>5, <3>6, <4>1 DEF Continues, Downloading
    <3>8. Working(t)' /\ Resumes(t)' /\ Gets(t)'
      BY <1>4, <3>5, <3>6 DEF Working, Resumes, Gets
    <3>9. Writes(t)'
      <4>1. ASSUME NEW k \in Model, NEW x \in Names, m # k PROVE dir'[k][x] # fd
        <5>1. dir'[k][x] = dir[k][x] /\ dir[k][x] \in Referenced
          BY <3>6, <4>1, Refers
        <5>2. CASE fd = dir[m]["partial"]
          <6>1. "partial" \in Names /\ fd # None
            BY <3>6 DEF Names
          <6> QED BY <1>4, <4>1, <5>1, <5>2, <6>1 DEF FilesInv, NamesApart
        <5> QED BY <2>2, <5>1, <5>2
      <4> QED BY <3>5, <3>6, <4>1 DEF Writes
    <3>10. m \notin overlapped => files[fd] = hashed
      <4> SUFFICES ASSUME m \notin overlapped PROVE files[fd] = hashed
        OBVIOUS
      <4>1. task[t].from = IF dir[m].partial = None THEN 0 ELSE Len(files[dir[m].partial])
        BY <1>1, <1>3 DEF TaskInv, Resumes
      <4>2. CASE p = None
        <5>1. files[fd] = <<>>
          BY <1>8, <2>1, <4>2 DEF FilesInv, Erased
        <5>2. held = <<>> /\ Len(held) = 0
          BY <1>9, <4>2
        <5>3. off = 0
          BY <1>10, <2>8, <5>2
        <5> QED BY <3>2, <5>1, <5>3
      <4>3. CASE p # None
        <5>1. ~restart /\ p = dir[m].partial /\ fd = p /\ held = files[p]
          BY <1>7, <1>8, <1>9, <4>3
        <5>2. CASE off # 0
          BY <3>2, <5>1, <5>2
        <5>3. CASE off = 0
          <6>1. task[t].from = 0
            <7>1. CASE full
              <8>1. ~(task[t].from > 0)
                BY <1>6, <5>1, <7>1, Zenon
              <8> QED BY <1>4, <8>1
            <7>2. CASE ~full
              BY <1>10, <5>3, <7>2 DEF Offset
            <7> QED BY <7>1, <7>2
          <6>2. Len(held) = 0
            BY <4>1, <4>3, <5>1, <6>1
          <6>3. held = <<>>
            BY <1>9, <6>2
          <6> QED BY <3>2, <5>1, <5>3, <6>3
        <5> QED BY <5>2, <5>3
      <4> QED BY <4>2, <4>3
    <3>11. Hashes(t)'
      <4>1. dir'[m].partial = fd
        BY <2>4, <3>6 DEF Opens
      <4> QED BY <1>11, <3>5, <3>6, <3>10, <4>1 DEF Hashes
    <3>12. TaskInv(t)'
      BY <3>8, <3>9, <3>11 DEF TaskInv
    <3>13. \A k \in Model : k = task[t].model => ModelInv(k)'
      BY <1>3, <3>6
    <3> QED BY <3>6, <3>7, <3>12, <3>13, StepKeeps
  <2> QED BY <2>7, <2>8
<1> QED BY <1>12, <1>13

\* The node comes back with its directory.
LEMMA RestartKeeps ==
  ASSUME FilesInv, Restart
  PROVE  FilesInv'
<1>1. CacheTypeOK
  BY DEF FilesInv
<1>2. /\ dir' = dir /\ Write(files) /\ overlapped' = overlapped /\ crowded' = crowded
      /\ engine' = <<>> /\ manifests' = {} /\ task' = [t \in Task |-> Idle]
  BY DEF Restart, history
<1>3. /\ files' \in [FileId -> Seq(AllChunks)] /\ Erased'
      /\ \A f \in FileId : f \in Referenced' => files'[f] = files[f]
  BY <1>1, <1>2, Written DEF CacheTypeOK
<1>4. Fit(Idle) /\ Earned(Idle, overlapped') /\ Idle \in Request /\ Idle.fd = None /\ Idle.pc = "idle"
  <2>1. Idle \in Request
    BY DEF Idle, Request, Labels
  <2> QED BY <2>1 DEF Fit, Earned, Idle
<1>5. \A t \in Task : task'[t] = Idle
  BY <1>2
<1>6. IndexTypes'
  <2>1. PICK idx \in Rebuilds : index' = [i \in Task \cup {Main} |-> IF i = Main THEN idx ELSE <<>>]
    BY DEF Restart
  <2>2. idx \in Seq(Entry) /\ Unique(idx) /\ <<>> \in Seq(Entry) /\ Unique(<<>>)
    BY <1>1, RebuiltTyped DEF IndexOf, Unique
  <2>3. \A i \in Task \cup {Main} : index'[i] \in Seq(Entry) /\ Unique(index'[i])
    BY <2>1, <2>2
  <2> QED BY <2>1, <2>3 DEF IndexTypes
<1>7. EngineTypes' /\ EngineHolds'
  BY <1>2 DEF EngineTypes, EngineHolds
<1>8. CacheTypeOK'
  <2>1. dir' \in [Model -> DirRecord] /\ overlapped' \subseteq Model /\ crowded' \in BOOLEAN /\ manifests' \subseteq Model
    BY <1>1, <1>2 DEF CacheTypeOK
  <2>2. task' \in [Task -> Request]
    BY <1>2, <1>4
  <2> QED BY <1>3, <1>6, <1>7, <2>1, <2>2 DEF CacheTypeOK
<1>9. \A t \in Task : TaskInv(t)'
  BY <1>4, <1>5, FitIs
<1>10. ASSUME NEW m \in Model PROVE ModelInv(m)'
  BY <1>2, <1>3, ModelKept
<1>11. NamesApart'
  BY <1>2 DEF FilesInv, NamesApart
<1>12. FdsApart' /\ Alone'
  BY <1>4, <1>5 DEF FdsApart, Alone, Downloading
<1> QED BY <1>3, <1>7, <1>8, <1>9, <1>10, <1>11, <1>12 DEF FilesInv

\* A new node has no files.
LEMMA FilesInit ==
  ASSUME Init
  PROVE  FilesInv
<1>1. Fit(Idle) /\ Earned(Idle, overlapped) /\ Idle \in Request /\ Idle.fd = None /\ Idle.pc = "idle"
  <2>1. Idle \in Request
    BY DEF Idle, Request, Labels
  <2> QED BY <2>1 DEF Fit, Earned, Idle
<1>2. \A t \in Task : task[t] = Idle
  BY DEF Init
<1>3. \A m \in Model : \A x \in Names : dir[m][x] = None
  BY DEF Init, Names
<1>4. CacheTypeOK
  <2>1. dir \in [Model -> DirRecord]
    BY DEF Init, DirRecord
  <2>2. files \in [FileId -> Seq(AllChunks)]
    BY DEF Init
  <2>3. IndexTypes
    <3>1. <<>> \in Seq(Entry) /\ Unique(<<>>)
      BY DEF Unique
    <3> QED BY <3>1 DEF Init, IndexTypes
  <2>4. EngineTypes
    BY DEF Init, EngineTypes
  <2>5. task \in [Task -> Request]
    BY <1>1 DEF Init
  <2> QED BY <2>1, <2>2, <2>3, <2>4, <2>5 DEF Init, CacheTypeOK
<1>5. \A t \in Task : TaskInv(t)
  <2> SUFFICES ASSUME NEW t \in Task PROVE TaskInv(t)
    OBVIOUS
  <2>1. Idle.pc = "idle" /\ Idle.fd = None
    BY <1>1
  <2> QED BY <1>2, <2>1 DEF TaskInv, Working, Writes, Resumes, Hashes, Gets
<1>6. \A m \in Model : ModelInv(m)
  BY <1>3 DEF ModelInv, Names
<1>7. NamesApart
  BY <1>3 DEF NamesApart
<1>8. FdsApart /\ Alone
  BY <1>1, <1>2 DEF FdsApart, Alone, Downloading
<1>9. Erased /\ EngineHolds
  BY DEF Init, Erased, EngineHolds
<1> QED BY <1>4, <1>5, <1>6, <1>7, <1>8, <1>9 DEF FilesInv

\* A step of the node.
LEMMA FilesNext ==
  ASSUME FilesInv, Next
  PROVE  FilesInv'
<1>1. ASSUME NEW t \in Task, NEW m \in Model, BeginLoad(t, m) \/ BeginInfer(t, m) PROVE FilesInv'
  BY <1>1, BeginKeeps
<1>2. ASSUME NEW t \in Task, BeginGc(t) PROVE FilesInv'
  BY <1>2, BeginKeeps
<1>3. ASSUME NEW t \in Task, Step(t) PROVE FilesInv'
  <2>1. CASE Get(t) \/ Exists(t) \/ Prune(t) \/ Validate(t) \/ EvictEntry(t) \/ Refuse(t) \/ Insert(t)
    BY <2>1, IndexKeeps
  <2>2. CASE Drop(t) \/ Record(t) \/ Digest(t) \/ LoadFile(t) \/ Answer(t)
    BY <2>2, LoadKeeps
  <2>3. CASE EvictFiles(t) \/ Break(t) \/ Room(t)
    BY <2>3, EvictKeeps
  <2>4. CASE Finish(t) \/ Place(t)
    BY <2>4, MoveKeeps
  <2>5. CASE Stat(t)
    BY <2>5, StatKeeps
  <2>6. CASE Open(t, TRUE) \/ Open(t, FALSE)
    BY <2>6, OpenKeeps
  <2>7. CASE Chunk(t, TRUE) \/ Chunk(t, FALSE) \/ Surplus(t)
    BY <2>7, StreamKeeps
  <2> QED BY <1>3, <2>1, <2>2, <2>3, <2>4, <2>5, <2>6, <2>7 DEF Step
<1>4. CASE Restart
  BY <1>4, RestartKeeps
<1> QED BY <1>1, <1>2, <1>3, <1>4 DEF Next

-----------------------------------------------------------------------------
(* The cap *)

\* What most steps leave: the other requests, what was observed of the past,
\* and the slots, of which some may be emptied.
Frame(t) ==
  /\ \A u \in Task \ {t} : task'[u] = task[u]
  /\ overlapped \subseteq overlapped' /\ (crowded => crowded')
  /\ \A m \in Model : dir'[m].slot \in {None, dir[m].slot}

\* The labels of a request that has a size.
Sizing == {"room", "drop", "place", "record"}

\* Its size is its model's.
SizedAt(t) ==
  task[t].pc \in Sizing /\ task[t].kind # "gc" =>
    task[t].size = SizeOf[task[t].model] /\ task[t].size <= MaxBytes

\* The entries that tell a model's size.
MeasuredEntry == {e \in Entry : e.size = SizeOf[e.model]}

\* An index of such entries.
LEMMA MeasuredIs ==
  ASSUME NEW idx
  PROVE  /\ IndexOf(idx, Entry) /\ Measured(idx) => IndexOf(idx, MeasuredEntry)
         /\ IndexOf(idx, MeasuredEntry) => IndexOf(idx, Entry) /\ Measured(idx)
<1>1. ASSUME idx \in Seq(Entry), Measured(idx) PROVE idx \in Seq(MeasuredEntry)
  <2>1. \A j \in 1..Len(idx) : idx[j] \in MeasuredEntry
    BY <1>1 DEF Measured, MeasuredEntry
  <2> QED BY <1>1, <2>1
<1>2. ASSUME idx \in Seq(MeasuredEntry) PROVE idx \in Seq(Entry) /\ Measured(idx)
  <2>1. \A j \in DOMAIN idx : idx[j] \in MeasuredEntry
    BY <1>2
  <2>2. MeasuredEntry \subseteq Entry
    BY DEF MeasuredEntry
  <2> QED BY <1>2, <2>1, <2>2 DEF Measured, MeasuredEntry
<1> QED BY <1>1, <1>2 DEF IndexOf

\* The bytes of a slot.
LEMMA SlotBytesAre ==
  ASSUME FilesInv, overlapped = {}
  PROVE  \A m \in Model : SlotBytes[m] = (IF dir[m].slot = None THEN 0 ELSE SizeOf[m]) /\ SlotBytes[m] \in Nat
<1> SUFFICES ASSUME NEW m \in Model
             PROVE SlotBytes[m] = (IF dir[m].slot = None THEN 0 ELSE SizeOf[m]) /\ SlotBytes[m] \in Nat
  OBVIOUS
<1>1. dir[m].slot # None => Len(files[dir[m].slot]) = SizeOf[m]
  BY SlotIs, FullIs
<1> QED BY <1>1, FullIs DEF SlotBytes

\* And after a step.
LEMMA SlotBytesWillBe ==
  ASSUME FilesInv', overlapped' = {}
  PROVE  \A m \in Model : SlotBytes'[m] = (IF dir'[m].slot = None THEN 0 ELSE SizeOf[m]) /\ SlotBytes'[m] \in Nat
<1> SUFFICES ASSUME NEW m \in Model
             PROVE SlotBytes'[m] = (IF dir'[m].slot = None THEN 0 ELSE SizeOf[m]) /\ SlotBytes'[m] \in Nat
  OBVIOUS
<1>1. dir'[m]["slot"] # None => files'[dir'[m]["slot"]] = Full(m)
  <2>1. ModelInv(m)'
    BY DEF FilesInv
  <2> QED BY <2>1 DEF ModelInv
<1> QED BY <1>1, FullIs DEF SlotBytes

\* The bytes of the slots.
LEMMA OnDiskIs ==
  OnDisk = SumFunctionOnSet(SlotBytes, Model) /\ OnDisk' = SumFunctionOnSet(SlotBytes', Model)
BY DEF OnDisk, SlotBytes, SumFunction

\* Slots that are emptied have no more bytes.
LEMMA SlotsShrink ==
  ASSUME FilesInv, FilesInv', overlapped' = {}, overlapped = {}, NEW S \in SUBSET Model,
         \A m \in S : dir'[m].slot \in {None, dir[m].slot}
  PROVE  /\ SumFunctionOnSet(SlotBytes', S) <= SumFunctionOnSet(SlotBytes, S)
         /\ SumFunctionOnSet(SlotBytes', S) \in Int /\ SumFunctionOnSet(SlotBytes, S) \in Int
<1>1. PICK f : f = SlotBytes
  OBVIOUS
<1>2. PICK h : h = SlotBytes'
  OBVIOUS
<1>3. IsFiniteSet(S)
  BY ModelCacheAssumption, FS_Subset DEF ModelCacheAssumption
<1>4. \A m \in S : h[m] \in Int /\ f[m] \in Int /\ h[m] <= f[m]
  <2> SUFFICES ASSUME NEW m \in S PROVE h[m] \in Int /\ f[m] \in Int /\ h[m] <= f[m]
    OBVIOUS
  <2>1. f[m] = (IF dir[m].slot = None THEN 0 ELSE SizeOf[m]) /\ f[m] \in Nat
    BY <1>1, SlotBytesAre
  <2>2. h[m] = (IF dir'[m].slot = None THEN 0 ELSE SizeOf[m]) /\ h[m] \in Nat
    BY <1>2, SlotBytesWillBe
  <2> QED BY <2>1, <2>2
<1>5. Sums(f, S) /\ Sums(h, S)
  BY <1>3, <1>4 DEF Sums
<1>6. SumFunctionOnSet(h, S) <= SumFunctionOnSet(f, S)
  BY <1>4, <1>5, SumLeq
<1> QED BY <1>1, <1>2, <1>5, <1>6, SumInt

\* A step that places nothing keeps the cap.
LEMMA CapKeeps ==
  ASSUME CacheInv, FilesInv', NEW t \in Task, Frame(t),
         overlapped' = {} => \A i \in Task \cup {Main} : Measured(index'[i]),
         overlapped' = {} => SizedAt(t)',
         task'[t].pc \notin {"place", "record"}
  PROVE  CacheInv'
<1>1. overlapped' = {} => overlapped = {}
  BY DEF Frame
<1>2. Sized'
  <2> SUFFICES ASSUME overlapped' = {}, NEW u \in Task PROVE SizedAt(u)'
    BY DEF Sized, SizedAt, Sizing
  <2>1. CASE u # t
    <3>1. SizedAt(u) /\ task'[u] = task[u]
      BY <1>1, <2>1 DEF CacheInv, Sized, SizedAt, Sizing, Frame
    <3> QED BY <3>1 DEF SizedAt
  <2>2. CASE u = t
    BY <2>2
  <2> QED BY <2>1, <2>2
<1>3. \A u \in Task : Placing(u)' => Placing(u) /\ u # t /\ task'[u] = task[u]
  BY DEF Placing, Frame
<1>4. OnePlaces'
  BY <1>3 DEF CacheInv, OnePlaces, Frame
<1>5. ASSUME ~crowded', overlapped' = {}
      PROVE  /\ OnDisk' <= MaxBytes
             /\ \A u \in Task : task'[u].pc = "place" =>
                  SumFunctionOnSet(SlotBytes', Model \ {task'[u].model}) + SizeOf[task'[u].model] <= MaxBytes
  <2>1. ~crowded /\ overlapped = {} /\ FilesInv
    BY <1>1, <1>5 DEF Frame, CacheInv
  <2>2. /\ OnDisk <= MaxBytes
        /\ \A u \in Task : task[u].pc = "place" =>
             SumFunctionOnSet(SlotBytes, Model \ {task[u].model}) + SizeOf[task[u].model] <= MaxBytes
    BY <2>1 DEF CacheInv, Capped
  <2>3. ASSUME NEW S \in SUBSET Model
        PROVE  /\ SumFunctionOnSet(SlotBytes', S) <= SumFunctionOnSet(SlotBytes, S)
               /\ SumFunctionOnSet(SlotBytes', S) \in Int /\ SumFunctionOnSet(SlotBytes, S) \in Int
    <3>1. \A m \in S : dir'[m].slot \in {None, dir[m].slot}
      BY DEF Frame
    <3> QED BY <1>5, <2>1, <3>1, SlotsShrink
  <2>4. MaxBytes \in Nat
    BY ModelCacheAssumption DEF ModelCacheAssumption
  <2>5. OnDisk' <= MaxBytes
    <3>1. Model \in SUBSET Model
      OBVIOUS
    <3> QED BY <2>2, <2>3, <2>4, <3>1, OnDiskIs
  <2>6. ASSUME NEW u \in Task, task'[u].pc = "place"
        PROVE  SumFunctionOnSet(SlotBytes', Model \ {task'[u].model}) + SizeOf[task'[u].model] <= MaxBytes
    <3>1. task'[u] = task[u]
      BY <1>3, <2>6 DEF Placing
    <3>2. PICK m : m = task[u].model
      OBVIOUS
    <3>3. m \in Model
      <4>1. task[u].pc = "place"
        BY <2>6, <3>1
      <4> QED BY <2>1, <3>2, <4>1, HasModel
    <3>4. SizeOf[m] \in Nat
      BY <3>3, FullIs
    <3>5. PICK S \in SUBSET Model : S = Model \ {m}
      OBVIOUS
    <3>6. SumFunctionOnSet(SlotBytes, S) + SizeOf[m] <= MaxBytes
      BY <2>2, <2>6, <3>1, <3>2, <3>5
    <3>7. SumFunctionOnSet(SlotBytes', S) + SizeOf[m] <= MaxBytes
      BY <2>3, <2>4, <3>4, <3>6
    <3> QED BY <3>1, <3>2, <3>5, <3>7
  <2> QED BY <2>5, <2>6
<1>6. Capped'
  BY <1>5 DEF Capped
<1> QED BY <1>2, <1>4, <1>6 DEF CacheInv

\* The steps that neither size nor place a file.
Plain(t) ==
  \/ Get(t) \/ Exists(t) \/ Prune(t) \/ Validate(t) \/ EvictFiles(t) \/ EvictEntry(t)
  \/ Stat(t) \/ Open(t, TRUE) \/ Open(t, FALSE) \/ Refuse(t)
  \/ Chunk(t, TRUE) \/ Chunk(t, FALSE) \/ Break(t) \/ Surplus(t) \/ Finish(t)
  \/ Record(t) \/ Digest(t) \/ LoadFile(t) \/ Answer(t)

\* How a request ends or goes on.
LEMMA EndsAt ==
  ASSUME CacheTypeOK, NEW t \in Task
  PROVE  /\ Fails(t) => task'[t].pc = "failed"
         /\ NextMirror(t) => task'[t].pc \in {"failed", "stat"}
         /\ Fails(t) \/ NextMirror(t) => \A u \in Task \ {t} : task'[u] = task[u]
<1>1. task \in [Task -> Request]
  BY DEF CacheTypeOK
<1>2. ASSUME NEW r, task' = [task EXCEPT ![t] = r]
      PROVE  task'[t] = r /\ \A u \in Task \ {t} : task'[u] = task[u]
  BY <1>1, <1>2
<1>3. ASSUME Fails(t) PROVE task'[t].pc = "failed" /\ \A u \in Task \ {t} : task'[u] = task[u]
  <2>1. PICK r : r = EndOf(t, "failed", <<>>, <<>>)
    OBVIOUS
  <2>2. task' = [task EXCEPT ![t] = r]
    BY <1>3, <2>1 DEF Fails, Ended, EndOf
  <2>3. r.pc = "failed"
    BY <2>1 DEF EndOf, Idle
  <2> QED BY <1>2, <2>2, <2>3
<1>4. ASSUME NextMirror(t) PROVE task'[t].pc \in {"failed", "stat"} /\ \A u \in Task \ {t} : task'[u] = task[u]
  <2>1. CASE Fails(t)
    BY <1>3, <2>1
  <2>2. CASE ~Fails(t)
    <3>1. PICK r : r = [Idle EXCEPT !.pc = "stat", !.kind = task[t].kind, !.model = task[t].model,
                                    !.mirror = task[t].mirror + 1]
      OBVIOUS
    <3>2. task' = [task EXCEPT ![t] = r]
      BY <1>4, <2>2, <3>1 DEF NextMirror
    <3>3. r.pc = "stat"
      BY <3>1 DEF Idle
    <3> QED BY <1>2, <3>2, <3>3
  <2> QED BY <2>1, <2>2
<1> QED BY <1>3, <1>4

\* What such a step leaves.
LEMMA PlainFrame ==
  ASSUME FilesInv, NEW t \in Task, Plain(t)
  PROVE  Frame(t) /\ task'[t].pc \notin Sizing /\ overlapped \subseteq overlapped'
<1>1. CacheTypeOK /\ task \in [Task -> Request] /\ dir \in [Model -> DirRecord]
  BY DEF FilesInv, CacheTypeOK
<1>2. ASSUME NEW r, task' = [task EXCEPT ![t] = r]
      PROVE  task'[t] = r /\ \A u \in Task \ {t} : task'[u] = task[u]
  BY <1>1, <1>2
<1>3. ASSUME NEW l, Go(t, l) PROVE task'[t].pc = l /\ \A u \in Task \ {t} : task'[u] = task[u]
  <2>1. task' = [task EXCEPT ![t] = [task[t] EXCEPT !.pc = l]]
    BY <1>3 DEF Go
  <2>2. [task[t] EXCEPT !.pc = l].pc = l
    BY <1>1 DEF Request
  <2> QED BY <1>2, <2>1, <2>2
<1>4. ASSUME NEW l, NEW seen, NEW got, Ended(t, l, seen, got)
      PROVE  task'[t].pc = l /\ \A u \in Task \ {t} : task'[u] = task[u]
  <2>1. PICK r : r = EndOf(t, l, seen, got)
    OBVIOUS
  <2>2. task' = [task EXCEPT ![t] = r]
    BY <1>4, <2>1 DEF Ended, EndOf
  <2>3. r.pc = l
    BY <2>1 DEF EndOf, Idle
  <2> QED BY <1>2, <2>2, <2>3
<1>5. ASSUME NEW m, NEW d, dir' = [dir EXCEPT ![m] = d], m \in Model => d.slot \in {None, dir[m].slot}
      PROVE  \A k \in Model : dir'[k].slot \in {None, dir[k].slot}
  BY <1>1, <1>5
<1>6. overlapped \subseteq overlapped' /\ (crowded => crowded')
  <2>1. CASE Stat(t)
    <3>1. overlapped \subseteq overlapped' /\ crowded' = crowded
      BY <2>1 DEF Stat
    <3> QED BY <3>1
  <2>2. CASE ~Stat(t)
    <3>1. UNCHANGED history
      BY <2>2 DEF Plain, Get, Exists, Prune, Validate, EvictFiles, EvictEntry, Open, Refuse, Chunk, Break, Surplus,
                  Finish, Record, Digest, LoadFile, Answer
    <3>2. overlapped' = overlapped /\ crowded' = crowded
      BY <3>1 DEF history
    <3> QED BY <3>2
  <2> QED BY <2>1, <2>2
<1>7. ASSUME task'[t].pc \notin Sizing, \A u \in Task \ {t} : task'[u] = task[u],
             \A k \in Model : dir'[k].slot \in {None, dir[k].slot}
      PROVE  Frame(t) /\ task'[t].pc \notin Sizing /\ overlapped \subseteq overlapped'
  BY <1>6, <1>7 DEF Frame
<1>8. ASSUME dir' = dir PROVE \A k \in Model : dir'[k].slot \in {None, dir[k].slot}
  BY <1>8
<1>9. \A l \in {"exists", "stat", "hit", "prune", "evict", "digest", "insert", "evicted", "failed", "done", "read",
                "idle", "request", "stream", "pulled"} : l \notin Sizing
  BY DEF Sizing
<1>10. CASE Get(t) \/ Exists(t) \/ Prune(t) \/ Validate(t)
  <2>1. dir' = dir
    BY <1>10 DEF Get, Exists, Prune, Validate, disk
  <2>2. \E l \in {"exists", "stat", "hit", "prune", "evict", "digest", "insert"} : Go(t, l)
    BY <1>10 DEF Get, Exists, Prune, Validate
  <2> QED BY <1>3, <1>7, <1>8, <1>9, <2>1, <2>2
<1>11. CASE EvictEntry(t) \/ Refuse(t) \/ Break(t) \/ Surplus(t)
  <2>1. dir' = dir
    BY <1>11 DEF EvictEntry, Refuse, Break, Surplus, disk
  <2>2. Fails(t) \/ NextMirror(t)
    BY <1>11 DEF EvictEntry, Refuse, Break, Surplus
  <2> QED BY <1>1, <1>7, <1>8, <1>9, <2>1, <2>2, EndsAt
<1>12. CASE EvictFiles(t)
  <2>1. Go(t, "evicted")
    BY <1>12 DEF EvictFiles
  <2>2. \A k \in Model : dir'[k].slot \in {None, dir[k].slot}
    BY <1>1, <1>12 DEF EvictFiles, DirRecord
  <2> QED BY <1>3, <1>7, <1>9, <2>1, <2>2
<1>13. CASE Stat(t)
  <2>1. PICK from : task' = [task EXCEPT ![t].pc = "request", ![t].from = from]
    BY <1>13 DEF Stat
  <2>2. PICK r : r = [task[t] EXCEPT !.pc = "request", !.from = from]
    OBVIOUS
  <2>3. task' = [task EXCEPT ![t] = r]
    BY <2>1, <2>2
  <2>4. r.pc = "request"
    BY <1>1, <2>2 DEF Request
  <2>5. dir' = dir \/ dir' = [dir EXCEPT ![task[t].model].partial = None]
    BY <1>13 DEF Stat
  <2>6. \A k \in Model : dir'[k].slot \in {None, dir[k].slot}
    BY <1>1, <2>5 DEF DirRecord
  <2> QED BY <1>2, <1>7, <1>9, <2>3, <2>4, <2>6
<1>14. ASSUME NEW full \in BOOLEAN, Open(t, full) PROVE Frame(t) /\ task'[t].pc \notin Sizing /\ overlapped \subseteq overlapped'
  <2>1. PICK m : m = task[t].model
    OBVIOUS
  <2>2. PICK restart \in BOOLEAN : restart = (full /\ task[t].from > 0)
    OBVIOUS
  <2>3. PICK p : p = IF restart THEN None ELSE dir[m].partial
    OBVIOUS
  <2>4. PICK fd : fd = IF p = None THEN NewFile ELSE p
    OBVIOUS
  <2>5. PICK held : held = IF p = None THEN <<>> ELSE files[p]
    OBVIOUS
  <2>6. PICK h : h = SubSeq(held, 1, Offset(t, full))
    OBVIOUS
  <2>7. dir' = dir \/ dir' = [dir EXCEPT ![m].partial = fd]
    BY <1>14, <2>1, <2>2, <2>3, <2>4 DEF Open, disk
  <2>8. \A k \in Model : dir'[k].slot \in {None, dir[k].slot}
    BY <1>1, <2>7 DEF DirRecord
  <2>9. CASE NextMirror(t)
    BY <1>1, <1>7, <1>9, <2>8, <2>9, EndsAt
  <2>10. CASE ~NextMirror(t)
    <3>1. PICK r : r = [task[t] EXCEPT !.pc = "stream", !.fd = fd, !.from = 0, !.hashed = h]
      OBVIOUS
    <3>2. PICK tasks : tasks = [task EXCEPT ![t].pc = "stream", ![t].fd = fd, ![t].from = 0, ![t].hashed = h]
      OBVIOUS
    <3>3. task' = tasks
      BY <1>14, <2>1, <2>2, <2>3, <2>4, <2>5, <2>6, <2>10, <3>2 DEF Open
    <3>4. task' = [task EXCEPT ![t] = r]
      BY <3>1, <3>2, <3>3
    <3>5. r.pc = "stream"
      BY <1>1, <3>1 DEF Request
    <3> QED BY <1>2, <1>7, <1>9, <2>8, <3>4, <3>5
  <2> QED BY <2>9, <2>10
<1>15. ASSUME NEW right \in BOOLEAN, Chunk(t, right) PROVE Frame(t) /\ task'[t].pc \notin Sizing /\ overlapped \subseteq overlapped'
  <2>1. dir' = dir /\ task[t].pc = "stream" /\ \E c : task' = [task EXCEPT ![t].hashed = Append(@, c)]
    BY <1>15 DEF Chunk, At
  <2>2. PICK c : task' = [task EXCEPT ![t].hashed = Append(@, c)]
    BY <2>1
  <2>3. PICK r : r = [task[t] EXCEPT !.hashed = Append(task[t].hashed, c)]
    OBVIOUS
  <2>4. task' = [task EXCEPT ![t] = r]
    BY <2>2, <2>3
  <2>5. r.pc = "stream"
    BY <1>1, <2>1, <2>3 DEF Request
  <2> QED BY <1>2, <1>7, <1>8, <1>9, <2>1, <2>4, <2>5
<1>16. CASE Finish(t)
  <2>1. /\ \/ dir' = dir
           \/ dir' = [dir EXCEPT ![task[t].model].partial = None]
           \/ dir' = [dir EXCEPT ![task[t].model].staging = dir[task[t].model].partial, ![task[t].model].partial = None]
        /\ \/ Fails(t) \/ NextMirror(t)
           \/ task' = [task EXCEPT ![t] = [Idle EXCEPT !.pc = "pulled", !.kind = task[t].kind, !.model = task[t].model]]
    BY <1>16 DEF Finish
  <2>2. \A k \in Model : dir'[k].slot \in {None, dir[k].slot}
    BY <1>1, <2>1 DEF DirRecord
  <2>3. CASE Fails(t) \/ NextMirror(t)
    BY <1>1, <1>7, <1>9, <2>2, <2>3, EndsAt
  <2>4. CASE ~(Fails(t) \/ NextMirror(t))
    <3>1. PICK r : r = [Idle EXCEPT !.pc = "pulled", !.kind = task[t].kind, !.model = task[t].model]
      OBVIOUS
    <3>2. task' = [task EXCEPT ![t] = r]
      BY <2>1, <2>4, <3>1
    <3>3. r.pc = "pulled"
      BY <3>1 DEF Idle
    <3> QED BY <1>2, <1>7, <1>9, <2>2, <3>2, <3>3
  <2> QED BY <2>3, <2>4
<1>17. CASE Record(t)
  <2>1. dir' = dir /\ task' = [task EXCEPT ![t].pc = "digest", ![t].size = 0]
    BY <1>17 DEF Record, disk
  <2>2. PICK r : r = [task[t] EXCEPT !.pc = "digest", !.size = 0]
    OBVIOUS
  <2>3. task' = [task EXCEPT ![t] = r]
    BY <2>1, <2>2
  <2>4. r.pc = "digest"
    BY <1>1, <2>2 DEF Request
  <2>5. task'[t].pc = "digest" /\ \A u \in Task \ {t} : task'[u] = task[u]
    BY <1>2, <2>3, <2>4
  <2> QED BY <1>7, <1>8, <1>9, <2>1, <2>5
<1>18. CASE Digest(t)
  <2>1. dir' = dir
    BY <1>18 DEF Digest, disk
  <2>2. \/ Fails(t)
        \/ \E seen, got : Ended(t, "done", seen, got)
        \/ \E seen : task' = [task EXCEPT ![t].pc = "read", ![t].seen = seen]
    BY <1>18 DEF Digest
  <2>3. CASE Fails(t)
    BY <1>1, <1>7, <1>8, <1>9, <2>1, <2>3, EndsAt
  <2>4. ASSUME NEW seen, NEW got, Ended(t, "done", seen, got) PROVE Frame(t) /\ task'[t].pc \notin Sizing
    BY <1>4, <1>7, <1>8, <1>9, <2>1, <2>4
  <2>5. ASSUME NEW seen, task' = [task EXCEPT ![t].pc = "read", ![t].seen = seen] PROVE Frame(t) /\ task'[t].pc \notin Sizing
    <3>1. PICK r : r = [task[t] EXCEPT !.pc = "read", !.seen = seen]
      OBVIOUS
    <3>2. task' = [task EXCEPT ![t] = r]
      BY <2>5, <3>1
    <3>3. r.pc = "read"
      BY <1>1, <3>1 DEF Request
    <3> QED BY <1>2, <1>7, <1>8, <1>9, <2>1, <3>2, <3>3
  <2> QED BY <1>6, <2>2, <2>3, <2>4, <2>5
<1>19. CASE LoadFile(t)
  <2>1. dir' = dir /\ (Fails(t) \/ \E seen, got : Ended(t, "done", seen, got))
    BY <1>19 DEF LoadFile, disk
  <2>2. CASE Fails(t)
    BY <1>1, <1>7, <1>8, <1>9, <2>1, <2>2, EndsAt
  <2>3. ASSUME NEW seen, NEW got, Ended(t, "done", seen, got) PROVE Frame(t) /\ task'[t].pc \notin Sizing
    BY <1>4, <1>7, <1>8, <1>9, <2>1, <2>3
  <2> QED BY <1>6, <2>1, <2>2, <2>3
<1>20. CASE Answer(t)
  <2>1. dir' = dir /\ task' = [task EXCEPT ![t] = Idle] /\ Idle.pc = "idle"
    BY <1>20 DEF Answer, disk, Idle
  <2> QED BY <1>2, <1>7, <1>8, <1>9, <2>1
<1> QED BY <1>10, <1>11, <1>12, <1>13, <1>14, <1>15, <1>16, <1>17, <1>18, <1>19, <1>20 DEF Plain

\* What overlapped, did.
LEMMA OverlapStays ==
  ASSUME Next
  PROVE  overlapped \subseteq overlapped'
<1>1. ASSUME NEW t \in Task, NEW m \in Model, BeginLoad(t, m) \/ BeginInfer(t, m) PROVE overlapped' = overlapped
  BY <1>1 DEF BeginLoad, BeginInfer, Begin, history
<1>2. ASSUME NEW t \in Task, BeginGc(t) PROVE overlapped' = overlapped
  BY <1>2 DEF BeginGc, Begin, history
<1>3. ASSUME NEW t \in Task, Step(t) PROVE overlapped \subseteq overlapped'
  <2>1. CASE Stat(t)
    BY <2>1 DEF Stat
  <2>2. CASE Room(t)
    BY <2>2 DEF Room
  <2>3. CASE ~Stat(t) /\ ~Room(t)
    <3>1. UNCHANGED history
      BY <1>3, <2>3 DEF Step, Get, Exists, Prune, Validate, EvictFiles, EvictEntry, Open, Refuse, Chunk, Break, Surplus,
                        Finish, Insert, Drop, Place, Record, Digest, LoadFile, Answer
    <3> QED BY <3>1 DEF history
  <2> QED BY <2>1, <2>2, <2>3
<1>4. CASE Restart
  BY <1>4 DEF Restart, history
<1> QED BY <1>1, <1>2, <1>3, <1>4 DEF Next

\* An index of such entries takes the place of another.
LEMMA MeasuredSet ==
  ASSUME CacheTypeOK, \A k \in Task \cup {Main} : Measured(index[k]),
         NEW i \in Task \cup {Main}, NEW idx, IndexOf(idx, MeasuredEntry), index' = [index EXCEPT ![i] = idx]
  PROVE  \A k \in Task \cup {Main} : Measured(index'[k])
<1>1. \A k \in Task \cup {Main} : index'[k] = IF k = i THEN idx ELSE index[k]
  BY DEF CacheTypeOK, IndexTypes
<1>2. Measured(idx)
  BY MeasuredIs
<1> QED BY <1>1, <1>2

\* The directory tells the models' sizes.
LEMMA RebuiltMeasured ==
  ASSUME FilesInv, overlapped = {}, NEW idx \in Rebuilds
  PROVE  IndexOf(idx, MeasuredEntry)
<1>1. ASSUME NEW m \in Model, dir[m].slot # None
      PROVE  [model |-> m, size |-> Len(files[dir[m].slot])] \in MeasuredEntry
  <2>1. Len(files[dir[m].slot]) = SizeOf[m] /\ SizeOf[m] \in Nat
    BY <1>1, SlotIs, FullIs
  <2> QED BY <2>1 DEF MeasuredEntry, Entry
<1>2. OnSlots \subseteq MeasuredEntry
  BY <1>1 DEF OnSlots
<1> QED BY <1>2, RebuiltIs DEF IndexOf

\* The steps that leave the indices alone.
Leaves(t) ==
  \/ Exists(t) \/ Validate(t) \/ EvictFiles(t) \/ Stat(t) \/ Open(t, TRUE) \/ Open(t, FALSE) \/ Refuse(t)
  \/ Chunk(t, TRUE) \/ Chunk(t, FALSE) \/ Break(t) \/ Surplus(t) \/ Finish(t) \/ Insert(t) \/ Room(t) \/ Place(t)
  \/ Digest(t) \/ LoadFile(t)

\* As long as no download overlaps, the indices tell the models' sizes.
LEMMA IndexMeasured ==
  ASSUME CacheInv, Next, overlapped' = {}, NEW k \in Task \cup {Main}
  PROVE  Measured(index'[k])
<1>1. FilesInv /\ CacheTypeOK /\ overlapped = {}
  BY OverlapStays DEF CacheInv, FilesInv
<1>2. /\ \A i \in Task \cup {Main} : Measured(index[i])
      /\ \A t \in Task : SizedAt(t)
  BY <1>1 DEF CacheInv, Sized, SizedAt, Sizing
<1>3. ASSUME index' = index PROVE Measured(index'[k])
  BY <1>2, <1>3
<1>4. ASSUME NEW i \in Task \cup {Main}, NEW idx, IndexOf(idx, MeasuredEntry), index' = [index EXCEPT ![i] = idx]
      PROVE  Measured(index'[k])
  BY <1>1, <1>2, <1>4, MeasuredSet
<1>5. ASSUME NEW t \in Task PROVE IndexOf(index[Mgr(t)], MeasuredEntry) /\ Mgr(t) \in Task \cup {Main}
  BY <1>1, <1>2, MgrIs, IndexTyped, MeasuredIs
<1>6. ASSUME NEW t \in Task, NEW m \in Model, BeginLoad(t, m) PROVE Measured(index'[k])
  BY <1>3, <1>6 DEF BeginLoad
<1>7. ASSUME NEW t \in Task, NEW m \in Model, BeginInfer(t, m) PROVE Measured(index'[k])
  <2>1. PICK idx \in Rebuilds : index' = [index EXCEPT ![t] = idx]
    BY <1>7 DEF BeginInfer
  <2> QED BY <1>1, <1>4, <2>1, RebuiltMeasured
<1>8. ASSUME NEW t \in Task, BeginGc(t) PROVE Measured(index'[k])
  BY <1>3, <1>8 DEF BeginGc
<1>9. CASE Restart
  <2>1. PICK idx \in Rebuilds : index' = [i \in Task \cup {Main} |-> IF i = Main THEN idx ELSE <<>>]
    BY <1>9 DEF Restart
  <2>2. Measured(idx) /\ Measured(<<>>)
    BY <1>1, <2>1, RebuiltMeasured, MeasuredIs DEF Measured
  <2> QED BY <2>1, <2>2
<1>10. ASSUME NEW t \in Task, Step(t) PROVE Measured(index'[k])
  <2>1. CASE Leaves(t)
    <3>1. index' = index
      BY <2>1 DEF Leaves, Exists, Validate, EvictFiles, Stat, Open, Refuse, Chunk, Break, Surplus, Finish, Insert,
                  Room, Place, Digest, LoadFile
    <3> QED BY <1>3, <3>1
  <2>2. CASE Get(t)
    <3>1. index' = [index EXCEPT ![Mgr(t)] = Touched(index[Mgr(t)], task[t].model)]
      BY <2>2 DEF Get
    <3>2. IndexOf(Touched(index[Mgr(t)], task[t].model), MeasuredEntry)
      BY <1>5, TouchedIs
    <3> QED BY <1>4, <1>5, <3>1, <3>2
  <2>3. CASE Prune(t) \/ EvictEntry(t) \/ Drop(t)
    <3>1. \E m : index' = [index EXCEPT ![Mgr(t)] = Without(index[Mgr(t)], m)]
      BY <2>3 DEF Prune, EvictEntry, Drop, Dropped
    <3>2. PICK m : index' = [index EXCEPT ![Mgr(t)] = Without(index[Mgr(t)], m)]
      BY <3>1
    <3>3. IndexOf(Without(index[Mgr(t)], m), MeasuredEntry)
      BY <1>5, WithoutIs
    <3> QED BY <1>4, <1>5, <3>2, <3>3
  <2>4. CASE Record(t)
    <3>1. PICK m : m = task[t].model
      OBVIOUS
    <3>2. PICK e : e = [model |-> m, size |-> task[t].size]
      OBVIOUS
    <3>3. PICK w : w = Without(index[Mgr(t)], m)
      OBVIOUS
    <3>4. index' = [index EXCEPT ![Mgr(t)] = Append(w, e)] /\ task[t].pc = "record"
      BY <2>4, <3>1, <3>2, <3>3 DEF Record, At
    <3>5. m \in Model /\ task[t].kind # "gc" /\ task[t] \in Request
      BY <1>1, <3>1, <3>4, HasModel
    <3>6. task[t].size = SizeOf[m] /\ task[t].size \in Nat
      BY <1>2, <3>1, <3>4, <3>5 DEF SizedAt, Sizing, Request
    <3>7. e \in MeasuredEntry /\ e.model = m
      BY <3>2, <3>5, <3>6 DEF MeasuredEntry, Entry
    <3>8. IndexOf(w, MeasuredEntry) /\ m \notin Listed(w)
      BY <1>5, <3>3, WithoutIs
    <3>9. IndexOf(Append(w, e), MeasuredEntry)
      BY <3>7, <3>8, AppendedIs
    <3> QED BY <1>4, <1>5, <3>4, <3>9
  <2>5. CASE Answer(t)
    <3>1. index' = index \/ index' = [index EXCEPT ![t] = <<>>]
      BY <2>5 DEF Answer
    <3>2. IndexOf(<<>>, MeasuredEntry)
      BY DEF IndexOf, Unique
    <3> QED BY <1>3, <1>4, <3>1, <3>2
  <2> QED BY <1>10, <2>1, <2>2, <2>3, <2>4, <2>5 DEF Step, Leaves
<1> QED BY <1>6, <1>7, <1>8, <1>9, <1>10 DEF Next

\* A step that neither sizes nor places a file keeps the cap.
LEMMA PlainKeeps ==
  ASSUME CacheInv, FilesInv', Next, NEW t \in Task, Plain(t)
  PROVE  CacheInv'
<1>1. Frame(t) /\ task'[t].pc \notin Sizing
  BY PlainFrame DEF CacheInv
<1>2. SizedAt(t)'
  BY <1>1 DEF SizedAt
<1>3. task'[t].pc \notin {"place", "record"}
  BY <1>1 DEF Sizing
<1> QED BY <1>1, <1>2, <1>3, IndexMeasured, CapKeeps

\* A request begins.
LEMMA BeginCaps ==
  ASSUME CacheInv, FilesInv', Next, NEW t \in Task, NEW kind \in {"load", "own", "gc"}, NEW m, Begin(t, kind, m)
  PROVE  CacheInv'
<1>1. PICK r : r = [Idle EXCEPT !.pc = IF kind = "gc" THEN "room" ELSE "get", !.kind = kind, !.model = m]
  OBVIOUS
<1>2. task' = [task EXCEPT ![t] = r] /\ dir' = dir /\ UNCHANGED history
  BY <1>1 DEF Begin, disk
<1>3. r.pc = (IF kind = "gc" THEN "room" ELSE "get") /\ r.kind = kind
  BY <1>1 DEF Idle
<1>4. task'[t] = r /\ \A u \in Task \ {t} : task'[u] = task[u]
  BY <1>2 DEF CacheInv, FilesInv, CacheTypeOK
<1>5. overlapped' = overlapped /\ crowded' = crowded
  BY <1>2 DEF history
<1>6. Frame(t)
  BY <1>2, <1>4, <1>5 DEF Frame
<1>7. SizedAt(t)' /\ task'[t].pc \notin {"place", "record"}
  BY <1>3, <1>4 DEF SizedAt, Sizing
<1> QED BY <1>6, <1>7, IndexMeasured, CapKeeps

\* A request learns the size of its file.
LEMMA InsertCaps ==
  ASSUME CacheInv, FilesInv', Next, NEW t \in Task, Insert(t)
  PROVE  CacheInv'
<1>1. FilesInv /\ CacheTypeOK /\ task[t].pc = "insert"
  BY DEF CacheInv, FilesInv, Insert, At
<1>2. PICK m \in Model : m = task[t].model /\ ModelInv(m)
  BY <1>1, HasModel DEF FilesInv
<1>3. task[t] \in Request /\ dir' = dir /\ UNCHANGED history
  BY <1>1 DEF Insert, disk, CacheTypeOK
<1>4. overlapped' = overlapped /\ crowded' = crowded
  BY <1>3 DEF history
<1>5. ASSUME \A u \in Task \ {t} : task'[u] = task[u], overlapped' = {} => SizedAt(t)', task'[t].pc \notin {"place", "record"}
      PROVE  CacheInv'
  <2>1. Frame(t)
    BY <1>3, <1>4, <1>5 DEF Frame
  <2> QED BY <1>5, <2>1, IndexMeasured, CapKeeps
<1>6. CASE Fails(t)
  <2>1. task'[t].pc = "failed" /\ \A u \in Task \ {t} : task'[u] = task[u]
    BY <1>1, <1>6, EndsAt
  <2> QED BY <1>5, <2>1 DEF SizedAt, Sizing
<1>7. CASE ~Fails(t)
  <2>1. PICK f : f = dir[m].staging
    OBVIOUS
  <2>2. /\ f # None /\ ~(Len(files[f]) > MaxBytes)
        /\ task' = [task EXCEPT ![t].pc = "room", ![t].size = Len(files[f])]
    BY <1>2, <1>7, <2>1 DEF Insert
  <2>3. PICK r : r = [task[t] EXCEPT !.pc = "room", !.size = Len(files[f])]
    OBVIOUS
  <2>4. task' = [task EXCEPT ![t] = r]
    BY <2>2, <2>3
  <2>5. task'[t] = r /\ \A u \in Task \ {t} : task'[u] = task[u]
    BY <1>1, <2>4 DEF CacheTypeOK
  <2>6. r.pc = "room" /\ r.size = Len(files[f]) /\ r.model = m
    BY <1>2, <1>3, <2>3 DEF Request
  <2>7. ASSUME overlapped' = {} PROVE Len(files[f]) = SizeOf[m] /\ SizeOf[m] <= MaxBytes
    <3>1. dir[m]["staging"] = f /\ m \notin overlapped
      BY <1>4, <2>1, <2>7
    <3>2. files[f] = Full(m)
      BY <1>2, <2>2, <3>1 DEF ModelInv
    <3>3. Len(files[f]) = SizeOf[m] /\ SizeOf[m] \in Nat /\ MaxBytes \in Nat
      BY <3>2, FullIs, ModelCacheAssumption DEF ModelCacheAssumption
    <3> QED BY <2>2, <3>3
  <2>8. overlapped' = {} => SizedAt(t)'
    BY <2>5, <2>6, <2>7 DEF SizedAt
  <2> QED BY <1>5, <2>5, <2>6, <2>8
<1> QED BY <1>6, <1>7

\* A victim's entry goes.
LEMMA DropCaps ==
  ASSUME CacheInv, FilesInv', Next, NEW t \in Task, Drop(t)
  PROVE  CacheInv'
<1>1. CacheTypeOK /\ task[t].pc = "drop" /\ task[t] \in Request
  BY DEF CacheInv, FilesInv, Drop, At, CacheTypeOK
<1>2. PICK r : r = [task[t] EXCEPT !.pc = "room", !.victim = None]
  OBVIOUS
<1>3. task' = [task EXCEPT ![t] = r] /\ dir' = dir /\ UNCHANGED history
  BY <1>2 DEF Drop, disk
<1>4. overlapped' = overlapped /\ crowded' = crowded
  BY <1>3 DEF history
<1>5. task'[t] = r /\ \A u \in Task \ {t} : task'[u] = task[u]
  BY <1>1, <1>3 DEF CacheTypeOK
<1>6. r.pc = "room" /\ r.size = task[t].size /\ r.model = task[t].model /\ r.kind = task[t].kind
  BY <1>1, <1>2 DEF Request
<1>7. overlapped' = {} => SizedAt(t)
  BY <1>4 DEF CacheInv, Sized, SizedAt, Sizing
<1>8. overlapped' = {} => SizedAt(t)'
  BY <1>1, <1>5, <1>6, <1>7 DEF SizedAt, Sizing
<1>9. Frame(t) /\ task'[t].pc \notin {"place", "record"}
  BY <1>3, <1>4, <1>5, <1>6 DEF Frame
<1> QED BY <1>8, <1>9, IndexMeasured, CapKeeps

\* A victim is removed, or an operator's request has made room.
LEMMA VictimCaps ==
  ASSUME CacheInv, FilesInv', Next, NEW t \in Task, Room(t),
         ~(index[Mgr(t)] = <<>> \/ Fits(index[Mgr(t)], task[t].size)) \/ task[t].kind = "gc"
  PROVE  CacheInv'
<1>1. CacheTypeOK /\ task[t].pc = "room" /\ task[t] \in Request
  BY DEF CacheInv, FilesInv, Room, At, CacheTypeOK
<1>2. PICK h : h = Head(index[Mgr(t)]).model
  OBVIOUS
<1>3. dir' = dir \/ dir' = [dir EXCEPT ![h].slot = None]
  BY <1>2 DEF Room
<1>4. \A k \in Model : dir'[k].slot \in {None, dir[k].slot}
  BY <1>1, <1>3 DEF CacheTypeOK, DirRecord
<1>5. overlapped' = overlapped /\ (crowded => crowded')
  BY DEF Room
<1>6. ASSUME \A u \in Task \ {t} : task'[u] = task[u], overlapped' = {} => SizedAt(t)', task'[t].pc \notin {"place", "record"}
      PROVE  CacheInv'
  <2>1. Frame(t)
    BY <1>4, <1>5, <1>6 DEF Frame
  <2> QED BY <1>6, <2>1, IndexMeasured, CapKeeps
<1>7. CASE ~(index[Mgr(t)] = <<>> \/ Fits(index[Mgr(t)], task[t].size))
  <2>1. PICK r : r = [task[t] EXCEPT !.pc = "drop", !.victim = h]
    OBVIOUS
  <2>2. task' = [task EXCEPT ![t] = r]
    BY <1>2, <1>7, <2>1 DEF Room
  <2>3. task'[t] = r /\ \A u \in Task \ {t} : task'[u] = task[u]
    BY <1>1, <2>2 DEF CacheTypeOK
  <2>4. r.pc = "drop" /\ r.size = task[t].size /\ r.model = task[t].model /\ r.kind = task[t].kind
    BY <1>1, <2>1 DEF Request
  <2>5. overlapped' = {} => SizedAt(t)
    BY <1>5 DEF CacheInv, Sized, SizedAt, Sizing
  <2>6. overlapped' = {} => SizedAt(t)'
    BY <1>1, <2>3, <2>4, <2>5 DEF SizedAt, Sizing
  <2> QED BY <1>6, <2>3, <2>4, <2>6
<1>8. CASE (index[Mgr(t)] = <<>> \/ Fits(index[Mgr(t)], task[t].size)) /\ task[t].kind = "gc"
  <2>1. PICK r : r = EndOf(t, "done", <<>>, <<>>)
    OBVIOUS
  <2>2. Ended(t, "done", <<>>, <<>>)
    BY <1>8 DEF Room
  <2>3. task' = [task EXCEPT ![t] = r]
    BY <2>1, <2>2 DEF Ended, EndOf
  <2>4. task'[t] = r /\ \A u \in Task \ {t} : task'[u] = task[u]
    BY <1>1, <2>3 DEF CacheTypeOK
  <2>5. r.pc = "done"
    BY <2>1 DEF EndOf, Idle
  <2> QED BY <1>6, <2>4, <2>5 DEF SizedAt, Sizing
<1> QED BY <1>7, <1>8

\* What an index that lists the files of the other models says that they take.
LEMMA IndexCounts ==
  ASSUME FilesInv, overlapped = {}, NEW idx, IndexOf(idx, MeasuredEntry), NEW m \in Model,
         \A k \in Model \ {m} : dir[k].slot # None => Holds(idx, k)
  PROVE  /\ SumFunctionOnSet(SlotBytes, Model \ {m}) <= Total(idx) /\ Total(idx) \in Nat
         /\ SumFunctionOnSet(SlotBytes, Model \ {m}) \in Int
         /\ idx = <<>> => Total(idx) = 0
<1>1. PICK L : L = Listed(idx)
  OBVIOUS
<1>2. PICK g : g = [k \in L |-> idx[PositionOf(idx, k)].size]
  OBVIOUS
<1>3. PICK f : f = SlotBytes
  OBVIOUS
<1>4. PICK S : S = Model \ {m}
  OBVIOUS
<1>5. ASSUME NEW k \in L PROVE k \in Model /\ g[k] = SizeOf[k] /\ g[k] \in Nat
  <2>1. PICK e : e = idx[PositionOf(idx, k)]
    OBVIOUS
  <2>2. PositionOf(idx, k) \in DOMAIN idx /\ e.model = k
    BY <1>1, <2>1 DEF Listed, PositionOf
  <2>3. e \in MeasuredEntry
    BY <2>1, <2>2 DEF IndexOf
  <2> QED BY <1>2, <2>1, <2>2, <2>3 DEF MeasuredEntry, Entry
<1>6. IsFiniteSet(L) /\ IsFiniteSet(S) /\ S \subseteq Model
  BY <1>4, <1>5, ModelCacheAssumption, FS_Subset DEF ModelCacheAssumption
<1>7. g \in [L -> Nat]
  BY <1>2, <1>5
<1>8. Total(idx) = SumFunctionOnSet(g, L) /\ Total(idx) \in Nat
  BY <1>1, <1>2, <1>6, <1>7, SumOfNats DEF Total
<1>9. \A k \in Model : f[k] = (IF dir[k].slot = None THEN 0 ELSE SizeOf[k]) /\ f[k] \in Nat
  BY <1>3, SlotBytesAre
<1>10. PICK A : A = S \cap L
  OBVIOUS
<1>11. PICK B : B = S \ L
  OBVIOUS
<1>12. IsFiniteSet(A) /\ IsFiniteSet(B) /\ A \subseteq L /\ A \subseteq Model /\ B \subseteq Model
       /\ S = A \cup B /\ A \cap B = {}
  BY <1>6, <1>10, <1>11, FS_Subset
<1>13. Sums(f, A) /\ Sums(f, B) /\ Sums(g, A) /\ Sums(f, S)
  BY <1>5, <1>6, <1>9, <1>12 DEF Sums
<1>14. SumFunctionOnSet(f, S) = SumFunctionOnSet(f, A) + SumFunctionOnSet(f, B)
  BY <1>12, <1>13, SumUnion
<1>15. SumFunctionOnSet(f, B) = 0
  <2>1. \A k \in B : f[k] = 0 * f[k]
    <3> SUFFICES ASSUME NEW k \in B PROVE f[k] = 0 * f[k]
      OBVIOUS
    <3>1. k \in Model \ {m} /\ ~Holds(idx, k)
      BY <1>1, <1>4, <1>11 DEF Holds
    <3>2. f[k] = 0
      BY <1>9, <3>1
    <3> QED BY <3>2
  <2>2. SumFunctionOnSet(f, B) = 0 * SumFunctionOnSet(f, B)
    BY <1>13, <2>1, SumScale
  <2>3. SumFunctionOnSet(f, B) \in Int
    BY <1>13, SumInt
  <2> QED BY <2>2, <2>3
<1>16. SumFunctionOnSet(f, A) <= SumFunctionOnSet(g, A)
  <2>1. \A k \in A : f[k] <= g[k]
    BY <1>5, <1>9, <1>12
  <2> QED BY <1>13, <2>1, SumLeq
<1>17. SumFunctionOnSet(g, A) <= SumFunctionOnSet(g, L)
  BY <1>5, <1>6, <1>12, SumNat
<1>18. /\ SumFunctionOnSet(f, A) \in Int /\ SumFunctionOnSet(g, A) \in Int
       /\ SumFunctionOnSet(f, S) \in Int
  BY <1>13, SumInt
<1>19. SumFunctionOnSet(f, S) <= Total(idx)
  BY <1>8, <1>14, <1>15, <1>16, <1>17, <1>18
<1>20. ASSUME idx = <<>> PROVE Total(idx) = 0
  <2>1. L = {}
    BY <1>1, <1>20 DEF Listed
  <2> QED BY <1>8, <2>1, SumEmpty
<1> QED BY <1>3, <1>4, <1>8, <1>18, <1>19, <1>20

\* There is room for a file, which is to be moved in next.
LEMMA RoomCaps ==
  ASSUME CacheInv, FilesInv', Next, NEW t \in Task, Room(t),
         index[Mgr(t)] = <<>> \/ Fits(index[Mgr(t)], task[t].size), task[t].kind # "gc"
  PROVE  CacheInv'
<1>1. FilesInv /\ CacheTypeOK /\ TaskInv(t) /\ task[t].pc = "room" /\ task[t] \in Request
  BY DEF CacheInv, FilesInv, Room, At, CacheTypeOK
<1>2. PICK idx : idx = index[Mgr(t)]
  OBVIOUS
<1>3. PICK m \in Model : m = task[t].model
  BY <1>1 DEF TaskInv, Working
<1>4. PICK r : r = [task[t] EXCEPT !.pc = "place"]
  OBVIOUS
<1>5. task' = [task EXCEPT ![t] = r] /\ dir' = dir
  BY <1>4 DEF Room, Go
<1>6. task'[t] = r /\ \A u \in Task \ {t} : task'[u] = task[u]
  BY <1>1, <1>5 DEF CacheTypeOK
<1>7. r.pc = "place" /\ r.size = task[t].size /\ r.model = m /\ r.kind = task[t].kind
  BY <1>1, <1>3, <1>4 DEF Request
<1>8. overlapped' = overlapped
  BY DEF Room
<1>9. ~crowded' => ~crowded /\ ~Uncounted(t)
  BY <1>2 DEF Room
<1>10. ASSUME overlapped' = {}
       PROVE  (\A u \in Task : SizedAt(u)) /\ \A i \in Task \cup {Main} : Measured(index[i])
  BY <1>8, <1>10 DEF CacheInv, Sized, SizedAt, Sizing
<1>11. Sized'
  <2> SUFFICES ASSUME overlapped' = {}, NEW u \in Task PROVE SizedAt(u)'
    BY IndexMeasured DEF Sized, SizedAt, Sizing
  <2>1. CASE u # t
    <3>1. SizedAt(u) /\ task'[u] = task[u]
      BY <1>6, <1>10, <2>1
    <3> QED BY <3>1 DEF SizedAt
  <2>2. CASE u = t
    <3>1. task[t].size = SizeOf[m] /\ task[t].size <= MaxBytes
      BY <1>1, <1>3, <1>10 DEF SizedAt, Sizing
    <3> QED BY <1>6, <1>7, <2>2, <3>1 DEF SizedAt
  <2> QED BY <2>1, <2>2
<1>12. OnePlaces'
  <2> SUFFICES ASSUME ~crowded', NEW u \in Task, u # t, Placing(u)' PROVE FALSE
    BY DEF OnePlaces
  <2>1. Placing(u)
    BY <1>6 DEF Placing
  <2> QED BY <1>9, <2>1 DEF Uncounted
<1>13. ASSUME ~crowded', overlapped' = {}
       PROVE  /\ OnDisk' <= MaxBytes
              /\ \A u \in Task : task'[u].pc = "place" =>
                   SumFunctionOnSet(SlotBytes', Model \ {task'[u].model}) + SizeOf[task'[u].model] <= MaxBytes
  <2>1. ~crowded /\ ~Uncounted(t) /\ overlapped = {}
    BY <1>8, <1>9, <1>13
  <2>2. \A k \in Model : SlotBytes'[k] = SlotBytes[k]
    <3>1. \A k \in Model : SlotBytes[k] = IF dir[k].slot = None THEN 0 ELSE SizeOf[k]
      BY <1>1, <2>1, SlotBytesAre
    <3>2. \A k \in Model : SlotBytes'[k] = IF dir'[k].slot = None THEN 0 ELSE SizeOf[k]
      BY <1>13, SlotBytesWillBe
    <3> QED BY <1>5, <3>1, <3>2
  <2>3. SlotBytes' = SlotBytes
    <3>1. SlotBytes = [k \in Model |-> SlotBytes[k]] /\ SlotBytes' = [k \in Model |-> SlotBytes'[k]]
      BY DEF SlotBytes
    <3> QED BY <2>2, <3>1
  <2>4. OnDisk' <= MaxBytes
    <3>1. OnDisk <= MaxBytes
      BY <2>1 DEF CacheInv, Capped
    <3> QED BY <2>3, <3>1, OnDiskIs
  <2>5. IndexOf(idx, MeasuredEntry)
    <3>1. Mgr(t) \in Task \cup {Main} /\ Measured(index[Mgr(t)])
      BY <1>10, <1>13, MgrIs
    <3> QED BY <1>1, <1>2, <3>1, IndexTyped, MeasuredIs
  <2>6. \A k \in Model \ {m} : dir[k].slot # None => Holds(idx, k)
    BY <1>2, <1>3, <2>1 DEF Uncounted
  <2>7. /\ SumFunctionOnSet(SlotBytes, Model \ {m}) <= Total(idx) /\ Total(idx) \in Nat
        /\ SumFunctionOnSet(SlotBytes, Model \ {m}) \in Int
        /\ idx = <<>> => Total(idx) = 0
    BY <1>1, <2>1, <2>5, <2>6, IndexCounts
  <2>8. task[t].size = SizeOf[m] /\ task[t].size <= MaxBytes /\ SizeOf[m] \in Nat /\ MaxBytes \in Nat
    <3>1. task[t].size = SizeOf[m] /\ task[t].size <= MaxBytes
      BY <1>1, <1>3, <1>10, <1>13 DEF SizedAt, Sizing
    <3> QED BY <3>1, FullIs, ModelCacheAssumption DEF ModelCacheAssumption
  <2>9. SumFunctionOnSet(SlotBytes, Model \ {m}) + SizeOf[m] <= MaxBytes
    <3>1. CASE idx = <<>>
      BY <2>7, <2>8, <3>1
    <3>2. CASE idx # <<>>
      <4>1. Total(idx) + SizeOf[m] <= MaxBytes
        BY <1>2, <2>8, <3>2 DEF Fits
      <4> QED BY <2>7, <2>8, <4>1
    <3> QED BY <3>1, <3>2
  <2>10. ASSUME NEW u \in Task, task'[u].pc = "place"
         PROVE  SumFunctionOnSet(SlotBytes', Model \ {task'[u].model}) + SizeOf[task'[u].model] <= MaxBytes
    <3>1. u = t
      <4> SUFFICES ASSUME u # t PROVE FALSE
        OBVIOUS
      <4>1. Placing(u)
        BY <1>6, <2>10 DEF Placing
      <4> QED BY <2>1, <4>1 DEF Uncounted
    <3>2. task'[u].model = m
      BY <1>6, <1>7, <3>1
    <3> QED BY <2>3, <2>9, <3>2
  <2> QED BY <2>4, <2>10
<1>14. Capped'
  BY <1>13 DEF Capped
<1> QED BY <1>11, <1>12, <1>14 DEF CacheInv

\* A file is moved into its slot, where there is room for it.
LEMMA PlaceCaps ==
  ASSUME CacheInv, FilesInv', Next, NEW t \in Task, Place(t)
  PROVE  CacheInv'
<1>1. FilesInv /\ CacheTypeOK /\ task[t].pc = "place" /\ task[t] \in Request /\ UNCHANGED history
  BY DEF CacheInv, FilesInv, Place, At, CacheTypeOK
<1>2. PICK m \in Model : m = task[t].model
  BY <1>1, HasModel
<1>3. overlapped' = overlapped /\ crowded' = crowded
  BY <1>1 DEF history
<1>4. CASE dir[m].staging = None
  <2>1. Fails(t) /\ dir' = dir
    BY <1>2, <1>4 DEF Place
  <2>2. task'[t].pc = "failed" /\ \A u \in Task \ {t} : task'[u] = task[u]
    BY <1>1, <2>1, EndsAt
  <2>3. Frame(t)
    BY <1>3, <2>1, <2>2 DEF Frame
  <2> QED BY <2>2, <2>3, IndexMeasured, CapKeeps DEF SizedAt, Sizing
<1>5. CASE dir[m].staging # None
  <2>1. PICK r : r = [task[t] EXCEPT !.pc = "record"]
    OBVIOUS
  <2>2. task' = [task EXCEPT ![t] = r] /\ dir' = [dir EXCEPT ![m].slot = dir[m].staging, ![m].staging = None]
    BY <1>2, <1>5, <2>1 DEF Place, Go
  <2>3. task'[t] = r /\ \A u \in Task \ {t} : task'[u] = task[u]
    BY <1>1, <2>2 DEF CacheTypeOK
  <2>4. r.pc = "record" /\ r.size = task[t].size /\ r.model = m /\ r.kind = task[t].kind
    BY <1>1, <1>2, <2>1 DEF Request
  <2>5. dir'[m].slot # None /\ \A k \in Model \ {m} : dir'[k].slot = dir[k].slot
    BY <1>1, <1>5, <2>2 DEF CacheTypeOK, DirRecord
  <2>6. \A u \in Task : Placing(u)' => Placing(u)
    BY <1>1, <2>3 DEF Placing
  <2>7. OnePlaces'
    BY <1>3, <2>6 DEF CacheInv, OnePlaces
  <2>8. Sized'
    <3> SUFFICES ASSUME overlapped' = {}, NEW u \in Task PROVE SizedAt(u)'
      BY IndexMeasured DEF Sized, SizedAt, Sizing
    <3>1. SizedAt(u)
      BY <1>3 DEF CacheInv, Sized, SizedAt, Sizing
    <3>2. CASE u # t
      BY <2>3, <3>1, <3>2 DEF SizedAt
    <3>3. CASE u = t
      BY <1>1, <1>2, <2>3, <2>4, <3>1, <3>3 DEF SizedAt, Sizing
    <3> QED BY <3>2, <3>3
  <2>9. ASSUME ~crowded', overlapped' = {} PROVE OnDisk' <= MaxBytes
    <3>1. ~crowded /\ overlapped = {}
      BY <1>3, <2>9
    <3>2. SumFunctionOnSet(SlotBytes, Model \ {m}) + SizeOf[m] <= MaxBytes
      BY <1>1, <1>2, <3>1 DEF CacheInv, Capped
    <3>3. PICK S \in SUBSET Model : S = Model \ {m}
      OBVIOUS
    <3>4. /\ SumFunctionOnSet(SlotBytes', S) <= SumFunctionOnSet(SlotBytes, S)
          /\ SumFunctionOnSet(SlotBytes', S) \in Int /\ SumFunctionOnSet(SlotBytes, S) \in Int
      <4>1. \A k \in S : dir'[k].slot \in {None, dir[k].slot}
        BY <2>5, <3>3
      <4> QED BY <1>1, <2>9, <3>1, <4>1, SlotsShrink
    <3>5. PICK f : f = SlotBytes'
      OBVIOUS
    <3>6. \A k \in Model : f[k] \in Nat
      BY <2>9, <3>5, SlotBytesWillBe
    <3>7. f[m] = SizeOf[m]
      BY <2>5, <2>9, <3>5, SlotBytesWillBe
    <3>8. Sums(f, Model)
      BY <3>6, ModelCacheAssumption DEF Sums, ModelCacheAssumption
    <3>9. SumFunctionOnSet(f, Model) = f[m] + SumFunctionOnSet(f, Model \ {m})
      BY <3>8, SumRemove
    <3>10. SizeOf[m] \in Nat /\ MaxBytes \in Nat
      BY FullIs, ModelCacheAssumption DEF ModelCacheAssumption
    <3> QED BY <3>2, <3>3, <3>4, <3>5, <3>7, <3>9, <3>10, OnDiskIs
  <2>10. ASSUME ~crowded', NEW u \in Task, task'[u].pc = "place" PROVE FALSE
    <3>1. u # t
      BY <2>3, <2>4, <2>10
    <3>2. Placing(u) /\ Placing(t)
      BY <1>1, <2>6, <2>10 DEF Placing
    <3> QED BY <1>3, <2>10, <3>1, <3>2 DEF CacheInv, OnePlaces
  <2>11. Capped'
    BY <2>9, <2>10 DEF Capped
  <2> QED BY <2>7, <2>8, <2>11 DEF CacheInv
<1> QED BY <1>4, <1>5

\* A restart forgets the requests.
LEMMA RestartCaps ==
  ASSUME CacheInv, FilesInv', Next, Restart
  PROVE  CacheInv'
<1>1. FilesInv /\ dir' = dir /\ UNCHANGED history
  BY DEF CacheInv, Restart
<1>2. \A t \in Task : task'[t].pc = "idle"
  BY DEF Restart, Idle
<1>3. overlapped' = overlapped /\ crowded' = crowded
  BY <1>1 DEF history
<1>4. Sized'
  BY <1>2, IndexMeasured DEF Sized
<1>5. OnePlaces'
  BY <1>2 DEF OnePlaces, Placing
<1>6. ASSUME ~crowded', overlapped' = {} PROVE OnDisk' <= MaxBytes
  <2>1. OnDisk <= MaxBytes /\ overlapped = {}
    BY <1>3, <1>6 DEF CacheInv, Capped
  <2>2. Model \in SUBSET Model /\ \A m \in Model : dir'[m].slot \in {None, dir[m].slot}
    BY <1>1
  <2>3. /\ SumFunctionOnSet(SlotBytes', Model) <= SumFunctionOnSet(SlotBytes, Model)
        /\ SumFunctionOnSet(SlotBytes', Model) \in Int /\ SumFunctionOnSet(SlotBytes, Model) \in Int
    BY <1>1, <1>6, <2>1, <2>2, SlotsShrink
  <2>4. MaxBytes \in Nat
    BY ModelCacheAssumption DEF ModelCacheAssumption
  <2> QED BY <2>1, <2>3, <2>4, OnDiskIs
<1>7. Capped'
  BY <1>2, <1>6 DEF Capped
<1> QED BY <1>4, <1>5, <1>7 DEF CacheInv

\* A new node keeps under its cap.
LEMMA CacheStarts ==
  ASSUME Init
  PROVE  CacheInv
<1>1. FilesInv /\ overlapped = {}
  BY FilesInit DEF Init
<1>2. \A t \in Task : task[t].pc = "idle"
  BY DEF Init, Idle
<1>3. \A i \in Task \cup {Main} : Measured(index[i])
  BY DEF Init, Measured
<1>4. Sized /\ OnePlaces
  BY <1>2, <1>3 DEF Sized, OnePlaces, Placing
<1>5. OnDisk <= MaxBytes
  <2>1. PICK f : f = SlotBytes
    OBVIOUS
  <2>2. \A m \in Model : f[m] = 0
    BY <2>1 DEF Init, SlotBytes
  <2>3. Sums(f, Model) /\ \A m \in Model : f[m] = 0 * f[m]
    BY <2>2, ModelCacheAssumption DEF Sums, ModelCacheAssumption
  <2>4. SumFunctionOnSet(f, Model) = 0 * SumFunctionOnSet(f, Model) /\ SumFunctionOnSet(f, Model) \in Int
    BY <2>3, SumScale, SumInt
  <2> QED BY <2>1, <2>4, OnDiskIs, ModelCacheAssumption DEF ModelCacheAssumption
<1>6. Capped
  BY <1>2, <1>5 DEF Capped
<1> QED BY <1>1, <1>4, <1>6 DEF CacheInv

\* A step of the node keeps the files verified and the cap.
LEMMA CacheStep ==
  ASSUME CacheInv, [Next]_vars
  PROVE  CacheInv'
<1>1. CASE UNCHANGED vars
  <2>1. /\ dir' = dir /\ files' = files /\ index' = index /\ engine' = engine /\ manifests' = manifests
        /\ task' = task /\ overlapped' = overlapped /\ crowded' = crowded
    BY <1>1 DEF vars, disk, history
  <2>2. Referenced' = Referenced
    BY <2>1 DEF Referenced
  <2>3. CacheTypeOK'
    BY <2>1 DEF CacheInv, FilesInv, CacheTypeOK, IndexTypes, EngineTypes
  <2>4. \A t \in Task : TaskInv(t)'
    BY <2>1 DEF CacheInv, FilesInv, TaskInv, Working, Writes, Resumes, Hashes, Gets
  <2>5. \A m \in Model : ModelInv(m)'
    BY <2>1 DEF CacheInv, FilesInv, ModelInv
  <2>6. NamesApart' /\ FdsApart' /\ Erased' /\ Alone' /\ EngineHolds'
    BY <2>1, <2>2 DEF CacheInv, FilesInv, NamesApart, FdsApart, Erased, Alone, Downloading, EngineHolds
  <2>7. SlotBytes' = SlotBytes /\ OnDisk' = OnDisk
    BY <2>1 DEF SlotBytes, OnDisk
  <2>8. Sized' /\ OnePlaces' /\ Capped'
    BY <2>1, <2>7 DEF CacheInv, Sized, OnePlaces, Placing, Capped
  <2> QED BY <2>3, <2>4, <2>5, <2>6, <2>8 DEF CacheInv, FilesInv
<1>2. CASE Next
  <2>1. FilesInv'
    BY <1>2, FilesNext DEF CacheInv
  <2>2. ASSUME NEW t \in Task, NEW m \in Model, BeginLoad(t, m) \/ BeginInfer(t, m) PROVE CacheInv'
    <3>1. Begin(t, "load", m) \/ Begin(t, "own", m)
      BY <2>2 DEF BeginLoad, BeginInfer
    <3> QED BY <1>2, <2>1, <3>1, BeginCaps
  <2>3. ASSUME NEW t \in Task, BeginGc(t) PROVE CacheInv'
    <3>1. Begin(t, "gc", None)
      BY <2>3 DEF BeginGc
    <3> QED BY <1>2, <2>1, <3>1, BeginCaps
  <2>4. ASSUME NEW t \in Task, Step(t) PROVE CacheInv'
    <3>1. CASE Plain(t)
      BY <1>2, <2>1, <3>1, PlainKeeps
    <3>2. CASE Insert(t)
      BY <1>2, <2>1, <3>2, InsertCaps
    <3>3. CASE Drop(t)
      BY <1>2, <2>1, <3>3, DropCaps
    <3>4. CASE Place(t)
      BY <1>2, <2>1, <3>4, PlaceCaps
    <3>5. CASE Room(t)
      BY <1>2, <2>1, <3>5, VictimCaps, RoomCaps
    <3> QED BY <2>4, <3>1, <3>2, <3>3, <3>4, <3>5 DEF Step, Plain
  <2>5. CASE Restart
    BY <1>2, <2>1, <2>5, RestartCaps
  <2> QED BY <1>2, <2>2, <2>3, <2>4, <2>5 DEF Next
<1> QED BY <1>1, <1>2

\* What is in order is sound.
LEMMA CacheInvSound ==
  ASSUME CacheInv
  PROVE  CacheSound
<1>1. FilesInv /\ Capped
  BY DEF CacheInv
<1>2. SlotVerifiedAlone
  BY <1>1, SlotIs DEF SlotVerifiedAlone
<1>3. LoadsAreSound
  BY <1>1 DEF LoadsAreSound, At, FilesInv, TaskInv, Gets
<1>4. DiskCapHeldAlone
  BY <1>1 DEF DiskCapHeldAlone, Capped
<1> QED BY <1>2, <1>3, <1>4 DEF CacheSound

\* A model that no two requests downloaded at once is what its digest says, on
\* the disk and in every request that loads it, and the slots keep under the cap
\* as long as every insert counted the other files: for any number of models,
\* requests, mirrors and restarts, whatever the mirrors send (manager.rs:88-163,
\* cache.rs:176-262).
THEOREM CacheIsSound == Spec => []CacheSound
<1>1. Init => CacheInv
  BY CacheStarts
<1>2. CacheInv /\ [Next]_vars => CacheInv'
  BY CacheStep
<1>3. CacheInv => CacheSound
  BY CacheInvSound
<1> QED BY <1>1, <1>2, <1>3, PTL DEF Spec

-----------------------------------------------------------------------------
(* The verifier's disputes *)

\* The receipts of a block's entries are receipts.
LEMMA ReceiptsTyped ==
  ASSUME NEW B, \A b \in B : b.receipts \in Seq(Receipt),
         NEW entries \in Seq([batch : B, applied : BOOLEAN])
  PROVE  ReceiptsIn(entries) \in Seq(Receipt)
<1> DEFINE n == Len(entries)
           S == DOMAIN entries
           V == Seq(Receipt)
           base == <<>>
           F == [p \in S \X V |-> WithReceipts(p[2], entries[p[1]])]
           Body(g, s) == IF s = {} THEN base
                         ELSE LET x == Max(s) IN WithReceipts(g[s \ {x}], entries[x])
           iter == CHOOSE g : g = [s \in SUBSET S |-> Body(g, s)]
<1>1. n \in Nat /\ S = 1..n /\ IsFiniteSet(S) /\ \A x \in S : entries[x] \in [batch : B, applied : BOOLEAN]
  <2>1. n \in Nat /\ S = 1..n
    BY LenProperties
  <2>2. \A x \in S : entries[x] \in [batch : B, applied : BOOLEAN]
    BY <2>1, ElementOfSeq
  <2>3. IsFiniteSet(S)
    BY <2>1, FS_Interval
  <2> QED BY <2>1, <2>2, <2>3
<1>2. \A x \in S, v \in V : F[<<x, v>>] \in V /\ F[<<x, v>>] = WithReceipts(v, entries[x])
  <2> SUFFICES ASSUME NEW x \in S, NEW v \in V PROVE WithReceipts(v, entries[x]) \in V
    OBVIOUS
  <2>1. entries[x] \in [batch : B, applied : BOOLEAN]
    BY <1>1
  <2>2. entries[x].batch.receipts \in Seq(Receipt)
    BY <2>1
  <2>3. v \o entries[x].batch.receipts \in Seq(Receipt)
    BY <2>2, ConcatProperties
  <2> QED BY <2>3 DEF WithReceipts
<1>3. base \in V
  OBVIOUS
<1>4. iter = [s \in SUBSET S |-> Body(iter, s)]
  <2> DEFINE c == LastOf(n)
  <2>1. \A s \in SUBSET S : s # {} => c[s] = Max(s) /\ c[s] \in s
    <3>1. \A s \in SUBSET (1..n) : s # {} => c[s] \in s
      BY <1>1, LastIs
    <3>2. \A s \in SUBSET (1..n) : c[s] = Max(s)
      BY DEF Max, LastOf
    <3> QED BY <1>1, <3>1, <3>2
  <2>2. Chooses(c, S)
    BY <2>1 DEF Chooses
  <2> HIDE DEF S, F, base, c, n, V
  <2>3. PICK g : Folds(g, F, base, c, S)
    BY <1>1, <2>2, FoldExists
  <2>4. g \in [SUBSET S -> V]
    BY <1>1, <1>2, <1>3, <2>2, <2>3, FoldType
  <2>5. ASSUME NEW s \in SUBSET S PROVE g[s] = Body(g, s)
    <3>1. g[s] = IF s = {} THEN base ELSE F[<<c[s], g[s \ {c[s]}]>>]
      BY <2>3 DEF Folds
    <3>2. CASE s # {}
      <4>1. c[s] = Max(s) /\ c[s] \in S /\ s \ {c[s]} \in SUBSET S
        BY <2>1, <3>2
      <4>2. F[<<c[s], g[s \ {c[s]}]>>] = WithReceipts(g[s \ {c[s]}], entries[c[s]])
        BY <1>2, <2>4, <4>1
      <4> QED BY <3>1, <3>2, <4>1, <4>2
    <3> QED BY <3>1, <3>2
  <2>6. g = [s \in SUBSET S |-> Body(g, s)]
    BY <2>4, <2>5
  <2> QED BY <2>6
<1>5. ReceiptsIn(entries) = iter[S]
  BY DEF ReceiptsIn, FoldLeft, MapThenFoldSet
<1>6. iter[{}] = base
  BY <1>4
<1>7. ASSUME NEW s \in SUBSET (1..n), s # {}, iter[s \ {LastOf(n)[s]}] \in V
      PROVE  iter[s] = F[<<LastOf(n)[s], iter[s \ {LastOf(n)[s]}]>>]
  <2> HIDE DEF iter, F
  <2>1. iter[s] = WithReceipts(iter[s \ {Max(s)}], entries[Max(s)])
    BY <1>1, <1>4, <1>7
  <2>2. LastOf(n)[s] = Max(s) /\ LastOf(n)[s] \in S
    <3>1. LastOf(n)[s] \in s
      BY <1>1, <1>7, LastIs
    <3>2. LastOf(n)[s] = Max(s)
      BY DEF Max, LastOf
    <3> QED BY <1>1, <3>1, <3>2
  <2> QED BY <1>2, <1>7, <2>1, <2>2
<1>8. PICK a : Trace(a, F, base, n, V) /\ iter[1..n] = a[n]
  <2>1. StaysIn(F, n, V)
    BY <1>1, <1>2 DEF StaysIn
  <2>2. Unrolls(iter, F, base, n, V)
    BY <1>6, <1>7 DEF Unrolls
  <2> HIDE DEF iter, F, base, n, V
  <2> QED BY <1>1, <1>3, <2>1, <2>2, FoldTrace
<1> HIDE DEF iter, F
<1> QED BY <1>1, <1>5, <1>8 DEF Trace

\* A batch adds its entry to a block, and marks jobs.
LEMMA BatchTyped ==
  ASSUME NEW B, \A b \in B : b.receipts \in Seq(Receipt), NEW b \in B,
         NEW at \in [seen : SUBSET Job, entries : Seq([batch : B, applied : BOOLEAN])]
  PROVE  WithBatch(at, b) \in [seen : SUBSET Job, entries : Seq([batch : B, applied : BOOLEAN])]
<1>1. b.receipts \in Seq(Receipt) /\ \A i \in DOMAIN b.receipts : b.receipts[i].job \in Job
  <2>1. \A i \in DOMAIN b.receipts : b.receipts[i] \in Receipt
    BY ElementOfSeq, LenProperties
  <2> QED BY <2>1 DEF Job
<1>2. PICK a : a = Anchored(b, at.seen)
  OBVIOUS
<1>3. a.applied \in BOOLEAN /\ a.seen \in SUBSET Job
  BY <1>1, <1>2 DEF Anchored
<1>4. Append(at.entries, [batch |-> b, applied |-> a.applied]) \in Seq([batch : B, applied : BOOLEAN])
  <2>1. [batch |-> b, applied |-> a.applied] \in [batch : B, applied : BOOLEAN]
    BY <1>3
  <2>2. at.entries \in Seq([batch : B, applied : BOOLEAN])
    OBVIOUS
  <2> QED BY <2>1, <2>2, AppendProperties
<1> QED BY <1>2, <1>3, <1>4 DEF WithBatch

\* A block has an entry for some of the batches, and marks jobs.
LEMMA BlockTyped ==
  ASSUME NEW B, \A b \in B : b.receipts \in Seq(Receipt), receipts_seen \in SUBSET Job, NEW bs \in Seq(B)
  PROVE  BlockOf(bs) \in [seen : SUBSET Job, entries : Seq([batch : B, applied : BOOLEAN])]
<1> DEFINE n == Len(bs)
           S == DOMAIN bs
           V == [seen : SUBSET Job, entries : Seq([batch : B, applied : BOOLEAN])]
           base == [seen |-> receipts_seen, entries |-> <<>>]
           F == [p \in S \X V |-> WithBatch(p[2], bs[p[1]])]
           Body(g, s) == IF s = {} THEN base
                         ELSE LET x == Max(s) IN WithBatch(g[s \ {x}], bs[x])
           iter == CHOOSE g : g = [s \in SUBSET S |-> Body(g, s)]
<1>1. n \in Nat /\ S = 1..n /\ IsFiniteSet(S) /\ \A x \in S : bs[x] \in B
  <2>1. n \in Nat /\ S = 1..n
    BY LenProperties
  <2>2. \A x \in S : bs[x] \in B
    BY <2>1, ElementOfSeq
  <2>3. IsFiniteSet(S)
    BY <2>1, FS_Interval
  <2> QED BY <2>1, <2>2, <2>3
<1>2. \A x \in S, v \in V : F[<<x, v>>] \in V /\ F[<<x, v>>] = WithBatch(v, bs[x])
  <2> SUFFICES ASSUME NEW x \in S, NEW v \in V PROVE WithBatch(v, bs[x]) \in V
    OBVIOUS
  <2>1. bs[x] \in B
    BY <1>1
  <2> QED BY <2>1, BatchTyped
<1>3. base \in V
  <2>1. <<>> \in Seq([batch : B, applied : BOOLEAN])
    OBVIOUS
  <2> QED BY <2>1
<1>4. iter = [s \in SUBSET S |-> Body(iter, s)]
  <2> DEFINE c == LastOf(n)
  <2>1. \A s \in SUBSET S : s # {} => c[s] = Max(s) /\ c[s] \in s
    <3>1. \A s \in SUBSET (1..n) : s # {} => c[s] \in s
      BY <1>1, LastIs
    <3>2. \A s \in SUBSET (1..n) : c[s] = Max(s)
      BY DEF Max, LastOf
    <3> QED BY <1>1, <3>1, <3>2
  <2>2. Chooses(c, S)
    BY <2>1 DEF Chooses
  <2> HIDE DEF S, F, base, c, n, V
  <2>3. PICK g : Folds(g, F, base, c, S)
    BY <1>1, <2>2, FoldExists
  <2>4. g \in [SUBSET S -> V]
    BY <1>1, <1>2, <1>3, <2>2, <2>3, FoldType
  <2>5. ASSUME NEW s \in SUBSET S PROVE g[s] = Body(g, s)
    <3>1. g[s] = IF s = {} THEN base ELSE F[<<c[s], g[s \ {c[s]}]>>]
      BY <2>3 DEF Folds
    <3>2. CASE s # {}
      <4>1. c[s] = Max(s) /\ c[s] \in S /\ s \ {c[s]} \in SUBSET S
        BY <2>1, <3>2
      <4>2. F[<<c[s], g[s \ {c[s]}]>>] = WithBatch(g[s \ {c[s]}], bs[c[s]])
        BY <1>2, <2>4, <4>1
      <4> QED BY <3>1, <3>2, <4>1, <4>2
    <3> QED BY <3>1, <3>2
  <2>6. g = [s \in SUBSET S |-> Body(g, s)]
    BY <2>4, <2>5
  <2> QED BY <2>6
<1>5. BlockOf(bs) = iter[S]
  BY DEF BlockOf, FoldLeft, MapThenFoldSet
<1>6. iter[{}] = base
  BY <1>4
<1>7. ASSUME NEW s \in SUBSET (1..n), s # {}, iter[s \ {LastOf(n)[s]}] \in V
      PROVE  iter[s] = F[<<LastOf(n)[s], iter[s \ {LastOf(n)[s]}]>>]
  <2> HIDE DEF iter, F
  <2>1. iter[s] = WithBatch(iter[s \ {Max(s)}], bs[Max(s)])
    BY <1>1, <1>4, <1>7
  <2>2. LastOf(n)[s] = Max(s) /\ LastOf(n)[s] \in S
    <3>1. LastOf(n)[s] \in s
      BY <1>1, <1>7, LastIs
    <3>2. LastOf(n)[s] = Max(s)
      BY DEF Max, LastOf
    <3> QED BY <1>1, <3>1, <3>2
  <2> QED BY <1>2, <1>7, <2>1, <2>2
<1>8. PICK a : Trace(a, F, base, n, V) /\ iter[1..n] = a[n]
  <2>1. StaysIn(F, n, V)
    BY <1>1, <1>2 DEF StaysIn
  <2>2. Unrolls(iter, F, base, n, V)
    BY <1>6, <1>7 DEF Unrolls
  <2> HIDE DEF iter, F, base, n, V
  <2> QED BY <1>1, <1>3, <2>1, <2>2, FoldTrace
<1> HIDE DEF iter, F
<1>9. a[n] \in V
  <2> HIDE DEF V, base, n
  <2> QED BY <1>1, <1>8 DEF Trace
<1> QED BY <1>1, <1>5, <1>8, <1>9

\* The entries of a block.
Batches == [batch : batches, applied : BOOLEAN]

\* Batches hold receipts, sealed ones some.
ReceiptsInv ==
  /\ staged \in Seq(Receipt)
  /\ signed \subseteq batches
  /\ \A b \in batches : b.receipts \in Seq(Receipt)
  /\ \A b \in signed : b.receipts # <<>>
  /\ blocks \in Seq(Seq(Batches))
  /\ receipts_seen \in SUBSET Job

\* What waits to be scanned is a block, and the receipts being scanned are its own.
Scanning ==
  /\ block_events \in Seq(DOMAIN blocks)
  /\ loop = "scanning" =>
       block_hash \in DOMAIN blocks /\ todo \in Seq(ToSet(ReceiptsOf(block_hash)))

\* What is re-executed was selected.
Runs(r, proof) ==
  /\ loop = "scanning" /\ todo # <<>>
  /\ r \in ToSet(ReceiptsOf(block_hash))
  /\ proof = Selection(r.job, block_hash).proof
  /\ Selection(r.job, block_hash).selected
RunSelected == under_way # <<>> => \E r, proof : under_way = <<r, proof>> /\ Runs(r, proof)

\* What is submitted is a sequence of disputes.
DisputeOf(r, h) == Dispute(r, Selection(r.job, h).proof)
Submitted == disputes \in Seq({DisputeOf(p[1], p[2]) : p \in Receipt \X Nat})

DisputeInv == ReceiptsInv /\ Scanning /\ RunSelected /\ Submitted /\ DisputesHold

\* At the start there is nothing to scan.
LEMMA DisputeStarts == ASSUME VerificationInit PROVE DisputeInv
<1>1. ReceiptsInv
  BY DEF VerificationInit, ReceiptsInit, ReceiptsInv
<1>2. Scanning
  BY DEF VerificationInit, VerifierInit, Scanning
<1>3. RunSelected
  BY DEF VerificationInit, VerifierInit, RunSelected
<1>4. Submitted /\ DisputesHold
  BY DEF VerificationInit, VerifierInit, Submitted, DisputesHold, ToSet
<1> QED BY <1>1, <1>2, <1>3, <1>4 DEF DisputeInv

\* While batches are collected there are no blocks.
LEMMA CollectTyped == ASSUME ReceiptsInv, Collect PROVE ReceiptsInv' /\ blocks' = blocks
<1>1. blocks = <<>> /\ blocks' = blocks /\ receipts_seen' = receipts_seen
  BY DEF Collect, Push, SubmitOwn, Seal, Rewrap
<1>2. blocks' \in Seq(Seq(Batches')) /\ receipts_seen' \in SUBSET Job
  BY <1>1 DEF ReceiptsInv
<1>3. CASE \E r \in Receipt : Push(r)
  <2>1. PICK r \in Receipt : Push(r)
    BY <1>3
  <2>2. staged' \in Seq(Receipt)
    BY <2>1, AppendProperties DEF Push, ReceiptsInv
  <2>3. batches' = batches /\ signed' = signed
    BY <2>1 DEF Push
  <2> QED BY <1>1, <1>2, <2>2, <2>3 DEF ReceiptsInv
<1>4. CASE \E r \in Receipt : SubmitOwn(r)
  <2>1. PICK r \in Receipt : SubmitOwn(r)
    BY <1>4
  <2>2. PICK b : b = Batch(<<r>>, BatchId(<<r>>))
    OBVIOUS
  <2>3. batches' = batches \cup {b} /\ staged' = staged /\ signed' = signed
    BY <2>1, <2>2 DEF SubmitOwn, Known
  <2>4. b.receipts \in Seq(Receipt)
    BY <2>2 DEF Batch
  <2> QED BY <1>1, <1>2, <2>3, <2>4 DEF ReceiptsInv
<1>5. CASE Seal
  <2>1. PICK b : b = Batch(staged, Root(staged))
    OBVIOUS
  <2>2. /\ staged # <<>> /\ staged' = <<>>
        /\ (batches' = batches \cup {b} /\ signed' = signed \cup {b}) \/ (batches' = batches /\ signed' = signed)
    BY <1>5, <2>1 DEF Seal, Known
  <2>3. b.receipts = staged
    BY <2>1 DEF Batch
  <2> QED BY <1>1, <1>2, <2>2, <2>3 DEF ReceiptsInv
<1>6. CASE \E b \in signed : Rewrap(b)
  <2>1. PICK s \in signed : Rewrap(s)
    BY <1>6
  <2>2. PICK receipts \in {Front(s.receipts), Append(s.receipts, Last(s.receipts)), Reverse(s.receipts)} :
          batches' = batches \cup {Batch(receipts, s.merkle_root)}
    BY <2>1 DEF Rewrap, Known
  <2>3. s.receipts \in Seq(Receipt) /\ s.receipts # <<>>
    BY DEF ReceiptsInv
  <2>4. receipts \in Seq(Receipt)
    <3>1. PICK t : t = s.receipts
      OBVIOUS
    <3>2. t \in Seq(Receipt) /\ Len(t) \in Nat \ {0} /\ \A i \in 1..Len(t) : t[i] \in Receipt
      BY <2>3, <3>1, EmptySeq, LenProperties, ElementOfSeq
    <3>3. Front(t) \in Seq(Receipt)
      BY <3>2, SubSeqProperties DEF Front
    <3>4. Append(t, Last(t)) \in Seq(Receipt)
      BY <3>2, AppendProperties DEF Last
    <3>5. Reverse(t) \in Seq(Receipt)
      BY <3>2 DEF Reverse
    <3> QED BY <2>2, <3>1, <3>3, <3>4, <3>5
  <2>5. PICK b : b = Batch(receipts, s.merkle_root)
    OBVIOUS
  <2>6. b.receipts \in Seq(Receipt) /\ batches' = batches \cup {b} /\ staged' = staged /\ signed' = signed
    BY <2>1, <2>2, <2>4, <2>5 DEF Batch, Rewrap
  <2> QED BY <1>1, <1>2, <2>6 DEF ReceiptsInv
<1> QED BY <1>1, <1>3, <1>4, <1>5, <1>6 DEF Collect

\* A block is added, and those before it stay.
LEMMA BlockAdded ==
  ASSUME ReceiptsInv, FinalizeBlock
  PROVE  /\ ReceiptsInv'
         /\ Len(blocks') = Len(blocks) + 1
         /\ \A h \in DOMAIN blocks : h \in DOMAIN blocks' /\ blocks'[h] = blocks[h]
<1>0. PICK n \in 0..MaxBlockBatches : \E bs \in [1..n -> batches] :
        blocks' = Append(blocks, BlockOf(bs).entries) /\ receipts_seen' = BlockOf(bs).seen
  BY DEF FinalizeBlock
<1>1. PICK bs \in [1..n -> batches] :
        blocks' = Append(blocks, BlockOf(bs).entries) /\ receipts_seen' = BlockOf(bs).seen
  BY <1>0
<1>2. staged' = staged /\ batches' = batches /\ signed' = signed
  BY DEF FinalizeBlock
<1>3. bs \in Seq(batches)
  <2>1. n \in Nat
    OBVIOUS
  <2> QED BY <2>1, SeqDef
<1>4. PICK b : b = BlockOf(bs)
  OBVIOUS
<1>5. b \in [seen : SUBSET Job, entries : Seq(Batches)]
  <2>1. \A x \in batches : x.receipts \in Seq(Receipt)
    BY DEF ReceiptsInv
  <2>2. receipts_seen \in SUBSET Job
    BY DEF ReceiptsInv
  <2> QED BY <1>3, <1>4, <2>1, <2>2, BlockTyped DEF Batches
<1>6. blocks \in Seq(Seq(Batches)) /\ b.entries \in Seq(Batches) /\ blocks' = Append(blocks, b.entries)
  BY <1>1, <1>4, <1>5 DEF ReceiptsInv
<1>7. /\ blocks' \in Seq(Seq(Batches)) /\ Len(blocks') = Len(blocks) + 1
      /\ \A h \in 1..Len(blocks) : blocks'[h] = blocks[h]
  BY <1>6, AppendProperties
<1>8. DOMAIN blocks = 1..Len(blocks) /\ DOMAIN blocks' = 1..Len(blocks') /\ Len(blocks) \in Nat
  BY <1>6, <1>7, LenProperties
<1>9. receipts_seen' \in SUBSET Job /\ blocks' \in Seq(Seq(Batches'))
  <2>1. Batches' = Batches
    BY <1>2 DEF Batches
  <2> QED BY <1>1, <1>4, <1>5, <1>7, <2>1
<1>10. ReceiptsInv'
  BY <1>2, <1>9 DEF ReceiptsInv
<1> QED BY <1>7, <1>8, <1>10

\* Blocks stay as they are.
BlocksStay == \A h \in DOMAIN blocks : h \in DOMAIN blocks' /\ blocks'[h] = blocks[h]

\* So a dispute that holds goes on to hold.
LEMMA DisputesStay ==
  ASSUME BlocksStay, DisputesHold, Submitted, UNCHANGED disputes
  PROVE  DisputesHold' /\ Submitted'
<1>1. Submitted'
  BY DEF Submitted
<1>2. ASSUME NEW d \in ToSet(disputes)
      PROVE  /\ d.reexec # d.claimed /\ d.reexec = Last(d.chain) /\ Head(d.chain) = Seed(d.job)
             /\ \E h \in DOMAIN blocks' :
                  /\ VerifySelection(Key, d.job, h, d.vrf_proof)
                  /\ \E r \in ToSet(ReceiptsIn(blocks'[h])) : r.job = d.job /\ r.output = d.claimed
  <2>1. /\ d.reexec # d.claimed /\ d.reexec = Last(d.chain) /\ Head(d.chain) = Seed(d.job)
        /\ \E h \in DOMAIN blocks :
             /\ VerifySelection(Key, d.job, h, d.vrf_proof)
             /\ \E r \in ToSet(ReceiptsIn(blocks[h])) : r.job = d.job /\ r.output = d.claimed
    BY DEF DisputesHold, ReceiptsOf
  <2>2. PICK h \in DOMAIN blocks :
          /\ VerifySelection(Key, d.job, h, d.vrf_proof)
          /\ \E r \in ToSet(ReceiptsIn(blocks[h])) : r.job = d.job /\ r.output = d.claimed
    BY <2>1
  <2>3. h \in DOMAIN blocks' /\ blocks'[h] = blocks[h]
    BY DEF BlocksStay
  <2> QED BY <2>1, <2>2, <2>3
<1>3. DisputesHold'
  BY <1>2 DEF DisputesHold, ReceiptsOf
<1> QED BY <1>1, <1>3

\* A batch is made.
LEMMA CollectKeeps == ASSUME DisputeInv, Collect, UNCHANGED verifierVars PROVE DisputeInv'
<1>1. ReceiptsInv' /\ blocks' = blocks
  BY CollectTyped DEF DisputeInv
<1>2. /\ loop' = loop /\ block_events' = block_events /\ block_hash' = block_hash /\ todo' = todo
      /\ under_way' = under_way /\ disputes' = disputes
  BY DEF verifierVars
<1>3. Scanning'
  BY <1>1, <1>2 DEF DisputeInv, Scanning, ReceiptsOf
<1>4. RunSelected'
  BY <1>1, <1>2 DEF DisputeInv, RunSelected, Runs, ReceiptsOf
<1>5. DisputesHold' /\ Submitted'
  BY <1>1, <1>2, DisputesStay DEF DisputeInv, BlocksStay
<1> QED BY <1>1, <1>3, <1>4, <1>5 DEF DisputeInv

\* A block is finalized: the scan under way goes on over the same receipts.
LEMMA FinalizeKeeps == ASSUME DisputeInv, Finalize PROVE DisputeInv'
<1>1. /\ loop' = loop /\ block_hash' = block_hash /\ todo' = todo
      /\ under_way' = under_way /\ disputes' = disputes
  BY DEF Finalize
<1>2. ReceiptsInv' /\ Len(blocks') = Len(blocks) + 1 /\ BlocksStay
  BY BlockAdded DEF Finalize, DisputeInv, BlocksStay
<1>3. Len(blocks') \in DOMAIN blocks' /\ DOMAIN blocks \subseteq DOMAIN blocks'
  <2>1. blocks \in Seq(Seq(Batches)) /\ blocks' \in Seq(Seq(Batches'))
    BY <1>2 DEF ReceiptsInv, DisputeInv
  <2>2. Len(blocks) \in Nat /\ DOMAIN blocks = 1..Len(blocks) /\ DOMAIN blocks' = 1..Len(blocks')
    BY <2>1, LenProperties
  <2> QED BY <1>2, <2>2
<1>4. block_events' \in Seq(DOMAIN blocks')
  <2>1. PICK D : D = DOMAIN blocks'
    OBVIOUS
  <2>2. PICK h : h = Len(blocks')
    OBVIOUS
  <2>3. block_events \in Seq(D) /\ h \in D
    <3>1. block_events \in Seq(DOMAIN blocks)
      BY DEF DisputeInv, Scanning
    <3> QED BY <1>3, <2>1, <2>2, <3>1, SeqMonotonic
  <2>4. \/ block_events' = block_events
        \/ block_events' = Append(block_events, h)
        \/ ~(Len(block_events) < BLOCK_EVENT_CAPACITY) /\ block_events' = Append(Tail(block_events), h)
    BY <2>2 DEF Finalize, Deliver
  <2>5. Len(block_events) >= BLOCK_EVENT_CAPACITY => Tail(block_events) \in Seq(D)
    <3>1. Len(block_events) >= BLOCK_EVENT_CAPACITY => block_events # <<>>
      BY <2>3, EmptySeq, VerificationAssumption
    <3> QED BY <2>3, <3>1, HeadTailProperties
  <2>6. BLOCK_EVENT_CAPACITY \in Nat /\ Len(block_events) \in Nat
    BY <2>3, LenProperties, VerificationAssumption
  <2>7. Append(block_events, h) \in Seq(D)
    BY <2>3, AppendProperties
  <2>8. ~(Len(block_events) < BLOCK_EVENT_CAPACITY) => Append(Tail(block_events), h) \in Seq(D)
    BY <2>3, <2>5, <2>6, AppendProperties
  <2> QED BY <2>1, <2>3, <2>4, <2>7, <2>8
<1>5. loop = "scanning" => block_hash \in DOMAIN blocks /\ ReceiptsOf(block_hash)' = ReceiptsOf(block_hash)
  BY <1>1, <1>2 DEF DisputeInv, Scanning, BlocksStay, ReceiptsOf
<1>6. Scanning'
  BY <1>1, <1>3, <1>4, <1>5 DEF DisputeInv, Scanning
<1>7. RunSelected'
  <2> SUFFICES ASSUME under_way # <<>>
               PROVE  \E r, proof : under_way' = <<r, proof>> /\ Runs(r, proof)'
    BY <1>1 DEF RunSelected
  <2>1. PICK r, proof : under_way = <<r, proof>> /\ Runs(r, proof)
    BY DEF DisputeInv, RunSelected
  <2> QED BY <1>1, <1>5, <2>1 DEF Runs
<1>8. DisputesHold' /\ Submitted'
  BY <1>1, <1>2, DisputesStay DEF DisputeInv
<1> QED BY <1>2, <1>6, <1>7, <1>8 DEF DisputeInv

\* What the verifier's own steps leave alone.
LEMMA ChainAlone ==
  ASSUME DisputeInv, UNCHANGED receiptVars
  PROVE  ReceiptsInv' /\ blocks' = blocks /\ \A h : ReceiptsOf(h)' = ReceiptsOf(h)
<1>1. blocks' = blocks
  BY DEF receiptVars
<1> QED BY <1>1 DEF DisputeInv, ReceiptsInv, Batches, receiptVars, ReceiptsOf

\* The loop waits for a block.
LEMMA SubscribeKeeps == ASSUME DisputeInv, Subscribe PROVE DisputeInv'
<1>1. ReceiptsInv' /\ blocks' = blocks
  BY ChainAlone DEF Subscribe
<1>2. loop = "between" /\ loop' = "waiting" /\ block_events' = <<>> /\ under_way' = under_way /\ disputes' = disputes
  BY DEF Subscribe
<1>3. Scanning'
  BY <1>2 DEF Scanning
<1>4. RunSelected'
  BY <1>2 DEF DisputeInv, RunSelected, Runs
<1>5. DisputesHold' /\ Submitted'
  BY <1>1, <1>2, DisputesStay DEF DisputeInv, BlocksStay
<1> QED BY <1>1, <1>3, <1>4, <1>5 DEF DisputeInv

\* It takes one, with all its receipts.
LEMMA ReceiveKeeps == ASSUME DisputeInv, NextFinalizedBlock PROVE DisputeInv'
<1>1. ReceiptsInv' /\ blocks' = blocks
  BY ChainAlone DEF NextFinalizedBlock
<1>2. loop = "waiting" /\ block_events # <<>> /\ block_events' = <<>> /\ under_way' = under_way /\ disputes' = disputes
  BY DEF NextFinalizedBlock
<1>3. under_way = <<>>
  BY <1>2 DEF DisputeInv, RunSelected, Runs
<1>4. RunSelected'
  BY <1>2, <1>3 DEF RunSelected
<1>5. DisputesHold' /\ Submitted'
  BY <1>1, <1>2, DisputesStay DEF DisputeInv, BlocksStay
<1>6. Scanning'
  <2>1. CASE lagged
    <3>1. loop' = "between"
      BY <2>1 DEF NextFinalizedBlock
    <3> QED BY <1>2, <3>1 DEF Scanning
  <2>2. CASE ~lagged
    <3>1. PICK h : h = Head(block_events)
      OBVIOUS
    <3>2. h \in DOMAIN blocks
      BY <1>2, <3>1, HeadTailProperties DEF DisputeInv, Scanning
    <3>3. block_hash' = h /\ todo' = ReceiptsOf(h)
      BY <2>2, <3>1 DEF NextFinalizedBlock, HashFor
    <3>4. ReceiptsOf(h) \in Seq(Receipt)
      <4>1. PICK entries : entries = blocks[h]
        OBVIOUS
      <4>2. entries \in Seq(Batches)
        BY <3>2, <4>1, ElementOfSeq, LenProperties DEF DisputeInv, ReceiptsInv
      <4>3. ReceiptsIn(entries) \in Seq(Receipt)
        BY <4>2, ReceiptsTyped DEF DisputeInv, ReceiptsInv, Batches
      <4> QED BY <4>1, <4>3 DEF ReceiptsOf
    <3>5. ReceiptsOf(h) \in Seq(ToSet(ReceiptsOf(h)))
      BY <3>4, SeqOfRange DEF ToSet, Range
    <3>6. ReceiptsOf(block_hash)' = ReceiptsOf(h)
      BY <1>1, <3>3 DEF ReceiptsOf
    <3> QED BY <1>1, <1>2, <3>2, <3>3, <3>5, <3>6 DEF Scanning
  <2> QED BY <2>1, <2>2
<1> QED BY <1>1, <1>4, <1>5, <1>6 DEF DisputeInv

\* What is left of a block's receipts is still its own.
LEMMA RestOf == ASSUME NEW S, NEW s \in Seq(S), s # <<>> PROVE Head(s) \in S /\ Rest(s) \in Seq(S)
  BY HeadTailProperties DEF Rest

\* It looks at a receipt.
LEMMA ExamineKeeps == ASSUME DisputeInv, Examine PROVE DisputeInv'
<1>1. ReceiptsInv' /\ blocks' = blocks
  BY ChainAlone DEF Examine
<1>2. /\ loop = "scanning" /\ todo # <<>> /\ under_way = <<>>
      /\ loop' = loop /\ block_events' = block_events /\ block_hash' = block_hash /\ disputes' = disputes
  BY DEF Examine
<1>3. PICK r, selection : r = Head(todo) /\ selection = Selection(r.job, block_hash)
  OBVIOUS
<1>4. IF selection.selected /\ r.proof = "HashChain"
      THEN under_way' = <<r, selection.proof>> /\ todo' = todo
      ELSE todo' = Rest(todo) /\ under_way' = under_way
  BY <1>3 DEF Examine
<1>5. PICK own : own = ToSet(ReceiptsOf(block_hash))
  OBVIOUS
<1>6. ToSet(ReceiptsOf(block_hash))' = own
  BY <1>1, <1>2, <1>5 DEF ReceiptsOf, ToSet
<1>7. todo \in Seq(own) /\ r \in own /\ Rest(todo) \in Seq(own)
  BY <1>2, <1>3, <1>5, RestOf DEF DisputeInv, Scanning
<1>8. Scanning'
  <2>1. todo' \in Seq(own)
    BY <1>4, <1>7
  <2> QED BY <1>1, <1>2, <1>6, <2>1 DEF DisputeInv, Scanning
<1>9. RunSelected'
  <2> SUFFICES ASSUME under_way' # <<>> PROVE \E q, proof : under_way' = <<q, proof>> /\ Runs(q, proof)'
    BY DEF RunSelected
  <2>1. selection.selected /\ under_way' = <<r, selection.proof>> /\ todo' = todo
    BY <1>2, <1>4
  <2>2. Runs(r, selection.proof)'
    BY <1>2, <1>3, <1>6, <1>7, <2>1 DEF Runs
  <2> QED BY <2>1, <2>2
<1>10. DisputesHold' /\ Submitted'
  BY <1>1, <1>2, DisputesStay DEF DisputeInv, BlocksStay
<1> QED BY <1>1, <1>8, <1>9, <1>10 DEF DisputeInv

\* A dispute over a receipt of a block that was selected holds.
LEMMA DisputeFounded ==
  ASSUME NEW h \in DOMAIN blocks, NEW r \in ToSet(ReceiptsOf(h)),
         Selection(r.job, h).selected, Diverged(r)
  PROVE  LET d == DisputeOf(r, h)
         IN /\ d.reexec # d.claimed /\ d.reexec = Last(d.chain) /\ Head(d.chain) = Seed(d.job)
            /\ \E g \in DOMAIN blocks :
                 /\ VerifySelection(Key, d.job, g, d.vrf_proof)
                 /\ \E q \in ToSet(ReceiptsOf(g)) : q.job = d.job /\ q.output = d.claimed
<1>1. PICK d : d = DisputeOf(r, h)
  OBVIOUS
<1>2. PICK chain : chain = RebuildHashChain(r.job, Reexecution[r])
  OBVIOUS
<1>3. /\ d.job = r.job /\ d.claimed = r.output /\ d.reexec = Last(chain) /\ d.chain = chain
      /\ d.vrf_proof = Selection(r.job, h).proof
  BY <1>1, <1>2 DEF DisputeOf, Dispute
<1>4. Last(chain) # r.output
  BY <1>2 DEF Diverged
<1>5. Head(chain) = Seed(r.job)
  BY <1>2 DEF RebuildHashChain
<1>6. VerifySelection(Key, r.job, h, d.vrf_proof)
  BY <1>3 DEF Selection, VerifySelection
<1> QED BY <1>1, <1>3, <1>4, <1>5, <1>6

\* A re-execution ends: a dispute is about the receipt that was selected.
LEMMA JudgeKeeps == ASSUME DisputeInv, Judge PROVE DisputeInv'
<1>1. ReceiptsInv' /\ blocks' = blocks /\ \A h : ReceiptsOf(h)' = ReceiptsOf(h)
  BY ChainAlone DEF Judge
<1>2. PICK r, proof : under_way = <<r, proof>> /\ Runs(r, proof)
  BY DEF DisputeInv, RunSelected, Judge
<1>3. /\ under_way' = <<>> /\ todo' = Rest(todo)
      /\ loop' = loop /\ block_events' = block_events /\ block_hash' = block_hash
      /\ disputes' = IF r \in DOMAIN Reexecution /\ Diverged(r) THEN Append(disputes, Dispute(r, proof)) ELSE disputes
  BY <1>2 DEF Judge
<1>4. PICK h : h = block_hash
  OBVIOUS
<1>5. /\ loop = "scanning" /\ todo # <<>> /\ h \in DOMAIN blocks /\ h \in Nat
      /\ todo \in Seq(ToSet(ReceiptsOf(h))) /\ r \in ToSet(ReceiptsOf(h))
      /\ proof = Selection(r.job, h).proof /\ Selection(r.job, h).selected
  <2>1. \A k \in DOMAIN blocks : k \in Nat
    BY LenProperties DEF DisputeInv, ReceiptsInv
  <2> QED BY <1>2, <1>4, <2>1 DEF DisputeInv, Scanning, Runs
<1>6. Scanning'
  <2>1. todo' \in Seq(ToSet(ReceiptsOf(h)))
    BY <1>3, <1>5, RestOf
  <2>2. ToSet(ReceiptsOf(block_hash))' = ToSet(ReceiptsOf(h))
    BY <1>1, <1>3, <1>4 DEF ReceiptsOf, ToSet
  <2> QED BY <1>1, <1>3, <1>4, <1>5, <2>1, <2>2 DEF DisputeInv, Scanning
<1>7. RunSelected'
  BY <1>3 DEF RunSelected
<1>8. Submitted' /\ DisputesHold'
  <2>1. CASE r \in DOMAIN Reexecution /\ Diverged(r)
    <3>1. PICK d : d = DisputeOf(r, h)
      OBVIOUS
    <3>2. PICK all : all = {DisputeOf(p[1], p[2]) : p \in Receipt \X Nat}
      OBVIOUS
    <3>3. d \in all /\ disputes \in Seq(all) /\ disputes' = Append(disputes, d)
      <4>1. r \in Receipt
        BY <2>1, VerificationAssumption
      <4>2. d = DisputeOf(<<r, h>>[1], <<r, h>>[2]) /\ <<r, h>> \in Receipt \X Nat
        BY <1>5, <3>1, <4>1
      <4>3. d \in all
        BY <3>2, <4>2
      <4>4. disputes' = Append(disputes, d)
        BY <1>3, <1>5, <2>1, <3>1 DEF DisputeOf
      <4> QED BY <3>2, <4>3, <4>4 DEF DisputeInv, Submitted
    <3>4. Submitted'
      <4>1. disputes' \in Seq(all)
        BY <3>3, AppendProperties
      <4> QED BY <3>2, <4>1 DEF Submitted
    <3>5. \A e \in ToSet(disputes') : e \in ToSet(disputes) \/ e = d
      <4>1. Len(disputes) \in Nat /\ DOMAIN disputes = 1..Len(disputes)
        BY <3>3, LenProperties
      <4>2. /\ disputes' \in Seq(all) /\ Len(disputes') = Len(disputes) + 1 /\ disputes'[Len(disputes) + 1] = d
            /\ \A i \in 1..Len(disputes) : disputes'[i] = disputes[i]
        BY <3>3, AppendProperties
      <4>3. DOMAIN disputes' = 1..(Len(disputes) + 1)
        BY <4>2, LenProperties
      <4> QED BY <4>1, <4>2, <4>3 DEF ToSet
    <3>6. ASSUME NEW e \in ToSet(disputes')
          PROVE  /\ e.reexec # e.claimed /\ e.reexec = Last(e.chain) /\ Head(e.chain) = Seed(e.job)
                 /\ \E g \in DOMAIN blocks :
                      /\ VerifySelection(Key, e.job, g, e.vrf_proof)
                      /\ \E q \in ToSet(ReceiptsOf(g)) : q.job = e.job /\ q.output = e.claimed
      <4>1. CASE e \in ToSet(disputes)
        BY <4>1 DEF DisputeInv, DisputesHold
      <4>2. CASE e = d
        BY <1>5, <2>1, <3>1, <4>2, DisputeFounded
      <4> QED BY <3>5, <4>1, <4>2
    <3>7. DisputesHold'
      BY <1>1, <3>6 DEF DisputesHold, ReceiptsOf
    <3> QED BY <3>4, <3>7
  <2>2. CASE ~(r \in DOMAIN Reexecution /\ Diverged(r))
    <3>1. disputes' = disputes
      BY <1>3, <2>2
    <3> QED BY <1>1, <3>1, DisputesStay DEF DisputeInv, BlocksStay
  <2> QED BY <2>1, <2>2
<1> QED BY <1>1, <1>6, <1>7, <1>8 DEF DisputeInv

\* The block is done with.
LEMMA BlockDoneKeeps == ASSUME DisputeInv, BlockDone PROVE DisputeInv'
<1>1. ReceiptsInv' /\ blocks' = blocks
  BY ChainAlone DEF BlockDone
<1>2. loop' = "between" /\ todo = <<>> /\ block_events' = block_events /\ under_way' = under_way /\ disputes' = disputes
  BY DEF BlockDone
<1>3. Scanning'
  BY <1>1, <1>2 DEF DisputeInv, Scanning
<1>4. RunSelected'
  BY <1>2 DEF DisputeInv, RunSelected, Runs
<1>5. DisputesHold' /\ Submitted'
  BY <1>1, <1>2, DisputesStay DEF DisputeInv, BlocksStay
<1> QED BY <1>1, <1>3, <1>4, <1>5 DEF DisputeInv

\* So does any step, and a stutter.
LEMMA DisputeStep == ASSUME DisputeInv, [VerificationNext]_verificationVars PROVE DisputeInv'
<1>1. CASE VerificationNext
  BY <1>1, CollectKeeps, FinalizeKeeps, SubscribeKeeps, ReceiveKeeps, ExamineKeeps, JudgeKeeps, BlockDoneKeeps
  DEF VerificationNext, VerifierStep
<1>2. CASE UNCHANGED verificationVars
  <2>1. /\ staged' = staged /\ batches' = batches /\ signed' = signed /\ blocks' = blocks /\ receipts_seen' = receipts_seen
        /\ loop' = loop /\ block_events' = block_events /\ block_hash' = block_hash /\ todo' = todo
        /\ under_way' = under_way /\ disputes' = disputes
    BY <1>2 DEF verificationVars, receiptVars, verifierVars
  <2>2. ReceiptsInv'
    BY <2>1 DEF DisputeInv, ReceiptsInv, Batches
  <2>3. Scanning'
    BY <2>1 DEF DisputeInv, Scanning, ReceiptsOf
  <2>4. RunSelected'
    BY <2>1 DEF DisputeInv, RunSelected, Runs, ReceiptsOf
  <2>5. DisputesHold' /\ Submitted'
    BY <2>1, DisputesStay DEF DisputeInv, BlocksStay
  <2> QED BY <2>2, <2>3, <2>4, <2>5 DEF DisputeInv
<1> QED BY <1>1, <1>2

\* Whatever the batches, the blocks and the outputs under the threshold, and
\* however the broadcast loses blocks: what the verifier submits (handle_block,
\* build_dispute) is a dispute of a receipt that some finalized block carries, for
\* which its selection verifies, with a hash chain of that job that ends
\* elsewhere.
THEOREM DisputesAreFounded == VerificationSpec => []DisputesHold
<1>1. VerificationSpec => []DisputeInv
  BY DisputeStarts, DisputeStep, PTL DEF VerificationSpec
<1>2. DisputeInv => DisputesHold
  BY DEF DisputeInv
<1> QED BY <1>1, <1>2, PTL

=============================================================================
