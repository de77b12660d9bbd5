---------------------------- MODULE FoldTheorems ----------------------------
(***************************************************************************)
(* Folds over finite sets, and sums in particular.  The community modules  *)
(* define them by a recursive function on the subsets of a set; here that  *)
(* function is shown to exist, and what it computes is derived for every   *)
(* finite set.  Induction is over a set of sets, with the finite subsets   *)
(* well-founded under inclusion.  A fold over a sequence passes through a  *)
(* value after each of its elements.                                       *)
(***************************************************************************)
EXTENDS Integers, Functions, FiniteSetTheorems, WellFoundedInduction, TLAPS

\* A nonempty set of subsets of a finite set has a minimal one.
LEMMA SmallestSubset ==
  ASSUME NEW S, IsFiniteSet(S), NEW T, T \subseteq SUBSET S, T # {}
  PROVE  \E s \in T : \A t \in T : t \subseteq s => t = s
<1>1. IsWellFoundedOn(StrictSubsetOrdering(S), FiniteSubsetsOf(S))
  BY FS_StrictSubsetOrderingWellFounded
<1>2. T \subseteq FiniteSubsetsOf(S)
  BY FS_FiniteSubsetsOfFinite
<1>3. PICK s \in T : \A t \in T : ~(<<t, s>> \in StrictSubsetOrdering(S))
  BY <1>1, <1>2, WFMin
<1>4. \A t \in T : t \subseteq s => t = s
  BY <1>3 DEF StrictSubsetOrdering
<1> QED BY <1>4

\* A set of sets that holds the empty set and grows by any element of S holds S.
LEMMA SetInduction ==
  ASSUME NEW S, IsFiniteSet(S), NEW P, {} \in P,
         \A s \in SUBSET S : \A x \in S \ s : s \in P => s \cup {x} \in P
  PROVE  S \in P
<1> SUFFICES ASSUME S \notin P PROVE FALSE
  OBVIOUS
<1> DEFINE T == {s \in SUBSET S : s \notin P}
<1>1. PICK s \in T : \A t \in T : t \subseteq s => t = s
  <2>1. T \subseteq SUBSET S /\ T # {}
    OBVIOUS
  <2> HIDE DEF T
  <2> QED BY <2>1, SmallestSubset
<1>2. PICK x \in s : TRUE
  BY <1>1
<1>3. s \ {x} \in P /\ (s \ {x}) \cup {x} = s
  BY <1>1, <1>2
<1> QED BY <1>1, <1>2, <1>3

-----------------------------------------------------------------------------
(* Folds *)

\* g is the fold of F from base over the subsets of S, each taken apart at
\* the element c names.
Folds(g, F, base, c, S) ==
  g = [s \in SUBSET S |-> IF s = {} THEN base ELSE F[<<c[s], g[s \ {c[s]}]>>]]

Chooses(c, S) == \A s \in SUBSET S : s # {} => c[s] \in s

\* The folds over a set and over a subset of it agree.
LEMMA FoldsAgree ==
  ASSUME NEW S, IsFiniteSet(S), NEW c, Chooses(c, S), NEW F, NEW base, NEW R \in SUBSET S,
         NEW g, Folds(g, F, base, c, S), NEW h, Folds(h, F, base, c, R)
  PROVE  \A t \in SUBSET R : g[t] = h[t]
<1> SUFFICES ASSUME NEW u \in SUBSET R, g[u] # h[u] PROVE FALSE
  OBVIOUS
<1> DEFINE T == {t \in SUBSET R : g[t] # h[t]}
<1>1. PICK s \in T : \A t \in T : t \subseteq s => t = s
  <2>1. T \subseteq SUBSET S /\ T # {}
    OBVIOUS
  <2> HIDE DEF T
  <2> QED BY <2>1, SmallestSubset
<1>2. g[s] = IF s = {} THEN base ELSE F[<<c[s], g[s \ {c[s]}]>>]
  BY DEF Folds
<1>3. h[s] = IF s = {} THEN base ELSE F[<<c[s], h[s \ {c[s]}]>>]
  BY DEF Folds
<1>4. s # {} => g[s \ {c[s]}] = h[s \ {c[s]}]
  BY <1>1 DEF Chooses
<1> QED BY <1>1, <1>2, <1>3, <1>4

\* A fold over a finite set exists, for any order of taking its elements.
LEMMA FoldExists ==
  ASSUME NEW S, IsFiniteSet(S), NEW c, Chooses(c, S), NEW F, NEW base
  PROVE  \E g : Folds(g, F, base, c, S)
<1> SUFFICES ASSUME ~ \E g : Folds(g, F, base, c, S) PROVE FALSE
  OBVIOUS
<1> DEFINE T == {s \in SUBSET S : ~ \E g : Folds(g, F, base, c, s)}
           G(u) == CHOOSE g : Folds(g, F, base, c, u)
<1>1. PICK s \in T : \A t \in T : t \subseteq s => t = s
  <2>1. T \subseteq SUBSET S /\ T # {}
    OBVIOUS
  <2> HIDE DEF T
  <2> QED BY <2>1, SmallestSubset
<1>2. ASSUME NEW u \in SUBSET s, u # s PROVE Folds(G(u), F, base, c, u)
  <2>1. \E g : Folds(g, F, base, c, u)
    BY <1>1, <1>2
  <2> QED BY <2>1
<1> DEFINE H == [t \in SUBSET s |-> IF t = {} THEN base
                                    ELSE F[<<c[t], G(t \ {c[t]})[t \ {c[t]}]>>]]
<1>3. ASSUME NEW u \in SUBSET s, u # s PROVE H[u] = G(u)[u]
  <2>1. G(u)[u] = IF u = {} THEN base ELSE F[<<c[u], G(u)[u \ {c[u]}]>>]
    <3> DEFINE g == G(u)
    <3>1. Folds(g, F, base, c, u)
      BY <1>2, <1>3
    <3> HIDE DEF g
    <3>2. g[u] = IF u = {} THEN base ELSE F[<<c[u], g[u \ {c[u]}]>>]
      BY <3>1 DEF Folds
    <3> QED BY <3>2 DEF g
  <2>2. CASE u # {}
    <3> DEFINE v == u \ {c[u]}
    <3>1. v \in SUBSET u /\ v # s /\ v \in SUBSET s
      BY <1>3, <2>2
    <3>2. IsFiniteSet(u) /\ Chooses(c, u)
      BY <1>1, FS_Subset DEF Chooses
    <3>3. Folds(G(u), F, base, c, u) /\ Folds(G(v), F, base, c, v)
      BY <1>2, <1>3, <3>1
    <3> HIDE DEF G, v
    <3>4. G(u)[v] = G(v)[v]
      BY <3>1, <3>2, <3>3, FoldsAgree
    <3> QED BY <2>1, <2>2, <3>4 DEF v
  <2> QED BY <2>1, <2>2
<1>4. Folds(H, F, base, c, s)
  <2>1. ASSUME NEW t \in SUBSET s, t # {} PROVE H[t \ {c[t]}] = G(t \ {c[t]})[t \ {c[t]}]
    <3>1. c[t] \in t
      BY <1>1, <2>1 DEF Chooses
    <3> QED BY <1>3, <3>1
  <2> HIDE DEF G
  <2>2. H = [t \in SUBSET s |-> IF t = {} THEN base ELSE F[<<c[t], H[t \ {c[t]}]>>]]
    BY <2>1
  <2> HIDE DEF H
  <2> QED BY <2>2 DEF Folds
<1> QED BY <1>1, <1>4

\* The values of a fold are those of its step and its base.
LEMMA FoldType ==
  ASSUME NEW S, IsFiniteSet(S), NEW c, Chooses(c, S), NEW F, NEW V, NEW base \in V,
         \A x \in S, v \in V : F[<<x, v>>] \in V,
         NEW g, Folds(g, F, base, c, S)
  PROVE  g \in [SUBSET S -> V]
<1> SUFFICES ASSUME NEW u \in SUBSET S, g[u] \notin V PROVE FALSE
  BY DEF Folds
<1> DEFINE T == {t \in SUBSET S : g[t] \notin V}
<1>1. PICK s \in T : \A t \in T : t \subseteq s => t = s
  <2>1. T \subseteq SUBSET S /\ T # {}
    OBVIOUS
  <2> HIDE DEF T
  <2> QED BY <2>1, SmallestSubset
<1>2. g[s] = IF s = {} THEN base ELSE F[<<c[s], g[s \ {c[s]}]>>]
  BY DEF Folds
<1>3. s # {} => c[s] \in S /\ g[s \ {c[s]}] \in V
  BY <1>1 DEF Chooses
<1> QED BY <1>1, <1>2, <1>3

-----------------------------------------------------------------------------
(* Sets of numbers *)

\* A nonempty finite set of integers has a largest member.
LEMMA LargestMember ==
  ASSUME NEW S \in SUBSET Int, IsFiniteSet(S), S # {}
  PROVE  \E x \in S : \A y \in S : y <= x
<1> DEFINE P == {s \in SUBSET S : s # {} => \E x \in s : \A y \in s : y <= x}
<1>1. {} \in P
  OBVIOUS
<1>2. ASSUME NEW s \in SUBSET S, NEW x \in S \ s, s \in P PROVE s \cup {x} \in P
  <2>1. CASE s = {}
    BY <2>1
  <2>2. CASE s # {}
    <3>1. PICK m \in s : \A y \in s : y <= m
      BY <1>2, <2>2
    <3>2. \A y \in s \cup {x} : y <= (IF x <= m THEN m ELSE x)
      BY <3>1
    <3> QED BY <3>1, <3>2
  <2> QED BY <2>1, <2>2
<1> HIDE DEF P
<1>3. S \in P
  BY <1>1, <1>2, SetInduction
<1> QED BY <1>3 DEF P

\* A nonempty finite set of integers has a smallest member.
LEMMA SmallestMember ==
  ASSUME NEW S \in SUBSET Int, IsFiniteSet(S), S # {}
  PROVE  \E x \in S : \A y \in S : x <= y
<1> DEFINE P == {s \in SUBSET S : s # {} => \E x \in s : \A y \in s : x <= y}
<1>1. {} \in P
  OBVIOUS
<1>2. ASSUME NEW s \in SUBSET S, NEW x \in S \ s, s \in P PROVE s \cup {x} \in P
  <2>1. CASE s = {}
    BY <2>1
  <2>2. CASE s # {}
    <3>1. PICK m \in s : \A y \in s : m <= y
      BY <1>2, <2>2
    <3>2. \A y \in s \cup {x} : (IF m <= x THEN m ELSE x) <= y
      BY <3>1
    <3> QED BY <3>1, <3>2
  <2> QED BY <2>1, <2>2
<1> HIDE DEF P
<1>3. S \in P
  BY <1>1, <1>2, SetInduction
<1> QED BY <1>3 DEF P

\* The members of a set of integers can be listed in ascending order.
Ascends(S) ==
  \E f \in [1..Cardinality(S) -> S] : \A i, j \in 1..Cardinality(S) : i < j => f[i] < f[j]

\* The largest member comes last.
LEMMA AscendsWith ==
  ASSUME NEW S, S \subseteq Int, IsFiniteSet(S), NEW m \in S, \A y \in S : y <= m, Ascends(S \ {m})
  PROVE  Ascends(S)
<1> DEFINE R == S \ {m}
           n == Cardinality(S)
<1>1. n = Cardinality(R) + 1 /\ Cardinality(R) \in Nat
  <2>1. IsFiniteSet(R) /\ Cardinality(R) = n - 1
    BY FS_RemoveElement
  <2> QED BY <2>1, FS_CardinalityType
<1>2. PICK f \in [1..Cardinality(R) -> R] : \A i, j \in 1..Cardinality(R) : i < j => f[i] < f[j]
  BY DEF Ascends
<1>3. \A y \in R : y \in S /\ y \in Int /\ y < m
  OBVIOUS
<1> DEFINE g == [i \in 1..n |-> IF i = n THEN m ELSE f[i]]
<1> HIDE DEF n, R
<1>4. \A i \in 1..n : i # n => i \in 1..Cardinality(R)
  BY <1>1
<1>5. g \in [1..n -> S]
  BY <1>2, <1>3, <1>4
<1>6. ASSUME NEW i \in 1..n, NEW j \in 1..n, i < j PROVE g[i] < g[j]
  <2>1. i # n /\ i \in 1..Cardinality(R) /\ f[i] \in R
    BY <1>1, <1>2, <1>4, <1>6
  <2> QED BY <1>2, <1>3, <1>4, <1>6, <2>1
<1> HIDE DEF g
<1>7. \E h \in [1..n -> S] : \A i, j \in 1..n : i < j => h[i] < h[j]
  BY <1>5, <1>6
<1> QED BY <1>7 DEF Ascends, n

AreInts(S) == S \subseteq Int

\* A finite set of integers can be listed in ascending order.
LEMMA AscendingExists ==
  ASSUME NEW S, IsFiniteSet(S), AreInts(S)
  PROVE  Ascends(S)
<1> DEFINE T == {s \in SUBSET S : ~Ascends(s)}
<1> SUFFICES ASSUME T # {} PROVE FALSE
  OBVIOUS
<1>1. PICK s \in T : \A t \in T : t \subseteq s => t = s
  <2>1. T \subseteq SUBSET S /\ T # {}
    OBVIOUS
  <2> HIDE DEF T
  <2> QED BY <2>1, SmallestSubset
<1>2. IsFiniteSet(s) /\ s \subseteq Int
  BY <1>1, FS_Subset DEF AreInts
<1>3. CASE s = {}
  <2>1. Cardinality(s) = 0
    BY <1>3, FS_EmptySet
  <2>2. [i \in 1..0 |-> i] \in [1..0 -> s]
    OBVIOUS
  <2> QED BY <1>1, <2>1, <2>2 DEF Ascends
<1>4. CASE s # {}
  <2>1. PICK m \in s : \A y \in s : y <= m
    BY <1>2, <1>4, LargestMember
  <2>2. Ascends(s \ {m})
    BY <1>1, <2>1
  <2> QED BY <1>1, <1>2, <2>1, <2>2, AscendsWith
<1> QED BY <1>3, <1>4

\* An ascending list of a set's size lists all of it, each member once.
LEMMA ListsAll ==
  ASSUME NEW S, IsFiniteSet(S), AreInts(S), NEW f \in [1..Cardinality(S) -> S],
         \A i, j \in 1..Cardinality(S) : i < j => f[i] < f[j]
  PROVE  /\ \A i, j \in 1..Cardinality(S) : f[i] = f[j] => i = j
         /\ \A x \in S : \E i \in 1..Cardinality(S) : f[i] = x
<1> DEFINE n == Cardinality(S)
<1>1. n \in Nat
  BY FS_CardinalityType
<1>2. \A i, j \in 1..n : f[i] = f[j] => i = j
  <2>1. \A i \in 1..n : f[i] \in Int
    BY DEF AreInts
  <2> QED BY <2>1, <1>1
<1>3. f \in Injection(1..n, S)
  BY <1>2 DEF Injection, IsInjective
<1>4. Cardinality(1..n) = n
  BY <1>1, FS_Interval
<1>5. f \in Surjection(1..n, S)
  BY <1>3, <1>4, FS_Injection
<1> QED BY <1>2, <1>5 DEF Surjection

-----------------------------------------------------------------------------
(* Folds over sequences: over their positions, taken off at the end *)

\* A set of numbers that holds 0 and with each number the next one.
LEMMA NumbersUpTo ==
  ASSUME NEW n \in Nat, NEW P, 0 \in P, \A k \in 1..n : k - 1 \in P => k \in P
  PROVE  \A k \in 0..n : k \in P
<1> SUFFICES ASSUME NEW u \in 0..n, u \notin P PROVE FALSE
  OBVIOUS
<1> DEFINE T == {k \in 0..n : k \notin P}
<1>1. T \in SUBSET Int /\ IsFiniteSet(T) /\ T # {}
  <2>1. IsFiniteSet(0..n)
    BY FS_Interval
  <2> QED BY <2>1, FS_Subset
<1>2. PICK x \in T : \A y \in T : x <= y
  <2> HIDE DEF T
  <2> QED BY <1>1, SmallestMember
<1>3. x \in 1..n /\ x - 1 \in 0..n /\ ~(x <= x - 1)
  BY <1>2
<1>4. x - 1 \in P
  BY <1>2, <1>3
<1> QED BY <1>2, <1>3, <1>4

\* The last position of each set of positions.
LastOf(n) == [s \in SUBSET (1..n) |-> CHOOSE x \in s : \A y \in s : x >= y]

\* It is the set's largest, and k for the first k positions.
LEMMA LastIs ==
  ASSUME NEW n \in Nat
  PROVE  /\ \A s \in SUBSET (1..n) : s # {} => LastOf(n)[s] \in s /\ \A y \in s : LastOf(n)[s] >= y
         /\ \A k \in 1..n : LastOf(n)[1..k] = k /\ (1..k) \ {k} = 1..(k - 1) /\ 1..k \in SUBSET (1..n)
<1>1. ASSUME NEW s \in SUBSET (1..n), s # {}
      PROVE  LastOf(n)[s] \in s /\ \A y \in s : LastOf(n)[s] >= y
  <2>1. IsFiniteSet(s) /\ s \in SUBSET Int
    <3>1. IsFiniteSet(1..n) /\ s \subseteq 1..n /\ 1..n \subseteq Int
      BY FS_Interval
    <3>2. IsFiniteSet(s)
      BY <3>1, FS_Subset
    <3> QED BY <3>1, <3>2
  <2>2. PICK m \in s : \A y \in s : y <= m
    BY <1>1, <2>1, LargestMember
  <2>3. \A y \in s : m >= y
    BY <2>1, <2>2
  <2> QED BY <2>3 DEF LastOf
<1>2. ASSUME NEW k \in 1..n
      PROVE  LastOf(n)[1..k] = k /\ (1..k) \ {k} = 1..(k - 1) /\ 1..k \in SUBSET (1..n)
  <2>1. 1..k \in SUBSET (1..n) /\ k \in 1..k
    OBVIOUS
  <2>2. LastOf(n)[1..k] \in 1..k /\ LastOf(n)[1..k] >= k
    <3>1. 1..k # {}
      BY <2>1
    <3> QED BY <1>1, <2>1, <3>1
  <2>3. LastOf(n)[1..k] = k
    BY <2>2
  <2>4. (1..k) \ {k} = 1..(k - 1)
    OBVIOUS
  <2> QED BY <2>1, <2>3, <2>4
<1> QED BY <1>1, <1>2

\* A fold from the left over n positions, whose step is F on the values of V,
\* passes through the values a[0], ..., a[n], each the step from the one before.
Trace(a, F, base, n, V) ==
  /\ a \in [0..n -> V] /\ a[0] = base
  /\ \A k \in 1..n : a[k] = F[<<k, a[k - 1]>>]

\* iter folds the step F over positions, as long as its values are in V.
Unrolls(iter, F, base, n, V) ==
  /\ iter[{}] = base
  /\ \A s \in SUBSET (1..n) : s # {} /\ iter[s \ {LastOf(n)[s]}] \in V
       => iter[s] = F[<<LastOf(n)[s], iter[s \ {LastOf(n)[s]}]>>]

StaysIn(F, n, V) == \A x \in 1..n, v \in V : F[<<x, v>>] \in V

\* A fold from the left over n positions has a trace, which ends in its value.
LEMMA FoldTrace ==
  ASSUME NEW n \in Nat, NEW V, NEW base \in V, NEW F, StaysIn(F, n, V),
         NEW iter, Unrolls(iter, F, base, n, V)
  PROVE  \E a : Trace(a, F, base, n, V) /\ iter[1..n] = a[n]
<1> DEFINE a == [k \in 0..n |-> iter[1..k]]
           P == {k \in 0..n : iter[1..k] \in V}
<1>1. ASSUME NEW k \in 1..n, iter[1..(k - 1)] \in V
      PROVE  iter[1..k] = F[<<k, iter[1..(k - 1)]>>]
  <2>1. LastOf(n)[1..k] = k /\ (1..k) \ {k} = 1..(k - 1) /\ 1..k \in SUBSET (1..n) /\ 1..k # {}
    BY LastIs
  <2> HIDE DEF a, P
  <2> QED BY <1>1, <2>1 DEF Unrolls
<1>2. 1..0 = {} /\ iter[1..0] = base
  BY DEF Unrolls
<1>3. \A k \in 0..n : k \in P
  <2>1. 0 \in P
    BY <1>2
  <2>2. ASSUME NEW k \in 1..n, k - 1 \in P PROVE k \in P
    <3>1. iter[1..(k - 1)] \in V /\ k \in 0..n
      BY <2>2
    <3>2. iter[1..k] \in V
      BY <1>1, <3>1 DEF StaysIn
    <3> QED BY <3>1, <3>2
  <2> HIDE DEF P
  <2> QED BY <2>1, <2>2, NumbersUpTo
<1>4. a \in [0..n -> V]
  BY <1>3
<1>5. a[0] = base /\ a[n] = iter[1..n]
  BY <1>2
<1>6. ASSUME NEW k \in 1..n PROVE a[k] = F[<<k, a[k - 1]>>]
  <2>1. k - 1 \in 0..n /\ k \in 0..n
    OBVIOUS
  <2> QED BY <1>1, <1>3, <2>1
<1> HIDE DEF a
<1> QED BY <1>4, <1>5, <1>6 DEF Trace

-----------------------------------------------------------------------------
(* Sums *)

AnyOf(S) == [s \in SUBSET S |-> CHOOSE x \in s : TRUE]

Adding(f, S) == [p \in S \X Int |-> f[p[1]] + p[2]]

IsSum(g, f, S) ==
  /\ g \in [SUBSET S -> Int]
  /\ g[{}] = 0
  /\ \A s \in SUBSET S : s # {} => LET x == CHOOSE y \in s : TRUE IN g[s] = f[x] + g[s \ {x}]

\* What SumFunctionOnSet computes over a set and all its subsets.
LEMMA SumIs ==
  ASSUME NEW S, IsFiniteSet(S), NEW f, \A x \in S : f[x] \in Int
  PROVE  \E g : IsSum(g, f, S) /\ SumFunctionOnSet(f, S) = g[S]
<1> DEFINE c == AnyOf(S)
           F == Adding(f, S)
           Body(g, s) == IF s = {} THEN 0
                         ELSE LET x == CHOOSE y \in s : TRUE IN f[x] + g[s \ {x}]
           iter == CHOOSE g : g = [s \in SUBSET S |-> Body(g, s)]
<1>1. Chooses(c, S)
  BY DEF Chooses, AnyOf
<1>2. PICK g : Folds(g, F, 0, c, S)
  <2> HIDE DEF F, c
  <2> QED BY <1>1, FoldExists
<1>3. g \in [SUBSET S -> Int]
  <2>1. \A x \in S, v \in Int : F[<<x, v>>] \in Int
    BY DEF Adding
  <2>2. 0 \in Int
    OBVIOUS
  <2> HIDE DEF F, c
  <2> QED BY <1>1, <1>2, <2>1, <2>2, FoldType
<1>4. g = [s \in SUBSET S |-> Body(g, s)]
  <2>1. ASSUME NEW s \in SUBSET S PROVE g[s] = Body(g, s)
    <3>1. g[s] = IF s = {} THEN 0 ELSE F[<<c[s], g[s \ {c[s]}]>>]
      BY <1>2 DEF Folds
    <3>2. s # {} => c[s] \in S /\ c[s] = CHOOSE y \in s : TRUE
      BY <1>1 DEF Chooses, AnyOf
    <3>3. s # {} => F[<<c[s], g[s \ {c[s]}]>>] = f[c[s]] + g[s \ {c[s]}]
      BY <1>3, <3>2 DEF Adding
    <3> QED BY <3>1, <3>2, <3>3
  <2> QED BY <1>3, <2>1
<1>5. iter = [s \in SUBSET S |-> Body(iter, s)]
  BY <1>4
<1>6. SumFunctionOnSet(f, S) = iter[S]
  BY DEF SumFunctionOnSet, FoldFunctionOnSet, MapThenFoldSet
\* The recursion determines its values.
<1>7. \A s \in SUBSET S : iter[s] = g[s]
  <2> SUFFICES ASSUME NEW u \in SUBSET S, iter[u] # g[u] PROVE FALSE
    OBVIOUS
  <2> DEFINE T == {t \in SUBSET S : iter[t] # g[t]}
  <2> HIDE DEF iter
  <2>1. PICK s \in T : \A t \in T : t \subseteq s => t = s
    <3>1. T \subseteq SUBSET S /\ T # {}
      OBVIOUS
    <3> HIDE DEF T
    <3> QED BY <3>1, SmallestSubset
  <2>2. iter[s] = Body(iter, s) /\ g[s] = Body(g, s)
    <3> HIDE DEF Body
    <3> QED BY <1>4, <1>5
  <2>3. CASE s # {}
    <3> DEFINE x == CHOOSE y \in s : TRUE
    <3>1. x \in s
      BY <2>3
    <3>2. iter[s] = f[x] + iter[s \ {x}] /\ g[s] = f[x] + g[s \ {x}]
      BY <2>2, <2>3
    <3> HIDE DEF x
    <3>3. iter[s \ {x}] = g[s \ {x}]
      BY <2>1, <3>1
    <3> QED BY <2>1, <3>2, <3>3
  <2> QED BY <2>1, <2>2, <2>3
<1>8. IsSum(g, f, S)
  <2>1. g[{}] = 0
    BY <1>4
  <2>2. ASSUME NEW s \in SUBSET S, s # {}
        PROVE  LET x == CHOOSE y \in s : TRUE IN g[s] = f[x] + g[s \ {x}]
    BY <1>4, <2>2
  <2> QED BY <1>3, <2>1, <2>2 DEF IsSum
<1> HIDE DEF iter
<1> QED BY <1>6, <1>7, <1>8

\* Where two sums are about the same values they agree.
LEMMA SumsAgree ==
  ASSUME NEW S, IsFiniteSet(S), NEW R \in SUBSET S, NEW f, NEW h, \A x \in R : f[x] = h[x],
         NEW g, IsSum(g, f, S), NEW k, IsSum(k, h, R)
  PROVE  \A s \in SUBSET R : g[s] = k[s]
<1> SUFFICES ASSUME NEW u \in SUBSET R, g[u] # k[u] PROVE FALSE
  OBVIOUS
<1> DEFINE T == {t \in SUBSET R : g[t] # k[t]}
<1>1. PICK s \in T : \A t \in T : t \subseteq s => t = s
  <2>1. T \subseteq SUBSET S /\ T # {}
    OBVIOUS
  <2> HIDE DEF T
  <2> QED BY <2>1, SmallestSubset
<1>2. CASE s # {}
  <2> DEFINE x == CHOOSE y \in s : TRUE
  <2>1. x \in s
    BY <1>2
  <2>2. g[s] = f[x] + g[s \ {x}] /\ k[s] = h[x] + k[s \ {x}]
    BY <1>2 DEF IsSum
  <2> HIDE DEF x
  <2>3. g[s \ {x}] = k[s \ {x}] /\ f[x] = h[x]
    BY <1>1, <2>1
  <2> QED BY <1>1, <2>2, <2>3
<1> QED BY <1>1, <1>2 DEF IsSum

\* Any element may be taken out first.
LEMMA SumTakes ==
  ASSUME NEW S, IsFiniteSet(S), NEW f, \A x \in S : f[x] \in Int, NEW g, IsSum(g, f, S)
  PROVE  \A s \in SUBSET S : \A x \in s : g[s] = f[x] + g[s \ {x}]
<1> DEFINE T == {t \in SUBSET S : \E x \in t : g[t] # f[x] + g[t \ {x}]}
<1> SUFFICES ASSUME T # {} PROVE FALSE
  OBVIOUS
<1>1. PICK s \in T : \A t \in T : t \subseteq s => t = s
  <2>1. T \subseteq SUBSET S
    OBVIOUS
  <2> HIDE DEF T
  <2> QED BY <2>1, SmallestSubset
<1>2. PICK x \in s : g[s] # f[x] + g[s \ {x}]
  BY <1>1
<1> DEFINE y == CHOOSE z \in s : TRUE
<1>3. y \in s /\ g[s] = f[y] + g[s \ {y}]
  BY <1>1, <1>2 DEF IsSum
<1> HIDE DEF y
<1>4. x # y
  BY <1>2, <1>3
<1> DEFINE r == (s \ {x}) \ {y}
<1>5. g[s \ {y}] = f[x] + g[r] /\ g[s \ {x}] = f[y] + g[r]
  <2>1. s \ {y} \notin T /\ s \ {x} \notin T
    BY <1>1, <1>2, <1>3
  <2>2. x \in s \ {y} /\ y \in s \ {x} /\ (s \ {y}) \ {x} = r
    BY <1>2, <1>3, <1>4
  <2> QED BY <1>1, <2>1, <2>2
<1>6. f[x] \in Int /\ f[y] \in Int /\ g[r] \in Int
  BY <1>1, <1>2, <1>3 DEF IsSum
<1> HIDE DEF r
<1> QED BY <1>2, <1>3, <1>5, <1>6

-----------------------------------------------------------------------------
(* What the proofs use of sums *)

Sums(f, S) == IsFiniteSet(S) /\ \A x \in S : f[x] \in Int

\* A sum of integers over a finite set is an integer.
LEMMA SumInt ==
  ASSUME NEW S, NEW f, Sums(f, S)
  PROVE  SumFunctionOnSet(f, S) \in Int
<1>1. PICK g : IsSum(g, f, S) /\ SumFunctionOnSet(f, S) = g[S]
  BY SumIs DEF Sums
<1> QED BY <1>1 DEF IsSum

\* A sum over nothing is 0.
LEMMA SumEmpty == ASSUME NEW f PROVE SumFunctionOnSet(f, {}) = 0
<1>1. PICK g : IsSum(g, f, {}) /\ SumFunctionOnSet(f, {}) = g[{}]
  BY SumIs, FS_EmptySet
<1> QED BY <1>1 DEF IsSum

\* Functions that agree on a set have the same sum over it.
LEMMA SumSame ==
  ASSUME NEW S, NEW f, Sums(f, S), NEW h, \A x \in S : f[x] = h[x]
  PROVE  SumFunctionOnSet(f, S) = SumFunctionOnSet(h, S)
<1>1. PICK g : IsSum(g, f, S) /\ SumFunctionOnSet(f, S) = g[S]
  BY SumIs DEF Sums
<1>2. PICK k : IsSum(k, h, S) /\ SumFunctionOnSet(h, S) = k[S]
  BY SumIs DEF Sums
<1> QED BY <1>1, <1>2, SumsAgree DEF Sums

\* An element may be taken out of a sum.
LEMMA SumRemove ==
  ASSUME NEW S, NEW f, Sums(f, S), NEW x \in S
  PROVE  SumFunctionOnSet(f, S) = f[x] + SumFunctionOnSet(f, S \ {x})
<1>1. PICK g : IsSum(g, f, S) /\ SumFunctionOnSet(f, S) = g[S]
  BY SumIs DEF Sums
<1>2. IsFiniteSet(S \ {x})
  BY FS_Subset DEF Sums
<1>3. PICK k : IsSum(k, f, S \ {x}) /\ SumFunctionOnSet(f, S \ {x}) = k[S \ {x}]
  BY <1>2, SumIs DEF Sums
<1>4. g[S \ {x}] = k[S \ {x}]
  BY <1>1, <1>3, SumsAgree DEF Sums
<1>5. g[S] = f[x] + g[S \ {x}]
  BY <1>1, SumTakes DEF Sums
<1> QED BY <1>1, <1>3, <1>4, <1>5

\* Or put into one.
LEMMA SumAdd ==
  ASSUME NEW S, NEW f, Sums(f, S), NEW x, x \notin S, f[x] \in Int
  PROVE  /\ Sums(f, S \cup {x})
         /\ SumFunctionOnSet(f, S \cup {x}) = f[x] + SumFunctionOnSet(f, S)
<1>1. Sums(f, S \cup {x})
  BY FS_AddElement DEF Sums
<1>2. x \in S \cup {x} /\ (S \cup {x}) \ {x} = S
  OBVIOUS
<1> QED BY <1>1, <1>2, SumRemove

\* Larger terms, larger sum.
LEMMA SumLeq ==
  ASSUME NEW S, NEW f, Sums(f, S), NEW h, Sums(h, S), \A x \in S : f[x] <= h[x]
  PROVE  SumFunctionOnSet(f, S) <= SumFunctionOnSet(h, S)
<1> DEFINE P == {s \in SUBSET S : SumFunctionOnSet(f, s) <= SumFunctionOnSet(h, s)}
<1>1. {} \in P
  BY SumEmpty
<1>2. ASSUME NEW s \in SUBSET S, NEW x \in S \ s, s \in P PROVE s \cup {x} \in P
  <2>1. Sums(f, s) /\ Sums(h, s)
    BY FS_Subset DEF Sums
  <2>2. f[x] \in Int /\ h[x] \in Int /\ f[x] <= h[x]
    BY DEF Sums
  <2>3. /\ SumFunctionOnSet(f, s \cup {x}) = f[x] + SumFunctionOnSet(f, s)
        /\ SumFunctionOnSet(h, s \cup {x}) = h[x] + SumFunctionOnSet(h, s)
    BY <2>1, <2>2, SumAdd
  <2>4. SumFunctionOnSet(f, s) \in Int /\ SumFunctionOnSet(h, s) \in Int
    BY <2>1, SumInt
  <2> QED BY <1>2, <2>2, <2>3, <2>4
<1> HIDE DEF P
<1>3. S \in P
  BY <1>1, <1>2, SetInduction DEF Sums
<1> QED BY <1>3 DEF P

\* Sums over disjoint sets add up.
LEMMA SumUnion ==
  ASSUME NEW S, NEW R, NEW f, Sums(f, S), Sums(f, R), S \cap R = {}
  PROVE  /\ Sums(f, S \cup R)
         /\ SumFunctionOnSet(f, S \cup R) = SumFunctionOnSet(f, S) + SumFunctionOnSet(f, R)
<1> DEFINE P == {s \in SUBSET S :
                   SumFunctionOnSet(f, s \cup R) = SumFunctionOnSet(f, s) + SumFunctionOnSet(f, R)}
<1>1. SumFunctionOnSet(f, R) \in Int
  BY SumInt
<1>2. {} \in P
  <2>1. {} \cup R = R
    OBVIOUS
  <2> QED BY <1>1, <2>1, SumEmpty
<1>3. ASSUME NEW s \in SUBSET S, NEW x \in S \ s, s \in P PROVE s \cup {x} \in P
  <2>1. Sums(f, s) /\ Sums(f, s \cup R)
    BY FS_Subset, FS_Union DEF Sums
  <2>2. f[x] \in Int /\ x \notin s \cup R /\ (s \cup {x}) \cup R = (s \cup R) \cup {x}
    BY DEF Sums
  <2>3. /\ SumFunctionOnSet(f, s \cup {x}) = f[x] + SumFunctionOnSet(f, s)
        /\ SumFunctionOnSet(f, (s \cup R) \cup {x}) = f[x] + SumFunctionOnSet(f, s \cup R)
    BY <2>1, <2>2, SumAdd
  <2>4. SumFunctionOnSet(f, s) \in Int
    BY <2>1, SumInt
  <2>5. SumFunctionOnSet(f, (s \cup {x}) \cup R)
          = SumFunctionOnSet(f, s \cup {x}) + SumFunctionOnSet(f, R)
    <3>1. SumFunctionOnSet(f, s \cup R) = SumFunctionOnSet(f, s) + SumFunctionOnSet(f, R)
      BY <1>3
    <3>2. SumFunctionOnSet(f, (s \cup {x}) \cup R) = f[x] + SumFunctionOnSet(f, s \cup R)
      BY <2>2, <2>3
    <3> QED BY <1>1, <2>2, <2>3, <2>4, <3>1, <3>2
  <2> QED BY <2>5
<1> HIDE DEF P
<1>4. S \in P
  BY <1>2, <1>3, SetInduction DEF Sums
<1>5. Sums(f, S \cup R)
  BY FS_Union DEF Sums
<1> QED BY <1>4, <1>5 DEF P

\* The sum of two functions is the sum of their sums.
LEMMA SumPlus ==
  ASSUME NEW S, NEW f, Sums(f, S), NEW h, Sums(h, S), NEW k, \A x \in S : k[x] = f[x] + h[x]
  PROVE  SumFunctionOnSet(k, S) = SumFunctionOnSet(f, S) + SumFunctionOnSet(h, S)
<1> DEFINE P == {s \in SUBSET S :
                   SumFunctionOnSet(k, s) = SumFunctionOnSet(f, s) + SumFunctionOnSet(h, s)}
<1>1. {} \in P
  BY SumEmpty
<1>2. ASSUME NEW s \in SUBSET S, NEW x \in S \ s, s \in P PROVE s \cup {x} \in P
  <2>1. Sums(f, s) /\ Sums(h, s) /\ Sums(k, s)
    BY FS_Subset DEF Sums
  <2>2. f[x] \in Int /\ h[x] \in Int /\ k[x] = f[x] + h[x] /\ k[x] \in Int
    BY DEF Sums
  <2>3. /\ SumFunctionOnSet(f, s \cup {x}) = f[x] + SumFunctionOnSet(f, s)
        /\ SumFunctionOnSet(h, s \cup {x}) = h[x] + SumFunctionOnSet(h, s)
        /\ SumFunctionOnSet(k, s \cup {x}) = k[x] + SumFunctionOnSet(k, s)
    BY <2>1, <2>2, SumAdd
  <2>4. SumFunctionOnSet(f, s) \in Int /\ SumFunctionOnSet(h, s) \in Int
    BY <2>1, SumInt
  <2> QED BY <1>2, <2>2, <2>3, <2>4
<1> HIDE DEF P
<1>3. S \in P
  BY <1>1, <1>2, SetInduction DEF Sums
<1> QED BY <1>3 DEF P

\* A common factor comes out of a sum.
LEMMA SumScale ==
  ASSUME NEW S, NEW f, Sums(f, S), NEW c \in Int, NEW h, \A x \in S : h[x] = c * f[x]
  PROVE  SumFunctionOnSet(h, S) = c * SumFunctionOnSet(f, S)
<1> DEFINE P == {s \in SUBSET S : SumFunctionOnSet(h, s) = c * SumFunctionOnSet(f, s)}
<1>1. {} \in P
  BY SumEmpty
<1>2. ASSUME NEW s \in SUBSET S, NEW x \in S \ s, s \in P PROVE s \cup {x} \in P
  <2>1. Sums(f, s) /\ Sums(h, s) /\ f[x] \in Int /\ h[x] \in Int
    BY FS_Subset DEF Sums
  <2>2. /\ SumFunctionOnSet(f, s \cup {x}) = f[x] + SumFunctionOnSet(f, s)
        /\ SumFunctionOnSet(h, s \cup {x}) = h[x] + SumFunctionOnSet(h, s)
    BY <2>1, SumAdd
  <2>3. SumFunctionOnSet(f, s) \in Int
    BY <2>1, SumInt
  <2>4. c * (f[x] + SumFunctionOnSet(f, s)) = c * f[x] + c * SumFunctionOnSet(f, s)
    BY <2>1, <2>3
  <2> QED BY <1>2, <2>1, <2>2, <2>3, <2>4
<1> HIDE DEF P
<1>3. S \in P
  BY <1>1, <1>2, SetInduction DEF Sums
<1> QED BY <1>3 DEF P

\* Terms that are naturals: the sum is one, no term exceeds it, and a sum over
\* a subset is no larger.
LEMMA SumNat ==
  ASSUME NEW S, NEW f, IsFiniteSet(S), \A x \in S : f[x] \in Nat
  PROVE  /\ SumFunctionOnSet(f, S) \in Nat
         /\ \A x \in S : f[x] <= SumFunctionOnSet(f, S)
         /\ \A R \in SUBSET S : SumFunctionOnSet(f, R) <= SumFunctionOnSet(f, S)
<1> DEFINE P == {s \in SUBSET S : SumFunctionOnSet(f, s) \in Nat}
<1>1. {} \in P
  BY SumEmpty
<1>2. ASSUME NEW s \in SUBSET S, NEW x \in S \ s, s \in P PROVE s \cup {x} \in P
  <2>1. Sums(f, s) /\ f[x] \in Nat
    BY FS_Subset DEF Sums
  <2>2. SumFunctionOnSet(f, s \cup {x}) = f[x] + SumFunctionOnSet(f, s)
    BY <2>1, SumAdd
  <2> QED BY <1>2, <2>1, <2>2
<1>3. ASSUME NEW R \in SUBSET S PROVE SumFunctionOnSet(f, R) \in Nat
  <2> DEFINE PR == P \cap SUBSET R
  <2>1. IsFiniteSet(R)
    BY FS_Subset
  <2>2. {} \in PR /\ \A s \in SUBSET R : \A x \in R \ s : s \in PR => s \cup {x} \in PR
    BY <1>1, <1>2
  <2> HIDE DEF PR
  <2>3. R \in PR
    BY <2>1, <2>2, SetInduction
  <2> QED BY <2>3 DEF PR
<1> HIDE DEF P
<1>4. ASSUME NEW R \in SUBSET S
      PROVE  SumFunctionOnSet(f, S) = SumFunctionOnSet(f, R) + SumFunctionOnSet(f, S \ R)
  <2>1. Sums(f, R) /\ Sums(f, S \ R)
    BY FS_Subset DEF Sums
  <2>2. R \cap (S \ R) = {} /\ R \cup (S \ R) = S
    OBVIOUS
  <2> QED BY <2>1, <2>2, SumUnion
<1>5. ASSUME NEW R \in SUBSET S PROVE SumFunctionOnSet(f, R) <= SumFunctionOnSet(f, S)
  <2>1. SumFunctionOnSet(f, R) \in Nat /\ SumFunctionOnSet(f, S \ R) \in Nat
    BY <1>3
  <2> QED BY <1>4, <2>1
<1>6. ASSUME NEW x \in S PROVE f[x] <= SumFunctionOnSet(f, S)
  <2>1. Sums(f, S)
    BY DEF Sums
  <2>2. SumFunctionOnSet(f, S) = f[x] + SumFunctionOnSet(f, S \ {x})
    BY <2>1, SumRemove
  <2>3. SumFunctionOnSet(f, S \ {x}) \in Nat
    BY <1>3
  <2> QED BY <2>2, <2>3
<1> QED BY <1>3, <1>5, <1>6

\* The sum of a function of naturals over its domain.
LEMMA SumOfNats ==
  ASSUME NEW S, IsFiniteSet(S), NEW f \in [S -> Nat]
  PROVE  /\ SumFunction(f) = SumFunctionOnSet(f, S)
         /\ SumFunction(f) \in Nat
<1>1. SumFunction(f) = SumFunctionOnSet(f, S)
  BY DEF SumFunction, SumFunctionOnSet, FoldFunction
<1> QED BY <1>1, SumNat

=============================================================================
