----------------------------- MODULE NodeProofs -----------------------------
(***************************************************************************)
(* Proofs about Node.  A block is a chain of transactions, each at its     *)
(* account's next nonce, so what the builder proposes applies whole when   *)
(* it is committed; what is indexed has a nonce that is spent; and an      *)
(* entry of the index leads to a stored block that holds its transaction.  *)
(***************************************************************************)
EXTENDS Node, FoldTheorems, SequenceTheorems

-----------------------------------------------------------------------------
(* Applying transactions in order *)

Applied == [nonces : [Account -> Nat], txs : Seq(Tx)]

\* The nonces after a transaction.
After(at, tx) == [at EXCEPT ![tx.sender] = @ + 1]

\* What a transaction does to what has been applied before it.
ApplyTx(acc, tx) ==
  IF Turn(tx, acc.nonces)
  THEN [nonces |-> After(acc.nonces, tx), txs |-> Append(acc.txs, tx)]
  ELSE acc

\* Applying a sequence passes through a value after each transaction.
LEMMA ApplyPasses ==
  ASSUME NEW start, NEW txs \in Seq(Tx), NEW V, [nonces |-> start, txs |-> <<>>] \in V,
         \A acc \in V, tx \in Tx : ApplyTx(acc, tx) \in V
  PROVE  \E a \in [0..Len(txs) -> V] :
           /\ a[0] = [nonces |-> start, txs |-> <<>>]
           /\ \A k \in 1..Len(txs) : a[k] = ApplyTx(a[k - 1], txs[k])
           /\ Apply(start, txs) = a[Len(txs)]
<1> DEFINE n == Len(txs)
           S == DOMAIN txs
           base == [nonces |-> start, txs |-> <<>>]
           F == [p \in S \X V |-> ApplyTx(p[2], txs[p[1]])]
           Body(g, s) == IF s = {} THEN base
                         ELSE LET x == Max(s) IN ApplyTx(g[s \ {x}], txs[x])
           iter == CHOOSE g : g = [s \in SUBSET S |-> Body(g, s)]
<1>1. n \in Nat /\ S = 1..n /\ IsFiniteSet(S) /\ \A x \in S : txs[x] \in Tx
  <2>1. n \in Nat /\ S = 1..n
    OBVIOUS
  <2>2. \A x \in S : txs[x] \in Tx
    BY <2>1
  <2>3. IsFiniteSet(S)
    BY <2>1, FS_Interval
  <2> QED BY <2>1, <2>2, <2>3
<1>2. \A x \in S, v \in V : F[<<x, v>>] \in V /\ F[<<x, v>>] = ApplyTx(v, txs[x])
  BY <1>1
<1>3. base \in V
  OBVIOUS
<1>4. iter = [s \in SUBSET S |-> Body(iter, s)]
  <2> DEFINE c == LastOf(n)
  <2>1. \A s \in SUBSET S : s # {} => c[s] = Max(s) /\ c[s] \in s
    <3>1. \A s \in SUBSET (1..n) : s # {} => c[s] \in s
      BY <1>1, LastIs
    <3>2. \A s \in SUBSET (1..n) : c[s] = Max(s)
      BY DEF Max, LastOf
    <3> QED BY <1>1, <3>1, <3>2
  <2>2. Chooses(c, S)
    BY <2>1 DEF Chooses
  <2> HIDE DEF S, F, base, c, n
  <2>3. PICK g : Folds(g, F, base, c, S)
    BY <1>1, <2>2, FoldExists
  <2>4. g \in [SUBSET S -> V]
    BY <1>1, <1>2, <1>3, <2>2, <2>3, FoldType
  <2>5. ASSUME NEW s \in SUBSET S PROVE g[s] = Body(g, s)
    <3>1. g[s] = IF s = {} THEN base ELSE F[<<c[s], g[s \ {c[s]}]>>]
      BY <2>3 DEF Folds
    <3>2. CASE s # {}
      <4>1. c[s] = Max(s) /\ c[s] \in S /\ s \ {c[s]} \in SUBSET S
        BY <2>1, <3>2
      <4>2. F[<<c[s], g[s \ {c[s]}]>>] = ApplyTx(g[s \ {c[s]}], txs[c[s]])
        BY <1>2, <2>4, <4>1
      <4> QED BY <3>1, <3>2, <4>1, <4>2
    <3> QED BY <3>1, <3>2
  <2>6. g = [s \in SUBSET S |-> Body(g, s)]
    BY <2>4, <2>5
  <2> QED BY <2>6
<1>5. Apply(start, txs) = iter[S]
  BY DEF Apply, ApplyTx, After, FoldLeft, MapThenFoldSet
<1>6. iter[{}] = base
  BY <1>4
<1>7. ASSUME NEW s \in SUBSET (1..n), s # {}, iter[s \ {LastOf(n)[s]}] \in V
      PROVE  iter[s] = F[<<LastOf(n)[s], iter[s \ {LastOf(n)[s]}]>>]
  <2> HIDE DEF iter, F
  <2>1. iter[s] = ApplyTx(iter[s \ {Max(s)}], txs[Max(s)])
    BY <1>1, <1>4, <1>7
  <2>2. LastOf(n)[s] = Max(s) /\ LastOf(n)[s] \in S
    <3>1. LastOf(n)[s] \in s
      BY <1>1, <1>7, LastIs
    <3>2. LastOf(n)[s] = Max(s)
      BY DEF Max, LastOf
    <3> QED BY <1>1, <3>1, <3>2
  <2> QED BY <1>2, <1>7, <2>1, <2>2
<1>8. \E a : Trace(a, F, base, n, V) /\ iter[1..n] = a[n]
  <2>1. StaysIn(F, n, V)
    BY <1>1, <1>2 DEF StaysIn
  <2>2. Unrolls(iter, F, base, n, V)
    BY <1>6, <1>7 DEF Unrolls
  <2>3. n \in Nat
    BY <1>1
  <2> HIDE DEF iter, F, base, n
  <2> QED BY <1>3, <2>1, <2>2, <2>3, FoldTrace
<1>9. PICK a : Trace(a, F, base, n, V) /\ iter[1..n] = a[n]
  BY <1>8
<1>10. \A k \in 1..n : a[k] = ApplyTx(a[k - 1], txs[k])
  <2> SUFFICES ASSUME NEW k \in 1..n PROVE a[k] = ApplyTx(a[k - 1], txs[k])
    OBVIOUS
  <2> HIDE DEF F, base, n
  <2>1. a[k - 1] \in V /\ a[k] = F[<<k, a[k - 1]>>]
    <3>1. k - 1 \in 0..n
      BY <1>1
    <3> QED BY <1>9, <3>1 DEF Trace
  <2> QED BY <1>1, <1>2, <2>1
<1> HIDE DEF iter, F
<1> QED BY <1>1, <1>5, <1>9, <1>10 DEF Trace

-----------------------------------------------------------------------------
(* Chains: each transaction at its account's next nonce *)

\* n[i] are the nonces after the first i transactions, which all had their turn.
Chain(n, start, txs) ==
  /\ n \in [0..Len(txs) -> [Account -> Nat]] /\ n[0] = start
  /\ \A i \in 1..Len(txs) : /\ txs[i].nonce = n[i - 1][txs[i].sender]
                            /\ n[i] = After(n[i - 1], txs[i])

\* What a transaction's turn depends on.
LEMMA TxFields == \A tx \in Tx : tx.sender \in Account /\ tx.nonce \in Nat
BY NodeAssumption DEF Account

\* A chain goes on with a transaction whose turn it is.
LEMMA ChainGrows ==
  ASSUME NEW start, NEW txs \in Seq(Tx), NEW n, Chain(n, start, txs),
         NEW tx \in Tx, Turn(tx, n[Len(txs)])
  PROVE  \E m : Chain(m, start, Append(txs, tx)) /\ m[Len(txs) + 1] = After(n[Len(txs)], tx)
<1> DEFINE l == Len(txs)
           after == After(n[l], tx)
           m == [i \in 0..(l + 1) |-> IF i = l + 1 THEN after ELSE n[i]]
           all == Append(txs, tx)
<1>1. l \in Nat /\ Len(all) = l + 1 /\ all[l + 1] = tx /\ \A i \in 1..l : all[i] = txs[i]
  OBVIOUS
<1>2. n \in [0..l -> [Account -> Nat]] /\ n[0] = start
  BY DEF Chain
<1>3. after \in [Account -> Nat]
  <2>1. n[l] \in [Account -> Nat] /\ tx.sender \in Account
    BY <1>1, <1>2, TxFields
  <2> HIDE DEF l
  <2> QED BY <2>1 DEF After
<1> HIDE DEF after
<1>4. m \in [0..(l + 1) -> [Account -> Nat]] /\ m[0] = start /\ m[l + 1] = after
  <2> HIDE DEF l
  <2> QED BY <1>1, <1>2, <1>3
<1>5. ASSUME NEW i \in 1..(l + 1)
      PROVE  /\ all[i].nonce = m[i - 1][all[i].sender]
             /\ m[i] = After(m[i - 1], all[i])
  <2>1. CASE i = l + 1
    <3>1. m[i - 1] = n[l] /\ m[i] = after /\ all[i] = tx
      <4> HIDE DEF l, all
      <4> QED BY <1>1, <2>1
    <3> HIDE DEF m, all
    <3> QED BY <3>1 DEF Turn, after
  <2>2. CASE i # l + 1
    <3>1. i \in 1..l /\ m[i - 1] = n[i - 1] /\ m[i] = n[i] /\ all[i] = txs[i]
      <4> HIDE DEF l, all
      <4> QED BY <1>1, <2>2
    <3>2. /\ txs[i].nonce = n[i - 1][txs[i].sender]
          /\ n[i] = After(n[i - 1], txs[i])
      BY <3>1 DEF Chain
    <3> HIDE DEF m, all
    <3> QED BY <3>1, <3>2
  <2> QED BY <2>1, <2>2
<1>6. Chain(m, start, all)
  <2> HIDE DEF m, all, l
  <2> QED BY <1>1, <1>4, <1>5 DEF Chain
<1> HIDE DEF m
<1> QED BY <1>4, <1>6 DEF after

\* What Apply takes from a sequence is a chain, and ends in the chain's nonces.
LEMMA ApplyChains ==
  ASSUME NEW start \in [Account -> Nat], NEW txs \in Seq(Tx)
  PROVE  LET r == Apply(start, txs)
         IN r \in Applied /\ \E n : Chain(n, start, r.txs) /\ r.nonces = n[Len(r.txs)]
<1> DEFINE base == [nonces |-> start, txs |-> <<>>]
           V == {acc \in Applied : \E n : Chain(n, start, acc.txs) /\ acc.nonces = n[Len(acc.txs)]}
<1>1. base \in V
  <2>1. base \in Applied
    BY DEF Applied
  <2> DEFINE n == [i \in 0..0 |-> start]
  <2>2. Chain(n, start, <<>>) /\ n[0] = start
    BY DEF Chain
  <2> HIDE DEF n
  <2> QED BY <2>1, <2>2
<1>2. ASSUME NEW acc \in V, NEW tx \in Tx PROVE ApplyTx(acc, tx) \in V
  <2>1. CASE Turn(tx, acc.nonces)
    <3>1. acc.nonces \in [Account -> Nat] /\ acc.txs \in Seq(Tx)
      BY DEF Applied
    <3>2. PICK n : Chain(n, start, acc.txs) /\ acc.nonces = n[Len(acc.txs)]
      OBVIOUS
    <3> DEFINE after == After(acc.nonces, tx)
    <3>3. after \in [Account -> Nat] /\ Append(acc.txs, tx) \in Seq(Tx) /\ Len(Append(acc.txs, tx)) = Len(acc.txs) + 1
      BY <3>1, TxFields DEF After
    <3>4. \E m : Chain(m, start, Append(acc.txs, tx)) /\ m[Len(acc.txs) + 1] = after
      <4>1. Turn(tx, n[Len(acc.txs)]) /\ after = After(n[Len(acc.txs)], tx)
        BY <2>1, <3>2
      <4>2. PICK done : done = acc.txs
        OBVIOUS
      <4> HIDE DEF V, after, base
      <4>3. done \in Seq(Tx) /\ Chain(n, start, done) /\ Turn(tx, n[Len(done)])
        BY <3>1, <3>2, <4>1, <4>2
      <4>4. \E m : Chain(m, start, Append(done, tx)) /\ m[Len(done) + 1] = After(n[Len(done)], tx)
        BY <4>3, ChainGrows
      <4> QED BY <4>1, <4>2, <4>4
    <3>5. ApplyTx(acc, tx) = [nonces |-> after, txs |-> Append(acc.txs, tx)]
      BY <2>1 DEF ApplyTx
    <3> HIDE DEF after
    <3>6. ApplyTx(acc, tx) \in Applied
      BY <3>3, <3>5 DEF Applied
    <3>7. ApplyTx(acc, tx).txs = Append(acc.txs, tx) /\ ApplyTx(acc, tx).nonces = after
      BY <3>5
    <3>8. \E m : Chain(m, start, ApplyTx(acc, tx).txs) /\ ApplyTx(acc, tx).nonces = m[Len(ApplyTx(acc, tx).txs)]
      BY <3>3, <3>4, <3>7
    <3> QED BY <3>6, <3>8
  <2>2. CASE ~Turn(tx, acc.nonces)
    BY <2>2 DEF ApplyTx
  <2> QED BY <2>1, <2>2
<1> HIDE DEF V
<1>3. PICK a \in [0..Len(txs) -> V] : Apply(start, txs) = a[Len(txs)]
  BY <1>1, <1>2, ApplyPasses
<1>4. Apply(start, txs) \in V
  BY <1>3
<1> QED BY <1>4 DEF V

\* A chain applies whole.
LEMMA ChainApplies ==
  ASSUME NEW start \in [Account -> Nat], NEW txs \in Seq(Tx), NEW n, Chain(n, start, txs)
  PROVE  Apply(start, txs) = [nonces |-> n[Len(txs)], txs |-> txs]
<1> DEFINE base == [nonces |-> start, txs |-> <<>>]
           l == Len(txs)
<1>1. base \in Applied
  BY DEF Applied
<1>2. \A acc \in Applied, tx \in Tx : ApplyTx(acc, tx) \in Applied
  BY TxFields DEF ApplyTx, After, Applied
<1>3. PICK a \in [0..l -> Applied] :
        a[0] = base /\ (\A k \in 1..l : a[k] = ApplyTx(a[k - 1], txs[k])) /\ Apply(start, txs) = a[l]
  BY <1>1, <1>2, ApplyPasses
<1> DEFINE Good == {k \in 0..l : a[k] = [nonces |-> n[k], txs |-> SubSeq(txs, 1, k)]}
<1>4. l \in Nat
  OBVIOUS
<1>5. 0 \in Good
  <2>1. n[0] = start /\ SubSeq(txs, 1, 0) = <<>>
    BY DEF Chain
  <2>2. a[0] = [nonces |-> n[0], txs |-> SubSeq(txs, 1, 0)]
    BY <1>3, <2>1
  <2> QED BY <1>4, <2>2
<1>6. ASSUME NEW k \in 1..l, k - 1 \in Good PROVE k \in Good
  <2>1. a[k - 1] = [nonces |-> n[k - 1], txs |-> SubSeq(txs, 1, k - 1)]
    BY <1>6
  <2>2. Turn(txs[k], n[k - 1]) /\ n[k] = After(n[k - 1], txs[k])
    BY DEF Chain, Turn
  <2>3. Append(SubSeq(txs, 1, k - 1), txs[k]) = SubSeq(txs, 1, k)
    OBVIOUS
  <2>4. a[k] = ApplyTx(a[k - 1], txs[k])
    BY <1>3
  <2>5. a[k] = [nonces |-> n[k], txs |-> SubSeq(txs, 1, k)]
    <3> DEFINE done == SubSeq(txs, 1, k - 1)
    <3> HIDE DEF Good, done
    <3>1. a[k] = ApplyTx([nonces |-> n[k - 1], txs |-> done], txs[k])
      BY <2>1, <2>4 DEF done
    <3>2. a[k] = [nonces |-> After(n[k - 1], txs[k]), txs |-> Append(done, txs[k])]
      BY <2>2, <3>1 DEF ApplyTx
    <3> QED BY <2>2, <2>3, <3>2 DEF done
  <2> QED BY <2>5
<1>7. l \in Good
  <2> HIDE DEF Good, l
  <2>1. \A k \in 0..l : k \in Good
    BY <1>4, <1>5, <1>6, NumbersUpTo
  <2> QED BY <1>4, <2>1
<1>8. SubSeq(txs, 1, l) = txs
  OBVIOUS
<1> QED BY <1>3, <1>7, <1>8

\* What the builder takes applies whole.
LEMMA TakenApplies ==
  ASSUME NEW start \in [Account -> Nat], NEW txs \in Seq(Tx)
  PROVE  LET taken == Apply(start, txs).txs
         IN taken \in Seq(Tx) /\ Apply(start, taken).txs = taken
<1> DEFINE taken == Apply(start, txs).txs
<1>1. taken \in Seq(Tx) /\ \E n : Chain(n, start, taken)
  BY ApplyChains DEF Applied
<1> HIDE DEF taken
<1>2. PICK n : Chain(n, start, taken)
  BY <1>1
<1>3. Apply(start, taken) = [nonces |-> n[Len(taken)], txs |-> taken]
  BY <1>1, <1>2, ChainApplies
<1>4. Apply(start, taken).txs = taken
  BY <1>3
<1> QED BY <1>1, <1>4 DEF taken

\* An account's nonce never falls along a chain.
LEMMA ChainRises ==
  ASSUME NEW start \in [Account -> Nat], NEW txs \in Seq(Tx), NEW n, Chain(n, start, txs),
         NEW i \in 0..Len(txs), NEW a \in Account
  PROVE  \A k \in 0..Len(txs) : i <= k => n[i][a] <= n[k][a]
<1> DEFINE l == Len(txs)
           Good == {k \in 0..l : i <= k => n[i][a] <= n[k][a]}
<1>1. l \in Nat /\ \A k \in 0..l : n[k] \in [Account -> Nat]
  BY DEF Chain
<1>2. \A k \in 0..l : n[k][a] \in Nat
  BY <1>1
<1>3. 0 \in Good
  BY <1>1, <1>2
<1>4. ASSUME NEW k \in 1..l, k - 1 \in Good PROVE k \in Good
  <2>1. k - 1 \in 0..l /\ k \in 0..l
    BY <1>1
  <2>2. n[k - 1][a] <= n[k][a]
    <3>1. n[k] = After(n[k - 1], txs[k]) /\ txs[k] \in Tx
      BY DEF Chain
    <3>2. n[k - 1] \in [Account -> Nat] /\ n[k - 1][a] \in Nat
      BY <1>1, <1>2, <2>1
    <3> QED BY <3>1, <3>2, TxFields DEF After
  <2>3. i <= k - 1 \/ i = k \/ k < i
    BY <1>1
  <2> QED BY <1>2, <1>4, <2>1, <2>2, <2>3
<1> HIDE DEF Good, l
<1>5. \A k \in 0..l : k \in Good
  BY <1>1, <1>3, <1>4, NumbersUpTo
<1> QED BY <1>5 DEF Good, l

\* The transactions of a chain have nonces from where it starts to where it ends,
\* and no two have one nonce of one account.
LEMMA ChainFacts ==
  ASSUME NEW start \in [Account -> Nat], NEW txs \in Seq(Tx), NEW n, Chain(n, start, txs)
  PROVE  /\ n[Len(txs)] \in [Account -> Nat]
         /\ \A a \in Account : start[a] <= n[Len(txs)][a]
         /\ \A i \in 1..Len(txs) : /\ start[txs[i].sender] <= txs[i].nonce
                                   /\ txs[i].nonce < n[Len(txs)][txs[i].sender]
         /\ \A i, j \in 1..Len(txs) : i < j /\ txs[i].sender = txs[j].sender => txs[i].nonce < txs[j].nonce
<1> DEFINE l == Len(txs)
<1>1. l \in Nat /\ \A i \in 1..l : txs[i] \in Tx /\ txs[i].sender \in Account /\ txs[i].nonce \in Nat
  BY TxFields
<1>2. n[0] = start /\ \A k \in 0..l : n[k] \in [Account -> Nat]
  BY DEF Chain
<1>3. \A k \in 0..l, a \in Account : n[k][a] \in Nat
  BY <1>2
<1>4. \A i, k \in 0..l, a \in Account : i <= k => n[i][a] <= n[k][a]
  BY ChainRises
<1>5. \A a \in Account : start[a] <= n[l][a]
  BY <1>1, <1>2, <1>4
<1>6. ASSUME NEW i \in 1..l
      PROVE  /\ txs[i].nonce = n[i - 1][txs[i].sender] /\ n[i][txs[i].sender] = txs[i].nonce + 1
             /\ i - 1 \in 0..l /\ i \in 0..l
  <2>1. txs[i].nonce = n[i - 1][txs[i].sender] /\ n[i] = After(n[i - 1], txs[i])
    BY DEF Chain
  <2>2. i - 1 \in 0..l /\ i \in 0..l
    BY <1>1
  <2>3. n[i - 1] \in [Account -> Nat]
    BY <1>2, <2>2
  <2>4. n[i][txs[i].sender] = n[i - 1][txs[i].sender] + 1
    BY <1>1, <2>1, <2>3 DEF After
  <2> QED BY <2>1, <2>2, <2>4
<1> HIDE DEF l
<1>7. ASSUME NEW i \in 1..l
      PROVE  start[txs[i].sender] <= txs[i].nonce /\ txs[i].nonce < n[l][txs[i].sender]
  <2> DEFINE a == txs[i].sender
  <2>1. a \in Account /\ txs[i].nonce \in Nat
    BY <1>1
  <2>2. n[0][a] <= n[i - 1][a] /\ n[i][a] <= n[l][a]
    BY <1>1, <1>4, <1>6, <2>1
  <2>3. n[l][a] \in Nat
    BY <1>1, <1>3, <2>1
  <2>4. txs[i].nonce = n[i - 1][a] /\ n[i][a] = txs[i].nonce + 1
    BY <1>6
  <2> HIDE DEF a
  <2>5. start[a] <= txs[i].nonce /\ txs[i].nonce < n[l][a]
    BY <1>2, <2>1, <2>2, <2>3, <2>4
  <2> QED BY <2>5 DEF a
<1>8. ASSUME NEW i \in 1..l, NEW j \in 1..l, i < j, txs[i].sender = txs[j].sender
      PROVE  txs[i].nonce < txs[j].nonce
  <2> DEFINE a == txs[i].sender
  <2>1. a \in Account /\ txs[i].nonce \in Nat /\ txs[j].nonce \in Nat
    BY <1>1
  <2>2. n[i][a] <= n[j - 1][a]
    <3>1. i <= j - 1 /\ i \in 0..l /\ j - 1 \in 0..l
      BY <1>1, <1>6, <1>8
    <3> QED BY <1>4, <2>1, <3>1
  <2>3. n[i][a] = txs[i].nonce + 1 /\ txs[j].nonce = n[j - 1][a]
    BY <1>6, <1>8
  <2> HIDE DEF a
  <2> QED BY <2>1, <2>2, <2>3
<1>9. n[l] \in [Account -> Nat]
  BY <1>1, <1>2
<1> QED BY <1>5, <1>7, <1>8, <1>9 DEF l

-----------------------------------------------------------------------------
(* The pool, as far as a proposal needs it *)

PoolTyped == IsFiniteSet(by_priority) /\ \A k \in by_priority : k.tx \in Tx

\* Inserting, discarding and draining keep the pool's type.
LEMMA PoolInserts ==
  ASSUME PoolTyped, NEW tx \in Tx, P!Insert(tx)
  PROVE  PoolTyped'
<1> DEFINE key == P!PriorityKey(tx, next_seq)
           kept == P!PriorityWithout(P!Rival(tx))
<1>1. by_priority' \subseteq kept \cup {key}
  BY DEF P!Insert, P!Admit
<1>2. kept \subseteq by_priority
  BY DEF P!PriorityWithout
<1>3. key.tx = tx
  BY DEF P!PriorityKey
<1> HIDE DEF kept, key
<1>4. IsFiniteSet(by_priority \cup {key})
  BY FS_AddElement DEF PoolTyped
<1>5. by_priority' \subseteq by_priority \cup {key}
  BY <1>1, <1>2
<1>6. IsFiniteSet(by_priority')
  BY <1>4, <1>5, FS_Subset
<1> QED BY <1>3, <1>5, <1>6 DEF PoolTyped

\* Discarding transactions keeps it.
LEMMA PoolDiscards ==
  ASSUME PoolTyped, NEW gone, P!Discard(gone)
  PROVE  PoolTyped'
<1>1. by_priority' \subseteq by_priority
  BY DEF P!Discard, P!PriorityWithout
<1>2. IsFiniteSet(by_priority')
  BY <1>1, FS_Subset DEF PoolTyped
<1> QED BY <1>1, <1>2 DEF PoolTyped

\* Draining keeps it, and what is drained is finite.
LEMMA PoolDrains ==
  ASSUME PoolTyped, Drain
  PROVE  /\ PoolTyped'
         /\ IsFiniteSet(drained') /\ \A k \in drained' : k.tx \in Tx
<1>1. CASE by_priority = {}
  <2>1. drained' = {} /\ by_priority' = by_priority
    BY <1>1 DEF Drain
  <2> QED BY <2>1, FS_EmptySet DEF PoolTyped
<1>2. CASE by_priority # {}
  <2>1. P!DrainForBlock
    BY <1>2 DEF Drain
  <2>2. PICK picked \in SUBSET by_priority : P!Discard({k.tx : k \in picked}) /\ drained' = picked
    BY <2>1 DEF P!DrainForBlock
  <2>3. PoolTyped'
    BY <2>2, PoolDiscards
  <2>4. IsFiniteSet(drained')
    BY <2>2, FS_Subset DEF PoolTyped
  <2> QED BY <2>2, <2>3, <2>4 DEF PoolTyped
<1> QED BY <1>1, <1>2

\* The order in which the builder tries the drained keys is a sequence of
\* transactions.
LEMMA RankedTxs ==
  ASSUME NEW keys, IsFiniteSet(keys), \A k \in keys : k.tx \in Tx, NEW ranked \in InOrder(keys)
  PROVE  [i \in DOMAIN ranked |-> ranked[i].tx] \in Seq(Tx)
<1>1. Cardinality(keys) \in Nat
  BY FS_CardinalityType
<1>2. ranked \in [1..Cardinality(keys) -> keys]
  BY DEF InOrder, SetToSeqs
<1>3. [i \in 1..Cardinality(keys) |-> ranked[i].tx] \in [1..Cardinality(keys) -> Tx]
  BY <1>2
<1>4. DOMAIN ranked = 1..Cardinality(keys)
  BY <1>2
<1> QED BY <1>1, <1>3, <1>4, SeqDef

-----------------------------------------------------------------------------
(* The invariant *)

SameSlot(tx, other) == tx.sender = other.sender /\ tx.nonce = other.nonce

Spent(tx) == tx.nonce < nonces[tx.sender]

\* Types, and where the engine stands at each stage.
EngineTyped ==
  /\ TypeOK
  /\ stage \notin {"propose", "waiting"} => height \in Heights /\ block \in Seq(Tx)
  /\ stage = "waiting" => current_height = height
  /\ todo \in Seq(Tx)
  /\ lookup # None => lookup.tx \in Tx /\ lookup.height \in Heights

\* What is decided applies whole.
DecidedApplies == stage = "decide" => Apply(nonces, block).txs = block

\* Between the write of the state and the last entry, the block's nonces are
\* spent, each by one transaction, and by none that is in the index and not in
\* the block.
BlockSpent ==
  stage \in {"store", "index"} =>
    \A i \in DOMAIN block :
      /\ Spent(block[i])
      /\ \A j \in DOMAIN block : SameSlot(block[i], block[j]) => block[i] = block[j]
      /\ \A tx \in DOMAIN tx_index : SameSlot(block[i], tx) => block[i] = tx

\* While entries are written, the block is stored and holds what is left to index.
Indexing ==
  stage = "index" => blocks[height] = block /\ \A i \in DOMAIN todo : Contains(block, todo[i])

\* A reader who has found the entry finds the transaction, but for the heights
\* that pruning or another block have reached.
LookupHolds ==
  lookup # None =>
    \/ lookup.height \in rewritten
    \/ lookup.height < height - Retention
    \/ Holds(blocks[lookup.height], lookup.tx)

NodeInv ==
  /\ PoolTyped /\ EngineTyped /\ DecidedApplies /\ BlockSpent /\ Indexing
  /\ IndexPoints /\ FoundIsApplied /\ LookupHolds

\* What the invariant reads besides the pool.
watched == <<nonces, blocks, tx_index, stage, height, current_height, block, todo, lookup, rewritten>>

\* A step of the pool or of a client keeps the rest.
LEMMA WatchedAlone ==
  ASSUME NodeInv, PoolTyped', UNCHANGED watched
  PROVE  NodeInv'
<1>1. EngineTyped'
  BY DEF NodeInv, EngineTyped, TypeOK, watched
<1>2. DecidedApplies' /\ Indexing' /\ IndexPoints' /\ LookupHolds'
  BY DEF NodeInv, DecidedApplies, Indexing, IndexPoints, LookupHolds, watched
<1>3. BlockSpent' /\ FoundIsApplied'
  BY DEF NodeInv, BlockSpent, FoundIsApplied, Spent, watched
<1> QED BY <1>1, <1>2, <1>3 DEF NodeInv

\* A new node.
LEMMA InvInit == Init => NodeInv
<1> SUFFICES ASSUME Init PROVE NodeInv
  OBVIOUS
<1>1. PoolTyped
  BY FS_EmptySet DEF Init, P!PoolInit, PoolTyped
<1>2. EngineTyped
  BY NodeAssumption DEF Init, EngineTyped, TypeOK, Stages, Heights
<1>3. tx_index = <<>> /\ DOMAIN tx_index = {} /\ stage = "propose" /\ lookup = None
  BY DEF Init
<1>4. DecidedApplies /\ BlockSpent /\ Indexing /\ LookupHolds
  BY <1>3 DEF DecidedApplies, BlockSpent, Indexing, LookupHolds
<1>5. IndexPoints /\ FoundIsApplied
  BY <1>3 DEF IndexPoints, FoundIsApplied
<1> QED BY <1>1, <1>2, <1>4, <1>5 DEF NodeInv

-----------------------------------------------------------------------------
(* Clients *)

\* A client reads a nonce.
LEMMA InvFetch ==
  ASSUME NodeInv, NEW a \in Account, Fetch(a)
  PROVE  NodeInv'
BY WatchedAlone DEF Fetch, pool, store, engine, history, watched, NodeInv, PoolTyped

\* A client sends a transaction, which joins the pool.
LEMMA InvSend ==
  ASSUME NodeInv, NEW tx \in Tx, Send(tx)
  PROVE  NodeInv'
<1>1. UNCHANGED watched
  BY DEF Send, SubmitTx, store, engine, watched
<1>2. PoolTyped'
  <2>1. UNCHANGED pool \/ P!Insert(tx)
    BY DEF Send, SubmitTx
  <2>2. CASE UNCHANGED pool
    BY <2>2 DEF pool, NodeInv, PoolTyped
  <2>3. CASE P!Insert(tx)
    BY <2>3, PoolInserts DEF NodeInv
  <2> QED BY <2>1, <2>2, <2>3
<1> QED BY <1>1, <1>2, WatchedAlone

\* The entry a reader found leads to its block at that moment.
LEMMA InvFindHeight ==
  ASSUME NodeInv, NEW tx \in Tx, FindHeight(tx)
  PROVE  NodeInv'
<1> DEFINE at == tx_index[tx]
<1>1. /\ UNCHANGED <<by_priority, nonces, blocks, tx_index, stage, height, current_height, block, todo, rewritten>>
      /\ lookup' = [tx |-> tx, height |-> at] /\ tx \in DOMAIN tx_index
  BY DEF FindHeight, pool, store, engine, history
<1>2. lookup'.tx = tx /\ lookup'.height = at
  BY <1>1
<1>3. at \in Heights
  BY <1>1 DEF NodeInv, EngineTyped, TypeOK
<1>4. at \notin rewritten => Holds(blocks[at], tx)
  BY <1>1 DEF NodeInv, IndexPoints
<1> HIDE DEF at
<1>5. PoolTyped' /\ DecidedApplies' /\ Indexing' /\ IndexPoints'
  BY <1>1 DEF NodeInv, PoolTyped, DecidedApplies, Indexing, IndexPoints
<1>6. BlockSpent' /\ FoundIsApplied'
  BY <1>1 DEF NodeInv, BlockSpent, FoundIsApplied, Spent
<1>7. EngineTyped'
  BY <1>1, <1>2, <1>3 DEF NodeInv, EngineTyped, TypeOK
<1>8. LookupHolds'
  BY <1>1, <1>2, <1>4 DEF LookupHolds
<1> QED BY <1>5, <1>6, <1>7, <1>8 DEF NodeInv

\* A lookup ends with the block it found.
LEMMA InvFindInBlock ==
  ASSUME NodeInv, FindInBlock
  PROVE  NodeInv'
<1>1. /\ UNCHANGED <<by_priority, nonces, blocks, tx_index, stage, height, current_height, block, todo, rewritten>>
      /\ lookup' = None
  BY DEF FindInBlock, pool, store, engine, history
<1>2. PoolTyped' /\ DecidedApplies' /\ Indexing' /\ IndexPoints' /\ LookupHolds'
  BY <1>1 DEF NodeInv, PoolTyped, DecidedApplies, Indexing, IndexPoints, LookupHolds
<1>3. BlockSpent' /\ FoundIsApplied'
  BY <1>1 DEF NodeInv, BlockSpent, FoundIsApplied, Spent
<1>4. EngineTyped'
  BY <1>1 DEF NodeInv, EngineTyped, TypeOK
<1> QED BY <1>2, <1>3, <1>4 DEF NodeInv

-----------------------------------------------------------------------------
(* The engine *)

\* A proposal is what the state applies of the pool: all of it has its turn.
LEMMA InvPropose ==
  ASSUME NodeInv, Propose
  PROVE  NodeInv'
<1>1. /\ UNCHANGED <<nonces, blocks, tx_index, height, current_height, todo, lookup, rewritten>>
      /\ stage = "propose" /\ stage' = "decide" /\ height <= MaxHeight
  BY DEF Propose, store, history
<1>2. PoolTyped' /\ IsFiniteSet(drained') /\ \A k \in drained' : k.tx \in Tx
  BY PoolDrains DEF Propose, NodeInv
<1>3. block' \in Seq(Tx) /\ Apply(nonces, block').txs = block'
  <2>1. PICK ranked \in InOrder(drained') :
          block' = Apply(nonces, [i \in DOMAIN ranked |-> ranked[i].tx]).txs
    BY DEF Propose
  <2> DEFINE txs == [i \in DOMAIN ranked |-> ranked[i].tx]
  <2>2. txs \in Seq(Tx)
    <3>1. PICK keys : keys = drained'
      OBVIOUS
    <3>2. ranked \in InOrder(keys) /\ IsFiniteSet(keys) /\ \A k \in keys : k.tx \in Tx
      BY <1>2, <2>1, <3>1
    <3> QED BY <3>2, RankedTxs
  <2>3. nonces \in [Account -> Nat]
    BY DEF NodeInv, EngineTyped, TypeOK
  <2> HIDE DEF txs
  <2>4. block' = Apply(nonces, txs).txs
    BY <2>1 DEF txs
  <2> QED BY <2>2, <2>3, <2>4, TakenApplies
<1>4. EngineTyped'
  <2>1. height \in Heights
    BY <1>1, NodeAssumption DEF NodeInv, EngineTyped, TypeOK, Heights
  <2> QED BY <1>1, <1>3, <2>1 DEF NodeInv, EngineTyped, TypeOK, Stages
<1>5. DecidedApplies' /\ BlockSpent' /\ Indexing'
  BY <1>1, <1>3 DEF DecidedApplies, BlockSpent, Indexing
<1>6. IndexPoints' /\ LookupHolds' /\ FoundIsApplied'
  BY <1>1 DEF NodeInv, IndexPoints, LookupHolds, FoundIsApplied
<1> QED BY <1>2, <1>4, <1>5, <1>6 DEF NodeInv

\* The state is written: the nonces of the block are spent, and those that were
\* spent before stay so.
LEMMA InvCommitState ==
  ASSUME NodeInv, CommitState
  PROVE  NodeInv'
<1>1. /\ UNCHANGED <<by_priority, blocks, tx_index, height, current_height, block, todo, lookup, rewritten>>
      /\ stage = "decide" /\ stage' = "store" /\ nonces' = Apply(nonces, block).nonces
  BY DEF CommitState, pool, history
<1>2. nonces \in [Account -> Nat] /\ block \in Seq(Tx) /\ Apply(nonces, block).txs = block
  BY <1>1 DEF NodeInv, EngineTyped, TypeOK, DecidedApplies
<1>3. PICK n : Chain(n, nonces, block) /\ nonces' = n[Len(block)]
  BY <1>1, <1>2, ApplyChains
<1>4. /\ nonces' \in [Account -> Nat]
      /\ \A a \in Account : nonces[a] <= nonces'[a]
      /\ \A i \in 1..Len(block) : /\ nonces[block[i].sender] <= block[i].nonce
                                  /\ block[i].nonce < nonces'[block[i].sender]
      /\ \A i, j \in 1..Len(block) :
           i < j /\ block[i].sender = block[j].sender => block[i].nonce < block[j].nonce
  BY <1>2, <1>3, ChainFacts
<1>5. DOMAIN tx_index \subseteq Tx
  BY DEF NodeInv, EngineTyped, TypeOK
<1>6. FoundIsApplied'
  <2>1. \A tx \in DOMAIN tx_index : tx.nonce < nonces'[tx.sender]
    BY <1>2, <1>4, <1>5, TxFields DEF NodeInv, FoundIsApplied
  <2> QED BY <1>1, <2>1 DEF NodeInv, FoundIsApplied
<1>7. BlockSpent'
  <2>1. DOMAIN block = 1..Len(block) /\ \A i \in DOMAIN block : block[i] \in Tx
    BY <1>2
  <2>2. ASSUME NEW i \in DOMAIN block, NEW j \in DOMAIN block, SameSlot(block[i], block[j])
        PROVE  block[i] = block[j]
    <3>1. ~(i < j) /\ ~(j < i)
      BY <1>4, <2>1, <2>2, TxFields DEF SameSlot
    <3> QED BY <2>1, <3>1
  <2>3. ASSUME NEW i \in DOMAIN block, NEW tx \in DOMAIN tx_index, SameSlot(block[i], tx)
        PROVE  FALSE
    <3>1. tx.nonce < nonces[tx.sender] /\ nonces[tx.sender] <= tx.nonce
      BY <1>4, <2>1, <2>3 DEF NodeInv, FoundIsApplied, SameSlot
    <3>2. tx.nonce \in Nat /\ nonces[tx.sender] \in Nat
      BY <1>2, <1>5, TxFields
    <3> QED BY <3>1, <3>2
  <2>4. \A i \in DOMAIN block : block[i].nonce < nonces'[block[i].sender]
    BY <1>4, <2>1
  <2> QED BY <1>1, <2>2, <2>3, <2>4 DEF BlockSpent, Spent
<1>8. EngineTyped'
  BY <1>1, <1>4 DEF NodeInv, EngineTyped, TypeOK, Stages
<1>9. PoolTyped' /\ DecidedApplies' /\ Indexing' /\ IndexPoints' /\ LookupHolds'
  BY <1>1 DEF NodeInv, PoolTyped, DecidedApplies, Indexing, IndexPoints, LookupHolds
<1> QED BY <1>6, <1>7, <1>8, <1>9 DEF NodeInv

\* The body is written: entries that named this height had their transaction in
\* a body that is now replaced, and the height counts as rewritten.
LEMMA InvStoreBlock ==
  ASSUME NodeInv, StoreBlock
  PROVE  NodeInv'
<1>1. /\ UNCHANGED <<by_priority, nonces, tx_index, height, current_height, block, lookup>>
      /\ stage = "store" /\ stage' = "index" /\ todo' = block
      /\ blocks' = [blocks EXCEPT ![height] = block]
      /\ rewritten' = IF blocks[height] # None THEN rewritten \cup {height} ELSE rewritten
  BY DEF StoreBlock, pool
<1>2. /\ height \in Heights /\ block \in Seq(Tx) /\ blocks \in [Heights -> Seq(Tx) \cup {None}]
      /\ lookup # None => lookup.height \in Heights
      /\ tx_index \in [DOMAIN tx_index -> Heights]
  BY <1>1 DEF NodeInv, EngineTyped, TypeOK
<1>3. /\ blocks' \in [Heights -> Seq(Tx) \cup {None}] /\ blocks'[height] = block
      /\ \A h \in Heights : h # height => blocks'[h] = blocks[h]
  BY <1>1, <1>2
<1>4. ASSUME NEW h \in Heights, NEW tx, h \notin rewritten', Holds(blocks[h], tx)
      PROVE  Holds(blocks'[h], tx)
  <2>1. h = height => blocks[h] = None
    BY <1>1, <1>4
  <2>2. h # height
    BY <1>4, <2>1 DEF Holds
  <2> QED BY <1>3, <1>4, <2>2
<1>5. rewritten \subseteq rewritten'
  BY <1>1
<1>6. IndexPoints'
  <2> SUFFICES ASSUME NEW tx \in DOMAIN tx_index, tx_index[tx] \notin rewritten'
               PROVE  Holds(blocks'[tx_index[tx]], tx)
    BY <1>1 DEF IndexPoints
  <2>1. tx_index[tx] \in Heights /\ Holds(blocks[tx_index[tx]], tx)
    BY <1>2, <1>5 DEF NodeInv, IndexPoints
  <2> QED BY <1>4, <2>1
<1>7. LookupHolds'
  <2> SUFFICES ASSUME lookup # None, lookup.height \notin rewritten', ~(lookup.height < height - Retention)
               PROVE  Holds(blocks'[lookup.height], lookup.tx)
    BY <1>1 DEF LookupHolds
  <2>1. Holds(blocks[lookup.height], lookup.tx)
    BY <1>5 DEF NodeInv, LookupHolds
  <2> QED BY <1>2, <1>4, <2>1
<1>8. Indexing'
  <2>1. \A i \in DOMAIN block : Contains(block, block[i])
    BY <1>2 DEF Contains
  <2> QED BY <1>1, <1>3, <2>1 DEF Indexing
<1>9. BlockSpent' /\ FoundIsApplied'
  BY <1>1 DEF NodeInv, BlockSpent, FoundIsApplied, Spent
<1>10. EngineTyped'
  BY <1>1, <1>2, <1>3 DEF NodeInv, EngineTyped, TypeOK, Stages
<1>11. PoolTyped' /\ DecidedApplies'
  BY <1>1 DEF NodeInv, PoolTyped, DecidedApplies
<1> QED BY <1>6, <1>7, <1>8, <1>9, <1>10, <1>11 DEF NodeInv

\* An entry is written, or none is left to write.
LEMMA InvIndexTx ==
  ASSUME NodeInv, IndexTx
  PROVE  NodeInv'
<1>1. /\ UNCHANGED <<by_priority, nonces, blocks, height, current_height, block, lookup, rewritten>>
      /\ stage = "index"
  BY DEF IndexTx, pool, history
<1>2. CASE todo = <<>>
  <2>1. stage' = "prune" /\ UNCHANGED <<tx_index, todo>>
    BY <1>2 DEF IndexTx
  <2>2. EngineTyped'
    BY <1>1, <2>1 DEF NodeInv, EngineTyped, TypeOK, Stages
  <2>3. DecidedApplies' /\ BlockSpent' /\ Indexing'
    BY <1>1, <2>1 DEF DecidedApplies, BlockSpent, Indexing
  <2>4. PoolTyped' /\ IndexPoints' /\ LookupHolds' /\ FoundIsApplied'
    BY <1>1, <2>1 DEF NodeInv, PoolTyped, IndexPoints, LookupHolds, FoundIsApplied
  <2> QED BY <2>2, <2>3, <2>4 DEF NodeInv
<1>3. CASE todo # <<>>
  <2> DEFINE tx == Head(todo)
  <2>1. /\ UNCHANGED stage /\ todo' = Tail(todo)
        /\ tx_index' = [t \in DOMAIN tx_index \cup {tx} |-> IF t = tx THEN height ELSE tx_index[t]]
    BY <1>3 DEF IndexTx
  <2>2. /\ todo \in Seq(Tx) /\ height \in Heights /\ block \in Seq(Tx)
        /\ DOMAIN tx_index \subseteq Tx /\ tx_index \in [DOMAIN tx_index -> Heights]
    BY <1>1 DEF NodeInv, EngineTyped, TypeOK
  <2>3. /\ Len(todo) \in Nat \ {0} /\ tx = todo[1] /\ tx \in Tx /\ Tail(todo) \in Seq(Tx)
        /\ \A i \in DOMAIN Tail(todo) : Tail(todo)[i] = todo[i + 1] /\ i + 1 \in DOMAIN todo
        /\ 1 \in DOMAIN todo
    BY <1>3, <2>2
  <2>4. blocks[height] = block /\ \A i \in DOMAIN todo : Contains(block, todo[i])
    BY <1>1 DEF NodeInv, Indexing
  <2>5. PICK i \in DOMAIN block : block[i] = tx
    BY <2>2, <2>3, <2>4 DEF Contains
  <2> HIDE DEF tx
  <2>6. /\ DOMAIN tx_index' = DOMAIN tx_index \cup {tx} /\ tx_index'[tx] = height
        /\ \A t \in DOMAIN tx_index : t # tx => tx_index'[t] = tx_index[t]
    BY <2>1
  <2>7. EngineTyped'
    <3>1. tx_index' \in [DOMAIN tx_index' -> Heights] /\ DOMAIN tx_index' \subseteq Tx
      BY <2>1, <2>2, <2>3
    <3>2. todo' \in Seq(Tx)
      BY <2>1, <2>3
    <3> QED BY <1>1, <2>1, <3>1, <3>2 DEF NodeInv, EngineTyped, TypeOK
  <2>8. IndexPoints'
    <3> SUFFICES ASSUME NEW t \in DOMAIN tx_index', tx_index'[t] \notin rewritten
                 PROVE  Holds(blocks[tx_index'[t]], t)
      BY <1>1 DEF IndexPoints
    <3>1. CASE t = tx
      <4>1. Contains(block, tx)
        BY <2>3, <2>4
      <4>2. Holds(block, tx)
        BY <2>2, <4>1, NodeAssumption DEF Holds
      <4> QED BY <2>4, <2>6, <3>1, <4>2
    <3>2. CASE t # tx
      BY <2>6, <3>2 DEF NodeInv, IndexPoints
    <3> QED BY <3>1, <3>2
  <2>9. FoundIsApplied' /\ BlockSpent'
    <3>1. /\ tx.nonce < nonces[tx.sender]
          /\ \A t \in DOMAIN tx_index : tx.sender = t.sender /\ tx.nonce = t.nonce => tx = t
      BY <1>1, <2>5 DEF NodeInv, BlockSpent, Spent, SameSlot
    <3>2. FoundIsApplied'
      BY <1>1, <2>6, <3>1 DEF NodeInv, FoundIsApplied
    <3>3. BlockSpent'
      BY <1>1, <2>1, <2>5, <2>6 DEF NodeInv, BlockSpent, Spent, SameSlot
    <3> QED BY <3>2, <3>3
  <2>10. Indexing'
    BY <1>1, <2>1, <2>3, <2>4 DEF Indexing
  <2>11. PoolTyped' /\ DecidedApplies' /\ LookupHolds'
    BY <1>1, <2>1 DEF NodeInv, PoolTyped, DecidedApplies, LookupHolds
  <2> QED BY <2>7, <2>8, <2>9, <2>10, <2>11 DEF NodeInv
<1> QED BY <1>2, <1>3

\* Of what is left of a block the first entry goes; when none is left, no entry
\* leads to the body, which goes too.
LEMMA InvPrune ==
  ASSUME NodeInv, Prune
  PROVE  NodeInv'
<1>1. /\ UNCHANGED <<by_priority, nonces, height, current_height, block, todo, lookup, rewritten>>
      /\ stage = "prune"
  BY DEF Prune, pool, history
<1>2. CASE Prunable = {}
  <2>1. stage' = "finish" /\ UNCHANGED <<blocks, tx_index>>
    BY <1>2 DEF Prune
  <2>2. EngineTyped'
    BY <1>1, <2>1 DEF NodeInv, EngineTyped, TypeOK, Stages
  <2>3. DecidedApplies' /\ BlockSpent' /\ Indexing'
    BY <2>1 DEF DecidedApplies, BlockSpent, Indexing
  <2>4. PoolTyped' /\ IndexPoints' /\ LookupHolds' /\ FoundIsApplied'
    BY <1>1, <2>1 DEF NodeInv, PoolTyped, IndexPoints, LookupHolds, FoundIsApplied
  <2> QED BY <2>2, <2>3, <2>4 DEF NodeInv
<1>3. CASE Prunable # {}
  <2> DEFINE h == Lowest(Prunable)
             left == {i \in DOMAIN blocks[h] : blocks[h][i] \in DOMAIN tx_index}
             gone == IF left = {} THEN {} ELSE {blocks[h][Lowest(left)]}
  <2>1. /\ UNCHANGED stage
        /\ tx_index' = [tx \in DOMAIN tx_index \ gone |-> tx_index[tx]]
        /\ blocks' = [blocks EXCEPT ![h] = BodyAfter(h, left)]
    BY <1>3 DEF Prune
  <2>2. /\ blocks \in [Heights -> Seq(Tx) \cup {None}] /\ height \in Heights
        /\ DOMAIN tx_index \subseteq Tx /\ tx_index \in [DOMAIN tx_index -> Heights]
        /\ lookup # None => lookup.height \in Heights
    BY <1>1 DEF NodeInv, EngineTyped, TypeOK
  <2>3. h \in Heights /\ h < height - Retention /\ blocks[h] \in Seq(Tx)
    <3>1. IsFiniteSet(Prunable) /\ Prunable \in SUBSET Int
      <4>1. IsFiniteSet(Heights) /\ Prunable \subseteq Heights
        BY NodeAssumption, FS_Interval DEF Heights, Prunable
      <4>2. Heights \subseteq Int
        BY DEF Heights
      <4> QED BY <4>1, <4>2, FS_Subset
    <3>2. \E k \in Prunable : \A l \in Prunable : k <= l
      BY <1>3, <3>1, SmallestMember
    <3>3. h \in Prunable
      BY <3>2 DEF Lowest
    <3> HIDE DEF h
    <3> QED BY <2>2, <3>3 DEF Prunable
  <2>4. left = {} => \A tx \in DOMAIN tx_index : ~Holds(blocks[h], tx)
    BY <2>3 DEF Holds, Contains
  <2>5. blocks' = [blocks EXCEPT ![h] = IF left = {} THEN None ELSE blocks[h]]
    BY <2>1 DEF BodyAfter
  <2> HIDE DEF gone, left, h
  <2>6. /\ blocks' \in [Heights -> Seq(Tx) \cup {None}]
        /\ \A k \in Heights : k # h \/ left # {} => blocks'[k] = blocks[k]
    BY <2>2, <2>3, <2>5
  <2>7. /\ DOMAIN tx_index' \subseteq DOMAIN tx_index
        /\ \A tx \in DOMAIN tx_index' : tx_index'[tx] = tx_index[tx]
        /\ tx_index' \in [DOMAIN tx_index' -> Heights]
    BY <2>1, <2>2
  <2>8. IndexPoints'
    <3> SUFFICES ASSUME NEW tx \in DOMAIN tx_index', tx_index'[tx] \notin rewritten
                 PROVE  Holds(blocks'[tx_index'[tx]], tx)
      BY <1>1 DEF IndexPoints
    <3>1. tx_index[tx] \in Heights /\ Holds(blocks[tx_index[tx]], tx)
      BY <2>2, <2>7 DEF NodeInv, IndexPoints
    <3>2. tx_index[tx] # h \/ left # {}
      BY <2>4, <2>7, <3>1
    <3> QED BY <2>6, <2>7, <3>1, <3>2
  <2>9. LookupHolds'
    <3> SUFFICES ASSUME lookup # None, lookup.height \notin rewritten, ~(lookup.height < height - Retention)
                 PROVE  Holds(blocks'[lookup.height], lookup.tx)
      BY <1>1 DEF LookupHolds
    <3>1. lookup.height \in Heights /\ lookup.height # h
      BY <2>2, <2>3
    <3> QED BY <2>6, <3>1 DEF NodeInv, LookupHolds
  <2>10. FoundIsApplied'
    BY <1>1, <2>7 DEF NodeInv, FoundIsApplied
  <2>11. EngineTyped'
    <3>1. DOMAIN tx_index' \subseteq Tx
      BY <2>2, <2>7
    <3> QED BY <1>1, <2>1, <2>6, <2>7, <3>1 DEF NodeInv, EngineTyped, TypeOK
  <2>12. PoolTyped' /\ DecidedApplies' /\ BlockSpent' /\ Indexing'
    BY <1>1, <2>1 DEF NodeInv, PoolTyped, DecidedApplies, BlockSpent, Indexing
  <2> QED BY <2>8, <2>9, <2>10, <2>11, <2>12 DEF NodeInv
<1> QED BY <1>2, <1>3

\* The height is done.
LEMMA InvFinish ==
  ASSUME NodeInv, Finish
  PROVE  NodeInv'
<1>1. /\ UNCHANGED <<nonces, blocks, tx_index, todo, lookup, rewritten>>
      /\ stage = "finish" /\ current_height' = height
      /\ \/ stage' = "waiting" /\ height' = height
         \/ stage' = "propose" /\ height' = height + 1
  BY DEF Finish, store, history
<1>2. PoolTyped'
  BY PoolDiscards DEF Finish, NodeInv
<1>3. height \in Heights /\ height \in Nat /\ InitialHeight <= height /\ InitialHeight \in Nat
  BY <1>1, NodeAssumption DEF NodeInv, EngineTyped, TypeOK
<1>4. EngineTyped'
  BY <1>1, <1>3 DEF NodeInv, EngineTyped, TypeOK, Stages
<1>5. DecidedApplies' /\ BlockSpent' /\ Indexing'
  BY <1>1 DEF DecidedApplies, BlockSpent, Indexing
<1>6. IndexPoints' /\ FoundIsApplied'
  BY <1>1 DEF NodeInv, IndexPoints, FoundIsApplied
<1>7. LookupHolds'
  <2>1. lookup # None /\ lookup.height < height - Retention => lookup.height < height' - Retention
    <3>1. lookup # None => lookup.height \in Int
      BY DEF NodeInv, EngineTyped, Heights
    <3>2. height' = height \/ height' = height + 1
      BY <1>1
    <3> QED BY <1>3, <3>1, <3>2, NodeAssumption
  <2> QED BY <1>1, <2>1 DEF NodeInv, LookupHolds
<1> QED BY <1>2, <1>4, <1>5, <1>6, <1>7 DEF NodeInv

\* The next height begins.
LEMMA InvWake ==
  ASSUME NodeInv, WakeUp \/ Heartbeat
  PROVE  NodeInv'
<1>1. /\ UNCHANGED <<by_priority, nonces, blocks, tx_index, current_height, block, todo, lookup, rewritten>>
      /\ stage = "waiting" /\ stage' = "propose" /\ height' = current_height + 1
  BY DEF WakeUp, Heartbeat, Wake, pool, store, history
<1>2. height' = height + 1 /\ height \in Nat /\ InitialHeight <= height /\ InitialHeight \in Nat
  BY <1>1, NodeAssumption DEF NodeInv, EngineTyped, TypeOK
<1>3. EngineTyped'
  BY <1>1, <1>2 DEF NodeInv, EngineTyped, TypeOK, Stages
<1>4. DecidedApplies' /\ BlockSpent' /\ Indexing'
  BY <1>1 DEF DecidedApplies, BlockSpent, Indexing
<1>5. IndexPoints' /\ FoundIsApplied' /\ PoolTyped'
  BY <1>1 DEF NodeInv, IndexPoints, FoundIsApplied, PoolTyped
<1>6. LookupHolds'
  <2>1. lookup # None /\ lookup.height < height - Retention => lookup.height < height' - Retention
    <3>1. lookup # None => lookup.height \in Int
      BY DEF NodeInv, EngineTyped, Heights
    <3> QED BY <1>2, <3>1, NodeAssumption
  <2> QED BY <1>1, <2>1 DEF NodeInv, LookupHolds
<1> QED BY <1>3, <1>4, <1>5, <1>6 DEF NodeInv

\* A crash leaves the store as it is, and nothing to index.
LEMMA InvRestart ==
  ASSUME NodeInv, Restart
  PROVE  NodeInv'
<1>1. /\ UNCHANGED <<nonces, blocks, tx_index, rewritten>>
      /\ by_priority' = {} /\ stage' = "propose" /\ lookup' = None /\ todo' = <<>>
      /\ height' = InitialHeight /\ current_height' = InitialHeight
  BY DEF Restart, store
<1>2. PoolTyped'
  BY <1>1, FS_EmptySet DEF PoolTyped
<1>3. EngineTyped'
  BY <1>1, NodeAssumption DEF NodeInv, EngineTyped, TypeOK, Stages
<1>4. DecidedApplies' /\ BlockSpent' /\ Indexing' /\ LookupHolds'
  BY <1>1 DEF DecidedApplies, BlockSpent, Indexing, LookupHolds
<1>5. IndexPoints' /\ FoundIsApplied'
  BY <1>1 DEF NodeInv, IndexPoints, FoundIsApplied
<1> QED BY <1>2, <1>3, <1>4, <1>5 DEF NodeInv

\* Nothing happens.
LEMMA InvStutter ==
  ASSUME NodeInv, UNCHANGED vars
  PROVE  NodeInv'
BY WatchedAlone DEF vars, pool, store, engine, history, watched, NodeInv, PoolTyped

\* Every step.
LEMMA InvNext ==
  ASSUME NodeInv, [Next]_vars
  PROVE  NodeInv'
BY InvFetch, InvSend, InvFindHeight, InvFindInBlock, InvPropose, InvCommitState, InvStoreBlock,
   InvIndexTx, InvPrune, InvFinish, InvWake, InvRestart, InvStutter DEF Next, EngineStep

\* Types of the node's state and where its engine stands: the invariant that the
\* other theorems rest on.
LEMMA NodeInvariant == Spec => []NodeInv
BY InvInit, InvNext, PTL DEF Spec

\* What the builder proposes applies whole when it is decided: the nonces that
\* commit_block writes are those the builder counted on (engine.rs, commit.rs).
THEOREM ProposedApplies == Spec => [](stage = "decide" => Apply(nonces, block).txs = block)
<1>1. NodeInv => (stage = "decide" => Apply(nonces, block).txs = block)
  BY DEF NodeInv, DecidedApplies
<1> QED BY <1>1, NodeInvariant, PTL

\* What a reader finds by the index is in the block it names, and was applied,
\* at every moment of a commit, of the pruning and after a crash in between
\* (state.rs, store_block and prune_blocks_before).
THEOREM IndexIsSound == Spec => []IndexSound
<1>1. NodeInv => IndexSound
  BY DEF NodeInv, IndexSound
<1> QED BY <1>1, NodeInvariant, PTL

\* A lookup whose entry leads nowhere ran into the pruning or into a rewritten
\* block, never into the middle of a commit (rpc.rs, /v1/tx/:hash).
THEOREM UnknownsAreExplained == Spec => UnknownExplained
<1>1. NodeInv /\ [Next]_vars =>
        [lookup # None /\ lookup' = None /\ ~Holds(blocks[lookup.height], lookup.tx) =>
           \/ lookup.height \in rewritten \/ lookup.height < height - Retention
           \/ restarts' # restarts]_vars
  BY DEF NodeInv, LookupHolds
<1> QED BY <1>1, NodeInvariant, PTL DEF Spec, UnknownExplained

=============================================================================
