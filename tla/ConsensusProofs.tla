-------------------------- MODULE ConsensusProofs --------------------------
(***************************************************************************)
(* Proofs about the consensus crate: the replicated engine (Engine), for   *)
(* any number of validators, any transactions, heights, rounds and         *)
(* restarts, and the transaction pool (Mempool), for every set of          *)
(* transactions and all limits.                                            *)
(***************************************************************************)
EXTENDS Engine, Mempool, FoldTheorems

-----------------------------------------------------------------------------
(* The engine.  A validator that restarts forgets what it precommitted (it *)
(* answers WalAppend with no log), so it counts as a faulty one: two       *)
(* quorums must meet in a validator that does not restart.  Under that     *)
(* hypothesis a commit certificate keeps its signers that did not restart  *)
(* bound to its block until they leave the height, so a height has one     *)
(* certificate; a stored block has one; and the state of a validator that  *)
(* has not restarted is the root of the block at its tip.                  *)

Quorums == {Q \in SUBSET Validators : 3 * Cardinality(Q) > 2 * N}

QuorumsMeet == \A Q, R \in Quorums : ~(Q \cap R \subseteq MayRestart)

-----------------------------------------------------------------------------

\* The condition under which Malachite is run, no more than a third faulty,
\* counting every validator that restarts, makes quorums meet.
LEMMA ThirdRestarts ==
  ASSUME 3 * Cardinality(MayRestart) <= N
  PROVE  QuorumsMeet
<1> SUFFICES ASSUME NEW Q \in Quorums, NEW R \in Quorums, Q \cap R \subseteq MayRestart
             PROVE  FALSE
  BY DEF QuorumsMeet
<1>1. IsFiniteSet(Validators) /\ Cardinality(Validators) = N
  <2>1. 1 \in Int /\ N \in Int /\ 1 <= N
    BY EngineAssumption
  <2> QED BY <2>1, FS_Interval DEF Validators
<1>2. /\ Q \subseteq Validators /\ R \subseteq Validators /\ MayRestart \subseteq Validators
      /\ 3 * Cardinality(Q) > 2 * N /\ 3 * Cardinality(R) > 2 * N
  BY EngineAssumption DEF Quorums, Validators
<1>3. IsFiniteSet(Q) /\ IsFiniteSet(R) /\ IsFiniteSet(MayRestart)
  BY <1>1, <1>2, FS_Subset
<1>4. Cardinality(Q \cup R) = Cardinality(Q) + Cardinality(R) - Cardinality(Q \cap R)
  BY <1>3, FS_Union
<1>5. Cardinality(Q \cup R) <= N
  <2>1. Q \cup R \subseteq Validators
    BY <1>2
  <2> QED BY <1>1, <2>1, FS_Subset
<1>6. IsFiniteSet(Q \cap R) /\ Cardinality(Q \cap R) <= Cardinality(MayRestart)
  BY <1>3, FS_Subset
<1>7. /\ Cardinality(Q) \in Nat /\ Cardinality(R) \in Nat
      /\ Cardinality(Q \cap R) \in Nat /\ Cardinality(MayRestart) \in Nat
  BY <1>3, <1>6, FS_CardinalityType
<1> QED BY <1>2, <1>4, <1>5, <1>6, <1>7, EngineAssumption

-----------------------------------------------------------------------------
(* The inductive invariant *)

\* The variables TypeOK does not say are functions.
PerValidator ==
  /\ last_proposed_drain = [n \in Validators |-> last_proposed_drain[n]]
  /\ known = [n \in Validators |-> known[n]]
  /\ bound = [n \in Validators |-> bound[n]]

\* A validator can sign no other block at the height of b.
Binds(n, b) == height[n] > b.height \/ (height[n] = b.height /\ bound[n] = b)

Certified == \A b \in certs : \E Q \in Quorums : \A n \in Q \ MayRestart : Binds(n, b)

OneCertificate == \A b, c \in certs : b.height = c.height => b = c

StoredCertified ==
  \A n \in Validators, h \in Heights :
    chain[n][h] # None => chain[n][h] \in certs /\ chain[n][h].height = h

IsTip(n, h) == h \in Stored(n) /\ \A k \in Stored(n) : k <= h

\* Chains of validators that have not restarted grow upwards, and the block
\* at the tip names the state.
TipNamesState ==
  \A n \in Validators : restarts[n] = 0 =>
    /\ \A k \in Stored(n) : k < height[n]
    /\ Stored(n) # {} => \E h \in Stored(n) : IsTip(n, h) /\ applied[n] = chain[n][h].root

Types == TypeOK /\ PerValidator

IInv ==
  /\ Types
  /\ Certified /\ OneCertificate /\ StoredCertified /\ TipNamesState

-----------------------------------------------------------------------------
(* Types *)

\* A validator starts at its chain's tip, with nothing decided.
LEMMA TypeInit == Init => Types
BY EngineAssumption DEF Init, Types, TypeOK, PerValidator, Validators, Heights, Rounds

\* The block a validator builds is one of its height and round over the pool.
LEMMA BuiltType ==
  ASSUME Types, NEW n \in Validators, Running(n)
  PROVE  Built(n) \in Block /\ Built(n).height = height[n] /\ Built(n).round = round[n]
<1>1. height[n] \in Heights
  BY EngineAssumption DEF Types, TypeOK, Running, Heights
<1> QED BY <1>1 DEF Types, TypeOK, Built, Block

\* Every step of a validator, and a crash, keeps the variables in their types.
LEMMA TypeStep == Types /\ [Next]_vars => Types'
<1> SUFFICES ASSUME Types, [Next]_vars PROVE Types'
  OBVIOUS
<1> USE EngineAssumption DEF Types, TypeOK, PerValidator, Drained
<1>1. ASSUME NEW n \in Validators, NEW tx \in Transaction, Submit(n, tx) PROVE Types'
  BY <1>1 DEF Submit, engine, store, core
<1>2. ASSUME NEW n \in Validators, GetValue(n) PROVE Types'
  <2>1. Built(n) \in Block /\ Built(n).height = height[n]
    BY <1>2, BuiltType DEF GetValue
  <2>2. [height |-> height[n], txs |-> mempool[n]] \in Drained(height[n])
    OBVIOUS
  <2>3. \A m \in Validators : last_proposed_drain'[m] \in Drained(height'[m]) \cup {None}
    BY <1>2, <2>2 DEF GetValue
  <2>4. /\ decided_block_cache' = [decided_block_cache EXCEPT ![n] = Built(n)]
        /\ last_proposed_drain' = [last_proposed_drain EXCEPT ![n] = [height |-> height[n], txs |-> mempool[n]]]
        /\ mempool' = [mempool EXCEPT ![n] = {}]
        /\ known' = [known EXCEPT ![n] = @ \cup {Built(n)}]
        /\ inbox' = [m \in Validators |-> IF m = n THEN inbox[m] ELSE inbox[m] \cup {Built(n)}]
        /\ UNCHANGED <<height, round, current_height, store, bound, certs, submitted, restarts>>
    BY <1>2 DEF GetValue
  <2> HIDE DEF TypeOK, PerValidator, Drained
  <2>5. /\ decided_block_cache' \in [Validators -> Block \cup {None}]
        /\ mempool' \in [Validators -> SUBSET Transaction]
        /\ inbox' \in [Validators -> SUBSET Block]
    BY <2>1, <2>4 DEF TypeOK
  <2>6. PerValidator'
    BY <2>4 DEF PerValidator
  <2>7. \A m \in Validators : \A b \in known'[m] : b \in Block /\ b.height >= height'[m]
    BY <2>1, <2>4 DEF TypeOK, PerValidator
  <2> QED BY <2>3, <2>4, <2>5, <2>6, <2>7 DEF TypeOK, store
<1>3. ASSUME NEW n \in Validators, Repropose(n) PROVE Types'
  BY <1>3 DEF Repropose, engine, store, core
<1>4. ASSUME NEW n \in Validators, NEW b \in inbox[n], ReceiveProposal(n, b) PROVE Types'
  BY <1>4 DEF ReceiveProposal, store
<1>5. ASSUME NEW n \in Validators, NextRound(n) PROVE Types'
  BY <1>5 DEF NextRound, store, core, Rounds
<1>6. ASSUME NEW n \in Validators, NEW quorum \in SUBSET Validators, NEW b \in known[n],
             Precommit(quorum, b)
      PROVE  Types'
  BY <1>6 DEF Precommit, engine, store
<1>7. ASSUME NEW n \in Validators, NEW b \in certs, Decide(n, b) PROVE Types'
  <2>1. b \in Block /\ b.height = height[n] /\ height[n] \in Heights
    BY <1>7 DEF Decide, Running, Heights
  <2>2. /\ height' = [height EXCEPT ![n] = height[n] + 1]
        /\ round' = [round EXCEPT ![n] = 0]
        /\ known' = [known EXCEPT ![n] = {k \in @ : k.height >= height[n] + 1}]
        /\ bound' = [bound EXCEPT ![n] = None]
        /\ last_proposed_drain' = [last_proposed_drain EXCEPT ![n] = None]
        /\ decided_block_cache' = [decided_block_cache EXCEPT ![n] = None]
        /\ UNCHANGED <<inbox, certs, submitted, restarts>>
    BY <1>7 DEF Decide, StartHeight, StashAfter
  <2>3. /\ mempool' \in [Validators -> SUBSET Transaction]
        /\ applied' \in [Validators -> SUBSET Transaction]
        /\ chain' \in [Validators -> [Heights -> Block \cup {None}]]
        /\ current_height' \in [Validators -> InitialHeight..(MaxHeight + 1)]
    <3>1. CASE UNCHANGED <<store, mempool, current_height>>
      BY <3>1 DEF store
    <3>2. CASE CommitDecided(n, b)
      BY <2>1, <3>2 DEF CommitDecided, Block, Heights
    <3> QED BY <1>7, <3>1, <3>2 DEF Decide, Matches
  <2> HIDE DEF TypeOK, PerValidator
  <2>4. height' \in [Validators -> InitialHeight..(MaxHeight + 1)] /\ round' \in [Validators -> Rounds]
    BY <2>1, <2>2 DEF TypeOK, Heights, Rounds
  <2>5. PerValidator'
    BY <2>2 DEF PerValidator
  <2>6. \A m \in Validators :
          /\ last_proposed_drain'[m] \in Drained(height'[m]) \cup {None}
          /\ \A k \in known'[m] : k \in Block /\ k.height >= height'[m]
          /\ bound'[m] = None \/ (bound'[m] \in Block /\ bound'[m].height = height'[m])
    BY <2>2 DEF TypeOK, PerValidator
  <2> QED BY <2>2, <2>3, <2>4, <2>5, <2>6 DEF TypeOK
<1>8. ASSUME NEW n \in Validators, Restart(n) PROVE Types'
  <2> HIDE DEF TypeOK, PerValidator
  <2>1. PerValidator'
    BY <1>8 DEF Restart, PerValidator
  <2>2. /\ height' \in [Validators -> InitialHeight..(MaxHeight + 1)]
        /\ round' \in [Validators -> Rounds]
        /\ current_height' \in [Validators -> InitialHeight..(MaxHeight + 1)]
        /\ restarts' \in [Validators -> 0..MaxRestarts]
    BY <1>8 DEF Restart, TypeOK, Rounds
  <2>3. /\ decided_block_cache' \in [Validators -> Block \cup {None}]
        /\ mempool' \in [Validators -> SUBSET Transaction]
    BY <1>8 DEF Restart, TypeOK
  <2>4. \A m \in Validators :
          /\ last_proposed_drain'[m] \in Drained(height'[m]) \cup {None}
          /\ \A b \in known'[m] : b \in Block /\ b.height >= height'[m]
          /\ bound'[m] = None \/ (bound'[m] \in Block /\ bound'[m].height = height'[m])
    BY <1>8 DEF Restart, TypeOK, PerValidator
  <2> QED BY <1>8, <2>1, <2>2, <2>3, <2>4 DEF TypeOK, Restart, store
<1>9. CASE UNCHANGED vars
  BY <1>9 DEF vars, engine, store, core
<1> QED BY <1>1, <1>2, <1>3, <1>4, <1>5, <1>6, <1>7, <1>8, <1>9 DEF Next

-----------------------------------------------------------------------------
(* Certificates *)

\* The steps that are neither votes, nor decisions, nor restarts.
LEMMA QuietSteps ==
  ASSUME [Next]_vars
  PROVE  \/ UNCHANGED <<height, bound, certs, chain, applied, restarts>>
         \/ \E n \in Validators, quorum \in SUBSET Validators : \E b \in known[n] : Precommit(quorum, b)
         \/ \E n \in Validators : \E b \in certs : Decide(n, b)
         \/ \E n \in Validators : Restart(n)
BY DEF Next, vars, engine, store, core, Submit, GetValue, Repropose, ReceiveProposal, NextRound

\* Behind a certificate is a quorum whose members, but for those that may restart,
\* can sign no other block of its height: a height has one certificate.
LEMMA CertificateStep ==
  ASSUME QuorumsMeet, Types, Certified, OneCertificate, [Next]_vars
  PROVE  Certified' /\ OneCertificate'
<1>1. CASE UNCHANGED <<height, bound, certs, chain, applied, restarts>>
  BY <1>1 DEF Certified, OneCertificate, Binds
\* A signer of both quorums that has not restarted would be bound already.
<1>2. ASSUME NEW p \in Validators, NEW quorum \in SUBSET Validators, NEW b \in known[p],
             Precommit(quorum, b)
      PROVE  Certified' /\ OneCertificate'
  <2>1. b \in Block /\ quorum \in Quorums /\ b # None
    BY <1>2, NoneAssumption DEF Precommit, Quorums, Types, TypeOK
  <2>2. /\ \A n \in quorum : height[n] = b.height /\ bound[n] = None
        /\ bound' = [n \in Validators |-> IF n \in quorum THEN b ELSE bound[n]]
        /\ certs' = certs \cup {b} /\ height' = height
    BY <1>2 DEF Precommit, engine
  <2>3. ASSUME NEW c \in certs, NEW n \in Validators, Binds(n, c)
        PROVE  Binds(n, c)' /\ (n \in quorum => c.height # b.height)
    <3>1. c \in Block /\ c # None /\ c.height \in Int /\ height[n] \in Int
      BY NoneAssumption, EngineAssumption DEF Types, TypeOK, Block, Heights
    <3> QED BY <2>2, <2>3, <3>1 DEF Binds
  <2>4. \A c \in certs : c.height # b.height
    <3> SUFFICES ASSUME NEW c \in certs, c.height = b.height PROVE FALSE
      OBVIOUS
    <3>1. PICK Q \in Quorums : \A n \in Q \ MayRestart : Binds(n, c)
      BY DEF Certified
    <3>2. PICK n \in Q \cap quorum : n \notin MayRestart
      BY <2>1 DEF QuorumsMeet
    <3> QED BY <2>3, <3>1, <3>2 DEF Quorums
  <2>5. Certified'
    <3> SUFFICES ASSUME NEW c \in certs'
                 PROVE  \E Q \in Quorums : \A n \in Q \ MayRestart : Binds(n, c)'
      BY DEF Certified
    <3>1. CASE c \in certs
      BY <2>3, <3>1 DEF Certified, Quorums
    <3>2. CASE c = b
      BY <2>1, <2>2, <3>2 DEF Binds
    <3> QED BY <2>2, <3>1, <3>2
  <2> QED BY <2>2, <2>4, <2>5 DEF OneCertificate
<1>3. ASSUME NEW d \in Validators, NEW b \in certs, Decide(d, b)
      PROVE  Certified' /\ OneCertificate'
  <2>1. /\ certs' = certs
        /\ height' = [height EXCEPT ![d] = height[d] + 1]
        /\ bound' = [bound EXCEPT ![d] = None]
    BY <1>3 DEF Decide, StartHeight
  <2>2. ASSUME NEW c \in certs, NEW n \in Validators, Binds(n, c) PROVE Binds(n, c)'
    <3>1. c.height \in Int /\ height[n] \in Int
      BY EngineAssumption DEF Types, TypeOK, Block, Heights
    <3>2. CASE n = d
      BY <2>1, <2>2, <3>1, <3>2 DEF Binds, Types, TypeOK
    <3>3. CASE n # d
      BY <2>1, <2>2, <3>3 DEF Binds, Types, TypeOK, PerValidator
    <3> QED BY <3>2, <3>3
  <2> QED BY <2>1, <2>2 DEF Certified, OneCertificate, Quorums
<1>4. ASSUME NEW r \in Validators, Restart(r) PROVE Certified' /\ OneCertificate'
  <2>1. ASSUME NEW c \in certs, NEW n \in Validators \ MayRestart, Binds(n, c) PROVE Binds(n, c)'
    <3>1. n # r /\ height'[n] = height[n] /\ bound'[n] = bound[n]
      BY <1>4 DEF Restart, Types, TypeOK, PerValidator
    <3> QED BY <2>1, <3>1 DEF Binds
  <2>2. certs' = certs
    BY <1>4 DEF Restart
  <2> QED BY <2>1, <2>2 DEF Certified, OneCertificate, Quorums
<1> QED BY <1>1, <1>2, <1>3, <1>4, QuietSteps

-----------------------------------------------------------------------------
(* The stores *)

\* What a decision stores: the block of the certificate at its height, over a
\* state that replays to its root; or nothing.
LEMMA Decided ==
  ASSUME Types, NEW n \in Validators, NEW b \in certs, Decide(n, b)
  PROVE  /\ certs' = certs /\ restarts' = restarts
         /\ height' = [height EXCEPT ![n] = height[n] + 1]
         /\ b \in Block /\ b.height = height[n] /\ b.height \in Heights
         /\ \/ UNCHANGED <<chain, applied>>
            \/ /\ chain' = [chain EXCEPT ![n][b.height] = b]
               /\ applied' = [applied EXCEPT ![n] = b.root]
BY EngineAssumption
   DEF Decide, StartHeight, CommitDecided, Matches, Replays, store, Types, TypeOK, Block

\* What a validator stores has a certificate, and the tip of one that has not
\* restarted names its state: no step of it changes this.
LEMMA StoreStep ==
  ASSUME Types, OneCertificate, StoredCertified, TipNamesState, [Next]_vars
  PROVE  StoredCertified' /\ TipNamesState'
<1>1. ASSUME UNCHANGED <<height, chain, applied, restarts>>, certs \subseteq certs'
      PROVE  StoredCertified' /\ TipNamesState'
  BY <1>1 DEF StoredCertified, TipNamesState, IsTip, Stored
<1>2. ASSUME NEW d \in Validators, NEW b \in certs, Decide(d, b)
      PROVE  StoredCertified' /\ TipNamesState'
  <2>1. CASE UNCHANGED <<chain, applied>>
    <3>1. StoredCertified'
      BY <1>2, <2>1, Decided DEF StoredCertified
    <3>2. \A n \in Validators : Stored(n)' = Stored(n) /\ \A h \in Heights : IsTip(n, h)' = IsTip(n, h)
      BY <2>1 DEF Stored, IsTip
    <3>3. ASSUME NEW n \in Validators, NEW k \in Heights, k < height[n] PROVE k < height'[n]
      <4>1. height' = [height EXCEPT ![d] = height[d] + 1]
        BY <1>2, Decided
      <4>2. height \in [Validators -> Int] /\ Heights \subseteq Int
        BY EngineAssumption DEF Types, TypeOK, Heights
      <4>3. height'[n] = IF n = d THEN height[n] + 1 ELSE height[n]
        BY <4>1, <4>2
      <4>4. height[n] \in Int /\ k \in Int
        BY <4>2
      <4> QED BY <3>3, <4>3, <4>4
    <3> QED BY <1>2, <2>1, <3>1, <3>2, <3>3, Decided DEF TipNamesState, Stored
  <2>2. CASE /\ chain' = [chain EXCEPT ![d][b.height] = b]
             /\ applied' = [applied EXCEPT ![d] = b.root]
    <3>1. /\ b \in Block /\ b.height = height[d] /\ b.height \in Heights /\ b # None
          /\ certs' = certs /\ restarts' = restarts
          /\ height' = [height EXCEPT ![d] = height[d] + 1]
      BY <1>2, Decided, NoneAssumption
    <3>2. \A n \in Validators, h \in Heights :
            chain'[n][h] = IF n = d /\ h = b.height THEN b ELSE chain[n][h]
      BY <2>2 DEF Types, TypeOK
    <3>3. StoredCertified'
      BY <3>1, <3>2 DEF StoredCertified
    <3>4. ASSUME NEW n \in Validators, n # d, restarts'[n] = 0
          PROVE  /\ \A k \in Stored(n)' : k < height'[n]
                 /\ Stored(n)' # {} => \E h \in Stored(n)' : IsTip(n, h)' /\ applied'[n] = chain'[n][h].root
      <4>1. chain'[n] = chain[n] /\ applied'[n] = applied[n] /\ height'[n] = height[n]
        BY <2>2, <3>1, <3>4 DEF Types, TypeOK
      <4> QED BY <3>1, <3>4, <4>1 DEF TipNamesState, Stored, IsTip
    <3>5. ASSUME restarts'[d] = 0
          PROVE  /\ \A k \in Stored(d)' : k < height'[d]
                 /\ \E h \in Stored(d)' : IsTip(d, h)' /\ applied'[d] = chain'[d][h].root
      <4>1. Stored(d)' = Stored(d) \cup {b.height}
        BY <3>1, <3>2 DEF Stored
      <4>2. \A k \in Stored(d) : k < b.height
        BY <3>1, <3>5 DEF TipNamesState
      <4>3. b.height \in Int /\ height'[d] = b.height + 1 /\ \A k \in Stored(d) : k \in Int
        BY <3>1, EngineAssumption DEF Heights, Types, TypeOK, Stored
      <4>4. IsTip(d, b.height)' /\ \A k \in Stored(d)' : k < height'[d]
        BY <4>1, <4>2, <4>3 DEF IsTip
      <4>5. applied'[d] = b.root /\ chain'[d][b.height] = b
        BY <2>2, <3>1, <3>2 DEF Types, TypeOK
      <4> QED BY <4>1, <4>4, <4>5
    <3> QED BY <3>3, <3>4, <3>5 DEF TipNamesState
  <2> QED BY <1>2, <2>1, <2>2, Decided
<1>3. ASSUME NEW r \in Validators, Restart(r) PROVE StoredCertified' /\ TipNamesState'
  <2>1. /\ UNCHANGED <<chain, applied, certs>> /\ restarts'[r] # 0
        /\ \A n \in Validators \ {r} : height'[n] = height[n] /\ restarts'[n] = restarts[n]
    BY <1>3 DEF Restart, store, Types, TypeOK
  <2> QED BY <2>1 DEF StoredCertified, TipNamesState, Stored, IsTip
<1>4. ASSUME NEW p \in Validators, NEW quorum \in SUBSET Validators, NEW b \in known[p],
             Precommit(quorum, b)
      PROVE  StoredCertified' /\ TipNamesState'
  BY <1>1, <1>4 DEF Precommit, engine, store
<1> QED BY <1>1, <1>2, <1>3, <1>4, QuietSteps

-----------------------------------------------------------------------------
(* The theorems *)

\* The engine's first state satisfies the invariant.
LEMMA InitInv == Init => IInv
<1> SUFFICES ASSUME Init PROVE IInv
  OBVIOUS
<1>1. Types
  BY TypeInit
<1>2. Certified /\ OneCertificate
  BY DEF Init, Certified, OneCertificate
<1>3. \A n \in Validators : Stored(n) = {}
  BY DEF Init, Stored
<1>4. StoredCertified /\ TipNamesState
  BY <1>3 DEF Init, StoredCertified, TipNamesState
<1> QED BY <1>1, <1>2, <1>4 DEF IInv

\* What every reachable state of the engine satisfies, if any two quorums share
\* a validator.
LEMMA Invariance ==
  ASSUME QuorumsMeet
  PROVE  Spec => []IInv
<1>1. IInv /\ [Next]_vars => IInv'
  <2> SUFFICES ASSUME IInv, [Next]_vars PROVE IInv'
    OBVIOUS
  <2> QED BY TypeStep, CertificateStep, StoreStep DEF IInv
<1> QED BY InitInv, <1>1, PTL DEF Spec

\* The types of the engines' state, and that stash, votes and proposals in
\* hand are of no earlier height, whatever quorums meet in.
THEOREM TypeCorrect == Spec => []TypeOK
<1>1. Types => TypeOK
  BY DEF Types
<1> QED BY <1>1, TypeInit, TypeStep, PTL DEF Spec

\* Validators that have not restarted and whose chains end in the same height
\* hold the same state, although Decide skips blocks that do not match the
\* cache or do not replay.
THEOREM Convergence ==
  ASSUME QuorumsMeet
  PROVE  Spec => []ReplicasConverge
<1>1. ASSUME IInv PROVE ReplicasConverge
  <2> SUFFICES ASSUME NEW n \in Validators, NEW m \in Validators,
                      restarts[n] = 0, restarts[m] = 0, Stored(n) # {}, Stored(m) # {},
                      Tip(n) = Tip(m)
               PROVE  applied[n] = applied[m]
    BY DEF ReplicasConverge
  <2>1. ASSUME NEW v \in Validators, restarts[v] = 0, Stored(v) # {}
        PROVE  Tip(v) \in Stored(v) /\ applied[v] = chain[v][Tip(v)].root
    <3>1. PICK h \in Stored(v) : IsTip(v, h) /\ applied[v] = chain[v][h].root
      BY <1>1, <2>1 DEF IInv, TipNamesState
    <3>2. \A k \in Stored(v) : (\A j \in Stored(v) : j <= k) => k = h
      BY <3>1, EngineAssumption DEF IsTip, Stored, Heights
    <3>3. Tip(v) = h
      BY <3>1, <3>2 DEF Tip, IsTip
    <3> QED BY <3>1, <3>3
  <2>2. chain[n][Tip(n)] = chain[m][Tip(n)]
    BY <1>1, <2>1 DEF IInv, StoredCertified, OneCertificate, Stored
  <2> QED BY <2>1, <2>2
<1>2. IInv => ReplicasConverge
  BY <1>1
<1> QED BY <1>2, Invariance, PTL

\* Together the validators are one log: what one stores at a height is all any
\* other ever stores there, and it is not replaced.  A step of the engines is
\* a step of ChainLog or leaves the stores alone.
THEOREM ImplementsLog ==
  ASSUME QuorumsMeet
  PROVE  Spec => LogSpec
<1>1. Init => Log!Init
  BY DEF Init, Log!Init
<1>2. ASSUME IInv, IInv', [Next]_vars PROVE [Log!Next]_chain
  <2>1. ASSUME NEW d \in Validators, NEW b \in certs, Decide(d, b) PROVE [Log!Next]_chain
    <3>1. CASE chain' = [chain EXCEPT ![d][b.height] = b]
      <4>1. b \in Block /\ b.height \in Heights /\ certs' = certs
        BY <1>2, <2>1, Decided DEF IInv
      <4>2. \A m \in Validators : chain[m][b.height] \in {None, b}
        BY <1>2, <4>1 DEF IInv, StoredCertified, OneCertificate
      <4>3. Log!Store(d, b.height, b)
        BY <3>1, <4>2 DEF Log!Store
      <4> QED BY <4>1, <4>3 DEF Log!Next
    <3> QED BY <1>2, <2>1, <3>1, Decided DEF IInv
  <2>2. CASE UNCHANGED chain
    BY <2>2
  <2>3. ASSUME NEW p \in Validators, NEW quorum \in SUBSET Validators, NEW b \in known[p],
               Precommit(quorum, b)
        PROVE  UNCHANGED chain
    BY <2>3 DEF Precommit, store
  <2>4. ASSUME NEW r \in Validators, Restart(r) PROVE UNCHANGED chain
    BY <2>4 DEF Restart, store
  <2> QED BY <1>2, <2>1, <2>2, <2>3, <2>4, QuietSteps
<1>3. IInv /\ IInv' /\ [Next]_vars => [Log!Next]_chain
  BY <1>2
<1> QED BY <1>1, <1>3, Invariance, PTL DEF Spec, LogSpec, Log!Spec

-----------------------------------------------------------------------------
(* The pool.  The inductive invariant is the conjunction of the type       *)
(* invariant, the agreement of the indexes and the caps: the removals      *)
(* rebuild an index from the other two, so none of the three survives a    *)
(* step on its own.                                                        *)

PoolIInv == PoolTypeOK /\ IndexesAgree /\ CapsHold

\* PoolTypeOK without the two batches, which the pool's own operations leave alone.
IndexesTyped ==
  /\ Pool \subseteq Tx
  /\ by_hash \in [Pool -> Nat]
  /\ by_priority \subseteq Keys
  /\ by_sender \in [DOMAIN by_sender -> Tx]
  /\ current_bytes \in Nat
  /\ next_seq \in Nat

PoolInv == IndexesTyped /\ IndexesAgree /\ CapsHold

-----------------------------------------------------------------------------

\* A pooled transaction pays a natural fee, its own or its kind's.
LEMMA FeeNat ==
  ASSUME NEW tx \in Tx, Admissible(tx)
  PROVE  Fee(tx) \in Nat
BY TxAssumption DEF Admissible, Fee, Kinds, Nonced, FixedFee, Unsupported

\* A saturating subtraction never raises the counter.
LEMMA SubBound ==
  ASSUME NEW a \in Nat, NEW b
  PROVE  SaturatingSub(a, b) \in Nat /\ SaturatingSub(a, b) <= a
BY DEF SaturatingSub

\* Removing transactions keeps the indexes in agreement and the caps.
LEMMA DiscardKeeps ==
  ASSUME PoolInv, NEW gone, Discard(gone)
  PROVE  PoolInv'
<1> USE DEF PoolInv, IndexesTyped, Discard
<1>1. by_hash' = [t \in Pool \ gone |-> by_hash[t]] /\ Pool' = Pool \ gone
  BY DEF HashWithout, Pool
<1>2. current_bytes' \in Nat /\ current_bytes' <= current_bytes
  BY SubBound DEF BytesWithout
<1>3. IndexesTyped'
  <2>1. by_sender' \in [DOMAIN by_sender' -> Tx]
    BY DEF SenderWithout
  <2>2. by_priority' \subseteq Keys
    BY DEF PriorityWithout
  <2> QED BY <1>1, <1>2, <2>1, <2>2 DEF Pool
<1>4. PriorityIndexAgrees'
  <2>1. \A t, u \in Pool : PriorityKey(t, by_hash[t]) = PriorityKey(u, by_hash[u]) => t = u
    BY DEF PriorityKey
  <2>2. by_priority' = {PriorityKey(t, by_hash[t]) : t \in Pool \ gone}
    BY <2>1 DEF PriorityWithout, IndexesAgree, PriorityIndexAgrees
  <2> QED BY <1>1, <2>2 DEF PriorityIndexAgrees
<1>5. SenderIndexAgrees'
  <2>1. \A t, u \in Pool : Slot(t) = Slot(u) => t = u
    BY DEF IndexesAgree, SenderIndexAgrees
  <2>2. DOMAIN by_sender' = {Slot(t) : t \in Pool \ gone}
    BY <2>1 DEF SenderWithout, IndexesAgree, SenderIndexAgrees
  <2>3. \A t \in Pool \ gone : by_sender'[Slot(t)] = t
    BY <2>2 DEF SenderWithout, IndexesAgree, SenderIndexAgrees
  <2> QED BY <1>1, <2>2, <2>3 DEF SenderIndexAgrees
<1>6. SeqUnique'
  BY <1>1 DEF IndexesAgree, SeqUnique
<1>7. CapsHold'
  <2>1. IsFiniteSet(Pool)
    BY TxAssumption, FS_Subset
  <2>2. IsFiniteSet(Pool') /\ Cardinality(Pool') <= Cardinality(Pool)
    BY <1>1, <2>1, FS_Subset
  <2>3. Cardinality(Pool) \in Nat /\ Cardinality(Pool') \in Nat
    BY <2>1, <2>2, FS_CardinalityType
  <2> QED BY <1>2, <2>2, <2>3, LimitAssumption DEF CapsHold
<1> QED BY <1>3, <1>4, <1>5, <1>6, <1>7 DEF IndexesAgree

\* An admission that was not refused, with its replacement and evictions,
\* keeps the indexes in agreement and ends within the caps.
LEMMA AdmitKeeps ==
  ASSUME PoolInv, NEW tx \in Tx, ~Refused(tx), Admit(tx)
  PROVE  PoolInv'
<1> DEFINE rival == Rival(tx)
           key == PriorityKey(tx, next_seq)
           ranked == PriorityWithout(rival) \cup {key}
           bytes == BytesWithout(rival) + tx.size
<1>1. PICK victims \in SUBSET ranked :
        LET out == {k.tx : k \in victims}
            gone == rival \cup (out \ {tx})
        IN /\ Evicts(ranked, bytes, victims)
           /\ next_seq' = next_seq + 1
           /\ by_priority' = ranked \ victims
           /\ current_bytes' = SaturatingSub(bytes, TxBytes(out))
           /\ IF tx \in out
              THEN /\ by_hash' = HashWithout(gone)
                   /\ by_sender' = SenderWithout(gone)
              ELSE /\ by_hash' = [t \in (Pool \ gone) \cup {tx} |->
                                    IF t = tx THEN next_seq ELSE by_hash[t]]
                   /\ by_sender' = [s \in DOMAIN SenderWithout(gone) \cup {Slot(tx)} |->
                                      IF s = Slot(tx) THEN tx ELSE by_sender[s]]
  BY DEF Admit
<1> DEFINE out == {k.tx : k \in victims}
           gone == rival \cup (out \ {tx})
<1> HIDE DEF rival, key, ranked, bytes, out, gone
<1>2. tx \notin Pool /\ Admissible(tx) /\ Fee(tx) \in Nat /\ tx.size \in Nat
  BY FeeNat, TxAssumption DEF Refused
<1>3. rival = {t \in Pool : Slot(t) = Slot(tx)}
  BY DEF rival, Rival, PoolInv, IndexesAgree, SenderIndexAgrees
<1>4. key \in Keys /\ key.tx = tx /\ key.seq = next_seq
  BY <1>2 DEF key, PriorityKey, Keys, PoolInv, IndexesTyped
\* The ranked keys are those of the pool without the replaced transaction,
\* and the incoming one.
<1>5. ranked = {PriorityKey(t, by_hash[t]) : t \in Pool \ rival} \cup {key}
  <2>1. \A t, u \in Pool : PriorityKey(t, by_hash[t]) = PriorityKey(u, by_hash[u]) => t = u
    BY DEF PriorityKey
  <2> QED BY <2>1 DEF ranked, PriorityWithout, PoolInv, IndexesAgree, PriorityIndexAgrees
<1>6. ranked \subseteq Keys
  <2>1. by_priority \subseteq Keys
    BY DEF PoolInv, IndexesTyped
  <2> QED BY <1>4, <2>1 DEF ranked, PriorityWithout
\* A transaction is evicted exactly when its own key is a victim.
<1>7. /\ \A t \in Pool \ rival : t \in out <=> PriorityKey(t, by_hash[t]) \in victims
      /\ tx \in out <=> key \in victims
  <2>1. \A k \in victims : \/ k = key
                           \/ \E t \in Pool \ rival : k = PriorityKey(t, by_hash[t])
    BY <1>1, <1>5
  <2>2. \A t \in Pool \ rival : PriorityKey(t, by_hash[t]).tx = t /\ t # tx
    BY <1>2 DEF PriorityKey
  <2> QED BY <2>1, <2>2, <1>4 DEF out
<1>8. out \subseteq (Pool \ rival) \cup {tx}
  BY <1>1, <1>4, <1>5 DEF out, PriorityKey
<1>9. /\ by_hash' = [t \in Pool' |-> IF t = tx THEN next_seq ELSE by_hash[t]]
      /\ Pool' = (Pool \ gone) \cup (IF tx \in out THEN {} ELSE {tx})
  <2>1. CASE tx \in out
    <3>1. by_hash' = [t \in Pool \ gone |-> by_hash[t]]
      BY <1>1, <2>1 DEF HashWithout, out, gone
    <3> QED BY <1>2, <2>1, <3>1 DEF Pool
  <2>2. CASE tx \notin out
    <3>1. by_hash' = [t \in (Pool \ gone) \cup {tx} |-> IF t = tx THEN next_seq ELSE by_hash[t]]
      BY <1>1, <2>2 DEF out, gone
    <3> QED BY <2>2, <3>1 DEF Pool
  <2> QED BY <2>1, <2>2
<1>10. Pool \ gone = (Pool \ rival) \ out
  BY <1>2 DEF gone
<1>11. PriorityIndexAgrees'
  <2>1. by_priority' = {PriorityKey(t, by_hash[t]) : t \in Pool \ gone}
                       \cup (IF tx \in out THEN {} ELSE {key})
    <3>1. by_priority' = ranked \ victims
      BY <1>1
    <3> QED BY <3>1, <1>5, <1>7, <1>10
  <2>2. \A t \in Pool \ gone : by_hash'[t] = by_hash[t]
    BY <1>2, <1>9
  <2>3. tx \notin out => by_hash'[tx] = next_seq
    BY <1>9
  <2>4. {PriorityKey(t, by_hash'[t]) : t \in Pool'}
          = {PriorityKey(t, by_hash[t]) : t \in Pool \ gone} \cup (IF tx \in out THEN {} ELSE {key})
    BY <1>9, <2>2, <2>3 DEF key
  <2> QED BY <2>1, <2>4 DEF PriorityIndexAgrees
<1>12. /\ by_sender' = [s \in DOMAIN by_sender' |-> IF s = Slot(tx) THEN tx ELSE by_sender[s]]
       /\ DOMAIN by_sender' = {Slot(t) : t \in Pool'}
  <2>1. \A t, u \in Pool : Slot(t) = Slot(u) => t = u
    BY DEF PoolInv, IndexesAgree, SenderIndexAgrees
  <2>2. gone \cap Pool = gone
    BY <1>3, <1>8 DEF gone
  <2>3. SenderWithout(gone) = [s \in {Slot(t) : t \in Pool \ gone} |-> by_sender[s]]
    <3>1. DOMAIN by_sender \ {Slot(t) : t \in gone} = {Slot(t) : t \in Pool \ gone}
      BY <2>1, <2>2 DEF PoolInv, IndexesAgree, SenderIndexAgrees
    <3> QED BY <3>1, <2>2 DEF SenderWithout
  <2>4. \A t \in Pool \ gone : Slot(t) # Slot(tx)
    BY <1>3, <1>10
  <2>5. CASE tx \in out
    <3>1. by_sender' = SenderWithout(gone)
      BY <1>1, <2>5 DEF out, gone
    <3>2. Pool' = Pool \ gone
      BY <1>9, <2>5
    <3>3. Slot(tx) \notin {Slot(t) : t \in Pool \ gone}
      BY <2>4
    <3>4. DOMAIN by_sender' = {Slot(t) : t \in Pool \ gone}
      BY <3>1, <2>3
    <3>5. by_sender' = [s \in DOMAIN by_sender' |-> IF s = Slot(tx) THEN tx ELSE by_sender[s]]
      BY <3>1, <2>3, <3>3, <3>4
    <3> QED BY <3>2, <3>4, <3>5
  <2>6. CASE tx \notin out
    <3>1. by_sender' = [s \in {Slot(t) : t \in Pool \ gone} \cup {Slot(tx)} |->
                          IF s = Slot(tx) THEN tx ELSE by_sender[s]]
      BY <1>1, <2>3, <2>6 DEF out, gone
    <3>2. Pool' = (Pool \ gone) \cup {tx}
      BY <1>9, <2>6
    <3>3. {Slot(t) : t \in Pool'} = {Slot(t) : t \in Pool \ gone} \cup {Slot(tx)}
      BY <3>2
    <3> QED BY <3>1, <3>3
  <2> QED BY <2>5, <2>6
<1>13. SenderIndexAgrees'
  <2>1. ASSUME NEW t \in Pool' PROVE by_sender'[Slot(t)] = t
    <3>1. t = tx \/ (t \in Pool \ gone /\ Slot(t) # Slot(tx))
      BY <1>3, <1>9, <1>10
    <3>2. t \in Pool => by_sender[Slot(t)] = t
      BY DEF PoolInv, IndexesAgree, SenderIndexAgrees
    <3> QED BY <3>1, <3>2, <1>12
  <2> QED BY <1>12, <2>1 DEF SenderIndexAgrees
<1>14. SeqUnique'
  <2>1. \A t \in Pool' : t # tx => t \in Pool /\ by_hash'[t] = by_hash[t]
    BY <1>9
  <2>2. tx \in Pool' => by_hash'[tx] = next_seq
    BY <1>9
  <2>3. next_seq' = next_seq + 1
    BY <1>1
  <2> QED BY <2>1, <2>2, <2>3 DEF SeqUnique, PoolInv, IndexesTyped, IndexesAgree
<1>15. IndexesTyped'
  <2>1. by_hash' \in [Pool' -> Nat] /\ Pool' \subseteq Tx
    BY <1>9 DEF PoolInv, IndexesTyped
  <2>2. by_priority' \subseteq Keys
    BY <1>1, <1>6
  <2>3. by_sender' \in [DOMAIN by_sender' -> Tx]
    <3>1. \A s \in DOMAIN by_sender' : s = Slot(tx) \/ s \in DOMAIN by_sender
      BY <1>9, <1>12 DEF PoolInv, IndexesAgree, SenderIndexAgrees
    <3> QED BY <1>12, <3>1 DEF PoolInv, IndexesTyped
  <2>4. bytes \in Nat
    BY <1>2, SubBound DEF bytes, BytesWithout, PoolInv, IndexesTyped
  <2>5. current_bytes' \in Nat
    BY <1>1, <2>4, SubBound
  <2> QED BY <2>1, <2>2, <2>3, <2>5, <1>1 DEF IndexesTyped, PoolInv
<1>16. CapsHold'
  <2>1. Pool' = {k.tx : k \in by_priority'}
    <3>1. by_priority' = {PriorityKey(t, by_hash'[t]) : t \in Pool'}
      BY <1>11 DEF PriorityIndexAgrees
    <3>2. \A t \in Pool' : PriorityKey(t, by_hash'[t]).tx = t
      BY DEF PriorityKey
    <3> QED BY <3>1, <3>2
  <2>2. WithinLimits(ranked \ victims, SaturatingSub(bytes, TxBytes(out)))
    BY <1>1 DEF Evicts, out
  <2> QED BY <2>1, <2>2, <1>1 DEF WithinLimits, CapsHold, out
<1> QED BY <1>11, <1>13, <1>14, <1>15, <1>16 DEF PoolInv, IndexesAgree

-----------------------------------------------------------------------------

\* An empty pool satisfies the invariant.
LEMMA PoolInitInv == PoolInit => PoolIInv
<1> SUFFICES ASSUME PoolInit PROVE PoolIInv
  OBVIOUS
<1>1. Pool = {} /\ by_priority = {} /\ DOMAIN by_sender = {}
  BY DEF PoolInit, Pool
<1>2. PoolTypeOK
  BY <1>1 DEF PoolInit, PoolTypeOK
<1>3. IndexesAgree
  BY <1>1 DEF PoolInit, IndexesAgree, PriorityIndexAgrees, SenderIndexAgrees, SeqUnique
<1>4. CapsHold
  BY <1>1, FS_EmptySet, LimitAssumption DEF PoolInit, CapsHold
<1> QED BY <1>2, <1>3, <1>4 DEF PoolIInv

\* Every operation of the pool, run to its end under the lock, keeps it.
LEMMA NextInv == PoolIInv /\ [PoolNext]_poolVars => PoolIInv'
<1> SUFFICES ASSUME PoolIInv, [PoolNext]_poolVars PROVE PoolIInv'
  OBVIOUS
<1>1. PoolInv /\ drained \subseteq Keys /\ readmitting \subseteq Keys
  BY DEF PoolIInv, PoolTypeOK, PoolInv, IndexesTyped
<1>2. ASSUME PoolInv', drained' \subseteq Keys, readmitting' \subseteq Keys
      PROVE  PoolIInv'
  BY <1>2 DEF PoolIInv, PoolTypeOK, PoolInv, IndexesTyped
<1>3. ASSUME UNCHANGED <<by_hash, by_priority, by_sender, current_bytes, next_seq>>
      PROVE  PoolInv'
  BY <1>1, <1>3 DEF PoolInv, IndexesTyped, IndexesAgree, PriorityIndexAgrees,
                    SenderIndexAgrees, SeqUnique, CapsHold, Pool
<1>4. CASE \E tx \in Tx : Insert(tx)
  BY <1>1, <1>2, <1>4, AdmitKeeps DEF Insert
<1>5. CASE \E hashes \in SUBSET Tx : RemoveMany(hashes)
  BY <1>1, <1>2, <1>5, DiscardKeeps DEF RemoveMany
<1>6. CASE DrainForBlock
  <2>1. PICK picked \in SUBSET by_priority :
          Discard({k.tx : k \in picked}) /\ drained' = picked
    BY <1>6 DEF DrainForBlock
  <2>2. drained' \subseteq Keys
    BY <1>1, <2>1 DEF PoolInv, IndexesTyped
  <2> QED BY <1>1, <1>2, <1>6, <2>1, <2>2, DiscardKeeps DEF DrainForBlock
<1>7. CASE Readmit
  BY <1>1, <1>2, <1>3, <1>7 DEF Readmit
<1>8. CASE ReadmitNext
  <2>1. PICK k \in readmitting :
          /\ IF Refused(k.tx)
             THEN UNCHANGED <<by_hash, by_priority, by_sender, current_bytes, next_seq>>
             ELSE Admit(k.tx)
          /\ readmitting' = readmitting \ {k}
          /\ UNCHANGED drained
    BY <1>8 DEF ReadmitNext
  <2>2. k.tx \in Tx
    BY <1>1 DEF Keys
  <2>3. PoolInv'
    BY <1>1, <1>3, <2>1, <2>2, AdmitKeeps
  <2> QED BY <1>1, <1>2, <2>1, <2>3
<1>9. CASE UNCHANGED poolVars
  BY <1>1, <1>2, <1>3, <1>9 DEF poolVars
<1> QED BY <1>4, <1>5, <1>6, <1>7, <1>8, <1>9 DEF PoolNext

\* Every reachable pool satisfies the invariant.
LEMMA PoolInvariance == PoolSpec => []PoolIInv
BY PoolInitInv, NextInv, PTL DEF PoolSpec

\* The types of the pool's state hold for every set of transactions.
THEOREM PoolTypeCorrect == PoolSpec => []PoolTypeOK
<1>1. PoolIInv => PoolTypeOK
  BY DEF PoolIInv
<1> QED BY <1>1, PoolInvariance, PTL

\* Hash, priority and sender index describe the same transactions after any
\* mix of insert, replacement, eviction, drain, removal and readmission.
THEOREM IndexAgreement == PoolSpec => []IndexesAgree
<1>1. PoolIInv => IndexesAgree
  BY DEF PoolIInv
<1> QED BY <1>1, PoolInvariance, PTL

\* No operation leaves the pool above max_count or max_bytes.
THEOREM PoolBounded == PoolSpec => []CapsHold
<1>1. PoolIInv => CapsHold
  BY DEF PoolIInv
<1> QED BY <1>1, PoolInvariance, PTL

\* An admission hands the incoming transaction's slot, and no other, to a new
\* transaction, and only over the head of a cheaper one.
LEMMA AdmitBumps ==
  ASSUME PoolInv, NEW tx \in Tx, ~Refused(tx), Admit(tx),
         NEW s \in DOMAIN by_sender \cap DOMAIN by_sender', by_sender'[s] # by_sender[s]
  PROVE  Fee(by_sender'[s]) > Fee(by_sender[s])
<1>1. s = Slot(tx) /\ by_sender'[s] = tx
  BY DEF Admit, SenderWithout
<1>2. by_sender[s] \in Rival(tx)
  BY <1>1 DEF Rival
<1>3. Fee(tx) \in Nat /\ ~(Fee(tx) <= Fee(by_sender[s]))
  BY <1>2, FeeNat DEF Refused
<1>4. PICK t \in Pool : Slot(t) = s /\ by_sender[s] = t
  BY DEF PoolInv, IndexesAgree, SenderIndexAgrees
<1>5. PriorityKey(t, by_hash[t]) \in Keys
  BY <1>4 DEF PoolInv, IndexesTyped, IndexesAgree, PriorityIndexAgrees
<1>6. Fee(t) \in Nat
  BY <1>5 DEF Keys, PriorityKey
<1> QED BY <1>1, <1>3, <1>4, <1>6

\* A slot changes hands only for a strictly higher fee, for every set of
\* transactions; replaying a drained batch is no exception.
THEOREM SlotsBumpFees == PoolSpec => FeeBumpOnly
<1> DEFINE Bump == \A s \in DOMAIN by_sender \cap DOMAIN by_sender' :
                     by_sender'[s] # by_sender[s] => Fee(by_sender'[s]) > Fee(by_sender[s])
<1>1. ASSUME PoolIInv, [PoolNext]_poolVars PROVE [Bump]_poolVars
  <2>1. PoolInv /\ readmitting \subseteq Keys
    BY <1>1 DEF PoolIInv, PoolTypeOK, PoolInv, IndexesTyped
  <2>2. ASSUME NEW gone, Discard(gone) PROVE Bump
    BY <2>2 DEF Discard, SenderWithout
  <2>3. CASE \E tx \in Tx : Insert(tx)
    BY <2>1, <2>3, AdmitBumps DEF Insert
  <2>4. CASE \E hashes \in SUBSET Tx : RemoveMany(hashes)
    BY <2>2, <2>4 DEF RemoveMany
  <2>5. CASE DrainForBlock
    BY <2>2, <2>5 DEF DrainForBlock
  <2>6. CASE Readmit
    BY <2>6 DEF Readmit
  <2>7. CASE ReadmitNext
    <3>1. PICK k \in readmitting : UNCHANGED by_sender \/ (~Refused(k.tx) /\ Admit(k.tx))
      BY <2>7 DEF ReadmitNext
    <3> QED BY <2>1, <3>1, AdmitBumps DEF Keys
  <2> QED BY <1>1, <2>3, <2>4, <2>5, <2>6, <2>7 DEF PoolNext
<1>2. PoolIInv /\ [PoolNext]_poolVars => [Bump]_poolVars
  BY <1>1
<1> QED BY <1>2, PoolInvariance, PTL DEF PoolSpec, FeeBumpOnly

-----------------------------------------------------------------------------
(* What an admission pushes out.  The byte counter is the bytes of the     *)
(* pool, so the loop's subtractions never saturate, and its victims are    *)
(* those below the longest prefix of the priority order that fits.         *)

Sizes == [t \in Tx |-> t.size]

\* TxBytes is the sum of the sizes.
LEMMA BytesSum ==
  ASSUME NEW S \in SUBSET Tx
  PROVE  /\ TxBytes(S) = SumFunctionOnSet(Sizes, S)
         /\ IsFiniteSet(S) /\ \A x \in S : Sizes[x] \in Nat /\ Sizes[x] = x.size
<1> DEFINE Body(g, s) == IF s = {} THEN 0
                         ELSE LET x == CHOOSE y \in s : TRUE IN x.size + g[s \ {x}]
           iter == CHOOSE g : g = [s \in SUBSET S |-> Body(g, s)]
<1>1. IsFiniteSet(S) /\ \A x \in S : Sizes[x] \in Nat /\ Sizes[x] = x.size
  BY TxAssumption, FS_Subset DEF Sizes
<1>2. PICK g : IsSum(g, Sizes, S) /\ SumFunctionOnSet(Sizes, S) = g[S]
  BY <1>1, SumIs
<1>3. ASSUME NEW s \in SUBSET S PROVE g[s] = Body(g, s)
  <2>1. CASE s # {}
    <3> DEFINE x == CHOOSE y \in s : TRUE
    <3>1. g[s] = Sizes[x] + g[s \ {x}] /\ x \in S
      BY <1>2, <2>1 DEF IsSum
    <3> QED BY <1>1, <2>1, <3>1
  <2> QED BY <1>2, <2>1 DEF IsSum
<1>4. g = [s \in SUBSET S |-> Body(g, s)]
  BY <1>2, <1>3 DEF IsSum
<1>5. iter = [s \in SUBSET S |-> Body(iter, s)]
  BY <1>4
<1>6. TxBytes(S) = iter[S]
  BY DEF TxBytes, MapThenSumSet, MapThenFoldSet
<1>7. IsSum(iter, Sizes, S)
  <2>1. \A s \in SUBSET S : iter[s] = g[s]
    <3> SUFFICES ASSUME NEW u \in SUBSET S, iter[u] # g[u] PROVE FALSE
      OBVIOUS
    <3> DEFINE T == {t \in SUBSET S : iter[t] # g[t]}
    <3> HIDE DEF iter
    <3>1. PICK s \in T : \A t \in T : t \subseteq s => t = s
      <4>1. T \subseteq SUBSET S /\ T # {}
        OBVIOUS
      <4> HIDE DEF T
      <4> QED BY <1>1, <4>1, SmallestSubset
    <3>2. iter[s] = Body(iter, s) /\ g[s] = Body(g, s)
      <4> HIDE DEF Body
      <4> QED BY <1>3, <1>5
    <3>3. CASE s # {}
      <4> DEFINE x == CHOOSE y \in s : TRUE
      <4>1. x \in s
        BY <3>3
      <4>2. iter[s] = x.size + iter[s \ {x}] /\ g[s] = x.size + g[s \ {x}]
        BY <3>2, <3>3
      <4> HIDE DEF x
      <4>3. iter[s \ {x}] = g[s \ {x}]
        BY <3>1, <4>1
      <4> QED BY <3>1, <4>2, <4>3
    <3> QED BY <3>1, <3>2, <3>3
  <2>2. iter = g
    <3>1. iter = [s \in SUBSET S |-> iter[s]] /\ g = [s \in SUBSET S |-> g[s]]
      BY <1>4, <1>5
    <3> HIDE DEF iter
    <3> QED BY <2>1, <3>1
  <2> QED BY <1>2, <2>2
<1>8. iter[S] = g[S]
  <2> HIDE DEF iter
  <2> QED BY <1>1, <1>2, <1>7, SumsAgree
<1> QED BY <1>1, <1>2, <1>6, <1>8

\* The bytes of some transactions are a number, and those of two sets apart add up.
LEMMA BytesAdd ==
  ASSUME NEW S \in SUBSET Tx, NEW R \in SUBSET Tx, S \cap R = {}
  PROVE  TxBytes(S) \in Nat /\ TxBytes(R) \in Nat /\ TxBytes(S \cup R) = TxBytes(S) + TxBytes(R)
<1>1. S \cup R \in SUBSET Tx
  OBVIOUS
<1>2. Sums(Sizes, S) /\ Sums(Sizes, R)
  BY BytesSum DEF Sums
<1>3. SumFunctionOnSet(Sizes, S \cup R) = SumFunctionOnSet(Sizes, S) + SumFunctionOnSet(Sizes, R)
  BY <1>2, SumUnion
<1>4. SumFunctionOnSet(Sizes, S) \in Nat /\ SumFunctionOnSet(Sizes, R) \in Nat
  BY BytesSum, SumNat
<1> QED BY <1>1, <1>3, <1>4, BytesSum

\* What is taken out of a set leaves the bytes of the rest, without saturation.
LEMMA BytesLeft ==
  ASSUME NEW S \in SUBSET Tx, NEW R \in SUBSET S
  PROVE  SaturatingSub(TxBytes(S), TxBytes(R)) = TxBytes(S \ R) /\ TxBytes(S) \in Nat
<1>1. (S \ R) \cup R = S /\ (S \ R) \cap R = {} /\ S \ R \in SUBSET Tx /\ R \in SUBSET Tx
  OBVIOUS
<1>2. /\ TxBytes(S \ R) \in Nat /\ TxBytes(R) \in Nat
      /\ TxBytes(S) = TxBytes(S \ R) + TxBytes(R)
  BY <1>1, BytesAdd
<1> QED BY <1>2 DEF SaturatingSub

\* One transaction more.
LEMMA BytesOne ==
  ASSUME NEW S \in SUBSET Tx, NEW t \in Tx, t \notin S
  PROVE  TxBytes(S \cup {t}) = TxBytes(S) + t.size
<1>1. TxBytes({t}) = t.size
  <2>1. SumFunctionOnSet(Sizes, {t}) = Sizes[t] + SumFunctionOnSet(Sizes, {t} \ {t})
    BY BytesSum, SumRemove DEF Sums
  <2>2. {t} \ {t} = {} /\ SumFunctionOnSet(Sizes, {}) = 0
    BY SumEmpty
  <2>3. TxBytes({t}) = SumFunctionOnSet(Sizes, {t}) /\ Sizes[t] = t.size /\ Sizes[t] \in Nat
    BY BytesSum
  <2> QED BY <2>1, <2>2, <2>3
<1>2. {t} \in SUBSET Tx /\ S \cap {t} = {}
  OBVIOUS
<1> QED BY <1>1, <1>2, BytesAdd

\* The counter counts what is pooled.
BytesAgree == current_bytes = TxBytes(Pool)

\* An admission, in terms of the pool: the victims are taken from the keys of
\* what was pooled and not replaced, and of the newcomer.
Contenders(tx) == (Pool \ Rival(tx)) \cup {tx}
KeyOf(tx, t) == PriorityKey(t, IF t = tx THEN next_seq ELSE by_hash[t])
Admission(tx, out) ==
  LET ranked == {KeyOf(tx, t) : t \in Contenders(tx)}
  IN /\ Evicts(ranked, BytesWithout(Rival(tx)) + tx.size, {KeyOf(tx, t) : t \in out})
     /\ Pool' = Contenders(tx) \ out
     /\ current_bytes' = SaturatingSub(BytesWithout(Rival(tx)) + tx.size, TxBytes(out))

\* Whatever insert admits is such an admission, for some set of victims.
LEMMA AdmitIs ==
  ASSUME PoolInv, NEW tx \in Tx, ~Refused(tx), Admit(tx)
  PROVE  \E out \in SUBSET Contenders(tx) : Admission(tx, out)
<1> DEFINE key == PriorityKey(tx, next_seq)
           ranked == PriorityWithout(Rival(tx)) \cup {key}
           bytes == BytesWithout(Rival(tx)) + tx.size
           Out(victims) == {k.tx : k \in victims}
           Gone(victims) == Rival(tx) \cup (Out(victims) \ {tx})
<1>1. PICK victims \in SUBSET ranked :
        /\ Evicts(ranked, bytes, victims)
        /\ current_bytes' = SaturatingSub(bytes, TxBytes(Out(victims)))
        /\ IF tx \in Out(victims)
           THEN by_hash' = HashWithout(Gone(victims))
           ELSE by_hash' = [t \in (Pool \ Gone(victims)) \cup {tx} |-> IF t = tx THEN next_seq ELSE by_hash[t]]
  BY DEF Admit
<1> HIDE DEF ranked, bytes, key
<1>2. PICK rival : rival = Rival(tx)
  OBVIOUS
<1>3. tx \notin Pool /\ rival = {t \in Pool : Slot(t) = Slot(tx)}
  BY <1>2 DEF Refused, Rival, PoolInv, IndexesAgree, SenderIndexAgrees
<1>4. ranked = {KeyOf(tx, t) : t \in Contenders(tx)}
  <2>1. \A t, u \in Pool : PriorityKey(t, by_hash[t]) = PriorityKey(u, by_hash[u]) => t = u
    BY DEF PriorityKey
  <2>2. ranked = {PriorityKey(t, by_hash[t]) : t \in Pool \ rival} \cup {key}
    BY <1>2, <1>3, <2>1 DEF ranked, PriorityWithout, PoolInv, IndexesAgree, PriorityIndexAgrees
  <2>3. \A t \in Pool \ rival : KeyOf(tx, t) = PriorityKey(t, by_hash[t])
    BY <1>3 DEF KeyOf
  <2>4. KeyOf(tx, tx) = key
    BY DEF KeyOf, key
  <2> QED BY <1>2, <2>2, <2>3, <2>4 DEF Contenders
<1>5. \A t : KeyOf(tx, t).tx = t
  BY DEF KeyOf, PriorityKey
<1>6. PICK out : out = Out(victims)
  OBVIOUS
<1>7. out \in SUBSET Contenders(tx) /\ victims = {KeyOf(tx, t) : t \in out}
  <2>1. \A k \in victims : k.tx \in Contenders(tx) /\ k = KeyOf(tx, k.tx)
    BY <1>1, <1>4, <1>5
  <2> QED BY <1>6, <2>1
<1>8. Pool' = Contenders(tx) \ out
  <2>1. Pool \ Gone(victims) = (Pool \ rival) \ out
    BY <1>2, <1>3, <1>6
  <2>2. CASE tx \in out
    <3>1. by_hash' = [t \in Pool \ Gone(victims) |-> by_hash[t]]
      BY <1>1, <1>6, <2>2 DEF HashWithout
    <3>2. Pool' = Pool \ Gone(victims)
      BY <3>1 DEF Pool
    <3> QED BY <1>2, <2>1, <2>2, <3>2 DEF Contenders
  <2>3. CASE tx \notin out
    <3>1. by_hash' = [t \in (Pool \ Gone(victims)) \cup {tx} |-> IF t = tx THEN next_seq ELSE by_hash[t]]
      BY <1>1, <1>6, <2>3
    <3>2. Pool' = (Pool \ Gone(victims)) \cup {tx}
      BY <3>1 DEF Pool
    <3> QED BY <1>2, <2>1, <2>3, <3>2 DEF Contenders
  <2> QED BY <2>2, <2>3
<1> HIDE DEF Out, Gone
<1>9. Admission(tx, out)
  BY <1>1, <1>4, <1>6, <1>7, <1>8 DEF Admission, bytes
<1> QED BY <1>7, <1>9

\* The counter stays right under removals.
LEMMA DiscardCounts == ASSUME PoolInv, BytesAgree, NEW gone, Discard(gone) PROVE BytesAgree'
<1>1. Pool' = Pool \ (gone \cap Pool)
  BY DEF Discard, HashWithout, Pool
<1>2. Pool \in SUBSET Tx
  BY DEF PoolInv, IndexesTyped
<1>3. current_bytes' = SaturatingSub(TxBytes(Pool), TxBytes(gone \cap Pool))
  BY DEF Discard, BytesWithout, BytesAgree
<1> QED BY <1>1, <1>2, <1>3, BytesLeft DEF BytesAgree

\* What contends for the pool, and its bytes.
LEMMA ContendersAre ==
  ASSUME PoolInv, BytesAgree, NEW tx \in Tx, ~Refused(tx)
  PROVE  /\ Contenders(tx) \in SUBSET Tx
         /\ BytesWithout(Rival(tx)) + tx.size = TxBytes(Contenders(tx))
<1>1. PICK rival : rival = Rival(tx)
  OBVIOUS
<1>2. tx \notin Pool /\ rival \subseteq Pool /\ Pool \in SUBSET Tx /\ Pool \ rival \in SUBSET Tx
  BY <1>1 DEF Refused, Rival, PoolInv, IndexesTyped, IndexesAgree, SenderIndexAgrees
<1>3. BytesWithout(rival) = TxBytes(Pool \ rival)
  <2>1. rival \cap Pool = rival
    BY <1>2
  <2>2. BytesWithout(rival) = SaturatingSub(TxBytes(Pool), TxBytes(rival))
    BY <2>1 DEF BytesWithout, BytesAgree
  <2> QED BY <1>2, <2>2, BytesLeft
<1>4. TxBytes((Pool \ rival) \cup {tx}) = TxBytes(Pool \ rival) + tx.size
  BY <1>2, BytesOne
<1> QED BY <1>1, <1>2, <1>3, <1>4 DEF Contenders

\* And under an admission.
LEMMA AdmitCounts ==
  ASSUME PoolInv, BytesAgree, NEW tx \in Tx, ~Refused(tx), Admit(tx)
  PROVE  BytesAgree'
<1>1. PICK out \in SUBSET Contenders(tx) : Admission(tx, out)
  BY AdmitIs
<1>2. /\ Pool' = Contenders(tx) \ out
      /\ current_bytes' = SaturatingSub(TxBytes(Contenders(tx)), TxBytes(out))
  BY <1>1, ContendersAre DEF Admission
<1> QED BY <1>2, BytesLeft, ContendersAre DEF BytesAgree

\* The keys that contend have a total order.
LEMMA KeysOrdered ==
  ASSUME PoolInv, NEW tx \in Tx, ~Refused(tx)
  PROVE  /\ \A t \in Contenders(tx) : Fee(t) \in Nat /\ KeyOf(tx, t).fee = Fee(t) /\ KeyOf(tx, t).tx = t
         /\ \A t, u \in Contenders(tx) :
              t # u => Outranks(KeyOf(tx, t), KeyOf(tx, u)) \/ Outranks(KeyOf(tx, u), KeyOf(tx, t))
         /\ \A t, u, v \in Contenders(tx) :
              /\ ~(Outranks(KeyOf(tx, t), KeyOf(tx, u)) /\ Outranks(KeyOf(tx, u), KeyOf(tx, t)))
              /\ Outranks(KeyOf(tx, t), KeyOf(tx, u)) /\ Outranks(KeyOf(tx, u), KeyOf(tx, v))
                   => Outranks(KeyOf(tx, t), KeyOf(tx, v))
<1>1. tx \notin Pool /\ Admissible(tx) /\ Contenders(tx) \subseteq Pool \cup {tx}
  BY DEF Refused, Contenders
<1> DEFINE seq == [t \in Pool \cup {tx} |-> IF t = tx THEN next_seq ELSE by_hash[t]]
<1>2. \A t \in Pool \cup {tx} : seq[t] \in Nat
  BY <1>1 DEF PoolInv, IndexesTyped
<1>3. \A t, u \in Pool \cup {tx} : seq[t] = seq[u] => t = u
  BY <1>1 DEF PoolInv, IndexesTyped, IndexesAgree, SeqUnique
<1>4. \A t \in Pool \cup {tx} : Fee(t) \in Nat
  <2>1. Fee(tx) \in Nat
    BY <1>1, FeeNat
  <2>2. ASSUME NEW t \in Pool PROVE Fee(t) \in Nat
    <3>1. PriorityKey(t, by_hash[t]) \in Keys
      BY <2>2 DEF PoolInv, IndexesTyped, IndexesAgree, PriorityIndexAgrees
    <3> QED BY <3>1 DEF Keys, PriorityKey
  <2> QED BY <2>1, <2>2
<1>5. \A t \in Contenders(tx) :
        KeyOf(tx, t).fee = Fee(t) /\ KeyOf(tx, t).tx = t /\ KeyOf(tx, t).seq = seq[t]
  BY <1>1 DEF KeyOf, PriorityKey
<1> HIDE DEF seq
<1>6. \A t, u \in Contenders(tx) :
        Outranks(KeyOf(tx, t), KeyOf(tx, u)) <=> Fee(t) > Fee(u) \/ (Fee(t) = Fee(u) /\ seq[t] < seq[u])
  BY <1>5 DEF Outranks
<1>7. ASSUME NEW t \in Contenders(tx), NEW u \in Contenders(tx), t # u
      PROVE  Outranks(KeyOf(tx, t), KeyOf(tx, u)) \/ Outranks(KeyOf(tx, u), KeyOf(tx, t))
  <2>1. Fee(t) \in Nat /\ Fee(u) \in Nat /\ seq[t] \in Nat /\ seq[u] \in Nat /\ seq[t] # seq[u]
    BY <1>1, <1>2, <1>3, <1>4, <1>7
  <2> QED BY <1>6, <2>1
<1>8. ASSUME NEW t \in Contenders(tx), NEW u \in Contenders(tx), NEW v \in Contenders(tx)
      PROVE  /\ ~(Outranks(KeyOf(tx, t), KeyOf(tx, u)) /\ Outranks(KeyOf(tx, u), KeyOf(tx, t)))
             /\ Outranks(KeyOf(tx, t), KeyOf(tx, u)) /\ Outranks(KeyOf(tx, u), KeyOf(tx, v))
                  => Outranks(KeyOf(tx, t), KeyOf(tx, v))
  <2>1. /\ Fee(t) \in Nat /\ Fee(u) \in Nat /\ Fee(v) \in Nat
        /\ seq[t] \in Nat /\ seq[u] \in Nat /\ seq[v] \in Nat
    BY <1>1, <1>2, <1>4
  <2> QED BY <1>6, <2>1
<1> QED BY <1>1, <1>4, <1>5, <1>7, <1>8

\* Among victims there is one that outranks the others.
LEMMA BestVictim ==
  ASSUME PoolInv, NEW tx \in Tx, ~Refused(tx), Contenders(tx) \in SUBSET Tx,
         NEW out \in SUBSET Contenders(tx), out # {}
  PROVE  \E v \in out : \A t \in out \ {v} : Outranks(KeyOf(tx, v), KeyOf(tx, t))
<1> DEFINE Above(v) == {t \in out : Outranks(KeyOf(tx, t), KeyOf(tx, v))}
           T == {Above(v) : v \in out}
<1>1. IsFiniteSet(out)
  <2>1. out \in SUBSET Tx
    OBVIOUS
  <2> QED BY <2>1, TxAssumption, FS_Subset
<1>2. T \subseteq SUBSET out /\ T # {}
  OBVIOUS
<1>3. PICK s \in T : \A r \in T : r \subseteq s => r = s
  <2> HIDE DEF T
  <2> QED BY <1>1, <1>2, SmallestSubset
<1>4. PICK v \in out : s = Above(v)
  OBVIOUS
<1>5. ASSUME NEW t \in Above(v) PROVE FALSE
  <2>1. t \in out /\ Outranks(KeyOf(tx, t), KeyOf(tx, v))
    BY <1>5
  <2>2. Above(t) \subseteq Above(v) /\ t \notin Above(t)
    BY <2>1, KeysOrdered
  <2>3. Above(t) \in T
    BY <2>1
  <2> QED BY <1>3, <1>4, <1>5, <2>2, <2>3
<1>6. ASSUME NEW t \in out \ {v} PROVE Outranks(KeyOf(tx, v), KeyOf(tx, t))
  <2>1. ~Outranks(KeyOf(tx, t), KeyOf(tx, v))
    BY <1>5
  <2> QED BY <2>1, KeysOrdered
<1> QED BY <1>6

\* What an admission pushes out pays no more than what stays, and together with
\* the best of it the pool would not fit.
LEMMA AdmitEvicts ==
  ASSUME PoolInv, BytesAgree, NEW tx \in Tx, ~Refused(tx),
         NEW out \in SUBSET Contenders(tx), Admission(tx, out)
  PROVE  /\ \A t \in out, u \in Pool' : Fee(t) <= Fee(u)
         /\ out # {} => \E v \in out : ~Fits(Pool' \cup {v})
<1> DEFINE ranked == {KeyOf(tx, t) : t \in Contenders(tx)}
           victims == {KeyOf(tx, t) : t \in out}
           bytes == TxBytes(Contenders(tx))
           left(gone) == SaturatingSub(bytes, TxBytes({k.tx : k \in gone}))
           below(v) == {k \in ranked : Outranks(v, k)}
<1>1. /\ Pool' = Contenders(tx) \ out /\ Contenders(tx) \in SUBSET Tx
      /\ \A v \in victims, k \in ranked \ victims : Outranks(k, v)
      /\ \A v \in victims : ~WithinLimits(ranked \ below(v), left(below(v)))
  BY ContendersAre DEF Admission, Evicts
<1>2. \A t \in Contenders(tx) : t \in out <=> KeyOf(tx, t) \in victims
  BY KeysOrdered
<1>3. ASSUME NEW t \in out, NEW u \in Pool' PROVE Fee(t) <= Fee(u)
  <2>1. Outranks(KeyOf(tx, u), KeyOf(tx, t)) /\ t \in Contenders(tx) /\ u \in Contenders(tx)
    BY <1>1, <1>2, <1>3
  <2>2. /\ Fee(t) \in Nat /\ Fee(u) \in Nat
        /\ KeyOf(tx, u).fee = Fee(u) /\ KeyOf(tx, t).fee = Fee(t)
    BY <2>1, KeysOrdered
  <2> QED BY <2>1, <2>2 DEF Outranks
<1>4. ASSUME out # {} PROVE \E v \in out : ~Fits(Pool' \cup {v})
  <2>1. PICK v \in out : \A t \in out \ {v} : Outranks(KeyOf(tx, v), KeyOf(tx, t))
    BY <1>1, <1>4, BestVictim
  <2>2. PICK k : k = KeyOf(tx, v)
    OBVIOUS
  <2>3. k \in victims
    BY <2>2
  <2>4. below(k) = {KeyOf(tx, t) : t \in out \ {v}}
    <3>1. \A t \in Contenders(tx) : Outranks(k, KeyOf(tx, t)) <=> t \in out \ {v}
      <4>1. ASSUME NEW t \in out \ {v} PROVE Outranks(k, KeyOf(tx, t))
        BY <2>1, <2>2
      <4>2. ASSUME NEW t \in Contenders(tx), t \notin out PROVE ~Outranks(k, KeyOf(tx, t))
        <5>1. Outranks(KeyOf(tx, t), k)
          BY <1>1, <1>2, <2>2, <4>2
        <5> QED BY <2>2, <5>1, KeysOrdered
      <4>3. ~Outranks(k, KeyOf(tx, v))
        BY <2>2, KeysOrdered
      <4> QED BY <4>1, <4>2, <4>3
    <3> QED BY <3>1
  <2>5. {l.tx : l \in below(k)} = out \ {v}
    <3>1. \A t \in out \ {v} : KeyOf(tx, t).tx = t
      BY KeysOrdered
    <3> HIDE DEF below
    <3> QED BY <2>4, <3>1
  <2>6. {l.tx : l \in ranked \ below(k)} = Pool' \cup {v}
    <3>1. ranked \ below(k) = {KeyOf(tx, t) : t \in Contenders(tx) \ (out \ {v})}
      <4>1. \A t, u \in Contenders(tx) : KeyOf(tx, t) = KeyOf(tx, u) => t = u
        BY KeysOrdered
      <4> HIDE DEF below
      <4> QED BY <2>4, <4>1
    <3>2. \A t \in Contenders(tx) : KeyOf(tx, t).tx = t
      BY KeysOrdered
    <3>3. Contenders(tx) \ (out \ {v}) = Pool' \cup {v}
      BY <1>1
    <3> HIDE DEF below, ranked
    <3> QED BY <3>1, <3>2, <3>3
  <2>7. left(below(k)) = TxBytes(Pool' \cup {v})
    <3>1. Contenders(tx) \ (out \ {v}) = Pool' \cup {v}
      BY <1>1
    <3>2. SaturatingSub(bytes, TxBytes(out \ {v})) = TxBytes(Contenders(tx) \ (out \ {v}))
      BY <1>1, BytesLeft
    <3> HIDE DEF below, bytes
    <3> QED BY <2>5, <3>1, <3>2
  <2>8. ~WithinLimits(ranked \ below(k), left(below(k)))
    BY <1>1, <2>3
  <2> HIDE DEF ranked, below, left
  <2> QED BY <2>6, <2>7, <2>8 DEF WithinLimits, Fits
<1> QED BY <1>3, <1>4

\* So an admission evicts the lowest fees and no more than the caps ask for.
LEMMA AdmitFair ==
  ASSUME PoolInv, BytesAgree, PoolInv', BytesAgree', NEW tx \in Tx, ~Refused(tx), Admit(tx)
  PROVE  PushesOutLowest
<1> DEFINE newcomers == {v \in Tx \ Pool : Admissible(v) /\ (v \in Pool' \/ Pool' \subseteq Pool)}
           replaced(t) == \E v \in newcomers : Slot(v) = Slot(t) /\ Fee(v) > Fee(t)
           evicted == {t \in Pool \ Pool' : ~replaced(t)}
<1>1. PICK out \in SUBSET Contenders(tx) : Admission(tx, out)
  BY AdmitIs
<1>2. /\ Pool' = Contenders(tx) \ out
      /\ tx \notin Pool /\ Admissible(tx) /\ Fee(tx) \in Nat
  BY <1>1, FeeNat DEF Admission, Refused
<1>3. tx \in newcomers
  <2>1. tx \in Pool' \/ Pool' \subseteq Pool
    BY <1>2 DEF Contenders
  <2> QED BY <1>2, <2>1
<1>4. \A r \in Rival(tx) : r \in Pool /\ Slot(tx) = Slot(r) /\ Fee(tx) > Fee(r)
  <2>1. ASSUME NEW r \in Rival(tx) PROVE r \in Pool /\ Slot(tx) = Slot(r) /\ Fee(tx) > Fee(r)
    <3>1. r \in Pool /\ Slot(tx) = Slot(r)
      BY DEF Rival, PoolInv, IndexesAgree, SenderIndexAgrees
    <3>2. Fee(r) \in Nat
      <4>1. PriorityKey(r, by_hash[r]) \in Keys
        BY <3>1 DEF PoolInv, IndexesTyped, IndexesAgree, PriorityIndexAgrees
      <4> QED BY <4>1 DEF Keys, PriorityKey
    <3>3. ~(Fee(tx) <= Fee(r))
      BY DEF Refused
    <3> QED BY <1>2, <3>1, <3>2, <3>3
  <2> QED BY <2>1
<1>5. evicted \subseteq out
  <2>1. \A t \in Rival(tx) : replaced(t)
    BY <1>3, <1>4
  <2> HIDE DEF replaced
  <2> QED BY <1>2, <2>1 DEF Contenders
<1>6. Fits(Pool')
  BY DEF PoolInv, CapsHold, BytesAgree, Fits
<1>7. /\ \A t \in out, u \in Pool' : Fee(t) <= Fee(u)
      /\ out # {} => \E v \in out : ~Fits(Pool' \cup {v})
  BY <1>1, AdmitEvicts
<1>8. out \subseteq (Pool \cup newcomers) \ Pool'
  <2>1. out \subseteq Pool \cup {tx}
    BY DEF Contenders
  <2> HIDE DEF newcomers
  <2> QED BY <1>2, <1>3, <2>1
<1> QED BY <1>5, <1>6, <1>7, <1>8 DEF PushesOutLowest

PoolBytesInv == PoolIInv /\ BytesAgree

\* A step that admits something is an admission.
LEMMA StepAdmits ==
  ASSUME PoolBytesInv, [PoolNext]_poolVars
  PROVE  /\ BytesAgree'
         /\ next_seq' # next_seq => \E tx \in Tx : ~Refused(tx) /\ Admit(tx)
<1>1. PoolInv /\ BytesAgree /\ readmitting \subseteq Keys /\ next_seq \in Nat
  BY DEF PoolBytesInv, PoolIInv, PoolTypeOK, PoolInv, IndexesTyped
<1>2. ASSUME UNCHANGED <<by_hash, by_priority, by_sender, current_bytes, next_seq>>
      PROVE  BytesAgree'
  BY <1>1, <1>2 DEF BytesAgree, Pool
<1>3. CASE \E tx \in Tx : Insert(tx)
  BY <1>1, <1>3, AdmitCounts DEF Insert
<1>4. CASE \E hashes \in SUBSET Tx : RemoveMany(hashes)
  BY <1>1, <1>4, DiscardCounts DEF RemoveMany, Discard
<1>5. CASE DrainForBlock
  <2>1. PICK gone : Discard(gone)
    BY <1>5 DEF DrainForBlock
  <2> QED BY <1>1, <2>1, DiscardCounts DEF Discard
<1>6. CASE Readmit
  BY <1>2, <1>6 DEF Readmit
<1>7. CASE ReadmitNext
  <2>1. PICK k \in readmitting :
          IF Refused(k.tx)
          THEN UNCHANGED <<by_hash, by_priority, by_sender, current_bytes, next_seq>>
          ELSE Admit(k.tx)
    BY <1>7 DEF ReadmitNext
  <2>2. k.tx \in Tx
    BY <1>1 DEF Keys
  <2> QED BY <1>1, <1>2, <2>1, <2>2, AdmitCounts
<1>8. CASE UNCHANGED poolVars
  BY <1>2, <1>8 DEF poolVars
<1> QED BY <1>3, <1>4, <1>5, <1>6, <1>7, <1>8 DEF PoolNext

\* Whatever the transactions and the limits: an admission evicts those that pay
\* least, and only as many as the caps ask for, since the byte counter is never
\* off (insert, remove_by_hash).
THEOREM LowestFeesEvicted == PoolSpec => EvictsLowestFees
<1>1. PoolInit => PoolBytesInv
  <2> SUFFICES ASSUME PoolInit PROVE PoolBytesInv
    OBVIOUS
  <2>1. Pool = {} /\ current_bytes = 0
    BY DEF PoolInit, Pool
  <2>2. TxBytes({}) = 0
    <3>1. {} \in SUBSET Tx
      OBVIOUS
    <3> QED BY <3>1, BytesSum, SumEmpty
  <2> QED BY <2>1, <2>2, PoolInitInv DEF PoolBytesInv, BytesAgree
<1>2. PoolBytesInv /\ [PoolNext]_poolVars => PoolBytesInv'
  BY NextInv, StepAdmits DEF PoolBytesInv
<1>3. ASSUME PoolBytesInv, [PoolNext]_poolVars PROVE [next_seq' # next_seq => PushesOutLowest]_poolVars
  <2>1. PoolInv /\ BytesAgree /\ PoolInv' /\ BytesAgree'
    BY <1>2, <1>3 DEF PoolBytesInv, PoolIInv, PoolTypeOK, PoolInv, IndexesTyped
  <2>2. CASE next_seq' # next_seq
    <3>1. PICK tx \in Tx : ~Refused(tx) /\ Admit(tx)
      BY <1>3, <2>2, StepAdmits
    <3> QED BY <2>1, <3>1, AdmitFair
  <2> QED BY <2>2
<1> QED BY <1>1, <1>2, <1>3, PTL DEF PoolSpec, EvictsLowestFees

=============================================================================
