------------------------- MODULE CertificateProofs -------------------------
(***************************************************************************)
(* What the certificates of Narwhal are worth, for every set of nodes and  *)
(* every bound: an honest author signs one certificate per round, and no   *)
(* two certificates carry different batches of one author and round.       *)
(***************************************************************************)
EXTENDS NarwhalProofs, Integers, FiniteSetTheorems

----------------------------------------------------------------------------
(* What the comment above computeQuorum claims of it, for committees of    *)
(* every size, and the intersection of quorums that follows from it.       *)

LEMMA DivideByThree ==
    ASSUME NEW k \in Nat
    PROVE  /\ k \div 3 \in Nat
           /\ 3 * (k \div 3) <= k
           /\ k <= 3 * (k \div 3) + 2
  OBVIOUS

\* certificate.js, computeQuorum: "the smallest quorum that forces any two
\* quorums to overlap in an honest node (2q - n >= f + 1)".
THEOREM QuorumOverlapsHonestly ==
    ASSUME NEW n \in Nat, n >= 1
    PROVE  /\ ComputeQuorum(n) \in 1..n
           /\ OverlapsHonestly(ComputeQuorum(n), n)
  <1>1. n - 1 \in Nat /\ 2 * n + 2 \in Nat
    OBVIOUS
  <1>2. /\ MaxFaulty(n) \in Nat
        /\ 3 * MaxFaulty(n) <= n - 1
        /\ n - 1 <= 3 * MaxFaulty(n) + 2
    BY <1>1, DivideByThree DEF MaxFaulty
  <1>3. /\ ComputeQuorum(n) \in Nat
        /\ 3 * ComputeQuorum(n) <= 2 * n + 2
        /\ 2 * n + 2 <= 3 * ComputeQuorum(n) + 2
    BY <1>1, DivideByThree DEF ComputeQuorum
  <1> QED
    BY <1>2, <1>3 DEF OverlapsHonestly

\* ... and it is the smallest: one node fewer no longer forces the overlap.
THEOREM QuorumIsSmallest ==
    ASSUME NEW n \in Nat, n >= 1, NEW q \in Nat, OverlapsHonestly(q, n)
    PROVE  q >= ComputeQuorum(n)
  <1>1. n - 1 \in Nat /\ 2 * n + 2 \in Nat
    OBVIOUS
  <1>2. /\ MaxFaulty(n) \in Nat
        /\ 3 * MaxFaulty(n) <= n - 1
        /\ n - 1 <= 3 * MaxFaulty(n) + 2
    BY <1>1, DivideByThree DEF MaxFaulty
  <1>3. /\ ComputeQuorum(n) \in Nat
        /\ 3 * ComputeQuorum(n) <= 2 * n + 2
        /\ 2 * n + 2 <= 3 * ComputeQuorum(n) + 2
    BY <1>1, DivideByThree DEF ComputeQuorum
  <1> QED
    BY <1>2, <1>3 DEF OverlapsHonestly

\* Any two quorums of a committee share a node outside a set of at most
\* MaxFaulty nodes: the argument every quorum in the protocol rests on.
THEOREM QuorumsMeetHonestly ==
    ASSUME NEW C, IsFiniteSet(C), C # {},
           NEW S \in SUBSET C, NEW T \in SUBSET C, NEW F \in SUBSET C,
           Cardinality(S) >= ComputeQuorum(Cardinality(C)),
           Cardinality(T) >= ComputeQuorum(Cardinality(C)),
           Cardinality(F) <= MaxFaulty(Cardinality(C))
    PROVE  \E h \in S \cap T : h \notin F
  <1> DEFINE n == Cardinality(C)
             q == ComputeQuorum(n)
  <1>1. n \in Nat /\ n >= 1
    BY FS_CardinalityType, FS_EmptySet
  <1>2. /\ IsFiniteSet(S) /\ IsFiniteSet(T) /\ IsFiniteSet(F)
        /\ Cardinality(S) \in Nat /\ Cardinality(T) \in Nat /\ Cardinality(F) \in Nat
    BY FS_Subset, FS_CardinalityType
  <1>3. /\ IsFiniteSet(S \cup T)
        /\ Cardinality(S \cup T) \in Nat
        /\ Cardinality(S \cup T) <= n
    <2>1. S \cup T \in SUBSET C
      OBVIOUS
    <2> QED
      BY <2>1, FS_Subset, FS_CardinalityType
  <1>4. /\ IsFiniteSet(S \cap T) /\ Cardinality(S \cap T) \in Nat
        /\ Cardinality(S \cup T) = Cardinality(S) + Cardinality(T) - Cardinality(S \cap T)
    BY <1>2, FS_Union, FS_Intersection, FS_CardinalityType
  <1>5. /\ q \in Nat /\ MaxFaulty(n) \in Nat
        /\ 2 * q >= n + MaxFaulty(n) + 1
    <2>1. q \in 1..n /\ OverlapsHonestly(q, n)
      BY <1>1, QuorumOverlapsHonestly
    <2>2. MaxFaulty(n) \in Nat
      BY <1>1, DivideByThree DEF MaxFaulty
    <2> QED
      BY <2>1, <2>2 DEF OverlapsHonestly
  <1>6. Cardinality(S \cap T) > Cardinality(F)
    BY <1>1, <1>2, <1>3, <1>4, <1>5
  <1>7. ~(S \cap T \subseteq F)
    BY <1>2, <1>4, <1>6, FS_Subset
  <1> QED
    BY <1>7

----------------------------------------------------------------------------
(* One certificate per round.  SealsOncePerRound is not inductive: a node  *)
(* looks for its own certificate in its DAG, so it has to be known that    *)
(* the DAG holds every certificate the node ever signed.                   *)

Held == \A c \in certs : c.author \notin Byz => c \in local[c.author].dag

SealInv == TypeOK /\ Held /\ SealsOncePerRound

\* From s to t a node keeps its batch, has lost no certificate, and has the
\* next round due only if it had or has left the round.
Onward(s, t) ==
    /\ t.batch = s.batch /\ t.acked = s.acked
    /\ s.dag \subseteq t.dag
    /\ s.round <= t.round
    /\ t.due => s.due \/ s.round < t.round

LEMMA OnwardTransitive ==
    ASSUME NEW K, NEW s \in NodeState(K), NEW t \in NodeState(K), NEW u \in NodeState(K),
           Onward(s, t), Onward(t, u)
    PROVE  Onward(s, u)
  <1>1. s.round \in Nat /\ t.round \in Nat /\ u.round \in Nat
    BY DEF NodeState
  <1> QED
    BY <1>1 DEF Onward

LEMMA SameRoundOnward ==
    ASSUME NEW K, NEW s \in NodeState(K), NEW t,
           t.batch = s.batch, t.acked = s.acked, t.round = s.round, t.due = s.due,
           s.dag \subseteq t.dag
    PROVE  Onward(s, t)
  BY DEF Onward, NodeState

LEMMA AdvancedOnward ==
    ASSUME NEW K, NEW s \in NodeState(K)
    PROVE  Onward(s, Advanced(s))
  <1>1. s.round \in Nat
    BY DEF NodeState
  <1>2. CASE Cardinality(s.roundCerts) < Quorum
    BY <1>1, <1>2 DEF Advanced, Onward
  <1>3. CASE ~(Cardinality(s.roundCerts) < Quorum)
    <2> DEFINE t == Advanced(s)
    <2>1. /\ t.round = s.round + 1 /\ t.batch = s.batch
          /\ t.acked = s.acked /\ t.dag = s.dag
      BY <1>3 DEF Advanced, NodeState
    <2> QED
      BY <1>1, <2>1 DEF Onward
  <1> QED
    BY <1>2, <1>3

LEMMA RearmedOnward ==
    ASSUME NEW K, NEW s \in NodeState(K)
    PROVE  Onward(s, Rearmed(s))
  <1>1. s.round \in Nat
    BY DEF NodeState
  <1> QED
    BY <1>1 DEF Rearmed, Onward, NodeState

LEMMA ReconciledOnward ==
    ASSUME NEW K, NEW s \in NodeState(K)
    PROVE  Onward(s, Reconciled(s)) /\ Reconciled(s).dag = s.dag
  <1>1. s.round \in Nat
    BY DEF NodeState
  <1> QED
    BY <1>1 DEF Reconciled, Onward, NodeState

LEMMA AttestedOnward ==
    ASSUME NEW K, NEW s \in NodeState(K), NEW b, NEW saved
    PROVE  Onward(s, Attested(s, b, saved))
  <1>1. s.round \in Nat
    BY DEF NodeState
  <1> QED
    BY <1>1 DEF Attested, Onward, NodeState

\* A seal that finds the store ready: the state keeps its batch, and the
\* certificate it publishes is in the DAG.
LEMMA SavedSeal ==
    ASSUME NEW K, NEW n \in Node, NEW s \in NodeState(K)
    PROVE  /\ Onward(s, TryCreate(n, s, TRUE))
           /\ Sealed(n, s, TRUE) \subseteq TryCreate(n, s, TRUE).dag
  <1> DEFINE L == K \cup Sealed(n, s, TRUE)
             r == [s EXCEPT !.created = TRUE, !.roundCerts = @ \cup {n}]
             w == [s EXCEPT !.created = TRUE, !.roundCerts = @ \cup {n},
                            !.dag = @ \cup {NewCertificate(n, s)}]
  <1>1. s \in NodeState(L) /\ s.round \in Nat
    BY NodeStateMonotone DEF NodeState
  <1>2. CASE ~CanSeal(s)
    BY <1>1, <1>2 DEF TryCreate, Sealed, Onward
  <1>3. CASE CanSeal(s) /\ OwnCertificates(n, s) # {}
    <2>1. r \in NodeState(L) /\ Onward(s, r)
      <3>1. r \in NodeState(L)
        BY <1>1 DEF NodeState
      <3>2. /\ r.batch = s.batch /\ r.acked = s.acked /\ r.round = s.round
            /\ r.due = s.due /\ r.dag = s.dag
        BY DEF NodeState
      <3> HIDE DEF r
      <3> QED
        BY <3>1, <3>2, SameRoundOnward
    <2>2. TryCreate(n, s, TRUE) = Advanced(r)
      BY <1>3 DEF TryCreate
    <2>3. Sealed(n, s, TRUE) = {}
      BY <1>3 DEF Sealed
    <2> HIDE DEF r
    <2>4. Advanced(r) \in NodeState(L) /\ Onward(r, Advanced(r))
      BY <2>1, AdvancedType, AdvancedOnward
    <2> QED
      BY <1>1, <2>1, <2>2, <2>3, <2>4, OnwardTransitive
  <1>4. CASE CanSeal(s) /\ OwnCertificates(n, s) = {}
    <2>1. Sealed(n, s, TRUE) = {NewCertificate(n, s)}
      BY <1>4 DEF Sealed
    <2>2. w \in NodeState(L) /\ Onward(s, w) /\ NewCertificate(n, s) \in w.dag
      <3>1. w \in NodeState(L)
        BY <1>1, <2>1 DEF NodeState
      <3>2. /\ w.batch = s.batch /\ w.acked = s.acked /\ w.round = s.round
            /\ w.due = s.due /\ w.dag = s.dag \cup {NewCertificate(n, s)}
        BY DEF NodeState
      <3> HIDE DEF w
      <3> QED
        BY <3>1, <3>2, SameRoundOnward
    <2>3. TryCreate(n, s, TRUE) = Advanced(w)
      BY <1>4 DEF TryCreate
    <2> HIDE DEF w
    <2>4. Advanced(w) \in NodeState(L) /\ Onward(w, Advanced(w))
      BY <2>2, AdvancedType, AdvancedOnward
    <2>5. Onward(s, Advanced(w))
      BY <1>1, <2>2, <2>4, OnwardTransitive
    <2>6. NewCertificate(n, s) \in Advanced(w).dag
      BY <2>2, <2>4 DEF Onward
    <2> QED
      BY <2>1, <2>3, <2>5, <2>6
  <1> QED
    BY <1>2, <1>3, <1>4

\* Whether the store was ready or not, no certificate leaves the DAG, and
\* one that is published is in it and the only own one of its round.
LEMMA SealHolds ==
    ASSUME NEW K, NEW n \in Node, NEW s \in NodeState(K), NEW saved \in BOOLEAN
    PROVE  /\ s.dag \subseteq TryCreate(n, s, saved).dag
           /\ Sealed(n, s, saved) \subseteq TryCreate(n, s, saved).dag
           /\ \A c \in Sealed(n, s, saved) :
                  /\ c = NewCertificate(n, s) /\ CanSeal(s)
                  /\ \A d \in s.dag : ~(d.author = n /\ d.round = c.round)
  <1>1. \A c \in Sealed(n, s, saved) :
            /\ c = NewCertificate(n, s) /\ CanSeal(s)
            /\ \A d \in s.dag : ~(d.author = n /\ d.round = c.round)
    BY DEF Sealed, OwnCertificates, NewCertificate
  <1>2. CASE saved
    BY <1>1, <1>2, SavedSeal DEF Onward
  <1>3. CASE ~saved /\ (~CanSeal(s) \/ OwnCertificates(n, s) = {})
    BY <1>1, <1>3 DEF TryCreate, Sealed, NodeState
  <1>4. CASE ~saved /\ CanSeal(s) /\ OwnCertificates(n, s) # {}
    <2>1. TryCreate(n, s, saved) = TryCreate(n, s, TRUE) /\ Sealed(n, s, saved) = {}
      BY <1>4 DEF TryCreate, Sealed
    <2> QED
      BY <1>1, <2>1, SavedSeal DEF Onward
  <1> QED
    BY <1>2, <1>3, <1>4

\* A step in which node n moves to the state u and publishes X.
LEMMA SealMoves ==
    ASSUME SealInv, NEW n \in Node, NEW u, Becomes(n, u), local[n].dag \subseteq u.dag,
           NEW X, certs' = certs \cup X, X \subseteq u.dag,
           \A c \in X : /\ c.author = n
                        /\ \A d \in X : d = c
                        /\ \A d \in local[n].dag : ~(d.author = n /\ d.round = c.round)
    PROVE  Held' /\ SealsOncePerRound'
  <1>1. /\ local'[n] = u
        /\ \A m \in Node : m # n => local'[m] = local[m]
    BY DEF Becomes, SealInv, TypeOK
  <1>2. \A c \in certs : c.author \in Node /\ (c.author \notin Byz => c \in local[c.author].dag)
    BY DEF SealInv, TypeOK, Held
  <1>3. Held'
    BY <1>1, <1>2 DEF Held
  <1>4. SealsOncePerRound'
    <2> SUFFICES ASSUME NEW c \in certs', NEW d \in certs',
                        c.author = d.author, c.author \notin Byz, c.round = d.round
                 PROVE  c = d
      BY DEF SealsOncePerRound
    <2>1. CASE c \in certs /\ d \in certs
      BY <2>1 DEF SealInv, SealsOncePerRound
    <2>2. CASE c \in X /\ d \in certs
      BY <1>2, <2>2
    <2>3. CASE c \in certs /\ d \in X
      BY <1>2, <2>3
    <2>4. CASE c \in X /\ d \in X
      BY <2>4
    <2> QED
      BY <2>1, <2>2, <2>3, <2>4
  <1> QED
    BY <1>3, <1>4

\* The case in which nothing is published.
LEMMA SealKeeps ==
    ASSUME SealInv, NEW n \in Node, NEW u, Becomes(n, u),
           local[n].dag \subseteq u.dag, certs' = certs
    PROVE  Held' /\ SealsOncePerRound'
  <1> DEFINE X == {}
  <1>1. /\ certs' = certs \cup X /\ X \subseteq u.dag
        /\ \A c \in X : /\ c.author = n
                        /\ \A d \in X : d = c
                        /\ \A d \in local[n].dag : ~(d.author = n /\ d.round = c.round)
    OBVIOUS
  <1> HIDE DEF X
  <1> QED
    BY <1>1, SealMoves

LEMMA SealInit == Init => SealInv
  BY TypeInit DEF Init, SealInv, Held, SealsOncePerRound

LEMMA SealNext == ~WriteBehind /\ SealInv /\ [Next]_vars => SealInv'
  <1> SUFFICES ASSUME ~WriteBehind, SealInv, [Next]_vars
               PROVE  Held' /\ SealsOncePerRound'
    BY TypeNext DEF SealInv
  <1> USE OutcomesAreBooleans
  <1>0. /\ \A n \in Node : local[n] \in NodeState(certs)
        /\ \A c \in certs : c.author \in Node
    BY DEF SealInv, TypeOK
  <1>1. ASSUME NEW n \in Node, NEW x \in Content, BeginRound(n, x)
        PROVE  Held' /\ SealsOncePerRound'
    <2> DEFINE s == Begun(n, local[n], local[n].round, x)
    <2>1. s.dag = local[n].dag
      BY <1>0 DEF Begun, NodeState
    <2>2. Becomes(n, s) /\ certs' = certs
      BY <1>1 DEF BeginRound
    <2> HIDE DEF s
    <2> QED
      BY <2>1, <2>2, SealKeeps
  <1>2. ASSUME NEW n \in Node, NEW b \in batches, NEW saved \in SaveOutcomes,
               ReceiveBatch(n, b, saved)
        PROVE  Held' /\ SealsOncePerRound'
    <2>1. local[n].dag \subseteq Attested(local[n], b, saved).dag
      BY <1>0, AttestedOnward DEF Onward
    <2>2. Becomes(n, Attested(local[n], b, saved)) /\ certs' = certs
      BY <1>2 DEF ReceiveBatch
    <2> QED
      BY <2>1, <2>2, SealKeeps
  <1>3. ASSUME NEW n \in Node, NEW b \in batches, NEW x \in Content,
               NEW saved \in SaveOutcomes, FastForward(n, b, x, saved)
        PROVE  Held' /\ SealsOncePerRound'
    <2> DEFINE q == [local[n] EXCEPT !.timer = "off"]
               s == Begun(n, q, b.round, x)
               u == IF MayAttest(s, b) THEN Attested(s, b, saved) ELSE s
    <2>1. q \in NodeState(certs) /\ q.dag = local[n].dag
      BY <1>0 DEF NodeState
    <2>2. b.round \in Nat
      BY DEF SealInv, TypeOK, Batch
    <2> HIDE DEF q
    <2>3. s \in NodeState(certs)
      BY <2>1, <2>2, BegunType
    <2>4. s.dag = local[n].dag
      BY <2>1 DEF Begun, NodeState
    <2> HIDE DEF s
    <2>5. local[n].dag \subseteq u.dag
      BY <2>3, <2>4, AttestedOnward DEF Onward
    <2>6. Becomes(n, u) /\ certs' = certs
      BY <1>3 DEF FastForward, s, q
    <2> HIDE DEF u
    <2> QED
      BY <2>5, <2>6, SealKeeps
  <1>4. ASSUME NEW n \in Node, NEW saved \in SaveOutcomes, NEW s \in NodeState(certs),
               s.dag = local[n].dag, NEW u, Becomes(n, u),
               TryCreate(n, s, saved).dag \subseteq u.dag,
               certs' = certs \cup Sealed(n, s, saved)
        PROVE  Held' /\ SealsOncePerRound'
    <2> DEFINE X == Sealed(n, s, saved)
    <2>1. /\ s.dag \subseteq TryCreate(n, s, saved).dag
          /\ X \subseteq TryCreate(n, s, saved).dag
          /\ \A c \in X : /\ c = NewCertificate(n, s)
                          /\ \A d \in s.dag : ~(d.author = n /\ d.round = c.round)
      BY <1>4, SealHolds
    <2>2. NewCertificate(n, s).author = n
      BY DEF NewCertificate
    <2>3. certs' = certs \cup X
      BY <1>4
    <2> HIDE DEF X
    <2> QED
      BY <1>4, <2>1, <2>2, <2>3, SealMoves
  <1>5. ASSUME NEW n \in Node, NEW a \in acks, NEW saved \in SaveOutcomes,
               ReceiveAck(n, a, saved)
        PROVE  Held' /\ SealsOncePerRound'
    <2> DEFINE s == [local[n] EXCEPT !.acked = @ \cup {a.acker}]
    <2>1. a.acker \in Node
      BY DEF SealInv, TypeOK, Ack
    <2>2. s \in NodeState(certs) /\ s.dag = local[n].dag
      BY <1>0, <2>1 DEF NodeState
    <2>3. Becomes(n, TryCreate(n, s, saved)) /\ certs' = certs \cup Sealed(n, s, saved)
      BY <1>5 DEF ReceiveAck
    <2> HIDE DEF s
    <2> QED
      BY <1>4, <2>2, <2>3
  <1>6. ASSUME NEW n \in Node, NEW c \in certs, NEW saved \in SaveOutcomes,
               ReceiveCertificate(n, c, saved)
        PROVE  Held' /\ SealsOncePerRound'
    <2> DEFINE s == [local[n] EXCEPT !.dag = IF saved THEN @ \cup {c} ELSE @]
               w == [s EXCEPT !.roundCerts = @ \cup {c.author}]
               u == IF c.round = local[n].round THEN Advanced(w) ELSE s
    <2>1. s \in NodeState(certs) /\ local[n].dag \subseteq s.dag
      BY <1>0 DEF NodeState
    <2>2. Becomes(n, u) /\ certs' = certs
      BY <1>6 DEF ReceiveCertificate
    <2>3. w \in NodeState(certs) /\ w.dag = s.dag
      <3>1. c.author \in Node
        BY <1>0
      <3> HIDE DEF s
      <3> QED
        BY <2>1, <3>1 DEF NodeState
    <2> HIDE DEF s, w
    <2>4. w.dag \subseteq Advanced(w).dag
      BY <2>3, AdvancedOnward DEF Onward
    <2>5. local[n].dag \subseteq u.dag
      BY <2>1, <2>3, <2>4
    <2> HIDE DEF u
    <2> QED
      BY <2>2, <2>5, SealKeeps
  <1>7. ASSUME NEW n \in Node, NEW saved \in SaveOutcomes, NEW s \in NodeState(certs),
               s.dag = local[n].dag,
               Becomes(n, Rearmed(Advanced(TryCreate(n, s, saved)))),
               certs' = certs \cup Sealed(n, s, saved)
        PROVE  Held' /\ SealsOncePerRound'
    <2> DEFINE t == TryCreate(n, s, saved)
               u == Rearmed(Advanced(t))
    <2>1. PICK L : t \in NodeState(L)
      BY TryCreateType
    <2>2. Becomes(n, u)
      BY <1>7
    <2> HIDE DEF t
    <2>3. Advanced(t) \in NodeState(L) /\ t.dag \subseteq Advanced(t).dag
      BY <2>1, AdvancedType, AdvancedOnward DEF Onward
    <2>4. Advanced(t).dag \subseteq Rearmed(Advanced(t)).dag
      BY <2>3, RearmedOnward DEF Onward
    <2>5. t.dag \subseteq u.dag
      BY <2>3, <2>4
    <2> HIDE DEF u
    <2> QED
      BY <1>4, <1>7, <2>2, <2>5 DEF t
  <1>8. ASSUME NEW n \in Node, NEW saved \in SaveOutcomes, RoundTimeout(n, saved)
        PROVE  Held' /\ SealsOncePerRound'
    <2> DEFINE s == [local[n] EXCEPT !.timer = IF @ = "round" THEN "off" ELSE @,
                                     !.leaked = local[n].leaked /\ local[n].timer = "round"]
    <2>1. s \in NodeState(certs) /\ s.dag = local[n].dag
      <3>1. local[n] \in NodeState(certs)
        BY <1>0
      <3>2. (local[n].leaked /\ local[n].timer = "round") \in BOOLEAN
        OBVIOUS
      <3> QED
        BY <3>1, <3>2 DEF NodeState
    <2>2. /\ Becomes(n, Rearmed(Advanced(TryCreate(n, s, saved))))
          /\ certs' = certs \cup Sealed(n, s, saved)
      BY <1>8 DEF RoundTimeout
    <2> HIDE DEF s
    <2> QED
      BY <1>7, <2>1, <2>2
  <1>9. ASSUME NEW n \in Node, NEW saved \in SaveOutcomes, RetryTick(n, saved)
        PROVE  Held' /\ SealsOncePerRound'
    <2> DEFINE q == [local[n] EXCEPT !.timer = "off"]
               s == Reconciled(q)
    <2>1. q \in NodeState(certs) /\ q.dag = local[n].dag
      BY <1>0 DEF NodeState
    <2> HIDE DEF q
    <2>2. s \in NodeState(certs) /\ s.dag = local[n].dag
      BY <1>0, <2>1, ReconciledType, ReconciledOnward
    <2>3. /\ Becomes(n, Rearmed(Advanced(TryCreate(n, s, saved))))
          /\ certs' = certs \cup Sealed(n, s, saved)
      BY <1>9 DEF RetryTick, q
    <2> HIDE DEF s
    <2> QED
      BY <1>7, <2>2, <2>3
  <1>10. ASSUME NEW n \in Node, NEW m \in Node, NEW r \in 1..MaxRound, SyncFrom(n, m, r)
         PROVE  Held' /\ SealsOncePerRound'
    <2> DEFINE q == [local[n] EXCEPT !.dag = @ \cup {c \in local[m].dag : c.round >= r}]
               s == Reconciled(q)
    <2>1. q \in NodeState(certs) /\ local[n].dag \subseteq q.dag
      BY <1>0 DEF NodeState
    <2>2. Becomes(n, Advanced(s)) /\ certs' = certs
      BY <1>10 DEF SyncFrom
    <2> HIDE DEF q
    <2>3. s \in NodeState(certs) /\ s.dag = q.dag
      BY <1>0, <2>1, ReconciledType, ReconciledOnward
    <2> HIDE DEF s
    <2>4. local[n].dag \subseteq Advanced(s).dag
      BY <2>1, <2>3, AdvancedOnward DEF Onward
    <2> QED
      BY <2>2, <2>4, SealKeeps
  <1>11. ASSUME NEW n \in Node, Restart(n)
         PROVE  Held' /\ SealsOncePerRound'
    <2>1. PICK r \in 0..MaxRound : Becomes(n, Fresh(r + 1, local[n].dag, local[n].votes))
      BY <1>11 DEF Restart
    <2> DEFINE s == Fresh(r + 1, local[n].dag, local[n].votes)
    <2>2. s.dag = local[n].dag
      BY DEF Fresh
    <2>3. Becomes(n, s) /\ certs' = certs
      BY <1>11, <2>1 DEF Restart
    <2> HIDE DEF s
    <2> QED
      BY <2>2, <2>3, SealKeeps
  <1>12. ASSUME NEW n \in Byz, local' = local, \A c \in certs' : c \in certs \/ c.author = n
         PROVE  Held' /\ SealsOncePerRound'
    BY <1>12 DEF SealInv, Held, SealsOncePerRound
  <1>13. ASSUME NEW n \in Byz, Faulty(n)
         PROVE  Held' /\ SealsOncePerRound'
    BY <1>12, <1>13 DEF Faulty, Equivocate, AckAnything, CertifyAnything
  <1>14. ASSUME UNCHANGED <<local, certs>>
         PROVE  Held' /\ SealsOncePerRound'
    BY <1>14 DEF SealInv, Held, SealsOncePerRound
  <1>15. CASE UNCHANGED vars
    BY <1>14, <1>15 DEF vars
  <1> QED
    BY <1>1, <1>2, <1>3, <1>5, <1>6, <1>8, <1>9, <1>10, <1>11, <1>13, <1>14, <1>15
       DEF Next, NodeStep, Flush

\* With a store that has written what it accepted, no node that runs this
\* code ever signs two certificates of one round: through crashes, busy
\* stores, certificates pulled from peers and up to f faulty nodes.
THEOREM SignsOneCertificate == ~WriteBehind => (Spec => []SealsOncePerRound)
  <1> SUFFICES ASSUME ~WriteBehind PROVE Spec => []SealsOncePerRound
    OBVIOUS
  <1>1. Init => SealInv
    BY SealInit
  <1>2. SealInv /\ [Next]_vars => SealInv'
    BY SealNext
  <1>3. SealInv => SealsOncePerRound
    BY DEF SealInv
  <1> QED
    BY <1>1, <1>2, <1>3, PTL DEF Spec
----------------------------------------------------------------------------
(* One batch per author and round.  CertifiedOnce rests on AttestsOnce for *)
(* a faulty author.  For an honest one nobody's memory is asked: the node  *)
(* itself never lets go of a certified batch's round, because its round    *)
(* has left the round of its batch whenever the next round is due, and     *)
(* because a restart begins above every certificate of its DAG.            *)

\* What the acknowledgements A say of batch b (Ackers, of any such set).
AckersIn(A, b) == {a.acker : a \in {x \in A : x.batch = b}}

\* The state s of node n stands behind its batch: it is n's own, of a round
\* that s is in or has left, and the collected acks were sent.
Backed(n, s, A) ==
    s.batch # None =>
        /\ s.batch.author = n
        /\ s.batch.round <= s.round
        /\ s.due => s.batch.round < s.round
        /\ s.acked \subseteq AckersIn(A, s.batch)

\* The certificate c is behind the state s of its author.
Behind(c, s) ==
    /\ c.batch.round <= c.round
    /\ s.batch = None => c.batch.round < s.round
    /\ s.batch # None => c.batch.round < s.batch.round \/ c.batch = s.batch

Certified(c, A) ==
    /\ c.batch.author = c.author
    /\ Cardinality(AckersIn(A, c.batch)) >= Quorum

EveryBatchBacked == \A n \in Node : Backed(n, local[n], acks)
EveryCertCertified == \A c \in certs : Certified(c, acks)
EveryCertBehind == \A c \in certs : c.author \notin Byz => Behind(c, local[c.author])
OneBatchPerSlot ==
    \A c, d \in certs :
        c.author = d.author /\ c.author \notin Byz /\ SameSlot(c.batch, d.batch)
            => c.batch = d.batch

BatchInv ==
    EveryBatchBacked /\ EveryCertCertified /\ EveryCertBehind /\ OneBatchPerSlot

LEMMA AckersGrow ==
    ASSUME TypeOK, TypeOK', acks \subseteq acks', NEW b
    PROVE  /\ AckersIn(acks, b) \subseteq AckersIn(acks', b)
           /\ Cardinality(AckersIn(acks, b)) >= Quorum
                  => Cardinality(AckersIn(acks', b)) >= Quorum
  <1> DEFINE S == AckersIn(acks, b)
             T == AckersIn(acks', b)
  <1>1. S \subseteq T
    BY DEF AckersIn
  <1>2. T \subseteq Node
    BY DEF AckersIn, TypeOK, Ack
  <1>3. IsFiniteSet(T)
    BY <1>2, NodesAreFinite, FS_Subset
  <1> HIDE DEF S, T
  <1>4. /\ Cardinality(S) \in Nat /\ Cardinality(T) \in Nat
        /\ Cardinality(S) <= Cardinality(T)
    BY <1>1, <1>3, FS_Subset, FS_CardinalityType
  <1>5. Quorum \in Nat
    BY NodesAreFinite, SeveralNodes, FS_CardinalityType, QuorumOverlapsHonestly DEF Quorum
  <1>6. Cardinality(S) >= Quorum => Cardinality(T) >= Quorum
    BY <1>4, <1>5
  <1> QED
    BY <1>1, <1>6 DEF S, T

LEMMA OnwardBacked ==
    ASSUME NEW K, NEW n, NEW s \in NodeState(K), NEW t \in NodeState(K), NEW A,
           Onward(s, t), Backed(n, s, A)
    PROVE  Backed(n, t, A)
  <1>1. s.round \in Nat /\ t.round \in Nat /\ (s.batch \in Batch \/ s.batch = None)
    BY DEF NodeState
  <1>2. s.batch \in Batch => s.batch.round \in Nat
    BY DEF Batch
  <1> QED
    BY <1>1, <1>2 DEF Onward, Backed

LEMMA OnwardBehind ==
    ASSUME NEW K, NEW s \in NodeState(K), NEW t \in NodeState(K), NEW c,
           c.batch \in Batch, Onward(s, t), Behind(c, s)
    PROVE  Behind(c, t)
  <1>1. s.round \in Nat /\ t.round \in Nat /\ c.batch.round \in Nat
    BY DEF NodeState, Batch
  <1> QED
    BY <1>1 DEF Onward, Behind

\* A step in which node n moves to the state u and publishes X, of the batch
\* it was waiting to certify.
LEMMA BatchMoves ==
    ASSUME TypeOK, TypeOK', BatchInv, acks \subseteq acks',
           NEW n \in Node, NEW u, Becomes(n, u), Backed(n, u, acks'),
           n \notin Byz => \A c \in certs : c.author = n => Behind(c, u),
           NEW X, certs' = certs \cup X,
           \A c \in X : /\ c.author = n /\ Certified(c, acks')
                        /\ c.batch = u.batch /\ u.batch # None
                        /\ c.batch.round <= c.round
    PROVE  BatchInv'
  <1>1. /\ local'[n] = u
        /\ \A m \in Node : m # n => local'[m] = local[m]
    BY DEF Becomes, TypeOK
  <1>2. \A c \in certs : c.author \in Node
    BY DEF TypeOK
  <1>3. EveryBatchBacked'
    <2> SUFFICES ASSUME NEW m \in Node, m # n PROVE Backed(m, local[m], acks')
      BY <1>1 DEF EveryBatchBacked
    <2>1. Backed(m, local[m], acks)
      BY DEF BatchInv, EveryBatchBacked
    <2> QED
      BY <2>1, AckersGrow DEF Backed
  <1>4. EveryCertCertified'
    BY AckersGrow DEF BatchInv, EveryCertCertified, Certified
  <1>5. EveryCertBehind'
    <2> SUFFICES ASSUME NEW c \in certs', c.author \notin Byz
                 PROVE  Behind(c, local'[c.author])
      BY DEF EveryCertBehind
    <2>1. CASE c \in X
      BY <1>1, <2>1 DEF Behind
    <2>2. CASE c \in certs /\ c.author = n
      BY <1>1, <2>2
    <2>3. CASE c \in certs /\ c.author # n
      BY <1>1, <1>2, <2>3 DEF BatchInv, EveryCertBehind
    <2> QED
      BY <2>1, <2>2, <2>3
  <1>6. OneBatchPerSlot'
    <2> SUFFICES ASSUME NEW c \in certs', NEW d \in certs',
                        c.author = d.author, c.author \notin Byz,
                        SameSlot(c.batch, d.batch)
                 PROVE  c.batch = d.batch
      BY DEF OneBatchPerSlot
    <2>1. ASSUME NEW x \in X, NEW y \in certs, y.author = x.author, x.author \notin Byz
          PROVE  x.batch = y.batch \/ y.batch.round < x.batch.round
      BY <2>1 DEF Behind
    <2>2. c.batch.round \in Nat /\ d.batch.round \in Nat
      BY DEF TypeOK, Batch
    <2>3. CASE c \in certs /\ d \in certs
      BY <2>3 DEF BatchInv, OneBatchPerSlot
    <2>4. CASE c \in X /\ d \in certs
      BY <2>1, <2>2, <2>4 DEF SameSlot
    <2>5. CASE c \in certs /\ d \in X
      BY <2>1, <2>2, <2>5 DEF SameSlot
    <2>6. CASE c \in X /\ d \in X
      BY <2>6
    <2> QED
      BY <2>3, <2>4, <2>5, <2>6
  <1> QED
    BY <1>3, <1>4, <1>5, <1>6 DEF BatchInv

\* The case in which nothing is published.
LEMMA BatchKeeps ==
    ASSUME TypeOK, TypeOK', BatchInv, acks \subseteq acks',
           NEW n \in Node, NEW u, Becomes(n, u), Backed(n, u, acks'),
           n \notin Byz => \A c \in certs : c.author = n => Behind(c, u),
           certs' = certs
    PROVE  BatchInv'
  <1> DEFINE X == {}
  <1>1. /\ certs' = certs \cup X
        /\ \A c \in X : /\ c.author = n /\ Certified(c, acks')
                        /\ c.batch = u.batch /\ u.batch # None
                        /\ c.batch.round <= c.round
    OBVIOUS
  <1> HIDE DEF X
  <1> QED
    BY <1>1, BatchMoves

\* A node that goes on from its state stays behind its batch.
LEMMA BatchOnward ==
    ASSUME TypeOK, TypeOK', BatchInv, acks \subseteq acks', NEW K,
           NEW n \in Node, local[n] \in NodeState(K), NEW u \in NodeState(K),
           Onward(local[n], u)
    PROVE  /\ Backed(n, u, acks')
           /\ n \notin Byz => \A c \in certs : c.author = n => Behind(c, u)
  <1>1. Backed(n, local[n], acks')
    BY AckersGrow DEF BatchInv, EveryBatchBacked, Backed
  <1>2. Backed(n, u, acks')
    BY <1>1, OnwardBacked
  <1>3. ASSUME NEW c \in certs, c.author = n, n \notin Byz
        PROVE  Behind(c, u)
    <2>1. c.batch \in Batch
      BY DEF TypeOK
    <2>2. Behind(c, local[n])
      BY <1>3 DEF BatchInv, EveryCertBehind
    <2> QED
      BY <2>1, <2>2, OnwardBehind
  <1> QED
    BY <1>2, <1>3

\* A new round begins above the batch of the old one.
LEMMA BatchBegins ==
    ASSUME TypeOK, TypeOK', BatchInv, NEW n \in Node, NEW s \in NodeState(certs),
           NEW r \in Nat, NEW x \in Content,
           IF local[n].batch = None THEN local[n].round <= r ELSE local[n].batch.round < r,
           NEW A, [batch |-> Begun(n, s, r, x).batch, acker |-> n] \in A
    PROVE  /\ Backed(n, Begun(n, s, r, x), A)
           /\ n \notin Byz => \A c \in certs : c.author = n => Behind(c, Begun(n, s, r, x))
  <1> DEFINE u == Begun(n, s, r, x)
  <1>1. /\ u.batch.author = n /\ u.batch.round = r /\ u.round = r
        /\ u.acked = {n} /\ u.due = FALSE
    BY DEF Begun, NodeState
  <1>2. [batch |-> u.batch, acker |-> n] \in A
    OBVIOUS
  <1> HIDE DEF u
  <1>3. n \in AckersIn(A, u.batch)
    <2> DEFINE k == [batch |-> u.batch, acker |-> n]
    <2>1. k \in A /\ k.batch = u.batch /\ k.acker = n
      BY <1>2
    <2> HIDE DEF k
    <2> QED
      BY <2>1 DEF AckersIn
  <1>4. Backed(n, u, A)
    BY <1>1, <1>3 DEF Backed
  <1>5. ASSUME NEW c \in certs, c.author = n, n \notin Byz
        PROVE  Behind(c, u)
    <2>1. c.batch \in Batch /\ c.batch.round \in Nat
      BY DEF TypeOK, Batch
    <2>2. Behind(c, local[n])
      BY <1>5 DEF BatchInv, EveryCertBehind
    <2>3. local[n].round \in Nat
      BY DEF TypeOK, NodeState
    <2>4. local[n].batch # None => local[n].batch.round \in Nat
      BY DEF TypeOK, NodeState, Batch
    <2>5. c.batch.round < r
      BY <2>1, <2>2, <2>3, <2>4 DEF Behind
    <2> QED
      BY <1>1, <2>1, <2>2, <2>5 DEF Behind
  <1> QED
    BY <1>4, <1>5 DEF u

LEMMA BatchInit == Init => BatchInv
  <1> SUFFICES ASSUME Init PROVE BatchInv
    OBVIOUS
  <1>1. certs = {} /\ \A n \in Node : local[n].batch = None
    BY DEF Init, Fresh
  <1> QED
    BY <1>1 DEF BatchInv, EveryBatchBacked, EveryCertCertified, EveryCertBehind,
                OneBatchPerSlot, Backed

LEMMA BatchNext ==
    ~WriteBehind /\ SaveOutcomes = {TRUE} /\ SealInv /\ BatchInv /\ [Next]_vars
        => BatchInv'
  <1> SUFFICES ASSUME ~WriteBehind, SaveOutcomes = {TRUE}, SealInv, BatchInv, [Next]_vars
               PROVE  BatchInv'
    OBVIOUS
  <1> USE FaultBound, BoundsAreNumbers
  <1>0. /\ TypeOK /\ TypeOK'
        /\ \A saved \in SaveOutcomes : saved \in BOOLEAN
        /\ \A n \in Node : local[n] \in NodeState(certs) /\ local[n].round \in Nat
        /\ \A n \in Node : local[n].batch # None => local[n].batch.round \in Nat
        /\ \A c \in certs : c.author \in Node
        /\ \A b \in batches : b \in Batch /\ b.round \in Nat
    BY TypeNext DEF SealInv, TypeOK, NodeState, Batch
  <1>1. ASSUME NEW n \in Node, NEW x \in Content, BeginRound(n, x)
        PROVE  BatchInv'
    <2> DEFINE s == Begun(n, local[n], local[n].round, x)
    <2>1. /\ Becomes(n, s) /\ certs' = certs /\ acks \subseteq acks'
          /\ [batch |-> s.batch, acker |-> n] \in acks'
      BY <1>1 DEF BeginRound
    <2>2. local[n].batch # None => local[n].batch.round < local[n].round
      BY <1>1 DEF BeginRound, BatchInv, EveryBatchBacked, Backed
    <2>3. /\ Backed(n, s, acks')
          /\ n \notin Byz => \A c \in certs : c.author = n => Behind(c, s)
      BY <1>0, <2>1, <2>2, BatchBegins
    <2> HIDE DEF s
    <2> QED
      BY <1>0, <2>1, <2>3, BatchKeeps
  <1>2. ASSUME NEW n \in Node, NEW b \in batches, NEW saved \in SaveOutcomes,
               ReceiveBatch(n, b, saved)
        PROVE  BatchInv'
    <2> DEFINE s == Attested(local[n], b, saved)
    <2>1. Becomes(n, s) /\ certs' = certs /\ acks \subseteq acks'
      BY <1>2 DEF ReceiveBatch
    <2>2. s \in NodeState(certs) /\ Onward(local[n], s)
      BY <1>0, AttestedType, AttestedOnward
    <2> HIDE DEF s
    <2>3. /\ Backed(n, s, acks')
          /\ n \notin Byz => \A c \in certs : c.author = n => Behind(c, s)
      BY <1>0, <2>1, <2>2, BatchOnward
    <2> QED
      BY <1>0, <2>1, <2>3, BatchKeeps
  <1>3. ASSUME NEW n \in Node, NEW b \in batches, NEW x \in Content,
               NEW saved \in SaveOutcomes, FastForward(n, b, x, saved)
        PROVE  BatchInv'
    <2> DEFINE q == [local[n] EXCEPT !.timer = "off"]
               s == Begun(n, q, b.round, x)
               u == IF MayAttest(s, b) THEN Attested(s, b, saved) ELSE s
    <2>1. /\ Becomes(n, u) /\ certs' = certs /\ acks \subseteq acks'
          /\ [batch |-> s.batch, acker |-> n] \in acks'
          /\ b.round > local[n].round
      BY <1>3 DEF FastForward
    <2>2. q \in NodeState(certs)
      BY <1>0 DEF NodeState
    <2>3. IF local[n].batch = None THEN local[n].round <= b.round
                                   ELSE local[n].batch.round < b.round
      <3>1. local[n].batch # None => local[n].batch.round <= local[n].round
        BY DEF BatchInv, EveryBatchBacked, Backed
      <3> QED
        BY <1>0, <2>1, <3>1
    <2> HIDE DEF q
    <2>4. s \in NodeState(certs)
      BY <1>0, <2>2, BegunType
    <2>5. /\ Backed(n, s, acks')
          /\ n \notin Byz => \A c \in certs : c.author = n => Behind(c, s)
      BY <1>0, <2>1, <2>2, <2>3, BatchBegins
    <2> HIDE DEF s
    <2>6. Attested(s, b, saved) \in NodeState(certs) /\ Onward(s, Attested(s, b, saved))
      BY <1>0, <2>4, AttestedType, AttestedOnward
    <2>7. /\ Backed(n, u, acks')
          /\ n \notin Byz => \A c \in certs : c.author = n => Behind(c, u)
      <3>1. Backed(n, Attested(s, b, saved), acks')
        BY <2>4, <2>5, <2>6, OnwardBacked
      <3>2. ASSUME NEW c \in certs, c.author = n, n \notin Byz
            PROVE  Behind(c, Attested(s, b, saved))
        <4>1. c.batch \in Batch /\ Behind(c, s)
          BY <1>0, <2>5, <3>2 DEF TypeOK
        <4> QED
          BY <2>4, <2>6, <4>1, OnwardBehind
      <3> QED
        BY <2>5, <3>1, <3>2
    <2> HIDE DEF u
    <2> QED
      BY <1>0, <2>1, <2>7, BatchKeeps
  \* a seal by node n out of the state s, which goes on to the state u
  <1>4. ASSUME NEW n \in Node, NEW s \in NodeState(certs), NEW u,
               u \in NodeState(certs \cup Sealed(n, s, TRUE)),
               Onward(TryCreate(n, s, TRUE), u), Becomes(n, u), acks' = acks,
               certs' = certs \cup Sealed(n, s, TRUE), Backed(n, s, acks),
               n \notin Byz => \A c \in certs : c.author = n => Behind(c, s)
        PROVE  BatchInv'
    <2> DEFINE X == Sealed(n, s, TRUE)
               t == TryCreate(n, s, TRUE)
               L == certs \cup X
    <2>1. s \in NodeState(L)
      BY NodeStateMonotone
    <2>2. t \in NodeState(L) /\ Onward(s, t)
      BY TryCreateType, SavedSeal
    <2>3. Onward(t, u) /\ u \in NodeState(L) /\ certs' = certs \cup X
      BY <1>4
    <2>4. ASSUME NEW c \in X
          PROVE  /\ c.author = n /\ Certified(c, acks')
                 /\ c.batch = s.batch /\ s.batch # None
                 /\ c.batch.round <= c.round
      <3>1. /\ c.author = n /\ c.batch = s.batch /\ c.round = s.round
            /\ s.batch # None /\ Cardinality(s.acked) >= Quorum
        <4>1. c = NewCertificate(n, s) /\ CanSeal(s)
          BY <2>4, SealHolds
        <4> QED
          BY <4>1 DEF NewCertificate, CanSeal
      <3>2. /\ s.batch.author = n /\ s.batch.round <= s.round
            /\ s.acked \subseteq AckersIn(acks, s.batch)
        BY <1>4, <3>1 DEF Backed
      <3>3. Cardinality(AckersIn(acks, s.batch)) >= Quorum
        <4>1. IsFiniteSet(AckersIn(acks, s.batch))
          <5>1. AckersIn(acks, s.batch) \subseteq Node
            BY <1>0 DEF AckersIn, TypeOK, Ack
          <5> QED
            BY <5>1, NodesAreFinite, FS_Subset
        <4>2. /\ Cardinality(s.acked) <= Cardinality(AckersIn(acks, s.batch))
              /\ Cardinality(s.acked) \in Nat
              /\ Cardinality(AckersIn(acks, s.batch)) \in Nat
          BY <3>2, <4>1, FS_Subset, FS_CardinalityType
        <4>3. Quorum \in Nat
          BY NodesAreFinite, SeveralNodes, FS_CardinalityType, QuorumOverlapsHonestly
             DEF Quorum
        <4> QED
          BY <3>1, <4>2, <4>3
      <3> QED
        BY <1>4, <3>1, <3>2, <3>3 DEF Certified
    <2> HIDE DEF X, t, L
    <2>5. Onward(s, u)
      BY <2>1, <2>2, <2>3, OnwardTransitive
    <2>6. Backed(n, u, acks')
      BY <1>4, <2>1, <2>3, <2>5, OnwardBacked
    <2>7. ASSUME NEW c \in certs, c.author = n, n \notin Byz
          PROVE  Behind(c, u)
      <3>1. c.batch \in Batch /\ Behind(c, s)
        BY <1>0, <1>4, <2>7 DEF TypeOK
      <3> QED
        BY <2>1, <2>3, <2>5, <3>1, OnwardBehind
    <2>8. \A c \in X : /\ c.author = n /\ Certified(c, acks')
                       /\ c.batch = u.batch /\ u.batch # None
                       /\ c.batch.round <= c.round
      BY <2>4, <2>5 DEF Onward
    <2>9. acks \subseteq acks' /\ Becomes(n, u)
      BY <1>4
    <2> QED
      BY <1>0, <2>3, <2>6, <2>7, <2>8, <2>9, BatchMoves
  <1>5. ASSUME NEW n \in Node, NEW a \in acks, ReceiveAck(n, a, TRUE)
        PROVE  BatchInv'
    <2> DEFINE s == [local[n] EXCEPT !.acked = @ \cup {a.acker}]
    <2>1. a.acker \in Node
      BY <1>0 DEF TypeOK, Ack
    <2>2. /\ s \in NodeState(certs) /\ s.acked = local[n].acked \cup {a.acker}
          /\ s.batch = local[n].batch /\ s.round = local[n].round /\ s.due = local[n].due
      BY <1>0, <2>1 DEF NodeState
    <2>3. /\ Becomes(n, TryCreate(n, s, TRUE)) /\ acks' = acks
          /\ certs' = certs \cup Sealed(n, s, TRUE) /\ a.batch = local[n].batch
      BY <1>5 DEF ReceiveAck
    <2> HIDE DEF s
    <2>4. Backed(n, s, acks)
      <3>1. Backed(n, local[n], acks)
        BY DEF BatchInv, EveryBatchBacked
      <3>2. a.acker \in AckersIn(acks, s.batch)
        BY <2>2, <2>3 DEF AckersIn
      <3> QED
        BY <2>2, <3>1, <3>2 DEF Backed
    <2>5. n \notin Byz => \A c \in certs : c.author = n => Behind(c, s)
      BY <2>2 DEF BatchInv, EveryCertBehind, Behind
    <2>6. /\ TryCreate(n, s, TRUE) \in NodeState(certs \cup Sealed(n, s, TRUE))
          /\ Onward(TryCreate(n, s, TRUE), TryCreate(n, s, TRUE))
      <3>1. TryCreate(n, s, TRUE) \in NodeState(certs \cup Sealed(n, s, TRUE))
        BY <2>2, TryCreateType
      <3> QED
        BY <3>1, SameRoundOnward
    <2> QED
      BY <1>4, <2>2, <2>3, <2>4, <2>5, <2>6
  <1>6. ASSUME NEW n \in Node, NEW c \in certs, ReceiveCertificate(n, c, TRUE)
        PROVE  BatchInv'
    <2> DEFINE s == [local[n] EXCEPT !.dag = @ \cup {c}]
               w == [s EXCEPT !.roundCerts = @ \cup {c.author}]
               u == IF c.round = local[n].round THEN Advanced(w) ELSE s
    <2>1. s \in NodeState(certs) /\ Onward(local[n], s)
      <3>1. /\ s \in NodeState(certs) /\ s.dag = local[n].dag \cup {c}
            /\ s.batch = local[n].batch /\ s.acked = local[n].acked
            /\ s.round = local[n].round /\ s.due = local[n].due
        BY <1>0 DEF NodeState
      <3> HIDE DEF s
      <3> QED
        BY <1>0, <3>1, SameRoundOnward
    <2>2. Becomes(n, u) /\ certs' = certs /\ acks' = acks
      BY <1>6 DEF ReceiveCertificate
    <2>3. w \in NodeState(certs) /\ Onward(s, w)
      <3>1. c.author \in Node
        BY <1>0
      <3> HIDE DEF s
      <3>2. /\ w \in NodeState(certs) /\ w.dag = s.dag /\ w.batch = s.batch
            /\ w.acked = s.acked /\ w.round = s.round /\ w.due = s.due
        BY <2>1, <3>1 DEF NodeState
      <3> HIDE DEF w
      <3> QED
        BY <2>1, <3>2, SameRoundOnward
    <2> HIDE DEF s, w
    <2>4. Advanced(w) \in NodeState(certs) /\ Onward(w, Advanced(w))
      BY <2>3, AdvancedType, AdvancedOnward
    <2>5. u \in NodeState(certs) /\ Onward(local[n], u)
      <3>1. Onward(local[n], w)
        BY <1>0, <2>1, <2>3, OnwardTransitive
      <3>2. Onward(local[n], Advanced(w))
        BY <1>0, <2>3, <2>4, <3>1, OnwardTransitive
      <3> QED
        BY <2>1, <2>4, <3>2
    <2> HIDE DEF u
    <2>6. /\ Backed(n, u, acks')
          /\ n \notin Byz => \A d \in certs : d.author = n => Behind(d, u)
      BY <1>0, <2>2, <2>5, BatchOnward
    <2> QED
      BY <1>0, <2>2, <2>6, BatchKeeps
  <1>7. ASSUME NEW n \in Node, NEW s \in NodeState(certs), Onward(local[n], s),
               Becomes(n, Rearmed(Advanced(TryCreate(n, s, TRUE)))), acks' = acks,
               certs' = certs \cup Sealed(n, s, TRUE)
        PROVE  BatchInv'
    <2> DEFINE L == certs \cup Sealed(n, s, TRUE)
               t == TryCreate(n, s, TRUE)
               u == Rearmed(Advanced(t))
    <2>1. t \in NodeState(L)
      BY TryCreateType
    <2>2. Becomes(n, u)
      BY <1>7
    <2> HIDE DEF t
    <2>3. Advanced(t) \in NodeState(L) /\ Onward(t, Advanced(t))
      BY <2>1, AdvancedType, AdvancedOnward
    <2>4. u \in NodeState(L) /\ Onward(Advanced(t), u)
      BY <2>3, RearmedType, RearmedOnward
    <2> HIDE DEF u
    <2>5. Onward(t, u)
      BY <2>1, <2>3, <2>4, OnwardTransitive
    <2>6. acks \subseteq acks'
      BY <1>7
    <2>7. /\ Backed(n, s, acks')
          /\ n \notin Byz => \A c \in certs : c.author = n => Behind(c, s)
      BY <1>0, <1>7, <2>6, BatchOnward
    <2> QED
      BY <1>4, <1>7, <2>2, <2>4, <2>5, <2>7 DEF t
  <1>8. ASSUME NEW n \in Node, RoundTimeout(n, TRUE)
        PROVE  BatchInv'
    <2> DEFINE s == [local[n] EXCEPT !.timer = IF @ = "round" THEN "off" ELSE @,
                                     !.leaked = local[n].leaked /\ local[n].timer = "round"]
    <2>1. s \in NodeState(certs) /\ Onward(local[n], s)
      <3>1. local[n] \in NodeState(certs)
        BY <1>0
      <3>2. (local[n].leaked /\ local[n].timer = "round") \in BOOLEAN
        OBVIOUS
      <3>3. /\ s \in NodeState(certs) /\ s.dag = local[n].dag /\ s.batch = local[n].batch
            /\ s.acked = local[n].acked /\ s.round = local[n].round /\ s.due = local[n].due
        BY <3>1, <3>2 DEF NodeState
      <3> HIDE DEF s
      <3> QED
        BY <3>1, <3>3, SameRoundOnward
    <2>2. /\ Becomes(n, Rearmed(Advanced(TryCreate(n, s, TRUE))))
          /\ certs' = certs \cup Sealed(n, s, TRUE) /\ acks' = acks
      BY <1>8 DEF RoundTimeout
    <2> HIDE DEF s
    <2> QED
      BY <1>7, <2>1, <2>2
  <1>9. ASSUME NEW n \in Node, RetryTick(n, TRUE)
        PROVE  BatchInv'
    <2> DEFINE q == [local[n] EXCEPT !.timer = "off"]
               s == Reconciled(q)
    <2>1. q \in NodeState(certs) /\ Onward(local[n], q)
      <3>1. /\ q \in NodeState(certs) /\ q.dag = local[n].dag /\ q.batch = local[n].batch
            /\ q.acked = local[n].acked /\ q.round = local[n].round /\ q.due = local[n].due
        BY <1>0 DEF NodeState
      <3> HIDE DEF q
      <3> QED
        BY <1>0, <3>1, SameRoundOnward
    <2>2. /\ Becomes(n, Rearmed(Advanced(TryCreate(n, s, TRUE))))
          /\ certs' = certs \cup Sealed(n, s, TRUE) /\ acks' = acks
      BY <1>9 DEF RetryTick
    <2> HIDE DEF q
    <2>3. s \in NodeState(certs) /\ Onward(local[n], s)
      <3>1. s \in NodeState(certs) /\ Onward(q, s)
        BY <1>0, <2>1, ReconciledType, ReconciledOnward
      <3> QED
        BY <1>0, <2>1, <3>1, OnwardTransitive
    <2> HIDE DEF s
    <2> QED
      BY <1>7, <2>2, <2>3
  <1>10. ASSUME NEW n \in Node, NEW m \in Node, NEW r \in 1..MaxRound, SyncFrom(n, m, r)
         PROVE  BatchInv'
    <2> DEFINE q == [local[n] EXCEPT !.dag = @ \cup {c \in local[m].dag : c.round >= r}]
               s == Reconciled(q)
               u == Advanced(s)
    <2>1. q \in NodeState(certs) /\ Onward(local[n], q)
      <3>1. /\ q \in NodeState(certs) /\ local[n].dag \subseteq q.dag
            /\ q.batch = local[n].batch /\ q.acked = local[n].acked
            /\ q.round = local[n].round /\ q.due = local[n].due
        BY <1>0 DEF NodeState
      <3> HIDE DEF q
      <3> QED
        BY <1>0, <3>1, SameRoundOnward
    <2>2. Becomes(n, u) /\ certs' = certs /\ acks' = acks
      BY <1>10 DEF SyncFrom
    <2> HIDE DEF q
    <2>3. s \in NodeState(certs) /\ Onward(q, s)
      BY <1>0, <2>1, ReconciledType, ReconciledOnward
    <2> HIDE DEF s
    <2>4. u \in NodeState(certs) /\ Onward(s, u)
      BY <2>3, AdvancedType, AdvancedOnward
    <2> HIDE DEF u
    <2>5. Onward(local[n], s)
      BY <1>0, <2>1, <2>3, OnwardTransitive
    <2>6. Onward(local[n], u)
      BY <1>0, <2>3, <2>4, <2>5, OnwardTransitive
    <2>7. /\ Backed(n, u, acks')
          /\ n \notin Byz => \A c \in certs : c.author = n => Behind(c, u)
      BY <1>0, <2>2, <2>4, <2>6, BatchOnward
    <2> QED
      BY <1>0, <2>2, <2>7, BatchKeeps
  <1>11. ASSUME NEW n \in Node, Restart(n)
         PROVE  BatchInv'
    <2>1. PICK r \in 0..MaxRound : /\ IsLatestRound(local[n].dag, r)
                                   /\ Becomes(n, Fresh(r + 1, local[n].dag, local[n].votes))
      BY <1>11 DEF Restart
    <2> DEFINE u == Fresh(r + 1, local[n].dag, local[n].votes)
    <2>2. u.batch = None /\ u.round = r + 1
      BY DEF Fresh
    <2>3. Becomes(n, u) /\ certs' = certs /\ acks' = acks
      BY <1>11, <2>1 DEF Restart
    <2> HIDE DEF u
    <2>4. Backed(n, u, acks')
      BY <2>2 DEF Backed
    <2>5. ASSUME NEW c \in certs, c.author = n, n \notin Byz
          PROVE  Behind(c, u)
      <3>1. c.round \in Nat /\ c.batch.round \in Nat
        BY <1>0 DEF TypeOK, Batch
      <3>2. c \in local[n].dag
        BY <2>5 DEF SealInv, Held
      <3>3. c.round <= r
        BY <2>1, <3>2 DEF IsLatestRound
      <3>4. c.batch.round <= c.round
        BY <2>5 DEF BatchInv, EveryCertBehind, Behind
      <3>5. c.batch.round < r + 1
        BY <3>1, <3>3, <3>4
      <3> QED
        BY <2>2, <3>4, <3>5 DEF Behind
    <2> QED
      BY <1>0, <2>3, <2>4, <2>5, BatchKeeps
  <1>12. ASSUME NEW n \in Byz, local' = local, acks \subseteq acks',
                \A c \in certs' : c \in certs \/ (c.author = n /\ Certified(c, acks'))
         PROVE  BatchInv'
    <2>1. EveryBatchBacked'
      <3>1. ASSUME NEW m \in Node
            PROVE  Backed(m, local[m], acks')
        <4>1. Backed(m, local[m], acks)
          BY DEF BatchInv, EveryBatchBacked
        <4> QED
          BY <1>0, <1>12, <4>1, AckersGrow DEF Backed
      <3> QED
        BY <1>12, <3>1 DEF EveryBatchBacked
    <2>2. EveryCertCertified'
      BY <1>0, <1>12, AckersGrow DEF BatchInv, EveryCertCertified, Certified
    <2>3. EveryCertBehind' /\ OneBatchPerSlot'
      BY <1>12 DEF BatchInv, EveryCertBehind, OneBatchPerSlot
    <2> QED
      BY <2>1, <2>2, <2>3 DEF BatchInv
  <1>13. ASSUME NEW n \in Byz, Faulty(n)
         PROVE  BatchInv'
    <2>1. local' = local /\ acks \subseteq acks'
      BY <1>13 DEF Faulty, Equivocate, AckAnything, CertifyAnything
    <2>2. ASSUME NEW b \in batches, NEW r \in 1..MaxRound,
                 NEW parents \in SUBSET {c \in local[n].dag : c.round + 1 = r},
                 CertifyAnything(n, b, r, parents), NEW c \in certs', c \notin certs
          PROVE  c.author = n /\ Certified(c, acks')
      <3>1. /\ c.author = n /\ c.batch = b /\ b.author = n /\ acks' = acks
            /\ Cardinality(Ackers(b)) >= Quorum
        BY <2>2 DEF CertifyAnything
      <3>2. Ackers(b) = AckersIn(acks, b)
        BY DEF Ackers, AckersIn
      <3> QED
        BY <3>1, <3>2 DEF Certified
    <2>3. \A c \in certs' : c \in certs \/ (c.author = n /\ Certified(c, acks'))
      BY <1>13, <2>2 DEF Faulty, Equivocate, AckAnything
    <2> QED
      BY <1>12, <2>1, <2>3
  <1>14. ASSUME UNCHANGED <<local, certs, acks>>
         PROVE  BatchInv'
    BY <1>14 DEF BatchInv, EveryBatchBacked, EveryCertCertified, EveryCertBehind,
                 OneBatchPerSlot
  <1>15. CASE UNCHANGED vars
    BY <1>14, <1>15 DEF vars
  <1> QED
    BY <1>1, <1>2, <1>3, <1>5, <1>6, <1>8, <1>9, <1>10, <1>11, <1>13, <1>14, <1>15
       DEF Next, NodeStep, Flush

\* Such a store never loses a vote.
AllRecorded == unrecorded = {}

LEMMA RecordedInit == Init => AllRecorded
  BY DEF Init, AllRecorded

LEMMA RecordedNext ==
    ~WriteBehind /\ SaveOutcomes = {TRUE} /\ AllRecorded /\ [Next]_vars => AllRecorded'
  <1> SUFFICES ASSUME ~WriteBehind, SaveOutcomes = {TRUE}, AllRecorded, [Next]_vars
               PROVE  unrecorded' = {}
    BY DEF AllRecorded
  <1>1. ASSUME NEW s, NEW a PROVE StillUnrecorded(s, a, TRUE) = {}
    BY DEF StillUnrecorded, AllRecorded
  <1>2. ASSUME NEW n \in Node, NEW b \in batches, ReceiveBatch(n, b, TRUE)
        PROVE  unrecorded' = {}
    BY <1>1, <1>2 DEF ReceiveBatch
  <1>3. ASSUME NEW n \in Node, NEW b \in batches, NEW x \in Content,
               FastForward(n, b, x, TRUE)
        PROVE  unrecorded' = {}
    BY <1>1, <1>3 DEF FastForward, AllRecorded
  <1>4. ASSUME NEW n \in Node, Restart(n) PROVE unrecorded' = {}
    BY <1>4 DEF Restart, AllRecorded
  <1>5. ASSUME NEW n \in Byz, Faulty(n) PROVE unrecorded' = {}
    BY <1>5 DEF Faulty, Equivocate, AckAnything, CertifyAnything, AllRecorded
  <1>6. CASE UNCHANGED unrecorded
    BY <1>6 DEF AllRecorded
  <1>7. ASSUME NEW n \in Node, NodeStep(n) PROVE unrecorded' = {}
    <2>1. \/ UNCHANGED unrecorded
          \/ \E b \in batches : ReceiveBatch(n, b, TRUE)
          \/ \E b \in batches, x \in Content : FastForward(n, b, x, TRUE)
          \/ Restart(n)
      BY <1>7 DEF NodeStep, BeginRound, ReceiveAck, ReceiveCertificate, RoundTimeout,
                  RetryTick, SyncFrom, Flush
    <2> QED
      BY <1>2, <1>3, <1>4, <1>6, <2>1
  <1> QED
    BY <1>5, <1>6, <1>7 DEF Next, vars

\* Two certified batches of a faulty author's slot share an honest acker.
LEMMA BatchInvImplies == AttestInv /\ AllRecorded /\ BatchInv => CertifiedOnce
  <1> SUFFICES ASSUME AttestInv, AllRecorded, BatchInv, NEW c \in certs, NEW d \in certs,
                      SameSlot(c.batch, d.batch), c.batch # d.batch
               PROVE  /\ c.batch.author \in Byz
                      /\ \E h \in Node \ Byz : Forgot(h, c.batch.round)
    BY DEF CertifiedOnce
  <1>1. /\ c.batch.author = c.author /\ d.batch.author = d.author /\ c.author = d.author
        /\ Cardinality(AckersIn(acks, c.batch)) >= Quorum
        /\ Cardinality(AckersIn(acks, d.batch)) >= Quorum
    BY DEF BatchInv, EveryCertCertified, Certified, SameSlot
  <1>2. c.author \in Byz
    BY <1>1 DEF BatchInv, OneBatchPerSlot
  <1>3. PICK h \in AckersIn(acks, c.batch) \cap AckersIn(acks, d.batch) : h \notin Byz
    <2> DEFINE S == AckersIn(acks, c.batch)
               T == AckersIn(acks, d.batch)
    <2>1. S \in SUBSET Node /\ T \in SUBSET Node
      BY DEF AckersIn, AttestInv, TypeOK, Ack
    <2>2. Node # {}
      BY SeveralNodes, FS_EmptySet
    <2>3. Cardinality(S) >= Quorum /\ Cardinality(T) >= Quorum
      BY <1>1
    <2> HIDE DEF S, T
    <2>4. \E h \in S \cap T : h \notin Byz
      BY <2>1, <2>2, <2>3, NodesAreFinite, FaultBound, QuorumsMeetHonestly DEF Quorum
    <2> QED
      BY <2>4 DEF S, T
  <1>4. PICK x \in acks : x.batch = c.batch /\ x.acker = h
    BY <1>3 DEF AckersIn
  <1>5. PICK y \in acks : y.batch = d.batch /\ y.acker = h
    BY <1>3 DEF AckersIn
  <1>6. h \in Node
    BY <1>4 DEF AttestInv, TypeOK, Ack
  <1>7. AttestsOnce
    BY AttestInvImplies
  <1>8. Forgot(h, c.batch.round)
    BY <1>1, <1>2, <1>3, <1>4, <1>5, <1>7 DEF AttestsOnce, AllRecorded
  <1> QED
    BY <1>1, <1>2, <1>3, <1>6, <1>8

\* With a store that has written what it accepted and was never
\* busy, two certificates never carry different batches of one author and
\* round, however many times nodes crash: not for an honest author, and for
\* a faulty one not while the honest nodes remember that round.
THEOREM CertifiesOnce ==
    ~WriteBehind /\ SaveOutcomes = {TRUE} => (Spec => []CertifiedOnce)
  <1> SUFFICES ASSUME ~WriteBehind, SaveOutcomes = {TRUE}
               PROVE  Spec => []CertifiedOnce
    OBVIOUS
  <1>1. Init => AttestInv /\ AllRecorded /\ SealInv /\ BatchInv
    BY AttestInit, RecordedInit, SealInit, BatchInit
  <1>2. AttestInv /\ AllRecorded /\ SealInv /\ BatchInv /\ [Next]_vars
            => AttestInv' /\ AllRecorded' /\ SealInv' /\ BatchInv'
    BY AttestNext, RecordedNext, SealNext, BatchNext
  <1>3. AttestInv /\ AllRecorded /\ SealInv /\ BatchInv => CertifiedOnce
    BY BatchInvImplies
  <1> QED
    BY <1>1, <1>2, <1>3, PTL DEF Spec
===========================================================================
