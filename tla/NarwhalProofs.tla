--------------------------- MODULE NarwhalProofs ---------------------------
(***************************************************************************)
(* Theorems about Narwhal for every set of nodes, every retention window   *)
(* and every bound on rounds and crashes.                                  *)
(***************************************************************************)
EXTENDS Narwhal, TLAPS

----------------------------------------------------------------------------
(* What the functions on a node's state return.                            *)

LEMMA NodeStateMonotone ==
    ASSUME NEW K, NEW L, K \subseteq L
    PROVE  NodeState(K) \subseteq NodeState(L)
  BY DEF NodeState

LEMMA BegunType ==
    ASSUME NEW K, NEW n \in Node, NEW s \in NodeState(K),
           NEW r \in Nat, NEW x \in Content
    PROVE  /\ Begun(n, s, r, x) \in NodeState(K)
           /\ Begun(n, s, r, x).batch \in Batch
           /\ Begun(n, s, r, x).batch.author = n
           /\ Begun(n, s, r, x).round = r
           /\ Begun(n, s, r, x).votes = s.votes
  BY DEF Begun, NodeState, Batch

LEMMA AdvancedType ==
    ASSUME NEW K, NEW s \in NodeState(K)
    PROVE  Advanced(s) \in NodeState(K)
  <1>1. {v \in s.votes : v.round + RetentionRounds >= s.round + 1} \in SUBSET Batch
    BY DEF NodeState
  <1>2. s.round + 1 \in Nat
    BY DEF NodeState
  <1> QED
    BY <1>1, <1>2 DEF Advanced, NodeState

LEMMA AttestedType ==
    ASSUME NEW K, NEW s \in NodeState(K), NEW b \in Batch, NEW saved \in BOOLEAN
    PROVE  /\ Attested(s, b, saved) \in NodeState(K)
           /\ Attested(s, b, saved).round = s.round
           /\ saved => Attested(s, b, saved).votes = s.votes \cup {b}
           /\ ~saved => Attested(s, b, saved).votes = s.votes
  BY DEF Attested, NodeState

LEMMA RearmedType ==
    ASSUME NEW K, NEW s \in NodeState(K)
    PROVE  Rearmed(s) \in NodeState(K)
  BY DEF Rearmed, NodeState

LEMMA ReconciledType ==
    ASSUME NEW K, \A c \in K : c.author \in Node, NEW s \in NodeState(K)
    PROVE  Reconciled(s) \in NodeState(K)
  BY DEF Reconciled, NodeState

LEMMA NewCertificateType ==
    ASSUME NEW K, NEW n \in Node, NEW s \in NodeState(K), CanSeal(s)
    PROVE  /\ NewCertificate(n, s).round \in Nat
           /\ NewCertificate(n, s).author \in Node
           /\ NewCertificate(n, s).batch \in Batch
           /\ NewCertificate(n, s).parents \subseteq K
  BY DEF NewCertificate, CanSeal, NodeState

LEMMA TryCreateType ==
    ASSUME NEW K, NEW n \in Node, NEW s \in NodeState(K), NEW saved \in BOOLEAN
    PROVE  TryCreate(n, s, saved) \in NodeState(K \cup Sealed(n, s, saved))
  <1> DEFINE L == K \cup Sealed(n, s, saved)
  <1>1. s \in NodeState(L)
    BY NodeStateMonotone
  <1>2. CASE ~CanSeal(s)
    BY <1>1, <1>2 DEF TryCreate
  <1>3. CASE CanSeal(s) /\ OwnCertificates(n, s) # {}
    <2>1. [s EXCEPT !.created = TRUE, !.roundCerts = @ \cup {n}] \in NodeState(L)
      BY <1>1 DEF NodeState
    <2> QED
      BY <1>3, <2>1, AdvancedType DEF TryCreate
  <1>4. CASE CanSeal(s) /\ OwnCertificates(n, s) = {} /\ saved
    <2>1. NewCertificate(n, s) \in L
      BY <1>4 DEF Sealed
    <2>2. [s EXCEPT !.created = TRUE, !.roundCerts = @ \cup {n},
                    !.dag = @ \cup {NewCertificate(n, s)}] \in NodeState(L)
      BY <1>1, <2>1 DEF NodeState
    <2> QED
      BY <1>4, <2>2, AdvancedType DEF TryCreate
  <1>5. CASE CanSeal(s) /\ OwnCertificates(n, s) = {} /\ ~saved
    <2>1. [s EXCEPT !.due = TRUE] \in NodeState(L)
      BY <1>1 DEF NodeState
    <2> QED
      BY <1>5, <2>1 DEF TryCreate
  <1> QED
    BY <1>2, <1>3, <1>4, <1>5
----------------------------------------------------------------------------
(* Type correctness.                                                       *)

CertsTyped(K) ==
    \A c \in K : /\ c.round \in Nat /\ c.author \in Node
                  /\ c.batch \in Batch /\ c.parents \subseteq K

LEMMA BecomesType ==
    ASSUME TypeOK, NEW n \in Node, NEW s \in NodeState(certs'),
           certs \subseteq certs', Becomes(n, s)
    PROVE  /\ local' \in [Node -> NodeState(certs')]
           /\ high' \in [Node -> Nat]
  <1>1. NodeState(certs) \subseteq NodeState(certs')
    BY NodeStateMonotone
  <1>2. local \in [Node -> NodeState(certs')]
    BY <1>1 DEF TypeOK
  <1>3. s.round \in Nat
    BY DEF NodeState
  <1> QED
    BY <1>2, <1>3 DEF Becomes, TypeOK

LEMMA SealedKeepsType ==
    ASSUME CertsTyped(certs), NEW n \in Node, NEW s \in NodeState(certs),
           NEW saved \in BOOLEAN
    PROVE  CertsTyped(certs \cup Sealed(n, s, saved))
  <1>1. CASE CanSeal(s) /\ OwnCertificates(n, s) = {} /\ saved
    BY <1>1, NewCertificateType DEF Sealed, CertsTyped
  <1>2. CASE ~(CanSeal(s) /\ OwnCertificates(n, s) = {} /\ saved)
    BY <1>2 DEF Sealed
  <1> QED
    BY <1>1, <1>2

LEMMA DiskKeepsType ==
    ASSUME TypeOK, certs \subseteq certs'
    PROVE  disk \in [Node -> [dag : SUBSET certs', votes : SUBSET Batch]]
  <1>1. [dag : SUBSET certs, votes : SUBSET Batch]
            \subseteq [dag : SUBSET certs', votes : SUBSET Batch]
    OBVIOUS
  <1> QED
    BY <1>1 DEF TypeOK

LEMMA TypeInit == Init => TypeOK
  <1> SUFFICES ASSUME Init PROVE TypeOK
    OBVIOUS
  <1>1. Fresh(1, {}, {}) \in NodeState(certs)
    BY DEF Fresh, NodeState
  <1> QED
    BY <1>1 DEF Init, TypeOK

LEMMA TypeNext == TypeOK /\ [Next]_vars => TypeOK'
  <1> SUFFICES ASSUME TypeOK, [Next]_vars PROVE TypeOK'
    OBVIOUS
  <1> USE FaultBound, OutcomesAreBooleans, BoundsAreNumbers
  <1>0. /\ CertsTyped(certs)
        /\ \A n \in Node : local[n] \in NodeState(certs)
        /\ \A c \in certs : c.author \in Node
    BY DEF TypeOK, CertsTyped
  <1>1. ASSUME NEW n \in Node, NEW x \in Content, BeginRound(n, x)
        PROVE  TypeOK'
    <2> DEFINE s == Begun(n, local[n], local[n].round, x)
    <2>1. local[n].round \in Nat
      BY <1>0 DEF NodeState
    <2>2. s \in NodeState(certs) /\ s.batch \in Batch
      BY <1>0, <2>1, BegunType
    <2>3. certs' = certs /\ Becomes(n, s)
      BY <1>1 DEF BeginRound
    <2>4. local' \in [Node -> NodeState(certs')] /\ high' \in [Node -> Nat]
      BY <2>2, <2>3, BecomesType
    <2>5. batches' \subseteq Batch /\ acks' \subseteq Ack
      BY <1>1, <2>2 DEF BeginRound, TypeOK, Ack
    <2> QED
      BY <1>1, <2>3, <2>4, <2>5 DEF BeginRound, TypeOK
  <1>2. ASSUME NEW n \in Node, NEW b \in batches, NEW saved \in SaveOutcomes,
               ReceiveBatch(n, b, saved)
        PROVE  TypeOK'
    <2>1. b \in Batch
      BY DEF TypeOK
    <2>2. certs' = certs /\ Becomes(n, Attested(local[n], b, saved))
      BY <1>2 DEF ReceiveBatch
    <2>3. Attested(local[n], b, saved) \in NodeState(certs')
      BY <1>0, <2>1, <2>2, AttestedType
    <2>4. local' \in [Node -> NodeState(certs')] /\ high' \in [Node -> Nat]
      BY <2>2, <2>3, BecomesType
    <2>5. unrecorded' \subseteq acks' /\ acks' \subseteq Ack
      BY <1>2, <2>1 DEF ReceiveBatch, StillUnrecorded, TypeOK, Ack
    <2> QED
      BY <1>2, <2>4, <2>5 DEF ReceiveBatch, TypeOK
  <1>3. ASSUME NEW n \in Node, NEW b \in batches, NEW x \in Content,
               NEW saved \in SaveOutcomes, FastForward(n, b, x, saved)
        PROVE  TypeOK'
    <2> DEFINE s == Begun(n, [local[n] EXCEPT !.timer = "off"], b.round, x)
               t == IF MayAttest(s, b) THEN Attested(s, b, saved) ELSE s
    <2>1. b \in Batch /\ b.round \in Nat
      BY DEF TypeOK, Batch
    <2>2. [local[n] EXCEPT !.timer = "off"] \in NodeState(certs)
      BY <1>0 DEF NodeState
    <2>3. s \in NodeState(certs) /\ s.batch \in Batch
      BY <2>1, <2>2, BegunType
    <2>4. certs' = certs /\ Becomes(n, t)
      BY <1>3 DEF FastForward
    <2>5. t \in NodeState(certs')
      BY <2>1, <2>3, <2>4, AttestedType
    <2>6. local' \in [Node -> NodeState(certs')] /\ high' \in [Node -> Nat]
      BY <2>4, <2>5, BecomesType
    <2>7. batches' \subseteq Batch /\ acks' \subseteq Ack
      BY <1>3, <2>1, <2>3 DEF FastForward, TypeOK, Ack
    <2>8. unrecorded' \subseteq acks'
      BY <1>3 DEF FastForward, StillUnrecorded, TypeOK
    <2> QED
      BY <1>3, <2>4, <2>6, <2>7, <2>8 DEF FastForward, TypeOK
  <1>4. ASSUME NEW n \in Node, NEW s \in NodeState(certs), NEW saved \in SaveOutcomes,
               NEW t, t \in NodeState(certs \cup Sealed(n, s, saved)), Becomes(n, t),
               certs' = certs \cup Sealed(n, s, saved),
               UNCHANGED <<disk, batches, acks, crashes, unrecorded>>
        PROVE  TypeOK'
    <2>1. saved \in BOOLEAN /\ certs \subseteq certs'
      BY <1>4
    <2>2. CertsTyped(certs')
      BY <1>0, <1>4, <2>1, SealedKeepsType
    <2>3. local' \in [Node -> NodeState(certs')] /\ high' \in [Node -> Nat]
      BY <1>4, <2>1, BecomesType
    <2>4. disk' \in [Node -> [dag : SUBSET certs', votes : SUBSET Batch]]
      BY <1>4, <2>1, DiskKeepsType
    <2> QED
      BY <1>4, <2>2, <2>3, <2>4 DEF TypeOK, CertsTyped
  <1>5. ASSUME NEW n \in Node, NEW a \in acks, NEW saved \in SaveOutcomes,
               ReceiveAck(n, a, saved)
        PROVE  TypeOK'
    <2> DEFINE s == [local[n] EXCEPT !.acked = @ \cup {a.acker}]
    <2>1. s \in NodeState(certs)
      <3>1. a.acker \in Node
        BY DEF TypeOK, Ack
      <3>2. local[n] \in NodeState(certs)
        BY <1>0
      <3> QED
        BY <3>1, <3>2 DEF NodeState
    <2>2. TryCreate(n, s, saved) \in NodeState(certs \cup Sealed(n, s, saved))
      BY <2>1, TryCreateType
    <2> QED
      BY <1>4, <1>5, <2>1, <2>2 DEF ReceiveAck
  <1>6. ASSUME NEW n \in Node, NEW c \in certs, NEW saved \in SaveOutcomes,
               ReceiveCertificate(n, c, saved)
        PROVE  TypeOK'
    <2> DEFINE s == [local[n] EXCEPT !.dag = IF saved THEN @ \cup {c} ELSE @]
               u == [s EXCEPT !.roundCerts = @ \cup {c.author}]
               t == IF c.round = local[n].round THEN Advanced(u) ELSE s
    <2>1. s \in NodeState(certs)
      BY <1>0 DEF NodeState
    <2>2. u \in NodeState(certs)
      <3>1. c.author \in Node
        BY <1>0
      <3> HIDE DEF s
      <3> QED
        BY <2>1, <3>1 DEF NodeState
    <2>3. certs' = certs /\ Becomes(n, t)
      BY <1>6 DEF ReceiveCertificate
    <2>4. t \in NodeState(certs')
      BY <2>1, <2>2, <2>3, AdvancedType
    <2>5. local' \in [Node -> NodeState(certs')] /\ high' \in [Node -> Nat]
      BY <2>3, <2>4, BecomesType
    <2> QED
      BY <1>6, <2>5 DEF ReceiveCertificate, TypeOK
  <1>7. ASSUME NEW n \in Node, NEW saved \in SaveOutcomes, NEW s \in NodeState(certs)
        PROVE  Rearmed(Advanced(TryCreate(n, s, saved)))
                   \in NodeState(certs \cup Sealed(n, s, saved))
    <2> DEFINE L == certs \cup Sealed(n, s, saved)
    <2>1. TryCreate(n, s, saved) \in NodeState(L)
      BY <1>7, TryCreateType
    <2>2. Advanced(TryCreate(n, s, saved)) \in NodeState(L)
      BY <2>1, AdvancedType
    <2> QED
      BY <2>2, RearmedType
  <1>8. ASSUME NEW n \in Node, NEW saved \in SaveOutcomes, RoundTimeout(n, saved)
        PROVE  TypeOK'
    <2> DEFINE s == [local[n] EXCEPT !.timer = IF @ = "round" THEN "off" ELSE @,
                                     !.leaked = local[n].leaked /\ local[n].timer = "round"]
    <2>1. s \in NodeState(certs)
      <3>1. local[n] \in NodeState(certs)
        BY <1>0
      <3>2. (local[n].leaked /\ local[n].timer = "round") \in BOOLEAN
        OBVIOUS
      <3> QED
        BY <3>1, <3>2 DEF NodeState
    <2>2. Rearmed(Advanced(TryCreate(n, s, saved)))
              \in NodeState(certs \cup Sealed(n, s, saved))
      BY <1>7, <2>1
    <2> QED
      BY <1>4, <1>8, <2>1, <2>2 DEF RoundTimeout
  <1>9. ASSUME NEW n \in Node, NEW saved \in SaveOutcomes, RetryTick(n, saved)
        PROVE  TypeOK'
    <2> DEFINE s == Reconciled([local[n] EXCEPT !.timer = "off"])
    <2>1. [local[n] EXCEPT !.timer = "off"] \in NodeState(certs)
      BY <1>0 DEF NodeState
    <2>2. s \in NodeState(certs)
      BY <1>0, <2>1, ReconciledType
    <2>3. Rearmed(Advanced(TryCreate(n, s, saved)))
              \in NodeState(certs \cup Sealed(n, s, saved))
      BY <1>7, <2>2
    <2> QED
      BY <1>4, <1>9, <2>2, <2>3 DEF RetryTick
  <1>10. ASSUME NEW n \in Node, NEW m \in Node, NEW r \in 1..MaxRound, SyncFrom(n, m, r)
         PROVE  TypeOK'
    <2> DEFINE s == [local[n] EXCEPT !.dag = @ \cup {c \in local[m].dag : c.round >= r}]
    <2>1. s \in NodeState(certs)
      BY <1>0 DEF NodeState
    <2>2. certs' = certs /\ Becomes(n, Advanced(Reconciled(s)))
      BY <1>10 DEF SyncFrom
    <2>3. Advanced(Reconciled(s)) \in NodeState(certs')
      BY <1>0, <2>1, <2>2, ReconciledType, AdvancedType
    <2>4. local' \in [Node -> NodeState(certs')] /\ high' \in [Node -> Nat]
      BY <2>2, <2>3, BecomesType
    <2> QED
      BY <1>10, <2>4 DEF SyncFrom, TypeOK
  <1>11. ASSUME NEW n \in Node, Flush(n)
         PROVE  TypeOK'
    <2>1. [dag |-> local[n].dag, votes |-> local[n].votes]
              \in [dag : SUBSET certs, votes : SUBSET Batch]
      BY <1>0 DEF NodeState
    <2> QED
      BY <1>11, <2>1 DEF Flush, TypeOK
  <1>12. ASSUME NEW n \in Node, Restart(n)
         PROVE  TypeOK'
    <2> DEFINE kept == IF WriteBehind THEN disk[n]
                       ELSE [dag |-> local[n].dag, votes |-> local[n].votes]
    <2>1. kept \in [dag : SUBSET certs, votes : SUBSET Batch]
      BY <1>0 DEF NodeState, TypeOK
    <2>2. PICK r \in 0..MaxRound : Becomes(n, Fresh(r + 1, kept.dag, kept.votes))
      BY <1>12 DEF Restart
    <2>3. certs' = certs
      BY <1>12 DEF Restart
    <2>4. Fresh(r + 1, kept.dag, kept.votes) \in NodeState(certs')
      BY <2>1, <2>3 DEF Fresh, NodeState
    <2>5. local' \in [Node -> NodeState(certs')] /\ high' \in [Node -> Nat]
      BY <2>2, <2>3, <2>4, BecomesType
    <2> QED
      BY <1>12, <2>5 DEF Restart, TypeOK
  <1>13. ASSUME NEW n \in Byz, NEW r \in 1..MaxRound, NEW x \in Content,
                Equivocate(n, r, x)
         PROVE  TypeOK'
    <2>1. [round |-> r, author |-> n, content |-> x] \in Batch
      BY DEF Batch
    <2> QED
      BY <1>13, <2>1 DEF Equivocate, TypeOK, Ack
  <1>14. ASSUME NEW n \in Byz, NEW b \in batches, AckAnything(n, b)
         PROVE  TypeOK'
    BY <1>14 DEF AckAnything, TypeOK, Ack
  <1>15. ASSUME NEW n \in Byz, NEW b \in batches, NEW r \in 1..MaxRound,
                NEW parents \in SUBSET {c \in local[n].dag : c.round + 1 = r},
                CertifyAnything(n, b, r, parents)
         PROVE  TypeOK'
    <2> DEFINE c == [round |-> r, author |-> n, batch |-> b, parents |-> parents]
    <2>1. b \in Batch /\ r \in Nat /\ n \in Node
      BY BoundsAreNumbers DEF TypeOK
    <2>2. c.parents \subseteq certs
      BY <1>0, <2>1 DEF NodeState
    <2>3. certs' = certs \cup {c}
      BY <1>15 DEF CertifyAnything
    <2>4. CertsTyped(certs')
      BY <1>0, <2>1, <2>2, <2>3 DEF CertsTyped
    <2>5. local \in [Node -> NodeState(certs')]
      <3>1. NodeState(certs) \subseteq NodeState(certs')
        BY <2>3, NodeStateMonotone
      <3> QED
        BY <3>1 DEF TypeOK
    <2>6. disk \in [Node -> [dag : SUBSET certs', votes : SUBSET Batch]]
      BY <2>3, DiskKeepsType
    <2> QED
      BY <1>15, <2>4, <2>5, <2>6 DEF CertifyAnything, TypeOK, CertsTyped
  <1>16. CASE UNCHANGED vars
    BY <1>16 DEF vars, TypeOK
  <1> QED
    BY <1>1, <1>2, <1>3, <1>5, <1>6, <1>8, <1>9, <1>10, <1>11, <1>12, <1>13,
       <1>14, <1>15, <1>16
       DEF Next, NodeStep, Faulty

\* Every reachable state is of the type TypeOK states, whatever the
\* committee, the faults and the bounds.
THEOREM TypeCorrect == Spec => []TypeOK
  BY TypeInit, TypeNext, PTL DEF Spec
----------------------------------------------------------------------------
(* votes_seen.  AttestsOnce is not inductive: the two acknowledgements are *)
(* of the past.  What carries it from step to step is that every ack of an *)
(* honest node is still on record while its round is inside the window,    *)
(* unless its vote was never kept, and that the record never holds two     *)
(* batches of one slot, nor what a crash would bring back of it.           *)

Recorded ==
    \A k \in acks \ unrecorded :
        k.acker \notin Byz /\ k.batch.author # k.acker =>
            k.batch \in local[k.acker].votes \/ Forgot(k.acker, k.batch.round)

Unequivocal(votes) == \A v, w \in votes : SameSlot(v, w) => v = w

OneVotePerSlot == \A n \in Node : Unequivocal(local[n].votes)

OneDurableVotePerSlot == \A n \in Node : Unequivocal(disk[n].votes)

HighIsReached == \A n \in Node : local[n].round <= high[n]

AttestInv ==
    TypeOK /\ Recorded /\ OneVotePerSlot /\ OneDurableVotePerSlot /\ HighIsReached

\* From s to t a node may have moved to later rounds, and has lost no vote
\* but those the retention window drops.
Keeps(s, t) ==
    /\ s.round <= t.round
    /\ t.votes \subseteq s.votes
    /\ \A v \in s.votes : v \in t.votes \/ v.round + RetentionRounds < t.round

LEMMA KeepsTransitive ==
    ASSUME NEW K, NEW s \in NodeState(K), NEW t \in NodeState(K), NEW u \in NodeState(K),
           Keeps(s, t), Keeps(t, u)
    PROVE  Keeps(s, u)
  <1> USE BoundsAreNumbers
  <1>1. s.round \in Nat /\ t.round \in Nat /\ u.round \in Nat
    BY DEF NodeState
  <1>2. \A v \in s.votes : v.round \in Nat
    BY DEF NodeState, Batch
  <1> QED
    BY <1>1, <1>2 DEF Keeps

LEMMA AdvancedKeeps ==
    ASSUME NEW K, NEW s \in NodeState(K)
    PROVE  Keeps(s, Advanced(s))
  <1> USE BoundsAreNumbers
  <1>1. s.round \in Nat
    BY DEF NodeState
  <1>2. \A v \in s.votes : v.round \in Nat
    BY DEF NodeState, Batch
  <1>3. CASE Cardinality(s.roundCerts) < Quorum
    BY <1>1, <1>3 DEF Advanced, Keeps
  <1>4. CASE ~(Cardinality(s.roundCerts) < Quorum)
    <2> DEFINE t == Advanced(s)
    <2>1. /\ t.round = s.round + 1
          /\ t.votes = {v \in s.votes : v.round + RetentionRounds >= s.round + 1}
      BY <1>4 DEF Advanced, NodeState
    <2> QED
      BY <1>1, <1>2, <2>1 DEF Keeps
  <1> QED
    BY <1>3, <1>4

\* The fields Keeps looks at are those of s in t.
LEMMA SameVotesKeep ==
    ASSUME NEW K, NEW s \in NodeState(K), NEW t,
           t.round = s.round, t.votes = s.votes
    PROVE  Keeps(s, t)
  BY DEF Keeps, NodeState

LEMMA TryCreateKeeps ==
    ASSUME NEW K, NEW n \in Node, NEW s \in NodeState(K), NEW saved \in BOOLEAN
    PROVE  Keeps(s, TryCreate(n, s, saved))
  <1> DEFINE L == K \cup Sealed(n, s, saved)
             r == [s EXCEPT !.created = TRUE, !.roundCerts = @ \cup {n}]
             w == [s EXCEPT !.created = TRUE, !.roundCerts = @ \cup {n},
                            !.dag = @ \cup {NewCertificate(n, s)}]
             d == [s EXCEPT !.due = TRUE]
  <1>1. s \in NodeState(L)
    BY NodeStateMonotone
  <1>2. CASE ~CanSeal(s)
    BY <1>2, SameVotesKeep DEF TryCreate
  <1>3. CASE CanSeal(s) /\ OwnCertificates(n, s) # {}
    <2>1. r \in NodeState(L) /\ Keeps(s, r)
      <3>1. r \in NodeState(L)
        BY <1>1 DEF NodeState
      <3>2. r.round = s.round /\ r.votes = s.votes
        BY DEF NodeState
      <3> QED
        BY <3>1, <3>2, SameVotesKeep
    <2>2. Advanced(r) \in NodeState(L) /\ Keeps(r, Advanced(r))
      BY <2>1, AdvancedType, AdvancedKeeps
    <2>3. TryCreate(n, s, saved) = Advanced(r)
      BY <1>3 DEF TryCreate
    <2> HIDE DEF r
    <2> QED
      BY <1>1, <2>1, <2>2, <2>3, KeepsTransitive
  <1>4. CASE CanSeal(s) /\ OwnCertificates(n, s) = {} /\ saved
    <2>1. w \in NodeState(L) /\ Keeps(s, w)
      <3>1. NewCertificate(n, s) \in L
        BY <1>4 DEF Sealed
      <3>2. w \in NodeState(L)
        BY <1>1, <3>1 DEF NodeState
      <3>3. w.round = s.round /\ w.votes = s.votes
        BY DEF NodeState
      <3> QED
        BY <3>2, <3>3, SameVotesKeep
    <2>2. Advanced(w) \in NodeState(L) /\ Keeps(w, Advanced(w))
      BY <2>1, AdvancedType, AdvancedKeeps
    <2>3. TryCreate(n, s, saved) = Advanced(w)
      BY <1>4 DEF TryCreate
    <2> HIDE DEF w
    <2> QED
      BY <1>1, <2>1, <2>2, <2>3, KeepsTransitive
  <1>5. CASE CanSeal(s) /\ OwnCertificates(n, s) = {} /\ ~saved
    <2>1. d.round = s.round /\ d.votes = s.votes
      BY DEF NodeState
    <2>2. TryCreate(n, s, saved) = d
      BY <1>5 DEF TryCreate
    <2> QED
      BY <2>1, <2>2, SameVotesKeep
  <1> QED
    BY <1>2, <1>3, <1>4, <1>5

LEMMA RearmedKeeps ==
    ASSUME NEW K, NEW s \in NodeState(K)
    PROVE  Keeps(s, Rearmed(s))
  <1>1. Rearmed(s).round = s.round /\ Rearmed(s).votes = s.votes
    BY DEF Rearmed, NodeState
  <1> QED
    BY <1>1, SameVotesKeep

LEMMA ReconciledKeeps ==
    ASSUME NEW K, NEW s \in NodeState(K)
    PROVE  Keeps(s, Reconciled(s))
  <1>1. Reconciled(s).round = s.round /\ Reconciled(s).votes = s.votes
    BY DEF Reconciled, NodeState
  <1> QED
    BY <1>1, SameVotesKeep

\* One node moves to the state u and may send acks: of its own batches, of
\* batches it has put on record, or of batches it failed to.
LEMMA NodeMoves ==
    ASSUME AttestInv, NEW n \in Node, NEW L, NEW u \in NodeState(L), Becomes(n, u),
           \A v \in local[n].votes :
               \/ v \in u.votes \/ v.round + RetentionRounds < u.round
               \/ \A k \in acks : k.acker = n /\ k.batch = v => k \in unrecorded',
           Unequivocal(u.votes),
           \A k \in acks' : \/ k \in acks \/ k \in unrecorded'
                            \/ k.acker = n /\ (k.batch.author = n \/ k.batch \in u.votes),
           \A k \in unrecorded : k \in unrecorded' \/ (k.acker = n /\ k.batch \in u.votes)
    PROVE  Recorded' /\ OneVotePerSlot' /\ HighIsReached'
  <1> USE BoundsAreNumbers
  <1>1. /\ local' = [local EXCEPT ![n] = u]
        /\ high' = [high EXCEPT ![n] = IF u.round > @ THEN u.round ELSE @]
    BY DEF Becomes
  <1>2. /\ \A m \in Node : local[m].round \in Nat /\ high[m] \in Nat
        /\ u.round \in Nat
        /\ \A m \in Node : \A v \in local[m].votes : v.round \in Nat
    BY DEF AttestInv, TypeOK, NodeState, Batch
  <1>3. /\ local'[n] = u
        /\ \A m \in Node : m # n => local'[m] = local[m]
    BY <1>1 DEF AttestInv, TypeOK
  <1>4. /\ high'[n] >= u.round
        /\ \A m \in Node : high'[m] \in Nat /\ high'[m] >= high[m]
    BY <1>1, <1>2 DEF AttestInv, TypeOK
  <1>5. HighIsReached'
    BY <1>2, <1>3, <1>4 DEF HighIsReached, AttestInv
  <1>6. OneVotePerSlot'
    BY <1>3 DEF OneVotePerSlot, AttestInv
  <1>7. Recorded'
    <2> SUFFICES ASSUME NEW k \in acks' \ unrecorded',
                        k.acker \notin Byz, k.batch.author # k.acker
                 PROVE  \/ k.batch \in local'[k.acker].votes
                        \/ k.batch.round + RetentionRounds < high'[k.acker]
      BY DEF Recorded, Forgot
    <2>1. CASE k \notin acks \/ k \in unrecorded
      BY <2>1, <1>3
    <2>2. CASE k \in acks \ unrecorded
      <3>1. k.acker \in Node /\ k.batch.round \in Nat
        BY <2>2 DEF AttestInv, TypeOK, Ack, Batch
      <3>2. \/ k.batch \in local[k.acker].votes
            \/ k.batch.round + RetentionRounds < high[k.acker]
        BY <2>2 DEF AttestInv, Recorded, Forgot
      <3>3. CASE k.batch.round + RetentionRounds < high[k.acker]
        BY <1>2, <1>4, <3>1, <3>3
      <3>4. CASE k.batch \in local[k.acker].votes /\ k.acker # n
        BY <1>3, <3>1, <3>4
      <3>5. CASE k.batch \in local[k.acker].votes /\ k.acker = n
        BY <1>2, <1>3, <1>4, <2>2, <3>1, <3>5
      <3> QED
        BY <3>2, <3>3, <3>4, <3>5
    <2> QED
      BY <2>1, <2>2
  <1> QED
    BY <1>5, <1>6, <1>7

\* The case in which nothing is acknowledged.
LEMMA QuietMove ==
    ASSUME AttestInv, NEW n \in Node, NEW L, NEW u \in NodeState(L), Becomes(n, u),
           Keeps(local[n], u), acks' = acks, unrecorded' = unrecorded
    PROVE  Recorded' /\ OneVotePerSlot' /\ HighIsReached'
  <1>1. Unequivocal(u.votes)
    BY DEF Keeps, AttestInv, OneVotePerSlot, Unequivocal
  <1> QED
    BY <1>1, NodeMoves DEF Keeps

\* A batch that MayAttest lets through is the only one of its slot on record.
LEMMA AttestedIsUnique ==
    ASSUME NEW s, NEW b, MayAttest(s, b), NEW t, t.votes \subseteq s.votes \cup {b},
           Unequivocal(s.votes)
    PROVE  Unequivocal(t.votes)
  BY DEF MayAttest, SameSlot, Unequivocal

\* What attesting a batch does to the acks whose vote was not kept.
LEMMA AttestingIsRecorded ==
    ASSUME NEW n, NEW b, NEW s, NEW saved \in BOOLEAN, NEW t,
           saved => t.votes = s.votes \cup {b}, ~saved => t.votes = s.votes,
           NEW k, k = [batch |-> b, acker |-> n],
           unrecorded' = StillUnrecorded(s, k, saved)
    PROVE  /\ k \in unrecorded' \/ k.batch \in t.votes
           /\ \A l \in unrecorded : l \in unrecorded' \/ l = k
           /\ \A l \in unrecorded : l \in unrecorded' \/ (l.acker = n /\ l.batch \in t.votes)
  BY DEF StillUnrecorded

LEMMA AttestInit == Init => AttestInv
  <1> SUFFICES ASSUME Init PROVE AttestInv
    OBVIOUS
  <1>1. \A n \in Node : local[n].round = 1 /\ local[n].votes = {} /\ high[n] = 1
    BY DEF Init, Fresh
  <1>2. acks = {} /\ \A n \in Node : disk[n].votes = {}
    BY DEF Init
  <1> QED
    BY <1>1, <1>2, TypeInit
       DEF AttestInv, Recorded, OneVotePerSlot, OneDurableVotePerSlot, Unequivocal, HighIsReached

LEMMA DiskStaysUnequivocal ==
    AttestInv /\ [Next]_vars => OneDurableVotePerSlot'
  <1> SUFFICES ASSUME AttestInv, [Next]_vars PROVE OneDurableVotePerSlot'
    OBVIOUS
  <1>1. ASSUME NEW n \in Node, Flush(n) PROVE OneDurableVotePerSlot'
    BY <1>1 DEF Flush, AttestInv, TypeOK, OneVotePerSlot, OneDurableVotePerSlot
  <1>2. CASE disk' = disk
    BY <1>2 DEF AttestInv, OneDurableVotePerSlot
  <1>3. ASSUME NEW n \in Byz, Faulty(n) PROVE disk' = disk
    BY <1>3 DEF Faulty, Equivocate, AckAnything, CertifyAnything
  <1>4. ASSUME NEW n \in Node, NodeStep(n) PROVE Flush(n) \/ disk' = disk
    BY <1>4
       DEF NodeStep, BeginRound, ReceiveBatch, FastForward, ReceiveAck,
           ReceiveCertificate, RoundTimeout, RetryTick, SyncFrom, Restart
  <1> QED
    BY <1>1, <1>2, <1>3, <1>4 DEF Next, vars

LEMMA AttestNext == AttestInv /\ [Next]_vars => AttestInv'
  <1> SUFFICES ASSUME AttestInv, [Next]_vars
               PROVE  Recorded' /\ OneVotePerSlot' /\ HighIsReached'
    BY TypeNext, DiskStaysUnequivocal DEF AttestInv
  <1> USE FaultBound, OutcomesAreBooleans, BoundsAreNumbers
  <1>0. /\ TypeOK
        /\ TypeOK'
        /\ \A n \in Node : local[n] \in NodeState(certs)
        /\ \A n \in Node : local'[n] \in NodeState(certs')
        /\ \A n \in Node : Unequivocal(local[n].votes)
    BY TypeNext DEF AttestInv, TypeOK, OneVotePerSlot
  <1>1. ASSUME NEW n \in Node, NEW x \in Content, BeginRound(n, x)
        PROVE  Recorded' /\ OneVotePerSlot' /\ HighIsReached'
    <2> DEFINE s == Begun(n, local[n], local[n].round, x)
    <2>1. local[n].round \in Nat
      BY <1>0 DEF NodeState
    <2>2. /\ s \in NodeState(certs) /\ s.votes = local[n].votes
          /\ s.batch.author = n
      BY <1>0, <2>1, BegunType
    <2>3. /\ Becomes(n, s) /\ acks' = acks \cup {[batch |-> s.batch, acker |-> n]}
          /\ unrecorded' = unrecorded
      BY <1>1 DEF BeginRound
    <2> HIDE DEF s
    <2> QED
      BY <1>0, <2>2, <2>3, NodeMoves
  <1>2. ASSUME NEW n \in Node, NEW b \in batches, NEW saved \in SaveOutcomes,
               ReceiveBatch(n, b, saved)
        PROVE  Recorded' /\ OneVotePerSlot' /\ HighIsReached'
    <2> DEFINE s == Attested(local[n], b, saved)
               k == [batch |-> b, acker |-> n]
    <2>1. b \in Batch /\ saved \in BOOLEAN
      BY <1>0 DEF TypeOK
    <2>2. /\ s \in NodeState(certs)
          /\ saved => s.votes = local[n].votes \cup {b}
          /\ ~saved => s.votes = local[n].votes
      BY <1>0, <2>1, AttestedType
    <2>3. /\ Becomes(n, s) /\ acks' = acks \cup {k}
          /\ MayAttest(local[n], b)
          /\ unrecorded' = StillUnrecorded(local[n], k, saved)
      BY <1>2 DEF ReceiveBatch
    <2>4. Unequivocal(s.votes)
      BY <1>0, <2>2, <2>3, AttestedIsUnique
    <2>5. k.acker = n
      OBVIOUS
    <2> HIDE DEF s
    <2>6. /\ k \in unrecorded' \/ k.batch \in s.votes
          /\ \A l \in unrecorded : l \in unrecorded' \/ (l.acker = n /\ l.batch \in s.votes)
      <3>1. k = [batch |-> b, acker |-> n]
        OBVIOUS
      <3> HIDE DEF k
      <3> QED
        BY <2>1, <2>2, <2>3, <3>1, AttestingIsRecorded
    <2> HIDE DEF k
    <2> QED
      BY <2>2, <2>3, <2>4, <2>5, <2>6, NodeMoves
  <1>3. ASSUME NEW n \in Node, NEW b \in batches, NEW x \in Content,
               NEW saved \in SaveOutcomes, FastForward(n, b, x, saved)
        PROVE  Recorded' /\ OneVotePerSlot' /\ HighIsReached'
    <2> DEFINE q == [local[n] EXCEPT !.timer = "off"]
               s == Begun(n, q, b.round, x)
               u == Attested(s, b, saved)
               own == [batch |-> s.batch, acker |-> n]
               k == [batch |-> b, acker |-> n]
    <2>1. b \in Batch /\ b.round \in Nat /\ saved \in BOOLEAN
      BY <1>0 DEF TypeOK, Batch
    <2>2. q \in NodeState(certs) /\ q.votes = local[n].votes
      BY <1>0 DEF NodeState
    <2>3. /\ s \in NodeState(certs) /\ s.votes = local[n].votes
          /\ s.batch.author = n
      <3> HIDE DEF q
      <3> QED
        BY <2>1, <2>2, BegunType
    <2>4. /\ u \in NodeState(certs)
          /\ saved => u.votes = s.votes \cup {b}
          /\ ~saved => u.votes = s.votes
      <3>1. s \in NodeState(certs) /\ b \in Batch /\ saved \in BOOLEAN
        BY <2>1, <2>3
      <3> HIDE DEF s
      <3> QED
        BY <3>1, AttestedType
    <2>5. own.acker = n /\ own.batch.author = n /\ k.acker = n
      BY <2>3
    <2>6. CASE MayAttest(s, b)
      <3>1. /\ Becomes(n, u)
            /\ acks' = acks \cup {own, k}
            /\ unrecorded' = StillUnrecorded(s, k, saved)
        BY <1>3, <2>6 DEF FastForward
      <3>2. Unequivocal(u.votes)
        BY <1>0, <2>3, <2>4, <2>6, AttestedIsUnique
      <3> HIDE DEF s, u
      <3>3. /\ k \in unrecorded' \/ k.batch \in u.votes
            /\ \A l \in unrecorded : l \in unrecorded' \/ (l.acker = n /\ l.batch \in u.votes)
        <4>1. k = [batch |-> b, acker |-> n]
          OBVIOUS
        <4> HIDE DEF k
        <4> QED
          BY <2>1, <2>4, <3>1, <4>1, AttestingIsRecorded
      <3> HIDE DEF k, own
      <3> QED
        BY <2>3, <2>4, <2>5, <3>1, <3>2, <3>3, NodeMoves
    <2>7. CASE ~MayAttest(s, b)
      <3>1. Becomes(n, s) /\ acks' = acks \cup {own} /\ unrecorded' = unrecorded
        BY <1>3, <2>7 DEF FastForward
      <3> HIDE DEF s, own
      <3> QED
        BY <1>0, <2>3, <2>5, <3>1, NodeMoves
    <2> QED
      BY <2>6, <2>7
  <1>4. ASSUME NEW n \in Node, NEW a \in acks, NEW saved \in SaveOutcomes,
               ReceiveAck(n, a, saved)
        PROVE  Recorded' /\ OneVotePerSlot' /\ HighIsReached'
    <2> DEFINE s == [local[n] EXCEPT !.acked = @ \cup {a.acker}]
               L == certs \cup Sealed(n, s, saved)
    <2>1. s \in NodeState(certs) /\ Keeps(local[n], s)
      <3>1. a.acker \in Node /\ local[n] \in NodeState(certs)
        BY <1>0 DEF TypeOK, Ack
      <3>2. s \in NodeState(certs)
        BY <3>1 DEF NodeState
      <3>3. s.round = local[n].round /\ s.votes = local[n].votes
        BY <3>1 DEF NodeState
      <3> QED
        BY <3>1, <3>2, <3>3, SameVotesKeep
    <2>2. TryCreate(n, s, saved) \in NodeState(L) /\ Keeps(s, TryCreate(n, s, saved))
      BY <2>1, TryCreateType, TryCreateKeeps
    <2>3. local[n] \in NodeState(L) /\ s \in NodeState(L)
      BY <1>0, <2>1, NodeStateMonotone
    <2>4. Keeps(local[n], TryCreate(n, s, saved))
      BY <2>1, <2>2, <2>3, KeepsTransitive
    <2>5. Becomes(n, TryCreate(n, s, saved)) /\ UNCHANGED <<acks, unrecorded>>
      BY <1>4 DEF ReceiveAck
    <2> HIDE DEF L, s
    <2> QED
      BY <2>2, <2>4, <2>5, QuietMove
  <1>5. ASSUME NEW n \in Node, NEW c \in certs, NEW saved \in SaveOutcomes,
               ReceiveCertificate(n, c, saved)
        PROVE  Recorded' /\ OneVotePerSlot' /\ HighIsReached'
    <2> DEFINE s == [local[n] EXCEPT !.dag = IF saved THEN @ \cup {c} ELSE @]
               w == [s EXCEPT !.roundCerts = @ \cup {c.author}]
    <2>1. s \in NodeState(certs) /\ s.round = local[n].round /\ s.votes = local[n].votes
      BY <1>0 DEF NodeState
    <2>2. /\ w \in NodeState(certs)
          /\ w.round = local[n].round /\ w.votes = local[n].votes
      <3>1. c.author \in Node
        BY <1>0 DEF TypeOK
      <3>2. s \in NodeState(certs)
        BY <2>1
      <3> HIDE DEF s
      <3>3. w \in NodeState(certs) /\ w.round = s.round /\ w.votes = s.votes
        BY <3>1, <3>2 DEF NodeState
      <3> QED
        BY <2>1, <3>3
    <2>3. Keeps(local[n], s) /\ Keeps(local[n], w)
      BY <1>0, <2>1, <2>2, SameVotesKeep
    <2>4. Advanced(w) \in NodeState(certs) /\ Keeps(local[n], Advanced(w))
      BY <1>0, <2>2, <2>3, AdvancedType, AdvancedKeeps, KeepsTransitive
    <2>5. /\ Becomes(n, IF c.round = local[n].round THEN Advanced(w) ELSE s)
          /\ UNCHANGED <<acks, unrecorded>>
      BY <1>5 DEF ReceiveCertificate
    <2> HIDE DEF s, w
    <2> QED
      BY <2>1, <2>3, <2>4, <2>5, QuietMove
  <1>6. ASSUME NEW n \in Node, NEW saved \in SaveOutcomes, NEW s \in NodeState(certs),
               Keeps(local[n], s), UNCHANGED <<acks, unrecorded>>,
               Becomes(n, Rearmed(Advanced(TryCreate(n, s, saved))))
        PROVE  Recorded' /\ OneVotePerSlot' /\ HighIsReached'
    <2> DEFINE L == certs \cup Sealed(n, s, saved)
               u == TryCreate(n, s, saved)
               v == Advanced(u)
               w == Rearmed(v)
    <2>1. u \in NodeState(L) /\ Keeps(s, u)
      BY TryCreateType, TryCreateKeeps
    <2>2. v \in NodeState(L) /\ Keeps(u, v)
      BY <2>1, AdvancedType, AdvancedKeeps
    <2>3. w \in NodeState(L) /\ Keeps(v, w)
      BY <2>2, RearmedType, RearmedKeeps
    <2>4. local[n] \in NodeState(L) /\ s \in NodeState(L)
      BY <1>0, NodeStateMonotone
    <2>5. Becomes(n, w)
      BY <1>6
    <2> HIDE DEF u, v, w
    <2>6. Keeps(local[n], u)
      BY <1>6, <2>1, <2>4, KeepsTransitive
    <2>7. Keeps(local[n], v)
      BY <2>1, <2>2, <2>4, <2>6, KeepsTransitive
    <2>8. Keeps(local[n], w)
      BY <2>2, <2>3, <2>4, <2>7, KeepsTransitive
    <2> QED
      BY <1>6, <2>3, <2>5, <2>8, QuietMove
  <1>7. ASSUME NEW n \in Node, NEW saved \in SaveOutcomes, RoundTimeout(n, saved)
        PROVE  Recorded' /\ OneVotePerSlot' /\ HighIsReached'
    <2> DEFINE s == [local[n] EXCEPT !.timer = IF @ = "round" THEN "off" ELSE @,
                                     !.leaked = local[n].leaked /\ local[n].timer = "round"]
    <2>1. s \in NodeState(certs) /\ Keeps(local[n], s)
      <3>1. local[n] \in NodeState(certs)
        BY <1>0
      <3>2. (local[n].leaked /\ local[n].timer = "round") \in BOOLEAN
        OBVIOUS
      <3>3. s \in NodeState(certs) /\ s.round = local[n].round /\ s.votes = local[n].votes
        BY <3>1, <3>2 DEF NodeState
      <3> QED
        BY <3>1, <3>3, SameVotesKeep
    <2> QED
      BY <1>6, <1>7, <2>1 DEF RoundTimeout
  <1>8. ASSUME NEW n \in Node, NEW saved \in SaveOutcomes, RetryTick(n, saved)
        PROVE  Recorded' /\ OneVotePerSlot' /\ HighIsReached'
    <2> DEFINE q == [local[n] EXCEPT !.timer = "off"]
               s == Reconciled(q)
    <2>1. q \in NodeState(certs) /\ q.round = local[n].round /\ q.votes = local[n].votes
      BY <1>0 DEF NodeState
    <2>2. Keeps(local[n], q)
      BY <1>0, <2>1, SameVotesKeep
    <2>3. \A c \in certs : c.author \in Node
      BY <1>0 DEF TypeOK
    <2> HIDE DEF q
    <2>4. s \in NodeState(certs) /\ Keeps(q, s)
      BY <2>1, <2>3, ReconciledType, ReconciledKeeps
    <2>5. Keeps(local[n], s)
      BY <1>0, <2>1, <2>2, <2>4, KeepsTransitive
    <2> QED
      BY <1>6, <1>8, <2>4, <2>5 DEF RetryTick, q
  <1>9. ASSUME NEW n \in Node, NEW m \in Node, NEW r \in 1..MaxRound, SyncFrom(n, m, r)
        PROVE  Recorded' /\ OneVotePerSlot' /\ HighIsReached'
    <2> DEFINE q == [local[n] EXCEPT !.dag = @ \cup {c \in local[m].dag : c.round >= r}]
               s == Reconciled(q)
    <2>1. q \in NodeState(certs) /\ q.round = local[n].round /\ q.votes = local[n].votes
      BY <1>0 DEF NodeState
    <2>2. Keeps(local[n], q)
      BY <1>0, <2>1, SameVotesKeep
    <2>3. \A c \in certs : c.author \in Node
      BY <1>0 DEF TypeOK
    <2>4. Becomes(n, Advanced(s)) /\ UNCHANGED <<acks, unrecorded>>
      BY <1>9 DEF SyncFrom
    <2> HIDE DEF q
    <2>5. s \in NodeState(certs) /\ Keeps(q, s)
      BY <2>1, <2>3, ReconciledType, ReconciledKeeps
    <2>6. Keeps(local[n], s)
      BY <1>0, <2>1, <2>2, <2>5, KeepsTransitive
    <2>7. Advanced(s) \in NodeState(certs) /\ Keeps(local[n], Advanced(s))
      BY <1>0, <2>5, <2>6, AdvancedType, AdvancedKeeps, KeepsTransitive
    <2> QED
      BY <2>4, <2>7, QuietMove
  <1>10. ASSUME NEW n \in Node, Restart(n)
         PROVE  Recorded' /\ OneVotePerSlot' /\ HighIsReached'
    <2> DEFINE kept == IF WriteBehind THEN disk[n]
                       ELSE [dag |-> local[n].dag, votes |-> local[n].votes]
    <2>1. PICK r \in 0..MaxRound : Becomes(n, Fresh(r + 1, kept.dag, kept.votes))
      BY <1>10 DEF Restart
    <2> DEFINE s == Fresh(r + 1, kept.dag, kept.votes)
    <2>2. kept \in [dag : SUBSET certs, votes : SUBSET Batch] /\ Unequivocal(kept.votes)
      BY <1>0 DEF NodeState, TypeOK, AttestInv, OneDurableVotePerSlot
    <2>3. /\ Becomes(n, s) /\ acks' = acks
          /\ unrecorded' = unrecorded \cup
                 {a \in acks : a.acker = n /\ a.batch \in local[n].votes \ kept.votes}
      BY <1>10, <2>1 DEF Restart
    <2> HIDE DEF kept
    <2>4. s \in NodeState(certs) /\ s.votes = kept.votes
      BY <2>2 DEF Fresh, NodeState
    <2> HIDE DEF s
    <2> QED
      BY <1>0, <2>2, <2>3, <2>4, NodeMoves
  <1>11. ASSUME NEW n \in Byz, UNCHANGED <<local, high, unrecorded>>,
                \A k \in acks' : k \in acks \/ k.acker = n
         PROVE  Recorded' /\ OneVotePerSlot' /\ HighIsReached'
    <2>1. Recorded'
      BY <1>11 DEF AttestInv, Recorded, Forgot
    <2>2. OneVotePerSlot' /\ HighIsReached'
      BY <1>11 DEF AttestInv, OneVotePerSlot, HighIsReached
    <2> QED
      BY <2>1, <2>2
  <1>12. ASSUME NEW n \in Byz, Faulty(n)
         PROVE  Recorded' /\ OneVotePerSlot' /\ HighIsReached'
    BY <1>11, <1>12 DEF Faulty, Equivocate, AckAnything, CertifyAnything
  <1>13. ASSUME UNCHANGED <<local, high, acks, unrecorded>>
         PROVE  Recorded' /\ OneVotePerSlot' /\ HighIsReached'
    BY <1>13 DEF AttestInv, Recorded, Forgot, OneVotePerSlot, HighIsReached
  <1>14. CASE UNCHANGED vars
    BY <1>13, <1>14 DEF vars
  <1>15. ASSUME NEW n \in Node, Flush(n)
         PROVE  Recorded' /\ OneVotePerSlot' /\ HighIsReached'
    BY <1>13, <1>15 DEF Flush
  <1> QED
    BY <1>1, <1>2, <1>3, <1>4, <1>5, <1>7, <1>8, <1>9, <1>10, <1>12, <1>14, <1>15
       DEF Next, NodeStep

LEMMA AttestInvImplies == AttestInv => AttestsOnce
  <1> SUFFICES ASSUME AttestInv, NEW x \in acks \ unrecorded, NEW y \in acks \ unrecorded,
                      x.acker = y.acker, x.acker \notin Byz,
                      SameSlot(x.batch, y.batch), x.batch.author # x.acker,
                      ~Forgot(x.acker, x.batch.round)
               PROVE  x.batch = y.batch
    BY DEF AttestsOnce
  <1>1. x.acker \in Node
    BY DEF AttestInv, TypeOK, Ack
  <1>2. x.batch \in local[x.acker].votes /\ y.batch \in local[x.acker].votes
    BY DEF AttestInv, Recorded, SameSlot
  <1> QED
    BY <1>1, <1>2 DEF AttestInv, OneVotePerSlot, Unequivocal

\* A node never signs two batches of one author and round inside the retention
\* window but when a store has not kept its vote: through any number of
\* crashes, any loss and replay, a busy store, one that writes later, and up
\* to f faulty nodes.
THEOREM NeverAttestsTwice == Spec => []AttestsOnce
  <1>1. Init => AttestInv
    BY AttestInit
  <1>2. AttestInv /\ [Next]_vars => AttestInv'
    BY AttestNext
  <1>3. AttestInv => AttestsOnce
    BY AttestInvImplies
  <1> QED
    BY <1>1, <1>2, <1>3, PTL DEF Spec
===========================================================================
