------------------------- MODULE TransactionsProofs -------------------------
(* For every set of transactions and every bound: what is committed, what  *)
(* is rejected as a duplicate, that the mempool and its table agree, that  *)
(* no transaction disappears, and that the waiting ones keep their order.  *)
EXTENDS Transactions, SequenceTheorems, FiniteSetTheorems, WellFoundedInduction, TLAPS

----------------------------------------------------------------------------
(* One transaction per key.                                                *)

\* Of two positions that phase 1 lets through, one is first.
LEMMA FirstIsAlone ==
    ASSUME NEW ts, NEW i \in First(ts), NEW j \in First(ts), Key[ts[i]] = Key[ts[j]]
    PROVE  i = j
<1>1. i \in Nat /\ j \in Nat
    <2>1. First(ts) \subseteq 1 .. Len(ts)
        BY DEF First, Sound
    <2>2. QED
        BY <2>1
<1>2. i \in Sound(ts) \ Late(ts) /\ j \in Sound(ts) \ Late(ts)
    BY DEF First
<1>3. ~(i < j) /\ ~(j < i)
    BY <1>2 DEF First, Rivals
<1>4. QED
    BY <1>1, <1>3

\* What a commit writes excludes nothing committed before.
LEMMA FirstIsNotLate ==
    ASSUME NEW ts, NEW i \in First(ts), NEW u \in committed
    PROVE  Key[ts[i]] # Key[u]
BY DEF First, Late, Clashes

\* OnePerKey for every behaviour: two transactions that exclude each other
\* are never both in the DAG, whatever certificates and commits they were in.
THEOREM OneCommittedPerKey == Spec => []OnePerKey
<1>1. Init => OnePerKey
    BY DEF Init, OnePerKey
<1>2. OnePerKey /\ [Next]_vars => OnePerKey'
    <2>1. CASE \E order \in SetToAllKPermutations(certs) \ {<<>>}, ok \in BOOLEAN : Commit(order, ok)
        <3>1. PICK order, ok : Commit(order, ok)
            BY <2>1
        <3> DEFINE ts == Ordered(order)
        <3>2. committed' \subseteq committed \cup {ts[i] : i \in First(ts)}
            BY <3>1 DEF Commit
        <3> HIDE DEF ts
        <3>3. SUFFICES ASSUME OnePerKey, NEW t \in committed', NEW u \in committed', Key[t] = Key[u]
                       PROVE  t = u
            BY DEF OnePerKey
        <3>4. CASE t \in committed /\ u \in committed
            BY <3>3, <3>4 DEF OnePerKey
        <3>5. CASE t \in committed /\ u \notin committed
            BY <3>2, <3>3, <3>5, FirstIsNotLate
        <3>6. CASE t \notin committed /\ u \in committed
            BY <3>2, <3>3, <3>6, FirstIsNotLate
        <3>7. CASE t \notin committed /\ u \notin committed
            BY <3>2, <3>3, <3>7, FirstIsAlone
        <3>8. QED
            BY <3>4, <3>5, <3>6, <3>7
    <2>2. CASE UNCHANGED committed
        BY <2>2 DEF OnePerKey
    <2>3. QED
        BY <2>1, <2>2 DEF Next, vars, Submit, SubmitBatch, BeginRound, Seal, PeerCertifies, Pull, Receive, Restart
<1>3. QED
    BY <1>1, <1>2, PTL DEF Spec
----------------------------------------------------------------------------
(* Rejections as a duplicate.                                              *)

\* The fields of the record of the mempool.
IsPool(p) == p \in [pending : {p.pending}, disk : {p.disk}, dead : {p.dead}, rows : {p.rows}]

\* q is a mempool that has rejected no more duplicates than p.
NoNewDuplicate(p, q) ==
    /\ IsPool(q)
    /\ \A t : Row(t, "duplicate") \in q.rows => Row(t, "duplicate") \in p.rows

\* The operations of mempool.js reject for other reasons.
LEMMA MempoolRejectsNoDuplicate ==
    ASSUME NEW p, IsPool(p)
    PROVE  /\ \A t : NoNewDuplicate(p, Added(p, t)) /\ NoNewDuplicate(p, Turned(p, t))
           /\ \A T : NoNewDuplicate(p, Removed(p, T)) /\ NoNewDuplicate(p, Tombstoned(p, T))
           /\ \A ts : NoNewDuplicate(p, PutBack(p, ts))
           /\ \A stale, expired : NoNewDuplicate(p, Evicted(p, stale, expired))
<1>1. ASSUME NEW t PROVE NoNewDuplicate(p, Added(p, t)) /\ NoNewDuplicate(p, Turned(p, t))
    <2>1. NoNewDuplicate(p, Added(p, t))
        <3> DEFINE put == Append(p.pending, t)
                   onDisk == Append(p.disk, t)
        <3>1. Added(p, t) = [p EXCEPT !.pending = put, !.disk = onDisk]
            BY DEF Added
        <3> HIDE DEF put, onDisk
        <3>2. QED
            BY <3>1 DEF NoNewDuplicate, IsPool
    <2>2. CASE Known(p, t)
        BY <2>1, <2>2 DEF NoNewDuplicate, Turned
    <2>3. CASE ~Known(p, t)
        <3> DEFINE turned == {Row(t, "dropped")}
        <3>1. \A u : Row(u, "duplicate") \notin turned
            BY DEF Row
        <3>2. Turned(p, t) = [p EXCEPT !.rows = @ \cup turned]
            BY <2>3 DEF Turned
        <3> HIDE DEF turned
        <3>3. QED
            BY <2>1, <3>1, <3>2 DEF NoNewDuplicate, IsPool
    <2>4. QED
        BY <2>2, <2>3
<1>2. ASSUME NEW T PROVE NoNewDuplicate(p, Removed(p, T))
    <2> DEFINE left == Without(p.pending, T)
               onDisk == Without(p.disk, T)
    <2>1. Removed(p, T) = [p EXCEPT !.pending = left, !.disk = onDisk]
        BY DEF Removed
    <2> HIDE DEF left, onDisk
    <2>2. QED
        BY <2>1 DEF NoNewDuplicate, IsPool
<1>3. ASSUME NEW T PROVE NoNewDuplicate(p, Tombstoned(p, T))
    <2> DEFINE q == Removed(p, T)
    <2>1. NoNewDuplicate(p, q)
        BY <1>2
    <2> HIDE DEF q
    <2>2. [q EXCEPT !.dead = @ \cup T].rows = q.rows /\ IsPool([q EXCEPT !.dead = @ \cup T])
        BY <2>1 DEF IsPool, NoNewDuplicate
    <2>3. QED
        BY <2>1, <2>2 DEF NoNewDuplicate, Tombstoned, q
<1>4. ASSUME NEW ts PROVE NoNewDuplicate(p, PutBack(p, ts))
    <2> DEFINE fresh == Without(ts, Knows(p))
               room == MaxPending - Len(p.pending)
               over == IF Len(fresh) > room THEN Len(fresh) - room ELSE 0
               kept == SubSeq(fresh, over + 1, Len(fresh))
               turned == {Row(fresh[i], "dropped") : i \in 1 .. over}
               put == kept \o p.pending
               onDisk == p.disk \o Reverse(kept)
    <2>1. \A t : Row(t, "duplicate") \notin turned
        BY DEF Row
    <2>2. PutBack(p, ts) = [p EXCEPT !.pending = put, !.disk = onDisk, !.rows = @ \cup turned]
        BY DEF PutBack, IsPool
    <2> HIDE DEF turned, put, onDisk
    <2>3. QED
        BY <2>1, <2>2 DEF NoNewDuplicate, IsPool
<1>5. ASSUME NEW stale, NEW expired PROVE NoNewDuplicate(p, Evicted(p, stale, expired))
    <2> DEFINE q == Removed(p, stale)
               gone == {Row(t, "dropped") : t \in stale}
    <2>1. NoNewDuplicate(p, q)
        BY <1>2
    <2>2. \A t : Row(t, "duplicate") \notin gone
        BY DEF Row
    <2>3. Evicted(p, stale, expired) = [q EXCEPT !.dead = @ \ expired, !.rows = @ \cup gone]
        BY DEF Evicted
    <2> HIDE DEF q, gone
    <2>4. QED
        BY <2>1, <2>2, <2>3 DEF NoNewDuplicate, IsPool
<1>6. QED
    BY <1>1, <1>2, <1>3, <1>4, <1>5

\* NoNewDuplicate is transitive.
LEMMA NoNewDuplicateComposes ==
    ASSUME NEW p, NEW q, NEW r, NoNewDuplicate(p, q), NoNewDuplicate(q, r)
    PROVE  NoNewDuplicate(p, r)
BY DEF NoNewDuplicate

DuplicatesInv == IsPool(pool) /\ DuplicatesHaveAWinner

\* Every step but a commit: committed only grows, and no duplicate is added.
LEMMA OthersRejectNoDuplicate ==
    ASSUME DuplicatesInv, committed' = committed, NoNewDuplicate(pool, pool')
    PROVE  DuplicatesInv'
BY DEF DuplicatesInv, DuplicatesHaveAWinner, NoNewDuplicate, Clashes

\* What phase 1 rejects as a duplicate was excluded before, or loses to
\* something that this commit writes, or is held back.
LEMMA CommitHasAWinner ==
    ASSUME DuplicatesInv, NEW order, NEW ok \in BOOLEAN, Commit(order, ok)
    PROVE  DuplicatesInv'
<1> DEFINE ts == Ordered(order)
           new == IF ok THEN {ts[i] : i \in First(ts)} ELSE {}
           unsettled == {i \in Held(ts) : ~Clashes(ts[i], new)}
           duplicates == {Row(ts[i], "duplicate") : i \in Sound(ts) \ (First(ts) \cup unsettled)}
           others == {Row(ts[i], "dropped") : i \in Unsound(ts)}
                     \cup (IF ok THEN {} ELSE {Row(ts[i], "dropped") : i \in First(ts)})
           p == Tombstoned(pool, {ts[i] : i \in Unsound(ts)})
           onDisk == Without(p.disk, new)
           q == [p EXCEPT !.disk = onDisk, !.rows = @ \cup others \cup duplicates]
<1>1. committed' = committed \cup new
    BY DEF Commit
<1>2. NoNewDuplicate(pool, p)
    BY MempoolRejectsNoDuplicate DEF DuplicatesInv
<1>3. pool' = Restored(q, ts, unsettled)
    BY DEF Commit
<1>4. \A t : Row(t, "duplicate") \notin others
    BY DEF Row
<1>5. ASSUME NEW t \in Holding, Row(t, "duplicate") \in duplicates
      PROVE  Clashes(t, committed \cup new)
    <2>1. PICK i \in Sound(ts) \ (First(ts) \cup unsettled) : t = ts[i]
        BY <1>5 DEF Row
    <2>2. CASE i \in Late(ts)
        BY <2>1, <2>2 DEF Late, Clashes
    <2>3. CASE i \notin Late(ts)
        BY <2>1, <2>3, <1>5 DEF Held, Clashes
    <2>4. QED
        BY <2>2, <2>3
<1> HIDE DEF ts, new, unsettled, duplicates, others, p, onDisk
<1>6. IsPool(q) /\ q.rows = p.rows \cup others \cup duplicates
    BY <1>2 DEF NoNewDuplicate, IsPool
<1> HIDE DEF q
<1>7. NoNewDuplicate(q, pool')
    BY <1>3, <1>6, MempoolRejectsNoDuplicate DEF Restored
<1>8. ASSUME NEW t \in Holding, Row(t, "duplicate") \in pool'.rows
      PROVE  Clashes(t, committed')
    <2>1. Row(t, "duplicate") \in pool.rows \/ Row(t, "duplicate") \in duplicates
        BY <1>2, <1>4, <1>6, <1>7, <1>8 DEF NoNewDuplicate
    <2>2. CASE Row(t, "duplicate") \in pool.rows
        BY <1>1, <2>2 DEF DuplicatesInv, DuplicatesHaveAWinner, Clashes
    <2>3. QED
        BY <1>1, <1>5, <2>1, <2>2
<1>9. QED
    BY <1>7, <1>8 DEF DuplicatesInv, DuplicatesHaveAWinner, NoNewDuplicate

\* DuplicatesHaveAWinner for every behaviour: a held type is only rejected as
\* a duplicate when something that excludes it is committed.
THEOREM DuplicatesLostToACommit == Spec => []DuplicatesHaveAWinner
<1>1. Init => DuplicatesInv
    BY DEF Init, DuplicatesInv, IsPool, DuplicatesHaveAWinner
<1>2. DuplicatesInv /\ [Next]_vars => DuplicatesInv'
    <2> SUFFICES ASSUME DuplicatesInv, [Next]_vars PROVE DuplicatesInv'
        OBVIOUS
    <2>0. IsPool(pool)
        BY DEF DuplicatesInv
    <2>1. ASSUME NEW t \in Tx, Submit(t) PROVE DuplicatesInv'
        BY <2>0, <2>1, MempoolRejectsNoDuplicate, OthersRejectNoDuplicate DEF Submit
    <2>2. ASSUME NEW t \in Tx, NEW u \in Tx, SubmitBatch(t, u) PROVE DuplicatesInv'
        <3> DEFINE a == Added(pool, t)
                   b == Turned(a, u)
        <3>1. NoNewDuplicate(pool, a)
            BY <2>0, MempoolRejectsNoDuplicate
        <3>2. NoNewDuplicate(a, b)
            BY <3>1, MempoolRejectsNoDuplicate DEF NoNewDuplicate
        <3>3. NoNewDuplicate(b, Removed(b, {t}))
            BY <3>2, MempoolRejectsNoDuplicate DEF NoNewDuplicate
        <3>4. NoNewDuplicate(pool, RolledBack(pool, t, u))
            BY <3>1, <3>2, <3>3, NoNewDuplicateComposes DEF RolledBack
        <3>5. QED
            BY <2>2, <3>4, OthersRejectNoDuplicate DEF SubmitBatch
    <2>3. ASSUME NEW stale, NEW expired, BeginRound(stale, expired) PROVE DuplicatesInv'
        <3> DEFINE a == PutBack(pool, batch)
                   b == Evicted(a, stale, expired)
        <3>1. NoNewDuplicate(pool, a)
            BY <2>0, MempoolRejectsNoDuplicate
        <3>2. NoNewDuplicate(a, b)
            BY <3>1, MempoolRejectsNoDuplicate DEF NoNewDuplicate
        <3>3. NoNewDuplicate(pool, b)
            BY <3>1, <3>2, NoNewDuplicateComposes
        <3>4. \A T : NoNewDuplicate(b, Removed(b, T))
            BY <3>2, MempoolRejectsNoDuplicate DEF NoNewDuplicate
        <3>5. \A T : NoNewDuplicate(pool, Removed(b, T))
            BY <3>3, <3>4, NoNewDuplicateComposes
        <3>6. QED
            BY <2>3, <3>5, OthersRejectNoDuplicate DEF BeginRound
    <2>4. ASSUME NEW c, NEW saved \in BOOLEAN, Receive(c, saved) PROVE DuplicatesInv'
        BY <2>0, <2>4, MempoolRejectsNoDuplicate, OthersRejectNoDuplicate DEF Receive
    <2>5. ASSUME NEW order, NEW ok \in BOOLEAN, Commit(order, ok) PROVE DuplicatesInv'
        BY <2>5, CommitHasAWinner
    <2>6. CASE Restart
        <3>1. NoNewDuplicate(pool, pool')
            BY <2>0, <2>6 DEF Restart, NoNewDuplicate, IsPool
        <3>2. QED
            BY <2>6, <3>1, OthersRejectNoDuplicate DEF Restart
    <2>7. CASE UNCHANGED <<pool, committed>>
        BY <2>7 DEF DuplicatesInv, IsPool, DuplicatesHaveAWinner, Clashes
    <2>8. QED
        BY <2>1, <2>2, <2>3, <2>4, <2>5, <2>6, <2>7 DEF Next, vars, Seal, PeerCertifies, Pull
<1>3. DuplicatesInv => DuplicatesHaveAWinner
    BY DEF DuplicatesInv
<1>4. QED
    BY <1>1, <1>2, <1>3, PTL DEF Spec
----------------------------------------------------------------------------
(* Sequences: induction, and the laws of Without.                            *)

\* Induction over the numbers, with a set for the formula.
LEMMA NumberInduction ==
    ASSUME NEW I, 0 \in I, \A n \in Nat : n \in I => n + 1 \in I
    PROVE  \A n \in Nat : n \in I
<1> SUFFICES ASSUME NEW k \in Nat, k \notin I PROVE FALSE
    OBVIOUS
<1> DEFINE Out == {n \in Nat : n \notin I}
<1>1. PICK n \in Out : \A m \in Out : ~(<<m, n>> \in OpToRel(<, Nat))
    <2>1. Out \subseteq Nat /\ Out # {}
        OBVIOUS
    <2> HIDE DEF Out
    <2>2. QED
        BY <2>1, NatLessThanWellFounded, WFMin
<1>2. n \in Nat /\ n # 0 /\ n \notin I
    OBVIOUS
<1>3. n - 1 \in Nat /\ n - 1 < n /\ n = (n - 1) + 1
    BY <1>2
<1>4. n - 1 \in I
    BY <1>1, <1>3 DEF OpToRel
<1>5. QED
    BY <1>2, <1>3, <1>4

\* And over the sequences.
LEMMA SequenceInduction ==
    ASSUME NEW S, NEW I, <<>> \in I,
           \A s \in Seq(S) : s \in I => \A e \in S : Append(s, e) \in I
    PROVE  \A s \in Seq(S) : s \in I
<1> DEFINE L == {n \in Nat : \A s \in Seq(S) : Len(s) = n => s \in I}
<1>1. 0 \in L
    BY EmptySeq
<1>2. ASSUME NEW n \in Nat, n \in L PROVE n + 1 \in L
    <2> SUFFICES ASSUME NEW s \in Seq(S), Len(s) = n + 1 PROVE s \in I
        OBVIOUS
    <2>1. s # <<>>
        OBVIOUS
    <2>2. PICK t \in Seq(S), e \in S : s = Append(t, e)
        BY <2>1, SequenceEmptyOrAppend
    <2>3. Len(t) = n
        BY <2>2
    <2>4. QED
        BY <1>2, <2>2, <2>3
<1>3. \A n \in Nat : n \in L
    <2> HIDE DEF L
    <2>1. QED
        BY <1>1, <1>2, NumberInduction
<1>4. QED
    BY <1>3

\* The function Without is read off from.
IsLeft(f, s, T) ==
    f = [i \in 0 .. Len(s) |->
            IF i = 0 THEN <<>> ELSE IF s[i] \in T THEN f[i - 1] ELSE Append(f[i - 1], s[i])]

\* There is such a function, for every sequence and every set.
LEMMA LeftExists ==
    ASSUME NEW S, NEW s \in Seq(S), NEW T
    PROVE  \E f : IsLeft(f, s, T)
<1> DEFINE Body(f, i) == IF i = 0 THEN <<>> ELSE IF s[i] \in T THEN f[i - 1] ELSE Append(f[i - 1], s[i])
           I == {k \in Nat : \E f : f = [i \in 0 .. k |-> Body(f, i)]}
<1>1. 0 \in I
    <2>1. [i \in {0} |-> <<>>] = [i \in 0 .. 0 |-> Body([j \in {0} |-> <<>>], i)]
        OBVIOUS
    <2>2. QED
        BY <2>1
<1>2. ASSUME NEW k \in Nat, k \in I PROVE k + 1 \in I
    <2>1. PICK f : f = [i \in 0 .. k |-> Body(f, i)]
        BY <1>2
    <2> DEFINE g == [i \in 0 .. k + 1 |-> IF i = k + 1 THEN Body(f, k + 1) ELSE f[i]]
    <2>2. \A i \in 0 .. k : g[i] = f[i]
        OBVIOUS
    <2>3. \A i \in 0 .. k : f[i] = Body(f, i)
        BY <2>1
    <2>4. \A i \in 0 .. k + 1 : g[i] = Body(g, i)
        <3> SUFFICES ASSUME NEW i \in 0 .. k + 1 PROVE g[i] = Body(g, i)
            OBVIOUS
        <3>1. CASE i = 0
            BY <3>1, <2>2, <2>3
        <3>2. CASE i # 0
            <4>1. i - 1 \in 0 .. k /\ g[i - 1] = f[i - 1]
                BY <3>2, <2>2
            <4>2. Body(g, i) = Body(f, i)
                BY <4>1
            <4>3. g[i] = Body(f, i)
                BY <2>3
            <4>4. QED
                BY <4>2, <4>3
        <3>3. QED
            BY <3>1, <3>2
    <2>5. g = [i \in 0 .. k + 1 |-> Body(g, i)]
        <3>1. g = [i \in 0 .. k + 1 |-> g[i]]
            OBVIOUS
        <3> HIDE DEF g, Body
        <3>2. QED
            BY <2>4, <3>1
    <2> HIDE DEF g, Body
    <2>6. QED
        BY <2>5
<1>3. Len(s) \in I
    <2>1. Len(s) \in Nat
        OBVIOUS
    <2> HIDE DEF I
    <2>2. QED
        BY <1>1, <1>2, <2>1, NumberInduction
<1>4. QED
    BY <1>3 DEF IsLeft

\* Its value at each position, from the one before.
LEMMA LeftStep ==
    ASSUME NEW S, NEW s \in Seq(S), NEW T, NEW f, IsLeft(f, s, T)
    PROVE  /\ f[0] = <<>>
           /\ \A i \in 1 .. Len(s) : f[i] = IF s[i] \in T THEN f[i - 1] ELSE Append(f[i - 1], s[i])
<1>1. Len(s) \in Nat
    OBVIOUS
<1>2. \A i \in 0 .. Len(s) :
        f[i] = IF i = 0 THEN <<>> ELSE IF s[i] \in T THEN f[i - 1] ELSE Append(f[i - 1], s[i])
    BY Zenon DEF IsLeft
<1>3. QED
    BY <1>1, <1>2

\* Without is the last value of one of them.
LEMMA WithoutIsLeft ==
    ASSUME NEW S, NEW s \in Seq(S), NEW T
    PROVE  \E f : IsLeft(f, s, T) /\ Without(s, T) = f[Len(s)]
<1> DEFINE f == CHOOSE f : IsLeft(f, s, T)
<1>1. IsLeft(f, s, T)
    BY LeftExists
<1>2. Without(s, T) = f[Len(s)]
    BY DEF Without, IsLeft
<1>3. QED
    BY <1>1, <1>2

\* Without, by induction on the sequence: nothing leaves nothing ...
LEMMA WithoutEmpty == ASSUME NEW T PROVE Without(<<>>, T) = <<>>
<1>1. <<>> \in Seq({}) /\ Len(<<>>) = 0
    OBVIOUS
<1>2. PICK f : IsLeft(f, <<>>, T) /\ Without(<<>>, T) = f[Len(<<>>)]
    BY <1>1, WithoutIsLeft
<1>3. f[0] = <<>>
    BY <1>1, <1>2 DEF IsLeft
<1>4. QED
    BY <1>1, <1>2, <1>3

\* ... and one more element is left out or comes last.
LEMMA WithoutAppend ==
    ASSUME NEW S, NEW s \in Seq(S), NEW e \in S, NEW T
    PROVE  Without(Append(s, e), T) = IF e \in T THEN Without(s, T) ELSE Append(Without(s, T), e)
<1> DEFINE l == Append(s, e)
           n == Len(s)
<1>1. l \in Seq(S) /\ n \in Nat /\ Len(l) = n + 1 /\ l[n + 1] = e /\ \A i \in 1 .. n : l[i] = s[i]
    OBVIOUS
<1>2. PICK f : IsLeft(f, s, T) /\ Without(s, T) = f[n]
    BY WithoutIsLeft
<1>3. PICK g : IsLeft(g, l, T) /\ Without(l, T) = g[n + 1]
    <2> HIDE DEF l
    <2>1. QED
        BY <1>1, WithoutIsLeft
<1>6. \A i \in 1 .. n : f[i] = IF s[i] \in T THEN f[i - 1] ELSE Append(f[i - 1], s[i])
    BY <1>2, LeftStep
<1>7. \A i \in 1 .. n + 1 : g[i] = IF l[i] \in T THEN g[i - 1] ELSE Append(g[i - 1], l[i])
    <2> HIDE DEF l, n
    <2>1. QED
        BY <1>1, <1>3, LeftStep
<1>8. f[0] = g[0]
    <2> HIDE DEF l
    <2>1. QED
        BY <1>1, <1>2, <1>3, LeftStep
<1> HIDE DEF l, n
<1> DEFINE I == {i \in Nat : i <= n => f[i] = g[i]}
<1>4. \A i \in Nat : i \in I
    <2>1. 0 \in I
        BY <1>8
    <2>2. ASSUME NEW i \in Nat, i \in I PROVE i + 1 \in I
        <3> SUFFICES ASSUME i + 1 <= n PROVE f[i + 1] = g[i + 1]
            OBVIOUS
        <3>1. f[i] = g[i]
            BY <2>2, <1>1
        <3>2. f[i + 1] = IF s[i + 1] \in T THEN f[i] ELSE Append(f[i], s[i + 1])
            BY <1>1, <1>6, i + 1 \in 1 .. n, (i + 1) - 1 = i
        <3>3. g[i + 1] = IF l[i + 1] \in T THEN g[i] ELSE Append(g[i], l[i + 1])
            BY <1>1, <1>7, i + 1 \in 1 .. n + 1, (i + 1) - 1 = i
        <3>4. l[i + 1] = s[i + 1]
            BY <1>1
        <3>5. QED
            BY <3>1, <3>2, <3>3, <3>4
    <2> HIDE DEF I
    <2>3. QED
        BY <2>1, <2>2, NumberInduction
<1>5. f[n] = g[n]
    BY <1>1, <1>4
<1>9. g[n + 1] = IF e \in T THEN g[n] ELSE Append(g[n], e)
    BY <1>1, <1>7, n + 1 \in 1 .. n + 1, (n + 1) - 1 = n
<1>10. Without(Append(s, e), T) = g[n + 1]
    BY <1>3 DEF l
<1>11. QED
    BY <1>2, <1>5, <1>9, <1>10

\* The members of a sequence, of one with an element more, of two in a row.
LEMMA MembersOf ==
    ASSUME NEW S, NEW s \in Seq(S)
    PROVE  /\ ToSet(s) \subseteq S /\ ToSet(s) = {s[i] : i \in 1 .. Len(s)}
           /\ \A e \in S : ToSet(Append(s, e)) = ToSet(s) \cup {e}
           /\ \A t \in Seq(S) : ToSet(s \o t) = ToSet(s) \cup ToSet(t)
           /\ s = <<>> <=> ToSet(s) = {}
<1>0. DOMAIN s = 1 .. Len(s) /\ Len(s) \in Nat /\ \A i \in 1 .. Len(s) : s[i] \in S
    OBVIOUS
<1>1. /\ ToSet(s) \subseteq S /\ ToSet(s) = {s[i] : i \in 1 .. Len(s)}
      /\ s = <<>> <=> ToSet(s) = {}
    <2>1. ToSet(s) = {s[i] : i \in 1 .. Len(s)}
        BY <1>0, Zenon DEF ToSet
    <2>2. ToSet(s) \subseteq S
        BY <1>0, <2>1
    <2>3. ASSUME s # <<>> PROVE s[1] \in ToSet(s)
        <3>1. 1 \in 1 .. Len(s)
            BY <2>3, <1>0, EmptySeq
        <3>2. QED
            BY <2>1, <3>1
    <2>4. s = <<>> => ToSet(s) = {}
        BY DEF ToSet
    <2>5. QED
        BY <2>1, <2>2, <2>3, <2>4
<1>2. ASSUME NEW e \in S PROVE ToSet(Append(s, e)) = ToSet(s) \cup {e}
    <2> DEFINE l == Append(s, e)
               n == Len(s)
    <2>1. n \in Nat /\ DOMAIN l = 1 .. n + 1 /\ l[n + 1] = e /\ \A i \in 1 .. n : l[i] = s[i]
          /\ DOMAIN s = 1 .. n
        OBVIOUS
    <2> HIDE DEF l, n
    <2>2. ToSet(l) = ToSet(s) \cup {e}
        <3>1. \A i \in 1 .. n : i \in 1 .. n + 1
            BY <2>1
        <3>2. \A i \in 1 .. n + 1 : i \in 1 .. n \/ i = n + 1
            BY <2>1
        <3>3. n + 1 \in 1 .. n + 1
            BY <2>1
        <3>4. ToSet(l) = {l[i] : i \in 1 .. n + 1}
            <4>1. DOMAIN l = 1 .. n + 1
                BY <2>1
            <4>2. QED
                BY <4>1 DEF ToSet
        <3>8. ToSet(s) = {s[i] : i \in 1 .. n}
            BY <1>1 DEF n
        <3>5. ToSet(l) \subseteq ToSet(s) \cup {e}
            BY <2>1, <3>2, <3>4, <3>8
        <3>6. ToSet(s) \cup {e} \subseteq ToSet(l)
            BY <2>1, <3>1, <3>3, <3>4, <3>8
        <3>7. QED
            BY <3>5, <3>6
    <2>3. QED
        BY <2>2 DEF l
<1>3. ASSUME NEW t \in Seq(S) PROVE ToSet(s \o t) = ToSet(s) \cup ToSet(t)
    <2> DEFINE l == s \o t
               n == Len(s)
               m == Len(t)
    <2>1. n \in Nat /\ m \in Nat /\ DOMAIN l = 1 .. n + m /\ DOMAIN s = 1 .. n /\ DOMAIN t = 1 .. m
          /\ (\A i \in 1 .. n : l[i] = s[i]) /\ \A i \in 1 .. m : l[n + i] = t[i]
        OBVIOUS
    <2> HIDE DEF l, n, m
    <2>2. ToSet(s) \subseteq ToSet(l) /\ ToSet(t) \subseteq ToSet(l)
        <3>1. \A i \in 1 .. n : i \in 1 .. n + m
            BY <2>1
        <3>2. \A i \in 1 .. m : n + i \in 1 .. n + m
            BY <2>1
        <3>3. QED
            BY <2>1, <3>1, <3>2 DEF ToSet
    <2>3. ASSUME NEW i \in 1 .. n + m PROVE l[i] \in ToSet(s) \cup ToSet(t)
        <3>1. CASE i \in 1 .. n
            BY <2>1, <3>1 DEF ToSet
        <3>2. CASE i \notin 1 .. n
            <4>1. i - n \in 1 .. m /\ n + (i - n) = i
                BY <2>1, <3>2
            <4>2. QED
                BY <2>1, <4>1 DEF ToSet
        <3>3. QED
            BY <3>1, <3>2
    <2>4. ToSet(l) \subseteq ToSet(s) \cup ToSet(t)
        BY <2>1, <2>3 DEF ToSet
    <2>5. QED
        BY <2>2, <2>4 DEF l
<1>4. QED
    BY <1>1, <1>2, <1>3

\* What Without leaves.
LEMMA WithoutLeaves ==
    ASSUME NEW S, NEW s \in Seq(S), NEW T
    PROVE  /\ Without(s, T) \in Seq(S) /\ ToSet(Without(s, T)) = ToSet(s) \ T
           /\ Len(Without(s, T)) <= Len(s)
<1> DEFINE Law(q) == LET w == Without(q, T)
                     IN  w \in Seq(S) /\ ToSet(w) = ToSet(q) \ T /\ Len(w) <= Len(q)
           I == {q \in Seq(S) : Law(q)}
<1>1. <<>> \in I
    <2>1. ToSet(<<>>) = {} /\ <<>> \in Seq(S) /\ Len(<<>>) = 0
        BY DEF ToSet
    <2>2. QED
        <3>1. Without(<<>>, T) = <<>>
            BY WithoutEmpty
        <3>2. Law(<<>>)
            <4>1. Without(<<>>, T) \in Seq(S) /\ Len(Without(<<>>, T)) <= Len(<<>>)
                <5>1. Without(<<>>, T) \in Seq(S) /\ Len(Without(<<>>, T)) = 0
                    BY <2>1, <3>1, Zenon
                <5>2. QED
                    BY <2>1, <5>1
            <4>2. ToSet(Without(<<>>, T)) = ToSet(<<>>) \ T
                BY <2>1, <3>1
            <4>3. QED
                BY <4>1, <4>2
        <3>3. QED
            BY <2>1, <3>2
<1>2. ASSUME NEW q \in Seq(S), q \in I, NEW e \in S PROVE Append(q, e) \in I
    <2> DEFINE w == Without(q, T)
               l == Append(q, e)
               v == Without(l, T)
    <2>1. w \in Seq(S) /\ ToSet(w) = ToSet(q) \ T /\ Len(w) <= Len(q)
        BY <1>2
    <2>2. v = IF e \in T THEN w ELSE Append(w, e)
        BY WithoutAppend
    <2>3. l \in Seq(S) /\ Len(l) = Len(q) + 1 /\ ToSet(l) = ToSet(q) \cup {e}
        BY MembersOf
    <2> HIDE DEF w, v, l
    <2>4. Len(w) \in Nat /\ Len(q) \in Nat
        BY <2>1
    <2>5. CASE e \in T
        BY <2>1, <2>2, <2>3, <2>4, <2>5 DEF v, l
    <2>6. CASE e \notin T
        <3>1. v \in Seq(S) /\ Len(v) = Len(w) + 1 /\ ToSet(v) = ToSet(w) \cup {e}
            BY <2>1, <2>2, <2>6, MembersOf
        <3>2. QED
            BY <2>1, <2>3, <2>4, <2>6, <3>1 DEF v, l
    <2>7. QED
        BY <2>5, <2>6
<1>3. \A q \in Seq(S) : q \in I
    <2> HIDE DEF I
    <2>1. QED
        BY <1>1, <1>2, SequenceInduction
<1>4. QED
    BY <1>3

\* Without goes through a concatenation.
LEMMA WithoutConcat ==
    ASSUME NEW S, NEW s \in Seq(S), NEW t \in Seq(S), NEW T
    PROVE  Without(s \o t, T) = Without(s, T) \o Without(t, T)
<1> DEFINE I == {q \in Seq(S) : Without(s \o q, T) = Without(s, T) \o Without(q, T)}
<1>0. \A q \in Seq(S) : Without(q, T) \in Seq(S)
    BY WithoutLeaves
<1>1. <<>> \in I
    <2>1. s \o <<>> = s /\ Without(s, T) \o <<>> = Without(s, T)
        BY <1>0, ConcatEmptySeq
    <2>2. Without(<<>>, T) = <<>> /\ <<>> \in Seq(S)
        BY WithoutEmpty
    <2>3. QED
        BY <2>1, <2>2
<1>2. ASSUME NEW q \in Seq(S), q \in I, NEW e \in S PROVE Append(q, e) \in I
    <2> DEFINE v == Without(s, T)
               w == Without(q, T)
               l == s \o q
    <2>1. s \o Append(q, e) = Append(l, e) /\ l \in Seq(S)
        OBVIOUS
    <2>2. Without(Append(l, e), T) = IF e \in T THEN Without(l, T) ELSE Append(Without(l, T), e)
        <3> HIDE DEF l
        <3>1. QED
            BY <2>1, WithoutAppend
    <2>3. Without(Append(q, e), T) = IF e \in T THEN w ELSE Append(w, e)
        BY WithoutAppend
    <2>4. Without(l, T) = v \o w
        BY <1>2
    <2>5. v \in Seq(S) /\ w \in Seq(S)
        BY <1>0
    <2>6. Append(v \o w, e) = v \o Append(w, e)
        <3> HIDE DEF v, w
        <3>1. <<e>> \in Seq(S) /\ v \o w \in Seq(S)
            BY <2>5
        <3>2. Append(v \o w, e) = (v \o w) \o <<e>> /\ Append(w, e) = w \o <<e>>
            BY <2>5, <3>1, AppendIsConcat
        <3>3. (v \o w) \o <<e>> = v \o (w \o <<e>>)
            BY <2>5, <3>1, ConcatAssociative
        <3>4. QED
            BY <3>2, <3>3
    <2> HIDE DEF v, w
    <2>7. Append(q, e) \in Seq(S)
        OBVIOUS
    <2>8. QED
        BY <2>1, <2>2, <2>3, <2>4, <2>6, <2>7 DEF v
<1>3. \A q \in Seq(S) : q \in I
    <2> HIDE DEF I
    <2>1. QED
        BY <1>1, <1>2, SequenceInduction
<1>4. QED
    BY <1>3

\* To leave out twice is to leave out both.
LEMMA WithoutTwice ==
    ASSUME NEW S, NEW s \in Seq(S), NEW T, NEW U
    PROVE  Without(Without(s, T), U) = Without(s, T \cup U)
<1> DEFINE I == {q \in Seq(S) : Without(Without(q, T), U) = Without(q, T \cup U)}
<1>1. <<>> \in I
    BY WithoutEmpty
<1>2. ASSUME NEW q \in Seq(S), q \in I, NEW e \in S PROVE Append(q, e) \in I
    <2> DEFINE w == Without(q, T)
               l == Append(q, e)
    <2>1. Without(l, T) = IF e \in T THEN w ELSE Append(w, e)
        BY WithoutAppend
    <2>2. Without(l, T \cup U) = IF e \in T \cup U THEN Without(q, T \cup U) ELSE Append(Without(q, T \cup U), e)
        BY WithoutAppend
    <2>3. w \in Seq(S)
        BY WithoutLeaves
    <2>4. Without(w, U) = Without(q, T \cup U)
        BY <1>2
    <2>5. l \in Seq(S)
        OBVIOUS
    <2> HIDE DEF w, l
    <2>6. Without(Append(w, e), U) = IF e \in U THEN Without(w, U) ELSE Append(Without(w, U), e)
        BY <2>3, WithoutAppend
    <2>7. QED
        BY <2>1, <2>2, <2>4, <2>5, <2>6 DEF l
<1>3. \A q \in Seq(S) : q \in I
    <2> HIDE DEF I
    <2>1. QED
        BY <1>1, <1>2, SequenceInduction
<1>4. QED
    BY <1>3

\* Only what is in the sequence matters.
LEMMA WithoutSame ==
    ASSUME NEW S, NEW s \in Seq(S), NEW T, NEW U, T \cap ToSet(s) = U \cap ToSet(s)
    PROVE  Without(s, T) = Without(s, U)
<1> DEFINE I == {q \in Seq(S) : T \cap ToSet(q) = U \cap ToSet(q) => Without(q, T) = Without(q, U)}
<1>1. <<>> \in I
    BY WithoutEmpty
<1>2. ASSUME NEW q \in Seq(S), q \in I, NEW e \in S PROVE Append(q, e) \in I
    <2> DEFINE l == Append(q, e)
    <2>1. ToSet(l) = ToSet(q) \cup {e} /\ l \in Seq(S)
        BY MembersOf
    <2>2. Without(l, T) = IF e \in T THEN Without(q, T) ELSE Append(Without(q, T), e)
        BY WithoutAppend
    <2>3. Without(l, U) = IF e \in U THEN Without(q, U) ELSE Append(Without(q, U), e)
        BY WithoutAppend
    <2> HIDE DEF l
    <2>4. ASSUME T \cap ToSet(l) = U \cap ToSet(l) PROVE Without(l, T) = Without(l, U)
        <3>1. T \cap ToSet(q) = U \cap ToSet(q) /\ (e \in T <=> e \in U)
            BY <2>1, <2>4
        <3>2. Without(q, T) = Without(q, U)
            BY <1>2, <3>1
        <3>3. QED
            BY <2>2, <2>3, <3>1, <3>2
    <2>5. QED
        BY <2>1, <2>4 DEF l
<1>3. \A q \in Seq(S) : q \in I
    <2> HIDE DEF I
    <2>1. QED
        BY <1>1, <1>2, SequenceInduction
<1>4. QED
    BY <1>3

\* Leaving out what is not there changes nothing.
LEMMA WithoutNothing ==
    ASSUME NEW S, NEW s \in Seq(S), NEW T, T \cap ToSet(s) = {}
    PROVE  Without(s, T) = s
<1> DEFINE I == {q \in Seq(S) : Without(q, {}) = q}
<1>1. <<>> \in I
    BY WithoutEmpty
<1>2. ASSUME NEW q \in Seq(S), q \in I, NEW e \in S PROVE Append(q, e) \in I
    BY <1>2, WithoutAppend
<1>3. \A q \in Seq(S) : q \in I
    <2> HIDE DEF I
    <2>1. QED
        BY <1>1, <1>2, SequenceInduction
<1>4. Without(s, T) = Without(s, {})
    BY WithoutSame
<1>5. QED
    BY <1>3, <1>4

\* When a sequence with one element more has no repetition.
LEMMA InjectiveAppend ==
    ASSUME NEW S, NEW s \in Seq(S), NEW e \in S
    PROVE  IsInjective(Append(s, e)) <=> IsInjective(s) /\ e \notin ToSet(s)
<1> DEFINE l == Append(s, e)
           n == Len(s)
<1>1. n \in Nat /\ DOMAIN l = 1 .. n + 1 /\ l[n + 1] = e /\ (\A i \in 1 .. n : l[i] = s[i])
      /\ DOMAIN s = 1 .. n
    OBVIOUS
<1> HIDE DEF l, n
<1>2. \A i \in 1 .. n + 1 : i \in 1 .. n \/ i = n + 1
    BY <1>1
<1>3. \A i \in 1 .. n : i \in 1 .. n + 1 /\ i # n + 1
    BY <1>1
<1>4. n + 1 \in 1 .. n + 1
    BY <1>1
<1>5. IsInjective(l) => IsInjective(s) /\ e \notin ToSet(s)
    BY <1>1, <1>3, <1>4 DEF IsInjective, ToSet
<1>6. IsInjective(s) /\ e \notin ToSet(s) => IsInjective(l)
    BY <1>1, <1>2 DEF IsInjective, ToSet
<1>7. QED
    BY <1>5, <1>6 DEF l

\* Leaving out adds no repetition.
LEMMA WithoutInjective ==
    ASSUME NEW S, NEW s \in Seq(S), NEW T, IsInjective(s)
    PROVE  IsInjective(Without(s, T))
<1> DEFINE I == {q \in Seq(S) : IsInjective(q) => IsInjective(Without(q, T))}
<1>1. <<>> \in I
    BY WithoutEmpty DEF IsInjective
<1>2. ASSUME NEW q \in Seq(S), q \in I, NEW e \in S PROVE Append(q, e) \in I
    <2> DEFINE w == Without(q, T)
               l == Append(q, e)
    <2>1. l \in Seq(S) /\ (IsInjective(l) <=> IsInjective(q) /\ e \notin ToSet(q))
        BY InjectiveAppend
    <2>2. w \in Seq(S) /\ ToSet(w) = ToSet(q) \ T
        BY WithoutLeaves
    <2>3. Without(l, T) = IF e \in T THEN w ELSE Append(w, e)
        BY WithoutAppend
    <2>4. IsInjective(q) => IsInjective(w)
        BY <1>2
    <2> HIDE DEF w, l
    <2>5. IsInjective(Append(w, e)) <=> IsInjective(w) /\ e \notin ToSet(w)
        BY <2>2, InjectiveAppend
    <2>6. QED
        BY <2>1, <2>2, <2>3, <2>4, <2>5 DEF l
<1>3. \A q \in Seq(S) : q \in I
    <2> HIDE DEF I
    <2>1. QED
        BY <1>1, <1>2, SequenceInduction
<1>4. QED
    BY <1>3

\* When two sequences in a row have no repetition.
LEMMA InjectiveConcat ==
    ASSUME NEW S, NEW s \in Seq(S), NEW t \in Seq(S)
    PROVE  IsInjective(s \o t) <=>
               IsInjective(s) /\ IsInjective(t) /\ ToSet(s) \cap ToSet(t) = {}
<1> DEFINE I == {q \in Seq(S) : IsInjective(s \o q) <=>
                      IsInjective(s) /\ IsInjective(q) /\ ToSet(s) \cap ToSet(q) = {}}
<1>1. <<>> \in I
    <2>1. s \o <<>> = s /\ IsInjective(<<>>) /\ ToSet(<<>>) = {} /\ <<>> \in Seq(S)
        BY ConcatEmptySeq DEF IsInjective, ToSet
    <2>2. QED
        BY <2>1
<1>2. ASSUME NEW q \in Seq(S), q \in I, NEW e \in S PROVE Append(q, e) \in I
    <2> DEFINE l == s \o q
               m == Append(q, e)
    <2>1. l \in Seq(S) /\ s \o m = Append(l, e) /\ m \in Seq(S)
        OBVIOUS
    <2>2. ToSet(l) = ToSet(s) \cup ToSet(q) /\ ToSet(m) = ToSet(q) \cup {e}
        BY MembersOf
    <2>3. IsInjective(m) <=> IsInjective(q) /\ e \notin ToSet(q)
        BY InjectiveAppend
    <2>4. IsInjective(l) <=> IsInjective(s) /\ IsInjective(q) /\ ToSet(s) \cap ToSet(q) = {}
        BY <1>2
    <2> HIDE DEF l, m
    <2>5. IsInjective(Append(l, e)) <=> IsInjective(l) /\ e \notin ToSet(l)
        BY <2>1, InjectiveAppend
    <2>6. QED
        BY <2>1, <2>2, <2>3, <2>4, <2>5 DEF m
<1>3. \A q \in Seq(S) : q \in I
    <2> HIDE DEF I
    <2>1. QED
        BY <1>1, <1>2, SequenceInduction
<1>4. QED
    BY <1>3

\* Reverse keeps the members, and adds no repetition.
LEMMA ReverseKeeps ==
    ASSUME NEW S, NEW s \in Seq(S)
    PROVE  /\ Reverse(s) \in Seq(S) /\ ToSet(Reverse(s)) = ToSet(s)
           /\ IsInjective(s) => IsInjective(Reverse(s))
<1> DEFINE n == Len(s)
           r == Reverse(s)
<1>1. n \in Nat /\ DOMAIN s = 1 .. n /\ \A i \in 1 .. n : s[i] \in S
    OBVIOUS
<1>2. DOMAIN r = 1 .. n /\ \A i \in 1 .. n : r[i] = s[(n - i) + 1]
    BY DEF Reverse
<1>3. \A i \in 1 .. n : (n - i) + 1 \in 1 .. n /\ (n - ((n - i) + 1)) + 1 = i
    BY <1>1
<1>4. r \in Seq(S)
    <2>1. r = [i \in 1 .. n |-> s[(n - i) + 1]]
        BY DEF Reverse
    <2> HIDE DEF n
    <2>2. \A i \in 1 .. n : s[(n - i) + 1] \in S
        BY <1>1, <1>3
    <2> HIDE DEF r
    <2>3. QED
        BY <1>1, <2>1, <2>2
<1> HIDE DEF n, r
<1>5. ToSet(r) = ToSet(s)
    <2>1. ToSet(r) = {r[i] : i \in 1 .. n} /\ ToSet(s) = {s[i] : i \in 1 .. n}
        BY <1>1, <1>2 DEF ToSet
    <2>2. ToSet(r) \subseteq ToSet(s)
        BY <1>2, <1>3, <2>1
    <2>3. ASSUME NEW i \in 1 .. n PROVE s[i] \in ToSet(r)
        <3>1. r[(n - i) + 1] = s[i] /\ (n - i) + 1 \in 1 .. n
            BY <1>2, <1>3
        <3>2. QED
            BY <2>1, <3>1
    <2>4. QED
        BY <2>1, <2>2, <2>3
<1>6. IsInjective(s) => IsInjective(r)
    <2> SUFFICES ASSUME IsInjective(s), NEW i \in 1 .. n, NEW j \in 1 .. n, r[i] = r[j]
                 PROVE  i = j
        BY <1>2 DEF IsInjective
    <2>1. (n - i) + 1 = (n - j) + 1
        BY <1>1, <1>2, <1>3 DEF IsInjective
    <2>2. QED
        BY <1>1, <2>1
<1>7. QED
    BY <1>4, <1>5, <1>6 DEF r

\* FlattenSeq: a sequence of what the parts hold.
LEMMA FlattenHolds ==
    ASSUME NEW S, NEW q \in Seq(Seq(S))
    PROVE  /\ FlattenSeq(q) \in Seq(S)
           /\ \A k \in 1 .. Len(q) : ToSet(q[k]) \subseteq ToSet(FlattenSeq(q))
<1> DEFINE n == Len(q)
           Body(f, i) == IF i = 1 THEN q[i] ELSE f[i - 1] \o q[i]
           I == {k \in Nat : \E f : f = [i \in 1 .. k |-> Body(f, i)]}
<1>1. n \in Nat /\ \A i \in 1 .. n : q[i] \in Seq(S)
    OBVIOUS
<1>2. 0 \in I
    <2>1. \E f : f = [i \in 1 .. 0 |-> Body(f, i)]
        <3>1. [i \in 1 .. 0 |-> 0] = [i \in 1 .. 0 |-> Body([j \in 1 .. 0 |-> 0], i)]
            OBVIOUS
        <3> HIDE DEF Body
        <3>2. QED
            BY <3>1
    <2>2. QED
        BY <2>1
<1>3. ASSUME NEW k \in Nat, k \in I PROVE k + 1 \in I
    <2>1. PICK f : f = [i \in 1 .. k |-> Body(f, i)]
        BY <1>3
    <2> DEFINE g == [i \in 1 .. k + 1 |-> IF i = k + 1 THEN Body(f, k + 1) ELSE f[i]]
    <2>2. \A i \in 1 .. k : g[i] = f[i]
        OBVIOUS
    <2>3. \A i \in 1 .. k : f[i] = Body(f, i)
        BY <2>1
    <2>4. \A i \in 1 .. k + 1 : g[i] = Body(g, i)
        <3> SUFFICES ASSUME NEW i \in 1 .. k + 1 PROVE g[i] = Body(g, i)
            OBVIOUS
        <3>1. g[i] = Body(f, i)
            BY <2>3
        <3>2. CASE i = 1
            BY <3>1, <3>2
        <3>3. CASE i # 1
            <4>1. i - 1 \in 1 .. k /\ g[i - 1] = f[i - 1]
                BY <3>3, <2>2
            <4>2. QED
                BY <3>1, <4>1
        <3>4. QED
            BY <3>2, <3>3
    <2>5. g = [i \in 1 .. k + 1 |-> Body(g, i)]
        <3>1. g = [i \in 1 .. k + 1 |-> g[i]]
            OBVIOUS
        <3> HIDE DEF g, Body
        <3>2. QED
            BY <2>4, <3>1
    <2> HIDE DEF g, Body
    <2>6. QED
        BY <2>5
<1>4. \E f : f = [i \in 1 .. n |-> Body(f, i)]
    <2> HIDE DEF I, n, Body
    <2>1. n \in I
        BY <1>1, <1>2, <1>3, NumberInduction
    <2>2. QED
        BY <2>1 DEF I
<1> DEFINE f == CHOOSE f : f = [i \in 1 .. n |-> Body(f, i)]
<1>5. f = [i \in 1 .. n |-> Body(f, i)]
    <2> HIDE DEF n, Body
    <2>1. QED
        BY <1>4
<1>6. n # 0 => FlattenSeq(q) = f[n]
    BY DEF FlattenSeq
<1> HIDE DEF f
<1>7. \A i \in 1 .. n : f[i] = IF i = 1 THEN q[i] ELSE f[i - 1] \o q[i]
    <2>1. \A i \in 1 .. n : f[i] = Body(f, i)
        <3> HIDE DEF n, Body
        <3>1. QED
            BY <1>5
    <2>2. QED
        BY <2>1
<1> DEFINE J == {k \in Nat : k \in 1 .. n =>
                     f[k] \in Seq(S) /\ \A i \in 1 .. k : ToSet(q[i]) \subseteq ToSet(f[k])}
<1> HIDE DEF n
<1>8. \A k \in Nat : k \in J
    <2>1. 0 \in J
        OBVIOUS
    <2>2. ASSUME NEW k \in Nat, k \in J PROVE k + 1 \in J
        <3> SUFFICES ASSUME k + 1 \in 1 .. n
                     PROVE  /\ f[k + 1] \in Seq(S)
                            /\ \A i \in 1 .. k + 1 : ToSet(q[i]) \subseteq ToSet(f[k + 1])
            OBVIOUS
        <3>1. CASE k = 0
            BY <1>1, <1>7, <3>1
        <3>2. CASE k # 0
            <4>1. k \in 1 .. n /\ (k + 1) - 1 = k /\ k + 1 # 1
                BY <1>1, <3>2
            <4>2. f[k] \in Seq(S) /\ \A i \in 1 .. k : ToSet(q[i]) \subseteq ToSet(f[k])
                BY <2>2, <4>1
            <4>3. f[k + 1] = f[k] \o q[k + 1]
                BY <1>7, <4>1
            <4>4. f[k + 1] \in Seq(S) /\ ToSet(f[k + 1]) = ToSet(f[k]) \cup ToSet(q[k + 1])
                BY <1>1, <4>2, <4>3, MembersOf
            <4>5. \A i \in 1 .. k + 1 : i \in 1 .. k \/ i = k + 1
                BY <4>1
            <4>6. QED
                BY <4>2, <4>4, <4>5
        <3>3. QED
            BY <3>1, <3>2
    <2> HIDE DEF J
    <2>3. QED
        BY <2>1, <2>2, NumberInduction
<1>9. CASE n = 0
    <2>1. q = <<>>
        BY <1>9, EmptySeq DEF n
    <2>2. FlattenSeq(q) = <<>>
        BY <1>9 DEF FlattenSeq, n
    <2>3. <<>> \in Seq(S)
        OBVIOUS
    <2>4. FlattenSeq(q) \in Seq(S)
        BY <2>2, <2>3, Zenon
    <2>5. ~\E k : k \in 1 .. Len(q)
        BY <1>9 DEF n
    <2>6. QED
        BY <2>4, <2>5
<1>10. CASE n # 0
    <2>1. n \in 1 .. n
        BY <1>1, <1>10
    <2>2. QED
        BY <1>1, <1>6, <1>8, <1>10, <2>1 DEF n
<1>11. QED
    BY <1>9, <1>10

\* Every nonempty set of numbers has a least element.
LEMMA LeastOf ==
    ASSUME NEW N \in SUBSET Nat, N # {}
    PROVE  \E n \in N : \A m \in N : n <= m
<1>1. PICK n \in N : \A m \in N : ~(<<m, n>> \in OpToRel(<, Nat))
    BY NatLessThanWellFounded, WFMin
<1>2. \A m \in N : ~(m < n)
    BY <1>1 DEF OpToRel
<1>3. QED
    BY <1>2

\* A sequence without repetition, cut in two.
LEMMA SplitOfInjective ==
    ASSUME NEW S, NEW s \in Seq(S), IsInjective(s), NEW k \in 0 .. Len(s)
    PROVE  LET head == SubSeq(s, 1, k)
               tail == SubSeq(s, k + 1, Len(s))
           IN  /\ head \in Seq(S) /\ tail \in Seq(S) /\ Len(head) = k /\ Len(tail) = Len(s) - k
               /\ (\A i \in 1 .. k : head[i] = s[i])
               /\ head \o tail = s /\ Without(s, ToSet(head)) = tail
               /\ IsInjective(head) /\ IsInjective(tail)
               /\ ToSet(head) \cap ToSet(tail) = {} /\ ToSet(s) = ToSet(head) \cup ToSet(tail)
<1> DEFINE n == Len(s)
           head == SubSeq(s, 1, k)
           tail == SubSeq(s, k + 1, n)
           H == ToSet(head)
<1>1. n \in Nat /\ k \in Nat /\ k <= n /\ \A i \in 1 .. n : s[i] \in S
    OBVIOUS
<1>2. head \in Seq(S) /\ tail \in Seq(S) /\ Len(head) = k /\ Len(tail) = n - k
      /\ \A i \in 1 .. k : head[i] = s[i]
    <2> HIDE DEF n
    <2>1. (\A i \in 1 .. k : s[i] \in S) /\ \A i \in k + 1 .. n : s[i] \in S
        BY <1>1
    <2>2. k \in Int /\ k + 1 \in Int /\ n \in Int /\ 1 \in Int
        BY <1>1
    <2>3. head \in Seq(S) /\ Len(head) = (IF 1 <= k THEN k - 1 + 1 ELSE 0)
          /\ \A i \in 1 .. k - 1 + 1 : head[i] = s[1 + i - 1]
        BY <2>1, <2>2, SubSeqProperties
    <2>4. tail \in Seq(S) /\ Len(tail) = IF k + 1 <= n THEN n - (k + 1) + 1 ELSE 0
        BY <2>1, <2>2, SubSeqProperties
    <2> HIDE DEF head, tail
    <2>5. QED
        BY <1>1, <2>3, <2>4
<1>3. head \o tail = s
    <2>1. 1 \in 1 .. n + 1 /\ k \in 1 - 1 .. n /\ n \in k .. n
        <3> HIDE DEF n
        <3>1. QED
            BY <1>1
    <2>2. SubSeq(s, 1, k) \o SubSeq(s, k + 1, n) = SubSeq(s, 1, n)
        BY <2>1, ConcatAdjacentSubSeq
    <2>3. QED
        BY <2>2, SubSeqFull
<1> HIDE DEF head, tail, n
<1>4. IsInjective(head) /\ IsInjective(tail) /\ H \cap ToSet(tail) = {}
    BY <1>2, <1>3, InjectiveConcat
<1>5. ToSet(s) = H \cup ToSet(tail)
    <2>1. ToSet(head \o tail) = ToSet(head) \cup ToSet(tail)
        BY <1>2, MembersOf
    <2>2. QED
        BY <1>3, <2>1
<1>6. Without(s, H) = tail
    <2> HIDE DEF H
    <2>1. Without(s, H) = Without(head, H) \o Without(tail, H)
        <3>1. Without(head \o tail, H) = Without(head, H) \o Without(tail, H)
            BY <1>2, WithoutConcat
        <3>2. QED
            BY <1>3, <3>1
    <2>2. Without(tail, H) = tail
        BY <1>2, <1>4, WithoutNothing
    <2>3. Without(head, H) = <<>>
        <3>1. Without(head, H) \in Seq(S) /\ ToSet(Without(head, H)) = {}
            BY <1>2, WithoutLeaves DEF H
        <3>2. QED
            BY <3>1, MembersOf
    <2>4. <<>> \o tail = tail
        BY <1>2, ConcatEmptySeq
    <2>5. QED
        BY <2>1, <2>2, <2>3, <2>4
<1>7. QED
    BY <1>2, <1>3, <1>4, <1>5, <1>6 DEF head, tail, n, H

\* A sequence without repetition is no longer than one that has its members.
LEMMA InjectiveIsNoLonger ==
    ASSUME NEW S, NEW s \in Seq(S), NEW t \in Seq(S), IsInjective(s), ToSet(s) \subseteq ToSet(t)
    PROVE  Len(s) <= Len(t)
<1> DEFINE n == Len(s)
           m == Len(t)
           f == [i \in 1 .. n |-> CHOOSE j \in 1 .. m : t[j] = s[i]]
<1>1. n \in Nat /\ m \in Nat /\ DOMAIN s = 1 .. n
    OBVIOUS
<1>2. \A i \in 1 .. n : \E j \in 1 .. m : t[j] = s[i]
    <2>1. ToSet(s) = {s[i] : i \in 1 .. n} /\ ToSet(t) = {t[j] : j \in 1 .. m}
        BY MembersOf
    <2> HIDE DEF n, m
    <2>2. QED
        BY <2>1
<1> HIDE DEF n, m
<1>3. \A i \in 1 .. n : f[i] \in 1 .. m /\ t[f[i]] = s[i]
    BY <1>2
<1>4. f \in Injection(1 .. n, 1 .. m)
    <2>1. f \in [1 .. n -> 1 .. m]
        BY <1>3
    <2>2. \A i, j \in 1 .. n : f[i] = f[j] => i = j
        <3> HIDE DEF f
        <3> SUFFICES ASSUME NEW i \in 1 .. n, NEW j \in 1 .. n, f[i] = f[j] PROVE i = j
            OBVIOUS
        <3>1. s[i] = s[j]
            BY <1>3
        <3>2. QED
            BY <1>1, <3>1 DEF IsInjective
    <2> HIDE DEF f
    <2>3. QED
        BY <2>1, <2>2 DEF Injection, IsInjective
<1> HIDE DEF f
<1>5. IsFiniteSet(1 .. m) /\ Cardinality(1 .. m) = m /\ Cardinality(1 .. n) = n
    BY <1>1, FS_Interval
<1>6. Cardinality(1 .. n) <= Cardinality(1 .. m)
    BY <1>4, <1>5, FS_Injection
<1>7. QED
    BY <1>5, <1>6 DEF n, m

\* The orders of a commit are sequences of certificates.
LEMMA OrdersAreSequences ==
    ASSUME IsFiniteSet(certs), NEW order \in SetToAllKPermutations(certs)
    PROVE  order \in Seq(certs)
<1>1. PICK s \in SUBSET certs : order \in SetToSeqs(s)
    BY DEF SetToAllKPermutations
<1>2. Cardinality(s) \in Nat
    BY FS_Subset, FS_CardinalityType
<1>3. order \in [1 .. Cardinality(s) -> s]
    BY <1>1 DEF SetToSeqs
<1>4. order \in [1 .. Cardinality(s) -> certs]
    BY <1>3
<1>5. QED
    BY <1>2, <1>4
----------------------------------------------------------------------------
(* The mempool's operations, field by field. *)

\* The mempool's record, and what holds of it between any two operations.
PoolOf == [pending : Seq(Tx), disk : Seq(Tx), dead : SUBSET Tx,
           rows : SUBSET [tx : Tx, reason : Reasons]]

GoodPool(p) ==
    /\ p \in PoolOf
    /\ IsInjective(p.pending) /\ Len(p.pending) <= MaxPending
    /\ IsInjective(p.disk) /\ ToSet(p.disk) \subseteq Pending(p)
    /\ p.dead \cap Pending(p) = {}

\* The rows of what was not admitted.
Dropped(T) == {Row(t, "dropped") : t \in T}

\* Rows and limits have their types.
LEMMA RowIsTyped == \A t \in Tx : \A r \in Reasons : Row(t, r) \in [tx : Tx, reason : Reasons]
BY DEF Row

\* The limits are numbers.
LEMMA LimitTypes == MaxPending \in Nat /\ BatchLimit \in Nat
BY LimitsAreNumbers

\* add on a mempool with room: the entry and its row go to the end.
LEMMA AddedIs ==
    ASSUME NEW p, GoodPool(p), NEW t \in Tx, ~Known(p, t), ~Full(p)
    PROVE  /\ GoodPool(Added(p, t))
           /\ Added(p, t) = [pending |-> Append(p.pending, t), disk |-> Append(p.disk, t),
                             dead |-> p.dead, rows |-> p.rows]
<1> DEFINE put == Append(p.pending, t)
           onDisk == Append(p.disk, t)
           q == [pending |-> put, disk |-> onDisk, dead |-> p.dead, rows |-> p.rows]
<1>1. p.pending \in Seq(Tx) /\ p.disk \in Seq(Tx) /\ p \in PoolOf
    BY DEF GoodPool, PoolOf
<1>2. put \in Seq(Tx) /\ onDisk \in Seq(Tx) /\ Len(put) = Len(p.pending) + 1
      /\ ToSet(put) = ToSet(p.pending) \cup {t} /\ ToSet(onDisk) = ToSet(p.disk) \cup {t}
    BY <1>1, MembersOf
<1>3. t \notin ToSet(p.pending) /\ t \notin ToSet(p.disk) /\ t \notin p.dead
    BY DEF GoodPool, Known, Knows, Pending
<1>4. IsInjective(put) /\ IsInjective(onDisk)
    BY <1>1, <1>3, InjectiveAppend DEF GoodPool
<1>5. Added(p, t) = [p EXCEPT !.pending = put, !.disk = onDisk]
    BY DEF Added
<1>6. Len(put) <= MaxPending
    BY <1>1, <1>2, LimitTypes DEF Full
<1> HIDE DEF put, onDisk
<1>7. Added(p, t) = q
    BY <1>1, <1>5 DEF PoolOf
<1>8. GoodPool(q)
    <2>1. q \in PoolOf
        BY <1>1, <1>2 DEF PoolOf
    <2>2. ToSet(q.disk) \subseteq Pending(q) /\ q.dead \cap Pending(q) = {}
        BY <1>2, <1>3 DEF GoodPool, Pending
    <2>3. QED
        BY <1>4, <1>6, <2>1, <2>2 DEF GoodPool
<1>9. QED
    BY <1>7, <1>8 DEF put, onDisk

\* add that is refused: at most a row.
LEMMA TurnedIs ==
    ASSUME NEW p, GoodPool(p), NEW t \in Tx
    PROVE  /\ GoodPool(Turned(p, t))
           /\ Turned(p, t) = [pending |-> p.pending, disk |-> p.disk, dead |-> p.dead,
                 rows |-> IF Known(p, t) THEN p.rows ELSE p.rows \cup {Row(t, "dropped")}]
<1> DEFINE rows == IF Known(p, t) THEN p.rows ELSE p.rows \cup {Row(t, "dropped")}
           q == [pending |-> p.pending, disk |-> p.disk, dead |-> p.dead, rows |-> rows]
<1>1. p \in PoolOf
    BY DEF GoodPool
<1>2. rows \in SUBSET [tx : Tx, reason : Reasons]
    BY <1>1, RowIsTyped DEF PoolOf, Reasons
<1>3. Turned(p, t) = [p EXCEPT !.rows = rows]
    BY <1>1 DEF Turned, PoolOf
<1> HIDE DEF rows
<1>4. Turned(p, t) = q
    BY <1>1, <1>3 DEF PoolOf
<1>5. GoodPool(q)
    BY <1>1, <1>2 DEF GoodPool, PoolOf, Pending
<1>6. QED
    BY <1>4, <1>5 DEF rows

\* remove takes entries and their rows, and keeps the others in order.
LEMMA RemovedIs ==
    ASSUME NEW p, GoodPool(p), NEW T
    PROVE  /\ GoodPool(Removed(p, T))
           /\ Removed(p, T) = [pending |-> Without(p.pending, T), disk |-> Without(p.disk, T),
                               dead |-> p.dead, rows |-> p.rows]
           /\ Pending(Removed(p, T)) = Pending(p) \ T
           /\ ToSet(Removed(p, T).disk) = ToSet(p.disk) \ T
<1> DEFINE left == Without(p.pending, T)
           onDisk == Without(p.disk, T)
           q == [pending |-> left, disk |-> onDisk, dead |-> p.dead, rows |-> p.rows]
<1>1. p.pending \in Seq(Tx) /\ p.disk \in Seq(Tx) /\ p \in PoolOf
    BY DEF GoodPool, PoolOf
<1>2. left \in Seq(Tx) /\ onDisk \in Seq(Tx) /\ Len(left) <= Len(p.pending)
      /\ ToSet(left) = ToSet(p.pending) \ T /\ ToSet(onDisk) = ToSet(p.disk) \ T
    BY <1>1, WithoutLeaves
<1>3. IsInjective(left) /\ IsInjective(onDisk)
    BY <1>1, WithoutInjective DEF GoodPool
<1>4. Removed(p, T) = [p EXCEPT !.pending = left, !.disk = onDisk]
    BY DEF Removed
<1> HIDE DEF left, onDisk
<1>5. Removed(p, T) = q
    BY <1>1, <1>4 DEF PoolOf
<1>6. GoodPool(q)
    <2>1. q \in PoolOf
        BY <1>1, <1>2 DEF PoolOf
    <2>2. Len(left) <= MaxPending
        BY <1>1, <1>2, LimitTypes DEF GoodPool
    <2>3. ToSet(q.disk) \subseteq Pending(q) /\ q.dead \cap Pending(q) = {}
        BY <1>2 DEF GoodPool, Pending
    <2>4. QED
        BY <1>3, <2>1, <2>2, <2>3 DEF GoodPool
<1>7. QED
    BY <1>2, <1>5, <1>6 DEF left, onDisk, Pending

\* tombstone removes and remembers.
LEMMA TombstonedIs ==
    ASSUME NEW p, GoodPool(p), NEW T \in SUBSET Tx
    PROVE  /\ GoodPool(Tombstoned(p, T))
           /\ Tombstoned(p, T) = [pending |-> Without(p.pending, T), disk |-> Without(p.disk, T),
                                  dead |-> p.dead \cup T, rows |-> p.rows]
           /\ Pending(Tombstoned(p, T)) = Pending(p) \ T
           /\ ToSet(Tombstoned(p, T).disk) = ToSet(p.disk) \ T
<1> DEFINE r == Removed(p, T)
           q == [pending |-> r.pending, disk |-> r.disk, dead |-> r.dead \cup T, rows |-> r.rows]
<1>1. GoodPool(r) /\ Pending(r) = Pending(p) \ T /\ ToSet(r.disk) = ToSet(p.disk) \ T
    BY RemovedIs
<1>2. r.pending = Without(p.pending, T) /\ r.disk = Without(p.disk, T) /\ r.dead = p.dead /\ r.rows = p.rows
    BY RemovedIs
<1>3. Tombstoned(p, T) = [r EXCEPT !.dead = @ \cup T]
    BY DEF Tombstoned
<1> HIDE DEF r
<1>4. r \in PoolOf
    BY <1>1 DEF GoodPool
<1>5. Tombstoned(p, T) = q
    BY <1>3, <1>4 DEF PoolOf
<1>6. GoodPool(q) /\ Pending(q) = Pending(r)
    BY <1>1, <1>2, <1>4 DEF GoodPool, PoolOf, Pending
<1>7. QED
    BY <1>1, <1>2, <1>5, <1>6

\* _evictStale removes what is stale with a row for each, and forgets tombstones.
LEMMA EvictedIs ==
    ASSUME NEW p, GoodPool(p), NEW stale \in SUBSET Tx, NEW expired
    PROVE  /\ GoodPool(Evicted(p, stale, expired))
           /\ Evicted(p, stale, expired) =
                 [pending |-> Without(p.pending, stale), disk |-> Without(p.disk, stale),
                  dead |-> p.dead \ expired,
                  rows |-> p.rows \cup Dropped(stale)]
           /\ Pending(Evicted(p, stale, expired)) = Pending(p) \ stale
           /\ ToSet(Evicted(p, stale, expired).disk) = ToSet(p.disk) \ stale
<1> DEFINE r == Removed(p, stale)
           gone == Dropped(stale)
           q == [pending |-> r.pending, disk |-> r.disk, dead |-> r.dead \ expired,
                 rows |-> r.rows \cup gone]
<1>1. GoodPool(r) /\ Pending(r) = Pending(p) \ stale /\ ToSet(r.disk) = ToSet(p.disk) \ stale
    BY RemovedIs
<1>2. r.pending = Without(p.pending, stale) /\ r.disk = Without(p.disk, stale)
      /\ r.dead = p.dead /\ r.rows = p.rows
    BY RemovedIs
<1>3. Evicted(p, stale, expired) = [r EXCEPT !.dead = p.dead \ expired, !.rows = p.rows \cup gone]
    BY <1>2 DEF Evicted, Dropped
<1>4. gone \in SUBSET [tx : Tx, reason : Reasons]
    BY RowIsTyped DEF Reasons, Dropped
<1> HIDE DEF r, gone
<1>5. r \in PoolOf
    BY <1>1 DEF GoodPool
<1>6. Evicted(p, stale, expired) = q
    BY <1>2, <1>3, <1>5 DEF PoolOf
<1>7. GoodPool(q) /\ Pending(q) = Pending(r)
    BY <1>1, <1>2, <1>4, <1>5 DEF GoodPool, PoolOf, Pending
<1>8. QED
    BY <1>1, <1>2, <1>6, <1>7 DEF gone

\* What PutBack does: lost are those it has no room for.
PutsBack(p, ts, lost, kept) ==
    /\ kept = Without(ts, Knows(p) \cup lost)
    /\ ToSet(kept) = ToSet(ts) \ (Knows(p) \cup lost)
    /\ GoodPool(PutBack(p, ts))
    /\ PutBack(p, ts) = [pending |-> kept \o p.pending, disk |-> p.disk \o Reverse(kept),
                         dead |-> p.dead, rows |-> p.rows \cup Dropped(lost)]
    /\ Pending(PutBack(p, ts)) = Pending(p) \cup ToSet(kept)
    /\ ToSet(PutBack(p, ts).disk) = ToSet(p.disk) \cup ToSet(kept)

\* PutBack keeps, in their order, those it does not know and has room for; the
\* others it does not know get a row.
LEMMA PutBackIs ==
    ASSUME NEW p, GoodPool(p), NEW ts \in Seq(Tx), IsInjective(ts)
    PROVE  \E lost \in SUBSET (ToSet(ts) \ Knows(p)), kept \in Seq(Tx) : PutsBack(p, ts, lost, kept)
<1> DEFINE fresh == Without(ts, Knows(p))
           n == Len(fresh)
           room == MaxPending - Len(p.pending)
           over == IF n > room THEN n - room ELSE 0
           head == SubSeq(fresh, 1, over)
           kept == SubSeq(fresh, over + 1, n)
           lost == ToSet(head)
           turned == Dropped(lost)
           put == kept \o p.pending
           onDisk == p.disk \o Reverse(kept)
           q == [pending |-> put, disk |-> onDisk, dead |-> p.dead, rows |-> p.rows \cup turned]
<1>1. p.pending \in Seq(Tx) /\ p.disk \in Seq(Tx) /\ p.dead \subseteq Tx /\ p \in PoolOf
      /\ p.rows \in SUBSET [tx : Tx, reason : Reasons]
    BY DEF GoodPool, PoolOf
<1>2. fresh \in Seq(Tx) /\ ToSet(fresh) = ToSet(ts) \ Knows(p) /\ IsInjective(fresh)
    BY WithoutLeaves, WithoutInjective
<1>3. n \in Nat /\ room \in Nat /\ over \in 0 .. n /\ n - over <= room
    <2>1. n \in Nat
        BY <1>2
    <2>2. room \in Nat
        BY <1>1, LimitTypes DEF GoodPool
    <2> HIDE DEF n, room
    <2>3. QED
        BY <2>1, <2>2
<1>4. PutBack(p, ts) = [p EXCEPT !.pending = put, !.disk = onDisk,
                                 !.rows = @ \cup {Row(fresh[i], "dropped") : i \in 1 .. over}]
    BY DEF PutBack
<1> HIDE DEF fresh, room
<1>5. head \in Seq(Tx) /\ kept \in Seq(Tx) /\ Len(head) = over /\ Len(kept) = n - over
      /\ \A i \in 1 .. over : head[i] = fresh[i]
    <2> HIDE DEF over
    <2>1. over \in 0 .. Len(fresh)
        BY <1>3
    <2>2. QED
        BY <1>2, <2>1, SplitOfInjective
<1>6. Without(fresh, lost) = kept
    <2> HIDE DEF over
    <2>1. over \in 0 .. Len(fresh)
        BY <1>3
    <2>2. QED
        BY <1>2, <2>1, SplitOfInjective
<1>7. IsInjective(kept) /\ lost \cap ToSet(kept) = {} /\ ToSet(fresh) = lost \cup ToSet(kept)
    <2> HIDE DEF over
    <2>1. over \in 0 .. Len(fresh)
        BY <1>3
    <2>2. QED
        BY <1>2, <2>1, SplitOfInjective
<1> HIDE DEF head, kept, n, over
<1>8. lost \subseteq ToSet(ts) \ Knows(p) /\ ToSet(kept) = ToSet(ts) \ (Knows(p) \cup lost)
    BY <1>2, <1>7
<1>9. kept = Without(ts, Knows(p) \cup lost)
    <2>1. Without(ts, Knows(p) \cup lost) = Without(fresh, lost)
        BY WithoutTwice DEF fresh
    <2>2. QED
        BY <1>6, <2>1
<1>10. {Row(fresh[i], "dropped") : i \in 1 .. over} = turned
    <2>1. lost = {head[i] : i \in 1 .. over}
        BY <1>5, MembersOf
    <2> HIDE DEF lost
    <2>2. QED
        BY <1>5, <2>1 DEF Dropped
<1>11. turned \in SUBSET [tx : Tx, reason : Reasons]
    <2>1. lost \subseteq Tx
        BY <1>5, MembersOf
    <2>2. QED
        BY <2>1, RowIsTyped DEF Reasons, Dropped
<1>12. put \in Seq(Tx) /\ ToSet(put) = Pending(p) \cup ToSet(kept) /\ IsInjective(put)
       /\ Len(put) <= MaxPending
    <2>1. put \in Seq(Tx) /\ Len(put) = Len(kept) + Len(p.pending)
        BY <1>1, <1>5, ConcatProperties
    <2>2. ToSet(put) = Pending(p) \cup ToSet(kept)
        BY <1>1, <1>5, MembersOf DEF Pending
    <2>3. IsInjective(put)
        BY <1>1, <1>5, <1>7, <1>8, InjectiveConcat DEF GoodPool, Knows, Pending
    <2>4. Len(p.pending) \in Nat
        BY <1>1
    <2> HIDE DEF put
    <2>5. QED
        BY <1>3, <1>5, <2>1, <2>2, <2>3, <2>4, LimitTypes DEF room
<1>13. onDisk \in Seq(Tx) /\ ToSet(onDisk) = ToSet(p.disk) \cup ToSet(kept) /\ IsInjective(onDisk)
    <2> DEFINE r == Reverse(kept)
    <2>1. r \in Seq(Tx) /\ ToSet(r) = ToSet(kept) /\ IsInjective(r)
        BY <1>5, <1>7, ReverseKeeps
    <2> HIDE DEF r
    <2>2. ToSet(p.disk) \cap ToSet(r) = {}
        BY <1>8, <2>1 DEF GoodPool, Knows
    <2>3. p.disk \o r \in Seq(Tx) /\ ToSet(p.disk \o r) = ToSet(p.disk) \cup ToSet(r)
        BY <1>1, <2>1, MembersOf, ConcatProperties
    <2>4. IsInjective(p.disk \o r)
        BY <1>1, <2>1, <2>2, InjectiveConcat DEF GoodPool
    <2>5. QED
        BY <2>1, <2>3, <2>4 DEF r
<1> HIDE DEF put, onDisk, turned
<1>14. PutBack(p, ts) = q
    BY <1>1, <1>4, <1>10 DEF PoolOf
<1>15. GoodPool(q) /\ Pending(q) = Pending(p) \cup ToSet(kept)
    <2>1. q \in PoolOf
        BY <1>1, <1>11, <1>12, <1>13 DEF PoolOf
    <2>2. ToSet(q.disk) \subseteq Pending(q) /\ q.dead \cap Pending(q) = {}
        BY <1>8, <1>12, <1>13 DEF GoodPool, Pending, Knows
    <2>3. QED
        BY <1>12, <1>13, <2>1, <2>2 DEF GoodPool, Pending
<1>16. q.disk = onDisk
    OBVIOUS
<1> HIDE DEF q
<1>17. PutsBack(p, ts, lost, kept)
    <2>1. PutBack(p, ts) = [pending |-> kept \o p.pending, disk |-> p.disk \o Reverse(kept),
                           dead |-> p.dead, rows |-> p.rows \cup Dropped(lost)]
        BY <1>14 DEF q, put, onDisk, turned
    <2> HIDE DEF lost
    <2>2. QED
        BY <1>8, <1>9, <1>13, <1>14, <1>15, <1>16, <2>1 DEF PutsBack
<1>18. QED
    BY <1>5, <1>8, <1>17

\* What Restored puts back: each of the positions I, copies once.
LEMMA RestoredIs ==
    ASSUME NEW p, NEW ts \in Seq(Tx), NEW I \in SUBSET (1 .. Len(ts))
    PROVE  \E s \in Seq(Tx) : /\ IsInjective(s) /\ ToSet(s) = {ts[i] : i \in I}
                              /\ Restored(p, ts, I) = PutBack(p, s)
<1> DEFINE n == Len(ts)
           again == {i \in DOMAIN ts : i \notin I \/ \E j \in I : ts[j] = ts[i] /\ j < i}
           all == [i \in DOMAIN ts |-> i]
           once == Without(all, again)
           picked == [k \in DOMAIN once |-> ts[once[k]]]
<1>1. n \in Nat /\ DOMAIN ts = 1 .. n /\ I \subseteq 1 .. n /\ \A i \in 1 .. n : ts[i] \in Tx
    OBVIOUS
<1>2. Restored(p, ts, I) = PutBack(p, Reverse(picked))
    BY DEF Restored
<1>3. all \in Seq(1 .. n) /\ IsInjective(all) /\ ToSet(all) = 1 .. n
    <2>1. all = [i \in 1 .. n |-> i]
        BY <1>1
    <2> HIDE DEF n, all
    <2>2. all \in Seq(1 .. n) /\ DOMAIN all = 1 .. n
        BY <1>1, <2>1
    <2>3. QED
        BY <2>1, <2>2 DEF IsInjective, ToSet
<1> HIDE DEF all, n
<1>4. once \in Seq(1 .. n) /\ IsInjective(once) /\ ToSet(once) = (1 .. n) \ again
    <2> DEFINE N == 1 .. n
    <2>1. all \in Seq(N) /\ IsInjective(all) /\ ToSet(all) = N
        BY <1>3
    <2> HIDE DEF again, N
    <2>2. once \in Seq(N) /\ ToSet(once) = ToSet(all) \ again
        BY <2>1, WithoutLeaves
    <2>3. IsInjective(once)
        BY <2>1, WithoutInjective
    <2>4. QED
        BY <2>1, <2>2, <2>3 DEF N
<1> HIDE DEF once
<1> DEFINE m == Len(once)
<1>5. m \in Nat /\ DOMAIN once = 1 .. m /\ \A k \in 1 .. m : once[k] \in 1 .. n
    <2> DEFINE N == 1 .. n
    <2>1. once \in Seq(N)
        BY <1>4
    <2> HIDE DEF N
    <2>2. m \in Nat /\ DOMAIN once = 1 .. m /\ \A k \in 1 .. m : once[k] \in N
        BY <2>1
    <2>3. QED
        BY <2>2 DEF N
<1>6. ToSet(once) = {once[k] : k \in 1 .. m}
    BY <1>4, MembersOf
<1> HIDE DEF m
<1>7. picked \in Seq(Tx) /\ DOMAIN picked = 1 .. m /\ \A k \in 1 .. m : picked[k] = ts[once[k]]
    <2>1. picked = [k \in 1 .. m |-> ts[once[k]]]
        BY <1>5
    <2>2. \A k \in 1 .. m : ts[once[k]] \in Tx
        BY <1>1, <1>5
    <2> HIDE DEF picked
    <2>3. QED
        BY <1>5, <2>1, <2>2
<1> HIDE DEF picked
<1>8. \A i \in ToSet(once) : i \in I /\ \A j \in I : ts[j] = ts[i] => ~(j < i)
    BY <1>1, <1>4
<1>9. IsInjective(picked)
    <2> SUFFICES ASSUME NEW k \in 1 .. m, NEW l \in 1 .. m, picked[k] = picked[l] PROVE k = l
        BY <1>7 DEF IsInjective
    <2>1. ts[once[k]] = ts[once[l]] /\ once[k] \in ToSet(once) /\ once[l] \in ToSet(once)
        BY <1>6, <1>7
    <2>2. once[k] \in Nat /\ once[l] \in Nat
        BY <1>1, <1>5
    <2>3. once[k] = once[l]
        BY <1>8, <2>1, <2>2
    <2>4. QED
        BY <1>4, <1>5, <2>3 DEF IsInjective
<1>10. ToSet(picked) = {ts[i] : i \in I}
    <2>1. ToSet(picked) = {picked[k] : k \in 1 .. m}
        BY <1>7 DEF ToSet
    <2>2. ToSet(picked) \subseteq {ts[i] : i \in I}
        <3> SUFFICES ASSUME NEW k \in 1 .. m PROVE picked[k] \in {ts[i] : i \in I}
            BY <2>1
        <3>1. once[k] \in I /\ picked[k] = ts[once[k]]
            BY <1>6, <1>7, <1>8
        <3>2. QED
            BY <3>1
    <2>3. ASSUME NEW i \in I PROVE ts[i] \in ToSet(picked)
        <3> DEFINE N == {j \in I : ts[j] = ts[i]}
        <3>1. N \in SUBSET Nat /\ N # {}
            <4>1. \A j \in I : j \in Nat
                BY <1>1
            <4>2. QED
                BY <4>1
        <3> HIDE DEF N
        <3>2. PICK j \in N : \A l \in N : j <= l
            BY <3>1, LeastOf
        <3>3. j \in I /\ ts[j] = ts[i] /\ j \in 1 .. n
            BY <1>1, <3>2 DEF N
        <3>4. \A l \in I : ts[l] = ts[j] => ~(l < j)
            <4> SUFFICES ASSUME NEW l \in I, ts[l] = ts[j], l < j PROVE FALSE
                OBVIOUS
            <4>1. l \in N
                BY <3>3 DEF N
            <4>2. j <= l /\ l \in Nat /\ j \in Nat
                BY <3>1, <3>2, <4>1
            <4>3. QED
                BY <4>2
        <3>5. j \in ToSet(once)
            BY <1>4, <3>3, <3>4
        <3>6. PICK k \in 1 .. m : once[k] = j
            BY <1>6, <3>5
        <3>7. QED
            BY <1>7, <2>1, <3>3, <3>6
    <2>4. QED
        BY <2>2, <2>3
<1>11. QED
    BY <1>2, <1>7, <1>9, <1>10, ReverseKeeps

----------------------------------------------------------------------------
(* Every step keeps the invariant and loses nothing.                        *)

\* What drain takes is the front of the mempool.
LEMMA OldestIs ==
    ASSUME NEW p, GoodPool(p)
    PROVE  /\ Oldest(p) \in Seq(Tx) /\ IsInjective(Oldest(p)) /\ Len(Oldest(p)) <= BatchLimit
           /\ Oldest(p) \o Without(p.pending, ToSet(Oldest(p))) = p.pending
           /\ ToSet(Oldest(p)) \subseteq Pending(p)
<1> DEFINE n == Len(p.pending)
           k == IF n < BatchLimit THEN n ELSE BatchLimit
           head == SubSeq(p.pending, 1, k)
           tail == SubSeq(p.pending, k + 1, n)
<1>1. p.pending \in Seq(Tx) /\ IsInjective(p.pending)
    BY DEF GoodPool, PoolOf
<1>2. k \in 0 .. n /\ k <= BatchLimit
    <2>1. n \in Nat
        BY <1>1
    <2> HIDE DEF n
    <2>2. QED
        BY <2>1, LimitTypes
<1>3. Oldest(p) = head
    BY DEF Oldest
<1> HIDE DEF k
<1>4. head \in Seq(Tx) /\ Len(head) = k /\ IsInjective(head)
    <2>1. head \in Seq(Tx) /\ Len(head) = k
        BY <1>1, <1>2, SplitOfInjective
    <2>2. IsInjective(head)
        BY <1>1, <1>2, SplitOfInjective
    <2>3. QED
        BY <2>1, <2>2
<1>5. head \o tail = p.pending /\ Without(p.pending, ToSet(head)) = tail
    BY <1>1, <1>2, SplitOfInjective
<1>6. ToSet(head) \subseteq Pending(p)
    <2>1. ToSet(p.pending) = ToSet(head) \cup ToSet(tail)
        BY <1>1, <1>2, SplitOfInjective
    <2> HIDE DEF head, tail
    <2>2. QED
        BY <2>1 DEF Pending
<1>7. QED
    <2> HIDE DEF head, tail
    <2>1. QED
        BY <1>2, <1>3, <1>4, <1>5, <1>6

\* The inductive invariant: mempool and table are typed and without copies, and
\* no entry is dead; what is dead has a row, and what is pending has one in the
\* table unless it is committed.
TransactionsInv ==
    /\ GoodPool(pool)
    /\ pool.dead \subseteq Rejected
    /\ Pending(pool) \subseteq ToSet(pool.disk) \cup committed
    /\ batch \in Seq(Tx) /\ IsInjective(batch) /\ Len(batch) <= BatchLimit
    /\ certs \subseteq Cert /\ IsFiniteSet(certs) /\ away \subseteq Cert
    /\ committed \subseteq Tx
    /\ crashes \in Nat

\* What has a row in p.
RejectedIn(p) == {r.tx : r \in p.rows}

\* Rows that are added reject what they name.
LEMMA RowsAdd ==
    ASSUME NEW p, NEW q, NEW T, q.rows = p.rows \cup Dropped(T)
    PROVE  RejectedIn(q) = RejectedIn(p) \cup T
<1>1. \A t : Row(t, "dropped").tx = t
    BY DEF Row
<1>2. QED
    BY <1>1 DEF RejectedIn, Dropped

\* The part of the invariant that is about the mempool, for steps that leave
\* the rest alone.
LEMMA OnlyPool ==
    ASSUME TransactionsInv, GoodPool(pool'), RejectedIn(pool) \subseteq RejectedIn(pool'),
           pool'.dead \subseteq RejectedIn(pool'),
           Pending(pool') \subseteq ToSet(pool'.disk) \cup committed,
           UNCHANGED <<batch, committed>>,
           certs' \subseteq Cert /\ IsFiniteSet(certs') /\ away' \subseteq Cert, crashes' \in Nat
    PROVE  TransactionsInv'
BY DEF TransactionsInv, GoodPool, PoolOf, Pending, Rejected, RejectedIn

\* NoSilentLoss, of one step.
NothingLost == Traced \subseteq Traced' \cup (IF crashes' = crashes THEN {}
                                              ELSE ToSet(batch) \cup Certified(certs))

\* What submitTx does: one entry at the end, or at most a row.
LEMMA SubmitIs ==
    ASSUME TransactionsInv, NEW t \in Tx, Submit(t)
    PROVE  /\ GoodPool(pool') /\ pool'.dead = pool.dead /\ UNCHANGED <<batch, certs, away, committed, crashes>>
           /\ RejectedIn(pool) \subseteq RejectedIn(pool')
           /\ \/ pool'.pending = pool.pending /\ pool'.disk = pool.disk
              \/ /\ t \notin ToSet(pool.pending)
                 /\ pool'.pending = Append(pool.pending, t) /\ pool'.disk = Append(pool.disk, t)
<1>1. GoodPool(pool) /\ ~Known(pool, t)
    BY DEF TransactionsInv, Submit
<1>2. CASE Full(pool)
    <2>1. pool' = Turned(pool, t)
        BY <1>2 DEF Submit
    <2>2. GoodPool(pool') /\ pool' = [pending |-> pool.pending, disk |-> pool.disk, dead |-> pool.dead,
             rows |-> IF Known(pool, t) THEN pool.rows ELSE pool.rows \cup {Row(t, "dropped")}]
        BY <1>1, <2>1, TurnedIs
    <2>3. QED
        BY <2>2 DEF Submit, RejectedIn
<1>3. CASE ~Full(pool)
    <2>1. pool' = Added(pool, t)
        BY <1>3 DEF Submit
    <2>2. GoodPool(pool') /\ pool' = [pending |-> Append(pool.pending, t), disk |-> Append(pool.disk, t),
             dead |-> pool.dead, rows |-> pool.rows]
        BY <1>1, <1>3, <2>1, AddedIs
    <2>3. QED
        BY <1>1, <2>2 DEF Submit, RejectedIn, Known, Knows, Pending
<1>4. QED
    BY <1>2, <1>3

\* submitTx.
LEMMA SubmitSafe ==
    ASSUME TransactionsInv, NEW t \in Tx, Submit(t)
    PROVE  TransactionsInv' /\ NothingLost
<1>1. pool.pending \in Seq(Tx) /\ pool.disk \in Seq(Tx) /\ pool'.pending \in Seq(Tx) /\ pool'.disk \in Seq(Tx)
    BY SubmitIs DEF TransactionsInv, GoodPool, PoolOf
<1>2. \/ ToSet(pool'.pending) = ToSet(pool.pending) /\ ToSet(pool'.disk) = ToSet(pool.disk)
      \/ /\ ToSet(pool'.pending) = ToSet(pool.pending) \cup {t}
         /\ ToSet(pool'.disk) = ToSet(pool.disk) \cup {t}
    <2>1. CASE pool'.pending = pool.pending /\ pool'.disk = pool.disk
        BY <2>1
    <2>2. CASE pool'.pending = Append(pool.pending, t) /\ pool'.disk = Append(pool.disk, t)
        <3>1. /\ ToSet(Append(pool.pending, t)) = ToSet(pool.pending) \cup {t}
              /\ ToSet(Append(pool.disk, t)) = ToSet(pool.disk) \cup {t}
            BY <1>1, MembersOf
        <3>2. QED
            BY <2>2, <3>1
    <2>3. QED
        BY <2>1, <2>2, SubmitIs
<1>3. Pending(pool) \subseteq ToSet(pool.disk) \cup committed /\ pool.dead \subseteq RejectedIn(pool)
      /\ certs \subseteq Cert /\ IsFiniteSet(certs) /\ away \subseteq Cert /\ crashes \in Nat
    BY DEF TransactionsInv, Rejected, RejectedIn
<1>4. TransactionsInv'
    <2>1. Pending(pool') \subseteq ToSet(pool'.disk) \cup committed
        BY <1>2, <1>3 DEF Pending
    <2>2. QED
        BY <1>3, <2>1, SubmitIs, OnlyPool
<1>5. NothingLost
    <2>1. Pending(pool) \subseteq Pending(pool')
        BY <1>2 DEF Pending
    <2>2. QED
        BY <2>1, SubmitIs DEF NothingLost, Traced, Pending, Rejected, RejectedIn, Certified
<1>6. QED
    BY <1>4, <1>5

\* A batch of submissions that is rolled back leaves mempool and table as they were.
LEMMA SubmitBatchIs ==
    ASSUME TransactionsInv, NEW t \in Tx, NEW u \in Tx, SubmitBatch(t, u)
    PROVE  /\ GoodPool(pool') /\ pool'.dead = pool.dead /\ UNCHANGED <<batch, certs, away, committed, crashes>>
           /\ RejectedIn(pool) \subseteq RejectedIn(pool')
           /\ pool'.pending = pool.pending /\ pool'.disk = pool.disk
<1> DEFINE a == Added(pool, t)
           b == Turned(a, u)
<1>1. GoodPool(pool) /\ ~Known(pool, t) /\ ~Full(pool)
    BY DEF TransactionsInv, SubmitBatch
<1>2. GoodPool(a) /\ a = [pending |-> Append(pool.pending, t), disk |-> Append(pool.disk, t),
                          dead |-> pool.dead, rows |-> pool.rows]
    BY <1>1, AddedIs
<1>3. GoodPool(b) /\ b.pending = a.pending /\ b.disk = a.disk /\ b.dead = a.dead
      /\ RejectedIn(a) \subseteq RejectedIn(b)
    <2> HIDE DEF a
    <2>1. GoodPool(b) /\ b = [pending |-> a.pending, disk |-> a.disk, dead |-> a.dead,
             rows |-> IF Known(a, u) THEN a.rows ELSE a.rows \cup {Row(u, "dropped")}]
        BY <1>2, TurnedIs
    <2>2. QED
        BY <2>1 DEF RejectedIn
<1>4. pool' = Removed(b, {t})
    BY DEF SubmitBatch, RolledBack
<1> HIDE DEF a, b
<1>5. GoodPool(pool') /\ pool'.dead = b.dead /\ pool'.rows = b.rows
      /\ pool'.pending = Without(b.pending, {t}) /\ pool'.disk = Without(b.disk, {t})
    BY <1>3, <1>4, RemovedIs
<1>6. pool.pending \in Seq(Tx) /\ pool.disk \in Seq(Tx)
      /\ {t} \cap ToSet(pool.pending) = {} /\ {t} \cap ToSet(pool.disk) = {}
    BY <1>1 DEF GoodPool, PoolOf, Known, Knows, Pending
<1>7. Without(Append(pool.pending, t), {t}) = pool.pending
    <2>1. Without(Append(pool.pending, t), {t}) = Without(pool.pending, {t})
        BY <1>6, WithoutAppend
    <2>2. QED
        BY <1>6, <2>1, WithoutNothing
<1>8. Without(Append(pool.disk, t), {t}) = pool.disk
    <2>1. Without(Append(pool.disk, t), {t}) = Without(pool.disk, {t})
        BY <1>6, WithoutAppend
    <2>2. QED
        BY <1>6, <2>1, WithoutNothing
<1>9. QED
    BY <1>2, <1>3, <1>5, <1>7, <1>8 DEF SubmitBatch, RejectedIn

\* submitBatch.
LEMMA SubmitBatchSafe ==
    ASSUME TransactionsInv, NEW t \in Tx, NEW u \in Tx, SubmitBatch(t, u)
    PROVE  TransactionsInv' /\ NothingLost
<1>1. Pending(pool') = Pending(pool)
    BY SubmitBatchIs DEF Pending
<1>2. Pending(pool') \subseteq ToSet(pool'.disk) \cup committed /\ pool'.dead \subseteq RejectedIn(pool')
      /\ certs \subseteq Cert /\ IsFiniteSet(certs) /\ away \subseteq Cert /\ crashes \in Nat
    BY <1>1, SubmitBatchIs DEF TransactionsInv, Rejected, RejectedIn
<1>3. TransactionsInv'
    BY <1>2, SubmitBatchIs, OnlyPool
<1>4. NothingLost
    BY <1>1, SubmitBatchIs DEF NothingLost, Traced, Pending, Rejected, RejectedIn, Certified
<1>5. QED
    BY <1>3, <1>4

\* What a round does, in terms of sets and of the queue.
RoundTakes(lost, kept, stale, expired) ==
    /\ kept = Without(batch, Knows(pool) \cup lost)
    /\ ToSet(kept) = ToSet(batch) \ (Knows(pool) \cup lost)
    /\ GoodPool(pool') /\ pool'.dead = pool.dead \ expired
    /\ batch' \in Seq(Tx) /\ IsInjective(batch') /\ Len(batch') <= BatchLimit
    /\ batch' \o pool'.pending = Without(kept \o pool.pending, stale)
    /\ ToSet(batch') \cup Pending(pool') = (ToSet(kept) \cup Pending(pool)) \ stale
    /\ Pending(pool') = ((ToSet(kept) \cup Pending(pool)) \ stale) \ ToSet(batch')
    /\ ToSet(pool'.disk) = ((ToSet(pool.disk) \cup ToSet(kept)) \ stale) \ ToSet(batch')
    /\ RejectedIn(pool') = RejectedIn(pool) \cup lost \cup stale
    /\ UNCHANGED <<certs, away, committed, crashes>>

\* A round takes the front of what the mempool holds once the old batch is
\* back, less what is stale.
LEMMA BeginRoundIs ==
    ASSUME TransactionsInv, NEW stale \in SUBSET Pending(pool), NEW expired, BeginRound(stale, expired)
    PROVE  \E lost \in SUBSET (ToSet(batch) \ Knows(pool)), kept \in Seq(Tx) :
              RoundTakes(lost, kept, stale, expired)
<1> DEFINE a == PutBack(pool, batch)
           b == Evicted(a, stale, expired)
           o == Oldest(b)
<1>1. GoodPool(pool) /\ batch \in Seq(Tx) /\ IsInjective(batch)
    BY DEF TransactionsInv
<1>20. PICK lost \in SUBSET (ToSet(batch) \ Knows(pool)), kept \in Seq(Tx) :
          PutsBack(pool, batch, lost, kept)
    BY <1>1, PutBackIs
<1>2. /\ kept = Without(batch, Knows(pool) \cup lost)
      /\ ToSet(kept) = ToSet(batch) \ (Knows(pool) \cup lost)
      /\ GoodPool(a)
      /\ a = [pending |-> kept \o pool.pending, disk |-> pool.disk \o Reverse(kept),
              dead |-> pool.dead, rows |-> pool.rows \cup Dropped(lost)]
      /\ Pending(a) = Pending(pool) \cup ToSet(kept)
      /\ ToSet(a.disk) = ToSet(pool.disk) \cup ToSet(kept)
    BY <1>20 DEF PutsBack
<1>3. batch' = o /\ pool' = Removed(b, ToSet(o)) /\ UNCHANGED <<certs, away, committed, crashes>>
    BY DEF BeginRound
<1>4. stale \in SUBSET Tx
    BY <1>1, MembersOf DEF GoodPool, PoolOf, Pending
<1>5. a.pending = kept \o pool.pending /\ a.dead = pool.dead
    BY <1>2
<1>6. RejectedIn(a) = RejectedIn(pool) \cup lost
    <2>1. a.rows = pool.rows \cup Dropped(lost)
        BY <1>2
    <2> HIDE DEF a
    <2>2. QED
        BY <2>1, RowsAdd
<1>7. GoodPool(a) /\ Pending(a) = Pending(pool) \cup ToSet(kept)
      /\ ToSet(a.disk) = ToSet(pool.disk) \cup ToSet(kept)
    BY <1>2
<1> HIDE DEF a
<1>8. /\ GoodPool(b) /\ b.pending = Without(a.pending, stale) /\ b.dead = a.dead \ expired
      /\ b.rows = a.rows \cup Dropped(stale)
    <2>1. GoodPool(b)
        BY <1>4, <1>7, EvictedIs
    <2>0. GoodPool(a)
        BY <1>7
    <2>2. b.pending = Without(a.pending, stale) /\ b.dead = a.dead \ expired
          /\ b.rows = a.rows \cup Dropped(stale)
        <3>1. \A x \in SUBSET Tx : \A e : Evicted(a, x, e) =
                 [pending |-> Without(a.pending, x), disk |-> Without(a.disk, x),
                  dead |-> a.dead \ e, rows |-> a.rows \cup Dropped(x)]
            BY <2>0, EvictedIs
        <3>2. b = [pending |-> Without(a.pending, stale), disk |-> Without(a.disk, stale),
                  dead |-> a.dead \ expired, rows |-> a.rows \cup Dropped(stale)]
            BY <1>4, <3>1
        <3> HIDE DEF b
        <3>3. QED
            BY <3>2
    <2> HIDE DEF b
    <2>3. QED
        BY <2>1, <2>2
<1>9. Pending(b) = Pending(a) \ stale /\ ToSet(b.disk) = ToSet(a.disk) \ stale
    BY <1>4, <1>7, EvictedIs
<1> HIDE DEF b
<1>10. RejectedIn(b) = RejectedIn(a) \cup stale
    BY <1>8, RowsAdd
<1>11. /\ o \in Seq(Tx) /\ IsInjective(o) /\ Len(o) <= BatchLimit
       /\ o \o Without(b.pending, ToSet(o)) = b.pending /\ ToSet(o) \subseteq Pending(b)
    BY <1>8, OldestIs
<1> HIDE DEF o
<1>12. /\ GoodPool(pool') /\ pool'.pending = Without(b.pending, ToSet(o))
       /\ pool'.dead = b.dead /\ pool'.rows = b.rows
       /\ Pending(pool') = Pending(b) \ ToSet(o) /\ ToSet(pool'.disk) = ToSet(b.disk) \ ToSet(o)
    <2> DEFINE r == Removed(b, ToSet(o))
    <2>1. GoodPool(r) /\ Pending(r) = Pending(b) \ ToSet(o) /\ ToSet(r.disk) = ToSet(b.disk) \ ToSet(o)
        BY <1>8, RemovedIs
    <2>2. r = [pending |-> Without(b.pending, ToSet(o)), disk |-> Without(b.disk, ToSet(o)),
               dead |-> b.dead, rows |-> b.rows]
        BY <1>8, RemovedIs
    <2>3. pool' = r
        BY <1>3
    <2> HIDE DEF r
    <2>4. QED
        BY <2>1, <2>2, <2>3
<1>13. RejectedIn(pool') = RejectedIn(pool) \cup lost \cup stale
    BY <1>6, <1>10, <1>12 DEF RejectedIn
<1>14. batch' \o pool'.pending = Without(kept \o pool.pending, stale)
    BY <1>3, <1>5, <1>8, <1>11, <1>12
<1>15. /\ ToSet(batch') \cup Pending(pool') = (ToSet(kept) \cup Pending(pool)) \ stale
       /\ Pending(pool') = ((ToSet(kept) \cup Pending(pool)) \ stale) \ ToSet(batch')
       /\ ToSet(pool'.disk) = ((ToSet(pool.disk) \cup ToSet(kept)) \ stale) \ ToSet(batch')
    BY <1>3, <1>7, <1>9, <1>11, <1>12
<1>16. pool'.dead = pool.dead \ expired
    BY <1>5, <1>8, <1>12
<1>17. batch' \in Seq(Tx) /\ IsInjective(batch') /\ Len(batch') <= BatchLimit
    BY <1>3, <1>11
<1>18. /\ kept = Without(batch, Knows(pool) \cup lost)
       /\ ToSet(kept) = ToSet(batch) \ (Knows(pool) \cup lost)
    BY <1>2
<1> WITNESS lost \in SUBSET (ToSet(batch) \ Knows(pool)), kept \in Seq(Tx)
<1>19. QED
    BY <1>3, <1>12, <1>13, <1>14, <1>15, <1>16, <1>17, <1>18 DEF RoundTakes

\* A round: what is in the old batch is back, dead or in a row.
LEMMA BeginRoundSafe ==
    ASSUME TransactionsInv, NEW stale \in SUBSET Pending(pool), NEW expired, BeginRound(stale, expired)
    PROVE  TransactionsInv' /\ NothingLost
<1>0. PICK lost \in SUBSET (ToSet(batch) \ Knows(pool)), kept \in Seq(Tx) :
          RoundTakes(lost, kept, stale, expired)
    BY BeginRoundIs
<1>1. /\ kept = Without(batch, Knows(pool) \cup lost)
      /\ ToSet(kept) = ToSet(batch) \ (Knows(pool) \cup lost)
      /\ GoodPool(pool') /\ pool'.dead = pool.dead \ expired
      /\ batch' \in Seq(Tx) /\ IsInjective(batch') /\ Len(batch') <= BatchLimit
      /\ batch' \o pool'.pending = Without(kept \o pool.pending, stale)
      /\ ToSet(batch') \cup Pending(pool') = (ToSet(kept) \cup Pending(pool)) \ stale
      /\ Pending(pool') = ((ToSet(kept) \cup Pending(pool)) \ stale) \ ToSet(batch')
      /\ ToSet(pool'.disk) = ((ToSet(pool.disk) \cup ToSet(kept)) \ stale) \ ToSet(batch')
      /\ RejectedIn(pool') = RejectedIn(pool) \cup lost \cup stale
      /\ UNCHANGED <<certs, away, committed, crashes>>
    BY <1>0 DEF RoundTakes
<1>2. Pending(pool) \subseteq ToSet(pool.disk) \cup committed /\ pool.dead \subseteq RejectedIn(pool)
    BY DEF TransactionsInv, Rejected, RejectedIn
<1>3. Pending(pool') \subseteq ToSet(pool'.disk) \cup committed'
    BY <1>1, <1>2
<1>4. pool'.dead \subseteq Rejected'
    BY <1>1, <1>2 DEF Rejected, RejectedIn
<1>5. TransactionsInv'
    BY <1>1, <1>3, <1>4 DEF TransactionsInv, Pending
<1>6. Knows(pool) \subseteq RejectedIn(pool) \cup Pending(pool)
    BY <1>2 DEF Knows
<1>7. Pending(pool) \cup ToSet(batch) \subseteq ToSet(batch') \cup Pending(pool') \cup RejectedIn(pool')
    BY <1>1, <1>6
<1>8. NothingLost
    BY <1>1, <1>7 DEF NothingLost, Traced, Pending, Rejected, RejectedIn, Certified
<1>9. QED
    BY <1>5, <1>8

\* What two sets of certificates carry.
LEMMA CertifiedBy == Certified(certs \cup away) = Certified(certs) \cup Certified(away)
BY DEF Certified

\* A certificate of this node takes over its batch.
LEMMA SealSafe ==
    ASSUME TransactionsInv, Seal
    PROVE  TransactionsInv' /\ NothingLost
<1> DEFINE c == [author |-> "own", txs |-> batch]
<1>1. batch' = <<>> /\ certs' = certs \cup {c} /\ UNCHANGED <<pool, away, committed, crashes>>
    BY DEF Seal
<1>2. c \in Cert /\ c.txs = batch
    BY DEF TransactionsInv, Cert
<1> HIDE DEF c
<1>3. <<>> \in Seq(Tx) /\ IsInjective(<<>>) /\ Len(<<>>) <= BatchLimit
    BY LimitTypes DEF IsInjective
<1>4. IsFiniteSet(certs \cup {c}) /\ certs \cup {c} \subseteq Cert
    BY <1>2, FS_AddElement DEF TransactionsInv
<1>5. TransactionsInv'
    BY <1>1, <1>3, <1>4 DEF TransactionsInv, Pending, Rejected
<1>6. ToSet(batch) \subseteq Certified(certs \cup {c} \cup away)
    BY <1>2 DEF Certified
<1>7. NothingLost
    BY <1>1, <1>6 DEF NothingLost, Traced, Pending, Rejected, Certified
<1>8. QED
    BY <1>5, <1>7

\* A certificate of a peer.
LEMMA PeerCertifiesSafe ==
    ASSUME TransactionsInv, NEW txs \in PeerBatches, PeerCertifies(txs)
    PROVE  TransactionsInv' /\ NothingLost
<1> DEFINE c == [author |-> "peer", txs |-> txs]
<1>1. away' = away \cup {c} /\ UNCHANGED <<pool, batch, certs, committed, crashes>>
    BY DEF PeerCertifies
<1>2. c \in Cert
    BY PeersBatchTransactions DEF Cert
<1> HIDE DEF c
<1>3. TransactionsInv'
    BY <1>1, <1>2 DEF TransactionsInv, Pending, Rejected
<1>4. NothingLost
    BY <1>1 DEF NothingLost, Traced, Pending, Rejected, Certified
<1>5. QED
    BY <1>3, <1>4

\* Certificate sync.
LEMMA PullSafe ==
    ASSUME TransactionsInv, NEW c \in away, Pull(c)
    PROVE  TransactionsInv' /\ NothingLost
<1>1. away' = away \ {c} /\ certs' = certs \cup {c} /\ UNCHANGED <<pool, batch, committed, crashes>>
    BY DEF Pull
<1>2. IsFiniteSet(certs \cup {c}) /\ certs \cup {c} \subseteq Cert
    BY FS_AddElement DEF TransactionsInv
<1>3. TransactionsInv'
    BY <1>1, <1>2 DEF TransactionsInv, Pending, Rejected
<1>4. certs' \cup away' = certs \cup away
    BY <1>1
<1>5. NothingLost
    BY <1>1, <1>4 DEF NothingLost, Traced, Pending, Rejected, Certified
<1>6. QED
    BY <1>3, <1>5

\* What a certificate takes out of the mempool is in the certificate.
LEMMA ReceiveSafe ==
    ASSUME TransactionsInv, NEW c \in away, NEW saved \in BOOLEAN, Receive(c, saved)
    PROVE  TransactionsInv' /\ NothingLost
<1>1. pool' = Removed(pool, ToSet(c.txs)) /\ UNCHANGED <<batch, committed, crashes>>
    BY DEF Receive
<1>2. certs' \cup away' = certs \cup away /\ (certs' = certs \/ certs' = certs \cup {c})
    BY DEF Receive
<1>3. GoodPool(pool)
    BY DEF TransactionsInv
<1>4. GoodPool(pool') /\ Pending(pool') = Pending(pool) \ ToSet(c.txs)
      /\ ToSet(pool'.disk) = ToSet(pool.disk) \ ToSet(c.txs)
      /\ pool'.dead = pool.dead /\ pool'.rows = pool.rows
    BY <1>1, <1>3, RemovedIs
<1>5. certs' \subseteq Cert /\ IsFiniteSet(certs') /\ away' \subseteq Cert
    BY <1>2, FS_AddElement DEF TransactionsInv
<1>6. TransactionsInv'
    <2>1. RejectedIn(pool') = RejectedIn(pool)
        BY <1>4 DEF RejectedIn
    <2>2. Pending(pool') \subseteq ToSet(pool'.disk) \cup committed /\ pool'.dead \subseteq RejectedIn(pool')
          /\ crashes' \in Nat
        BY <1>1, <1>4, <2>1 DEF TransactionsInv, Rejected, RejectedIn
    <2>3. QED
        BY <1>1, <1>4, <1>5, <2>1, <2>2, OnlyPool
<1>7. NothingLost
    <2>1. ToSet(c.txs) \subseteq Certified(certs' \cup away')
        BY <1>2 DEF Certified
    <2>2. QED
        BY <1>1, <1>2, <1>4, <2>1 DEF NothingLost, Traced, Rejected, Certified
<1>8. QED
    BY <1>6, <1>7

\* A crash: the table has no more rows than the mempool had entries.
LEMMA RestartSafe ==
    ASSUME TransactionsInv, Restart
    PROVE  TransactionsInv' /\ NothingLost
<1>1. /\ pool' = [pool EXCEPT !.pending = pool.disk, !.dead = {}] /\ batch' = <<>> /\ certs' = {}
      /\ UNCHANGED <<away, committed>> /\ crashes' = crashes + 1
    BY DEF Restart
<1>2. pool \in PoolOf /\ pool.pending \in Seq(Tx) /\ pool.disk \in Seq(Tx) /\ GoodPool(pool) /\ crashes \in Nat
    BY DEF TransactionsInv, GoodPool, PoolOf
<1>3. pool' = [pending |-> pool.disk, disk |-> pool.disk, dead |-> {}, rows |-> pool.rows]
    BY <1>1, <1>2 DEF PoolOf
<1>4. Len(pool.disk) <= MaxPending
    <2>1. Len(pool.disk) <= Len(pool.pending)
        BY <1>2, InjectiveIsNoLonger DEF GoodPool, Pending
    <2>2. Len(pool.disk) \in Nat /\ Len(pool.pending) \in Nat
        BY <1>2
    <2>3. QED
        BY <1>2, <2>1, <2>2, LimitTypes DEF GoodPool
<1>5. GoodPool(pool')
    BY <1>2, <1>3, <1>4 DEF GoodPool, PoolOf, Pending
<1>6. <<>> \in Seq(Tx) /\ IsInjective(<<>>) /\ Len(<<>>) <= BatchLimit
    BY LimitTypes DEF IsInjective
<1>7. TransactionsInv'
    <2>1. Pending(pool') = ToSet(pool'.disk) /\ pool'.dead = {}
        BY <1>3 DEF Pending
    <2>2. IsFiniteSet({})
        BY FS_EmptySet
    <2>3. away' \subseteq Cert /\ committed' \subseteq Tx /\ crashes' \in Nat
        BY <1>1 DEF TransactionsInv
    <2>4. QED
        BY <1>1, <1>5, <1>6, <2>1, <2>2, <2>3 DEF TransactionsInv, Pending, Rejected
<1>8. NothingLost
    <2>1. Pending(pool) \subseteq Pending(pool') \cup committed'
        BY <1>1, <1>3 DEF TransactionsInv, Pending
    <2>2. Rejected' = Rejected
        BY <1>3 DEF Rejected
    <2>3. crashes' # crashes
        BY <1>1, <1>2
    <2>4. QED
        BY <1>1, <2>1, <2>2, <2>3, CertifiedBy DEF NothingLost, Traced, Certified
<1>9. QED
    BY <1>7, <1>8

\* What a commit does: bad is tombstoned, new is written, and of what is held
\* what is not known and has room comes back to the front.
CommitDoes(order, bad, new, held, kept) ==
    /\ Certified(ToSet(order)) \subseteq committed \cup new \cup held \cup RejectedIn(pool')
    /\ bad \cup RejectedIn(pool) \subseteq RejectedIn(pool')
    /\ IsInjective(kept)
    /\ held \subseteq ToSet(kept) \cup Pending(pool') \cup RejectedIn(pool') \cup pool.dead
    /\ GoodPool(pool') /\ pool'.dead = pool.dead \cup bad
    /\ ToSet(kept) \cap (pool.dead \cup bad \cup Pending(pool)) = {}
    /\ pool'.pending = kept \o Without(pool.pending, bad)
    /\ Pending(pool') = ToSet(kept) \cup (Pending(pool) \ bad)
    /\ ToSet(pool'.disk) = ((ToSet(pool.disk) \ bad) \ new) \cup ToSet(kept)
    /\ committed' = committed \cup new
    /\ certs' = certs \ ToSet(order)
    /\ UNCHANGED <<batch, away, crashes>>

\* What the certificates of a commit carry is what the commit goes through.
LEMMA OrderedHolds ==
    ASSUME certs \subseteq Cert, NEW order \in Seq(certs)
    PROVE  Ordered(order) \in Seq(Tx) /\ Certified(ToSet(order)) \subseteq ToSet(Ordered(order))
<1> DEFINE n == Len(order)
           parts == [i \in DOMAIN order |-> order[i].txs]
<1>1. n \in Nat /\ DOMAIN order = 1 .. n /\ \A i \in 1 .. n : order[i] \in certs
    OBVIOUS
<1>2. \A i \in 1 .. n : order[i].txs \in Seq(Tx)
    BY <1>1 DEF Cert
<1>3. parts = [i \in 1 .. n |-> order[i].txs]
    BY <1>1
<1> HIDE DEF parts, n
<1>4. parts \in Seq(Seq(Tx)) /\ Len(parts) = n /\ \A i \in 1 .. n : parts[i] = order[i].txs
    <2> DEFINE S == Seq(Tx)
    <2>1. \A i \in 1 .. n : order[i].txs \in S
        BY <1>2
    <2> HIDE DEF S
    <2>2. parts \in [1 .. n -> S]
        BY <1>3, <2>1
    <2>3. parts \in Seq(S)
        BY <1>1, <2>2
    <2>4. QED
        BY <1>1, <1>3, <2>3 DEF S
<1>5. Ordered(order) = FlattenSeq(parts)
    BY DEF Ordered, parts
<1>6. FlattenSeq(parts) \in Seq(Tx) /\ \A k \in 1 .. n : ToSet(parts[k]) \subseteq ToSet(FlattenSeq(parts))
    BY <1>4, FlattenHolds
<1>7. ToSet(order) = {order[i] : i \in 1 .. n}
    BY <1>1 DEF ToSet
<1>8. QED
    BY <1>4, <1>5, <1>6, <1>7 DEF Certified

\* A mempool with two fields replaced.
LEMMA DiskAndRowsOf ==
    ASSUME NEW p \in PoolOf, NEW d, NEW r, NEW q, q = [p EXCEPT !.disk = d, !.rows = r]
    PROVE  q = [pending |-> p.pending, disk |-> d, dead |-> p.dead, rows |-> r]
BY DEF PoolOf

\* Commit, in terms of sets: every transaction of its certificates is accounted for.
LEMMA CommitIs ==
    ASSUME TransactionsInv, NEW order \in SetToAllKPermutations(certs), NEW ok \in BOOLEAN,
           Commit(order, ok)
    PROVE  \E bad \in SUBSET Tx, new \in SUBSET Tx, held \in SUBSET Tx, kept \in Seq(Tx) :
              CommitDoes(order, bad, new, held, kept)
<1> DEFINE ts == Ordered(order)
           n == Len(ts)
           new == IF ok THEN {ts[i] : i \in First(ts)} ELSE {}
           unsettled == {i \in Held(ts) : ~Clashes(ts[i], new)}
           bad == {ts[i] : i \in Unsound(ts)}
           Rows(I, reason) == {Row(ts[i], reason) : i \in I}
           bads == Rows(Unsound(ts), "dropped")
           failed == IF ok THEN {} ELSE Rows(First(ts), "dropped")
           copies == Rows(Sound(ts) \ (First(ts) \cup unsettled), "duplicate")
           p == Tombstoned(pool, bad)
           onDisk == Without(p.disk, new)
           rows == p.rows \cup bads \cup failed \cup copies
           q == [p EXCEPT !.disk = onDisk, !.rows = rows]
<1>1. GoodPool(pool) /\ certs \subseteq Cert /\ IsFiniteSet(certs) /\ order \in Seq(certs)
    BY OrdersAreSequences DEF TransactionsInv
<1>2. ts \in Seq(Tx) /\ Certified(ToSet(order)) \subseteq ToSet(ts)
    BY <1>1, OrderedHolds
<1>3. pool' = Restored(q, ts, unsettled) /\ committed' = committed \cup new
      /\ certs' = certs \ ToSet(order) /\ UNCHANGED <<batch, away, crashes>>
    BY DEF Commit
<1> HIDE DEF ts
<1>4. n \in Nat /\ ToSet(ts) = {ts[i] : i \in 1 .. n} /\ \A i \in 1 .. n : ts[i] \in Tx
    <2>1. ToSet(ts) = {ts[i] : i \in 1 .. n}
        BY <1>2, MembersOf
    <2>2. QED
        BY <1>2, <2>1
<1>5. /\ Sound(ts) \subseteq 1 .. n /\ Unsound(ts) \subseteq 1 .. n /\ First(ts) \subseteq Sound(ts)
      /\ Held(ts) \subseteq Sound(ts) \ First(ts)
      /\ \A i \in 1 .. n : i \in Sound(ts) \/ i \in Unsound(ts) \/ ts[i] \in committed
    BY DEF Sound, Unsound, First, Held
<1> HIDE DEF n
<1>6. unsettled \subseteq Held(ts) /\ unsettled \subseteq 1 .. n
    BY <1>5
<1> HIDE DEF unsettled
<1>7. bad \in SUBSET Tx /\ new \in SUBSET Tx /\ {ts[i] : i \in unsettled} \in SUBSET Tx
    BY <1>4, <1>5, <1>6
<1>8. bads \cup failed \cup copies \subseteq [tx : Tx, reason : Reasons]
    BY <1>4, <1>5, RowIsTyped DEF Reasons
<1>9. \A x \in 1 .. n : \/ ts[x] \in committed \cup new
                        \/ x \in unsettled
                        \/ \E r \in bads \cup failed \cup copies : r.tx = ts[x]
    <2> SUFFICES ASSUME NEW x \in 1 .. n, ts[x] \notin committed, ts[x] \notin new, x \notin unsettled
                 PROVE  \E r \in bads \cup failed \cup copies : r.tx = ts[x]
        OBVIOUS
    <2>1. \A reason : Row(ts[x], reason).tx = ts[x]
        BY DEF Row
    <2>2. CASE x \in Unsound(ts)
        BY <2>1, <2>2
    <2>3. CASE x \in First(ts)
        <3>1. ~ok
            BY <2>3
        <3>2. Row(ts[x], "dropped") \in failed
            BY <2>3, <3>1
        <3>3. QED
            BY <2>1, <3>2
    <2>4. CASE x \in Sound(ts) \ First(ts)
        <3>1. Row(ts[x], "duplicate") \in copies
            BY <2>4
        <3>2. QED
            BY <2>1, <3>1
    <2>5. QED
        BY <1>5, <2>2, <2>3, <2>4
<1>10. \A t \in bad : \E r \in bads : r.tx = t
    <2> SUFFICES ASSUME NEW x \in Unsound(ts) PROVE \E r \in bads : r.tx = ts[x]
        OBVIOUS
    <2>1. Row(ts[x], "dropped") \in bads /\ Row(ts[x], "dropped").tx = ts[x]
        BY DEF Row
    <2>2. QED
        BY <2>1
<1> HIDE DEF bad, new, bads, failed, copies
<1>11. /\ GoodPool(p)
       /\ p.pending = Without(pool.pending, bad) /\ p.dead = pool.dead \cup bad /\ p.rows = pool.rows
       /\ Pending(p) = Pending(pool) \ bad /\ ToSet(p.disk) = ToSet(pool.disk) \ bad
    <2>1. GoodPool(p) /\ Pending(p) = Pending(pool) \ bad /\ ToSet(p.disk) = ToSet(pool.disk) \ bad
        BY <1>1, <1>7, TombstonedIs
    <2>2. p = [pending |-> Without(pool.pending, bad), disk |-> Without(pool.disk, bad),
               dead |-> pool.dead \cup bad, rows |-> pool.rows]
        BY <1>1, <1>7, TombstonedIs
    <2> HIDE DEF p
    <2>3. QED
        BY <2>1, <2>2
<1> HIDE DEF p
<1>12. p \in PoolOf /\ p.disk \in Seq(Tx)
    BY <1>11 DEF GoodPool, PoolOf
<1>13. onDisk \in Seq(Tx) /\ ToSet(onDisk) = ToSet(p.disk) \ new /\ IsInjective(onDisk)
    BY <1>11, <1>12, WithoutLeaves, WithoutInjective DEF GoodPool
<1>14. rows \in SUBSET [tx : Tx, reason : Reasons]
    BY <1>8, <1>12 DEF PoolOf
<1>15. pool.rows \cup bads \cup failed \cup copies \subseteq rows
    BY <1>11
<1> HIDE DEF onDisk, rows
<1>16. q = [pending |-> p.pending, disk |-> onDisk, dead |-> p.dead, rows |-> rows]
    BY <1>12, DiskAndRowsOf
<1> HIDE DEF q
<1>17. GoodPool(q) /\ Pending(q) = Pending(p)
    <2>1. q \in PoolOf
        BY <1>12, <1>13, <1>14, <1>16 DEF PoolOf
    <2>2. ToSet(q.disk) \subseteq Pending(q) /\ q.dead \cap Pending(q) = {} /\ Pending(q) = Pending(p)
        BY <1>11, <1>13, <1>16 DEF GoodPool, Pending
    <2>3. QED
        BY <1>11, <1>13, <1>16, <2>1, <2>2 DEF GoodPool
<1>18. PICK s \in Seq(Tx) : /\ IsInjective(s) /\ ToSet(s) = {ts[i] : i \in unsettled}
                            /\ pool' = PutBack(q, s)
    <2>1. unsettled \in SUBSET (1 .. Len(ts))
        BY <1>6 DEF n
    <2>2. QED
        BY <1>2, <1>3, <2>1, RestoredIs
<1>33. PICK lost \in SUBSET (ToSet(s) \ Knows(q)), kept \in Seq(Tx) : PutsBack(q, s, lost, kept)
    BY <1>17, <1>18, PutBackIs
<1>19. /\ kept = Without(s, Knows(q) \cup lost)
       /\ ToSet(kept) = ToSet(s) \ (Knows(q) \cup lost)
       /\ GoodPool(pool')
       /\ pool' = [pending |-> kept \o q.pending, disk |-> q.disk \o Reverse(kept),
                   dead |-> q.dead, rows |-> q.rows \cup Dropped(lost)]
       /\ Pending(pool') = Pending(q) \cup ToSet(kept)
       /\ ToSet(pool'.disk) = ToSet(q.disk) \cup ToSet(kept)
    BY <1>18, <1>33 DEF PutsBack
<1> DEFINE held == {ts[i] : i \in unsettled}
<1>20. IsInjective(kept)
    BY <1>18, <1>19, WithoutInjective
<1>21. pool'.pending = kept \o Without(pool.pending, bad) /\ pool'.dead = pool.dead \cup bad
       /\ pool'.rows = rows \cup Dropped(lost)
    BY <1>11, <1>16, <1>19
<1>22. RejectedIn(pool') = {r.tx : r \in rows} \cup lost
    <2>1. pool'.rows = q.rows \cup Dropped(lost) /\ q.rows = rows
        BY <1>16, <1>21
    <2>2. RejectedIn(pool') = RejectedIn(q) \cup lost
        BY <2>1, RowsAdd
    <2>3. QED
        BY <2>1, <2>2 DEF RejectedIn
<1>23. bad \cup RejectedIn(pool) \subseteq RejectedIn(pool')
    BY <1>10, <1>15, <1>22 DEF RejectedIn
<1>24. Certified(ToSet(order)) \subseteq committed \cup new \cup held \cup RejectedIn(pool')
    <2>1. \A r \in bads \cup failed \cup copies : r.tx \in RejectedIn(pool')
        BY <1>15, <1>22
    <2>2. \A x \in 1 .. n : ts[x] \in committed \cup new \cup held \cup RejectedIn(pool')
        BY <1>9, <2>1
    <2>3. QED
        BY <1>2, <1>4, <2>2
<1>25. Knows(q) = pool.dead \cup bad \cup Pending(pool)
    BY <1>11, <1>16, <1>17 DEF Knows
<1>26. ToSet(kept) = held \ (Knows(q) \cup lost)
    BY <1>18, <1>19
<1>27. Pending(pool') = ToSet(kept) \cup (Pending(pool) \ bad)
       /\ ToSet(pool'.disk) = ((ToSet(pool.disk) \ bad) \ new) \cup ToSet(kept)
    BY <1>11, <1>13, <1>16, <1>17, <1>19
<1>28. ToSet(kept) \cap (pool.dead \cup bad \cup Pending(pool)) = {}
    BY <1>25, <1>26
<1>29. held \subseteq ToSet(kept) \cup Pending(pool') \cup RejectedIn(pool') \cup pool.dead
    BY <1>22, <1>23, <1>25, <1>26, <1>27
<1>30. CommitDoes(order, bad, new, held, kept)
    <2> HIDE DEF held
    <2>1. QED
        BY <1>3, <1>19, <1>20, <1>21, <1>23, <1>24, <1>27, <1>28, <1>29 DEF CommitDoes
<1>31. held \in SUBSET Tx
    BY <1>7
<1>32. QED
    BY <1>7, <1>30, <1>31

\* A commit.
LEMMA CommitSafe ==
    ASSUME TransactionsInv, NEW order \in SetToAllKPermutations(certs), NEW ok \in BOOLEAN,
           Commit(order, ok)
    PROVE  TransactionsInv' /\ NothingLost
<1>1. PICK bad \in SUBSET Tx, new \in SUBSET Tx, held \in SUBSET Tx, kept \in Seq(Tx) :
          CommitDoes(order, bad, new, held, kept)
    BY CommitIs
<1>2. /\ Certified(ToSet(order)) \subseteq committed \cup new \cup held \cup RejectedIn(pool')
      /\ bad \cup RejectedIn(pool) \subseteq RejectedIn(pool')
      /\ held \subseteq ToSet(kept) \cup Pending(pool') \cup RejectedIn(pool') \cup pool.dead
      /\ GoodPool(pool') /\ pool'.dead = pool.dead \cup bad
      /\ Pending(pool') = ToSet(kept) \cup (Pending(pool) \ bad)
      /\ ToSet(pool'.disk) = ((ToSet(pool.disk) \ bad) \ new) \cup ToSet(kept)
      /\ committed' = committed \cup new
      /\ certs' = certs \ ToSet(order)
      /\ UNCHANGED <<batch, away, crashes>>
    BY <1>1 DEF CommitDoes
<1>3. pool.dead \subseteq RejectedIn(pool) /\ Pending(pool) \subseteq ToSet(pool.disk) \cup committed
    BY DEF TransactionsInv, Rejected, RejectedIn
<1>4. pool'.dead \subseteq Rejected' /\ Pending(pool') \subseteq ToSet(pool'.disk) \cup committed'
    BY <1>2, <1>3 DEF Rejected, RejectedIn
<1>5. certs' \subseteq Cert /\ IsFiniteSet(certs') /\ committed' \subseteq Tx
    BY <1>2, FS_Subset DEF TransactionsInv
<1>6. TransactionsInv'
    BY <1>2, <1>4, <1>5 DEF TransactionsInv, Pending
<1>7. Certified(certs \cup away) \subseteq Certified(certs' \cup away') \cup Certified(ToSet(order))
    BY <1>2 DEF Certified
<1>8. NothingLost
    <2>1. Certified(ToSet(order)) \subseteq committed' \cup Pending(pool') \cup RejectedIn(pool')
        BY <1>2, <1>3
    <2>2. Pending(pool) \subseteq Pending(pool') \cup RejectedIn(pool')
        BY <1>2
    <2>3. Rejected = RejectedIn(pool) /\ Rejected' = RejectedIn(pool')
        BY DEF Rejected, RejectedIn
    <2>4. Rejected \subseteq Rejected' /\ committed \subseteq committed' /\ batch' = batch /\ crashes' = crashes
        BY <1>2, <2>3
    <2>5. QED
        BY <1>7, <2>1, <2>2, <2>3, <2>4 DEF NothingLost, Traced
<1>9. QED
    BY <1>6, <1>8

\* Every step.
LEMMA NextSafe ==
    ASSUME TransactionsInv, [Next]_vars
    PROVE  TransactionsInv' /\ NothingLost
<1>1. CASE UNCHANGED vars
    BY <1>1 DEF vars, TransactionsInv, NothingLost, Traced, Pending, Rejected, Certified
<1>2. CASE Next
    BY <1>2, SubmitSafe, SubmitBatchSafe, BeginRoundSafe, SealSafe, PeerCertifiesSafe, PullSafe,
       ReceiveSafe, CommitSafe, RestartSafe DEF Next
<1>3. QED
    BY <1>1, <1>2

\* The start.
LEMMA InitSafe == Init => TransactionsInv
<1> SUFFICES ASSUME Init PROVE TransactionsInv
    OBVIOUS
<1>1. <<>> \in Seq(Tx) /\ IsInjective(<<>>) /\ Len(<<>>) = 0 /\ ToSet(<<>>) = {}
    BY DEF IsInjective, ToSet
<1>2. pool = [pending |-> <<>>, disk |-> <<>>, dead |-> {}, rows |-> {}]
      /\ batch = <<>> /\ certs = {} /\ away = {} /\ committed = {} /\ crashes = 0
    BY DEF Init
<1>3. GoodPool(pool)
    BY <1>1, <1>2, LimitTypes DEF GoodPool, PoolOf, Pending
<1>4. IsFiniteSet({})
    BY FS_EmptySet
<1>5. QED
    BY <1>1, <1>2, <1>3, <1>4, LimitTypes DEF TransactionsInv, Pending

\* The invariant holds in every behaviour.
LEMMA TransactionsInvariant == Spec => []TransactionsInv
<1>1. TransactionsInv /\ [Next]_vars => TransactionsInv'
    BY NextSafe
<1>2. QED
    BY <1>1, InitSafe, PTL DEF Spec

\* TypeOK for every behaviour: the mempool has no copies and never more than
\* MEMPOOL_MAX_SIZE entries, also after addFront and after a restart.
THEOREM TransactionsTyped == Spec => []TypeOK
<1>1. TransactionsInv => TypeOK
    BY DEF TransactionsInv, GoodPool, PoolOf, TypeOK
<1>2. QED
    BY <1>1, TransactionsInvariant, PTL

\* DeadStaysOut for every behaviour: nothing with a tombstone is pending.
THEOREM DeadOnesStayOut == Spec => []DeadStaysOut
<1>1. TransactionsInv => DeadStaysOut
    BY DEF TransactionsInv, GoodPool, DeadStaysOut
<1>2. QED
    BY <1>1, TransactionsInvariant, PTL

\* DiskFollowsMemory for every behaviour: the table of the mempool holds what is
\* pending and not committed, and nothing that is not pending.
THEOREM DiskHasTheMempool == Spec => []DiskFollowsMemory
<1>1. TransactionsInv => DiskFollowsMemory
    BY DEF TransactionsInv, GoodPool, DiskFollowsMemory
<1>2. QED
    BY <1>1, TransactionsInvariant, PTL

\* NoSilentLoss for every step: what a node took in stays pending, in the batch,
\* in a certificate, committed or in a rejection row, but for a crash.
THEOREM NothingIsLost == Spec => NoSilentLoss
<1>1. TransactionsInv /\ [Next]_vars =>
        [Traced \subseteq Traced' \cup (IF crashes' = crashes THEN {}
                                        ELSE ToSet(batch) \cup Certified(certs))]_vars
    BY NextSafe DEF NothingLost
<1>2. QED
    BY <1>1, TransactionsInvariant, PTL DEF Spec, NoSilentLoss
----------------------------------------------------------------------------
(* The order of what waits.                                                *)

\* Two sequences that agree but for what only one of them has keep the order
\* of what both have.
LEMMA OrderOf ==
    ASSUME NEW q \in Seq(Tx), NEW r \in Seq(Tx), NEW T, NEW U, Without(q, T) = Without(r, U),
           T \cap ToSet(q) \cap ToSet(r) = {}, U \cap ToSet(q) \cap ToSet(r) = {}
    PROVE  Without(q, Tx \ ToSet(r)) = Without(r, Tx \ ToSet(q))
<1> DEFINE A == Tx \ ToSet(r)
           B == Tx \ ToSet(q)
           C == A \cup B
<1>0. ToSet(q) \subseteq Tx /\ ToSet(r) \subseteq Tx
    BY MembersOf
<1>1. (T \cup C) \cap ToSet(q) = A \cap ToSet(q) /\ (U \cup C) \cap ToSet(r) = B \cap ToSet(r)
    BY <1>0
<1> HIDE DEF A, B, C
<1>2. Without(q, A) = Without(q, T \cup C) /\ Without(r, B) = Without(r, U \cup C)
    BY <1>1, WithoutSame
<1>3. Without(q, T \cup C) = Without(Without(q, T), C) /\ Without(r, U \cup C) = Without(Without(r, U), C)
    BY WithoutTwice
<1>4. QED
    BY <1>2, <1>3 DEF A, B

\* KeepsOrder, of one step.
OrderHeld ==
    IsInjective(Queue) /\ IsInjective(Queue') =>
        Without(Queue, Tx \ ToSet(Queue')) = Without(Queue', Tx \ ToSet(Queue))

\* What the queue is made of.
LEMMA QueueIs ==
    ASSUME NEW b \in Seq(Tx), NEW p \in Seq(Tx)
    PROVE  /\ b \o p \in Seq(Tx) /\ ToSet(b \o p) = ToSet(b) \cup ToSet(p)
           /\ IsInjective(b \o p) => ToSet(b) \cap ToSet(p) = {}
           /\ \A T : Without(b \o p, T) = Without(b, T) \o Without(p, T)
<1>1. b \o p \in Seq(Tx)
    BY ConcatProperties
<1>2. QED
    BY <1>1, MembersOf, InjectiveConcat, WithoutConcat

\* Leaving out everything.
LEMMA WithoutAll ==
    ASSUME NEW S, NEW s \in Seq(S), NEW T, ToSet(s) \subseteq T
    PROVE  Without(s, T) = <<>>
<1>1. Without(s, T) \in Seq(S) /\ ToSet(Without(s, T)) = {}
    BY WithoutLeaves
<1>2. QED
    BY <1>1, MembersOf

\* The queue: the batch, then the mempool.
LEMMA QueueTypes ==
    ASSUME TransactionsInv
    PROVE  batch \in Seq(Tx) /\ pool.pending \in Seq(Tx) /\ Queue \in Seq(Tx)
           /\ ToSet(Queue) = ToSet(batch) \cup Pending(pool)
           /\ (IsInjective(Queue) => ToSet(batch) \cap Pending(pool) = {})
<1>1. batch \in Seq(Tx) /\ pool.pending \in Seq(Tx)
    BY DEF TransactionsInv, GoodPool, PoolOf
<1>2. QED
    BY <1>1, QueueIs DEF Queue, Pending

\* An element at the end of the second of two sequences.
LEMMA ConcatAppend ==
    ASSUME NEW S, NEW s \in Seq(S), NEW q \in Seq(S), NEW e \in S
    PROVE  s \o Append(q, e) = Append(s \o q, e)
OBVIOUS

\* submitTx adds at the end.
LEMMA SubmitOrder ==
    ASSUME TransactionsInv, NEW t \in Tx, Submit(t)
    PROVE  OrderHeld
<1>1. batch \in Seq(Tx) /\ pool.pending \in Seq(Tx) /\ Queue \in Seq(Tx)
    BY QueueTypes
<1>2. CASE pool'.pending = pool.pending
    BY <1>2, SubmitIs DEF OrderHeld, Queue
<1>3. CASE pool'.pending = Append(pool.pending, t)
    <2>1. Queue' = Append(Queue, t)
        <3>1. Queue' = batch \o Append(pool.pending, t)
            BY <1>3, SubmitIs DEF Queue
        <3>2. QED
            BY <1>1, <3>1, ConcatAppend DEF Queue
    <2> DEFINE q == Queue
               r == Append(q, t)
    <2>2. q \in Seq(Tx)
        BY <1>1
    <2> HIDE DEF q
    <2>3. r \in Seq(Tx) /\ (IsInjective(r) => t \notin ToSet(q)) /\ Without(r, {t}) = Without(q, {t})
        BY <2>2, InjectiveAppend, WithoutAppend
    <2> HIDE DEF r
    <2>4. IsInjective(r) => Without(q, Tx \ ToSet(r)) = Without(r, Tx \ ToSet(q))
        <3> SUFFICES ASSUME IsInjective(r) PROVE Without(q, Tx \ ToSet(r)) = Without(r, Tx \ ToSet(q))
            OBVIOUS
        <3>1. {t} \cap ToSet(q) \cap ToSet(r) = {}
            BY <2>3
        <3>2. QED
            BY <2>2, <2>3, <3>1, OrderOf
    <2>5. QED
        BY <2>1, <2>4 DEF OrderHeld, q, r
<1>4. QED
    BY <1>2, <1>3, SubmitIs

\* A round puts the old batch back in front, in its order, and takes from the front.
LEMMA BeginRoundOrder ==
    ASSUME TransactionsInv, NEW stale \in SUBSET Pending(pool), NEW expired, BeginRound(stale, expired)
    PROVE  OrderHeld
<1> SUFFICES ASSUME IsInjective(Queue)
             PROVE  Without(Queue, Tx \ ToSet(Queue')) = Without(Queue', Tx \ ToSet(Queue))
    BY DEF OrderHeld
<1>1. batch \in Seq(Tx) /\ pool.pending \in Seq(Tx) /\ Queue \in Seq(Tx)
      /\ ToSet(batch) \cap Pending(pool) = {} /\ pool.dead \cap Pending(pool) = {}
    BY QueueTypes DEF TransactionsInv, GoodPool
<1>2. PICK lost \in SUBSET (ToSet(batch) \ Knows(pool)), kept \in Seq(Tx) :
          RoundTakes(lost, kept, stale, expired)
    BY BeginRoundIs
<1> DEFINE T == pool.dead \cup lost
<1>3. kept = Without(batch, Knows(pool) \cup lost)
      /\ Queue' = Without(kept \o pool.pending, stale)
    BY <1>2 DEF RoundTakes, Queue
<1>4. kept = Without(batch, T)
    <2>1. (Knows(pool) \cup lost) \cap ToSet(batch) = T \cap ToSet(batch)
        BY <1>1 DEF Knows
    <2> HIDE DEF T
    <2>2. Without(batch, Knows(pool) \cup lost) = Without(batch, T)
        BY <1>1, <2>1, WithoutSame
    <2>3. QED
        BY <1>3, <2>2
<1>5. pool.pending = Without(pool.pending, T)
    <2>1. T \cap ToSet(pool.pending) = {}
        BY <1>1 DEF Knows, Pending
    <2> HIDE DEF T
    <2>2. QED
        BY <1>1, <2>1, WithoutNothing
<1> HIDE DEF T
<1>6. kept \o pool.pending = Without(Queue, T)
    <2> DEFINE p == pool.pending
    <2>1. p \in Seq(Tx) /\ batch \in Seq(Tx)
        BY <1>1
    <2> HIDE DEF p
    <2>2. Without(batch \o p, T) = Without(batch, T) \o Without(p, T)
        BY <2>1, WithoutConcat
    <2>3. QED
        BY <1>4, <1>5, <2>2 DEF Queue, p
<1> DEFINE q == Queue
           r == Without(q, T \cup stale)
<1>7. Queue' = r
    <2>1. Queue' = Without(Without(Queue, T), stale)
        BY <1>3, <1>6
    <2>2. Without(Without(Queue, T), stale) = Without(Queue, T \cup stale)
        BY <1>1, WithoutTwice
    <2>3. QED
        BY <2>1, <2>2
<1>8. q \in Seq(Tx)
    BY <1>1
<1> HIDE DEF q
<1>9. r \in Seq(Tx) /\ ToSet(r) = ToSet(q) \ (T \cup stale)
    BY <1>8, WithoutLeaves
<1>10. Without(r, {}) = r
    <2> HIDE DEF r
    <2>1. QED
        BY <1>9, WithoutNothing
<1>11. Without(q, T \cup stale) = Without(r, {})
    BY <1>10
<1> HIDE DEF r
<1>12. Without(q, Tx \ ToSet(r)) = Without(r, Tx \ ToSet(q))
    BY <1>8, <1>9, <1>11, OrderOf
<1>13. QED
    BY <1>7, <1>12 DEF q

\* A certificate takes the batch, the front of the queue.
LEMMA SealOrder ==
    ASSUME TransactionsInv, Seal
    PROVE  OrderHeld
<1> SUFFICES ASSUME IsInjective(Queue)
             PROVE  Without(Queue, Tx \ ToSet(Queue')) = Without(Queue', Tx \ ToSet(Queue))
    BY DEF OrderHeld
<1> DEFINE q == Queue
           r == pool.pending
           T == ToSet(batch)
<1>1. batch \in Seq(Tx) /\ r \in Seq(Tx) /\ q \in Seq(Tx)
      /\ ToSet(batch) \cap ToSet(r) = {}
    BY QueueTypes DEF Pending
<1>2. Queue' = r
    <2>1. batch' = <<>> /\ pool' = pool
        BY DEF Seal
    <2>2. <<>> \o pool.pending = pool.pending
        BY <1>1, ConcatEmptySeq
    <2>3. QED
        BY <2>1, <2>2 DEF Queue
<1> HIDE DEF r
<1>3. Without(q, T) = Without(r, T)
    <2>1. Without(batch \o r, T) = Without(batch, T) \o Without(r, T)
        BY <1>1, QueueIs
    <2>2. Without(batch, T) = <<>>
        BY <1>1, WithoutAll
    <2>3. Without(r, T) \in Seq(Tx)
        BY <1>1, WithoutLeaves
    <2>4. <<>> \o Without(r, T) = Without(r, T)
        BY <2>3, ConcatEmptySeq
    <2>5. QED
        BY <2>1, <2>2, <2>4 DEF Queue, r
<1>4. T \cap ToSet(q) \cap ToSet(r) = {}
    BY <1>1
<1> HIDE DEF q, T
<1>5. QED
    BY <1>1, <1>2, <1>3, <1>4, OrderOf DEF q

\* Receive and Commit: what is taken out of the mempool, and what comes back
\* between the batch and the mempool.
LEMMA MiddleOrder ==
    ASSUME NEW b \in Seq(Tx), NEW p \in Seq(Tx), NEW kept \in Seq(Tx), NEW X,
           ToSet(b) \cap ToSet(p) = {}, ToSet(kept) \cap ToSet(p) = {}, ToSet(kept) \cap ToSet(b) = {}
    PROVE  LET q == b \o p
               r == b \o (kept \o Without(p, X))
           IN  Without(q, Tx \ ToSet(r)) = Without(r, Tx \ ToSet(q))
<1> DEFINE left == Without(p, X)
           m == kept \o left
           q == b \o p
           r == b \o m
           T == X \cap ToSet(p)
           U == ToSet(kept)
<1>1. left \in Seq(Tx) /\ ToSet(left) = ToSet(p) \ X
    BY WithoutLeaves
<1>2. left = Without(p, T)
    BY WithoutSame
<1> HIDE DEF left
<1>3. m \in Seq(Tx) /\ ToSet(m) = ToSet(kept) \cup ToSet(left)
    BY <1>1, QueueIs
<1>4. q \in Seq(Tx) /\ ToSet(q) = ToSet(b) \cup ToSet(p)
    BY QueueIs
<1>5. Without(m, U) = left
    <2>1. Without(m, U) = Without(kept, U) \o Without(left, U)
        <3> HIDE DEF U
        <3>1. QED
            BY <1>1, QueueIs
    <2>2. Without(kept, U) = <<>>
        BY WithoutAll
    <2>3. Without(left, U) = left
        BY <1>1, WithoutNothing
    <2>4. <<>> \o left = left
        BY <1>1, ConcatEmptySeq
    <2>5. QED
        BY <2>1, <2>2, <2>3, <2>4
<1>6. Without(b, U) = b /\ Without(b, T) = b
    BY WithoutNothing
<1>7. Without(q, T) = b \o left
    <2>1. Without(q, T) = Without(b, T) \o Without(p, T)
        <3> HIDE DEF T
        <3>1. QED
            BY QueueIs
    <2>2. QED
        BY <1>2, <1>6, <2>1
<1> HIDE DEF m
<1>8. r \in Seq(Tx) /\ ToSet(r) = ToSet(b) \cup ToSet(m)
    BY <1>3, QueueIs
<1>9. Without(r, U) = b \o left
    <2>1. Without(r, U) = Without(b, U) \o Without(m, U)
        <3> HIDE DEF U
        <3>1. QED
            BY <1>3, QueueIs
    <2>2. QED
        BY <1>5, <1>6, <2>1
<1>10. T \cap ToSet(q) \cap ToSet(r) = {} /\ U \cap ToSet(q) \cap ToSet(r) = {}
    BY <1>1, <1>3, <1>4, <1>8
<1>11. Without(q, Tx \ ToSet(r)) = Without(r, Tx \ ToSet(q))
    <2> HIDE DEF q, r, T, U
    <2>1. QED
        BY <1>4, <1>7, <1>8, <1>9, <1>10, OrderOf
<1>12. QED
    BY <1>11 DEF m, left

\* A certificate that arrives takes some out of the mempool.
LEMMA ReceiveOrder ==
    ASSUME TransactionsInv, NEW c \in away, NEW saved \in BOOLEAN, Receive(c, saved)
    PROVE  OrderHeld
<1> SUFFICES ASSUME IsInjective(Queue)
             PROVE  Without(Queue, Tx \ ToSet(Queue')) = Without(Queue', Tx \ ToSet(Queue))
    BY DEF OrderHeld
<1> DEFINE X == ToSet(c.txs)
           left == Without(pool.pending, X)
<1>1. batch \in Seq(Tx) /\ pool.pending \in Seq(Tx) /\ ToSet(batch) \cap ToSet(pool.pending) = {}
    BY QueueTypes DEF Pending
<1>2. pool' = Removed(pool, X) /\ batch' = batch
    BY DEF Receive
<1>3. pool'.pending = left
    <2>1. GoodPool(pool)
        BY DEF TransactionsInv
    <2>2. Removed(pool, X) = [pending |-> Without(pool.pending, X), disk |-> Without(pool.disk, X),
                              dead |-> pool.dead, rows |-> pool.rows]
        BY <2>1, RemovedIs
    <2>3. QED
        BY <1>2, <2>2
<1> HIDE DEF X
<1>4. left \in Seq(Tx)
    BY <1>1, WithoutLeaves
<1> DEFINE none == <<>>
<1>5. none \in Seq(Tx) /\ none \o left = left
    BY <1>4, ConcatEmptySeq
<1>6. ToSet(none) = {}
    BY DEF ToSet
<1> HIDE DEF none
<1>7. Queue' = batch \o (none \o left)
    BY <1>2, <1>3, <1>5 DEF Queue
<1>8. LET q == batch \o pool.pending
          r == batch \o (none \o left)
      IN  Without(q, Tx \ ToSet(r)) = Without(r, Tx \ ToSet(q))
    <2> DEFINE p == pool.pending
    <2>1. batch \in Seq(Tx) /\ p \in Seq(Tx) /\ ToSet(batch) \cap ToSet(p) = {}
          /\ ToSet(none) \cap ToSet(p) = {} /\ ToSet(none) \cap ToSet(batch) = {}
        BY <1>1, <1>6
    <2> HIDE DEF p
    <2>2. LET q == batch \o p
              r == batch \o (none \o Without(p, X))
          IN  Without(q, Tx \ ToSet(r)) = Without(r, Tx \ ToSet(q))
        BY <1>5, <2>1, MiddleOrder
    <2>3. QED
        BY <2>2 DEF p
<1>9. QED
    BY <1>7, <1>8 DEF Queue

\* A commit takes some out of the mempool, and the held ones come back between the
\* batch and the mempool.
LEMMA CommitOrder ==
    ASSUME TransactionsInv, NEW order \in SetToAllKPermutations(certs), NEW ok \in BOOLEAN,
           Commit(order, ok)
    PROVE  OrderHeld
<1> SUFFICES ASSUME IsInjective(Queue), IsInjective(Queue')
             PROVE  Without(Queue, Tx \ ToSet(Queue')) = Without(Queue', Tx \ ToSet(Queue))
    BY DEF OrderHeld
<1>1. PICK bad \in SUBSET Tx, new \in SUBSET Tx, held \in SUBSET Tx, kept \in Seq(Tx) :
          CommitDoes(order, bad, new, held, kept)
    BY CommitIs
<1> DEFINE left == Without(pool.pending, bad)
           m == kept \o left
<1>2. batch \in Seq(Tx) /\ pool.pending \in Seq(Tx) /\ ToSet(batch) \cap ToSet(pool.pending) = {}
    BY QueueTypes DEF Pending
<1>3. pool'.pending = m /\ batch' = batch /\ ToSet(kept) \cap ToSet(pool.pending) = {}
    BY <1>1 DEF CommitDoes, Pending
<1>4. Queue' = batch \o m
    BY <1>3 DEF Queue
<1>5. left \in Seq(Tx)
    BY <1>2, WithoutLeaves
<1>6. m \in Seq(Tx) /\ ToSet(m) = ToSet(kept) \cup ToSet(left)
    BY <1>5, QueueIs
<1>7. ToSet(kept) \cap ToSet(batch) = {}
    <2> HIDE DEF m
    <2>1. IsInjective(batch \o m)
        BY <1>4
    <2>2. ToSet(batch) \cap ToSet(m) = {}
        BY <1>2, <1>6, <2>1, QueueIs
    <2>3. QED
        BY <1>6, <2>2
<1>8. QED
    BY <1>2, <1>3, <1>4, <1>7, MiddleOrder DEF Queue

\* KeepsOrder for every step: two transactions that wait before and after it do not
\* change places.
THEOREM OrderIsKept == Spec => KeepsOrder
<1>1. ASSUME TransactionsInv, [Next]_vars PROVE crashes' = crashes => OrderHeld
    <2>1. CASE Next
        <3>1. ASSUME NEW t \in Tx, NEW u \in Tx, SubmitBatch(t, u) PROVE Queue' = Queue
            BY <1>1, <3>1, SubmitBatchIs DEF Queue
        <3>2. ASSUME \/ \E txs \in PeerBatches : PeerCertifies(txs)
                     \/ \E c \in away : Pull(c)
              PROVE  Queue' = Queue
            BY <3>2 DEF PeerCertifies, Pull, Queue
        <3>3. ASSUME Restart PROVE crashes' # crashes
            BY <1>1, <3>3 DEF Restart, TransactionsInv
        <3>4. ASSUME Queue' = Queue PROVE OrderHeld
            BY <3>4 DEF OrderHeld
        <3>5. QED
            BY <1>1, <2>1, <3>1, <3>2, <3>3, <3>4, SubmitOrder, BeginRoundOrder, SealOrder, ReceiveOrder,
               CommitOrder DEF Next
    <2>2. CASE UNCHANGED vars
        BY <2>2 DEF vars, OrderHeld, Queue
    <2>3. QED
        BY <1>1, <2>1, <2>2
<1>2. TransactionsInv /\ [Next]_vars =>
        [crashes' = crashes /\ IsInjective(Queue) /\ IsInjective(Queue') =>
            Without(Queue, Tx \ ToSet(Queue')) = Without(Queue', Tx \ ToSet(Queue))]_vars
    BY <1>1 DEF OrderHeld
<1>3. QED
    BY <1>2, TransactionsInvariant, PTL DEF Spec, KeepsOrder
============================================================================
