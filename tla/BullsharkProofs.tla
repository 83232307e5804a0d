-------------------------- MODULE BullsharkProofs --------------------------
(***************************************************************************)
(* Theorems about Bullshark for every certificate graph, every committee   *)
(* and every set of nodes.                                                 *)
(***************************************************************************)
EXTENDS Bullshark, FiniteSetTheorems, WellFoundedInduction, TLAPS

----------------------------------------------------------------------------
(* What holds of a node's state at all times.                              *)

Stamped(s, i) == Stamp[s.log[i].anchor]

\* A log that hands nothing on twice and nothing that is not marked.
Marked(s) ==
    /\ s.ordered \subseteq s.dag
    /\ \A i \in DOMAIN s.log : s.log[i].certs \subseteq s.ordered
    /\ \A i, j \in DOMAIN s.log : i # j => s.log[i].certs \cap s.log[j].certs = {}

\* The stamps of a log, and what the floor still says of them after restarts.
\* A vote is in the store for every anchor, which is where a restart puts the
\* frontier.
Clocked(s) ==
    /\ s.boots \subseteq 0 .. Len(s.log)
    /\ \A i \in DOMAIN s.log :
          /\ Remembered(s, i) \/ (\A b \in s.boots : b < i) => Stamped(s, i) <= s.floor
          /\ \E c \in s.dag : Round[c] = Round[s.log[i].anchor] + 1
    /\ \A i, j \in DOMAIN s.log : i # j => s.log[i].anchor # s.log[j].anchor
    /\ \A i, j \in DOMAIN s.log :
          i < j /\ (Remembered(s, i) \/ \A b \in s.boots : b < i \/ j <= b)
          => Stamped(s, i) < Stamped(s, j)

\* A check happens above base only, the frontier of the last restart.  What was
\* committed before it is at or below base, and what was committed since is not
\* later than the floor: nothing of either can be committed again.
Based(s, base) ==
    /\ base <= s.last
    /\ s.pending # Nothing => s.pending.round > base
    /\ \A i \in DOMAIN s.log :
          Round[s.log[i].anchor] + 1 <= base \/ Stamped(s, i) <= s.floor

Sound(s) == Marked(s) /\ Clocked(s) /\ \E base \in Nat : Based(s, base)

\* A check touches nothing but the ordering.
Same(s, t) ==
    /\ t.dag = s.dag /\ t.round = s.round /\ t.heard = s.heard
    /\ t.storing = s.storing /\ t.upto = s.upto /\ t.driving = s.driving
    /\ t.jumped = s.jumped /\ t.boots = s.boots

\* A step that leaves the ordering alone, but that it may drop a parked commit
\* or what the commit is waiting for.
Spares(s, t) ==
    /\ s.dag \subseteq t.dag
    /\ t.ordered = s.ordered /\ t.log = s.log /\ t.floor = s.floor
    /\ t.last = s.last /\ t.boots = s.boots
    /\ t.pending # Nothing => s.pending # Nothing /\ t.pending.round = s.pending.round

LEMMA SparesSound ==
    ASSUME NEW s \in States, NEW t \in States, Sound(s), Spares(s, t)
    PROVE  Sound(t)
  <1>1. Marked(t)
    BY DEF Sound, Marked, Spares
  <1>2. \A i : Remembered(t, i) <=> Remembered(s, i)
    BY DEF Remembered, HasRow, Spares
  <1>3. Clocked(t)
    BY <1>2 DEF Sound, Clocked, Spares, Stamped
  <1>4. \E base \in Nat : Based(t, base)
    <2>1. PICK base \in Nat : Based(s, base)
      BY DEF Sound
    <2>2. Based(t, base)
      BY <2>1 DEF Based, Spares, Stamped
    <2> QED
      BY <2>2
  <1> QED
    BY <1>1, <1>3, <1>4 DEF Sound

LEMMA WalkIsNew ==
    ASSUME NEW s \in States, NEW a \in Cert
    PROVE  Walk(s, a) \subseteq s.dag \ s.ordered
  BY DEF Walk, Reach

LEMMA AppendSound ==
    ASSUME NEW log \in Seq(Entries), NEW e \in Entries, NEW S,
           \A i \in DOMAIN log : log[i].certs \subseteq S,
           \A i, j \in DOMAIN log : i # j => log[i].certs \cap log[j].certs = {},
           e.certs \cap S = {}
    PROVE  LET l == Append(log, e)
           IN  /\ l \in Seq(Entries)
               /\ \A i \in DOMAIN l : l[i].certs \subseteq S \cup e.certs
               /\ \A i, j \in DOMAIN l : i # j => l[i].certs \cap l[j].certs = {}
  <1> DEFINE l == Append(log, e)
  <1>1. /\ l \in Seq(Entries) /\ Len(log) \in Nat /\ Len(l) = Len(log) + 1
        /\ DOMAIN l = 1 .. Len(l) /\ DOMAIN log = 1 .. Len(log)
        /\ \A i \in 1 .. Len(log) : l[i] = log[i]
        /\ l[Len(log) + 1] = e
    OBVIOUS
  <1>2. \A i \in DOMAIN l : i \in DOMAIN log \/ (i = Len(log) + 1 /\ l[i] = e)
    BY <1>1
  <1>3. \A i \in DOMAIN log : l[i] = log[i] /\ log[i].certs \cap e.certs = {}
    BY <1>1
  <1> QED
    BY <1>1, <1>2, <1>3

\* A later anchor that is not in the log keeps the log's stamps in order.
LEMMA AppendClocked ==
    ASSUME NEW s \in States, NEW t \in States, NEW e \in Entries, Clocked(s),
           t.log = Append(s.log, e), t.boots = s.boots, t.dag = s.dag,
           t.floor = Stamp[e.anchor], Stamp[e.anchor] > s.floor,
           \E c \in s.dag : Round[c] = Round[e.anchor] + 1,
           \A i \in DOMAIN s.log : s.log[i].anchor # e.anchor
    PROVE  Clocked(t)
  <1> DEFINE k == Len(s.log)
  <1>1. /\ k \in Nat /\ DOMAIN t.log = 1 .. k + 1 /\ DOMAIN s.log = 1 .. k /\ Len(t.log) = k + 1
        /\ \A i \in 1 .. k : t.log[i] = s.log[i] /\ s.log[i] \in Entries
        /\ t.log[k + 1] = e
    <2>1. s.log \in Seq(Entries)
      BY DEF States
    <2> QED
      BY <2>1
  <1>2. s.floor \in Nat /\ s.boots \subseteq 0 .. k /\ \A x \in Entries : Stamp[x.anchor] \in Nat
    <2>1. s.floor \in Nat
      BY DEF States
    <2>2. s.boots \subseteq 0 .. k
      BY DEF Clocked
    <2>3. \A x \in Entries : Stamp[x.anchor] \in Nat
      BY GraphIsTyped DEF Entries
    <2> QED
      BY <2>1, <2>2, <2>3
  <1> HIDE DEF k
  <1>3. ASSUME NEW i \in 1 .. k
        PROVE  /\ Stamped(t, i) = Stamped(s, i) /\ Stamped(s, i) \in Nat
               /\ Remembered(t, i) <=> Remembered(s, i)
    <2>1. t.log[i] = s.log[i] /\ \A j \in 1 .. (i - 1) : t.log[j] = s.log[j]
      BY <1>1
    <2> QED
      BY <1>1, <1>2, <2>1 DEF Stamped, Remembered, HasRow
  <1>4. Stamped(t, k + 1) = Stamp[e.anchor] /\ Stamp[e.anchor] \in Nat
    BY <1>1, <1>2 DEF Stamped
  <1>5. ASSUME NEW i \in 1 .. k, Remembered(t, i) \/ \A b \in t.boots : b < i
        PROVE  Stamped(t, i) <= s.floor
    BY <1>1, <1>3, <1>5 DEF Clocked
  <1>6. ASSUME NEW i \in DOMAIN t.log
        PROVE  /\ Remembered(t, i) \/ (\A b \in t.boots : b < i) => Stamped(t, i) <= t.floor
               /\ \E c \in t.dag : Round[c] = Round[t.log[i].anchor] + 1
    <2>1. CASE i = k + 1
      BY <1>1, <1>4, <2>1
    <2>2. CASE i \in 1 .. k
      <3>1. \E c \in s.dag : Round[c] = Round[s.log[i].anchor] + 1
        BY <1>1, <2>2 DEF Clocked
      <3>2. t.log[i] = s.log[i]
        BY <1>1, <2>2
      <3>3. Remembered(t, i) \/ (\A b \in t.boots : b < i) => Stamped(t, i) <= t.floor
        BY <1>2, <1>3, <1>4, <1>5, <2>2
      <3> QED
        BY <3>1, <3>2, <3>3
    <2> QED
      BY <1>1, <2>1, <2>2
  <1>7. ASSUME NEW i \in DOMAIN t.log, NEW j \in DOMAIN t.log, i # j
        PROVE  t.log[i].anchor # t.log[j].anchor
    <2>1. \A x \in DOMAIN t.log : x = k + 1 \/ (x \in DOMAIN s.log /\ t.log[x] = s.log[x])
      BY <1>1
    <2> QED
      BY <1>1, <1>7, <2>1 DEF Clocked
  <1>8. ASSUME NEW i \in DOMAIN t.log, NEW j \in DOMAIN t.log, i < j,
               Remembered(t, i) \/ \A b \in t.boots : b < i \/ j <= b
        PROVE  Stamped(t, i) < Stamped(t, j)
    <2>1. i \in 1 .. k
      BY <1>1, <1>8
    <2>2. CASE j = k + 1
      <3>1. \A b \in t.boots : b \in 0 .. k
        BY <1>2
      <3>2. Remembered(t, i) \/ \A b \in t.boots : b < i
        BY <1>1, <1>8, <2>2, <3>1
      <3>3. Stamped(t, i) <= s.floor
        BY <1>5, <2>1, <3>2
      <3> QED
        BY <1>2, <1>3, <1>4, <2>1, <2>2, <3>3
    <2>3. CASE j \in 1 .. k
      <3>1. Stamped(s, i) < Stamped(s, j)
        BY <1>1, <1>3, <1>8, <2>1, <2>3 DEF Clocked
      <3> QED
        BY <1>3, <2>1, <2>3, <3>1
    <2> QED
      BY <1>1, <2>2, <2>3
  <1>9. t.boots \subseteq 0 .. Len(t.log)
    BY <1>1, <1>2
  <1> QED
    BY <1>6, <1>7, <1>8, <1>9 DEF Clocked

LEMMA QuorumIsPositive == Quorum \in Nat /\ Quorum >= 1
  BY CommitteeIsKnown DEF Quorum, ComputeQuorum

\* An anchor that can be committed is of the round before the vote, in which
\* somebody voted.
LEMMA CommittableHasVotes ==
    ASSUME NEW s \in States, NEW v \in Nat, NEW a \in Committable(s, v)
    PROVE  /\ a \in s.dag /\ a \in Cert /\ Round[a] + 1 = v /\ Stamp[a] > s.floor
           /\ \E c \in s.dag : Round[c] = v
  <1> DEFINE votes == {x \in s.dag : Round[x] = v /\ a \in Parents[x]}
  <1>1. a \in s.dag /\ Round[a] = v - 1 /\ Stamp[a] > s.floor /\ Cardinality(votes) >= Quorum
    BY DEF Committable, Supported
  <1>2. a \in Cert /\ Round[a] \in Nat
    BY <1>1, GraphIsTyped DEF States
  <1>3. votes # {}
    <2> HIDE DEF votes
    <2> QED
      BY <1>1, QuorumIsPositive, FS_EmptySet
  <1> QED
    BY <1>1, <1>2, <1>3

----------------------------------------------------------------------------
(* What a check of an anchor does to a node's state.                       *)

\* A state of which a check at round v keeps all that is sound.
Ready(s, v) == Marked(s) /\ Clocked(s) /\ \E base \in Nat : Based(s, base) /\ base < v

LEMMA CommitKeeps ==
    ASSUME NEW s \in States, NEW v \in Nat, NEW a \in Cert, NEW applies \in BOOLEAN,
           NEW walk, walk \subseteq s.dag \ s.ordered, Stamp[a] > s.floor,
           Round[a] + 1 = v, \E c \in s.dag : Round[c] = v
    PROVE  LET t == Commit(s, v, a, walk, applies)
           IN  t \in States /\ Same(s, t) /\ (Ready(s, v) => Sound(t))
  <1> DEFINE e == [anchor |-> a, certs |-> walk, index |-> s.index]
             pending == IF s.pending.round = v THEN Nothing ELSE s.pending
             m == [s EXCEPT !.ordered = s.ordered \cup walk, !.pending = pending]
             t == [m EXCEPT !.last = v, !.floor = Stamp[a], !.log = Append(s.log, e)]
             r == Commit(s, v, a, walk, applies)
  <1>1. walk \subseteq Cert /\ s.dag \subseteq Cert /\ s.log \in Seq(Entries) /\ s.index \in Nat
    BY DEF States
  <1>2. e \in Entries /\ e.anchor = a /\ e.certs = walk /\ s.floor \in Nat /\ s.last \in Nat
    BY <1>1 DEF Entries, States
  <1>3. pending \in [round : Nat, missing : SUBSET Cert]
    BY DEF States, Nothing
  <1>4. /\ m \in States /\ Same(s, m) /\ m.ordered = s.ordered \cup walk
        /\ m.log = s.log /\ m.floor = s.floor /\ m.last = s.last /\ m.pending = pending
    BY <1>1, <1>3 DEF States, Same
  <1>5. Append(s.log, e) \in Seq(Entries)
    BY <1>1, <1>2
  <1>6. Stamp[a] \in Nat
    BY GraphIsTyped
  <1>8. r = t \/ r = m
    <2>1. r = [m EXCEPT !.last = v, !.floor = Stamp[a], !.log = Append(m.log, e)] \/ r = m
      BY DEF Commit
    <2> HIDE DEF m, r
    <2> QED
      BY <1>4, <2>1
  <1> DEFINE l == Append(s.log, e)
  <1> HIDE DEF m, pending, l
  <1>7. /\ t \in States /\ Same(s, t) /\ t.ordered = s.ordered \cup walk
        /\ t.log = l /\ t.floor = Stamp[a] /\ t.last = v /\ t.pending = pending
    <2>1. l \in Seq(Entries)
      BY <1>5 DEF l
    <2>2. t = [m EXCEPT !.last = v, !.floor = Stamp[a], !.log = l]
      BY DEF l
    <2> HIDE DEF t, e
    <2>3. t \in States
      BY <1>4, <1>6, <2>1, <2>2 DEF States
    <2>4. /\ t.dag = m.dag /\ t.round = m.round /\ t.heard = m.heard
          /\ t.storing = m.storing /\ t.upto = m.upto /\ t.driving = m.driving
          /\ t.jumped = m.jumped /\ t.boots = m.boots
          /\ t.ordered = m.ordered /\ t.pending = m.pending
          /\ t.log = l /\ t.floor = Stamp[a] /\ t.last = v
      BY <1>4, <2>2 DEF States
    <2> QED
      BY <1>4, <2>3, <2>4 DEF Same
  <1>9. pending # Nothing => s.pending # Nothing /\ pending.round = s.pending.round
    BY DEF pending
  <1> HIDE DEF t, e
  <1> USE DEF l
  <1>10. ASSUME Ready(s, v)
         PROVE  Sound(m)
    <2>1. PICK base \in Nat : Based(s, base) /\ base < v
      BY <1>10 DEF Ready
    <2>2. Marked(m)
      BY <1>4, <1>10 DEF Ready, Marked, Same
    <2>3. \A i : Remembered(m, i) <=> Remembered(s, i)
      BY <1>4 DEF Remembered, HasRow
    <2>4. Clocked(m)
      BY <1>4, <1>10, <2>3 DEF Ready, Clocked, Same, Stamped
    <2>5. Based(m, base)
      BY <1>4, <1>9, <2>1 DEF Based, Stamped
    <2> QED
      BY <2>2, <2>4, <2>5 DEF Sound
  <1>11. ASSUME Ready(s, v)
         PROVE  Sound(t)
    <2>1. PICK base \in Nat : Based(s, base) /\ base < v
      BY <1>11 DEF Ready
    <2>2. Marked(t)
      <3>1. e.certs \cap s.ordered = {}
        BY <1>2
      <3>2. LET both == Append(s.log, e)
            IN  /\ \A i \in DOMAIN both : both[i].certs \subseteq s.ordered \cup e.certs
                /\ \A i, j \in DOMAIN both : i # j => both[i].certs \cap both[j].certs = {}
        BY <1>1, <1>2, <1>11, <3>1, AppendSound DEF Ready, Marked
      <3> QED
        BY <1>2, <1>7, <1>11, <3>2 DEF Ready, Marked, Same
    <2>3. ASSUME NEW i \in DOMAIN s.log
          PROVE  s.log[i] \in Entries /\ s.log[i].anchor # a
      <3>1. s.log[i] \in Entries
        BY <1>1
      <3>2. Round[s.log[i].anchor] \in Nat /\ Stamp[s.log[i].anchor] \in Nat
        BY <3>1, GraphIsTyped DEF Entries
      <3>3. Round[s.log[i].anchor] + 1 <= base \/ Stamp[s.log[i].anchor] <= s.floor
        BY <2>1 DEF Based, Stamped
      <3> QED
        BY <1>2, <1>6, <2>1, <3>1, <3>2, <3>3
    <2>4. Clocked(t)
      BY <1>2, <1>7, <1>11, <2>3, AppendClocked DEF Ready, Same
    <2>5. ASSUME NEW i \in DOMAIN t.log
          PROVE  Round[t.log[i].anchor] + 1 <= base \/ Stamped(t, i) <= t.floor
      <3>1. (i \in DOMAIN s.log /\ t.log[i] = s.log[i]) \/ t.log[i] = e
        BY <1>1, <1>7
      <3>2. CASE t.log[i] = e
        BY <1>2, <1>6, <1>7, <3>2 DEF Stamped
      <3>3. CASE i \in DOMAIN s.log /\ t.log[i] = s.log[i]
        <4>1. Round[s.log[i].anchor] + 1 <= base \/ Stamp[s.log[i].anchor] <= s.floor
          BY <2>1, <3>3 DEF Based, Stamped
        <4>2. Stamp[s.log[i].anchor] \in Nat
          BY <2>3, <3>3, GraphIsTyped DEF Entries
        <4> QED
          BY <1>2, <1>6, <1>7, <3>3, <4>1, <4>2 DEF Stamped
      <3> QED
        BY <3>1, <3>2, <3>3
    <2>6. Based(t, base)
      BY <1>7, <1>9, <2>1, <2>5 DEF Based
    <2> QED
      BY <2>2, <2>4, <2>6 DEF Sound
  <1> QED
    BY <1>4, <1>7, <1>8, <1>10, <1>11

LEMMA CheckKeeps ==
    ASSUME NEW s \in States, NEW v \in Nat, NEW applies \in BOOLEAN
    PROVE  LET t == Check(s, v, applies)
           IN  t \in States /\ Same(s, t) /\ (Ready(s, v) => Sound(t))
  <1>1. CASE Committable(s, v) = {}
    BY <1>1 DEF Check, Same, Ready, Sound
  <1>2. CASE Committable(s, v) # {}
    <2> DEFINE a == CHOOSE a \in Committable(s, v) : TRUE
               walk == Walk(s, a)
               missing == (UNION {Parents[c] : c \in walk}) \ s.dag
               i == s.index + 1
               ticked == [s EXCEPT !.index = i]
    <2>1. /\ a \in Cert /\ Stamp[a] > s.floor /\ Round[a] + 1 = v
          /\ \E c \in s.dag : Round[c] = v
      BY <1>2, CommittableHasVotes
    <2>2. walk \subseteq s.dag \ s.ordered
      <3> HIDE DEF a
      <3> QED
        BY <2>1, WalkIsNew
    <2>3. missing \subseteq Cert
      <3> HIDE DEF walk
      <3> QED
        BY <2>2, GraphIsTyped DEF States
    <2>4. /\ Check(s, v, applies) = [ticked EXCEPT !.pending = [round |-> v, missing |-> missing]]
          \/ Check(s, v, applies) = Commit(ticked, v, a, walk, applies)
      BY <1>2 DEF Check, a, walk, missing
    <2> HIDE DEF a, walk, missing
    <2>5. i \in Nat
      BY DEF States
    <2> HIDE DEF i
    <2>6. /\ ticked \in States /\ Same(s, ticked) /\ ticked.ordered = s.ordered
          /\ ticked.floor = s.floor /\ ticked.log = s.log /\ ticked.last = s.last
          /\ ticked.pending = s.pending
      BY <2>5 DEF States, Same
    <2> HIDE DEF ticked
    <2>7. Ready(s, v) => Ready(ticked, v)
      <3>1. \A j : Remembered(ticked, j) <=> Remembered(s, j)
        BY <2>6 DEF Remembered, HasRow
      <3>2. Marked(s) => Marked(ticked)
        BY <2>6 DEF Marked, Same
      <3>3. Clocked(s) => Clocked(ticked)
        BY <2>6, <3>1 DEF Clocked, Same, Stamped
      <3>4. \A base \in Nat : Based(s, base) => Based(ticked, base)
        BY <2>6 DEF Based, Stamped
      <3> QED
        BY <3>2, <3>3, <3>4 DEF Ready
    <2> DEFINE parked == [round |-> v, missing |-> missing]
               t == [ticked EXCEPT !.pending = parked]
    <2>8. parked \in [round : Nat, missing : SUBSET Cert] /\ parked.round = v
      BY <2>3
    <2> HIDE DEF parked
    <2>9. /\ t \in States /\ Same(ticked, t) /\ t.log = ticked.log /\ t.last = ticked.last
          /\ t.ordered = ticked.ordered /\ t.floor = ticked.floor /\ t.pending = parked
      BY <2>6, <2>8 DEF States, Same
    <2> HIDE DEF t
    <2>10. Ready(ticked, v) => Sound(t)
      <3>1. \A j : Remembered(t, j) <=> Remembered(ticked, j)
        BY <2>9 DEF Remembered, HasRow
      <3>2. Marked(ticked) => Marked(t)
        BY <2>9 DEF Marked, Same
      <3>3. Clocked(ticked) => Clocked(t)
        BY <2>9, <3>1 DEF Clocked, Same, Stamped
      <3>4. \A base \in Nat : Based(ticked, base) /\ base < v => Based(t, base)
        BY <2>8, <2>9 DEF Based, Stamped
      <3> QED
        BY <3>2, <3>3, <3>4 DEF Ready, Sound
    <2>11. walk \subseteq ticked.dag \ ticked.ordered
      BY <2>2, <2>6 DEF Same
    <2>12. LET u == Commit(ticked, v, a, walk, applies)
           IN  u \in States /\ Same(ticked, u) /\ (Ready(ticked, v) => Sound(u))
      BY <2>1, <2>6, <2>11, CommitKeeps DEF Same
    <2>13. CASE Check(s, v, applies) = t
      BY <2>6, <2>7, <2>9, <2>10, <2>13 DEF Same
    <2>14. CASE Check(s, v, applies) = Commit(ticked, v, a, walk, applies)
      <3> DEFINE u == Commit(ticked, v, a, walk, applies)
      <3>1. u \in States /\ Same(ticked, u) /\ (Ready(ticked, v) => Sound(u))
        BY <2>12
      <3> HIDE DEF u
      <3>2. Check(s, v, applies) = u
        BY <2>14 DEF u
      <3> QED
        BY <2>6, <2>7, <3>1, <3>2 DEF Same
    <2> QED
      BY <2>4, <2>13, <2>14 DEF t, parked
  <1> QED
    BY <1>1, <1>2

----------------------------------------------------------------------------
(* What a handler does to a node's state.                                  *)

\* A set of numbers with an upper bound has a largest one.
LEMMA LargestNumber ==
    ASSUME NEW S \in SUBSET Nat, S # {}, NEW k \in Nat, \A x \in S : x <= k
    PROVE  \E x \in S : \A y \in S : y <= x
  <1> DEFINE Bounds == {b \in Nat : \A x \in S : x <= b}
  <1>1. PICK b \in Bounds : \A c \in Bounds : ~(<<c, b>> \in OpToRel(<, Nat))
    <2>1. Bounds \subseteq Nat /\ Bounds # {}
      OBVIOUS
    <2> HIDE DEF Bounds
    <2> QED
      BY <2>1, NatLessThanWellFounded, WFMin
  <1>2. \A c \in Bounds : ~(c < b)
    BY <1>1 DEF OpToRel
  <1>3. ASSUME b \notin S
        PROVE  FALSE
    <2>1. \A x \in S : x <= b /\ x # b /\ x \in Nat
      BY <1>3
    <2>2. b \in Nat /\ b # 0
      <3>1. PICK x \in S : x <= b /\ x # b /\ x \in Nat
        BY <2>1
      <3> QED
        BY <3>1
    <2>3. b - 1 \in Nat /\ b - 1 < b /\ \A x \in S : x <= b - 1
      BY <2>1, <2>2
    <2> QED
      BY <1>2, <2>3
  <1> QED
    BY <1>3

\* The latest round of a store, 0 if it is empty.
LEMMA LatestRoundIsReached ==
    ASSUME NEW D \in SUBSET Cert
    PROVE  LatestRound(D) \in Nat /\ \A c \in D : Round[c] <= LatestRound(D)
  <1> DEFINE S == {0} \cup {Round[c] : c \in D}
  <1>1. S \in SUBSET Nat /\ S # {}
    BY GraphIsTyped
  <1>2. PICK last \in Cert : \A d \in Cert : Round[d] <= Round[last]
    BY ThereIsALastRound
  <1>3. Round[last] \in Nat /\ \A x \in S : x <= Round[last]
    BY <1>2, GraphIsTyped
  <1>4. \E r \in S : \A y \in S : y <= r
    <2> HIDE DEF S
    <2> QED
      BY <1>1, <1>3, LargestNumber
  <1>5. \E r \in S : \A c \in D : Round[c] <= r
    BY <1>4
  <1> QED
    BY <1>1, <1>5 DEF LatestRound

\* A check past the frontier is past the base, and so is a parked commit.
LEMMA PastTheFrontier ==
    ASSUME NEW s \in States, NEW v \in Nat, Sound(s), v > s.last
    PROVE  Ready(s, v)
  <1>1. PICK base \in Nat : Based(s, base)
    BY DEF Sound
  <1>2. base < v
    BY <1>1 DEF Based, States
  <1> QED
    BY <1>1, <1>2 DEF Sound, Ready

LEMMA RoundCompleteKeeps ==
    ASSUME NEW s \in States, NEW v \in Nat, NEW applies \in BOOLEAN
    PROVE  LET t == RoundComplete(s, v, applies)
           IN  t \in States /\ Same(s, t) /\ (Sound(s) => Sound(t))
  BY CheckKeeps, PastTheFrontier DEF RoundComplete, Same

LEMMA CertSavedKeeps ==
    ASSUME NEW s \in States, NEW c \in Cert, NEW applies \in BOOLEAN
    PROVE  LET t == CertSaved(s, c, applies)
           IN  t \in States /\ Same(s, t) /\ (Sound(s) => Sound(t))
  <1> DEFINE missing == s.pending.missing \ {c}
             woken == [s EXCEPT !.pending = Nothing]
             less == [s EXCEPT !.pending.missing = missing]
             v == s.pending.round
  <1>1. s.pending \in [round : Nat, missing : SUBSET Cert] /\ v \in Nat
    BY DEF States
  <1>2. [s.pending EXCEPT !.missing = missing] \in [round : Nat, missing : SUBSET Cert]
    BY <1>1
  <1>3. less \in States /\ Same(s, less) /\ (s.pending # Nothing => Spares(s, less))
    BY <1>1, <1>2 DEF States, Same, Spares
  <1>4. /\ woken \in States /\ Same(s, woken) /\ woken.log = s.log /\ woken.last = s.last
        /\ woken.ordered = s.ordered /\ woken.floor = s.floor /\ woken.pending = Nothing
    BY DEF States, Same, Nothing
  <1>5. \/ CertSaved(s, c, applies) = s
        \/ CertSaved(s, c, applies) = less /\ s.pending # Nothing
        \/ CertSaved(s, c, applies) = Check(woken, v, applies) /\ s.pending # Nothing
    BY DEF CertSaved, Nothing
  <1> HIDE DEF woken, less, v
  <1>6. ASSUME Sound(s), s.pending # Nothing
        PROVE  Ready(woken, v)
    <2>1. PICK base \in Nat : Based(s, base)
      BY <1>6 DEF Sound
    <2>2. base < v
      BY <1>1, <1>6, <2>1 DEF Based, v
    <2>3. \A j : Remembered(woken, j) <=> Remembered(s, j)
      BY <1>4 DEF Remembered, HasRow
    <2>4. Marked(woken)
      BY <1>4, <1>6 DEF Sound, Marked, Same
    <2>5. Clocked(woken)
      BY <1>4, <1>6, <2>3 DEF Sound, Clocked, Same, Stamped
    <2>6. Based(woken, base)
      BY <1>4, <2>1 DEF Based, Stamped
    <2> QED
      BY <2>2, <2>4, <2>5, <2>6 DEF Ready
  <1>7. LET t == Check(woken, v, applies)
        IN  t \in States /\ Same(woken, t) /\ (Ready(woken, v) => Sound(t))
    BY <1>1, <1>4, CheckKeeps
  <1>8. CASE CertSaved(s, c, applies) = s
    BY <1>8 DEF Same
  <1>9. CASE CertSaved(s, c, applies) = less /\ s.pending # Nothing
    BY <1>3, <1>9, SparesSound
  <1>10. CASE CertSaved(s, c, applies) = Check(woken, v, applies) /\ s.pending # Nothing
    <2> DEFINE t == Check(woken, v, applies)
    <2> HIDE DEF t
    <2>1. CertSaved(s, c, applies) = t
      BY <1>10 DEF t
    <2>2. t \in States /\ Same(woken, t) /\ (Ready(woken, v) => Sound(t))
      BY <1>7 DEF t
    <2> QED
      BY <1>4, <1>6, <1>10, <2>1, <2>2 DEF Same
  <1> QED
    BY <1>5, <1>8, <1>9, <1>10

\* What stays when the certificates of a round are counted.
Remains(s, t) == /\ t.dag = s.dag /\ t.storing = s.storing /\ t.upto = s.upto
                 /\ t.driving = s.driving /\ t.jumped = s.jumped

LEMMA HeardKeeps ==
    ASSUME NEW s \in States, NEW certs, certs \subseteq Cert, NEW applies \in BOOLEAN
    PROVE  LET t == Heard(s, certs, applies)
           IN  t \in States /\ Remains(s, t) /\ (Sound(s) => Sound(t))
  <1> DEFINE more == [s EXCEPT !.heard = certs]
             done == RoundComplete(s, s.round, applies)
             r == done.round + 1
             next == [done EXCEPT !.round = r, !.heard = {}]
  <1>1. Heard(s, certs, applies) \in {more, next}
    BY DEF Heard
  <1>2. more \in States /\ Remains(s, more) /\ Spares(s, more)
    BY DEF States, Remains, Spares
  <1>3. done \in States /\ Same(s, done) /\ (Sound(s) => Sound(done))
    BY RoundCompleteKeeps DEF States
  <1> HIDE DEF done
  <1>4. r \in Nat
    <2>1. done.round \in Nat
      BY <1>3 DEF States
    <2> QED
      BY <2>1
  <1> HIDE DEF r
  <1>5. next \in States /\ Remains(done, next) /\ Spares(done, next)
    BY <1>3, <1>4 DEF States, Remains, Spares
  <1> HIDE DEF more, next
  <1>6. Sound(s) => Sound(more) /\ Sound(next)
    BY <1>2, <1>3, <1>5, SparesSound
  <1> QED
    BY <1>1, <1>2, <1>3, <1>5, <1>6 DEF Remains, Same

LEMMA NotifyKeeps ==
    ASSUME NEW s \in States, NEW c \in Cert, NEW applies \in BOOLEAN
    PROVE  LET t == Notify(s, c, applies)
           IN  t \in States /\ Remains(s, t) /\ (Sound(s) => Sound(t))
  <1> DEFINE certs == s.heard \cup {c}
             heard == Heard(s, certs, applies)
             v == VoteRound(c)
             late == RoundComplete(s, v, applies)
  <1>1. Notify(s, c, applies) \in {s, heard, late}
    BY DEF Notify, HeardCert
  <1>2. certs \subseteq Cert /\ v \in Nat
    BY GraphIsTyped DEF VoteRound, States
  <1> HIDE DEF certs, v
  <1>3. heard \in States /\ Remains(s, heard) /\ (Sound(s) => Sound(heard))
    BY <1>2, HeardKeeps
  <1>4. late \in States /\ Same(s, late) /\ (Sound(s) => Sound(late))
    BY <1>2, RoundCompleteKeeps
  <1> HIDE DEF heard, late
  <1> QED
    BY <1>1, <1>3, <1>4 DEF Remains, Same

----------------------------------------------------------------------------
(* A restart.                                                              *)

\* The floor read back is the stamp of a row no row before which is of a later
\* round, so it is not below the stamp of any that is remembered.
LEMMA FloorIsRemembered ==
    ASSUME NEW s \in States, Clocked(s)
    PROVE  /\ PersistedFloor(s) \in Nat
           /\ \A i \in DOMAIN s.log : Remembered(s, i) => Stamped(s, i) <= PersistedFloor(s)
  <1> DEFINE rows == {i \in DOMAIN s.log : HasRow(s, i)}
             Later(i) == \A j \in rows : Round[s.log[j].anchor] <= Round[s.log[i].anchor]
             m == CHOOSE i \in rows : Later(i)
  <1>1. /\ DOMAIN s.log = 1 .. Len(s.log) /\ Len(s.log) \in Nat
        /\ \A i \in DOMAIN s.log : s.log[i] \in Entries
    <2>1. s.log \in Seq(Entries)
      BY DEF States
    <2> QED
      BY <2>1
  <1>2. \A i \in DOMAIN s.log : Stamped(s, i) \in Nat /\ Round[s.log[i].anchor] \in Nat
    BY <1>1, GraphIsTyped DEF Entries, Stamped
  <1>3. PersistedFloor(s) = IF rows = {} THEN 0 ELSE Stamped(s, m)
    BY DEF PersistedFloor, Stamped
  <1>4. CASE rows = {}
    BY <1>3, <1>4 DEF Remembered
  <1>5. CASE rows # {}
    <2> DEFINE S == {Round[s.log[i].anchor] : i \in rows}
    <2>1. S \in SUBSET Nat /\ S # {}
      BY <1>2, <1>5
    <2>2. PICK top \in Cert : \A d \in Cert : Round[d] <= Round[top]
      BY ThereIsALastRound
    <2>3. Round[top] \in Nat /\ \A x \in S : x <= Round[top]
      BY <1>1, <2>2, GraphIsTyped DEF Entries
    <2>4. \E x \in S : \A y \in S : y <= x
      <3> HIDE DEF S
      <3> QED
        BY <2>1, <2>3, LargestNumber
    <2>5. \E i \in rows : Later(i)
      BY <2>4
    <2>6. m \in rows /\ Later(m)
      <3> HIDE DEF Later
      <3> QED
        BY <2>5
    <2> HIDE DEF m
    <2>7. ASSUME NEW i \in DOMAIN s.log, Remembered(s, i)
          PROVE  Stamped(s, i) <= Stamped(s, m)
      <3>1. i \in rows
        BY <2>7 DEF Remembered
      <3>2. i \in Nat /\ m \in Nat /\ i >= 1 /\ m >= 1
        BY <1>1, <2>6
      <3>3. CASE m = i
        BY <1>2, <2>6, <3>3
      <3>4. CASE m < i
        <4>1. m \in 1 .. (i - 1) /\ HasRow(s, m)
          BY <2>6, <3>2, <3>4
        <4>2. Round[s.log[m].anchor] < Round[s.log[i].anchor]
          BY <2>7, <4>1 DEF Remembered
        <4>3. Round[s.log[i].anchor] <= Round[s.log[m].anchor]
          BY <2>6, <3>1
        <4> QED
          BY <1>2, <2>6, <4>2, <4>3
      <3>5. CASE i < m
        <4>1. Stamped(s, i) < Stamped(s, m)
          BY <2>6, <2>7, <3>5 DEF Clocked
        <4> QED
          BY <1>2, <2>6, <4>1
      <3> QED
        BY <3>2, <3>3, <3>4, <3>5
    <2> QED
      BY <1>2, <1>3, <1>5, <2>6, <2>7
  <1> QED
    BY <1>4, <1>5

LEMMA RestartKeeps ==
    ASSUME NEW s \in States, Sound(s)
    PROVE  LET t == Restarted(s)
           IN  t \in States /\ Sound(t)
  <1> DEFINE latest == LatestRound(s.dag)
             r == latest + 1
             f == PersistedFloor(s)
             k == Len(s.log)
             boots == s.boots \cup {k}
             u == [s EXCEPT !.round = r, !.heard = {}, !.pending = Nothing, !.upto = 0]
             w == [u EXCEPT !.storing = <<>>, !.driving = 0, !.ordered = s.dag, !.last = latest]
             t == [w EXCEPT !.floor = f, !.boots = boots]
  <1>1. Restarted(s) = t
    BY DEF Restarted, From
  <1>2. /\ k \in Nat /\ DOMAIN s.log = 1 .. k
        /\ \A i \in DOMAIN s.log : s.log[i] \in Entries
    <2>1. s.log \in Seq(Entries)
      BY DEF States
    <2> QED
      BY <2>1
  <1>3. s.dag \subseteq Cert
    BY DEF States
  <1>4. latest \in Nat /\ r \in Nat /\ \A c \in s.dag : Round[c] <= latest
    BY <1>3, LatestRoundIsReached
  <1>5. f \in Nat /\ \A i \in DOMAIN s.log : Remembered(s, i) => Stamped(s, i) <= f
    BY FloorIsRemembered DEF Sound
  <1>6. boots \subseteq 0 .. k /\ boots \in SUBSET Nat /\ s.boots \subseteq boots /\ k \in boots
    BY <1>2 DEF Sound, Clocked
  <1> HIDE DEF latest, r, f, k, boots
  <1>7. u \in States /\ u.dag = s.dag /\ u.log = s.log /\ u.pending = Nothing
    BY <1>4 DEF States, Nothing
  <1> HIDE DEF u
  <1>8. /\ w \in States /\ w.dag = s.dag /\ w.log = s.log /\ w.pending = Nothing
        /\ w.ordered = s.dag /\ w.last = latest
    <2>1. <<>> \in Seq(Cert)
      OBVIOUS
    <2> QED
      BY <1>3, <1>4, <1>7, <2>1 DEF States
  <1> HIDE DEF w
  <1>9. /\ t \in States /\ t.dag = s.dag /\ t.log = s.log /\ t.pending = Nothing
        /\ t.ordered = s.dag /\ t.last = latest /\ t.floor = f /\ t.boots = boots
    BY <1>5, <1>6, <1>8 DEF States
  <1> HIDE DEF t
  <1>10. Marked(t)
    BY <1>9 DEF Sound, Marked
  <1>11. \A i : Remembered(t, i) <=> Remembered(s, i)
    BY <1>9 DEF Remembered, HasRow
  <1>12. \A i : Stamped(t, i) = Stamped(s, i)
    BY <1>9 DEF Stamped
  <1>13. Clocked(t)
    <2>1. ASSUME NEW i \in DOMAIN t.log, Remembered(t, i) \/ (\A b \in t.boots : b < i)
          PROVE  Stamped(t, i) <= t.floor
      <3>1. i <= k /\ i \in Nat
        BY <1>2, <1>9
      <3>2. ~(k < i)
        BY <1>2, <3>1
      <3> QED
        BY <1>5, <1>6, <1>9, <1>11, <1>12, <2>1, <3>2
    <2>2. \A i \in DOMAIN t.log : \E c \in t.dag : Round[c] = Round[t.log[i].anchor] + 1
      BY <1>9 DEF Sound, Clocked
    <2>3. \A i, j \in DOMAIN t.log : i # j => t.log[i].anchor # t.log[j].anchor
      BY <1>9 DEF Sound, Clocked
    <2>4. \A i, j \in DOMAIN t.log :
              i < j /\ (Remembered(t, i) \/ \A b \in t.boots : b < i \/ j <= b)
              => Stamped(t, i) < Stamped(t, j)
      BY <1>6, <1>9, <1>11, <1>12 DEF Sound, Clocked
    <2>5. t.boots \subseteq 0 .. Len(t.log)
      BY <1>6, <1>9 DEF k
    <2> QED
      BY <2>1, <2>2, <2>3, <2>4, <2>5 DEF Clocked
  <1>14. Based(t, latest)
    <2>1. ASSUME NEW i \in DOMAIN t.log
          PROVE  Round[t.log[i].anchor] + 1 <= latest
      <3>1. PICK c \in s.dag : Round[c] = Round[s.log[i].anchor] + 1
        BY <1>9 DEF Sound, Clocked
      <3> QED
        BY <1>4, <1>9, <3>1
    <2> QED
      BY <1>4, <1>9, <2>1 DEF Based
  <1> QED
    BY <1>1, <1>4, <1>9, <1>10, <1>13, <1>14 DEF Sound

----------------------------------------------------------------------------
(* The invariant: types, and every node's log is sound.                    *)

SoundEverywhere == \A n \in Node : Sound(bs[n])

LEMMA FreshIsSound == Fresh \in States /\ Sound(Fresh)
  <1>1. Fresh \in States /\ Fresh.log = <<>> /\ Fresh.last = 0 /\ Fresh.pending = Nothing
        /\ Fresh.boots = {} /\ Fresh.ordered = {}
    BY DEF Fresh, States, Nothing
  <1>2. Marked(Fresh) /\ Clocked(Fresh) /\ Based(Fresh, 0)
    BY <1>1 DEF Marked, Clocked, Based
  <1> QED
    BY <1>1, <1>2 DEF Sound

LEMMA SoundInit ==
    ASSUME Init
    PROVE  TypeOK /\ SoundEverywhere
  BY FreshIsSound DEF Init, TypeOK, SoundEverywhere

LEMMA BecomesKeeps ==
    ASSUME TypeOK, SoundEverywhere, NEW n \in Node, NEW s, s \in States, Sound(s),
           bs' = [bs EXCEPT ![n] = s]
    PROVE  TypeOK' /\ SoundEverywhere'
  BY DEF TypeOK, SoundEverywhere

\* The steps that leave the ordering alone.
LEMMA SparesKeeps ==
    ASSUME TypeOK, SoundEverywhere, NEW n \in Node, NEW t, t \in States, Spares(bs[n], t),
           bs' = [bs EXCEPT ![n] = t]
    PROVE  TypeOK' /\ SoundEverywhere'
  <1>1. bs[n] \in States /\ Sound(bs[n])
    BY DEF TypeOK, SoundEverywhere
  <1>2. Sound(t)
    BY <1>1, SparesSound
  <1> QED
    BY <1>2, BecomesKeeps

\* A certificate that is stored, before anything else is done about it.
Stored(s, c) == [s EXCEPT !.dag = @ \cup {c}, !.storing = <<c>> \o @]

LEMMA StoredKeeps ==
    ASSUME NEW s \in States, NEW c \in Cert
    PROVE  LET t == Stored(s, c)
           IN  /\ t \in States /\ Spares(s, t) /\ t.dag = s.dag \cup {c}
               /\ t.storing = <<c>> \o s.storing /\ t.jumped = s.jumped
               /\ t.round = s.round /\ t.heard = s.heard /\ t.pending = s.pending
               /\ t.upto = s.upto /\ t.driving = s.driving /\ t.index = s.index
  <1> DEFINE stack == <<c>> \o s.storing
             t == [s EXCEPT !.dag = s.dag \cup {c}, !.storing = stack]
  <1>1. stack \in Seq(Cert)
    BY DEF States
  <1> HIDE DEF stack
  <1>2. /\ t \in States /\ Spares(s, t) /\ t.dag = s.dag \cup {c}
        /\ t.storing = stack /\ t.jumped = s.jumped
        /\ t.round = s.round /\ t.heard = s.heard /\ t.pending = s.pending
        /\ t.upto = s.upto /\ t.driving = s.driving /\ t.index = s.index
    BY <1>1 DEF States, Spares
  <1> QED
    BY <1>2 DEF Stored, stack

\* What a node is left with when Narwhal has moved its round forward.
Ahead(s, r) ==
    [s EXCEPT !.round = r, !.heard = {},
              !.jumped = @ \cup UNION {InReach(s, v) : v \in s.round .. (r - 1)}]

LEMMA AheadKeeps ==
    ASSUME NEW s \in States, NEW r \in Nat
    PROVE  /\ Ahead(s, r) \in States /\ Spares(s, Ahead(s, r))
           /\ Ahead(s, r).dag = s.dag /\ Ahead(s, r).storing = s.storing
           /\ Ahead(s, r).round = r /\ Ahead(s, r).heard = {} /\ Ahead(s, r).pending = s.pending
           /\ Ahead(s, r).upto = s.upto /\ Ahead(s, r).driving = s.driving
           /\ Ahead(s, r).jumped = s.jumped \cup UNION {InReach(s, v) : v \in s.round .. (r - 1)}
  <1> DEFINE jumped == s.jumped \cup UNION {InReach(s, v) : v \in s.round .. (r - 1)}
             t == [s EXCEPT !.round = r, !.heard = {}, !.jumped = jumped]
  <1>1. jumped \subseteq Cert
    <2>1. \A v : InReach(s, v) \subseteq Cert
      BY DEF InReach, Supported, States
    <2> QED
      BY <2>1 DEF States
  <1> HIDE DEF jumped
  <1>2. /\ t \in States /\ Spares(s, t) /\ t.dag = s.dag /\ t.storing = s.storing
        /\ t.round = r /\ t.heard = {} /\ t.pending = s.pending
        /\ t.upto = s.upto /\ t.driving = s.driving /\ t.jumped = jumped
    BY <1>1 DEF States, Spares
  <1> QED
    BY <1>2 DEF Ahead, jumped

LEMMA SoundNext ==
    ASSUME TypeOK, SoundEverywhere, [Next]_vars
    PROVE  TypeOK' /\ SoundEverywhere'
  <1>1. ASSUME NEW n \in Node
        PROVE  bs[n] \in States /\ Sound(bs[n])
    BY DEF TypeOK, SoundEverywhere
  <1>2. ASSUME NEW n \in Node, NEW c \in Cert, NEW ok \in ApplyOutcomes, Store(n, c, ok)
        PROVE  TypeOK' /\ SoundEverywhere'
    <2> DEFINE s == Stored(bs[n], c)
               t == CertSaved(s, c, ok)
    <2>1. s \in States /\ Sound(s)
      BY <1>1, StoredKeeps, SparesSound
    <2>2. bs' = [bs EXCEPT ![n] = t]
      BY <1>2 DEF Store, Becomes, Stored
    <2> HIDE DEF s
    <2>3. t \in States /\ Sound(t)
      BY <2>1, CertSavedKeeps, OutcomesAreBoolean
    <2> HIDE DEF t
    <2> QED
      BY <2>2, <2>3, BecomesKeeps
  <1>3. ASSUME NEW n \in Node, NEW ok \in ApplyOutcomes, Finish(n, ok)
        PROVE  TypeOK' /\ SoundEverywhere'
    <2> DEFINE s == Notify(bs[n], Head(bs[n].storing), ok)
               t == [s EXCEPT !.storing = Tail(s.storing)]
    <2>1. bs[n].storing \in Seq(Cert) /\ bs[n].storing # <<>>
      BY <1>1, <1>3 DEF States, Finish
    <2>2. Head(bs[n].storing) \in Cert
      BY <2>1
    <2>3. s \in States /\ Sound(s) /\ s.storing = bs[n].storing
      BY <1>1, <2>2, NotifyKeeps, OutcomesAreBoolean DEF Remains
    <2>4. bs' = [bs EXCEPT ![n] = t]
      BY <1>3 DEF Finish, Becomes
    <2> HIDE DEF s
    <2>5. Tail(s.storing) \in Seq(Cert)
      BY <2>1, <2>3
    <2>6. t \in States /\ Spares(s, t)
      BY <2>3, <2>5 DEF States, Spares
    <2> HIDE DEF t
    <2>7. Sound(t)
      BY <2>3, <2>6, SparesSound
    <2> QED
      BY <2>4, <2>6, <2>7, BecomesKeeps
  <1>4. ASSUME NEW n \in Node, NEW ok \in ApplyOutcomes, Reconcile(n, ok)
        PROVE  TypeOK' /\ SoundEverywhere'
    <2> DEFINE certs == {c \in bs[n].dag : Round[c] = bs[n].round}
               t == Heard(bs[n], certs, ok)
    <2>1. certs \subseteq Cert
      BY <1>1 DEF States
    <2>2. bs' = [bs EXCEPT ![n] = t]
      BY <1>4 DEF Reconcile, Becomes
    <2> HIDE DEF certs
    <2>3. t \in States /\ Sound(t)
      BY <1>1, <2>1, HeardKeeps, OutcomesAreBoolean
    <2> HIDE DEF t
    <2> QED
      BY <2>2, <2>3, BecomesKeeps
  <1>5. ASSUME NEW n \in Node, NEW r \in Rounds, FastForward(n, r + 1)
        PROVE  TypeOK' /\ SoundEverywhere'
    <2> DEFINE q == r + 1
               t == Ahead(bs[n], q)
    <2>1. q \in Nat
      BY GraphIsTyped DEF Rounds
    <2> HIDE DEF q
    <2>2. bs' = [bs EXCEPT ![n] = t]
      BY <1>1, <1>5 DEF FastForward, TypeOK, States, Ahead, q
    <2>3. t \in States /\ Spares(bs[n], t)
      BY <1>1, <2>1, AheadKeeps
    <2> HIDE DEF t
    <2> QED
      BY <2>2, <2>3, SparesKeeps
  <1>6. ASSUME NEW n \in Node, NEW held \in Holdings \ {{}}, NEW from \in PullsFrom,
               Pull(n, held, from)
        PROVE  TypeOK' /\ SoundEverywhere'
    <2> DEFINE D == bs[n].dag \cup {c \in held : Round[c] >= from}
               u == LatestRound(held)
               t == [bs[n] EXCEPT !.dag = D, !.upto = u]
    <2>1. held \in SUBSET Cert
      BY DEF Holdings
    <2>2. u \in Nat
      BY <2>1, LatestRoundIsReached
    <2>3. D \in SUBSET Cert /\ bs[n].dag \subseteq D
      BY <1>1, <2>1 DEF States
    <2>4. bs' = [bs EXCEPT ![n] = t]
      BY <1>1, <1>6 DEF Pull, TypeOK
    <2> HIDE DEF u, D
    <2>5. t \in States /\ Spares(bs[n], t)
      BY <1>1, <2>2, <2>3 DEF States, Spares
    <2> HIDE DEF t
    <2> QED
      BY <2>4, <2>5, SparesKeeps
  <1>7. ASSUME NEW n \in Node, StartDrive(n)
        PROVE  TypeOK' /\ SoundEverywhere'
    <2> DEFINE r == bs[n].last + 1
               t == [bs[n] EXCEPT !.driving = r]
    <2>1. r \in Nat
      BY <1>1 DEF States
    <2>2. bs' = [bs EXCEPT ![n] = t]
      BY <1>7 DEF StartDrive
    <2> HIDE DEF r
    <2>3. t \in States /\ Spares(bs[n], t)
      BY <1>1, <2>1 DEF States, Spares
    <2> HIDE DEF t
    <2> QED
      BY <2>2, <2>3, SparesKeeps
  <1>8. ASSUME NEW n \in Node, NEW ok \in ApplyOutcomes, Drive(n, ok)
        PROVE  TypeOK' /\ SoundEverywhere'
    <2> DEFINE r == bs[n].driving
               s == RoundComplete(bs[n], r, ok)
               d == s.driving + 1
               t == [s EXCEPT !.driving = d]
               done == [bs[n] EXCEPT !.upto = 0, !.driving = 0]
    <2>1. r \in Nat
      BY <1>1 DEF States
    <2>2. bs' = [bs EXCEPT ![n] = t] \/ bs' = [bs EXCEPT ![n] = done]
      BY <1>1, <1>8 DEF Drive, Becomes, TypeOK
    <2>3. s \in States /\ Sound(s)
      <3> HIDE DEF r
      <3> QED
        BY <1>1, <2>1, RoundCompleteKeeps, OutcomesAreBoolean
    <2> HIDE DEF s
    <2>4. d \in Nat
      BY <2>3 DEF States
    <2> HIDE DEF d
    <2>5. t \in States /\ Spares(s, t)
      BY <2>3, <2>4 DEF States, Spares
    <2>6. done \in States /\ Spares(bs[n], done)
      BY <1>1 DEF States, Spares
    <2> HIDE DEF t, done
    <2>7. Sound(t)
      BY <2>3, <2>5, SparesSound
    <2> QED
      BY <2>2, <2>5, <2>6, <2>7, BecomesKeeps, SparesKeeps
  <1>9. ASSUME NEW n \in Node, TimerFires(n)
        PROVE  TypeOK' /\ SoundEverywhere'
    <2> DEFINE t == [bs[n] EXCEPT !.pending = Nothing]
    <2>1. bs' = [bs EXCEPT ![n] = t]
      BY <1>9 DEF TimerFires
    <2>2. t \in States /\ Spares(bs[n], t)
      BY <1>1 DEF States, Nothing, Spares
    <2> HIDE DEF t
    <2> QED
      BY <2>1, <2>2, SparesKeeps
  <1>10. ASSUME NEW n \in Node, Restart(n)
         PROVE  TypeOK' /\ SoundEverywhere'
    <2> DEFINE t == Restarted(bs[n])
    <2>1. bs' = [bs EXCEPT ![n] = t]
      BY <1>10 DEF Restart
    <2>2. t \in States /\ Sound(t)
      BY <1>1, RestartKeeps
    <2> HIDE DEF t
    <2> QED
      BY <2>1, <2>2, BecomesKeeps
  <1>11. CASE UNCHANGED vars
    BY <1>11 DEF vars, TypeOK, SoundEverywhere
  <1> QED
    BY <1>2, <1>3, <1>4, <1>5, <1>6, <1>7, <1>8, <1>9, <1>10, <1>11 DEF Next, Save, Flush

\* Types, whatever order certificates come in, and whatever is pulled, fails,
\* times out or restarts in between.
THEOREM TypeCorrect == Spec => []TypeOK
  BY SoundInit, SoundNext, PTL DEF Spec

\* No certificate is handed on twice: _orderedCertHashes holds all that was
\* handed on, and the walk takes nothing it holds.
THEOREM NothingOrderedTwice == Spec => []OrderedOnce
  <1>1. SoundEverywhere => OrderedOnce
    BY DEF SoundEverywhere, Sound, Marked, OrderedOnce, Log
  <1> QED
    BY <1>1, SoundInit, SoundNext, PTL DEF Spec

\* No anchor is committed twice, although the frontier can go back and a
\* restart can lose the floor: what was committed since the restart is not
\* later than the floor, and what was committed before it is below the round
\* the restart put the frontier at, and so below all that is checked again.
THEOREM CommitsAnAnchorOnce == Spec => []EachAnchorOnce
  <1>1. SoundEverywhere => EachAnchorOnce
    BY DEF SoundEverywhere, Sound, Clocked, EachAnchorOnce, Log
  <1> QED
    BY <1>1, SoundInit, SoundNext, PTL DEF Spec

\* Each anchor is later than all that were committed before it, with pulls that
\* leave gaps, parked commits retried after later ones, failing applications
\* and restarts, but for what a restart in between forgot.
THEOREM ClockAdvances == Spec => []TimeAdvances
  <1>1. SoundEverywhere => TimeAdvances
    BY DEF SoundEverywhere, Sound, Clocked, TimeAdvances, Log, Stamped
  <1> QED
    BY <1>1, SoundInit, SoundNext, PTL DEF Spec

----------------------------------------------------------------------------
(* Ancestry.  A set that holds the parents of its members holds all they   *)
(* descend from, so a walk stops exactly at what is already ordered.       *)

Complete(D) == \A c \in D : Parents[c] \subseteq D

\* A set of certificates has one of the lowest round.
LEMMA LowestRound ==
    ASSUME NEW T \in SUBSET Cert, T # {}
    PROVE  \E c \in T : \A d \in T : Round[c] <= Round[d]
  <1> DEFINE rounds == {Round[c] : c \in T}
  <1>1. rounds \subseteq Nat /\ rounds # {}
    BY GraphIsTyped
  <1> HIDE DEF rounds
  <1>2. PICK x \in rounds : \A y \in rounds : ~(<<y, x>> \in OpToRel(<, Nat))
    BY <1>1, NatLessThanWellFounded, WFMin
  <1>3. ASSUME NEW y \in rounds
        PROVE  x <= y
    <2>1. x \in Nat /\ y \in Nat
      BY <1>1
    <2>2. ~(y < x)
      BY <1>2, <2>1 DEF OpToRel
    <2> QED
      BY <2>1, <2>2
  <1> QED
    BY <1>2, <1>3 DEF rounds

LEMMA CompleteHoldsThePast ==
    ASSUME NEW D \in SUBSET Cert, Complete(D)
    PROVE  \A a \in D : Past[a] \subseteq D
  <1> DEFINE T == {a \in D : ~(Past[a] \subseteq D)}
  <1> SUFFICES ASSUME T # {} PROVE FALSE
    OBVIOUS
  <1>1. PICK a \in T : \A d \in T : Round[a] <= Round[d]
    <2>1. T \in SUBSET Cert
      OBVIOUS
    <2> HIDE DEF T
    <2> QED
      BY <2>1, LowestRound
  <1>2. a \in Cert /\ Parents[a] \subseteq D
    BY DEF Complete
  <1>3. PICK p \in Parents[a] : ~(Past[p] \subseteq D)
    BY <1>2, PastIsAncestry
  <1>4. p \in T /\ Round[a] = Round[p] + 1
    BY <1>2, <1>3, ParentsAreOneRoundOlder
  <1>5. Round[p] \in Nat /\ Round[a] \in Nat
    BY <1>2, <1>4, GraphIsTyped
  <1> QED
    BY <1>1, <1>4, <1>5

LEMMA PastIsComplete ==
    ASSUME NEW a \in Cert
    PROVE  Past[a] \subseteq Cert /\ Complete(Past[a]) /\ Parents[a] \subseteq Past[a]
  <1>1. Complete(Cert)
    BY GraphIsTyped DEF Complete
  <1>2. \A b \in Cert : Past[b] \subseteq Cert
    BY <1>1, CompleteHoldsThePast
  <1>3. \A b \in Cert : Parents[b] \subseteq Past[b]
    BY PastIsAncestry
  <1> DEFINE T == {b \in Cert : ~Complete(Past[b])}
  <1>4. ASSUME T # {}
        PROVE  FALSE
    <2>1. PICK b \in T : \A d \in T : Round[b] <= Round[d]
      <3>1. T \in SUBSET Cert
        OBVIOUS
      <3> HIDE DEF T
      <3> QED
        BY <1>4, <3>1, LowestRound
    <2>2. ASSUME NEW p \in Parents[b]
          PROVE  Complete(Past[p])
      <3>1. p \in Cert /\ Round[b] = Round[p] + 1 /\ Round[p] \in Nat /\ Round[b] \in Nat
        BY GraphIsTyped, ParentsAreOneRoundOlder
      <3> QED
        BY <2>1, <3>1
    <2>3. ASSUME NEW c \in Past[b]
          PROVE  Parents[c] \subseteq Past[b]
      <3>1. CASE c \in Parents[b]
        <4>1. c \in Cert
          BY <3>1, GraphIsTyped
        <4> QED
          BY <1>3, <3>1, <4>1, PastIsAncestry
      <3>2. CASE c \notin Parents[b]
        <4>1. PICK p \in Parents[b] : c \in Past[p]
          BY <3>2, PastIsAncestry
        <4> QED
          BY <2>2, <4>1, PastIsAncestry DEF Complete
      <3> QED
        BY <3>1, <3>2
    <2> QED
      BY <2>3 DEF Complete
  <1> QED
    BY <1>2, <1>3, <1>4

\* With the whole ancestry in the store, a walk collects exactly what of it
\* is not ordered yet.
LEMMA WalkIsTheRest ==
    ASSUME NEW s \in States, Complete(s.dag), Complete(s.ordered), s.ordered \subseteq s.dag,
           NEW a \in s.dag
    PROVE  Walk(s, a) = ({a} \cup Past[a]) \ s.ordered
  <1> DEFINE new == s.dag \ s.ordered
             held == ({a} \cup Past[a]) \cap new
             rest == ({a} \cup Past[a]) \ s.ordered
  <1>1. s.dag \in SUBSET Cert /\ a \in Cert /\ s.ordered \in SUBSET Cert
    BY DEF States
  <1>2. Past[a] \subseteq s.dag
    BY <1>1, CompleteHoldsThePast
  <1>3. held = rest
    BY <1>2
  <1>4. CASE a \in s.ordered
    <2>1. Past[a] \subseteq s.ordered
      BY <1>1, <1>4, CompleteHoldsThePast
    <2> QED
      BY <1>4, <2>1 DEF Walk, Reach
  <1>5. CASE a \notin s.ordered
    <2>1. ASSUME NEW S \in SUBSET held, a \in S, \A c \in S : Parents[c] \cap held \subseteq S
          PROVE  held \subseteq S
      <3> DEFINE T == S \cup s.ordered
      <3>1. ASSUME NEW c \in S
            PROVE  Parents[c] \subseteq T
        <4>1. Parents[c] \subseteq Past[a]
          BY <1>1, PastIsComplete DEF Complete
        <4>2. Parents[c] \subseteq held \cup s.ordered
          BY <1>2, <4>1
        <4> QED
          BY <2>1, <4>2
      <3>2. Complete(T) /\ T \in SUBSET Cert
        BY <1>1, <3>1 DEF Complete
      <3>3. Past[a] \subseteq T
        BY <2>1, <3>2, CompleteHoldsThePast
      <3> QED
        BY <2>1, <3>3
    <2> DEFINE Closed == {R \in SUBSET held :
                             a \in R /\ \A x \in R : Parents[x] \cap held \subseteq R}
    <2>2. \/ Walk(s, a) = held
          \/ Walk(s, a) = {c \in held : \A S \in Closed : c \in S}
      BY <1>5 DEF Walk, Reach
    <2>3. Walk(s, a) = held
      <3> HIDE DEF held
      <3> QED
        BY <2>1, <2>2
    <2> QED
      BY <1>3, <2>3
  <1> QED
    BY <1>4, <1>5

----------------------------------------------------------------------------
(* Gossip alone: nothing is pulled, restarted or fails to apply.  Then the *)
(* store is complete, nothing parks, and what a commit hands on is what    *)
(* its anchor descends from less what the log holds already.               *)

Whole(s) ==
    /\ s.pending = Nothing
    /\ Complete(s.dag)
    /\ s.ordered = UpTo(s.log, Len(s.log))
    /\ \A i \in 0 .. Len(s.log) : Complete(UpTo(s.log, i))
    /\ \A i \in 1 .. Len(s.log) :
           s.log[i].certs = ({s.log[i].anchor} \cup Past[s.log[i].anchor]) \ UpTo(s.log, i - 1)

\* Where two logs agree, so does what they have handed on.
LEMMA UpToAgrees ==
    ASSUME NEW f, NEW g, NEW k \in Nat, \A i \in 1 .. k : f[i].certs = g[i].certs
    PROVE  UpTo(f, k) = UpTo(g, k)
  BY DEF UpTo

LEMMA UpToGrows ==
    ASSUME NEW f, NEW k \in Nat
    PROVE  UpTo(f, k + 1) = UpTo(f, k) \cup f[k + 1].certs
  <1>1. 1 .. (k + 1) = (1 .. k) \cup {k + 1}
    OBVIOUS
  <1> QED
    BY <1>1 DEF UpTo

LEMMA CommitWhole ==
    ASSUME NEW s \in States, Marked(s), Whole(s), NEW v \in Nat, NEW a \in s.dag
    PROVE  Whole(Commit(s, v, a, Walk(s, a), TRUE))
  <1> DEFINE walk == Walk(s, a)
             e == [anchor |-> a, certs |-> walk, index |-> s.index]
             pending == IF s.pending.round = v THEN Nothing ELSE s.pending
             m == [s EXCEPT !.ordered = s.ordered \cup walk, !.pending = pending]
             log == Append(s.log, e)
             t == [m EXCEPT !.last = v, !.floor = Stamp[a], !.log = log]
             k == Len(s.log)
             old == UpTo(s.log, k)
  <1>1. t = Commit(s, v, a, walk, TRUE)
    BY DEF Commit, States
  <1>2. a \in Cert /\ s.log \in Seq(Entries) /\ s.index \in Nat /\ k \in Nat
        /\ s.dag \in SUBSET Cert
    BY DEF States
  <1>3. walk = ({a} \cup Past[a]) \ s.ordered
    <2>1. Complete(s.ordered) /\ s.ordered \subseteq s.dag
      BY <1>2 DEF Whole, Marked
    <2> QED
      BY <2>1, WalkIsTheRest DEF Whole
  <1>4. old = s.ordered
    BY DEF Whole
  <1> HIDE DEF walk
  <1>5. /\ t.pending = Nothing /\ t.dag = s.dag /\ t.ordered = s.ordered \cup walk
        /\ t.log = log
    <2>1. pending = Nothing
      BY DEF Whole
    <2> QED
      BY <2>1 DEF States
  <1> HIDE DEF t
  <1>6. e \in Entries
    BY <1>2, <1>3, PastIsComplete DEF Entries
  <1>7. /\ Len(log) = k + 1 /\ log[k + 1] = e /\ \A i \in 1 .. k : log[i] = s.log[i]
    BY <1>2, <1>6
  <1> HIDE DEF log
  <1>8. ASSUME NEW i \in 0 .. k
        PROVE  UpTo(log, i) = UpTo(s.log, i)
    BY <1>2, <1>7, UpToAgrees
  <1>9. UpTo(log, k + 1) = s.ordered \cup walk
    <2>1. UpTo(log, k) = old
      BY <1>2, <1>8
    <2>2. log[k + 1].certs = walk
      BY <1>7
    <2>3. k \in Nat
      BY <1>2
    <2> HIDE DEF k, old
    <2>4. UpTo(log, k + 1) = UpTo(log, k) \cup log[k + 1].certs
      BY <2>3, UpToGrows
    <2> QED
      BY <1>4, <2>1, <2>2, <2>4
  <1>10. Complete(s.ordered \cup walk)
    <2>1. Complete(s.ordered)
      BY <1>2, <1>4 DEF Whole
    <2>2. s.ordered \cup walk = s.ordered \cup {a} \cup Past[a]
      BY <1>3
    <2> QED
      BY <1>2, <2>1, <2>2, PastIsComplete DEF Complete
  <1>11. ASSUME NEW i \in 0 .. k + 1
         PROVE  Complete(UpTo(log, i))
    <2>1. CASE i \in 0 .. k
      BY <1>8, <2>1 DEF Whole
    <2>2. CASE i = k + 1
      BY <1>9, <1>10, <2>2
    <2> QED
      BY <1>2, <2>1, <2>2
  <1>12. ASSUME NEW i \in 1 .. k + 1
         PROVE  log[i].certs = ({log[i].anchor} \cup Past[log[i].anchor]) \ UpTo(log, i - 1)
    <2>1. CASE i \in 1 .. k
      <3>1. i - 1 \in 0 .. k
        BY <1>2, <2>1
      <3>2. UpTo(log, i - 1) = UpTo(s.log, i - 1)
        BY <1>8, <3>1
      <3>3. log[i] = s.log[i]
        BY <1>7, <2>1
      <3> QED
        BY <2>1, <3>2, <3>3 DEF Whole
    <2>2. CASE i = k + 1
      <3>1. i - 1 = k /\ k \in 0 .. k
        BY <1>2, <2>2
      <3>2. UpTo(log, i - 1) = s.ordered
        BY <1>4, <1>8, <3>1
      <3>3. log[i] = e /\ e.certs = walk /\ e.anchor = a
        BY <1>7, <2>2
      <3> HIDE DEF e
      <3> QED
        BY <1>3, <3>2, <3>3
    <2> QED
      BY <1>2, <2>1, <2>2
  <1>13. Whole(t)
    BY <1>5, <1>7, <1>9, <1>11, <1>12 DEF Whole
  <1> QED
    BY <1>1, <1>13 DEF walk

LEMMA CheckWhole ==
    ASSUME NEW s \in States, Marked(s), Whole(s), NEW v \in Nat
    PROVE  Whole(Check(s, v, TRUE))
  <1>1. CASE Committable(s, v) = {}
    BY <1>1 DEF Check
  <1>2. CASE Committable(s, v) # {}
    <2> DEFINE a == CHOOSE a \in Committable(s, v) : TRUE
               walk == Walk(s, a)
               missing == (UNION {Parents[c] : c \in walk}) \ s.dag
               i == s.index + 1
               ticked == [s EXCEPT !.index = i]
    <2>1. a \in s.dag /\ a \in Cert
      BY <1>2 DEF Committable, Supported, States
    <2> HIDE DEF a
    <2>2. walk \subseteq s.dag
      BY <2>1, WalkIsNew
    <2> HIDE DEF walk
    <2>3. missing = {}
      BY <2>2 DEF Whole, Complete
    <2>4. i \in Nat
      BY DEF States
    <2>5. Check(s, v, TRUE) = Commit(ticked, v, a, walk, TRUE)
      BY <1>2, <2>3 DEF Check, a, walk, missing
    <2> HIDE DEF i
    <2>6. /\ ticked \in States /\ ticked.dag = s.dag /\ ticked.ordered = s.ordered
          /\ ticked.log = s.log /\ ticked.pending = s.pending
      BY <2>4 DEF States
    <2> HIDE DEF ticked
    <2>7. Marked(ticked) /\ Whole(ticked)
      BY <2>6 DEF Marked, Whole
    <2>8. walk = Walk(ticked, a)
      BY <2>6 DEF Walk, walk
    <2> QED
      BY <2>1, <2>5, <2>6, <2>7, <2>8, CommitWhole
  <1> QED
    BY <1>1, <1>2

----------------------------------------------------------------------------
(* Which anchors a node has settled.  A round is checked when it is        *)
(* completed, and again for each of its votes dealt with after that; so    *)
(* for a round a node has left, every anchor that a quorum of what it has  *)
(* dealt with votes for was ordered or passed over.                        *)

\* a is the certificate an odd round is committed through.
Leads(a) == Author[a] = Leader(Round[a]) /\ Round[a] % 2 = 1
Voters(F, a) == {x \in F : a \in Parents[x]}
Carried(F, a) == Leads(a) /\ Cardinality(Voters(F, a)) >= Quorum

\* What Narwhal has dealt with.
Finished(s) == {c \in s.dag : \A i \in DOMAIN s.storing : s.storing[i] # c}

\* Ordered, or passed over for good.
Settled(s, a) ==
    \/ a \in s.ordered
    \/ \E i \in DOMAIN s.log : Round[s.log[i].anchor] > Round[a]
    \/ Stamp[a] <= s.floor
    \/ a \in s.jumped

\* The frontier is where an anchor was ordered.
FrontierIsOrdered(s) ==
    s.last = 0 \/ \E i \in DOMAIN s.log :
                     /\ s.log[i].anchor \in s.ordered /\ Leads(s.log[i].anchor)
                     /\ Round[s.log[i].anchor] + 1 = s.last

\* The anchors with a vote round before r for which F carries a quorum.
Heeded(s, F, r) ==
    \A a \in Cert : Carried(F, a) /\ Round[a] + 1 < r => Settled(s, a)

Dealt(s) ==
    /\ s.upto = 0 /\ s.driving = 0 /\ IsFiniteSet(s.dag)
    /\ FrontierIsOrdered(s) /\ Heeded(s, Finished(s), s.round)

\* An author has one certificate in a round, so a round has one leader.
LEMMA OneLeader ==
    ASSUME NEW a \in Cert, NEW b \in Cert, Leads(a), Leads(b), Round[a] = Round[b]
    PROVE  a = b
  BY OneCertificatePerAuthorAndRound DEF Leads

\* More certificates carry no fewer anchors, and their parents are at hand.
LEMMA CarriedByMore ==
    ASSUME NEW D \in SUBSET Cert, IsFiniteSet(D), Complete(D), NEW F \in SUBSET D,
           NEW a \in Cert, Carried(F, a)
    PROVE  Carried(D, a) /\ a \in D
  <1>1. Voters(F, a) \subseteq Voters(D, a) /\ Voters(D, a) \subseteq D
    BY DEF Voters
  <1>2. IsFiniteSet(Voters(D, a))
    BY <1>1, FS_Subset
  <1>3. /\ Cardinality(Voters(F, a)) <= Cardinality(Voters(D, a))
        /\ Cardinality(Voters(F, a)) \in Nat /\ Cardinality(Voters(D, a)) \in Nat
    BY <1>1, <1>2, FS_Subset, FS_CardinalityType
  <1>4. Carried(D, a)
    BY <1>3, QuorumIsPositive DEF Carried
  <1>5. Voters(F, a) # {}
    BY QuorumIsPositive, FS_EmptySet DEF Carried
  <1>6. a \in D
    BY <1>5 DEF Voters, Complete
  <1> QED
    BY <1>4, <1>6

\* What a node holds supports the anchors it carries.
LEMMA CarriedIsSupported ==
    ASSUME NEW s \in States, NEW v \in Nat, NEW a \in s.dag
    PROVE  /\ Carried(s.dag, a) /\ Round[a] + 1 = v => a \in Supported(s, v)
           /\ v % 2 = 0 /\ a \in Supported(s, v) => Carried(s.dag, a) /\ Round[a] + 1 = v
  <1>1. s.dag \subseteq Cert /\ a \in Cert /\ Round[a] \in Nat
    BY GraphIsTyped DEF States
  <1>2. ASSUME Round[a] + 1 = v
        PROVE  {x \in s.dag : Round[x] = v /\ a \in Parents[x]} = Voters(s.dag, a)
    <2>1. ASSUME NEW x \in s.dag, a \in Parents[x]
          PROVE  Round[x] = v
      BY <1>1, <1>2, <2>1, ParentsAreOneRoundOlder
    <2> QED
      BY <2>1 DEF Voters
  <1>3. ASSUME Carried(s.dag, a), Round[a] + 1 = v
        PROVE  a \in Supported(s, v)
    <2>1. Round[a] = v - 1
      BY <1>1, <1>3
    <2>2. Author[a] = Leader(v - 1)
      BY <1>3, <2>1 DEF Carried, Leads
    <2> QED
      BY <1>2, <1>3, <2>1, <2>2 DEF Supported, Carried
  <1>4. ASSUME v % 2 = 0, a \in Supported(s, v)
        PROVE  Carried(s.dag, a) /\ Round[a] + 1 = v
    <2>1. Round[a] = v - 1 /\ Author[a] = Leader(v - 1)
      BY <1>4 DEF Supported
    <2>2. Round[a] + 1 = v /\ Round[a] % 2 = 1
      BY <1>1, <1>4, <2>1
    <2> QED
      BY <1>2, <1>4, <2>1, <2>2 DEF Supported, Carried, Leads
  <1> QED
    BY <1>3, <1>4

\* From s to t nothing that was settled is opened again.
Stays(s, t) == FrontierIsOrdered(t) /\ \A a \in Cert : Settled(s, a) => Settled(t, a)

\* And what the store carries of vote round v is settled.
Settles(s, t, v) ==
    \A a \in s.dag : Carried(s.dag, a) /\ Round[a] + 1 = v => Settled(t, a)

LEMMA CommitSettles ==
    ASSUME NEW s \in States, Marked(s), Whole(s), NEW v \in Nat, v > s.last,
           NEW a \in Committable(s, v), Leads(a), NEW i \in Nat
    PROVE  LET t == Commit([s EXCEPT !.index = i], v, a, Walk(s, a), TRUE)
           IN  Stays(s, t) /\ Settles(s, t, v)
  <1> DEFINE walk == Walk(s, a)
             ticked == [s EXCEPT !.index = i]
             pending == IF ticked.pending.round = v THEN Nothing ELSE ticked.pending
             e == [anchor |-> a, certs |-> walk, index |-> ticked.index]
             m == [ticked EXCEPT !.ordered = ticked.ordered \cup walk, !.pending = pending]
             t == [m EXCEPT !.last = v, !.floor = Stamp[a], !.log = Append(m.log, e)]
             k == Len(s.log)
  <1>1. /\ s.last \in Nat /\ s.floor \in Nat /\ s.dag \subseteq Cert
        /\ s.log \in Seq(Entries) /\ k \in Nat /\ DOMAIN s.log = 1 .. k
    BY DEF States
  <1>2. /\ a \in s.dag /\ a \in Cert /\ Round[a] + 1 = v /\ Stamp[a] > s.floor
        /\ Stamp[a] \in Nat /\ Round[a] \in Nat
    BY CommittableHasVotes, GraphIsTyped
  <1>3. a \in s.ordered \cup walk /\ walk \subseteq Cert
    <2>1. Complete(s.dag) /\ Complete(s.ordered) /\ s.ordered \subseteq s.dag
      BY <1>1 DEF Whole, Marked
    <2>2. walk = ({a} \cup Past[a]) \ s.ordered
      BY <1>2, <2>1, WalkIsTheRest
    <2> QED
      BY <1>1, <1>2, <2>2, PastIsComplete
  <1> HIDE DEF walk
  <1>4. Commit(ticked, v, a, walk, TRUE) = t
    BY DEF Commit
  <1>5. /\ ticked.ordered = s.ordered /\ ticked.log = s.log /\ ticked.jumped = s.jumped
        /\ ticked.index = i /\ DOMAIN ticked = DOMAIN s
    BY DEF States
  <1> HIDE DEF ticked
  <1>6. e \in Entries /\ e.anchor = a
    BY <1>2, <1>3, <1>5 DEF Entries
  <1> HIDE DEF e, pending
  <1>7. /\ t.last = v /\ t.floor = Stamp[a] /\ t.ordered = s.ordered \cup walk
        /\ t.log = Append(s.log, e) /\ t.jumped = s.jumped
    BY <1>5 DEF States
  <1> HIDE DEF t
  <1>8. /\ DOMAIN t.log = 1 .. k + 1 /\ t.log[k + 1] = e
        /\ \A j \in 1 .. k : t.log[j] = s.log[j]
    BY <1>1, <1>6, <1>7
  <1>9. FrontierIsOrdered(t)
    <2>1. k + 1 \in DOMAIN t.log
      BY <1>1, <1>8
    <2> QED
      BY <1>2, <1>3, <1>6, <1>7, <1>8, <2>1 DEF FrontierIsOrdered
  <1>10. ASSUME NEW b \in Cert, Settled(s, b)
         PROVE  Settled(t, b)
    <2>1. CASE b \in s.ordered \/ b \in s.jumped
      BY <1>7, <2>1 DEF Settled
    <2>2. CASE Stamp[b] <= s.floor
      <3>1. Stamp[b] \in Nat
        BY GraphIsTyped
      <3> QED
        BY <1>1, <1>2, <1>7, <2>2, <3>1 DEF Settled
    <2>3. CASE \E j \in DOMAIN s.log : Round[s.log[j].anchor] > Round[b]
      <3>1. PICK j \in DOMAIN s.log : Round[s.log[j].anchor] > Round[b]
        BY <2>3
      <3>2. j \in DOMAIN t.log /\ t.log[j] = s.log[j]
        BY <1>1, <1>8
      <3> QED
        BY <3>1, <3>2 DEF Settled
    <2> QED
      BY <1>10, <2>1, <2>2, <2>3 DEF Settled
  <1>11. ASSUME NEW b \in s.dag, Carried(s.dag, b), Round[b] + 1 = v
         PROVE  Settled(t, b)
    <2>1. b \in Cert /\ Round[b] \in Nat /\ Leads(b)
      BY <1>1, <1>11, GraphIsTyped DEF Carried
    <2>2. b = a
      BY <1>2, <1>11, <2>1, OneLeader
    <2> QED
      BY <1>3, <1>7, <2>2 DEF Settled
  <1>12. Stays(s, t) /\ Settles(s, t, v)
    BY <1>9, <1>10, <1>11 DEF Stays, Settles
  <1> QED
    BY <1>4, <1>12 DEF walk, ticked

\* A check past the frontier settles the anchor that the store supports.
LEMMA CheckSettles ==
    ASSUME NEW s \in States, Marked(s), Whole(s), FrontierIsOrdered(s),
           NEW v \in Nat, v > s.last, v % 2 = 0
    PROVE  Stays(s, Check(s, v, TRUE)) /\ Settles(s, Check(s, v, TRUE), v)
  <1>1. s.floor \in Nat /\ s.dag \subseteq Cert
    BY DEF States
  <1>2. CASE Committable(s, v) = {}
    <2>1. Check(s, v, TRUE) = s
      BY <1>2 DEF Check
    <2>2. ASSUME NEW b \in s.dag, Carried(s.dag, b), Round[b] + 1 = v
          PROVE  Settled(s, b)
      <3>1. b \in Supported(s, v) /\ Stamp[b] \in Nat
        BY <1>1, <2>2, CarriedIsSupported, GraphIsTyped
      <3>2. ~(Stamp[b] > s.floor)
        BY <1>2, <3>1 DEF Committable
      <3> QED
        BY <1>1, <3>1, <3>2 DEF Settled
    <2> QED
      BY <2>1, <2>2 DEF Stays, Settles
  <1>3. CASE Committable(s, v) # {}
    <2> DEFINE a == CHOOSE a \in Committable(s, v) : TRUE
               walk == Walk(s, a)
               missing == (UNION {Parents[c] : c \in walk}) \ s.dag
               i == s.index + 1
    <2>1. a \in Committable(s, v)
      BY <1>3
    <2> HIDE DEF a
    <2>2. a \in s.dag /\ a \in Cert /\ a \in Supported(s, v)
      BY <1>1, <2>1 DEF Committable, Supported
    <2>3. Leads(a)
      BY <2>2, CarriedIsSupported DEF Carried
    <2>4. walk \subseteq s.dag
      BY <2>2, WalkIsNew
    <2>5. missing = {}
      BY <2>4 DEF Whole, Complete
    <2>6. Check(s, v, TRUE) = Commit([s EXCEPT !.index = i], v, a, walk, TRUE)
      BY <1>3, <2>5 DEF Check, a
    <2>7. i \in Nat
      BY DEF States
    <2> HIDE DEF i
    <2> QED
      BY <2>1, <2>3, <2>6, <2>7, CommitSettles
  <1> QED
    BY <1>2, <1>3

\* The same for a completed round, past the frontier or not: at the frontier an
\* anchor was ordered, and below it a later one.
LEMMA RoundCompleteSettles ==
    ASSUME NEW s \in States, Marked(s), Whole(s), FrontierIsOrdered(s), NEW v \in Nat
    PROVE  LET t == RoundComplete(s, v, TRUE)
           IN  Whole(t) /\ Stays(s, t) /\ Settles(s, t, v)
  <1>0. s.last \in Nat /\ s.dag \subseteq Cert
    BY DEF States
  <1>1. CASE v > s.last /\ v % 2 = 0
    BY <1>1, CheckWhole, CheckSettles DEF RoundComplete
  <1>2. CASE ~(v > s.last /\ v % 2 = 0)
    <2>1. RoundComplete(s, v, TRUE) = s
      BY <1>2 DEF RoundComplete
    <2>2. ASSUME NEW b \in s.dag, Carried(s.dag, b), Round[b] + 1 = v
          PROVE  Settled(s, b)
      <3>1. b \in Cert /\ Round[b] \in Nat /\ Leads(b) /\ Round[b] % 2 = 1
        BY <1>0, <2>2, GraphIsTyped DEF Carried, Leads
      <3>2. v <= s.last /\ s.last # 0
        BY <1>0, <1>2, <2>2, <3>1
      <3>3. PICK i \in DOMAIN s.log :
                /\ s.log[i].anchor \in s.ordered /\ Leads(s.log[i].anchor)
                /\ Round[s.log[i].anchor] + 1 = s.last
        BY <3>2 DEF FrontierIsOrdered
      <3> DEFINE a == s.log[i].anchor
      <3>4. a \in Cert /\ Round[a] \in Nat
        BY <1>0, <3>3, GraphIsTyped DEF Marked
      <3> HIDE DEF a
      <3>5. a \in s.ordered /\ Leads(a) /\ Round[a] + 1 = s.last
        BY <3>3 DEF a
      <3>6. CASE v = s.last
        <4>1. Round[a] = Round[b]
          BY <1>0, <2>2, <3>1, <3>4, <3>5, <3>6
        <4>2. a = b
          BY <3>1, <3>4, <3>5, <4>1, OneLeader
        <4> QED
          BY <3>5, <4>2 DEF Settled
      <3>7. CASE v < s.last
        <4>1. Round[a] > Round[b]
          BY <1>0, <2>2, <3>1, <3>4, <3>5, <3>7
        <4> QED
          BY <4>1 DEF Settled, a
      <3> QED
        BY <1>0, <3>2, <3>6, <3>7
    <2> QED
      BY <2>1, <2>2 DEF Stays, Settles
  <1> QED
    BY <1>1, <1>2

\* A step that does not touch what is settled.
Leaves(s, t) ==
    /\ t.ordered = s.ordered /\ t.log = s.log /\ t.floor = s.floor /\ t.last = s.last
    /\ t.pending = s.pending /\ s.jumped \subseteq t.jumped

LEMMA LeavesStays ==
    ASSUME NEW s, NEW t, Leaves(s, t), FrontierIsOrdered(s)
    PROVE  Stays(s, t)
  BY DEF Leaves, FrontierIsOrdered, Settled, Stays

\* Counting the certificates of the current round leaves the round as it is, or
\* completes and settles it.
LEMMA HeardSettles ==
    ASSUME NEW s \in States, Marked(s), Whole(s), FrontierIsOrdered(s),
           NEW certs, certs \subseteq Cert
    PROVE  LET t == Heard(s, certs, TRUE)
           IN  /\ Whole(t) /\ Stays(s, t)
               /\ t.round = s.round \/ (t.round = s.round + 1 /\ Settles(s, t, s.round))
  <1> DEFINE more == [s EXCEPT !.heard = certs]
             done == RoundComplete(s, s.round, TRUE)
             r == done.round + 1
             next == [done EXCEPT !.round = r, !.heard = {}]
  <1>1. Heard(s, certs, TRUE) \in {more, next}
    BY DEF Heard
  <1>2. Leaves(s, more) /\ more.dag = s.dag /\ more.round = s.round
    BY DEF States, Leaves
  <1>3. /\ done \in States /\ Same(s, done)
        /\ Whole(done) /\ Stays(s, done) /\ Settles(s, done, s.round)
    <2>1. s.round \in Nat
      BY DEF States
    <2> QED
      BY <2>1, RoundCompleteKeeps, RoundCompleteSettles
  <1> HIDE DEF done
  <1>4. Leaves(done, next) /\ next.dag = done.dag /\ next.round = r
    BY <1>3 DEF States, Leaves
  <1>5. r = s.round + 1
    BY <1>3 DEF Same
  <1> HIDE DEF more, next, r
  <1>6. Whole(more) /\ Stays(s, more)
    BY <1>2, LeavesStays DEF Whole, Leaves
  <1>7. Whole(next) /\ Stays(done, next)
    BY <1>3, <1>4, LeavesStays DEF Whole, Leaves, Stays
  <1>8. Stays(s, next)
    BY <1>3, <1>7 DEF Stays
  <1>9. Settles(s, next, s.round)
    <2>1. s.dag \subseteq Cert
      BY DEF States
    <2> QED
      BY <1>3, <1>7, <2>1 DEF Settles, Stays
  <1> QED
    BY <1>1, <1>2, <1>4, <1>5, <1>6, <1>7, <1>8, <1>9

\* What Narwhal does with a certificate c of the store settles the round it
\* completes, if any, and c's own vote round if that is past.
LEMMA NotifySettles ==
    ASSUME NEW s \in States, Marked(s), Whole(s), FrontierIsOrdered(s), NEW c \in Cert
    PROVE  LET t == Notify(s, c, TRUE)
           IN  /\ Whole(t) /\ Stays(s, t)
               /\ t.round = s.round \/ (t.round = s.round + 1 /\ Settles(s, t, s.round))
               /\ Round[c] < s.round /\ Round[c] % 2 = 0 => Settles(s, t, Round[c])
  <1> DEFINE certs == s.heard \cup {c}
             v == VoteRound(c)
             heard == Heard(s, certs, TRUE)
             late == RoundComplete(s, v, TRUE)
  <1>1. /\ certs \subseteq Cert /\ v \in Nat /\ Round[c] \in Nat /\ s.round \in Nat
        /\ Round[c] % 2 = 0 => v = Round[c]
    BY GraphIsTyped DEF VoteRound, States
  <1>2. \/ Round[c] = s.round /\ Notify(s, c, TRUE) = heard
        \/ Round[c] < s.round /\ Notify(s, c, TRUE) = late
        \/ Round[c] > s.round /\ Notify(s, c, TRUE) = s
    <2>1. CASE Round[c] = s.round
      BY <2>1 DEF Notify, HeardCert
    <2>2. CASE Round[c] < s.round
      <3>1. Round[c] # s.round
        BY <1>1, <2>2
      <3> QED
        BY <2>2, <3>1 DEF Notify
    <2>3. CASE Round[c] > s.round
      <3>1. Round[c] # s.round /\ ~(Round[c] < s.round)
        BY <1>1, <2>3
      <3> QED
        BY <2>3, <3>1 DEF Notify
    <2>4. Round[c] = s.round \/ Round[c] < s.round \/ Round[c] > s.round
      BY <1>1
    <2> HIDE DEF heard, late
    <2> QED
      BY <2>1, <2>2, <2>3, <2>4
  <1> HIDE DEF certs, v
  <1>3. CASE Round[c] = s.round /\ Notify(s, c, TRUE) = heard
    <2>1. /\ Whole(heard) /\ Stays(s, heard)
          /\ heard.round = s.round \/ (heard.round = s.round + 1 /\ Settles(s, heard, s.round))
      BY <1>1, HeardSettles
    <2> HIDE DEF heard
    <2>2. ~(Round[c] < s.round)
      BY <1>1, <1>3
    <2> QED
      BY <1>3, <2>1, <2>2
  <1>4. CASE Round[c] < s.round /\ Notify(s, c, TRUE) = late
    <2>1. Whole(late) /\ Stays(s, late) /\ Settles(s, late, v)
      BY <1>1, RoundCompleteSettles
    <2>2. late.round = s.round
      BY <1>1, RoundCompleteKeeps DEF Same
    <2> HIDE DEF late
    <2>3. Round[c] % 2 = 0 => Settles(s, late, Round[c])
      BY <1>1, <2>1
    <2> QED
      BY <1>4, <2>1, <2>2, <2>3
  <1>5. CASE Round[c] > s.round /\ Notify(s, c, TRUE) = s
    <2>1. ~(Round[c] < s.round)
      BY <1>1, <1>5
    <2> QED
      BY <1>5, <2>1 DEF Stays
  <1> QED
    BY <1>2, <1>3, <1>4, <1>5

----------------------------------------------------------------------------
(* The invariant of gossip alone.                                          *)

GossipOnly == PullsFrom = {} /\ Restarting = {} /\ ApplyOutcomes = {TRUE}

Gossiped(s) == Whole(s) /\ Dealt(s)

GossipedEverywhere == \A n \in Node : Gossiped(bs[n])

\* A store with nothing in hand has been dealt with.
LEMMA NothingInHand ==
    ASSUME NEW s, s.storing = <<>>
    PROVE  Finished(s) = s.dag
  <1>1. DOMAIN s.storing = {}
    OBVIOUS
  <1> QED
    BY <1>1 DEF Finished

\* A certificate in hand is not dealt with yet, and nothing else has changed.
LEMMA OneMoreInHand ==
    ASSUME NEW D, NEW q \in Seq(Cert), NEW c \in Cert, c \notin D
    PROVE  {x \in D \cup {c} : \A i \in DOMAIN (<<c>> \o q) : (<<c>> \o q)[i] # x}
              = {x \in D : \A i \in DOMAIN q : q[i] # x}
  <1> DEFINE w == <<c>> \o q
             k == Len(q)
  <1>1. /\ k \in Nat /\ DOMAIN q = 1 .. k /\ DOMAIN w = 1 .. k + 1 /\ w[1] = c
        /\ \A i \in 1 .. k : w[i + 1] = q[i]
    OBVIOUS
  <1> HIDE DEF w, k
  <1>2. \A i \in DOMAIN w : i = 1 \/ (i - 1 \in DOMAIN q /\ w[i] = q[i - 1])
    <2> SUFFICES ASSUME NEW i \in DOMAIN w, i # 1
                 PROVE  i - 1 \in DOMAIN q /\ w[i] = q[i - 1]
      OBVIOUS
    <2>1. i - 1 \in 1 .. k /\ (i - 1) + 1 = i
      BY <1>1
    <2> QED
      BY <1>1, <2>1
  <1>3. \A i \in DOMAIN q : i + 1 \in DOMAIN w /\ w[i + 1] = q[i]
    BY <1>1
  <1>4. 1 \in DOMAIN w
    BY <1>1
  <1>5. ASSUME NEW x \in D
        PROVE  (\A i \in DOMAIN w : w[i] # x) <=> (\A i \in DOMAIN q : q[i] # x)
    BY <1>1, <1>2, <1>3
  <1> QED
    BY <1>1, <1>4, <1>5 DEF w

\* Of what is in hand, the first is dealt with.
LEMMA OneLessInHand ==
    ASSUME NEW s, NEW t, s.storing \in Seq(Cert), s.storing # <<>>,
           t.storing = Tail(s.storing), t.dag = s.dag
    PROVE  Finished(t) \subseteq Finished(s) \cup {Head(s.storing)}
  <1> DEFINE q == s.storing
             k == Len(q)
  <1>1. /\ k \in Nat /\ k >= 1 /\ DOMAIN q = 1 .. k /\ q[1] = Head(q)
        /\ DOMAIN Tail(q) = 1 .. (k - 1) /\ \A i \in 1 .. (k - 1) : Tail(q)[i] = q[i + 1]
    OBVIOUS
  <1> HIDE DEF q, k
  <1>2. ASSUME NEW i \in DOMAIN q, i # 1
        PROVE  i - 1 \in DOMAIN Tail(q) /\ Tail(q)[i - 1] = q[i]
    <2>1. i - 1 \in 1 .. (k - 1) /\ (i - 1) + 1 = i
      BY <1>1, <1>2
    <2> QED
      BY <1>1, <2>1
  <1>3. ASSUME NEW x \in s.dag, x # Head(q), \A i \in DOMAIN Tail(q) : Tail(q)[i] # x
        PROVE  \A i \in DOMAIN q : q[i] # x
    BY <1>1, <1>2, <1>3
  <1> QED
    BY <1>3 DEF Finished, q

\* A step that settles what it leaves behind keeps the invariant.
LEMMA HeededOn ==
    ASSUME NEW s \in States, Gossiped(s), NEW t \in States, Remains(s, t), Whole(t), Stays(s, t),
           NEW u \in States, u.dag = t.dag, u.round = t.round, u.upto = t.upto,
           u.driving = t.driving, Leaves(t, u),
           \A a \in Cert : Carried(Finished(u), a) /\ Round[a] + 1 < t.round
               => Settled(s, a) \/ Settles(s, t, Round[a] + 1)
    PROVE  Gossiped(u)
  <1>1. Whole(u)
    BY DEF Leaves, Whole
  <1>2. FrontierIsOrdered(u)
    BY LeavesStays DEF Stays
  <1>3. Finished(u) \subseteq s.dag /\ s.dag \in SUBSET Cert /\ IsFiniteSet(s.dag) /\ Complete(s.dag)
    BY DEF Finished, Remains, States, Gossiped, Dealt, Whole
  <1>4. ASSUME NEW a \in Cert, Carried(Finished(u), a), Round[a] + 1 < u.round
        PROVE  Settled(u, a)
    <2>1. Carried(s.dag, a) /\ a \in s.dag
      BY <1>3, <1>4, CarriedByMore
    <2>2. Settled(t, a)
      BY <1>4, <2>1 DEF Settles, Stays
    <2> QED
      BY <2>2, LeavesStays DEF Stays
  <1> QED
    BY <1>1, <1>2, <1>3, <1>4 DEF Gossiped, Dealt, Heeded, Remains

LEMMA GossipNext ==
    ASSUME GossipOnly, TypeOK, SoundEverywhere, GossipedEverywhere, [Next]_vars
    PROVE  GossipedEverywhere'
  <1>1. ASSUME NEW n \in Node
        PROVE  /\ bs[n] \in States /\ Marked(bs[n]) /\ Gossiped(bs[n])
               /\ Whole(bs[n]) /\ FrontierIsOrdered(bs[n])
    BY DEF TypeOK, SoundEverywhere, Sound, GossipedEverywhere, Gossiped, Dealt
  <1>2. ASSUME NEW n \in Node, NEW t, Gossiped(t), bs' = [bs EXCEPT ![n] = t]
        PROVE  GossipedEverywhere'
    BY <1>2 DEF GossipedEverywhere, TypeOK
  <1>3. ASSUME NEW n \in Node, NEW c \in Cert, NEW ok \in ApplyOutcomes, Store(n, c, ok)
        PROVE  GossipedEverywhere'
    <2> DEFINE s == bs[n]
               t == Stored(s, c)
    <2>1. /\ t \in States /\ Spares(s, t) /\ t.dag = s.dag \cup {c}
          /\ t.storing = <<c>> \o s.storing /\ t.jumped = s.jumped
          /\ t.round = s.round /\ t.pending = s.pending
          /\ t.upto = s.upto /\ t.driving = s.driving
      BY <1>1, StoredKeeps
    <2>2. bs' = [bs EXCEPT ![n] = CertSaved(t, c, ok)]
      BY <1>3 DEF Store, Becomes, Stored
    <2>3. c \notin s.dag /\ Parents[c] \subseteq s.dag
      BY <1>3 DEF Store
    <2> HIDE DEF t
    <2>4. CertSaved(t, c, ok) = t
      BY <1>1, <2>1 DEF CertSaved, Whole, Nothing
    <2>5. Complete(t.dag)
      BY <1>1, <2>1, <2>3 DEF Whole, Complete
    <2>6. Whole(t)
      BY <1>1, <2>1, <2>5 DEF Whole, Spares
    <2>7. Finished(t) = Finished(s)
      <3> DEFINE D == s.dag
                 q == s.storing
      <3>1. q \in Seq(Cert) /\ c \notin D
        BY <1>1, <2>3 DEF States
      <3>2. Finished(t) = {x \in D \cup {c} : \A i \in DOMAIN (<<c>> \o q) : (<<c>> \o q)[i] # x}
        BY <2>1 DEF Finished
      <3>3. Finished(s) = {x \in D : \A i \in DOMAIN q : q[i] # x}
        BY DEF Finished
      <3> HIDE DEF s, D, q
      <3> QED
        BY <3>1, <3>2, <3>3, OneMoreInHand
    <2>8. Stays(s, t)
      BY <1>1, <2>1 DEF Spares, Stays, FrontierIsOrdered, Settled
    <2>9. IsFiniteSet(t.dag)
      BY <1>1, <2>1, FS_AddElement DEF Gossiped, Dealt
    <2>10. Gossiped(t)
      <3> HIDE DEF s
      <3>1. Gossiped(s)
        BY <1>1 DEF s
      <3> QED
        BY <2>1, <2>6, <2>7, <2>8, <2>9, <3>1 DEF Gossiped, Dealt, Heeded, Stays
    <2> QED
      BY <1>2, <2>2, <2>4, <2>10
  <1>4. ASSUME NEW n \in Node, NEW ok \in ApplyOutcomes, Finish(n, ok)
        PROVE  GossipedEverywhere'
    <2> DEFINE s == bs[n]
               c == Head(s.storing)
               t == Notify(s, c, TRUE)
               u == [t EXCEPT !.storing = Tail(s.storing)]
    <2>1. ok = TRUE
      BY DEF GossipOnly
    <2>2. s \in States /\ s.storing \in Seq(Cert) /\ s.storing # <<>>
      BY <1>1, <1>4 DEF States, Finish
    <2>3. c \in Cert /\ Round[c] \in Nat /\ s.round \in Nat
      BY <2>2, GraphIsTyped DEF States
    <2>4. t \in States /\ Remains(s, t)
      BY <2>2, <2>3, NotifyKeeps
    <2>5. bs' = [bs EXCEPT ![n] = u]
      BY <1>4, <2>1, <2>4 DEF Finish, Becomes, Remains
    <2>6. /\ Whole(t) /\ Stays(s, t)
          /\ t.round = s.round \/ (t.round = s.round + 1 /\ Settles(s, t, s.round))
          /\ Round[c] < s.round /\ Round[c] % 2 = 0 => Settles(s, t, Round[c])
      BY <1>1, <2>3, NotifySettles
    <2>7. Gossiped(s)
      BY <1>1
    <2> HIDE DEF s, c, t
    <2>8. Tail(s.storing) \in Seq(Cert)
      BY <2>2
    <2>9. /\ u \in States /\ u.dag = t.dag /\ u.round = t.round /\ u.upto = t.upto
          /\ u.driving = t.driving /\ Leaves(t, u) /\ u.storing = Tail(s.storing)
      BY <2>4, <2>8 DEF States, Leaves
    <2> HIDE DEF u
    <2>10. Finished(u) \subseteq Finished(s) \cup {c}
      BY <2>2, <2>4, <2>9, OneLessInHand DEF Remains, c
    <2>11. ASSUME NEW a \in Cert, Carried(Finished(u), a), Round[a] + 1 < t.round
           PROVE  Settled(s, a) \/ Settles(s, t, Round[a] + 1)
      <3>1. Round[a] \in Nat /\ Leads(a) /\ Round[a] % 2 = 1
        BY <2>11, GraphIsTyped DEF Carried, Leads
      <3>2. CASE Round[a] + 1 = s.round
        <4>1. t.round = s.round + 1
          BY <2>3, <2>6, <2>11, <3>1, <3>2
        <4> QED
          BY <2>3, <2>6, <3>2, <4>1
      <3>3. CASE Round[a] + 1 < s.round /\ Round[c] = Round[a] + 1
        <4>1. Round[c] < s.round /\ Round[c] % 2 = 0
          BY <3>1, <3>3
        <4> QED
          BY <2>6, <3>3, <4>1
      <3>4. CASE Round[a] + 1 < s.round /\ Round[c] # Round[a] + 1
        <4>1. a \notin Parents[c]
          BY <2>3, <3>4, ParentsAreOneRoundOlder
        <4>2. Voters(Finished(u), a) \subseteq Voters(Finished(s), a)
          BY <2>10, <4>1 DEF Voters
        <4>3. Carried(Finished(s), a)
          <5>1. IsFiniteSet(Voters(Finished(s), a))
            <6>1. Voters(Finished(s), a) \subseteq s.dag
              BY DEF Voters, Finished
            <6> QED
              BY <2>7, <6>1, FS_Subset DEF Gossiped, Dealt
          <5>2. /\ Cardinality(Voters(Finished(u), a)) <= Cardinality(Voters(Finished(s), a))
                /\ Cardinality(Voters(Finished(u), a)) \in Nat
                /\ Cardinality(Voters(Finished(s), a)) \in Nat
            BY <4>2, <5>1, FS_Subset, FS_CardinalityType
          <5> QED
            BY <2>11, <5>2, QuorumIsPositive DEF Carried
        <4> QED
          BY <2>7, <3>4, <4>3 DEF Gossiped, Dealt, Heeded
      <3>5. t.round <= s.round + 1 /\ t.round \in Nat
        BY <2>3, <2>4, <2>6 DEF States
      <3> QED
        BY <2>3, <2>11, <3>1, <3>2, <3>3, <3>4, <3>5
    <2>12. s \in States
      BY <2>2
    <2>13. Gossiped(u)
      BY <2>4, <2>6, <2>7, <2>9, <2>11, <2>12, HeededOn
    <2> QED
      BY <1>2, <2>5, <2>13
  <1>5. ASSUME NEW n \in Node, NEW ok \in ApplyOutcomes, Reconcile(n, ok)
        PROVE  GossipedEverywhere'
    <2> DEFINE s == bs[n]
               certs == {c \in s.dag : Round[c] = s.round}
               t == Heard(s, certs, TRUE)
    <2>1. ok = TRUE
      BY DEF GossipOnly
    <2>2. s \in States /\ s.round \in Nat /\ certs \subseteq Cert /\ Gossiped(s)
      BY <1>1 DEF States
    <2>3. bs' = [bs EXCEPT ![n] = t]
      BY <1>5, <2>1 DEF Reconcile, Becomes
    <2>4. s.storing = <<>>
      BY <1>5 DEF Reconcile, Idle
    <2> HIDE DEF certs
    <2>5. t \in States /\ Remains(s, t)
      BY <2>2, HeardKeeps
    <2>6. /\ Whole(t) /\ Stays(s, t)
          /\ t.round = s.round \/ (t.round = s.round + 1 /\ Settles(s, t, s.round))
      BY <1>1, <2>2, HeardSettles
    <2> HIDE DEF s, t
    <2>7. Finished(s) = s.dag /\ Finished(t) = s.dag
      BY <2>4, <2>5, NothingInHand DEF Remains
    <2>8. ASSUME NEW a \in Cert, Carried(Finished(t), a), Round[a] + 1 < t.round
          PROVE  Settled(s, a) \/ Settles(s, t, Round[a] + 1)
      <3>1. Round[a] \in Nat /\ t.round <= s.round + 1 /\ t.round \in Nat
        <4>1. t.round = s.round \/ t.round = s.round + 1
          BY <2>6
        <4>2. Round[a] \in Nat
          BY GraphIsTyped
        <4> QED
          BY <2>2, <4>1, <4>2
      <3>2. CASE Round[a] + 1 = s.round
        <4>1. t.round = s.round + 1
          BY <2>2, <2>6, <2>8, <3>1, <3>2
        <4> QED
          BY <2>2, <2>6, <3>2, <4>1
      <3>3. CASE Round[a] + 1 < s.round
        BY <2>2, <2>7, <2>8, <3>3 DEF Gossiped, Dealt, Heeded
      <3> QED
        BY <2>2, <2>8, <3>1, <3>2, <3>3
    <2>9. Leaves(t, t)
      BY DEF Leaves
    <2>10. Gossiped(t)
      BY <2>2, <2>5, <2>6, <2>8, <2>9, HeededOn
    <2> QED
      BY <1>2, <2>3, <2>10
  <1>6. ASSUME NEW n \in Node, NEW r \in Rounds, FastForward(n, r + 1)
        PROVE  GossipedEverywhere'
    <2> DEFINE s == bs[n]
               q == r + 1
               t == Ahead(s, q)
    <2>1. q \in Nat /\ s \in States /\ s.round \in Nat /\ Gossiped(s) /\ FrontierIsOrdered(s)
      <3>1. r \in Nat
        BY GraphIsTyped DEF Rounds
      <3>2. s \in States /\ s.round \in Nat
        BY <1>1 DEF States
      <3> QED
        BY <1>1, <3>1, <3>2
    <2>2. q > s.round /\ s.storing = <<>>
      BY <1>6 DEF FastForward, Idle
    <2> HIDE DEF q
    <2>3. bs' = [bs EXCEPT ![n] = t]
      BY <1>1, <1>6 DEF FastForward, TypeOK, States, Ahead, q
    <2> HIDE DEF s
    <2>4. /\ t \in States /\ Spares(s, t) /\ t.dag = s.dag /\ t.storing = s.storing
          /\ t.round = q /\ t.upto = s.upto /\ t.driving = s.driving /\ t.pending = s.pending
          /\ t.jumped = s.jumped \cup UNION {InReach(s, v) : v \in s.round .. (q - 1)}
      BY <2>1, AheadKeeps
    <2> HIDE DEF t
    <2>5. Leaves(s, t)
      BY <2>4 DEF Spares, Leaves
    <2>6. Stays(s, t)
      BY <2>1, <2>5, LeavesStays
    <2>7. Finished(s) = s.dag /\ Finished(t) = s.dag
      BY <2>2, <2>4, NothingInHand
    <2>8. ASSUME NEW a \in Cert, Carried(s.dag, a), Round[a] + 1 < q
          PROVE  Settled(t, a)
      <3>1. Round[a] \in Nat
        BY GraphIsTyped
      <3>2. CASE Round[a] + 1 < s.round
        BY <2>1, <2>6, <2>7, <2>8, <3>2 DEF Gossiped, Dealt, Heeded, Stays
      <3>3. CASE Round[a] + 1 \in s.round .. (q - 1)
        <4>1. a \in s.dag
          <5>1. s.dag \in SUBSET Cert /\ IsFiniteSet(s.dag) /\ Complete(s.dag)
            BY <2>1 DEF States, Gossiped, Dealt, Whole
          <5> QED
            BY <2>8, <5>1, CarriedByMore
        <4>2. a \in Supported(s, Round[a] + 1)
          <5> DEFINE v == Round[a] + 1
          <5>1. v \in Nat /\ Round[a] + 1 = v
            BY <3>1
          <5> HIDE DEF v
          <5>2. a \in Supported(s, v)
            BY <2>1, <2>8, <4>1, <5>1, CarriedIsSupported
          <5> QED
            BY <5>1, <5>2
        <4>3. (Round[a] + 1) % 2 = 0
          BY <2>8, <3>1 DEF Carried, Leads
        <4>4. a \in InReach(s, Round[a] + 1)
          BY <4>2, <4>3 DEF InReach
        <4> QED
          BY <2>4, <3>3, <4>4 DEF Settled
      <3> QED
        BY <2>1, <2>8, <3>1, <3>2, <3>3
    <2>9. Whole(t)
      BY <2>1, <2>4, <2>5 DEF Gossiped, Whole, Leaves
    <2>10. Gossiped(t)
      BY <2>1, <2>4, <2>6, <2>7, <2>8, <2>9 DEF Gossiped, Dealt, Heeded, Stays
    <2> QED
      BY <1>2, <2>3, <2>10
  <1>7. ASSUME NEW n \in Node
        PROVE  /\ ~StartDrive(n) /\ ~TimerFires(n) /\ ~Restart(n)
               /\ \A ok \in ApplyOutcomes : ~Drive(n, ok)
    <2>1. bs[n].upto = 0 /\ bs[n].driving = 0 /\ bs[n].pending = Nothing
      BY <1>1 DEF Gossiped, Dealt, Whole
    <2> QED
      BY <2>1 DEF StartDrive, TimerFires, Drive, Restart, GossipOnly
  <1>8. CASE UNCHANGED vars
    BY <1>8 DEF vars, GossipedEverywhere
  <1> QED
    BY <1>3, <1>4, <1>5, <1>6, <1>7, <1>8 DEF Next, Save, Flush, GossipOnly

LEMMA GossipInvariant ==
    GossipOnly => (Spec => [](TypeOK /\ SoundEverywhere /\ GossipedEverywhere))
  <1> SUFFICES ASSUME GossipOnly
               PROVE  Spec => [](TypeOK /\ SoundEverywhere /\ GossipedEverywhere)
    OBVIOUS
  <1>1. Gossiped(Fresh)
    <2>1. /\ Fresh.dag = {} /\ Fresh.log = <<>> /\ Fresh.pending = Nothing /\ Fresh.last = 0
          /\ Fresh.ordered = {} /\ Fresh.upto = 0 /\ Fresh.driving = 0 /\ Fresh.round = 1
      BY DEF Fresh
    <2>2. Whole(Fresh)
      <3>1. UpTo(<<>>, 0) = {}
        BY DEF UpTo
      <3> QED
        BY <2>1, <3>1 DEF Whole, Complete
    <2>3. ASSUME NEW a \in Cert
          PROVE  ~(Round[a] + 1 < 1)
      BY GraphIsTyped
    <2>4. Dealt(Fresh)
      BY <2>1, <2>3, FS_EmptySet DEF Dealt, FrontierIsOrdered, Heeded
    <2> QED
      BY <2>2, <2>4 DEF Gossiped
  <1>2. Init => GossipedEverywhere
    BY <1>1 DEF Init, GossipedEverywhere
  <1> QED
    BY <1>2, SoundInit, SoundNext, GossipNext, PTL DEF Spec

\* With gossip alone the completeness gate never parks a commit: the waiter
\* has already done its work.
THEOREM GossipNeverParks == GossipOnly => (Spec => []NoCommitParks)
  <1>1. GossipedEverywhere => NoCommitParks
    BY DEF GossipedEverywhere, Gossiped, Whole, NoCommitParks
  <1> QED
    BY <1>1, GossipInvariant, PTL

\* A certificate's ancestry is handed on with it or before it.
THEOREM OrdersCausally == GossipOnly => (Spec => []CausalOrder)
  <1>1. ASSUME TypeOK, GossipedEverywhere
        PROVE  CausalOrder
    <2> SUFFICES ASSUME NEW n \in Node, NEW i \in DOMAIN Log(n), NEW c \in Log(n)[i].certs
                 PROVE  Parents[c] \subseteq UpTo(Log(n), i)
      BY DEF CausalOrder
    <2>1. i \in 1 .. Len(Log(n)) /\ Len(Log(n)) \in Nat
      BY <1>1 DEF TypeOK, States, Log
    <2>2. c \in UpTo(Log(n), i)
      BY <2>1 DEF UpTo
    <2>3. Complete(UpTo(Log(n), i))
      BY <1>1, <2>1 DEF GossipedEverywhere, Gossiped, Whole, Log
    <2> QED
      BY <2>2, <2>3 DEF Complete
  <1> QED
    BY <1>1, GossipInvariant, PTL

\* The sequence of anchors determines the log: whatever a node holds beyond
\* them, and in whatever order it came, two nodes that commit the same anchors
\* hand on the same certificates in every commit.
THEOREM AnchorsDetermineTheLog == GossipOnly => (Spec => []SameAnchorsSameOutput)
  <1>1. ASSUME TypeOK, GossipedEverywhere
        PROVE  SameAnchorsSameOutput
    <2> SUFFICES ASSUME NEW n \in Node, NEW m \in Node, NEW k \in 0 .. Len(Log(n)),
                        k <= Len(Log(m)),
                        \A i \in 1 .. k : Log(n)[i].anchor = Log(m)[i].anchor
                 PROVE  \A i \in 1 .. k : Log(n)[i].certs = Log(m)[i].certs
      BY DEF SameAnchorsSameOutput
    <2> DEFINE f == Log(n)
               g == Log(m)
               Differ == {i \in 1 .. k : f[i].certs # g[i].certs}
    <2> SUFFICES ASSUME Differ # {} PROVE FALSE
      OBVIOUS
    <2>1. Len(f) \in Nat /\ Len(g) \in Nat /\ k \in Nat
      <3>1. f \in Seq(Entries) /\ g \in Seq(Entries)
        BY <1>1 DEF TypeOK, States, Log
      <3> QED
        BY <3>1
    <2>2. PICK i \in Differ : \A j \in Differ : ~(<<j, i>> \in OpToRel(<, Nat))
      <3>1. Differ \subseteq Nat
        BY <2>1
      <3> HIDE DEF Differ
      <3> QED
        BY <3>1, NatLessThanWellFounded, WFMin
    <2>3. i \in 1 .. k /\ i - 1 \in Nat
      BY <2>1
    <2>4. ASSUME NEW j \in 1 .. (i - 1)
          PROVE  f[j].certs = g[j].certs
      <3>1. j < i /\ j \in 1 .. k /\ j \in Nat /\ i \in Nat
        BY <2>1, <2>3
      <3> QED
        BY <2>2, <3>1 DEF OpToRel
    <2>5. UpTo(f, i - 1) = UpTo(g, i - 1)
      <3> HIDE DEF f, g
      <3> QED
        BY <2>3, <2>4, UpToAgrees
    <2>6. i \in 1 .. Len(f) /\ i \in 1 .. Len(g) /\ f[i].anchor = g[i].anchor
      BY <2>1, <2>3
    <2>7. /\ f[i].certs = ({f[i].anchor} \cup Past[f[i].anchor]) \ UpTo(f, i - 1)
          /\ g[i].certs = ({g[i].anchor} \cup Past[g[i].anchor]) \ UpTo(g, i - 1)
      BY <1>1, <2>6 DEF GossipedEverywhere, Gossiped, Whole, Log
    <2> QED
      BY <2>2, <2>5, <2>6, <2>7
  <1> QED
    BY <1>1, GossipInvariant, PTL

\* No anchor is missed, whatever the stamps, wherever peers' batches move the
\* round, and although parked certificates are stored and dealt with before the
\* one that released them: with gossip alone, a node past a vote round for
\* which it holds a quorum of votes has ordered the anchor, a later one, or
\* had a reason the code gives to pass it over.
THEOREM NoAnchorIsMissed == GossipOnly => (Spec => []AnchorsAreOrdered)
  <1>1. ASSUME TypeOK, GossipedEverywhere
        PROVE  AnchorsAreOrdered
    <2> SUFFICES ASSUME NEW n \in Node, Idle(n), NEW v \in 1 .. (bs[n].round - 1),
                        NEW a \in InReach(bs[n], v)
                 PROVE  \/ a \in Output(n)
                        \/ \E i \in DOMAIN Log(n) : Round[Log(n)[i].anchor] > Round[a]
                        \/ Stamp[a] <= bs[n].floor
                        \/ a \in bs[n].jumped
      BY DEF AnchorsAreOrdered
    <2>1. bs[n] \in States /\ Gossiped(bs[n]) /\ bs[n].round \in Nat
      BY <1>1 DEF TypeOK, GossipedEverywhere, States
    <2>2. v % 2 = 0 /\ a \in Supported(bs[n], v) /\ v \in Nat /\ v < bs[n].round
      BY <2>1 DEF InReach
    <2>3. a \in bs[n].dag /\ a \in Cert
      BY <2>1, <2>2 DEF Supported, States
    <2>4. Carried(bs[n].dag, a) /\ Round[a] + 1 = v
      BY <2>1, <2>2, <2>3, CarriedIsSupported
    <2>5. Finished(bs[n]) = bs[n].dag
      BY NothingInHand DEF Idle
    <2>6. Settled(bs[n], a)
      BY <2>1, <2>2, <2>3, <2>4, <2>5 DEF Gossiped, Dealt, Heeded
    <2>7. bs[n].ordered = Output(n)
      BY <2>1 DEF Gossiped, Whole, Output, Log
    <2> QED
      BY <2>6, <2>7 DEF Settled, Log
  <1> QED
    BY <1>1, GossipInvariant, PTL
=============================================================================
