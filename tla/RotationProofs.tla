-------------------------- MODULE RotationProofs --------------------------
(***************************************************************************)
(* Rotation for every set of nodes and every setting: the shape of the     *)
(* state, what signatures are counted, who endorsed each committee, and    *)
(* that nodes at different anchors use the same committee for a round.     *)
(***************************************************************************)
EXTENDS Rotation, FiniteSetTheorems, WellFoundedInduction, TLAPS

LEMMA LargestOf ==
    ASSUME NEW N \in Nat, NEW S \in SUBSET (0..N), S # {}
    PROVE  Max(S) \in S /\ \A y \in S : Max(S) >= y
  <1> DEFINE Less == OpToRel(<, Nat)
             Gaps == {N - x : x \in S}
  <1>1. Gaps \subseteq Nat /\ Gaps # {}
    <2>1. PICK x \in S : TRUE
      OBVIOUS
    <2>2. \A y \in S : y \in 0..N /\ N - y \in Nat
      OBVIOUS
    <2> QED
      BY <2>1, <2>2
  <1>2. IsWellFoundedOn(Less, Nat)
    BY NatLessThanWellFounded
  <1>3. \A x, y \in Nat : <<y, x>> \in Less <=> y < x
    BY DEF OpToRel
  <1> HIDE DEF Less
  <1>4. PICK g \in Gaps : \A h \in Gaps : ~(<<h, g>> \in Less)
    BY <1>1, <1>2, WFMin
  <1>5. PICK x \in S : g = N - x
    OBVIOUS
  <1>6. ASSUME NEW y \in S
        PROVE  x >= y
    <2>1. x \in 0..N /\ y \in 0..N /\ N - y \in Gaps
      OBVIOUS
    <2>2. ~(N - y < g)
      BY <1>1, <1>3, <1>4, <2>1
    <2> QED
      BY <1>5, <2>1, <2>2
  <1> QED
    BY <1>6 DEF Max

LEMMA LargerOfTwo ==
    ASSUME NEW i \in Nat, NEW j \in Nat
    PROVE  Max({i, j}) \in Nat
  <1> DEFINE S == {i, j}
  <1>1. i + j \in Nat /\ S \in SUBSET (0..(i + j)) /\ S # {}
    OBVIOUS
  <1>2. S \subseteq Nat
    OBVIOUS
  <1> HIDE DEF S
  <1>3. Max(S) \in S
    BY <1>1, LargestOf
  <1> QED
    BY <1>2, <1>3 DEF S

----------------------------------------------------------------------------
\* What a rotation carries, wherever it is found: it was proposed, its number
\* is one a row is waiting for, its signatures were all sent.
Carried(payload, sigs) ==
    /\ payload \in Payloads /\ sigs \subseteq Signatures
    /\ payload.number <= Len(rows)
    /\ \E p \in proposals : p.over = payload
    /\ sigs \subseteq proposals \cup signatures

\* A flight is signed by the node that holds it, if that node may sign.
Filed(n, payload, sigs) ==
    /\ Carried(payload, sigs)
    /\ \A s \in sigs : s.over = payload
    /\ n \in rows[payload.number].committee => \E s \in sigs : s.by = n

CarriedAll ==
    /\ \A n \in Node : \A f \in flights[n] : Filed(n, f.payload, f.sigs)
    /\ \A tx \in pool : Carried(tx.payload, tx.sigs)
    /\ \A p \in proposals : p.over.number <= Len(rows)

\* Each row was decided before it came into force, and after the row before it.
RowsInOrder ==
    /\ Len(rows) <= Len(walked) + 1
    /\ \A i \in 1..Len(rows) : rows[i].anchor <= Len(walked)
    /\ \A i \in 2..Len(rows) : rows[i].effective > rows[i].anchor
    /\ \A i, j \in 1..Len(rows) : i < j => rows[i].anchor < rows[j].anchor

RotationInv == TypeOK /\ CarriedAll /\ RowsInOrder

LEMMA KnownRows ==
    ASSUME TypeOK, RowsInOrder, NEW n \in Node
    PROVE  /\ Known(n) \in 1..Len(rows)
           /\ rows[Known(n)].anchor <= done[n]
           /\ \A i \in 1..Len(rows) : rows[i].anchor <= done[n] => i <= Known(n)
  <1> DEFINE S == {i \in 1..Len(rows) : rows[i].anchor <= done[n]}
  <1>1. Len(rows) \in Nat /\ Len(rows) >= 1 /\ rows[1].anchor = 0
    BY NumbersArePositive DEF TypeOK, Numbers, Row0
  <1>2. done[n] \in Nat
    BY DEF TypeOK
  <1>3. 1 \in S /\ S \in SUBSET (0..Len(rows))
    BY <1>1, <1>2
  <1>4. Max(S) \in S /\ \A y \in S : Max(S) >= y
    BY <1>1, <1>3, LargestOf
  <1>5. Known(n) = Max(S)
    BY DEF Known
  <1> QED
    BY <1>1, <1>4, <1>5

LEMMA InForceRow ==
    ASSUME TypeOK, NEW len \in 1..Len(rows), NEW a \in Nat
    PROVE  InForce(len, a) \in 1..len
  <1> DEFINE S == {i \in 1..len : rows[i].effective <= a}
  <1>1. Len(rows) \in Nat /\ rows[1].effective = 0 /\ len \in Nat
    BY NumbersArePositive DEF TypeOK, Numbers, Row0
  <1>2. 1 \in S /\ S \in SUBSET (0..len)
    BY <1>1
  <1>3. Max(S) \in S
    BY <1>1, <1>2, LargestOf
  <1> QED
    BY <1>3 DEF InForce

LEMMA RotationInit == Init => RotationInv
  <1> SUFFICES ASSUME Init PROVE RotationInv
    OBVIOUS
  <1> USE DEF Init
  <1>1. Len(rows) = 1 /\ rows[1] = Row0 /\ Len(walked) = 0
    OBVIOUS
  <1>2. Row0 \in Rows
    BY GenesisIsKnown DEF Row0, Rows
  <1>3. rows \in Seq(Rows) /\ walked \in Seq(SUBSET Node)
    BY <1>2
  <1>4. TypeOK
    BY <1>1, <1>3, NumbersArePositive DEF TypeOK, Numbers
  <1>5. CarriedAll
    BY DEF CarriedAll
  <1>6. RowsInOrder
    BY <1>1 DEF RowsInOrder, Row0
  <1> QED
    BY <1>4, <1>5, <1>6 DEF RotationInv

\* Nothing a payload rests on is ever taken back.
Grows ==
    /\ Len(rows) <= Len(rows')
    /\ \A i \in 1..Len(rows) : rows'[i] = rows[i]
    /\ proposals \subseteq proposals' /\ signatures \subseteq signatures'

LEMMA CarriedStays ==
    ASSUME TypeOK, Grows, Len(rows') \in Nat, NEW payload, NEW sigs, Carried(payload, sigs)
    PROVE  Carried(payload, sigs)'
  <1>1. payload.number \in Nat /\ payload.number <= Len(rows) /\ Len(rows) \in Nat
    BY NumbersArePositive DEF Carried, Payloads, Numbers, TypeOK
  <1>2. payload.number <= Len(rows')
    BY <1>1 DEF Grows
  <1> QED
    BY <1>2 DEF Carried, Grows

LEMMA FiledStays ==
    ASSUME TypeOK, Grows, Len(rows') \in Nat,
           NEW n, NEW payload, NEW sigs, Filed(n, payload, sigs)
    PROVE  Filed(n, payload, sigs)'
  <1>1. Carried(payload, sigs) /\ Carried(payload, sigs)'
    BY CarriedStays DEF Filed
  <1>2. payload.number \in 1..Len(rows)
    BY <1>1 DEF Carried, Payloads, Numbers, TypeOK
  <1> QED
    BY <1>1, <1>2 DEF Filed, Grows

\* What Launch does to the flights and to the pool.
LEMMA LaunchFiles ==
    ASSUME TypeOK, NEW n \in Node, NEW f \in Flights, NEW taken \in BOOLEAN,
           Launch(n, f, taken)
    PROVE  /\ flights' \in [Node -> SUBSET Flights]
           /\ \A m \in Node : \A g, h \in flights'[m] :
                  g.payload.number = h.payload.number => g = h
           /\ \A m \in Node : \A g \in flights'[m] :
                  \/ g \in flights[m]
                  \/ m = n /\ g.payload = f.payload /\ g.sigs = f.sigs
           /\ pool' \subseteq Txs
           /\ \A tx \in pool' : tx \in pool \/ tx = Tx(f)
  <1> DEFINE goes == Submits(f) /\ taken
             new == [f EXCEPT !.submitted = @ \/ goes]
             k == f.payload.number
  <1>1. /\ flights' = [flights EXCEPT ![n] = Others(n, k) \cup {new}]
        /\ pool' = IF goes THEN pool \cup {Tx(f)} ELSE pool
    BY DEF Launch
  <1>2. goes \in BOOLEAN
    BY DEF Submits
  <1>3. /\ new \in Flights /\ new.payload = f.payload /\ new.sigs = f.sigs
    <2> HIDE DEF goes
    <2> QED
      BY <1>2 DEF Flights
  <1> HIDE DEF goes, new
  <1>4. flights \in [Node -> SUBSET Flights] /\ pool \subseteq Txs
    BY DEF TypeOK
  <1>5. Others(n, k) \subseteq flights[n] /\ \A g \in Others(n, k) : g.payload.number # k
    BY DEF Others, Flight
  <1>6. flights'[n] = Others(n, k) \cup {new} /\ \A m \in Node : m # n => flights'[m] = flights[m]
    BY <1>1, <1>4
  <1>7. flights' \in [Node -> SUBSET Flights]
    BY <1>1, <1>3, <1>4, <1>5
  <1>8. \A m \in Node : \A g, h \in flights'[m] : g.payload.number = h.payload.number => g = h
    <2> SUFFICES ASSUME NEW m \in Node, NEW g \in flights'[m], NEW h \in flights'[m],
                        g.payload.number = h.payload.number
                 PROVE  g = h
      OBVIOUS
    <2>1. CASE m = n
      BY <1>3, <1>5, <1>6, <2>1 DEF TypeOK
    <2>2. CASE m # n
      BY <1>6, <2>2 DEF TypeOK
    <2> QED
      BY <2>1, <2>2
  <1>9. Tx(f) \in Txs
    BY DEF Tx, Txs, Flights
  <1> QED
    BY <1>1, <1>3, <1>4, <1>5, <1>6, <1>7, <1>8, <1>9

----------------------------------------------------------------------------
\* A step that appends no row: what it adds to flights and pool is filed and
\* carried, what was there stays so.
LEMMA RotationKeeps ==
    ASSUME RotationInv, TypeOK', UNCHANGED <<walked, rows>>,
           proposals \subseteq proposals', signatures \subseteq signatures',
           \A p \in proposals' : p \in proposals \/ p.over.number <= Len(rows),
           \A m \in Node : \A g \in flights'[m] :
               \/ \E f \in flights[m] : f.payload = g.payload /\ f.sigs = g.sigs
               \/ Filed(m, g.payload, g.sigs)',
           \A tx \in pool' : tx \in pool \/ Carried(tx.payload, tx.sigs)'
    PROVE  RotationInv'
  <1> USE DEF RotationInv
  <1>1. Grows /\ Len(rows') \in Nat
    BY DEF Grows, TypeOK, Numbers
  <1>2. RowsInOrder'
    BY DEF RowsInOrder
  <1>3. \A p \in proposals' : p.over.number <= Len(rows')
    BY DEF CarriedAll
  <1>4. ASSUME NEW m \in Node, NEW g \in flights'[m]
        PROVE  Filed(m, g.payload, g.sigs)'
    <2>1. CASE Filed(m, g.payload, g.sigs)'
      BY <2>1
    <2>2. ASSUME NEW f \in flights[m], f.payload = g.payload, f.sigs = g.sigs
          PROVE  Filed(m, g.payload, g.sigs)'
      <3>1. Filed(m, g.payload, g.sigs)
        BY <2>2 DEF CarriedAll
      <3> QED
        BY <1>1, <3>1, FiledStays
    <2> QED
      BY <2>1, <2>2
  <1>5. ASSUME NEW tx \in pool'
        PROVE  Carried(tx.payload, tx.sigs)'
    <2>1. CASE tx \in pool
      <3>1. Carried(tx.payload, tx.sigs)
        BY <2>1 DEF CarriedAll
      <3> QED
        BY <1>1, <3>1, CarriedStays
    <2> QED
      BY <2>1
  <1>6. CarriedAll'
    BY <1>3, <1>4, <1>5 DEF CarriedAll
  <1> QED
    BY <1>2, <1>6

\* ... and the step launches one flight of one node.
LEMMA LaunchKeeps ==
    ASSUME RotationInv, UNCHANGED <<walked, rows>>,
           done' \in [Node -> 0..Len(walked)],
           NEW n \in Node, NEW f \in Flights, NEW taken \in BOOLEAN, Launch(n, f, taken),
           proposals \subseteq proposals', proposals' \subseteq Signatures,
           signatures \subseteq signatures', signatures' \subseteq Signatures,
           \A p \in proposals' : p \in proposals \/ p.over.number <= Len(rows),
           Filed(n, f.payload, f.sigs)'
    PROVE  RotationInv'
  <1>1. TypeOK
    BY DEF RotationInv
  <1>2. /\ flights' \in [Node -> SUBSET Flights]
        /\ \A m \in Node : \A g, h \in flights'[m] :
               g.payload.number = h.payload.number => g = h
        /\ \A m \in Node : \A g \in flights'[m] :
               \/ g \in flights[m]
               \/ m = n /\ g.payload = f.payload /\ g.sigs = f.sigs
        /\ pool' \subseteq Txs
        /\ \A tx \in pool' : tx \in pool \/ tx = Tx(f)
    BY <1>1, LaunchFiles
  <1>3. TypeOK'
    BY <1>1, <1>2 DEF TypeOK
  <1>4. Tx(f).payload = f.payload /\ Tx(f).sigs = f.sigs
    BY DEF Tx
  <1>5. Carried(f.payload, f.sigs)'
    BY DEF Filed
  <1>6. \A tx \in pool' : tx \in pool \/ Carried(tx.payload, tx.sigs)'
    BY <1>2, <1>4, <1>5
  <1>7. \A m \in Node : \A g \in flights'[m] :
            \/ \E h \in flights[m] : h.payload = g.payload /\ h.sigs = g.sigs
            \/ Filed(m, g.payload, g.sigs)'
    BY <1>2
  <1> QED
    BY <1>3, <1>6, <1>7, RotationKeeps

\* A flight that is joined keeps its payload and grows by a sent signature
\* over it.
LEMMA JoinKeeps ==
    ASSUME RotationInv, UNCHANGED <<walked, rows, done, proposals>>,
           signatures \subseteq signatures', signatures' \subseteq Signatures,
           NEW n \in Node, NEW f \in flights[n], NEW s \in Signatures,
           s.over = f.payload, s \in proposals' \cup signatures',
           NEW taken \in BOOLEAN, Launch(n, [f EXCEPT !.sigs = @ \cup {s}], taken)
    PROVE  RotationInv'
  <1> DEFINE g == [f EXCEPT !.sigs = @ \cup {s}]
  <1>1. TypeOK /\ f \in Flights
    BY DEF RotationInv, TypeOK
  <1>2. g \in Flights /\ g.payload = f.payload /\ g.sigs = f.sigs \cup {s}
    BY <1>1 DEF Flights
  <1>3. Filed(n, f.payload, f.sigs)
    BY DEF RotationInv, CarriedAll
  <1>4. Grows /\ Len(rows') \in Nat
    BY <1>1 DEF Grows, TypeOK, Numbers
  <1>5. Filed(n, f.payload, f.sigs)'
    BY <1>1, <1>3, <1>4, FiledStays
  <1>6. Filed(n, g.payload, g.sigs)'
    BY <1>2, <1>5 DEF Filed, Carried
  <1>7. done' \in [Node -> 0..Len(walked)] /\ proposals' \subseteq Signatures
    BY <1>1 DEF TypeOK
  <1>8. Launch(n, g, taken)
    OBVIOUS
  <1> HIDE DEF g
  <1> QED
    BY <1>2, <1>6, <1>7, <1>8, LaunchKeeps

LEMMA OutcomeIsBoolean ==
    ASSUME NEW n, NEW taken \in Outcomes(n)
    PROVE  taken \in BOOLEAN
  BY DEF Outcomes

LEMMA PayloadTyped ==
    ASSUME TypeOK, NEW len \in 1..Len(rows), NEW a \in Nat
    PROVE  /\ Payload(len, a) \in Payloads
           /\ Payload(len, a).number = len
  <1>1. len \in Numbers
    BY NumbersArePositive DEF TypeOK, Numbers
  <1>2. NextCommittee(len, a) \subseteq Node
    BY GenesisIsKnown DEF NextCommittee
  <1>3. rows[len] \in Rows
    BY DEF TypeOK
  <1>4. a + Lead \in Nat /\ rows[len].effective + 1 \in Nat
    BY <1>3, NumbersArePositive DEF Rows
  <1>5. Max({a + Lead, rows[len].effective + 1}) \in Nat
    BY <1>4, LargerOfTwo
  <1> QED
    BY <1>1, <1>2, <1>5 DEF Payload, Payloads

\* The proposal, for the payload the leader has computed.
LEMMA ProposeKeeps ==
    ASSUME RotationInv, UNCHANGED <<walked, rows, signatures>>,
           done' \in [Node -> 0..Len(walked)],
           NEW n \in Node, NEW payload \in Payloads, payload.number \in 1..Len(rows),
           NEW taken \in BOOLEAN, Propose(n, payload, taken)
    PROVE  RotationInv'
  <1> DEFINE mine == Sig(n, payload)
             fresh == [payload |-> payload, proposer |-> n, submitted |-> FALSE,
                       sigs |-> {mine}]
  <1>1. TypeOK /\ CarriedAll /\ Len(rows) \in Nat
    BY DEF RotationInv, TypeOK, Numbers
  <1>2. mine \in Signatures /\ mine.over = payload /\ mine.by = n
    BY DEF Sig, Signatures
  <1>3. fresh \in Flights /\ fresh.payload = payload /\ fresh.sigs = {mine}
    BY <1>2 DEF Flights
  <1>4. CASE UNCHANGED <<flights, proposals, pool>>
    <2>1. TypeOK'
      BY <1>1, <1>4 DEF TypeOK
    <2> QED
      BY <1>4, <2>1, RotationKeeps
  <1>5. ASSUME NEW f \in Flight(n, payload.number), Launch(n, f, taken), UNCHANGED proposals
        PROVE  RotationInv'
    <2>1. f \in flights[n] /\ f \in Flights
      BY <1>1 DEF Flight, TypeOK
    <2>2. Filed(n, f.payload, f.sigs)
      BY <1>1, <2>1 DEF CarriedAll
    <2>3. Grows /\ Len(rows') \in Nat
      BY <1>1, <1>5 DEF Grows
    <2>4. Filed(n, f.payload, f.sigs)'
      BY <1>1, <2>2, <2>3, FiledStays
    <2>5. proposals' \subseteq Signatures /\ signatures' \subseteq Signatures
      BY <1>1, <1>5 DEF TypeOK
    <2> QED
      BY <1>5, <2>1, <2>4, <2>5, LaunchKeeps
  <1>6. ASSUME Launch(n, fresh, taken), proposals' = proposals \cup {mine}
        PROVE  RotationInv'
    <2> HIDE DEF mine, fresh
    <2>1. Carried(payload, {mine})'
      BY <1>1, <1>2, <1>6 DEF Carried
    <2>2. Filed(n, fresh.payload, fresh.sigs)'
      BY <1>2, <1>3, <2>1 DEF Filed
    <2>3. proposals' \subseteq Signatures /\ signatures' \subseteq Signatures
      BY <1>1, <1>2, <1>6 DEF TypeOK
    <2>4. \A p \in proposals' : p \in proposals \/ p.over.number <= Len(rows)
      BY <1>1, <1>2, <1>6
    <2> QED
      BY <1>3, <1>6, <2>2, <2>3, <2>4, LaunchKeeps
  <1> QED
    BY <1>4, <1>5, <1>6 DEF Propose

LEMMA CommitKeeps ==
    ASSUME RotationInv, NEW n \in Node, NEW taken \in Outcomes(n), CommitAnchor(n, taken)
    PROVE  RotationInv'
  <1>1. TypeOK /\ taken \in BOOLEAN
    BY OutcomeIsBoolean DEF RotationInv
  <1>2. PICK len \in 1..Len(rows) : len = Known(n)
    BY <1>1, KnownRows DEF RotationInv
  <1>3. PICK a \in 0..Len(walked) : a = done[n] + 1
    BY <1>1 DEF CommitAnchor, TypeOK
  <1>4. done' \in [Node -> 0..Len(walked)] /\ UNCHANGED <<walked, rows, signatures>>
    BY <1>1, <1>3 DEF CommitAnchor, TypeOK
  <1>5. CASE UNCHANGED <<flights, proposals, pool>>
    <2>1. TypeOK'
      BY <1>1, <1>4, <1>5 DEF TypeOK
    <2> QED
      BY <1>4, <1>5, <2>1, RotationKeeps
  <1>6. CASE Propose(n, Payload(len, a), taken)
    <2>1. PICK payload \in Payloads : payload = Payload(len, a) /\ payload.number = len
      BY <1>1, PayloadTyped
    <2> QED
      BY <1>1, <1>4, <1>6, <2>1, ProposeKeeps
  <1> QED
    BY <1>2, <1>3, <1>5, <1>6 DEF CommitAnchor

\* A flight launched again as it is.
LEMMA RelaunchKeeps ==
    ASSUME RotationInv, UNCHANGED <<walked, rows, done, proposals>>,
           signatures \subseteq signatures', signatures' \subseteq Signatures,
           NEW n \in Node, NEW f \in flights[n], NEW taken \in BOOLEAN, Launch(n, f, taken)
    PROVE  RotationInv'
  <1>1. TypeOK /\ f \in Flights
    BY DEF RotationInv, TypeOK
  <1>2. Filed(n, f.payload, f.sigs)
    BY DEF RotationInv, CarriedAll
  <1>3. Grows /\ Len(rows') \in Nat
    BY <1>1 DEF Grows, TypeOK, Numbers
  <1>4. Filed(n, f.payload, f.sigs)'
    BY <1>1, <1>2, <1>3, FiledStays
  <1>5. done' \in [Node -> 0..Len(walked)] /\ proposals' \subseteq Signatures
    BY <1>1 DEF TypeOK
  <1> QED
    BY <1>1, <1>4, <1>5, LaunchKeeps

LEMMA OnProposalKeeps ==
    ASSUME RotationInv, NEW n \in Node, NEW p \in proposals, NEW taken \in Outcomes(n),
           OnProposal(n, p, taken)
    PROVE  RotationInv'
  <1> DEFINE k == p.over.number
             mine == Sig(n, p.over)
             first == [payload |-> p.over, proposer |-> p.by, submitted |-> FALSE, sigs |-> {p}]
             both == [first EXCEPT !.sigs = @ \cup {mine}]
  <1>1. TypeOK /\ CarriedAll /\ taken \in BOOLEAN
    BY OutcomeIsBoolean DEF RotationInv
  <1>2. p \in Signatures /\ p.over \in Payloads /\ p.by \in Node /\ k <= Len(rows)
    BY <1>1 DEF TypeOK, Signatures, CarriedAll
  <1>3. mine \in Signatures /\ mine.over = p.over /\ mine.by = n
    BY <1>2 DEF Sig, Signatures
  <1>4. first \in Flights /\ first.payload = p.over /\ first.sigs = {p}
    BY <1>2 DEF Flights
  <1>5. both \in Flights /\ both.payload = p.over /\ both.sigs = {p, mine}
    BY <1>2, <1>3 DEF Flights
  <1>6. UNCHANGED <<walked, rows, done, proposals>>
    BY DEF OnProposal
  <1>7. /\ done' \in [Node -> 0..Len(walked)] /\ proposals' \subseteq Signatures
        /\ \A q \in proposals' : q \in proposals
    BY <1>1, <1>6 DEF TypeOK
  <1>8. signatures' = signatures \/ signatures' = signatures \cup {mine}
    BY DEF OnProposal
  <1>9. signatures \subseteq signatures' /\ signatures' \subseteq Signatures
    BY <1>1, <1>3, <1>8 DEF TypeOK
  <1>10. CASE Flight(n, k) = {}
    <2>1. Merged(first, p) = first
      BY <1>4 DEF Merged
    <2>2. \/ /\ n \in rows[k].committee /\ \A s \in first.sigs : s.by # n
             /\ Launch(n, both, taken) /\ signatures' = signatures \cup {mine}
          \/ /\ ~(n \in rows[k].committee /\ \A s \in first.sigs : s.by # n)
             /\ Launch(n, first, taken) /\ UNCHANGED signatures
      <3> HIDE DEF first
      <3> QED
        BY <1>10, <2>1 DEF OnProposal, first
    <2>3. CASE Launch(n, both, taken) /\ signatures' = signatures \cup {mine}
      <3>1. Carried(both.payload, both.sigs)'
        <4> HIDE DEF both
        <4> QED
          BY <1>2, <1>3, <1>5, <1>6, <2>3 DEF Carried
      <3>2. Filed(n, both.payload, both.sigs)'
        <4> HIDE DEF both
        <4> QED
          BY <1>3, <1>5, <3>1 DEF Filed
      <3> HIDE DEF both
      <3> QED
        BY <1>1, <1>5, <1>6, <1>7, <1>9, <2>3, <3>2, LaunchKeeps
    <2>4. CASE /\ ~(n \in rows[k].committee /\ \A s \in first.sigs : s.by # n)
               /\ Launch(n, first, taken) /\ UNCHANGED signatures
      <3> HIDE DEF first
      <3>1. Carried(first.payload, first.sigs)'
        BY <1>2, <1>4, <1>6, <2>4 DEF Carried
      <3>2. Filed(n, first.payload, first.sigs)'
        BY <1>4, <1>6, <2>4, <3>1 DEF Filed
      <3> QED
        BY <1>1, <1>4, <1>6, <1>7, <1>9, <2>4, <3>2, LaunchKeeps
    <2> QED
      BY <2>2, <2>3, <2>4
  <1>11. CASE Flight(n, k) # {}
    <2>1. PICK f \in Flight(n, k) :
              LET merged == Merged(f, p)
                  signs == n \in rows[k].committee /\ \A s \in merged.sigs : s.by # n
              IN  IF signs
                  THEN /\ Launch(n, [merged EXCEPT !.sigs = @ \cup {mine}], taken)
                       /\ signatures' = signatures \cup {mine}
                  ELSE Launch(n, merged, taken) /\ UNCHANGED signatures
      BY <1>11 DEF OnProposal
    <2>2. f \in flights[n] /\ f.payload.number = k /\ f \in Flights
      BY <1>1 DEF Flight, TypeOK
    <2>3. Filed(n, f.payload, f.sigs)
      BY <1>1, <2>2 DEF CarriedAll
    <2>4. CASE Merged(f, p) = f
      <3>1. Launch(n, f, taken)
        BY <2>1, <2>2, <2>3, <2>4 DEF Filed
      <3> QED
        BY <1>1, <1>6, <1>9, <2>2, <3>1, RelaunchKeeps
    <2>5. CASE f.payload = p.over /\ Merged(f, p) = [f EXCEPT !.sigs = @ \cup {p}]
      <3>1. f.sigs \subseteq Merged(f, p).sigs
        BY <2>2, <2>5 DEF Flights
      <3>2. Launch(n, Merged(f, p), taken)
        BY <2>1, <2>2, <2>3, <3>1 DEF Filed
      <3> QED
        BY <1>1, <1>2, <1>6, <1>9, <2>2, <2>5, <3>2, JoinKeeps
    <2> QED
      BY <2>4, <2>5 DEF Merged
  <1> QED
    BY <1>10, <1>11

LEMMA OnSignatureKeeps ==
    ASSUME RotationInv, NEW n \in Node, NEW s \in signatures, NEW taken \in Outcomes(n),
           OnSignature(n, s, taken)
    PROVE  RotationInv'
  <1>1. TypeOK /\ taken \in BOOLEAN /\ s \in Signatures
    BY OutcomeIsBoolean DEF RotationInv, TypeOK
  <1>2. PICK f \in flights[n] :
            Accepts(f, s) /\ Launch(n, [f EXCEPT !.sigs = @ \cup {s}], taken)
    BY DEF OnSignature, Flight
  <1>3. UNCHANGED <<walked, rows, done, proposals, signatures>> /\ s.over = f.payload
    BY <1>2 DEF OnSignature, Accepts
  <1>4. signatures' \subseteq Signatures
    BY <1>1, <1>3 DEF TypeOK
  <1> QED
    BY <1>1, <1>2, <1>3, <1>4, JoinKeeps

LEMMA PullKeeps ==
    ASSUME RotationInv, NEW n \in Node, NEW m \in Node, NEW g \in flights[m],
           NEW s \in g.sigs, NEW taken \in Outcomes(n), PullSignature(n, m, s, taken)
    PROVE  RotationInv'
  <1>1. TypeOK /\ taken \in BOOLEAN
    BY OutcomeIsBoolean DEF RotationInv
  <1>2. s \in Signatures /\ s \in proposals \cup signatures
    BY DEF RotationInv, CarriedAll, Filed, Carried
  <1>3. PICK f \in flights[n] :
            Accepts(f, s) /\ Launch(n, [f EXCEPT !.sigs = @ \cup {s}], taken)
    BY DEF PullSignature, Flight
  <1>4. UNCHANGED <<walked, rows, done, proposals, signatures>> /\ s.over = f.payload
    BY <1>3 DEF PullSignature, Accepts
  <1>5. signatures' \subseteq Signatures
    BY <1>1, <1>4 DEF TypeOK
  <1> QED
    BY <1>1, <1>2, <1>3, <1>4, <1>5, JoinKeeps

LEMMA RebroadcastKeeps ==
    ASSUME RotationInv, NEW n \in Node, Rebroadcast(n)
    PROVE  RotationInv'
  <1>1. TypeOK /\ UNCHANGED <<walked, rows, done, flights, proposals, pool>>
    BY DEF RotationInv, Rebroadcast
  <1>2. signatures \subseteq signatures' /\ signatures' \subseteq Signatures
    BY <1>1 DEF Rebroadcast, TypeOK, Flights
  <1>3. TypeOK'
    BY <1>1, <1>2 DEF TypeOK
  <1> QED
    BY <1>1, <1>2, <1>3, RotationKeeps

LEMMA DropKeeps ==
    ASSUME RotationInv, NEW n \in Node,
           \/ \E f \in flights[n] : Expire(n, f)
           \/ \E a \in 1..MaxAnchor : Install(n, a)
    PROVE  RotationInv'
  <1>1. TypeOK /\ UNCHANGED <<walked, rows, proposals, signatures, pool>>
    BY DEF RotationInv, Expire, Install
  <1>2. done' \in [Node -> 0..Len(walked)]
    BY <1>1 DEF TypeOK, Expire, Install
  <1>3. flights' \in [Node -> SUBSET Flights] /\ \A m \in Node : flights'[m] \subseteq flights[m]
    BY <1>1 DEF TypeOK, Expire, Install
  <1>4. TypeOK'
    BY <1>1, <1>2, <1>3 DEF TypeOK
  <1> QED
    BY <1>1, <1>3, <1>4, RotationKeeps

LEMMA FetchKeeps ==
    ASSUME RotationInv, NEW n \in Node, NEW tx \in pool, FetchTx(n, tx)
    PROVE  RotationInv'
  <1> DEFINE k == tx.payload.number
             Moved(f) == IF f \in Flight(n, k) THEN [f EXCEPT !.submitted = TRUE] ELSE f
  <1>1. TypeOK /\ CarriedAll /\ tx \in Txs
    BY DEF RotationInv, TypeOK
  <1>2. UNCHANGED <<walked, rows, done, proposals, signatures>>
    BY DEF FetchTx
  <1>3. flights' = [flights EXCEPT ![n] = {Moved(f) : f \in flights[n]}]
    BY DEF FetchTx
  <1>4. PICK new \in Txs : /\ pool' = pool \cup {new}
                          /\ new.payload = tx.payload /\ new.sigs \subseteq tx.sigs
    <2> DEFINE new == [tx EXCEPT !.sigs = Countable(tx)]
    <2>1. new \in Txs /\ new.payload = tx.payload /\ new.sigs \subseteq tx.sigs
      BY <1>1 DEF Txs, Countable
    <2> QED
      BY <2>1 DEF FetchTx
  <1>5. flights \in [Node -> SUBSET Flights]
    BY <1>1 DEF TypeOK
  <1>6. ASSUME NEW f \in Flights
        PROVE  /\ Moved(f) \in Flights
               /\ Moved(f).payload = f.payload /\ Moved(f).sigs = f.sigs
    BY DEF Flights
  <1> HIDE DEF Moved
  <1>7. flights'[n] = {Moved(f) : f \in flights[n]} /\ \A m \in Node : m # n => flights'[m] = flights[m]
    BY <1>3, <1>5
  <1>8. flights' \in [Node -> SUBSET Flights]
    BY <1>3, <1>5, <1>6
  <1>9. \A m \in Node : \A g, h \in flights'[m] : g.payload.number = h.payload.number => g = h
    <2> SUFFICES ASSUME NEW m \in Node, NEW g \in flights'[m], NEW h \in flights'[m],
                        g.payload.number = h.payload.number
                 PROVE  g = h
      OBVIOUS
    <2>1. CASE m = n
      <3>1. PICK f1 \in flights[n], f2 \in flights[n] : g = Moved(f1) /\ h = Moved(f2)
        BY <1>7, <2>1
      <3>2. f1.payload.number = f2.payload.number
        BY <1>5, <1>6, <3>1
      <3> QED
        BY <1>1, <3>1, <3>2 DEF TypeOK
    <2>2. CASE m # n
      BY <1>1, <1>7, <2>2 DEF TypeOK
    <2> QED
      BY <2>1, <2>2
  <1>10. TypeOK'
    BY <1>1, <1>2, <1>4, <1>8, <1>9 DEF TypeOK
  <1>11. \A m \in Node : \A g \in flights'[m] :
             \E f \in flights[m] : f.payload = g.payload /\ f.sigs = g.sigs
    BY <1>5, <1>6, <1>7
  <1>12. Carried(tx.payload, tx.sigs)
    BY <1>1 DEF CarriedAll
  <1>13. Grows /\ Len(rows') \in Nat
    BY <1>1, <1>2 DEF Grows, TypeOK, Numbers
  <1>14. Carried(tx.payload, tx.sigs)'
    BY <1>1, <1>12, <1>13, CarriedStays
  <1>15. Carried(new.payload, new.sigs)'
    BY <1>4, <1>14 DEF Carried
  <1>16. \A t \in pool' : t \in pool \/ Carried(t.payload, t.sigs)'
    BY <1>4, <1>15
  <1> QED
    BY <1>2, <1>10, <1>11, <1>16, RotationKeeps

LEMMA OrderKeeps ==
    ASSUME RotationInv, NEW walk \in Walks, NEW batch \in SUBSET pool, Order(walk, batch)
    PROVE  /\ RotationInv'
           /\ \A a \in 0..Len(walked') : CommitteeNow(a)' = CommitteeNow(a)
  <1>1. PICK a \in Nat : a = Len(walked) + 1
    BY DEF RotationInv, TypeOK
  <1>2. /\ TypeOK /\ CarriedAll /\ RowsInOrder
        /\ Len(rows) \in Nat /\ Len(rows) >= 1 /\ Len(walked) \in Nat /\ a <= MaxAnchor
    BY <1>1 DEF RotationInv, TypeOK, Numbers, Order
  <1>3. /\ walked' \in Seq(SUBSET Node) /\ Len(walked') = a
        /\ UNCHANGED <<done, flights, proposals, signatures, pool>>
    BY <1>1, <1>2, WalksAreNodes DEF Order, TypeOK
  <1>4. done' \in [Node -> 0..Len(walked')]
    BY <1>1, <1>2, <1>3 DEF TypeOK
  <1>5. CASE UNCHANGED rows
    <2>1. TypeOK'
      BY <1>2, <1>3, <1>4, <1>5 DEF TypeOK
    <2>2. CarriedAll'
      BY <1>2, <1>3, <1>5 DEF CarriedAll, Filed, Carried
    <2>3. RowsInOrder'
      <3>1. \A i \in 1..Len(rows) : rows[i] \in Rows
        BY <1>2 DEF TypeOK
      <3> QED
        BY <1>1, <1>2, <1>3, <1>5, <3>1 DEF RowsInOrder, Rows
    <2>4. \A b \in 0..Len(walked') : CommitteeNow(b)' = CommitteeNow(b)
      BY <1>5 DEF CommitteeNow, CommitteeAt, InForce
    <2> QED
      BY <2>1, <2>2, <2>3, <2>4 DEF RotationInv
  <1>6. ASSUME NEW tx \in pool, CanRotate(tx, a),
               rows' = Append(rows, [committee |-> tx.payload.committee,
                                     effective |-> tx.payload.effective, anchor |-> a])
        PROVE  /\ RotationInv'
               /\ \A b \in 0..Len(walked') : CommitteeNow(b)' = CommitteeNow(b)
    <2> DEFINE row == [committee |-> tx.payload.committee,
                       effective |-> tx.payload.effective, anchor |-> a]
               k == Len(rows)
    <2>1. tx.payload \in Payloads
      BY <1>2 DEF TypeOK, Txs
    <2>2. row \in Rows /\ row.anchor = a /\ row.effective > a
      BY <1>6, <2>1 DEF Rows, Payloads, CanRotate
    <2> HIDE DEF row
    <2>3. /\ rows' \in Seq(Rows) /\ Len(rows') = k + 1
          /\ \A i \in 1..k : rows'[i] = rows[i]
          /\ rows'[k + 1] = row
      BY <1>2, <1>6, <2>2 DEF TypeOK, row
    <2>4. \A i \in 1..k + 1 : i \in 1..k \/ i = k + 1
      BY <1>2
    <2>5. TypeOK'
      <3>1. Len(rows') \in Numbers
        BY <1>1, <1>2, <2>3, NumbersArePositive DEF Numbers, RowsInOrder
      <3>2. rows'[1] = Row0
        BY <1>2, <2>3 DEF TypeOK
      <3>3. walked' \in Seq(SUBSET Node) /\ Len(walked') <= MaxAnchor
        BY <1>2, <1>3
      <3> QED
        BY <1>2, <1>3, <1>4, <2>3, <3>1, <3>2, <3>3 DEF TypeOK
    <2>6. CarriedAll'
      <3>1. Grows /\ Len(rows') \in Nat
        BY <1>2, <1>3, <2>3 DEF Grows
      <3>2. ASSUME NEW n \in Node, NEW f \in flights[n]
            PROVE  Filed(n, f.payload, f.sigs)'
        <4>1. Filed(n, f.payload, f.sigs)
          BY <1>2 DEF CarriedAll
        <4> QED
          BY <1>2, <3>1, <4>1, FiledStays
      <3>3. ASSUME NEW t \in pool
            PROVE  Carried(t.payload, t.sigs)'
        <4>1. Carried(t.payload, t.sigs)
          BY <1>2 DEF CarriedAll
        <4> QED
          BY <1>2, <3>1, <4>1, CarriedStays
      <3>4. ASSUME NEW p \in proposals
            PROVE  p.over.number <= Len(rows')
        <4>1. p.over \in Payloads /\ p.over.number <= k
          BY <1>2 DEF TypeOK, Signatures, CarriedAll
        <4>2. p.over.number \in Nat
          BY <4>1, NumbersArePositive DEF Payloads, Numbers
        <4> QED
          BY <1>2, <2>3, <4>1, <4>2
      <3> QED
        BY <1>3, <3>2, <3>3, <3>4 DEF CarriedAll
    <2>7. RowsInOrder'
      <3>1. \A i \in 1..k : rows[i].anchor \in Nat /\ rows[i].effective \in Nat
        <4>1. \A i \in 1..k : rows[i] \in Rows
          BY <1>2 DEF TypeOK
        <4> QED
          BY <4>1 DEF Rows
      <3>2. \A i \in 1..k : rows'[i].anchor < a /\ rows'[i].anchor \in Nat
        BY <1>1, <1>2, <2>3, <3>1 DEF RowsInOrder
      <3>3. \A i \in 1..k + 1 : rows'[i].anchor <= a
        BY <1>1, <2>2, <2>3, <2>4, <3>2
      <3>4. \A i \in 2..k + 1 : rows'[i].effective > rows'[i].anchor
        BY <1>2, <2>2, <2>3, <2>4 DEF RowsInOrder
      <3>5. \A i, j \in 1..k + 1 : i < j => rows'[i].anchor < rows'[j].anchor
        BY <1>2, <2>2, <2>3, <2>4, <3>2 DEF RowsInOrder
      <3>6. k + 1 <= a + 1
        BY <1>1, <1>2 DEF RowsInOrder
      <3> QED
        BY <1>3, <2>3, <3>3, <3>4, <3>5, <3>6 DEF RowsInOrder
    <2>8. ASSUME NEW b \in 0..Len(walked')
          PROVE  CommitteeNow(b)' = CommitteeNow(b)
      <3>1. b \in Nat /\ b <= a
        BY <1>1, <1>3
      <3>2. ~(rows'[k + 1].effective <= b)
        BY <1>1, <2>2, <2>3, <3>1 DEF Rows
      <3>3. {i \in 1..k + 1 : rows'[i].effective <= b} = {i \in 1..k : rows[i].effective <= b}
        BY <1>2, <2>3, <2>4, <3>2
      <3>4. InForce(k, b) \in 1..k
        BY <1>2, <3>1, InForceRow
      <3>5. CommitteeNow(b)' = rows'[Max({i \in 1..k + 1 : rows'[i].effective <= b})].committee
        BY <2>3 DEF CommitteeNow, CommitteeAt, InForce
      <3>6. CommitteeNow(b) = rows[InForce(k, b)].committee
        BY DEF CommitteeNow, CommitteeAt
      <3> QED
        BY <2>3, <3>3, <3>4, <3>5, <3>6 DEF InForce
    <2> QED
      BY <2>5, <2>6, <2>7, <2>8 DEF RotationInv
  <1> QED
    BY <1>1, <1>5, <1>6 DEF Order

\* Every step but Order leaves the rows and the order of anchors alone.
LEMMA OnlyOrderDecides ==
    ASSUME RotationInv, [Next]_vars
    PROVE  /\ RotationInv'
           /\ \/ \E walk \in Walks, batch \in SUBSET pool : Order(walk, batch)
              \/ /\ UNCHANGED <<walked, rows>>
                 /\ proposals \subseteq proposals' /\ signatures \subseteq signatures'
  <1>1. ASSUME NEW walk \in Walks, NEW batch \in SUBSET pool, Order(walk, batch)
        PROVE  RotationInv'
    BY <1>1, OrderKeeps
  <1>2. ASSUME NEW n \in Node, NEW taken \in Outcomes(n), CommitAnchor(n, taken)
        PROVE  RotationInv' /\ UNCHANGED <<walked, rows, signatures>> /\ proposals \subseteq proposals'
    BY <1>2, CommitKeeps DEF CommitAnchor, Propose
  <1>3. ASSUME NEW n \in Node, NEW p \in proposals, NEW taken \in Outcomes(n),
               OnProposal(n, p, taken)
        PROVE  /\ RotationInv' /\ UNCHANGED <<walked, rows, proposals>>
               /\ signatures \subseteq signatures'
    BY <1>3, OnProposalKeeps DEF OnProposal
  <1>4. ASSUME NEW n \in Node, NEW s \in signatures, NEW taken \in Outcomes(n),
               OnSignature(n, s, taken)
        PROVE  RotationInv' /\ UNCHANGED <<walked, rows, proposals, signatures>>
    BY <1>4, OnSignatureKeeps DEF OnSignature
  <1>5. ASSUME NEW n \in Node, Rebroadcast(n)
        PROVE  /\ RotationInv' /\ UNCHANGED <<walked, rows, proposals>>
               /\ signatures \subseteq signatures'
    BY <1>5, RebroadcastKeeps DEF Rebroadcast
  <1>6. ASSUME NEW n \in Node,
               \/ \E f \in flights[n] : Expire(n, f)
               \/ \E a \in 1..MaxAnchor : Install(n, a)
        PROVE  RotationInv' /\ UNCHANGED <<walked, rows, proposals, signatures>>
    BY <1>6, DropKeeps DEF Expire, Install
  <1>7. ASSUME NEW n \in Node, NEW tx \in pool, FetchTx(n, tx)
        PROVE  RotationInv' /\ UNCHANGED <<walked, rows, proposals, signatures>>
    BY <1>7, FetchKeeps DEF FetchTx
  <1>8. ASSUME NEW n \in Node, NEW m \in Node, NEW g \in flights[m], NEW s \in g.sigs,
               NEW taken \in Outcomes(n), PullSignature(n, m, s, taken)
        PROVE  RotationInv' /\ UNCHANGED <<walked, rows, proposals, signatures>>
    BY <1>8, PullKeeps DEF PullSignature
  <1>9. CASE UNCHANGED vars
    <2>1. RotationInv'
      BY <1>9 DEF vars, RotationInv, TypeOK, CarriedAll, Carried, Filed, RowsInOrder
    <2> QED
      BY <1>9, <2>1 DEF vars
  <1> QED
    BY <1>1, <1>2, <1>3, <1>4, <1>5, <1>6, <1>7, <1>8, <1>9 DEF Next

LEMMA RotationAlways == Spec => []RotationInv
  <1>1. RotationInv /\ [Next]_vars => RotationInv'
    BY OnlyOrderDecides
  <1> QED
    BY RotationInit, <1>1, PTL DEF Spec

----------------------------------------------------------------------------
\* The state has its shape, one flight per rotation number included.
THEOREM TypeCorrect == Spec => []TypeOK
  <1>1. RotationInv => TypeOK
    BY DEF RotationInv
  <1> QED
    BY RotationAlways, <1>1, PTL

\* A node that signs files its signature with the payload it signed, whatever
\* proposals are in flight.
THEOREM SignaturesMatch == Spec => []SigsMatch
  <1>1. RotationInv => SigsMatch
    BY DEF RotationInv, CarriedAll, Filed, SigsMatch
  <1> QED
    BY RotationAlways, <1>1, PTL

\* A node behind uses the committee the nodes ahead used.
THEOREM NextAnchorIsAgreed == Spec => []NextAnchorAgreed
  <1>1. ASSUME RotationInv
        PROVE  NextAnchorAgreed
    <2> SUFFICES ASSUME NEW n \in Node, NEW a \in 0..done[n] + 1
                 PROVE  CommitteeAt(Known(n), a) = CommitteeAt(Len(rows), a)
      BY DEF NextAnchorAgreed
    <2> DEFINE k == Known(n)
    <2>1. /\ TypeOK /\ RowsInOrder /\ Len(rows) \in Nat
          /\ done[n] \in Nat /\ a \in Nat /\ a <= done[n] + 1
      BY <1>1 DEF RotationInv, TypeOK, Numbers
    <2>2. k \in 1..Len(rows) /\ \A i \in 1..Len(rows) : rows[i].anchor <= done[n] => i <= k
      BY <2>1, KnownRows
    <2> HIDE DEF k
    <2>3. \A i \in 1..Len(rows) : rows[i] \in Rows
      BY <2>1 DEF TypeOK
    <2>4. ASSUME NEW i \in 1..Len(rows), rows[i].effective <= a
          PROVE  i <= k
      <3>1. i \in Nat /\ k \in Nat /\ rows[i].anchor \in Nat /\ rows[i].effective \in Nat
        BY <2>2, <2>3 DEF Rows
      <3>2. CASE i = 1
        BY <2>2, <3>2
      <3>3. CASE i # 1
        <4>1. rows[i].effective > rows[i].anchor
          BY <2>1, <2>4, <3>1, <3>3 DEF RowsInOrder
        <4> QED
          BY <2>1, <2>2, <2>4, <3>1, <4>1
      <3> QED
        BY <3>2, <3>3
    <2>5. {i \in 1..k : rows[i].effective <= a} = {i \in 1..Len(rows) : rows[i].effective <= a}
      BY <2>1, <2>2, <2>4
    <2> QED
      BY <2>5 DEF CommitteeAt, InForce, k
  <1> QED
    BY RotationAlways, <1>1, PTL

\* The committee of a decided round never changes.
THEOREM PastIsFixed == Spec => PastFixed
  <1>1. ASSUME RotationInv, [Next]_vars
        PROVE  [\A a \in 0..Len(walked') : CommitteeNow(a)' = CommitteeNow(a)]_vars
    <2>1. CASE \E walk \in Walks, batch \in SUBSET pool : Order(walk, batch)
      BY <1>1, <2>1, OrderKeeps
    <2>2. CASE UNCHANGED rows
      BY <2>2 DEF CommitteeNow, CommitteeAt, InForce
    <2> QED
      BY <1>1, <2>1, <2>2, OnlyOrderDecides
  <1> QED
    BY RotationAlways, <1>1, PTL DEF Spec, PastFixed

----------------------------------------------------------------------------
LEMMA StepGrows ==
    ASSUME RotationInv, [Next]_vars
    PROVE  Grows /\ Len(rows) \in Nat /\ Len(rows') \in Nat
  <1>1. RotationInv'
    BY OnlyOrderDecides
  <1>2. Len(rows) \in Nat /\ Len(rows') \in Nat
    BY <1>1 DEF RotationInv, TypeOK, Numbers
  <1>3. CASE \E walk \in Walks, batch \in SUBSET pool : Order(walk, batch)
    <2>1. rows' = rows \/ \E row : rows' = Append(rows, row)
      BY <1>3 DEF Order
    <2>2. rows \in Seq(Rows) /\ rows' \in Seq(Rows)
      BY <1>1 DEF RotationInv, TypeOK
    <2>3. UNCHANGED <<proposals, signatures>>
      BY <1>3 DEF Order
    <2>4. CASE rows' = rows
      BY <1>2, <2>3, <2>4 DEF Grows
    <2>5. ASSUME NEW row, rows' = Append(rows, row)
          PROVE  Grows
      BY <1>2, <2>2, <2>3, <2>5 DEF Grows
    <2> QED
      BY <1>2, <2>1, <2>4, <2>5
  <1>4. CASE UNCHANGED rows /\ proposals \subseteq proposals' /\ signatures \subseteq signatures'
    BY <1>2, <1>4 DEF Grows
  <1> QED
    BY <1>2, <1>3, <1>4, OnlyOrderDecides

\* Who has endorsed a row keeps having endorsed it.
LEMMA EndorsementsStay ==
    ASSUME RotationInv, [Next]_vars, NEW i \in 2..Len(rows),
           Cardinality(Endorsers(i)) >= ComputeQuorum(Cardinality(rows[i - 1].committee))
    PROVE  /\ (Cardinality(Endorsers(i)))' >= ComputeQuorum(Cardinality(rows'[i - 1].committee))
  <1>1. Grows /\ Len(rows) \in Nat
    BY StepGrows
  <1>2. i \in 1..Len(rows) /\ i - 1 \in 1..Len(rows)
    BY <1>1
  <1>3. rows'[i] = rows[i] /\ rows'[i - 1] = rows[i - 1]
    BY <1>1, <1>2 DEF Grows
  <1>4. Endorsers(i) \subseteq Endorsers(i)'
    BY <1>1, <1>3 DEF Grows, Endorsers, PayloadOf
  <1>5. rows[i - 1] \in Rows
    BY <1>2 DEF RotationInv, TypeOK
  <1>6. IsFiniteSet(Endorsers(i)')
    <2>1. Endorsers(i)' \subseteq Node
      BY <1>3, <1>5 DEF Endorsers, Rows
    <2> QED
      BY <2>1, NodesAreNumbers, FS_Subset
  <1>7. Cardinality(Endorsers(i)) <= Cardinality(Endorsers(i)')
        /\ Cardinality(Endorsers(i)) \in Nat /\ Cardinality(Endorsers(i)') \in Nat
    BY <1>4, <1>6, FS_Subset, FS_CardinalityType
  <1>8. Cardinality(rows[i - 1].committee) \in Nat
    BY <1>5, NodesAreNumbers, FS_Subset, FS_CardinalityType DEF Rows
  <1>9. ComputeQuorum(Cardinality(rows[i - 1].committee)) \in Nat
    BY <1>8 DEF ComputeQuorum
  <1> QED
    BY <1>3, <1>7, <1>9

\* What canCommitteeRotation counts was signed by members of the last row.
LEMMA NewRowEndorsed ==
    ASSUME RotationInv, NEW k \in Nat, k = Len(rows),
           NEW tx \in pool, NEW a \in Nat, CanRotate(tx, a),
           rows' = Append(rows, [committee |-> tx.payload.committee,
                                 effective |-> tx.payload.effective, anchor |-> a]),
           UNCHANGED <<proposals, signatures>>
    PROVE  Cardinality(Endorsers(k + 1)') >= ComputeQuorum(Cardinality(rows'[k].committee))
  <1> DEFINE Signers == {s.by : s \in Countable(tx)}
  <1>1. /\ tx.payload \in Payloads /\ tx.sigs \subseteq proposals \cup signatures
        /\ tx.sigs \subseteq Signatures /\ rows \in Seq(Rows) /\ k >= 1
    BY DEF RotationInv, CarriedAll, Carried, TypeOK, Numbers
  <1>2. tx.payload.number = k /\ Cardinality(Signers) >= Quorum(k)
    BY DEF CanRotate
  <1>3. /\ rows'[k] = rows[k]
        /\ rows'[k + 1].committee = tx.payload.committee
        /\ rows'[k + 1].effective = tx.payload.effective
    BY <1>1
  <1>4. PayloadOf(k + 1)' = tx.payload
    <2>1. PayloadOf(k + 1)' = [number |-> k, committee |-> tx.payload.committee,
                               effective |-> tx.payload.effective]
      BY <1>3 DEF PayloadOf
    <2> QED
      BY <1>1, <1>2, <2>1 DEF Payloads
  <1>5. ASSUME NEW n
        PROVE  n \in Endorsers(k + 1)' <=>
                   n \in rows[k].committee /\ Sig(n, tx.payload) \in proposals \cup signatures
    <2>1. PICK i \in Nat : i = k + 1 /\ i - 1 = k
      OBVIOUS
    <2>2. n \in Endorsers(i)' <=>
              n \in rows'[i - 1].committee /\ Sig(n, PayloadOf(i)') \in proposals' \cup signatures'
      BY DEF Endorsers, Sig, PayloadOf
    <2> QED
      BY <1>3, <1>4, <2>1, <2>2
  <1>6. ASSUME NEW s \in Countable(tx)
        PROVE  s.by \in Endorsers(k + 1)'
    <2>1. /\ s \in Signatures /\ s \in proposals \cup signatures
          /\ s.over = tx.payload /\ s.by \in rows[k].committee
      BY <1>1, <1>2 DEF Countable
    <2>2. s = Sig(s.by, tx.payload)
      BY <2>1 DEF Sig, Signatures
    <2> QED
      BY <1>5, <2>1, <2>2
  <1>7. rows[k] \in Rows
    BY <1>1
  <1>8. IsFiniteSet(Endorsers(k + 1)')
    BY <1>5, <1>7, NodesAreNumbers, FS_Subset DEF Rows
  <1>9. /\ Cardinality(Signers) <= Cardinality(Endorsers(k + 1)')
        /\ Cardinality(Signers) \in Nat /\ Cardinality(Endorsers(k + 1)') \in Nat
    <2>1. Signers \subseteq Endorsers(k + 1)'
      BY <1>6
    <2> QED
      BY <1>8, <2>1, FS_Subset, FS_CardinalityType
  <1>10. Quorum(k) \in Nat
    <2>1. Cardinality(rows[k].committee) \in Nat
      BY <1>7, NodesAreNumbers, FS_Subset, FS_CardinalityType DEF Rows
    <2> QED
      BY <2>1 DEF Quorum, ComputeQuorum
  <1> HIDE DEF Signers
  <1>11. Cardinality(Endorsers(k + 1)') >= Quorum(k)
    BY <1>2, <1>9, <1>10
  <1> QED
    BY <1>3, <1>11 DEF Quorum

LEMMA EndorsedNext ==
    ASSUME RotationInv, Endorsed, [Next]_vars
    PROVE  Endorsed'
  <1>1. PICK k \in Nat : k = Len(rows)
    BY DEF RotationInv, TypeOK, Numbers
  <1>2. Grows
    BY StepGrows
  <1>3. ASSUME NEW i \in 2..k
        PROVE  Cardinality(Endorsers(i)') >= ComputeQuorum(Cardinality(rows'[i - 1].committee))
    BY <1>1, EndorsementsStay DEF Endorsed
  <1>4. CASE UNCHANGED rows
    BY <1>1, <1>3, <1>4 DEF Endorsed
  <1>5. ASSUME NEW tx \in pool, NEW a \in Nat, CanRotate(tx, a),
               rows' = Append(rows, [committee |-> tx.payload.committee,
                                     effective |-> tx.payload.effective, anchor |-> a]),
               UNCHANGED <<proposals, signatures>>
        PROVE  Endorsed'
    <2>1. Cardinality(Endorsers(k + 1)') >= ComputeQuorum(Cardinality(rows'[k].committee))
      BY <1>1, <1>5, NewRowEndorsed
    <2>2. Len(rows') = k + 1
      BY <1>1, <1>5 DEF RotationInv, TypeOK
    <2>3. ASSUME NEW i \in 2..k + 1
          PROVE  Cardinality(Endorsers(i)') >= ComputeQuorum(Cardinality(rows'[i - 1].committee))
      <3>1. i \in 2..k \/ (i = k + 1 /\ i - 1 = k)
        OBVIOUS
      <3> QED
        BY <1>3, <2>1, <3>1
    <2> QED
      BY <2>2, <2>3 DEF Endorsed
  <1>6. CASE \E walk \in Walks, batch \in SUBSET pool : Order(walk, batch)
    <2>1. Len(walked) + 1 \in Nat
      BY DEF RotationInv, TypeOK
    <2> QED
      BY <1>4, <1>5, <1>6, <2>1 DEF Order
  <1> QED
    BY <1>4, <1>6, OnlyOrderDecides

\* Every committee was endorsed by a quorum of the one before it.
THEOREM EveryRowEndorsed == Spec => []Endorsed
  <1>1. Init => Endorsed
    BY DEF Init, Endorsed
  <1>2. RotationInv /\ Endorsed /\ [Next]_vars => Endorsed'
    BY EndorsedNext
  <1> QED
    BY RotationAlways, <1>1, <1>2, PTL DEF Spec

----------------------------------------------------------------------------
LEMMA EpochsGrow ==
    ASSUME NEW a \in Nat, NEW b \in Nat, a <= b
    PROVE  Epoch(a) \in Nat /\ Epoch(b) \in Nat /\ Epoch(a) <= Epoch(b)
  <1>1. \A x \in Nat : /\ x \div EpochLen \in Nat
                       /\ EpochLen * (x \div EpochLen) <= x
                       /\ x < EpochLen * (x \div EpochLen) + EpochLen
    BY NumbersArePositive
  <1>2. EpochLen \in Nat \ {0}
    BY NumbersArePositive
  <1> QED
    BY <1>1, <1>2 DEF Epoch

\* What was proposed was proposed at a boundary, and that anchor is decided.
ProposalsAreDue ==
    \A p \in proposals : \E a \in 1..Len(walked) :
        Epoch(a) > Epoch(rows[p.over.number].anchor)

LEMMA DueNext ==
    ASSUME RotationInv, ProposalsAreDue, [Next]_vars
    PROVE  ProposalsAreDue'
  <1>1. /\ TypeOK /\ CarriedAll /\ RotationInv' /\ Grows
        /\ Len(walked) \in Nat /\ Len(rows) \in Nat
    BY OnlyOrderDecides, StepGrows DEF RotationInv, TypeOK
  <1>2. \A p \in proposals : p.over.number \in 1..Len(rows)
    BY <1>1, NumbersArePositive DEF TypeOK, CarriedAll, Signatures, Payloads, Numbers
  <1>3. Len(walked') \in Nat /\ Len(walked) <= Len(walked')
    <2>1. CASE UNCHANGED walked
      BY <1>1, <2>1
    <2>2. CASE \E walk \in Walks, batch \in SUBSET pool : Order(walk, batch)
      <3>1. walked \in Seq(SUBSET Node) /\ \E walk : walked' = Append(walked, walk)
        BY <1>1, <2>2 DEF Order, TypeOK
      <3> QED
        BY <1>1, <3>1
    <2> QED
      BY <2>1, <2>2, OnlyOrderDecides
  <1>4. ASSUME NEW p \in proposals
        PROVE  \E a \in 1..Len(walked') : Epoch(a) > Epoch(rows'[p.over.number].anchor)
    BY <1>1, <1>2, <1>3 DEF ProposalsAreDue, Grows
  <1>5. ASSUME NEW n \in Node, NEW taken \in Outcomes(n), CommitAnchor(n, taken),
               NEW p \in proposals', p \notin proposals
        PROVE  \E a \in 1..Len(walked') : Epoch(a) > Epoch(rows'[p.over.number].anchor)
    <2> DEFINE a == done[n] + 1
               len == Known(n)
    <2>1. UNCHANGED <<walked, rows>> /\ a \in 1..Len(walked)
      BY <1>1, <1>5 DEF CommitAnchor, TypeOK
    <2>2. AtBoundary(len, a) /\ p = Sig(n, Payload(len, a))
      BY <1>5 DEF CommitAnchor, Propose
    <2>3. p.over.number = len
      BY <2>2 DEF Sig, Payload
    <2> QED
      BY <2>1, <2>2, <2>3 DEF AtBoundary
  <1>6. proposals' = proposals \/ \E n \in Node : \E taken \in Outcomes(n) : CommitAnchor(n, taken)
    BY DEF Next, vars, Order, OnProposal, OnSignature, Rebroadcast, Expire, Install,
           FetchTx, PullSignature
  <1> QED
    BY <1>4, <1>5, <1>6 DEF ProposalsAreDue

\* A row is one epoch at least after the row before it.
LEMMA EpochsNext ==
    ASSUME RotationInv, ProposalsAreDue, OnePerEpoch, [Next]_vars
    PROVE  OnePerEpoch'
  <1>1. PICK k \in Nat : k = Len(rows)
    BY DEF RotationInv, TypeOK, Numbers
  <1>2. Grows /\ rows \in Seq(Rows) /\ k >= 1
    BY <1>1, StepGrows DEF RotationInv, TypeOK, Numbers
  <1>3. CASE UNCHANGED rows
    BY <1>3 DEF OnePerEpoch
  <1>4. ASSUME NEW tx \in pool, NEW a \in Nat, a = Len(walked) + 1, CanRotate(tx, a),
               rows' = Append(rows, [committee |-> tx.payload.committee,
                                     effective |-> tx.payload.effective, anchor |-> a])
        PROVE  OnePerEpoch'
    <2>1. tx.payload.number = k
      BY <1>1, <1>4 DEF CanRotate
    <2>2. PICK p \in proposals : p.over = tx.payload
      BY DEF RotationInv, CarriedAll, Carried
    <2>3. PICK b \in 1..Len(walked) : Epoch(b) > Epoch(rows[k].anchor)
      BY <2>1, <2>2 DEF ProposalsAreDue
    <2>4. Len(walked) \in Nat
      BY DEF RotationInv, TypeOK
    <2>5. b \in Nat /\ b <= a
      BY <1>4, <2>4
    <2>6. Epoch(b) \in Nat /\ Epoch(a) \in Nat /\ Epoch(b) <= Epoch(a)
      BY <2>5, EpochsGrow
    <2>7. rows[k].anchor \in Nat
      <3>1. rows[k] \in Rows
        BY <1>1, <1>2
      <3> QED
        BY <3>1 DEF Rows
    <2>8. Epoch(rows[k].anchor) \in Nat
      <3>1. \A c \in Nat : Epoch(c) \in Nat
        BY EpochsGrow
      <3> QED
        BY <2>7, <3>1
    <2>9. Epoch(a) > Epoch(rows[k].anchor)
      BY <2>3, <2>6, <2>8
    <2>10. /\ Len(rows') = k + 1 /\ rows'[k + 1].anchor = a
           /\ \A i \in 1..k : rows'[i] = rows[i]
      BY <1>1, <1>2, <1>4
    <2>11. ASSUME NEW i \in 2..k + 1
           PROVE  Epoch(rows'[i].anchor) > Epoch(rows'[i - 1].anchor)
      <3>1. CASE i = k + 1
        <4>1. i - 1 = k /\ k \in 1..k
          BY <1>2, <3>1
        <4>2. rows'[i - 1] = rows[k] /\ rows'[i].anchor = a
          BY <2>10, <3>1, <4>1
        <4> QED
          BY <2>9, <4>2
      <3>2. CASE i # k + 1
        <4>1. i \in 2..k /\ i \in 1..k /\ i - 1 \in 1..k
          BY <3>2
        <4>2. Epoch(rows[i].anchor) > Epoch(rows[i - 1].anchor)
          BY <1>1, <4>1 DEF OnePerEpoch
        <4>3. rows'[i] = rows[i] /\ rows'[i - 1] = rows[i - 1]
          BY <2>10, <4>1
        <4> QED
          BY <4>2, <4>3
      <3> QED
        BY <3>1, <3>2
    <2> QED
      BY <2>10, <2>11 DEF OnePerEpoch
  <1>5. CASE \E walk \in Walks, batch \in SUBSET pool : Order(walk, batch)
    <2>1. Len(walked) + 1 \in Nat
      BY DEF RotationInv, TypeOK
    <2> QED
      BY <1>3, <1>4, <1>5, <2>1 DEF Order
  <1> QED
    BY <1>3, <1>5, OnlyOrderDecides

\* At most one rotation per epoch.
THEOREM RotationsKeepToEpochs == Spec => []OnePerEpoch
  <1>1. Init => ProposalsAreDue /\ OnePerEpoch
    BY DEF Init, ProposalsAreDue, OnePerEpoch
  <1>2. RotationInv /\ ProposalsAreDue /\ [Next]_vars => ProposalsAreDue'
    BY DueNext
  <1>3. RotationInv /\ ProposalsAreDue /\ OnePerEpoch /\ [Next]_vars => OnePerEpoch'
    BY EpochsNext
  <1> QED
    BY RotationAlways, <1>1, <1>2, <1>3, PTL DEF Spec
===========================================================================
