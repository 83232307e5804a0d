--------------------------- MODULE DisputesProofs ---------------------------
(***************************************************************************)
(* Proofs about Disputes, for any nodes, panels, votes and bounds.         *)
(*                                                                         *)
(* The invariant says where a result may come from: an appeal is summoned  *)
(* only after a ruling, either on the chain or ahead of it in the same     *)
(* mempool, so a result is built, queued and committed under the ruling    *)
(* that the chain keeps.  A second one says of what is queued, by whom it  *)
(* is followed: a dispute by its jury, a ruling that decides nothing by    *)
(* experts.                                                                *)
(***************************************************************************)
EXTENDS Disputes, FiniteSetTheorems, TLAPS

Verdict == {"UPHELD", "DISMISSED", "CONSERVATIVE"}

\* Votes that are under way are of persons who were summoned.
Summoned == \A s \in Stage, p \in Person : cast[s][p] # None => p \in panel[s]

\* A result overturns the ruling it was built under, or none; that ruling is
\* the first of rs.
UnderRuling(tx, rs) ==
    /\ rs # <<>>
    /\ tx.stage2 = Head(rs).verdict
    /\ tx.overturned => {tx.stage2, tx.verdict} = {"UPHELD", "DISMISSED"}

AppealSummons(tx) == tx.kind = "summons" /\ tx.stage = "appeal"

\* In a mempool, or a batch for one, an appeal is summoned after a ruling.
Orderly(b, rs) ==
    /\ \A i \in DOMAIN b : AppealSummons(b[i]) =>
           rs # <<>> \/ \E j \in 1..(i - 1) : b[j].kind = "ruling"
    /\ \A i \in DOMAIN b : b[i].kind = "result" => UnderRuling(b[i], rs)

RulingFirst ==
    /\ \A n \in Node : "appeal" \in pending[n] => rulings # <<>>
    /\ panel["appeal"] # {} => rulings # <<>>
    /\ \A n \in Node : Orderly(queue[n], rulings)
    /\ results # <<>> => UnderRuling(Head(results), rulings)

IInv == TypeOK /\ Summoned /\ RulingFirst /\ LabelIsRuled

-----------------------------------------------------------------------------
(* Transactions and batches.                                               *)

LEMMA ShortSequences ==
    ASSUME NEW S, NEW a \in S, NEW b \in S, NEW c \in S
    PROVE  /\ <<>> \in Seq(S) /\ <<a>> \in Seq(S)
           /\ <<a, b>> \in Seq(S) /\ <<a, b, c>> \in Seq(S)
OBVIOUS

LEMMA Joined ==
    ASSUME NEW S, NEW a \in Seq(S), NEW b \in Seq(S) PROVE a \o b \in Seq(S)
OBVIOUS

LEMMA AppendTyped ==
    ASSUME NEW S, NEW q \in Seq(S), NEW x \in S PROVE Append(q, x) \in Seq(S)
OBVIOUS

LEMMA HeadOfSequence ==
    ASSUME NEW S, NEW q \in Seq(S), q # <<>> PROVE Head(q) \in S
OBVIOUS

LEMMA MadeTransactions ==
    /\ \A d \in Disputer : Dispute(d) \in Transaction
    /\ \A s \in Stage, w \in SUBSET Person : Summons(s, w) \in Transaction
    /\ \A by \in {"SYSTEM", "PARTY"} : Appeal(by) \in Transaction
    /\ \A r \in Reason : Score(r) \in Transaction
    /\ \A v \in Verdict \cup {"NO_QUORUM"}, o \in Origin \cup {None}, f \in BOOLEAN :
           (v = "UPHELD" => o # None) => Ruling(v, o, f) \in Transaction
    /\ \A v \in Verdict, o \in Origin \cup {None}, f \in BOOLEAN,
          w \in Verdict \cup {"NO_QUORUM", None} :
           (v = "UPHELD" => o # None) => Result(v, o, w, f) \in Transaction
BY DEF NamesItsOrigin, Transaction, RulingTx, ResultTx, Dispute, Summons, Appeal, Score, Ruling, Result, Verdict

LEMMA FindingIsVerdict ==
    ASSUME NEW s, NEW o PROVE Finding(s, o) \in Verdict
BY DEF Finding, Verdict

LEMMA SeatsArePersons ==
    ASSUME TypeOK, NEW n \in Node PROVE Seats(n) \in SUBSET Person
BY PanelsAreKnown DEF TypeOK, Seats, Person

\* What the builders return is a sequence of transactions.
LEMMA AdjudicationTyped ==
    ASSUME TypeOK, NEW n \in Node, NEW b \in AdjudicationBatches(n)
    PROVE  b \in Seq(Transaction)
<1>1. CASE ~JuryDecides
  <2>1. b = NoQuorumBatch(n)
    BY <1>1 DEF AdjudicationBatches
  <2>2. Ruling("NO_QUORUM", None, FALSE) \in Transaction /\ Ruling("NO_QUORUM", None, TRUE) \in Transaction
    BY MadeTransactions
  <2>3. Appeal("SYSTEM") \in Transaction /\ Score("refunded") \in Transaction
    BY MadeTransactions DEF Reason
  <2>4. Summons("appeal", Seats(n)) \in Transaction
    BY MadeTransactions, SeatsArePersons DEF Stage
  <2>5. NoQuorumBatch(n) \in Seq(Transaction)
    BY <2>2, <2>3, <2>4, ShortSequences, Zenon DEF NoQuorumBatch
  <2> QED BY <2>1, <2>5
<1>2. CASE JuryDecides
  <2>1. PICK o \in Confirmed("jury") : b = RulingBatch(Finding("jury", o), o)
    BY <1>2 DEF AdjudicationBatches
  <2>2. o \in Origin /\ o # None
    BY <2>1, NoneIsNoVote DEF Confirmed, Vote
  <2>3. \A v \in Verdict : Ruling(v, o, FALSE) \in Transaction
    BY <2>2, MadeTransactions
  <2>6. Ruling("DISMISSED", None, FALSE) \in Transaction
    BY MadeTransactions DEF Verdict
  <2>4. Score("upheld") \in Transaction /\ Score("conservative-label") \in Transaction
    BY MadeTransactions DEF Reason
  <2>5. \A v \in Verdict : RulingBatch(v, o) \in Seq(Transaction)
    <3> TAKE v \in Verdict
    <3>1. CASE v = "UPHELD" BY <3>1, <2>3, <2>4, ShortSequences DEF RulingBatch
    <3>2. CASE v = "CONSERVATIVE" BY <3>2, <2>3, <2>4, ShortSequences DEF RulingBatch
    <3>3. CASE v = "DISMISSED" BY <3>3, <2>6, ShortSequences DEF RulingBatch
    <3> QED BY <3>1, <3>2, <3>3 DEF Verdict
  <2> QED BY <2>1, <2>5, FindingIsVerdict
<1> QED BY <1>1, <1>2

\* The verdict of the ruling on the chain, if there is one.
LEMMA Stage2Typed ==
    ASSUME TypeOK
    PROVE  /\ Stage2 \in Verdict \cup {"NO_QUORUM", None}
           /\ rulings # <<>> => Stage2 = Head(rulings).verdict
<1>1. CASE rulings = <<>>
  BY <1>1 DEF Stage2
<1>2. CASE rulings # <<>>
  <2>1. Head(rulings) \in RulingTx
    BY <1>2, HeadOfSequence DEF TypeOK
  <2> QED BY <1>2, <2>1 DEF Stage2, RulingTx, Verdict
<1> QED BY <1>1, <1>2

LEMMA AppealTyped ==
    ASSUME TypeOK, NEW b \in AppealBatches
    PROVE  b \in Seq(Transaction)
<1>1. \A v \in Verdict, o \in Origin \cup {None}, f \in BOOLEAN :
        (v = "UPHELD" => o # None) => Result(v, o, Stage2, f) \in Transaction
  BY Stage2Typed, MadeTransactions
<1>2. Score("refunded") \in Transaction /\ Score("overturned") \in Transaction /\ Score("final") \in Transaction
  BY MadeTransactions DEF Reason
<1>3. CASE ~ExpertsDecide
  <2>1. b = DefaultBatch
    BY <1>3 DEF AppealBatches
  <2>2. <<Result("DISMISSED", None, Stage2, FALSE)>> \in Seq(Transaction)
    BY <1>1, ShortSequences DEF Verdict
  <2>3. (IF Stage2 = "NO_QUORUM" THEN <<Score("refunded")>> ELSE <<>>) \in Seq(Transaction)
    BY <1>2, ShortSequences
  <2>4. DefaultBatch \in Seq(Transaction)
    BY <2>2, <2>3, Joined, Zenon DEF DefaultBatch
  <2> QED BY <2>1, <2>4
<1>4. CASE ExpertsDecide
  <2>1. PICK o \in Confirmed("appeal") : b = ResultBatch(Finding("appeal", o), o)
    BY <1>4 DEF AppealBatches
  <2>2. o \in Origin /\ o # None
    BY <2>1, NoneIsNoVote DEF Confirmed, Vote
  <2>3. ASSUME NEW v \in Verdict PROVE ResultBatch(v, o) \in Seq(Transaction)
    <3>1. Overturns(v) \in BOOLEAN
      BY DEF Overturns
    <3>2. <<Result(v, IF v = "DISMISSED" THEN None ELSE o, Stage2, Overturns(v))>> \in Seq(Transaction)
      BY <1>1, <2>2, <3>1, ShortSequences
    <3>3. Settlement(v) \in Seq(Transaction)
      BY <1>2, ShortSequences DEF Settlement
    <3> QED BY <3>2, <3>3 DEF ResultBatch
  <2> QED BY <2>1, <2>3, FindingIsVerdict
<1> QED BY <1>3, <1>4

LEMMA BatchesTyped ==
    ASSUME TypeOK, NEW n \in Node, NEW s \in Stage, NEW b \in Batches(n, s)
    PROVE  b \in Seq(Transaction)
BY AdjudicationTyped, AppealTyped DEF Batches

-----------------------------------------------------------------------------
(* Order in the mempools.                                                  *)

LEMMA JuryBatchOrderly ==
    ASSUME NEW n \in Node, NEW b \in AdjudicationBatches(n), NEW rs
    PROVE  Orderly(b, rs)
<1>1. CASE ~JuryDecides
  <2>1. b = NoQuorumBatch(n)
    BY <1>1 DEF AdjudicationBatches
  <2> QED BY <2>1 DEF NoQuorumBatch, Orderly, AppealSummons, Ruling, Appeal, Summons, Score
<1>2. CASE JuryDecides
  <2>1. PICK o \in Confirmed("jury") : b = RulingBatch(Finding("jury", o), o)
    BY <1>2 DEF AdjudicationBatches
  <2> QED BY <2>1 DEF RulingBatch, Orderly, AppealSummons, Ruling, Score
<1> QED BY <1>1, <1>2

LEMMA OrderlyAppend ==
    ASSUME NEW q \in Seq(Transaction), NEW b \in Seq(Transaction), NEW rs,
           Orderly(q, rs), Orderly(b, rs)
    PROVE  Orderly(q \o b, rs)
<1>1. \A i \in DOMAIN (q \o b) :
        \/ i \in DOMAIN q /\ (q \o b)[i] = q[i]
        \/ i - Len(q) \in DOMAIN b /\ (q \o b)[i] = b[i - Len(q)]
  OBVIOUS
<1>2. ASSUME NEW i \in DOMAIN (q \o b), AppealSummons((q \o b)[i]), rs = <<>>
      PROVE  \E j \in 1..(i - 1) : (q \o b)[j].kind = "ruling"
  <2>1. CASE i \in DOMAIN q /\ (q \o b)[i] = q[i]
    <3>1. PICK j \in 1..(i - 1) : q[j].kind = "ruling"
      BY <1>2, <2>1 DEF Orderly
    <3>2. (q \o b)[j] = q[j]
      BY <2>1, <3>1
    <3> QED BY <3>1, <3>2
  <2>2. CASE i - Len(q) \in DOMAIN b /\ (q \o b)[i] = b[i - Len(q)]
    <3>1. PICK j \in 1..(i - Len(q) - 1) : b[j].kind = "ruling"
      BY <1>2, <2>2 DEF Orderly
    <3>2. (q \o b)[j + Len(q)] = b[j] /\ j + Len(q) \in 1..(i - 1)
      BY <2>2, <3>1
    <3> QED BY <3>1, <3>2
  <2> QED BY <1>1, <2>1, <2>2
<1>3. ASSUME NEW i \in DOMAIN (q \o b), (q \o b)[i].kind = "result"
      PROVE  UnderRuling((q \o b)[i], rs)
  BY <1>1, <1>3 DEF Orderly
<1> QED BY <1>2, <1>3 DEF Orderly

\* What is ordered stays so when the first ruling is committed.
LEMMA OrderlyGrows ==
    ASSUME NEW q, NEW rs, NEW later, Orderly(q, rs), rs # <<>> => later = rs
    PROVE  Orderly(q, later)
BY DEF Orderly, UnderRuling

LEMMA OrderlyTail ==
    ASSUME NEW q \in Seq(Transaction), q # <<>>, NEW rs, NEW later,
           Orderly(q, rs), rs # <<>> => later = rs,
           Head(q).kind = "ruling" => later # <<>>
    PROVE  Orderly(Tail(q), later)
<1>1. \A i \in DOMAIN Tail(q) : i + 1 \in DOMAIN q /\ Tail(q)[i] = q[i + 1]
  OBVIOUS
<1>2. ASSUME NEW i \in DOMAIN Tail(q), AppealSummons(Tail(q)[i]), later = <<>>
      PROVE  \E j \in 1..(i - 1) : Tail(q)[j].kind = "ruling"
  <2>1. rs = <<>> /\ Head(q).kind # "ruling"
    BY <1>2
  <2>2. PICK k \in 1..i : q[k].kind = "ruling"
    BY <1>1, <1>2, <2>1 DEF Orderly
  <2>3. k # 1
    BY <2>1, <2>2
  <2>4. k - 1 \in 1..(i - 1) /\ Tail(q)[k - 1] = q[k]
    BY <2>2, <2>3
  <2> QED BY <2>2, <2>4
<1>3. ASSUME NEW i \in DOMAIN Tail(q), Tail(q)[i].kind = "result"
      PROVE  UnderRuling(Tail(q)[i], later)
  <2>1. UnderRuling(q[i + 1], rs)
    BY <1>1, <1>3 DEF Orderly
  <2>2. later = rs
    BY <2>1 DEF UnderRuling
  <2> QED BY <1>1, <2>1, <2>2
<1> QED BY <1>2, <1>3 DEF Orderly

LEMMA Pair ==
    ASSUME NEW x, NEW y, NEW b \in {<<x>> \o <<>>, <<x>> \o <<y>>}
    PROVE  \A i \in DOMAIN b : b[i] = x \/ b[i] = y
<1>1. CASE b = <<x>> \o <<>>
  BY <1>1
<1>2. CASE b = <<x>> \o <<y>>
  BY <1>2
<1> QED BY <1>1, <1>2

LEMMA ResultAndScoreOrderly ==
    ASSUME NEW x, NEW y, NEW b \in {<<x>> \o <<>>, <<x>> \o <<y>>}, NEW rs,
           x.kind = "result", y.kind = "score", UnderRuling(x, rs)
    PROVE  Orderly(b, rs)
<1>1. \A i \in DOMAIN b : b[i] = x \/ b[i] = y
  BY Pair
<1>2. \A i \in DOMAIN b : ~AppealSummons(b[i])
  BY <1>1 DEF AppealSummons
<1>3. \A i \in DOMAIN b : b[i].kind = "result" => UnderRuling(b[i], rs)
  BY <1>1
<1> QED BY <1>2, <1>3 DEF Orderly

LEMMA AppealBatchOrderly ==
    ASSUME rulings # <<>>, NEW b \in AppealBatches
    PROVE  Orderly(b, rulings)
<1>1. Stage2 = Head(rulings).verdict
  BY DEF Stage2
<1>2. CASE ~ExpertsDecide
  <2> DEFINE first == Result("DISMISSED", None, Stage2, FALSE)
             score == Score("refunded")
  <2>1. b \in {<<first>> \o <<>>, <<first>> \o <<score>>}
    BY <1>2, Zenon DEF AppealBatches, DefaultBatch
  <2>2. first.kind = "result" /\ score.kind = "score" /\ UnderRuling(first, rulings)
    BY <1>1 DEF Result, Score, UnderRuling
  <2> QED BY <2>1, <2>2, ResultAndScoreOrderly, Zenon
<1>3. CASE ExpertsDecide
  <2>1. PICK o, v : b = ResultBatch(v, o)
    BY <1>3 DEF AppealBatches
  <2> DEFINE first == Result(v, IF v = "DISMISSED" THEN None ELSE o, Stage2, Overturns(v))
  <2>2. PICK y \in {Score("overturned"), Score("final")} : b \in {<<first>> \o <<>>, <<first>> \o <<y>>}
    BY <2>1, Zenon DEF ResultBatch, Settlement
  <2>3. y.kind = "score"
    BY <2>2 DEF Score
  <2>4. first.kind = "result" /\ UnderRuling(first, rulings)
    BY <1>1 DEF Result, UnderRuling, Overturns
  <2> QED BY <2>2, <2>3, <2>4, ResultAndScoreOrderly, Zenon
<1> QED BY <1>2, <1>3

-----------------------------------------------------------------------------
(* The steps that submit to a mempool.                                     *)

LEMMA SubmitKeepsQueues ==
    ASSUME NEW n \in Node, NEW b \in Seq(Transaction), queue \in [Node -> Seq(Transaction)],
           Submit(n, b)
    PROVE  queue' \in [Node -> Seq(Transaction)]
BY Joined DEF Submit

LEMMA SubmitKeepsOrder ==
    ASSUME NEW n \in Node, NEW b \in Seq(Transaction), queue \in [Node -> Seq(Transaction)],
           Submit(n, b), NEW rs, Orderly(b, rs), \A x \in Node : Orderly(queue[x], rs)
    PROVE  \A x \in Node : Orderly(queue'[x], rs)
<1> TAKE x \in Node
<1>1. CASE x = n
  <2>1. queue'[x] = queue[x] \o b
    BY <1>1 DEF Submit
  <2> QED BY <2>1, OrderlyAppend
<1>2. CASE x # n
  BY <1>2 DEF Submit
<1> QED BY <1>1, <1>2

LEMMA FilingsTyped ==
    ASSUME TypeOK
    PROVE  /\ \A d \in Disputer : <<Dispute(d), Summons("jury", JuryOf[d])>> \in Seq(Transaction)
           /\ \A n \in Node : <<Appeal("PARTY"), Summons("appeal", Seats(n))>> \in Seq(Transaction)
<1>1. ASSUME NEW d \in Disputer PROVE <<Dispute(d), Summons("jury", JuryOf[d])>> \in Seq(Transaction)
  <2>1. JuryOf[d] \in SUBSET Person
    BY PanelsAreKnown DEF Person
  <2>2. Dispute(d) \in Transaction /\ Summons("jury", JuryOf[d]) \in Transaction
    BY <2>1, MadeTransactions DEF Stage
  <2> QED BY <2>2, ShortSequences
<1>2. ASSUME NEW n \in Node PROVE <<Appeal("PARTY"), Summons("appeal", Seats(n))>> \in Seq(Transaction)
  <2>1. Appeal("PARTY") \in Transaction /\ Summons("appeal", Seats(n)) \in Transaction
    BY MadeTransactions, SeatsArePersons DEF Stage
  <2> QED BY <2>1, ShortSequences
<1> QED BY <1>1, <1>2

-----------------------------------------------------------------------------
(* Types.                                                                  *)

LEMMA InitTyped == Init => TypeOK /\ Summoned
<1> SUFFICES ASSUME Init PROVE TypeOK /\ Summoned
  OBVIOUS
<1> USE DEF Init, NoVotes
<1>1. TypeOK
  BY BoundsAreNumbers DEF TypeOK, Status
<1>2. Summoned
  BY DEF Summoned
<1> QED BY <1>1, <1>2

LEMMA CommitTyped ==
    ASSUME TypeOK, Summoned, NEW n \in Node, Commit(n)
    PROVE  TypeOK' /\ Summoned'
<1> DEFINE tx == Head(queue[n])
<1>1. queue[n] \in Seq(Transaction) /\ tx \in Transaction
  BY HeadOfSequence DEF TypeOK, Commit
<1>2. queue' \in [Node -> Seq(Transaction)]
  BY <1>1 DEF TypeOK, Commit
<1> HIDE DEF tx
<1> USE DEF row, chain, board, bounds
<1>3. CASE CommitDispute(tx)
  <2>1. tx.by \in Disputer
    BY <1>1, <1>3 DEF CommitDispute, Transaction, RulingTx, ResultTx
  <2>2. disputes' \in Seq(Disputer) /\ status' \in Status
    <3>1. disputes' = disputes \/ disputes' = Append(disputes, tx.by)
      BY <1>3 DEF CommitDispute
    <3>2. status' \in Status
      BY <1>3 DEF CommitDispute, TypeOK, Status
    <3>3. disputes \in Seq(Disputer)
      BY DEF TypeOK
    <3> QED BY <2>1, <3>1, <3>2, AppendTyped, <3>3
  <2> QED BY <1>2, <1>3, <2>2 DEF CommitDispute, Commit, TypeOK, Summoned
<1>4. CASE CommitSummons(tx)
  <2>1. tx.who \in SUBSET Person /\ tx.stage \in Stage
    BY <1>1, <1>4 DEF CommitSummons, Transaction, RulingTx, ResultTx
  <2>2. panel' \in [Stage -> SUBSET Person] /\ \A s \in Stage : panel[s] \subseteq panel'[s]
    BY <1>4, <2>1 DEF CommitSummons, TypeOK
  <2>3. pending' \in [Node -> SUBSET Stage]
    BY <1>4, <2>1 DEF CommitSummons, Track, TypeOK
  <2> QED BY <1>2, <1>4, <2>2, <2>3 DEF CommitSummons, Commit, TypeOK, Summoned
<1>5. CASE CommitRuling(tx)
  <2>1. tx \in RulingTx
    BY <1>1, <1>5 DEF CommitRuling, Transaction, ResultTx
  <2>2. rulings' \in Seq(RulingTx)
    <3>1. rulings' = rulings \/ rulings' = Append(rulings, tx)
      BY <1>5 DEF CommitRuling
    <3>2. rulings \in Seq(RulingTx)
      BY DEF TypeOK
    <3> QED BY <2>1, <3>1, AppendTyped, <3>2
  <2>3. pending' \in [Node -> SUBSET Stage]
    BY <1>5 DEF CommitRuling, Untrack, TypeOK
  <2>4. status' \in Status
    BY <1>5 DEF CommitRuling, ApplyRuling, TypeOK, Status, Resolved
  <2>5. origin' \in Origin \cup {Declared}
    BY <1>5, <2>1 DEF CommitRuling, ApplyRuling, TypeOK, RulingTx, NamesItsOrigin
  <2> QED BY <1>2, <1>5, <2>2, <2>3, <2>4, <2>5 DEF CommitRuling, Commit, TypeOK, Summoned
<1>6. CASE CommitAppeal(tx)
  <2>1. tx.by \in {"SYSTEM", "PARTY"}
    BY <1>1, <1>6 DEF CommitAppeal, Transaction, RulingTx, ResultTx
  <2>2. appeals' \in Seq({"SYSTEM", "PARTY"})
    BY <1>6, <2>1, AppendTyped DEF CommitAppeal, TypeOK
  <2>3. pending' \in [Node -> SUBSET Stage]
    BY <1>6 DEF CommitAppeal, Untrack, TypeOK
  <2> QED BY <1>2, <1>6, <2>2, <2>3 DEF CommitAppeal, Commit, TypeOK, Summoned
<1>7. CASE CommitResult(tx)
  <2>1. tx \in ResultTx
    BY <1>1, <1>7 DEF CommitResult, Transaction, RulingTx
  <2>2. results' \in Seq(ResultTx)
    <3>1. results' = results \/ results' = Append(results, tx)
      BY <1>7 DEF CommitResult
    <3>2. results \in Seq(ResultTx)
      BY DEF TypeOK
    <3> QED BY <2>1, <3>1, AppendTyped, <3>2
  <2>3. pending' \in [Node -> SUBSET Stage]
    BY <1>7 DEF CommitResult, Untrack, TypeOK
  <2>4. status' \in Status
    BY <1>7 DEF CommitResult, ApplyResult, TypeOK, Status, Resolved
  <2>5. origin' \in Origin \cup {Declared}
    BY <1>7, <2>1 DEF CommitResult, ApplyResult, TypeOK, ResultTx, NamesItsOrigin
  <2> QED BY <1>2, <1>7, <2>2, <2>3, <2>4, <2>5 DEF CommitResult, Commit, TypeOK, Summoned
<1>8. CASE CommitScore(tx)
  <2>1. settled' \subseteq Reason
    BY <1>1, <1>8 DEF CommitScore, Transaction, RulingTx, ResultTx, TypeOK
  <2> QED BY <1>2, <1>8, <2>1 DEF CommitScore, Commit, TypeOK, Summoned
<1> QED BY <1>3, <1>4, <1>5, <1>6, <1>7, <1>8 DEF Commit, tx

LEMMA StepTyped == TypeOK /\ Summoned /\ [Next]_vars => TypeOK' /\ Summoned'
<1> SUFFICES ASSUME TypeOK, Summoned, [Next]_vars PROVE TypeOK' /\ Summoned'
  OBVIOUS
<1> USE DEF row, chain, board, bounds
<1>q. queue \in [Node -> Seq(Transaction)]
  BY DEF TypeOK
<1>1. ASSUME NEW n \in Desk, NEW d \in Disputer, FileDispute(n, d) PROVE TypeOK' /\ Summoned'
  <2>1. queue' \in [Node -> Seq(Transaction)]
    BY <1>1, <1>q, FilingsTyped, SubmitKeepsQueues, PanelsAreKnown DEF FileDispute
  <2> QED BY <1>1, <2>1 DEF FileDispute, TypeOK, Summoned
<1>2. ASSUME NEW n \in Desk, FileAppeal(n) PROVE TypeOK' /\ Summoned'
  <2>1. queue' \in [Node -> Seq(Transaction)]
    BY <1>2, <1>q, FilingsTyped, SubmitKeepsQueues, PanelsAreKnown DEF FileAppeal
  <2> QED BY <1>2, <2>1 DEF FileAppeal, TypeOK, Summoned
<1>3. ASSUME NEW n \in Restarting, Restart(n) PROVE TypeOK' /\ Summoned'
  <2>1. pending' \in [Node -> SUBSET Stage]
    BY <1>3 DEF Restart, Unresolved, TypeOK
  <2>2. restarts' \in 0..MaxRestarts
    BY <1>3, BoundsAreNumbers DEF Restart, TypeOK
  <2> QED BY <1>3, <2>1, <2>2 DEF Restart, TypeOK, Summoned
<1>4. ASSUME NEW n \in Node, Commit(n) PROVE TypeOK' /\ Summoned'
  BY <1>4, CommitTyped
<1>5. ASSUME NEW s \in Stage, NEW p \in Person, NEW v \in Options[p], Reveal(s, p, v)
      PROVE  TypeOK' /\ Summoned'
  <2>1. v \in Vote
    BY PanelsAreKnown
  <2>2. cast' \in [Stage -> [Person -> Vote \cup {None}]]
    BY <1>5, <2>1 DEF Reveal, TypeOK
  <2>3. Summoned'
    BY <1>5 DEF Reveal, TypeOK, Summoned
  <2> QED BY <1>5, <2>2, <2>3 DEF Reveal, TypeOK
<1>6. ASSUME NEW s \in Stage, NEW p \in Person, LandReveal(s, p) PROVE TypeOK' /\ Summoned'
  <2>1. /\ cast' \in [Stage -> [Person -> Vote \cup {None}]]
        /\ votes' \in [Stage -> [Person -> Vote \cup {None}]]
    BY <1>6 DEF LandReveal, TypeOK
  <2>2. \A r \in Stage, x \in Person : votes'[r][x] # None => x \in panel[r]
    BY <1>6 DEF LandReveal, TypeOK, Summoned
  <2>3. Summoned'
    BY <1>6 DEF LandReveal, TypeOK, Summoned
  <2> QED BY <1>6, <2>1, <2>2, <2>3 DEF LandReveal, TypeOK
<1>7. ASSUME NEW s \in Stage, DeadlinePasses(s) PROVE TypeOK' /\ Summoned'
  BY <1>7 DEF DeadlinePasses, TypeOK, Summoned
<1>8. ASSUME NEW n \in Node, NEW s \in Stage, CheckPending(n, s) PROVE TypeOK' /\ Summoned'
  <2>1. pending' \in [Node -> SUBSET Stage]
    BY <1>8 DEF CheckPending, TypeOK
  <2>2. queue' \in [Node -> Seq(Transaction)]
    BY <1>8, <1>q, BatchesTyped, SubmitKeepsQueues DEF CheckPending
  <2>3. refusals' \in 0..MaxRefusals
    BY <1>8, BoundsAreNumbers DEF CheckPending, TypeOK
  <2> QED BY <1>8, <2>1, <2>2, <2>3 DEF CheckPending, TypeOK, Summoned
<1>9. CASE UNCHANGED vars
  BY <1>9 DEF vars, TypeOK, Summoned
<1> QED BY <1>1, <1>2, <1>3, <1>4, <1>5, <1>6, <1>7, <1>8, <1>9 DEF Next

-----------------------------------------------------------------------------
(* Rulings come before their results.                                      *)

LEMMA InitRuled == Init => RulingFirst /\ LabelIsRuled
<1> SUFFICES ASSUME Init PROVE RulingFirst /\ LabelIsRuled
  OBVIOUS
<1>1. ASSUME NEW n \in Node PROVE "appeal" \notin pending[n] /\ Orderly(queue[n], rulings)
  BY DEF Init, Orderly
<1>2. panel["appeal"] = {} /\ results = <<>>
  BY DEF Init, Stage
<1>3. LabelIsRuled
  BY DEF Init, LabelIsRuled, Ruled
<1> QED BY <1>1, <1>2, <1>3 DEF RulingFirst

LEMMA SubmittedInOrder ==
    ASSUME TypeOK, RulingFirst, LabelIsRuled, NEW n \in Node, NEW b \in Seq(Transaction),
           Submit(n, b), Orderly(b, rulings), UNCHANGED <<chain, row>>,
           \A x \in Node : "appeal" \in pending'[x] => rulings # <<>>
    PROVE  RulingFirst' /\ LabelIsRuled'
<1>1. \A x \in Node : Orderly(queue[x], rulings)
  BY DEF RulingFirst
<1>2. \A x \in Node : Orderly(queue'[x], rulings)
  <2>1. queue \in [Node -> Seq(Transaction)]
    BY DEF TypeOK
  <2> QED BY <1>1, <2>1, SubmitKeepsOrder
<1>3. RulingFirst'
  BY <1>2 DEF RulingFirst, UnderRuling, Orderly, AppealSummons, chain
<1>4. LabelIsRuled'
  BY DEF LabelIsRuled, Ruled, chain, row
<1> QED BY <1>3, <1>4

LEMMA CommitRuled ==
    ASSUME TypeOK, RulingFirst, LabelIsRuled, NEW n \in Node, Commit(n)
    PROVE  RulingFirst' /\ LabelIsRuled'
<1> DEFINE tx == Head(queue[n])
<1>1. queue[n] \in Seq(Transaction) /\ queue[n] # <<>> /\ tx \in Transaction
  BY HeadOfSequence DEF TypeOK, Commit
<1>2. Orderly(queue[n], rulings)
  BY DEF RulingFirst
<1>3. /\ tx.kind = "result" => UnderRuling(tx, rulings)
      /\ AppealSummons(tx) => rulings # <<>>
  BY <1>1, <1>2 DEF Orderly
<1>4. ASSUME rulings # <<>> => rulings' = rulings, tx.kind = "ruling" => rulings' # <<>>,
             NEW x \in Node
      PROVE  Orderly(queue'[x], rulings')
  <2>1. CASE x = n
    <3>1. queue'[x] = Tail(queue[n])
      BY <2>1 DEF Commit, TypeOK
    <3>2. rulings # <<>> => rulings' = rulings
      BY <1>4
    <3> QED BY <1>1, <1>2, <1>4, <3>1, <3>2, OrderlyTail
  <2>2. CASE x # n
    <3>1. queue'[x] = queue[x]
      BY <2>2 DEF Commit, TypeOK
    <3>2. Orderly(queue[x], rulings)
      BY DEF RulingFirst
    <3> QED BY <1>4, <3>1, <3>2, OrderlyGrows
  <2> QED BY <2>1, <2>2
<1> HIDE DEF tx
<1>5. ASSUME UNCHANGED <<rulings, results, origin>>, tx.kind # "ruling",
             \A x \in Node : "appeal" \in pending'[x] => "appeal" \in pending[x] \/ AppealSummons(tx),
             panel'["appeal"] # {} => panel["appeal"] # {} \/ AppealSummons(tx)
      PROVE  RulingFirst' /\ LabelIsRuled'
  <2>1. \A x \in Node : Orderly(queue'[x], rulings')
    BY <1>4, <1>5
  <2>2. RulingFirst'
    BY <1>3, <1>5, <2>1 DEF RulingFirst, UnderRuling
  <2>3. LabelIsRuled'
    BY <1>5 DEF LabelIsRuled, Ruled
  <2> QED BY <2>2, <2>3
<1>6. CASE CommitDispute(tx)
  <2>1. RulingFirst'
    BY <1>3, <1>4, <1>6 DEF CommitDispute, RulingFirst, UnderRuling
  <2>2. LabelIsRuled'
    BY <1>6 DEF CommitDispute, LabelIsRuled, Ruled
  <2> QED BY <2>1, <2>2
<1>7. CASE CommitSummons(tx)
  <2>1. \A x \in Node : "appeal" \in pending'[x] => "appeal" \in pending[x] \/ AppealSummons(tx)
    BY <1>7 DEF CommitSummons, Track, AppealSummons, TypeOK
  <2>2. panel'["appeal"] # {} => panel["appeal"] # {} \/ AppealSummons(tx)
    BY <1>7 DEF CommitSummons, AppealSummons, TypeOK, Stage
  <2> QED BY <1>5, <1>7, <2>1, <2>2 DEF CommitSummons, row
<1>8. CASE CommitAppeal(tx)
  <2>1. \A x \in Node : "appeal" \in pending'[x] => "appeal" \in pending[x]
    BY <1>8 DEF CommitAppeal, Untrack, TypeOK
  <2> QED BY <1>5, <1>8, <2>1 DEF CommitAppeal, row
<1>9. CASE CommitScore(tx)
  BY <1>5, <1>9 DEF CommitScore, chain
<1>10. CASE CommitRuling(tx)
  <2>1. CASE rulings # <<>>
    <3>1. UNCHANGED <<rulings, status, origin, pending, panel, results>>
      BY <1>10, <2>1 DEF CommitRuling, FirstRuling
    <3>2. \A x \in Node : Orderly(queue'[x], rulings')
      BY <1>4, <2>1, <3>1
    <3>3. RulingFirst'
      BY <3>1, <3>2 DEF RulingFirst, UnderRuling
    <3> QED BY <3>1, <3>3 DEF LabelIsRuled, Ruled
  <2>2. CASE rulings = <<>>
    <3>1. rulings' = <<tx>> /\ UNCHANGED <<panel, results>> /\ ApplyRuling(tx) /\ Untrack("jury")
      BY <1>10, <2>2 DEF CommitRuling, FirstRuling
    <3>2. rulings' # <<>> /\ Head(rulings') = tx
      BY <3>1
    <3>3. \A x \in Node : Orderly(queue'[x], rulings')
      BY <1>4, <2>2, <3>2
    <3>4. results = <<>> /\ results' = <<>>
      BY <2>2, <3>1 DEF RulingFirst, UnderRuling
    <3>5. origin = Declared
      BY <2>2, <3>4 DEF LabelIsRuled, Ruled
    <3>6. RulingFirst'
      BY <3>2, <3>3, <3>4 DEF RulingFirst
    <3>7. origin' = IF tx.verdict = "UPHELD" THEN tx.confirmed ELSE Declared
      <4>1. tx \in RulingTx
        BY <1>1, <1>10 DEF CommitRuling, Transaction, ResultTx
      <4> QED BY <3>1, <3>5, <4>1 DEF ApplyRuling, RulingTx
    <3>8. LabelIsRuled'
      BY <3>2, <3>4, <3>7 DEF LabelIsRuled, Ruled
    <3> QED BY <3>6, <3>8
  <2> QED BY <2>1, <2>2
<1>11. CASE CommitResult(tx)
  <2>0. tx \in ResultTx /\ UnderRuling(tx, rulings)
    BY <1>1, <1>3, <1>11 DEF CommitResult, Transaction, RulingTx
  <2>1. UNCHANGED <<rulings, panel>>
    BY <1>11 DEF CommitResult
  <2>2. \A x \in Node : Orderly(queue'[x], rulings')
    BY <1>4, <1>11, <2>1 DEF CommitResult
  <2>3. CASE results # <<>>
    <3>1. UNCHANGED <<status, origin, results, pending>>
      BY <1>11, <2>3 DEF CommitResult, FirstResult
    <3>2. RulingFirst'
      BY <2>1, <2>2, <3>1 DEF RulingFirst, UnderRuling
    <3> QED BY <2>1, <3>1, <3>2 DEF LabelIsRuled, Ruled
  <2>4. CASE results = <<>>
    <3>1. results' = <<tx>> /\ ApplyResult(tx) /\ Untrack("appeal")
      BY <1>11, <2>4 DEF CommitResult, FirstResult
    <3>2. results' # <<>> /\ Head(results') = tx
      BY <3>1
    <3>3. RulingFirst'
      BY <2>0, <2>1, <2>2, <3>2 DEF RulingFirst, UnderRuling
    <3>4. origin = Ruled
      BY <2>4 DEF LabelIsRuled
    <3>5. origin' = IF tx.verdict = "UPHELD" THEN tx.confirmed
                    ELSE IF tx.overturned THEN Declared ELSE Ruled
      BY <2>0, <3>1, <3>4 DEF ApplyResult, UnderRuling, ResultTx
    <3>6. LabelIsRuled'
      BY <2>1, <3>2, <3>5 DEF LabelIsRuled, Ruled
    <3> QED BY <3>3, <3>6
  <2> QED BY <2>3, <2>4
<1> QED BY <1>6, <1>7, <1>8, <1>9, <1>10, <1>11 DEF Commit, tx

LEMMA StepRuled == IInv /\ [Next]_vars => RulingFirst' /\ LabelIsRuled'
<1> SUFFICES ASSUME IInv, [Next]_vars PROVE RulingFirst' /\ LabelIsRuled'
  OBVIOUS
<1> USE DEF IInv
<1>0. ASSUME UNCHANGED <<queue, pending, chain, origin>>
      PROVE  RulingFirst' /\ LabelIsRuled'
  BY <1>0 DEF RulingFirst, UnderRuling, Orderly, AppealSummons, LabelIsRuled, Ruled, chain
<1>1. ASSUME NEW n \in Desk, NEW d \in Disputer, FileDispute(n, d)
      PROVE  RulingFirst' /\ LabelIsRuled'
  <2> DEFINE b == <<Dispute(d), Summons("jury", JuryOf[d])>>
  <2>1. b \in Seq(Transaction) /\ n \in Node
    BY FilingsTyped, PanelsAreKnown
  <2>2. Orderly(b, rulings)
    BY DEF Orderly, AppealSummons, Dispute, Summons
  <2> QED BY <1>1, <2>1, <2>2, SubmittedInOrder DEF FileDispute, RulingFirst
<1>2. ASSUME NEW n \in Desk, FileAppeal(n) PROVE RulingFirst' /\ LabelIsRuled'
  <2> DEFINE b == <<Appeal("PARTY"), Summons("appeal", Seats(n))>>
  <2>1. b \in Seq(Transaction) /\ n \in Node
    BY FilingsTyped, PanelsAreKnown
  <2>2. Orderly(b, rulings)
    BY <1>2 DEF FileAppeal, CanAppeal, Orderly, AppealSummons, Appeal, Summons
  <2> QED BY <1>2, <2>1, <2>2, SubmittedInOrder DEF FileAppeal, RulingFirst
<1>3. ASSUME NEW n \in Restarting, Restart(n) PROVE RulingFirst' /\ LabelIsRuled'
  <2>1. \A x \in Node : "appeal" \in pending'[x] => rulings # <<>>
    BY <1>3 DEF Restart, Unresolved, RulingFirst, TypeOK
  <2>2. UNCHANGED <<queue, chain, row>>
    BY <1>3 DEF Restart
  <2> QED BY <2>1, <2>2 DEF RulingFirst, UnderRuling, Orderly, AppealSummons, LabelIsRuled, Ruled, chain, row
<1>4. ASSUME NEW n \in Node, Commit(n) PROVE RulingFirst' /\ LabelIsRuled'
  BY <1>4, CommitRuled
<1>5. ASSUME NEW s \in Stage, NEW p \in Person, NEW v \in Options[p], Reveal(s, p, v)
      PROVE  RulingFirst' /\ LabelIsRuled'
  BY <1>0, <1>5 DEF Reveal, row
<1>6. ASSUME NEW s \in Stage, NEW p \in Person, LandReveal(s, p) PROVE RulingFirst' /\ LabelIsRuled'
  BY <1>0, <1>6 DEF LandReveal, row
<1>7. ASSUME NEW s \in Stage, DeadlinePasses(s) PROVE RulingFirst' /\ LabelIsRuled'
  BY <1>0, <1>7 DEF DeadlinePasses, row
<1>8. ASSUME NEW n \in Node, NEW s \in Stage, CheckPending(n, s) PROVE RulingFirst' /\ LabelIsRuled'
  <2>1. \A x \in Node : "appeal" \in pending'[x] => rulings # <<>>
    BY <1>8 DEF CheckPending, RulingFirst, TypeOK
  <2>2. CASE UNCHANGED queue
    BY <1>8, <2>1, <2>2 DEF CheckPending, RulingFirst, UnderRuling, Orderly, AppealSummons, LabelIsRuled, Ruled, chain, row
  <2>3. ASSUME NEW b \in Batches(n, s), Submit(n, b) PROVE RulingFirst' /\ LabelIsRuled'
    <3>1. b \in Seq(Transaction)
      BY BatchesTyped
    <3>2. Orderly(b, rulings)
      <4>1. CASE s = "jury"
        BY <4>1, JuryBatchOrderly DEF Batches
      <4>2. CASE s = "appeal"
        BY <1>8, <4>2, AppealBatchOrderly DEF Batches, CheckPending, RulingFirst
      <4> QED BY <4>1, <4>2 DEF Stage
    <3> QED BY <1>8, <2>1, <2>3, <3>1, <3>2, SubmittedInOrder DEF CheckPending
  <2> QED BY <1>8, <2>2, <2>3 DEF CheckPending
<1>9. CASE UNCHANGED vars
  BY <1>0, <1>9 DEF vars, row
<1> QED BY <1>1, <1>2, <1>3, <1>4, <1>5, <1>6, <1>7, <1>8, <1>9 DEF Next

-----------------------------------------------------------------------------
(* Theorems.                                                               *)

LEMMA Invariance == Spec => []IInv
<1>1. Init => IInv
  BY InitTyped, InitRuled DEF IInv
<1>2. IInv /\ [Next]_vars => IInv'
  BY StepTyped, StepRuled DEF IInv
<1> QED BY <1>1, <1>2, PTL DEF Spec

\* The state keeps its shape, and no vote counts of a person without a summons
\* (dispute-service.js juryReveal, business-rules.js canRevealVote).
THEOREM TypeCorrect == Spec => []TypeOK
<1>1. IInv => TypeOK
  BY DEF IInv
<1> QED BY <1>1, Invariance, PTL

\* Whatever rulings the nodes race to propose, the content shows the origin
\* that the committed rulings give (commit-handler.js, ADJUDICATION_RESULT and
\* APPEAL_RESULT).
THEOREM LabelIsTheRuledOne == Spec => []LabelIsRuled
<1>1. IInv => LabelIsRuled
  BY DEF IInv
<1> QED BY <1>1, Invariance, PTL

\* An appeal is summoned only after a ruling, and a result overturns the
\* ruling that the chain keeps (verdict-trigger.js checkPending, jury.js
\* buildAppealBatch).
THEOREM ResultsFollowRulings == Spec => []RulingFirst
<1>1. IInv => RulingFirst
  BY DEF IInv
<1> QED BY <1>1, Invariance, PTL
-----------------------------------------------------------------------------
(* A parked content waits for a panel.                                     *)

\* The summonses that the dispute of d and an escalation bring with them.
JuryCall(d) == Summons("jury", JuryOf[d])
ExpertCalls == {Summons("appeal", Seats(m)) : m \in {x \in Node : Seats(x) # {}}}
\* A ruling that leaves the case to the experts.
Undecided(tx) == tx.kind = "ruling" /\ tx.verdict = "NO_QUORUM" /\ ~tx.terminal
JurySummons(tx) == tx.kind = "summons" /\ tx.stage = "jury"

\* In a mempool, or a batch for one: behind a dispute comes its jury, behind a
\* ruling that decides nothing come experts, and there is no ruling and no jury
\* without a dispute.  ds are the disputes on the chain.
Followed(q, ds, experts) ==
    /\ \A i \in DOMAIN q : q[i].kind = "dispute" => \E k \in (i + 1)..Len(q) : q[k] = JuryCall(q[i].by)
    /\ \A i \in DOMAIN q : Undecided(q[i]) => \E k \in (i + 1)..Len(q) : q[k] \in experts
    /\ \A i \in DOMAIN q : q[i].kind = "ruling" => ds # <<>>
    /\ \A i \in DOMAIN q : JurySummons(q[i]) => ds # <<>> \/ \E j \in 1..(i - 1) : q[j].kind = "dispute"

\* Some mempool holds one of those calls.
Expected(calls) == \E n \in Node : \E i \in DOMAIN queue[n] : queue[n][i] \in calls

\* The first dispute is committed before a jury sits, rules or is waited for.
DisputeFirst ==
    /\ \A n \in Node : "jury" \in pending[n] => disputes # <<>>
    /\ panel["jury"] # {} \/ rulings # <<>> \/ status = "DISPUTED" => disputes # <<>>
\* Who has to rule next sits, or is called by what waits in a mempool.
PanelsComing ==
    /\ \A n \in Node : Followed(queue[n], disputes, ExpertCalls)
    /\ disputes # <<>> => NoJuror \/ panel["jury"] # {} \/ Expected({JuryCall(Head(disputes))})
    /\ rulings # <<>> /\ Undecided(Head(rulings)) => panel["appeal"] # {} \/ Expected(ExpertCalls)
\* A content is still parked after its ruling only if that decided nothing,
\* and the experts have not decided either.
StillUndecided ==
    status = "DISPUTED" /\ rulings # <<>> /\ ~DisputedAgain =>
        Undecided(Head(rulings)) /\ (results # <<>> => Head(results).verdict = "CONSERVATIVE")
ParkInv == IInv /\ DisputeFirst /\ PanelsComing /\ StillUndecided

LEMMA FollowedAppend ==
    ASSUME NEW q \in Seq(Transaction), NEW b \in Seq(Transaction), NEW ds, NEW experts,
           Followed(q, ds, experts), Followed(b, ds, experts)
    PROVE  Followed(q \o b, ds, experts)
<1> DEFINE r == q \o b
<1>1. /\ Len(r) = Len(q) + Len(b)
      /\ \A i \in DOMAIN r :
           \/ i \in DOMAIN q /\ r[i] = q[i]
           \/ i - Len(q) \in DOMAIN b /\ r[i] = b[i - Len(q)]
  OBVIOUS
<1>2. \A i \in DOMAIN q : i \in DOMAIN r /\ r[i] = q[i]
  OBVIOUS
<1>3. \A i \in DOMAIN b : i + Len(q) \in DOMAIN r /\ r[i + Len(q)] = b[i]
  OBVIOUS
<1>l. Len(q) \in Nat /\ Len(b) \in Nat /\ DOMAIN q = 1..Len(q) /\ DOMAIN b = 1..Len(b) /\ DOMAIN r = 1..Len(r)
  OBVIOUS
<1> HIDE DEF r
<1>4. ASSUME NEW i \in DOMAIN r, r[i].kind = "dispute" PROVE \E k \in (i + 1)..Len(r) : r[k] = JuryCall(r[i].by)
  <2>1. CASE i \in DOMAIN q /\ r[i] = q[i]
    <3>1. PICK k \in (i + 1)..Len(q) : q[k] = JuryCall(r[i].by)
      BY <1>4, <2>1 DEF Followed
    <3>2. k \in DOMAIN q /\ k \in (i + 1)..Len(r)
      BY <1>1, <1>l, <2>1, <3>1
    <3> QED BY <1>2, <3>1, <3>2
  <2>2. CASE i - Len(q) \in DOMAIN b /\ r[i] = b[i - Len(q)]
    <3>1. PICK k \in (i - Len(q) + 1)..Len(b) : b[k] = JuryCall(r[i].by)
      BY <1>4, <2>2 DEF Followed
    <3>2. k \in DOMAIN b /\ k + Len(q) \in (i + 1)..Len(r)
      BY <1>1, <1>l, <2>2, <3>1
    <3> QED BY <1>3, <3>1, <3>2
  <2> QED BY <1>1, <2>1, <2>2
<1>5. ASSUME NEW i \in DOMAIN r, Undecided(r[i]) PROVE \E k \in (i + 1)..Len(r) : r[k] \in experts
  <2>1. CASE i \in DOMAIN q /\ r[i] = q[i]
    <3>1. PICK k \in (i + 1)..Len(q) : q[k] \in experts
      BY <1>5, <2>1 DEF Followed
    <3>2. k \in DOMAIN q /\ k \in (i + 1)..Len(r)
      BY <1>1, <1>l, <2>1, <3>1
    <3> QED BY <1>2, <3>1, <3>2
  <2>2. CASE i - Len(q) \in DOMAIN b /\ r[i] = b[i - Len(q)]
    <3>1. PICK k \in (i - Len(q) + 1)..Len(b) : b[k] \in experts
      BY <1>5, <2>2 DEF Followed
    <3>2. k \in DOMAIN b /\ k + Len(q) \in (i + 1)..Len(r)
      BY <1>1, <1>l, <2>2, <3>1
    <3> QED BY <1>3, <3>1, <3>2
  <2> QED BY <1>1, <2>1, <2>2
<1>6. ASSUME NEW i \in DOMAIN r, r[i].kind = "ruling" PROVE ds # <<>>
  BY <1>1, <1>6 DEF Followed
<1>7. ASSUME NEW i \in DOMAIN r, JurySummons(r[i]), ds = <<>>
      PROVE  \E j \in 1..(i - 1) : r[j].kind = "dispute"
  <2>1. CASE i \in DOMAIN q /\ r[i] = q[i]
    <3>1. PICK j \in 1..(i - 1) : q[j].kind = "dispute"
      BY <1>7, <2>1 DEF Followed
    <3>2. j \in DOMAIN q
      BY <1>l, <2>1, <3>1
    <3> QED BY <1>2, <3>1, <3>2
  <2>2. CASE i - Len(q) \in DOMAIN b /\ r[i] = b[i - Len(q)]
    <3>1. PICK j \in 1..(i - Len(q) - 1) : b[j].kind = "dispute"
      BY <1>7, <2>2 DEF Followed
    <3>2. j \in DOMAIN b /\ j + Len(q) \in 1..(i - 1)
      BY <1>1, <1>l, <2>2, <3>1
    <3> QED BY <1>3, <3>1, <3>2
  <2> QED BY <1>1, <2>1, <2>2
<1> QED BY <1>4, <1>5, <1>6, <1>7 DEF Followed, r

\* A dispute on the chain stays there.
LEMMA FollowedGrows ==
    ASSUME NEW q, NEW ds, NEW later, NEW experts, Followed(q, ds, experts),
           ds # <<>> => later # <<>>
    PROVE  Followed(q, later, experts)
BY DEF Followed

LEMMA FollowedTail ==
    ASSUME NEW q \in Seq(Transaction), q # <<>>, NEW ds, NEW later, NEW experts,
           Followed(q, ds, experts), ds # <<>> => later # <<>>,
           Head(q).kind = "dispute" => later # <<>>
    PROVE  /\ Followed(Tail(q), later, experts)
           /\ Head(q).kind = "dispute" => \E i \in DOMAIN Tail(q) : Tail(q)[i] = JuryCall(Head(q).by)
           /\ Undecided(Head(q)) => \E i \in DOMAIN Tail(q) : Tail(q)[i] \in experts
           /\ Head(q).kind = "ruling" \/ JurySummons(Head(q)) => ds # <<>>
<1> DEFINE t == Tail(q)
<1>1. /\ Len(t) = Len(q) - 1 /\ Len(q) \in Nat \ {0}
      /\ DOMAIN t = 1..Len(t) /\ DOMAIN q = 1..Len(q)
      /\ Head(q) = q[1]
  OBVIOUS
<1>2. \A i \in DOMAIN t : i + 1 \in DOMAIN q /\ t[i] = q[i + 1]
  OBVIOUS
<1> HIDE DEF t
<1>3. \A k \in 2..Len(q) : k - 1 \in DOMAIN t /\ t[k - 1] = q[k]
  <2> TAKE k \in 2..Len(q)
  <2>1. k - 1 \in DOMAIN t
    BY <1>1
  <2>2. t[k - 1] = q[(k - 1) + 1]
    BY <1>2, <2>1
  <2> QED BY <2>1, <2>2
<1>4. ASSUME NEW i \in DOMAIN t, t[i].kind = "dispute" PROVE \E k \in (i + 1)..Len(t) : t[k] = JuryCall(t[i].by)
  <2>1. PICK k \in (i + 2)..Len(q) : q[k] = JuryCall(t[i].by)
    <3>1. q[i + 1].kind = "dispute" /\ i + 1 \in DOMAIN q
      BY <1>2, <1>4
    <3>2. \E k \in ((i + 1) + 1)..Len(q) : q[k] = JuryCall(q[i + 1].by)
      BY <3>1 DEF Followed
    <3> QED BY <1>1, <1>2, <3>2
  <2>2. k \in 2..Len(q) /\ k - 1 \in (i + 1)..Len(t)
    BY <1>1, <2>1
  <2> QED BY <1>3, <2>1, <2>2
<1>5. ASSUME NEW i \in DOMAIN t, Undecided(t[i]) PROVE \E k \in (i + 1)..Len(t) : t[k] \in experts
  <2>1. PICK k \in (i + 2)..Len(q) : q[k] \in experts
    <3>1. Undecided(q[i + 1]) /\ i + 1 \in DOMAIN q
      BY <1>2, <1>5
    <3>2. \E k \in ((i + 1) + 1)..Len(q) : q[k] \in experts
      BY <3>1 DEF Followed
    <3> QED BY <1>1, <1>2, <3>2
  <2>2. k \in 2..Len(q) /\ k - 1 \in (i + 1)..Len(t)
    BY <1>1, <2>1
  <2> QED BY <1>3, <2>1, <2>2
<1>6. ASSUME NEW i \in DOMAIN t, t[i].kind = "ruling" PROVE later # <<>>
  BY <1>2, <1>6 DEF Followed
<1>7. ASSUME NEW i \in DOMAIN t, JurySummons(t[i]), later = <<>>
      PROVE  \E j \in 1..(i - 1) : t[j].kind = "dispute"
  <2>1. PICK j \in 1..i : q[j].kind = "dispute"
    <3>1. JurySummons(q[i + 1]) /\ i + 1 \in DOMAIN q /\ ds = <<>>
      BY <1>2, <1>7
    <3>2. \E j \in 1..((i + 1) - 1) : q[j].kind = "dispute"
      BY <3>1 DEF Followed
    <3> QED BY <3>2, <1>1
  <2>2. j # 1
    BY <1>1, <1>7, <2>1
  <2>3. j \in 2..Len(q) /\ j - 1 \in 1..(i - 1)
    BY <1>1, <2>1, <2>2
  <2> QED BY <1>3, <2>1, <2>3
<1>8. Followed(t, later, experts)
  BY <1>4, <1>5, <1>6, <1>7 DEF Followed
<1>9. 1 \in DOMAIN q
  BY <1>1
<1>10. ASSUME Head(q).kind = "dispute" PROVE \E i \in DOMAIN t : t[i] = JuryCall(Head(q).by)
  <2>1. PICK k \in (1 + 1)..Len(q) : q[k] = JuryCall(Head(q).by)
    BY <1>1, <1>9, <1>10 DEF Followed
  <2> QED BY <1>3, <2>1
<1>11. ASSUME Undecided(Head(q)) PROVE \E i \in DOMAIN t : t[i] \in experts
  <2>1. PICK k \in (1 + 1)..Len(q) : q[k] \in experts
    BY <1>1, <1>9, <1>11 DEF Followed
  <2> QED BY <1>3, <2>1
<1>12. ASSUME Head(q).kind = "ruling" \/ JurySummons(Head(q)) PROVE ds # <<>>
  <2>1. ~ \E j \in 1..(1 - 1) : q[j].kind = "dispute"
    OBVIOUS
  <2> QED BY <1>1, <1>9, <1>12, <2>1 DEF Followed
<1> QED BY <1>8, <1>10, <1>11, <1>12 DEF t

-----------------------------------------------------------------------------
(* What is submitted brings its panel with it.                             *)

LEMMA EscalatedCall ==
    ASSUME NEW n \in Node, CanEscalate(n)
    PROVE  Summons("appeal", Seats(n)) \in ExpertCalls
<1>1. Seats(n) # {}
  BY FS_EmptySet, RulesAreNumbers DEF CanEscalate
<1> QED BY <1>1 DEF ExpertCalls

LEMMA FilingFollowed ==
    ASSUME NEW d \in Disputer, NEW ds, NEW experts
    PROVE  Followed(<<Dispute(d), Summons("jury", JuryOf[d])>>, ds, experts)
<1> DEFINE b == <<Dispute(d), Summons("jury", JuryOf[d])>>
<1>1. /\ Len(b) = 2 /\ DOMAIN b = 1..2
      /\ b[1] = Dispute(d) /\ b[2] = Summons("jury", JuryOf[d])
  OBVIOUS
<1>2. b[1].kind = "dispute" /\ b[1].by = d /\ b[2].kind = "summons"
  BY <1>1 DEF Dispute, Summons
<1>3. b[2] = JuryCall(b[1].by)
  BY <1>1, <1>2 DEF JuryCall
<1> HIDE DEF b
<1>4. \A i \in DOMAIN b : b[i].kind = "dispute" => \E k \in (i + 1)..Len(b) : b[k] = JuryCall(b[i].by)
  BY <1>1, <1>2, <1>3
<1>5. \A i \in DOMAIN b : ~Undecided(b[i]) /\ b[i].kind # "ruling"
  BY <1>1, <1>2 DEF Undecided
<1>6. \A i \in DOMAIN b : JurySummons(b[i]) => \E j \in 1..(i - 1) : b[j].kind = "dispute"
  BY <1>1, <1>2 DEF JurySummons
<1>7. Followed(b, ds, experts)
  BY <1>4, <1>5, <1>6 DEF Followed
<1> QED BY <1>7 DEF b

\* Nothing in the batch asks for another transaction behind it or before it.
LEMMA PlainFollowed ==
    ASSUME NEW b, NEW ds, NEW experts,
           \A i \in DOMAIN b :
               /\ b[i].kind # "dispute" /\ ~Undecided(b[i]) /\ ~JurySummons(b[i])
               /\ b[i].kind = "ruling" => ds # <<>>
    PROVE  Followed(b, ds, experts)
BY DEF Followed

LEMMA PartyAppealFollowed ==
    ASSUME NEW n \in Node, NEW ds, NEW experts
    PROVE  Followed(<<Appeal("PARTY"), Summons("appeal", Seats(n))>>, ds, experts)
BY PlainFollowed DEF Undecided, JurySummons, Appeal, Summons

LEMMA JuryBatchFollowed ==
    ASSUME NEW n \in Node, NEW b \in AdjudicationBatches(n), NEW ds, ds # <<>>
    PROVE  Followed(b, ds, ExpertCalls)
<1>1. CASE JuryDecides
  <2>1. PICK o \in Confirmed("jury") : b = RulingBatch(Finding("jury", o), o)
    BY <1>1 DEF AdjudicationBatches
  <2>2. Finding("jury", o) # "NO_QUORUM"
    BY DEF Finding
  <2>3. \A i \in DOMAIN b : b[i].kind \in {"ruling", "score"} /\ ~Undecided(b[i])
    BY <2>1, <2>2 DEF RulingBatch, Undecided, Ruling, Score
  <2> QED BY <2>3, PlainFollowed DEF JurySummons
<1>2. CASE ~JuryDecides /\ ~CanEscalate(n)
  <2>1. b = <<Ruling("NO_QUORUM", None, TRUE), Score("refunded")>>
    BY <1>2 DEF AdjudicationBatches, NoQuorumBatch
  <2>3. \A i \in DOMAIN b : b[i].kind \in {"ruling", "score"} /\ ~Undecided(b[i])
    BY <2>1 DEF Undecided, Ruling, Score
  <2> QED BY <2>3, PlainFollowed DEF JurySummons
<1>3. CASE ~JuryDecides /\ CanEscalate(n)
  <2> DEFINE c == <<Ruling("NO_QUORUM", None, FALSE), Appeal("SYSTEM"), Summons("appeal", Seats(n))>>
  <2>1. b = c
    BY <1>3 DEF AdjudicationBatches, NoQuorumBatch
  <2>2. /\ Len(c) = 3 /\ DOMAIN c = 1..3
        /\ c[1] = Ruling("NO_QUORUM", None, FALSE) /\ c[2] = Appeal("SYSTEM")
        /\ c[3] = Summons("appeal", Seats(n))
    OBVIOUS
  <2>3. c[3] \in ExpertCalls
    BY <1>3, <2>2, EscalatedCall
  <2>4. /\ c[1].kind = "ruling" /\ c[2].kind = "appeal" /\ c[3].kind = "summons"
        /\ c[3].stage = "appeal"
    BY <2>2 DEF Ruling, Appeal, Summons
  <2> HIDE DEF c
  <2>5. \A i \in DOMAIN c : c[i].kind # "dispute" /\ ~JurySummons(c[i])
    <3> TAKE i \in DOMAIN c
    <3>1. i = 1 \/ i = 2 \/ i = 3
      BY <2>2
    <3>2. c[i].kind # "dispute"
      BY <2>4, <3>1
    <3>3. ~JurySummons(c[i])
      BY <2>4, <3>1 DEF JurySummons
    <3> QED BY <3>2, <3>3
  <2>6. \A i \in DOMAIN c : Undecided(c[i]) => \E k \in (i + 1)..Len(c) : c[k] \in ExpertCalls
    <3>1. ASSUME NEW i \in DOMAIN c, Undecided(c[i]) PROVE i = 1
      BY <2>2, <2>4, <3>1 DEF Undecided
    <3>2. 3 \in (1 + 1)..Len(c)
      BY <2>2
    <3> QED BY <2>3, <3>1, <3>2
  <2>7. Followed(c, ds, ExpertCalls)
    BY <2>5, <2>6 DEF Followed
  <2> QED BY <2>1, <2>7
<1> QED BY <1>1, <1>2, <1>3

LEMMA AppealBatchFollowed ==
    ASSUME NEW b \in AppealBatches, NEW ds, NEW experts
    PROVE  Followed(b, ds, experts)
<1>1. PICK x, y : /\ x.kind = "result" /\ y.kind = "score"
                  /\ b \in {<<x>> \o <<>>, <<x>> \o <<y>>}
  <2>1. CASE ~ExpertsDecide
    <3> DEFINE x == Result("DISMISSED", None, Stage2, FALSE)
               y == Score("refunded")
    <3>1. b \in {<<x>> \o <<>>, <<x>> \o <<y>>}
      BY <2>1, Zenon DEF AppealBatches, DefaultBatch
    <3>2. x.kind = "result" /\ y.kind = "score"
      BY DEF Result, Score
    <3> QED BY <3>1, <3>2
  <2>2. CASE ExpertsDecide
    <3>1. PICK o, v : b = ResultBatch(v, o)
      BY <2>2 DEF AppealBatches
    <3> DEFINE x == Result(v, IF v = "DISMISSED" THEN None ELSE o, Stage2, Overturns(v))
    <3>2. PICK y \in {Score("overturned"), Score("final")} : b \in {<<x>> \o <<>>, <<x>> \o <<y>>}
      BY <3>1, Zenon DEF ResultBatch, Settlement
    <3>3. x.kind = "result" /\ y.kind = "score"
      BY <3>2 DEF Result, Score
    <3> QED BY <3>2, <3>3
  <2> QED BY <2>1, <2>2
<1>2. \A i \in DOMAIN b : b[i] = x \/ b[i] = y
  BY <1>1, Pair
<1>3. \A i \in DOMAIN b : b[i].kind \in {"result", "score"}
  BY <1>1, <1>2
<1> QED BY <1>3, PlainFollowed DEF Undecided, JurySummons

-----------------------------------------------------------------------------
(* Steps.                                                                  *)

LEMMA InitParked == Init => DisputeFirst /\ PanelsComing /\ StillUndecided
<1> SUFFICES ASSUME Init PROVE DisputeFirst /\ PanelsComing /\ StillUndecided
  OBVIOUS
<1>1. ASSUME NEW n \in Node PROVE "jury" \notin pending[n] /\ queue[n] = <<>>
  BY DEF Init
<1>2. panel["jury"] = {} /\ rulings = <<>> /\ disputes = <<>> /\ status # "DISPUTED"
  BY DEF Init, Stage
<1>3. \A ds, experts : Followed(<<>>, ds, experts)
  BY PlainFollowed
<1> QED BY <1>1, <1>2, <1>3 DEF DisputeFirst, PanelsComing, StillUndecided

\* The experts of a node do not change.
LEMMA SameCalls == UNCHANGED pool => UNCHANGED ExpertCalls
BY DEF ExpertCalls, Seats

LEMMA StillExpected ==
    ASSUME NEW n \in Node, NEW b \in Seq(Transaction), queue \in [Node -> Seq(Transaction)],
           Submit(n, b), NEW calls, \E x \in Node : \E i \in DOMAIN queue[x] : queue[x][i] \in calls
    PROVE  \E x \in Node : \E i \in DOMAIN queue'[x] : queue'[x][i] \in calls
<1>x. PICK x \in Node : \E i \in DOMAIN queue[x] : queue[x][i] \in calls
  OBVIOUS
<1>1. PICK i \in DOMAIN queue[x] : queue[x][i] \in calls
  BY <1>x
<1>2. CASE x = n
  <2>1. queue'[x] = queue[x] \o b
    BY <1>2 DEF Submit
  <2>2. i \in DOMAIN (queue[x] \o b) /\ (queue[x] \o b)[i] = queue[x][i]
    OBVIOUS
  <2> QED BY <1>1, <2>1, <2>2
<1>3. CASE x # n
  BY <1>1, <1>3 DEF Submit
<1> QED BY <1>2, <1>3

LEMMA SubmittedFollowed ==
    ASSUME TypeOK, PanelsComing, NEW n \in Node, NEW b \in Seq(Transaction),
           Submit(n, b), Followed(b, disputes, ExpertCalls), UNCHANGED <<pool, chain>>
    PROVE  PanelsComing'
<1>0. UNCHANGED <<ExpertCalls, disputes, panel, rulings>> /\ queue \in [Node -> Seq(Transaction)]
  BY SameCalls DEF chain, TypeOK
<1>1. \A x \in Node : Followed(queue'[x], disputes, ExpertCalls)
  <2> TAKE x \in Node
  <2>1. Followed(queue[x], disputes, ExpertCalls) /\ queue[x] \in Seq(Transaction)
    BY <1>0 DEF PanelsComing
  <2>2. CASE x = n
    <3>1. queue'[x] = queue[x] \o b
      BY <1>0, <2>2 DEF Submit
    <3> QED BY <2>1, <3>1, FollowedAppend
  <2>3. CASE x # n
    BY <1>0, <2>1, <2>3 DEF Submit
  <2> QED BY <2>2, <2>3
<1>2. ASSUME NEW calls, Expected(calls)
      PROVE  \E x \in Node : \E i \in DOMAIN queue'[x] : queue'[x][i] \in calls
  BY <1>0, <1>2, StillExpected DEF Expected
<1>3. disputes # <<>> =>
          \/ NoJuror \/ panel["jury"] # {}
          \/ \E x \in Node : \E i \in DOMAIN queue'[x] : queue'[x][i] \in {JuryCall(Head(disputes))}
  BY <1>2 DEF PanelsComing
<1>4. rulings # <<>> /\ Undecided(Head(rulings)) =>
          \/ panel["appeal"] # {}
          \/ \E x \in Node : \E i \in DOMAIN queue'[x] : queue'[x][i] \in ExpertCalls
  BY <1>2 DEF PanelsComing
<1> QED BY <1>0, <1>1, <1>3, <1>4 DEF PanelsComing, Expected, Undecided, JuryCall, NoJuror

\* Nobody is dropped from a mempool: who was called there either still is, or
\* is on the panel.
LEMMA CalledOrSeated ==
    ASSUME TypeOK, NEW n \in Node, Commit(n), NEW calls, NEW s \in Stage,
           \A tx \in calls : tx.kind = "summons" /\ tx.stage = s /\ tx.who # {},
           \E x \in Node : \E i \in DOMAIN queue[x] : queue[x][i] \in calls
    PROVE  \/ panel'[s] # {}
           \/ \E x \in Node : \E i \in DOMAIN queue'[x] : queue'[x][i] \in calls
<1>x. PICK x \in Node : \E i \in DOMAIN queue[x] : queue[x][i] \in calls
  OBVIOUS
<1>1. PICK i \in DOMAIN queue[x] : queue[x][i] \in calls
  BY <1>x
<1>2. queue \in [Node -> Seq(Transaction)] /\ queue[n] # <<>>
  BY DEF TypeOK, Commit
<1>3. CASE x # n
  BY <1>1, <1>2, <1>3 DEF Commit
<1>4. CASE x = n /\ i # 1
  <2>1. queue'[x] = Tail(queue[n])
    BY <1>2, <1>4 DEF Commit
  <2>2. i - 1 \in DOMAIN Tail(queue[n]) /\ Tail(queue[n])[i - 1] = queue[n][i]
    BY <1>2, <1>4
  <2> QED BY <1>1, <1>4, <2>1, <2>2
<1>5. CASE x = n /\ i = 1
  <2> DEFINE tx == Head(queue[n])
  <2>1. tx \in calls
    BY <1>1, <1>2, <1>5
  <2>2. tx.kind = "summons" /\ tx.stage = s /\ tx.who # {}
    BY <2>1
  <2> HIDE DEF tx
  <2>3. CommitSummons(tx)
    <3>1. \/ CommitDispute(tx) \/ CommitSummons(tx) \/ CommitRuling(tx)
          \/ CommitAppeal(tx) \/ CommitResult(tx) \/ CommitScore(tx)
      BY DEF Commit, tx
    <3> QED BY <2>2, <3>1 DEF CommitDispute, CommitRuling, CommitAppeal, CommitResult, CommitScore
  <2>4. panel'[s] = panel[s] \cup tx.who
    BY <2>2, <2>3 DEF CommitSummons, TypeOK
  <2> QED BY <2>2, <2>4
<1> QED BY <1>3, <1>4, <1>5

LEMMA CallsAreSummons ==
    /\ ~NoJuror /\ disputes # <<>> =>
           \A tx \in {JuryCall(Head(disputes))} :
               tx.kind = "summons" /\ tx.stage = "jury" /\ tx.who # {}
    /\ \A tx \in ExpertCalls : tx.kind = "summons" /\ tx.stage = "appeal" /\ tx.who # {}
BY DEF NoJuror, JuryCall, ExpertCalls, Summons

LEMMA CommitPanels ==
    ASSUME IInv, DisputeFirst, PanelsComing, NEW n \in Node, Commit(n)
    PROVE  DisputeFirst' /\ PanelsComing'
<1> DEFINE tx == Head(queue[n])
           t == Tail(queue[n])
<1>0. TypeOK
  BY DEF IInv
<1>1. queue \in [Node -> Seq(Transaction)] /\ queue[n] \in Seq(Transaction) /\ queue[n] # <<>> /\ tx \in Transaction
  BY <1>0, HeadOfSequence DEF TypeOK, Commit
<1>2. UNCHANGED ExpertCalls
  BY SameCalls DEF Commit
<1>3. Followed(queue[n], disputes, ExpertCalls)
  BY DEF PanelsComing
<1>q. queue'[n] = t /\ \A x \in Node : x # n => queue'[x] = queue[x]
  BY <1>1 DEF Commit
<1>4. /\ disputes # <<>> => disputes' # <<>>
      /\ tx.kind = "dispute" => disputes' # <<>>
      /\ disputes # <<>> => Head(disputes') = Head(disputes)
      /\ disputes = <<>> /\ disputes' # <<>> => tx.kind = "dispute" /\ Head(disputes') = tx.by
  <2>1. CASE CommitDispute(tx)
    <3>1. CASE CanDispute(tx.by)
      <4>1. disputes' = Append(disputes, tx.by) /\ disputes \in Seq(Disputer)
        BY <1>0, <2>1, <3>1 DEF CommitDispute, TypeOK
      <4>2. tx.kind = "dispute" /\ tx.by \in Disputer
        BY <1>1, <2>1 DEF CommitDispute, Transaction, RulingTx, ResultTx
      <4> QED BY <4>1, <4>2
    <3>2. CASE ~CanDispute(tx.by)
      <4>1. disputes' = disputes
        BY <2>1, <3>2 DEF CommitDispute
      <4>2. disputes # <<>>
        BY <3>2 DEF CanDispute, DisputeFirst
      <4> QED BY <4>1, <4>2
    <3> QED BY <3>1, <3>2
  <2>2. CASE CommitSummons(tx) \/ CommitRuling(tx) \/ CommitAppeal(tx) \/ CommitResult(tx) \/ CommitScore(tx)
    BY <2>2 DEF CommitSummons, CommitRuling, CommitAppeal, CommitResult, CommitScore, chain
  <2> QED BY <2>1, <2>2 DEF Commit
<1> HIDE DEF tx, t
<1>5. /\ Followed(t, disputes', ExpertCalls)
      /\ tx.kind = "dispute" => \E i \in DOMAIN t : t[i] = JuryCall(tx.by)
      /\ Undecided(tx) => \E i \in DOMAIN t : t[i] \in ExpertCalls
      /\ tx.kind = "ruling" \/ JurySummons(tx) => disputes # <<>>
  BY <1>1, <1>3, <1>4, FollowedTail DEF tx, t
<1>6. ASSUME NEW x \in Node PROVE Followed(queue'[x], disputes', ExpertCalls)
  <2>1. CASE x = n
    BY <1>5, <1>q, <2>1
  <2>2. CASE x # n
    <3>1. Followed(queue[x], disputes, ExpertCalls)
      BY DEF PanelsComing
    <3> QED BY <1>4, <1>q, <2>2, <3>1, FollowedGrows
  <2> QED BY <2>1, <2>2
<1>7. \A x \in Node : Followed(queue'[x], disputes', ExpertCalls')
  BY <1>2, <1>6
<1>8. disputes' # <<>> => NoJuror' \/ panel'["jury"] # {} \/ Expected({JuryCall(Head(disputes))})'
  <2>1. SUFFICES ASSUME disputes' # <<>>, ~NoJuror'
                 PROVE  panel'["jury"] # {} \/ Expected({JuryCall(Head(disputes))})'
    OBVIOUS
  <2>2. Expected({JuryCall(Head(disputes))})' <=>
            \E x \in Node : \E i \in DOMAIN queue'[x] : queue'[x][i] \in {JuryCall(Head(disputes'))}
    BY DEF Expected, JuryCall
  <2>3. CASE disputes = <<>>
    <3>1. tx.kind = "dispute" /\ Head(disputes') = tx.by
      BY <1>4, <2>1, <2>3
    <3>2. PICK i \in DOMAIN t : t[i] = JuryCall(Head(disputes'))
      BY <1>5, <3>1
    <3> QED BY <1>q, <2>2, <3>2
  <2>4. CASE disputes # <<>>
    <3>1. Head(disputes') = Head(disputes) /\ ~NoJuror
      BY <1>4, <2>1, <2>4 DEF NoJuror
    <3>2. CASE panel["jury"] # {}
      <4>1. panel' = panel \/ \E s \in Stage : panel' = [panel EXCEPT ![s] = @ \cup tx.who]
        <5>1. CASE CommitSummons(tx)
          <6>1. tx.stage \in Stage
            BY <1>1, <5>1 DEF CommitSummons, Transaction, RulingTx, ResultTx
          <6> QED BY <5>1, <6>1 DEF CommitSummons
        <5>2. CASE CommitDispute(tx) \/ CommitRuling(tx) \/ CommitAppeal(tx) \/ CommitResult(tx) \/ CommitScore(tx)
          BY <5>2 DEF CommitDispute, CommitRuling, CommitAppeal, CommitResult, CommitScore, chain
        <5> QED BY <5>1, <5>2 DEF Commit, tx
      <4> QED BY <1>0, <3>2, <4>1 DEF TypeOK, Stage
    <3>3. CASE Expected({JuryCall(Head(disputes))})
      <4> DEFINE calls == {JuryCall(Head(disputes))}
      <4>1. \A c \in calls : c.kind = "summons" /\ c.stage = "jury" /\ c.who # {}
        BY <2>4, <3>1, CallsAreSummons
      <4>2. \E x \in Node : \E i \in DOMAIN queue[x] : queue[x][i] \in calls
        BY <3>3 DEF Expected
      <4>3. calls = {JuryCall(Head(disputes'))}
        BY <3>1
      <4> HIDE DEF calls
      <4>4. panel'["jury"] # {} \/ \E x \in Node : \E i \in DOMAIN queue'[x] : queue'[x][i] \in calls
        BY <1>0, <4>1, <4>2, CalledOrSeated DEF Stage
      <4> QED BY <2>2, <4>3, <4>4
    <3> QED BY <2>4, <3>1, <3>2, <3>3 DEF PanelsComing
  <2> QED BY <2>3, <2>4
<1>p. panel["appeal"] # {} => panel'["appeal"] # {}
  <2>1. CASE CommitSummons(tx)
    <3>1. tx.stage \in Stage
      BY <1>1, <2>1 DEF CommitSummons, Transaction, RulingTx, ResultTx
    <3> QED BY <1>0, <2>1, <3>1 DEF CommitSummons, TypeOK, Stage
  <2>2. CASE CommitDispute(tx) \/ CommitRuling(tx) \/ CommitAppeal(tx) \/ CommitResult(tx) \/ CommitScore(tx)
    BY <2>2 DEF CommitDispute, CommitRuling, CommitAppeal, CommitResult, CommitScore, chain
  <2> QED BY <2>1, <2>2 DEF Commit, tx
<1>9. rulings' # <<>> /\ Undecided(Head(rulings)') => panel'["appeal"] # {} \/ Expected(ExpertCalls)'
  <2>1. SUFFICES ASSUME rulings' # <<>>, Undecided(Head(rulings)') PROVE panel'["appeal"] # {} \/ Expected(ExpertCalls)'
    OBVIOUS
  <2>2. Expected(ExpertCalls)' <=> \E x \in Node : \E i \in DOMAIN queue'[x] : queue'[x][i] \in ExpertCalls
    BY <1>2 DEF Expected
  <2>3. CASE rulings' = rulings
    <3>1. CASE panel["appeal"] # {}
      BY <1>p, <3>1
    <3>2. CASE Expected(ExpertCalls)
      BY <1>0, <2>2, <3>2, CalledOrSeated, CallsAreSummons DEF Expected, Stage
    <3> QED BY <2>1, <2>3, <3>1, <3>2 DEF PanelsComing
  <2>4. CASE rulings' # rulings
    <3>1. CommitRuling(tx) /\ rulings = <<>> /\ rulings' = Append(rulings, tx)
      <4>1. CommitRuling(tx)
        <5>1. ~(CommitDispute(tx) \/ CommitSummons(tx) \/ CommitAppeal(tx) \/ CommitResult(tx) \/ CommitScore(tx))
          BY <2>4 DEF CommitDispute, CommitSummons, CommitAppeal, CommitResult, CommitScore, chain
        <5> QED BY <5>1 DEF Commit, tx
      <4> QED BY <2>4, <4>1 DEF CommitRuling, FirstRuling
    <3>2. Head(rulings') = tx
      BY <3>1
    <3> QED BY <1>5, <1>q, <2>1, <2>2, <3>2
  <2> QED BY <2>3, <2>4
<1>10. PanelsComing'
  BY <1>7, <1>8, <1>9 DEF PanelsComing
<1>11. DisputeFirst'
  <2>1. ASSUME NEW x \in Node, "jury" \in pending'[x] PROVE disputes' # <<>>
    <3>1. CASE "jury" \in pending[x]
      BY <1>4, <3>1 DEF DisputeFirst
    <3>2. CASE "jury" \notin pending[x]
      <4>1. CommitSummons(tx) /\ Track(tx.stage)
        <5>1. CASE CommitSummons(tx)
          BY <2>1, <3>2, <5>1 DEF CommitSummons
        <5>2. CASE CommitDispute(tx) \/ CommitScore(tx)
          BY <2>1, <3>2, <5>2 DEF CommitDispute, CommitScore
        <5>3. CASE CommitRuling(tx) \/ CommitAppeal(tx) \/ CommitResult(tx)
          BY <2>1, <3>2, <5>3 DEF CommitRuling, CommitAppeal, CommitResult, Untrack
        <5> QED BY <5>1, <5>2, <5>3 DEF Commit, tx
      <4>2. JurySummons(tx)
        BY <2>1, <3>2, <4>1 DEF CommitSummons, Track, JurySummons
      <4> QED BY <1>4, <1>5, <4>2
    <3> QED BY <3>1, <3>2
  <2>2. ASSUME panel'["jury"] # {} PROVE disputes' # <<>>
    <3>1. CASE panel["jury"] # {}
      BY <1>4, <3>1 DEF DisputeFirst
    <3>2. CASE panel["jury"] = {}
      <4>1. CommitSummons(tx)
        <5>1. ~(CommitDispute(tx) \/ CommitRuling(tx) \/ CommitAppeal(tx) \/ CommitResult(tx) \/ CommitScore(tx))
          BY <2>2, <3>2 DEF CommitDispute, CommitRuling, CommitAppeal, CommitResult, CommitScore, chain
        <5> QED BY <5>1 DEF Commit, tx
      <4>2. tx.stage = "jury"
        BY <1>0, <2>2, <3>2, <4>1 DEF CommitSummons, TypeOK, Stage
      <4> QED BY <1>4, <1>5, <4>1, <4>2 DEF JurySummons, CommitSummons
    <3> QED BY <3>1, <3>2
  <2>3. ASSUME rulings' # <<>> PROVE disputes' # <<>>
    <3>1. CASE rulings # <<>>
      BY <1>4, <3>1 DEF DisputeFirst
    <3>2. CASE rulings = <<>>
      <4>1. CommitRuling(tx)
        <5>1. ~(CommitDispute(tx) \/ CommitSummons(tx) \/ CommitAppeal(tx) \/ CommitResult(tx) \/ CommitScore(tx))
          BY <2>3, <3>2 DEF CommitDispute, CommitSummons, CommitAppeal, CommitResult, CommitScore, chain
        <5> QED BY <5>1 DEF Commit, tx
      <4> QED BY <1>4, <1>5, <4>1 DEF CommitRuling
    <3> QED BY <3>1, <3>2
  <2>4. ASSUME status' = "DISPUTED" PROVE disputes' # <<>>
    <3>1. CASE status = "DISPUTED"
      BY <1>4, <3>1 DEF DisputeFirst
    <3>2. CASE status # "DISPUTED"
      <4>1. CASE CommitDispute(tx)
        BY <1>4, <4>1 DEF CommitDispute
      <4>2. CASE CommitRuling(tx)
        BY <2>4, <3>2, <4>2 DEF CommitRuling, ApplyRuling, Resolved
      <4>3. CASE CommitResult(tx)
        BY <2>4, <3>2, <4>3 DEF CommitResult, ApplyResult, Resolved
      <4>4. CASE CommitSummons(tx) \/ CommitAppeal(tx) \/ CommitScore(tx)
        BY <2>4, <3>2, <4>4 DEF CommitSummons, CommitAppeal, CommitScore, row
      <4> QED BY <4>1, <4>2, <4>3, <4>4 DEF Commit, tx
    <3> QED BY <3>1, <3>2
  <2> QED BY <2>1, <2>2, <2>3, <2>4 DEF DisputeFirst
<1> QED BY <1>10, <1>11

LEMMA CommitStillUndecided ==
    ASSUME IInv, DisputeFirst, StillUndecided, NEW n \in Node, Commit(n)
    PROVE  StillUndecided'
<1> DEFINE tx == Head(queue[n])
<1>0. disputes \in Seq(Disputer) /\ rulings \in Seq(RulingTx) /\ results \in Seq(ResultTx)
  BY DEF IInv, TypeOK
<1>1. tx \in Transaction
  BY HeadOfSequence DEF IInv, TypeOK, Commit
<1> HIDE DEF tx
<1>2. CASE CommitDispute(tx)
  <2>1. UNCHANGED <<rulings, results>>
    BY <1>2 DEF CommitDispute
  <2>2. CASE CanDispute(tx.by)
    <3>1. disputes' = Append(disputes, tx.by)
      BY <1>2, <2>2 DEF CommitDispute
    <3>2. Len(disputes') = Len(disputes) + 1
      BY <1>0, <3>1
    <3>3. disputes # <<>> => Len(disputes) > 0
      BY <1>0
    <3>4. rulings # <<>> => DisputedAgain'
      BY <1>0, <3>2, <3>3 DEF DisputeFirst, DisputedAgain
    <3> QED BY <2>1, <3>4 DEF StillUndecided
  <2>3. CASE ~CanDispute(tx.by)
    BY <1>2, <2>1, <2>3 DEF CommitDispute, StillUndecided, DisputedAgain, Undecided
  <2> QED BY <2>2, <2>3
<1>3. CASE CommitRuling(tx)
  <2>1. CASE rulings # <<>>
    BY <1>3, <2>1 DEF CommitRuling, FirstRuling, StillUndecided, DisputedAgain, Undecided
  <2>2. CASE rulings = <<>>
    <3>1. rulings' = Append(rulings, tx) /\ ApplyRuling(tx) /\ UNCHANGED results
      BY <1>3, <2>2 DEF CommitRuling, FirstRuling
    <3>2. Head(rulings') = tx
      BY <2>2, <3>1
    <3>3. results' = <<>>
      BY <2>2, <3>1 DEF IInv, RulingFirst, UnderRuling
    <3>4. status' = "DISPUTED" => Undecided(tx)
      BY <1>3, <3>1 DEF ApplyRuling, Resolved, Undecided, CommitRuling
    <3> QED BY <3>2, <3>3, <3>4 DEF StillUndecided, Undecided
  <2> QED BY <2>1, <2>2
<1>4. CASE CommitResult(tx)
  <2>1. UNCHANGED <<disputes, rulings>>
    BY <1>4 DEF CommitResult
  <2>2. CASE results # <<>>
    BY <1>4, <2>1, <2>2 DEF CommitResult, FirstResult, StillUndecided, DisputedAgain, Undecided
  <2>3. CASE results = <<>>
    <3>1. results' = Append(results, tx) /\ ApplyResult(tx)
      BY <1>4, <2>3 DEF CommitResult, FirstResult
    <3>2. Head(results') = tx
      BY <2>3, <3>1
    <3>3. status' = "DISPUTED" => UNCHANGED status /\ tx.verdict = "CONSERVATIVE"
      BY <3>1 DEF ApplyResult, Resolved
    <3> QED BY <2>1, <3>2, <3>3 DEF StillUndecided, DisputedAgain, Undecided
  <2> QED BY <2>2, <2>3
<1>5. CASE CommitSummons(tx) \/ CommitAppeal(tx) \/ CommitScore(tx)
  <2>1. UNCHANGED <<disputes, rulings, results, status>>
    BY <1>5 DEF CommitSummons, CommitAppeal, CommitScore, row, chain
  <2> QED BY <2>1 DEF StillUndecided, DisputedAgain, Undecided
<1> QED BY <1>2, <1>3, <1>4, <1>5 DEF Commit, tx

LEMMA StepParked ==
    ParkInv /\ [Next]_vars => DisputeFirst' /\ PanelsComing' /\ StillUndecided'
<1> SUFFICES ASSUME ParkInv, [Next]_vars
             PROVE  DisputeFirst' /\ PanelsComing' /\ StillUndecided'
  OBVIOUS
<1> DEFINE Kept == DisputeFirst' /\ PanelsComing' /\ StillUndecided'
<1>0. IInv /\ TypeOK /\ DisputeFirst /\ PanelsComing /\ StillUndecided
  BY DEF ParkInv, IInv
<1>s. ASSUME UNCHANGED <<chain, row>>, \A x \in Node : "jury" \in pending'[x] => disputes # <<>>
      PROVE  DisputeFirst' /\ StillUndecided'
  BY <1>0, <1>s DEF DisputeFirst, StillUndecided, DisputedAgain, Undecided, chain, row
<1>u. ASSUME UNCHANGED <<pool, queue, pending, chain, row>> PROVE Kept
  <2>1. DisputeFirst' /\ StillUndecided'
    BY <1>0, <1>s, <1>u DEF DisputeFirst
  <2>2. UNCHANGED <<ExpertCalls, queue, disputes, panel, rulings>>
    BY <1>u, SameCalls DEF chain
  <2>3. PanelsComing'
    BY <1>0, <2>2 DEF PanelsComing, Expected, Undecided, JuryCall, NoJuror
  <2> QED BY <2>1, <2>3
<1>b. ASSUME NEW n \in Node, NEW b \in Seq(Transaction), Submit(n, b),
             Followed(b, disputes, ExpertCalls), UNCHANGED <<pool, chain, row>>,
             \A x \in Node : "jury" \in pending'[x] => disputes # <<>>
      PROVE  Kept
  BY <1>0, <1>b, <1>s, SubmittedFollowed
<1>p. \A x \in Node : "jury" \in pending[x] => disputes # <<>>
  BY <1>0 DEF DisputeFirst
<1>1. ASSUME NEW n \in Desk, NEW d \in Disputer, FileDispute(n, d) PROVE Kept
  <2> DEFINE b == <<Dispute(d), Summons("jury", JuryOf[d])>>
  <2>1. b \in Seq(Transaction) /\ n \in Node
    BY <1>0, FilingsTyped, PanelsAreKnown
  <2>2. Followed(b, disputes, ExpertCalls)
    BY FilingFollowed
  <2>3. Submit(n, b) /\ UNCHANGED <<pool, chain, row, pending>>
    BY <1>1 DEF FileDispute
  <2> QED BY <1>b, <1>p, <2>1, <2>2, <2>3
<1>2. ASSUME NEW n \in Desk, FileAppeal(n) PROVE Kept
  <2> DEFINE b == <<Appeal("PARTY"), Summons("appeal", Seats(n))>>
  <2>1. b \in Seq(Transaction) /\ n \in Node
    BY <1>0, FilingsTyped, PanelsAreKnown
  <2>2. Followed(b, disputes, ExpertCalls)
    BY <2>1, PartyAppealFollowed
  <2>3. Submit(n, b) /\ UNCHANGED <<pool, chain, row, pending>>
    BY <1>2 DEF FileAppeal
  <2> QED BY <1>b, <1>p, <2>1, <2>2, <2>3
<1>3. ASSUME NEW n \in Restarting, Restart(n) PROVE Kept
  <2>1. UNCHANGED <<pool, queue, chain, row>>
    BY <1>3 DEF Restart
  <2>2. ASSUME NEW x \in Node, "jury" \in pending'[x] PROVE disputes # <<>>
    <3>1. "jury" \in pending[x] \/ "jury" \in Unresolved
      BY <1>0, <1>3, <2>2 DEF Restart, TypeOK
    <3> QED BY <1>0, <1>p, <3>1 DEF Unresolved, DisputeFirst
  <2>3. DisputeFirst' /\ StillUndecided'
    BY <1>s, <2>1, <2>2
  <2>4. UNCHANGED <<ExpertCalls, queue, disputes, panel, rulings>>
    BY <2>1, SameCalls DEF chain
  <2>5. PanelsComing'
    BY <1>0, <2>4 DEF PanelsComing, Expected, Undecided, JuryCall, NoJuror
  <2> QED BY <2>3, <2>5
<1>4. ASSUME NEW n \in Node, Commit(n) PROVE Kept
  BY <1>0, <1>4, CommitPanels, CommitStillUndecided
<1>5. ASSUME NEW s \in Stage, NEW p \in Person, NEW v \in Options[p], Reveal(s, p, v) PROVE Kept
  BY <1>5, <1>u DEF Reveal
<1>6. ASSUME NEW s \in Stage, NEW p \in Person, LandReveal(s, p) PROVE Kept
  BY <1>6, <1>u DEF LandReveal
<1>7. ASSUME NEW s \in Stage, DeadlinePasses(s) PROVE Kept
  BY <1>7, <1>u DEF DeadlinePasses
<1>8. ASSUME NEW n \in Node, NEW s \in Stage, CheckPending(n, s) PROVE Kept
  <2>1. UNCHANGED <<pool, chain, row>>
    BY <1>8 DEF CheckPending
  <2>2. \A x \in Node : "jury" \in pending'[x] => disputes # <<>>
    BY <1>0, <1>8, <1>p DEF CheckPending, TypeOK
  <2>3. CASE UNCHANGED queue
    <3>1. UNCHANGED <<ExpertCalls, queue, disputes, panel, rulings>>
      BY <2>1, <2>3, SameCalls DEF chain
    <3>2. PanelsComing'
      BY <1>0, <3>1 DEF PanelsComing, Expected, Undecided, JuryCall, NoJuror
    <3> QED BY <1>s, <2>1, <2>2, <3>2
  <2>4. ASSUME NEW b \in Batches(n, s), Submit(n, b) PROVE Kept
    <3>1. b \in Seq(Transaction)
      BY <1>0, BatchesTyped
    <3>2. Followed(b, disputes, ExpertCalls)
      <4>1. CASE s = "jury"
        <5>1. disputes # <<>>
          BY <1>8, <1>p, <4>1 DEF CheckPending
        <5> QED BY <4>1, <5>1, JuryBatchFollowed DEF Batches
      <4>2. CASE s = "appeal"
        BY <4>2, AppealBatchFollowed DEF Batches
      <4> QED BY <4>1, <4>2 DEF Stage
    <3> QED BY <1>b, <2>1, <2>2, <2>4, <3>1, <3>2
  <2> QED BY <1>8, <2>3, <2>4 DEF CheckPending
<1>9. CASE UNCHANGED vars
  BY <1>9, <1>u DEF vars
<1> QED BY <1>1, <1>2, <1>3, <1>4, <1>5, <1>6, <1>7, <1>8, <1>9 DEF Next

\* The committed state and the mempools give what the property says.
LEMMA ParkedIsCalled == ParkInv => ParkedAwaitsRuling
<1> SUFFICES ASSUME ParkInv, status = "DISPUTED", ~DisputedAgain, ~NoJuror
             PROVE  RulingAwaited \/ LabelAfterNoQuorum
  BY DEF ParkedAwaitsRuling
<1> USE DEF ParkInv
<1>1. disputes # <<>>
  BY DEF DisputeFirst
<1>2. CASE rulings = <<>>
  <2>1. Expected({JuryCall(Head(disputes))}) => Waiting(Summons("jury", JuryOf[Head(disputes)]))
    BY DEF Expected, JuryCall, Waiting
  <2> QED BY <1>1, <1>2, <2>1 DEF PanelsComing, RulingAwaited
<1>3. CASE rulings # <<>>
  <2>1. Undecided(Head(rulings)) /\ (results # <<>> => Head(results).verdict = "CONSERVATIVE")
    BY <1>3 DEF StillUndecided
  <2>2. Stage2 = "NO_QUORUM" /\ ~Head(rulings).terminal
    BY <1>3, <2>1 DEF Stage2, Undecided
  <2>3. panel["appeal"] # {} \/ Expected(ExpertCalls)
    BY <1>3, <2>1 DEF PanelsComing
  <2>4. Expected(ExpertCalls) => \E n \in Node : Seats(n) # {} /\ Waiting(Summons("appeal", Seats(n)))
    BY DEF Expected, ExpertCalls, Waiting
  <2> QED BY <1>3, <2>1, <2>2, <2>3, <2>4 DEF RulingAwaited, LabelAfterNoQuorum
<1> QED BY <1>2, <1>3

\* A content is parked as disputed only while its panel sits or is called,
\* however the filings, rulings and appeals of the nodes interleave.  Set aside
\* are the three cases the property names, among them a dispute for which the
\* selection finds no juror (dispute-service.js:187-197; commit-handler.js
\* CONTENT_DISPUTED, ADJUDICATION_RESULT).
THEOREM ParkedContentHasAPanel == Spec => []ParkedAwaitsRuling
<1>1. Init => ParkInv
  BY InitTyped, InitRuled, InitParked DEF ParkInv, IInv
<1>2. ParkInv /\ [Next]_vars => ParkInv'
  BY StepTyped, StepRuled, StepParked DEF ParkInv, IInv
<1>3. ParkInv => ParkedAwaitsRuling
  BY ParkedIsCalled
<1> QED BY <1>1, <1>2, <1>3, PTL DEF Spec
=============================================================================
