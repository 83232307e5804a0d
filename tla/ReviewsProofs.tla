--------------------------- MODULE ReviewsProofs ---------------------------
(***************************************************************************)
(* Proofs about Reviews, for any nodes, cap and bounds.                    *)
(*                                                                         *)
(* A batch is validated against the state before it and applied later, so  *)
(* what validation has seen must still hold when a transaction's turn      *)
(* comes: the invariant says so of every transaction still in the batch.   *)
(***************************************************************************)
EXTENDS Reviews, FiniteSetTheorems, TLAPS

Row == [state : ReviewState, by : {"trigger", "cap", "claim"}]

-----------------------------------------------------------------------------
(* Sequences and transactions.                                             *)

LEMMA Joined ==
    ASSUME NEW S, NEW a \in Seq(S), NEW b \in Seq(S) PROVE a \o b \in Seq(S)
OBVIOUS

LEMMA Single ==
    ASSUME NEW S, NEW a \in S PROVE <<a>> \in Seq(S)
OBVIOUS

LEMMA Extended ==
    ASSUME NEW S, NEW q \in Seq(S), NEW x \in S
    PROVE  /\ Append(q, x) \in Seq(S)
           /\ Len(Append(q, x)) = Len(q) + 1
           /\ DOMAIN Append(q, x) = DOMAIN q \cup {Len(q) + 1}
           /\ \A i \in DOMAIN q : Append(q, x)[i] = q[i]
           /\ Append(q, x)[Len(q) + 1] = x
OBVIOUS

LEMMA Shortened ==
    ASSUME NEW S, NEW q \in Seq(S), q # <<>>
    PROVE  /\ Head(q) \in S /\ Head(q) = q[1] /\ 1 \in DOMAIN q
           /\ Tail(q) \in Seq(S)
           /\ \A i \in DOMAIN Tail(q) : i + 1 \in DOMAIN q /\ i + 1 > 1 /\ Tail(q)[i] = q[i + 1]
OBVIOUS

LEMMA Rewritten ==
    ASSUME NEW q \in Seq(Row), NEW i \in DOMAIN q, NEW s \in ReviewState
    PROVE  /\ [q EXCEPT ![i].state = s] \in Seq(Row)
           /\ DOMAIN [q EXCEPT ![i].state = s] = DOMAIN q
           /\ Len([q EXCEPT ![i].state = s]) = Len(q)
           /\ [q EXCEPT ![i].state = s][i] = [state |-> s, by |-> q[i].by]
           /\ \A j \in DOMAIN q \ {i} : [q EXCEPT ![i].state = s][j] = q[j]
<1> DEFINE r == [q[i] EXCEPT !.state = s]
<1>1. q[i] \in Row /\ i \in 1..Len(q) /\ DOMAIN q = 1..Len(q) /\ Len(q) \in Nat
    OBVIOUS
<1>2. r = [state |-> s, by |-> q[i].by] /\ r \in Row
    BY <1>1 DEF Row
<1>3. [q EXCEPT ![i].state = s] = [q EXCEPT ![i] = r]
    OBVIOUS
<1> HIDE DEF r
<1>4. /\ [q EXCEPT ![i] = r] \in Seq(Row)
      /\ DOMAIN [q EXCEPT ![i] = r] = DOMAIN q
      /\ Len([q EXCEPT ![i] = r]) = Len(q)
      /\ [q EXCEPT ![i] = r][i] = r
      /\ \A j \in DOMAIN q \ {i} : [q EXCEPT ![i] = r][j] = q[j]
    BY <1>1, <1>2
<1> QED  BY <1>2, <1>3, <1>4

\* What can be said of a review stays sayable: rows are never removed.
LEMMA TransactionsStay ==
    ASSUME DOMAIN reviews \subseteq DOMAIN reviews'
    PROVE  Transaction \subseteq Transaction'
<1> SUFFICES ASSUME NEW tx \in Transaction PROVE tx \in Transaction'
    OBVIOUS
<1>1. CASE tx \in {Trigger, AutoConfirm, PickUp, Retract, Verify, Dispute("user"), Dispute("node")}
    BY <1>1 DEF Transaction
<1>2. CASE tx \in {Completed(v) : v \in {"flagged", "clear"}} \cup {Update(e) : e \in BOOLEAN}
    BY <1>2 DEF Transaction
<1>3. CASE tx \in [kind : {"decide"}, review : DOMAIN reviews,
                   to : {"DISMISSED", "CONFIRMED", "RECUSED", "NO_SHOW"}]
    BY <1>3 DEF Transaction
<1>4. CASE tx \in [kind : {"takeover"}, review : DOMAIN reviews]
    BY <1>4 DEF Transaction
<1> QED  BY <1>1, <1>2, <1>3, <1>4 DEF Transaction

LEMMA QueuesStay ==
    ASSUME Transaction \subseteq Transaction',
           NEW q \in Seq(Transaction)
    PROVE  q \in Seq(Transaction')
OBVIOUS

\* The kinds of transactions, and what those with a review say of it.
LEMMA Kinds ==
    ASSUME NEW tx \in Transaction
    PROVE  /\ tx.kind \in {"trigger", "autoconfirm", "pickup", "retract", "verify",
                           "dispute", "completed", "update", "decide", "takeover"}
           /\ tx.kind \in {"decide", "takeover"} => tx.review \in DOMAIN reviews
           /\ tx.kind = "decide" => tx.to \in {"DISMISSED", "CONFIRMED", "RECUSED", "NO_SHOW"}
           /\ tx.kind = "completed" => tx.verdict \in {"flagged", "clear"}
           /\ tx.kind = "dispute" => tx.by \in {"user", "node"}
<1>1. CASE tx \in {Trigger, AutoConfirm, PickUp, Retract, Verify, Dispute("user"), Dispute("node")}
    BY <1>1 DEF Trigger, AutoConfirm, PickUp, Retract, Verify, Dispute
<1>2. CASE tx \in {Completed(v) : v \in {"flagged", "clear"}} \cup {Update(e) : e \in BOOLEAN}
    BY <1>2 DEF Completed, Update
<1>3. CASE tx \in [kind : {"decide"}, review : DOMAIN reviews,
                   to : {"DISMISSED", "CONFIRMED", "RECUSED", "NO_SHOW"}]
    BY <1>3
<1>4. CASE tx \in [kind : {"takeover"}, review : DOMAIN reviews]
    BY <1>4
<1> QED  BY <1>1, <1>2, <1>3, <1>4 DEF Transaction

-----------------------------------------------------------------------------
(* What applying the next transaction does to the rows.                    *)

Busy == applying => batch # <<>>

Opens(tx) ==
    \/ tx.kind \in {"trigger", "pickup"} /\ \E by \in {"trigger", "claim"} : reviews' = Append(reviews, Assigned(by))
    \/ tx.kind = "autoconfirm" /\ reviews' = Append(reviews, NobodyCame)
Replaces(tx) ==
    /\ tx.kind = "takeover"
    /\ reviews' = Append([reviews EXCEPT ![tx.review].state = "CLAIMED_OVER"], Assigned("claim"))
Decides(tx) == tx.kind = "decide" /\ SetState(tx.review, tx.to)
Ends(tx) ==
    \/ /\ tx.kind = "update"
       /\ \E open \in OpenReview \ {0}, s \in {"ACCEPTED_PRIVATE", "SELF_CORRECT"} : SetState(open, s)
    \/ /\ tx.kind = "dispute"
       /\ \E open \in OpenReview \ {0} : reviews[open].state = "CONFIRMED" /\ SetState(open, "ESCALATED")

LEMMA OpenOnesAreOpen ==
    ASSUME NEW open \in OpenReview \ {0} PROVE open \in OpenReviews /\ open \in DOMAIN reviews
BY DEF OpenReview, OpenedBy, OpenReviews

LEMMA Effects ==
    ASSUME TypeOK, Busy, Apply
    PROVE  LET tx == Head(batch) IN
           /\ tx \in Transaction /\ batch # <<>> /\ batch' = Tail(batch)
           /\ \/ reviews' = reviews
              \/ Opens(tx) \/ Replaces(tx) \/ Decides(tx) \/ Ends(tx)
<1> DEFINE tx == Head(batch)
<1>1. tx \in Transaction /\ batch # <<>> /\ batch' = Tail(batch)
    BY Shortened DEF TypeOK, Busy, Apply
<1>2. CASE ApplyCompleted(tx)
    BY <1>1, <1>2 DEF ApplyCompleted
<1>3. CASE ApplyOpening(tx)
    BY <1>1, <1>3 DEF ApplyOpening, Opens, Replaces
<1>4. CASE ApplyDecision(tx)
    BY <1>1, <1>4 DEF ApplyDecision, Decides
<1>5. CASE ApplyRest(tx)
    BY <1>1, <1>5 DEF ApplyRest
<1>6. ASSUME NEW open \in OpenReview, ApplyUpdate(tx, open)
      PROVE  reviews' = reviews \/ Ends(tx)
  <2>1. CASE open = 0
    BY <1>6, <2>1 DEF ApplyUpdate
  <2>2. CASE open # 0
    BY <1>6, <2>2 DEF ApplyUpdate, Ends
  <2> QED  BY <2>1, <2>2
<1>7. ASSUME NEW open \in OpenReview, ApplyDispute(tx, open)
      PROVE  reviews' = reviews \/ Ends(tx)
  <2>1. CASE open # 0 /\ reviews[open].state = "CONFIRMED"
    BY <1>7, <2>1 DEF ApplyDispute, Ends
  <2>2. CASE ~(open # 0 /\ reviews[open].state = "CONFIRMED")
    BY <1>7, <2>2 DEF ApplyDispute
  <2> QED  BY <2>1, <2>2
<1>8. \/ ApplyCompleted(tx) \/ ApplyOpening(tx) \/ ApplyDecision(tx) \/ ApplyRest(tx)
      \/ \E open \in OpenReview : ApplyUpdate(tx, open) \/ ApplyDispute(tx, open)
    BY DEF Apply
<1> QED  BY <1>1, <1>2, <1>3, <1>4, <1>5, <1>6, <1>7, <1>8

LEMMA StatesAreStates ==
    /\ {"DISMISSED", "CONFIRMED", "RECUSED", "NO_SHOW", "CLAIMED_OVER",
        "ACCEPTED_PRIVATE", "SELF_CORRECT", "ESCALATED"} \subseteq ReviewState
    /\ \A by \in {"trigger", "claim"} : Assigned(by) \in Row
    /\ NobodyCame \in Row
BY DEF ReviewState, Closed, Assigned, NobodyCame, Row

\* Rows are added and their states change; none goes, none changes its kind.
LEMMA RowsGrow ==
    ASSUME TypeOK, Busy, Apply
    PROVE  /\ reviews' \in Seq(Row)
           /\ DOMAIN reviews \subseteq DOMAIN reviews'
           /\ \A i \in DOMAIN reviews : reviews'[i].by = reviews[i].by
<1> DEFINE tx == Head(batch)
<1> reviews \in Seq(Row)
    BY DEF TypeOK, Row
<1>1. tx \in Transaction
    BY Effects
<1>2. CASE reviews' = reviews
    BY <1>2
<1>3. CASE Opens(tx)
    BY <1>3, StatesAreStates, Extended DEF Opens
<1>4. ASSUME NEW i \in DOMAIN reviews, NEW s \in ReviewState, SetState(i, s)
      PROVE  /\ reviews' \in Seq(Row)
             /\ DOMAIN reviews \subseteq DOMAIN reviews'
             /\ \A j \in DOMAIN reviews : reviews'[j].by = reviews[j].by
  <2>1. /\ reviews' \in Seq(Row) /\ DOMAIN reviews' = DOMAIN reviews
        /\ reviews'[i] = [state |-> s, by |-> reviews[i].by]
        /\ \A j \in DOMAIN reviews \ {i} : reviews'[j] = reviews[j]
    BY <1>4, Rewritten, Zenon DEF SetState
  <2> QED  BY <2>1
<1>5. CASE Replaces(tx)
  <2> DEFINE closed == [reviews EXCEPT ![tx.review].state = "CLAIMED_OVER"]
  <2>1. tx.review \in DOMAIN reviews
    BY <1>1, <1>5, Kinds DEF Replaces
  <2>2. /\ closed \in Seq(Row) /\ DOMAIN closed = DOMAIN reviews
        /\ closed[tx.review] = [state |-> "CLAIMED_OVER", by |-> reviews[tx.review].by]
        /\ \A j \in DOMAIN reviews \ {tx.review} : closed[j] = reviews[j]
    <3>1. "CLAIMED_OVER" \in ReviewState
      BY StatesAreStates
    <3> QED  BY <2>1, <3>1, Rewritten, Zenon
  <2>3. reviews' = Append(closed, Assigned("claim"))
    BY <1>5 DEF Replaces
  <2> HIDE DEF closed
  <2> QED  BY <2>2, <2>3, StatesAreStates, Extended
<1>6. CASE Decides(tx)
    BY <1>1, <1>4, <1>6, Kinds, StatesAreStates DEF Decides
<1>7. CASE Ends(tx)
    BY <1>4, <1>7, OpenOnesAreOpen, StatesAreStates DEF Ends
<1> QED  BY <1>2, <1>3, <1>5, <1>6, <1>7, Effects

-----------------------------------------------------------------------------
(* Types.                                                                  *)

LEMMA Typed ==
    /\ {Trigger, AutoConfirm, PickUp, Retract, Verify, Dispute("user"), Dispute("node")} \subseteq Transaction
    /\ \A v \in {"flagged", "clear"} : Completed(v) \in Transaction
    /\ \A e \in BOOLEAN : Update(e) \in Transaction
    /\ \A i \in DOMAIN reviews : TakeOver(i) \in Transaction
    /\ \A i \in DOMAIN reviews, s \in {"DISMISSED", "CONFIRMED", "RECUSED", "NO_SHOW"} :
           Decision(i, s) \in Transaction
<1>1. \A i \in DOMAIN reviews : TakeOver(i) \in [kind : {"takeover"}, review : DOMAIN reviews]
    BY DEF TakeOver
<1>2. \A i \in DOMAIN reviews, s \in {"DISMISSED", "CONFIRMED", "RECUSED", "NO_SHOW"} :
          Decision(i, s) \in [kind : {"decide"}, review : DOMAIN reviews,
                              to : {"DISMISSED", "CONFIRMED", "RECUSED", "NO_SHOW"}]
    BY DEF Decision
<1> HIDE DEF Transaction
<1> QED  BY <1>1, <1>2 DEF Transaction

LEMMA SameRowsSameTypes ==
    ASSUME reviews' = reviews
    PROVE  Transaction' = Transaction /\ OpenReviews' = OpenReviews
BY DEF Transaction, OpenReviews

LEMMA SubmissionTyped ==
    ASSUME TypeOK, NEW n \in Node, NEW txs \in Seq(Transaction), Submit(n, txs),
           UNCHANGED <<row, reviews, clocks, commit>>,
           job' \in {"queued", "claimed", "done"}
    PROVE  TypeOK'
<1>1. queue[n] \o txs \in Seq(Transaction)
    BY Joined DEF TypeOK
<1>2. queue' \in [Node -> Seq(Transaction)]
    BY <1>1 DEF Submit, TypeOK
<1> QED  BY <1>2, SameRowsSameTypes DEF TypeOK, row, clocks, commit

LEMMA DueTyped ==
    ASSUME TypeOK
    PROVE  /\ DueReviews \in Seq(Transaction) /\ AutoEscalations \in Seq(Transaction)
           /\ \A rows \in OneByOne(Overdue("TRIGGERED")) : AutoRecusals(rows) \in Seq(Transaction)
<1>1. <<>> \in Seq(Transaction)
    OBVIOUS
<1>2. DueReviews \in Seq(Transaction)
    BY <1>1, Typed, Single DEF DueReviews
<1>3. AutoEscalations \in Seq(Transaction)
    BY <1>1, Typed, Single DEF AutoEscalations
<1>4. ASSUME NEW rows \in OneByOne(Overdue("TRIGGERED"))
      PROVE  AutoRecusals(rows) \in Seq(Transaction)
  <2> DEFINE S == Overdue("TRIGGERED")
             m == Cardinality(S)
  <2>1. S \subseteq 1..Len(reviews) /\ Len(reviews) \in Nat /\ DOMAIN reviews = 1..Len(reviews)
    BY DEF TypeOK, Overdue, InState
  <2>2. m \in Nat
    <3>1. IsFiniteSet(1..Len(reviews))
      BY <2>1, FS_Interval
    <3> QED  BY <2>1, <3>1, FS_Subset, FS_CardinalityType
  <2>3. rows \in [1..m -> S]
    BY DEF OneByOne
  <2> HIDE DEF S, m
  <2>4. AutoRecusals(rows) = [k \in 1..m |-> Decision(rows[k], "NO_SHOW")]
    BY <2>3 DEF AutoRecusals
  <2>5. \A k \in 1..m : Decision(rows[k], "NO_SHOW") \in Transaction
    BY <2>1, <2>3, Typed
  <2> QED  BY <2>2, <2>4, <2>5
<1> QED  BY <1>2, <1>3, <1>4

LEMMA ValidateTyped ==
    ASSUME TypeOK, NEW n \in Node, Validate(n) PROVE TypeOK'
<1>1. queue[n] \in Seq(Transaction) /\ queue[n] # <<>>
    BY DEF TypeOK, Validate
<1>2. Head(queue[n]) \in Transaction /\ Tail(queue[n]) \in Seq(Transaction)
    BY <1>1, Shortened
<1>3. queue' \in [Node -> Seq(Transaction)]
    BY <1>2 DEF Validate, TypeOK
<1>4. Append(batch, Head(queue[n])) \in Seq(Transaction)
    BY <1>2, Extended DEF TypeOK
<1>5. batch' \in Seq(Transaction)
    BY <1>4 DEF Validate, TypeOK
<1> QED  BY <1>3, <1>5, SameRowsSameTypes DEF TypeOK, Validate, row, clocks, commit

\* A content under review keeps an open review, or is given another status.
LEMMA ApplyKeepsReviewed ==
    ASSUME TypeOK, Busy, Apply, status' = "PENDING_REVIEW" PROVE OpenReviews' # {}
<1> DEFINE tx == Head(batch)
<1> reviews \in Seq(Row) /\ reviews' \in Seq(Row)
    BY RowsGrow DEF TypeOK, Row
<1>1. tx \in Transaction
    BY Effects
<1>2. CASE reviews' = reviews /\ status' = status
    BY <1>2, SameRowsSameTypes DEF TypeOK
<1>3. ASSUME NEW q \in Seq(Row), NEW c \in Row, c.state \notin Closed, reviews' = Append(q, c)
      PROVE  OpenReviews' # {}
  <2>1. Len(q) + 1 \in DOMAIN reviews' /\ reviews'[Len(q) + 1] = c
    BY <1>3, Extended
  <2> QED  BY <1>3, <2>1 DEF OpenReviews
<1>4. CASE Opens(tx)
    BY <1>3, <1>4, StatesAreStates DEF Opens, Assigned, NobodyCame, Closed
<1>5. CASE Replaces(tx)
  <2>1. tx.review \in DOMAIN reviews /\ "CLAIMED_OVER" \in ReviewState
    BY <1>1, <1>5, Kinds, StatesAreStates DEF Replaces
  <2>2. [reviews EXCEPT ![tx.review].state = "CLAIMED_OVER"] \in Seq(Row)
    BY <2>1, Rewritten, Zenon
  <2> QED  BY <1>3, <1>5, <2>2, StatesAreStates DEF Replaces, Assigned, Closed
<1>6. CASE ApplyDecision(tx)
  <2>1. tx.to = "CONFIRMED" /\ tx.review \in DOMAIN reviews /\ tx.to \in ReviewState
    BY <1>1, <1>6, Kinds, StatesAreStates DEF ApplyDecision, StatusAfter
  <2>2. reviews' = [reviews EXCEPT ![tx.review].state = tx.to]
    BY <1>6 DEF ApplyDecision, SetState
  <2>3. tx.review \in DOMAIN reviews' /\ reviews'[tx.review].state = "CONFIRMED"
    <3>1. /\ DOMAIN reviews' = DOMAIN reviews
          /\ reviews'[tx.review] = [state |-> tx.to, by |-> reviews[tx.review].by]
      BY <2>1, <2>2, Rewritten, Zenon
    <3> QED  BY <2>1, <3>1
  <2> QED  BY <2>3 DEF OpenReviews, Closed
<1>7. CASE ApplyCompleted(tx) \/ ApplyRest(tx)
    BY <1>2, <1>7 DEF ApplyCompleted, ApplyRest
<1>8. CASE ApplyOpening(tx)
    BY <1>4, <1>5, <1>8 DEF ApplyOpening, Opens, Replaces
<1>9. CASE \E open \in OpenReview : ApplyUpdate(tx, open) \/ ApplyDispute(tx, open)
    BY <1>9 DEF ApplyUpdate, ApplyDispute
<1> QED  BY <1>6, <1>7, <1>8, <1>9 DEF Apply

LEMMA ApplyTyped ==
    ASSUME TypeOK, Busy, Apply PROVE TypeOK'
<1> DEFINE tx == Head(batch)
<1>1. tx \in Transaction /\ batch # <<>> /\ batch' = Tail(batch)
    BY Effects
<1>2. reviews' \in Seq(Row) /\ DOMAIN reviews \subseteq DOMAIN reviews'
    BY RowsGrow
<1>3. Transaction \subseteq Transaction'
    BY <1>2, TransactionsStay
<1>4. batch' \in Seq(Transaction') /\ queue' \in [Node -> Seq(Transaction')]
  <2>1. Tail(batch) \in Seq(Transaction)
    BY <1>1, Shortened DEF TypeOK
  <2>2. queue' = queue /\ \A n \in Node : queue[n] \in Seq(Transaction')
    BY <1>3, QueuesStay DEF TypeOK, Apply
  <2>3. queue = [n \in Node |-> queue[n]]
    BY DEF TypeOK
  <2> QED  BY <1>1, <1>3, <2>1, <2>2, <2>3, QueuesStay
<1>5. late' \subseteq OpenReviews'
    BY <1>2 DEF TypeOK, Apply, OpenReviews
<1>6. /\ status' \in Status /\ verdict' \in {"pending", "flagged", "clear"}
      /\ {corrected', verified'} \subseteq BOOLEAN /\ disputes' \subseteq {"user", "node"}
  <2>1. CASE ApplyCompleted(tx)
    BY <1>1, <2>1, Kinds DEF ApplyCompleted, TypeOK, Status
  <2>2. CASE ApplyOpening(tx)
    BY <2>2 DEF ApplyOpening, TypeOK, Status
  <2>3. CASE ApplyDecision(tx)
    BY <2>3 DEF ApplyDecision, StatusAfter, TypeOK, Status
  <2>4. CASE ApplyRest(tx)
    BY <2>4 DEF ApplyRest, TypeOK, Status
  <2>5. ASSUME NEW open \in OpenReview, ApplyUpdate(tx, open) \/ ApplyDispute(tx, open)
        PROVE  /\ status' \in Status /\ verdict' \in {"pending", "flagged", "clear"}
               /\ {corrected', verified'} \subseteq BOOLEAN /\ disputes' \subseteq {"user", "node"}
    <3>1. CASE ApplyUpdate(tx, open)
      BY <3>1 DEF ApplyUpdate, TypeOK, Status
    <3>2. CASE ApplyDispute(tx, open)
      BY <1>1, <3>2, Kinds DEF ApplyDispute, TypeOK, Status
    <3> QED  BY <2>5, <3>1, <3>2
  <2> QED  BY <2>1, <2>2, <2>3, <2>4, <2>5 DEF Apply
<1>7. {ruled', applying'} \subseteq BOOLEAN /\ passed' = passed /\ job' = job
    BY DEF Apply, TypeOK
<1>8. (status = "PENDING_REVIEW")' => OpenReviews' # {}
    BY ApplyKeepsReviewed
<1> QED  BY <1>2, <1>4, <1>5, <1>6, <1>7, <1>8 DEF TypeOK, Row

LEMMA TypedStep ==
    ASSUME TypeOK, Busy, [Next]_vars PROVE TypeOK' /\ Busy'
<1>1. CASE UNCHANGED vars
    BY <1>1, SameRowsSameTypes DEF TypeOK, Busy, vars, row, clocks, commit
<1>2. CASE ClaimJob
    BY <1>2, SameRowsSameTypes DEF ClaimJob, TypeOK, Busy, row, clocks, commit
<1>3. CASE Rule
    BY <1>3, SameRowsSameTypes DEF Rule, TypeOK, Busy, Status, clocks, commit
<1>4. CASE BeginApplying
    BY <1>4, SameRowsSameTypes DEF BeginApplying, TypeOK, Busy, row, clocks
<1>5. CASE Apply
  <2>1. Busy'
    BY <1>5 DEF Apply, Busy
  <2> QED  BY <1>5, <2>1, ApplyTyped
<1>6. ASSUME NEW v \in {"flagged", "clear"}, FinishJob(v) PROVE TypeOK' /\ Busy'
  <2>1. <<Completed(v)>> \in Seq(Transaction)
    BY Typed, Single
  <2>2. TypeOK'
    BY <1>6, <2>1, SubmissionTyped, ScannerIsNode DEF FinishJob
  <2> QED  BY <1>6, <2>2 DEF FinishJob, Busy, commit
<1>7. ASSUME NEW d \in {"failopen", "grace"}, Pass(d) PROVE TypeOK' /\ Busy'
    BY <1>7, SameRowsSameTypes DEF Pass, TypeOK, Busy, row, commit
<1>8. ASSUME NEW i \in DOMAIN reviews, PassWindow(i) PROVE TypeOK' /\ Busy'
    BY <1>8, SameRowsSameTypes DEF PassWindow, TypeOK, Busy, row, commit
<1>9. ASSUME NEW n \in Node, NEW txs \in Seq(Transaction), Submit(n, txs),
             UNCHANGED <<row, reviews, clocks, job, commit>>
      PROVE  TypeOK' /\ Busy'
  <2>1. job' \in {"queued", "claimed", "done"}
    BY <1>9 DEF TypeOK
  <2>2. TypeOK'
    BY <1>9, <2>1, SubmissionTyped
  <2> QED  BY <1>9, <2>2 DEF Busy, commit
<1>10. ASSUME NEW n \in Desk, NEW i \in DOMAIN reviews,
              NEW s \in {"DISMISSED", "CONFIRMED", "RECUSED"}, Decide(n, i, s)
       PROVE  TypeOK' /\ Busy'
  <2>1. <<Decision(i, s)>> \in Seq(Transaction)
    BY Typed, Single
  <2> QED  BY <1>9, <1>10, <2>1, ScannerIsNode DEF Decide
<1>11. ASSUME NEW n \in Desk, Claim(n) \/ CorrectOrigin(n) \/ Others(n) PROVE TypeOK' /\ Busy'
  <2>1. \E txs \in Seq(Transaction) : Submit(n, txs)
    <3>1. \A tx \in Transaction : <<tx>> \in Seq(Transaction)
      BY Single
    <3>2. CASE Claim(n)
      BY <3>1, <3>2, Typed DEF Claim, InState
    <3>3. CASE CorrectOrigin(n)
      <4>1. ("grace" \notin passed) \in BOOLEAN
        OBVIOUS
      <4> QED  BY <3>1, <3>3, <4>1, Typed DEF CorrectOrigin
    <3>4. CASE Others(n)
      BY <3>1, <3>4, Typed DEF Others
    <3> QED  BY <1>11, <3>2, <3>3, <3>4
  <2>2. UNCHANGED <<row, reviews, clocks, job, commit>>
    BY <1>11 DEF Claim, CorrectOrigin, Others
  <2> QED  BY <1>9, <2>1, <2>2, ScannerIsNode
<1>12. ASSUME NEW n \in Node, EmitFailOpen(n) PROVE TypeOK' /\ Busy'
  <2>1. <<Completed("clear")>> \in Seq(Transaction)
    BY Typed, Single
  <2> QED  BY <1>9, <1>12, <2>1 DEF EmitFailOpen
<1>13. ASSUME NEW n \in Node, CheckReviews(n) PROVE TypeOK' /\ Busy'
  <2>1. PICK rows \in OneByOne(Overdue("TRIGGERED")) :
            Submit(n, DueReviews \o AutoEscalations \o AutoRecusals(rows))
    BY <1>13 DEF CheckReviews
  <2>2. DueReviews \o AutoEscalations \o AutoRecusals(rows) \in Seq(Transaction)
    BY DueTyped, Joined
  <2> QED  BY <1>9, <1>13, <2>1, <2>2 DEF CheckReviews
<1>14. ASSUME NEW n \in Node, Validate(n) PROVE TypeOK' /\ Busy'
  <2>1. Busy'
    BY <1>14 DEF Validate, Busy
  <2> QED  BY <1>14, <2>1, ValidateTyped
<1> QED
    BY <1>1, <1>2, <1>3, <1>4, <1>5, <1>6, <1>7, <1>8, <1>10, <1>11, <1>12, <1>13, <1>14 DEF Next

\* The types of Reviews, and: a content shown as under review has an open
\* review, though status and rows are written by different transactions
\* (commit-handler.js, _applyDerivedState).
THEOREM TypeCorrect == Spec => []TypeOK
<1>1. Init => TypeOK /\ Busy
  <2>1. <<>> \in Seq(Transaction) /\ <<>> \in Seq(Row)
    OBVIOUS
  <2> QED  BY <2>1 DEF Init, TypeOK, Busy, Row, Status
<1>2. TypeOK /\ Busy /\ [Next]_vars => TypeOK' /\ Busy'
    BY TypedStep
<1> QED  BY <1>1, <1>2, PTL DEF Spec

-----------------------------------------------------------------------------
(* One case at a time.                                                     *)

\* The open reviews that are not the network's own.
InHand == {i \in OpenReviews : reviews[i].by # "cap"}

OneInHand ==
    /\ \A i, j \in InHand : i = j
    /\ \A i \in InState("TRIGGERED") : reviews[i].by # "cap"

Deciding(tx) == tx.kind \in {"decide", "takeover"}
Changes(tx) == tx.kind \in Mutator

\* Of two siblings of a batch, the second is still valid after the first.
Follows(tx, next) ==
    /\ Changes(tx) => ~Changes(next) /\ next.kind # "autoconfirm"
    /\ Deciding(tx) => ~Deciding(next)

\* An update closes a case of the network's, not the assigned review i.
Spared(i) == reviews[i].by = "trigger" /\ OpenedBy("cap") # {}

\* What validation has seen of the batch b holds, whatever is applied before.
Ready(b) ==
    /\ \A k \in DOMAIN b : Deciding(b[k]) => b[k].review \in InState("TRIGGERED")
    /\ \A k \in DOMAIN b : b[k].kind \in {"trigger", "pickup", "autoconfirm"} => InHand = {}
    /\ \A k, l \in DOMAIN b : k < l => Follows(b[k], b[l])
    /\ \A k, l \in DOMAIN b : k < l /\ b[k].kind = "update" /\ Deciding(b[l]) => Spared(b[l].review)

\* While the batch is being validated no review has been touched yet.
UpdatesSpare ==
    ~applying => \A k \in DOMAIN batch : batch[k].kind = "update" =>
                     \A i \in InState("TRIGGERED") : Spared(i)

CaseInv == TypeOK /\ Busy /\ OneInHand /\ Ready(batch) /\ UpdatesSpare

LEMMA TriggeredIsInHand ==
    ASSUME OneInHand, NEW i \in InState("TRIGGERED") PROVE i \in InHand
BY DEF OneInHand, InHand, InState, OpenReviews, Closed

LEMMA SameRowsSameCases ==
    ASSUME reviews' = reviews
    PROVE  /\ OneInHand' = OneInHand
           /\ InHand' = InHand /\ InState("TRIGGERED")' = InState("TRIGGERED")
           /\ \A b : Ready(b)' = Ready(b)
           /\ \A i : Spared(i)' = Spared(i)
BY DEF OneInHand, InHand, OpenReviews, InState, Ready, Spared, OpenedBy

\* A transaction that validation accepts joins the batch.
LEMMA ValidateReady ==
    ASSUME CaseInv, NEW n \in Node, Validate(n) PROVE CaseInv'
<1> DEFINE tx == Head(queue[n])
<1>1. TypeOK' /\ Busy'
  <2>1. Busy'
    BY DEF Validate, Busy
  <2> QED  BY <2>1, ValidateTyped DEF CaseInv
<1>2. reviews' = reviews /\ ~applying /\ ~applying' /\ tx \in Transaction /\ batch \in Seq(Transaction)
    BY Shortened DEF Validate, row, commit, CaseInv, TypeOK
<1>3. OneInHand' /\ OneInHand /\ Ready(batch) /\ UpdatesSpare
    BY <1>2, SameRowsSameCases DEF CaseInv
<1>4. CASE batch' = batch
    BY <1>1, <1>2, <1>3, <1>4, SameRowsSameCases DEF CaseInv, UpdatesSpare
<1>5. ASSUME NEW open \in OpenReview, Valid(tx, open), batch' = Append(batch, tx)
      PROVE  CaseInv'
  <2>1. /\ DOMAIN batch' = DOMAIN batch \cup {Len(batch) + 1}
        /\ \A k \in DOMAIN batch : batch'[k] = batch[k] /\ k \in Nat /\ k < Len(batch) + 1
        /\ batch'[Len(batch) + 1] = tx /\ Len(batch) + 1 \in Nat
    BY <1>2, <1>5, Extended
  <2>2. Deciding(tx) => tx.review \in InState("TRIGGERED") /\ ~Decided(tx.review)
    BY <1>2, <1>5, Kinds DEF Valid, Deciding, InState
  <2>3. tx.kind \in {"trigger", "pickup", "autoconfirm"} => InHand = {}
    BY <1>5 DEF Valid, NeedsReview, InHand, OpenReviews, Closed
  <2>4. ASSUME NEW k \in DOMAIN batch PROVE Follows(batch[k], tx)
    <3>1. CASE Changes(batch[k])
      <4>1. ~Alone
        BY <3>1 DEF Alone, Accepted, Changes
      <4> QED  BY <1>5, <3>1, <4>1 DEF Valid, Follows, Changes, Deciding, Mutator
    <3>2. CASE Deciding(batch[k])
      <4>1. batch[k].review \in InHand
        BY <1>3, <3>2, TriggeredIsInHand DEF Ready
      <4>2. CASE Deciding(tx)
        <5>1. tx.review = batch[k].review
          BY <1>3, <2>2, <4>1, <4>2, TriggeredIsInHand DEF OneInHand
        <5> QED  BY <2>2, <3>2, <4>2, <5>1 DEF Decided, Deciding
      <4> QED  BY <3>2, <4>2 DEF Follows, Changes, Deciding, Mutator
    <3> QED  BY <3>1, <3>2 DEF Follows
  <2>5. ASSUME tx.kind = "update", NEW i \in InState("TRIGGERED") PROVE Spared(i)
    <3>1. i \in InHand
      BY <1>3, TriggeredIsInHand
    <3> reviews \in Seq(Row) /\ DOMAIN reviews = 1..Len(reviews)
      BY DEF CaseInv, TypeOK, Row
    <3>2. open \in OpenReviews /\ open # 0 /\ reviews[open].state = "CONFIRMED"
      <4>1. open \in OpenReviews
        BY <3>1 DEF OpenReview, OpenedBy, InHand
      <4>2. open # 0
        BY <4>1 DEF OpenReviews
      <4>3. CanUpdateOrigin(open, tx.early)
        BY <1>5, <2>5 DEF Valid
      <4> QED  BY <4>1, <4>2, <4>3 DEF CanUpdateOrigin
    <3>3. reviews[i].state = "TRIGGERED" /\ open # i /\ reviews[i] \in Row
      BY <3>2 DEF InState
    <3>4. reviews[open].by = "cap"
      BY <1>3, <3>1, <3>2, <3>3 DEF OneInHand, InHand
    <3>5. OpenedBy("cap") # {} /\ reviews[i].by # "claim"
      BY <3>1, <3>2, <3>4 DEF OpenedBy, OpenReview, InHand
    <3> QED  BY <3>1, <3>3, <3>5 DEF Spared, InHand, Row
  <2>6. Ready(batch')
    <3>1. \A k \in DOMAIN batch' : Deciding(batch'[k]) => batch'[k].review \in InState("TRIGGERED")
      BY <1>3, <2>1, <2>2 DEF Ready
    <3>2. \A k \in DOMAIN batch' : batch'[k].kind \in {"trigger", "pickup", "autoconfirm"} => InHand = {}
      BY <1>3, <2>1, <2>3 DEF Ready
    <3>3. \A k, l \in DOMAIN batch' : k < l => k \in DOMAIN batch
      BY <2>1
    <3>4. \A k, l \in DOMAIN batch' : k < l => Follows(batch'[k], batch'[l])
      BY <1>3, <2>1, <2>4, <3>3 DEF Ready
    <3>5. \A k, l \in DOMAIN batch' : k < l /\ batch'[k].kind = "update" /\ Deciding(batch'[l])
              => Spared(batch'[l].review)
      BY <1>2, <1>3, <2>1, <2>2, <3>3 DEF Ready, UpdatesSpare
    <3> QED  BY <3>1, <3>2, <3>4, <3>5 DEF Ready
  <2>7. UpdatesSpare'
    <3>1. \A k \in DOMAIN batch' : batch'[k].kind = "update" =>
              \A i \in InState("TRIGGERED") : Spared(i)
      BY <1>2, <1>3, <2>1, <2>5 DEF UpdatesSpare
    <3> QED  BY <1>2, <3>1, SameRowsSameCases DEF UpdatesSpare
  <2>8. Ready(batch)'
    BY <1>2, <2>6 DEF Ready, InHand, OpenReviews, InState, Spared, OpenedBy
  <2> QED  BY <1>1, <1>3, <2>7, <2>8 DEF CaseInv
<1> QED
  <2>1. \E open \in OpenReview : batch' = IF Valid(tx, open) THEN Append(batch, tx) ELSE batch
    BY DEF Validate
  <2> QED  BY <1>4, <1>5, <2>1

\* What is left of a batch is as ready as it was.
LEMMA RestReady ==
    ASSUME CaseInv, Apply
    PROVE  \A k \in DOMAIN Tail(batch) :
               /\ k + 1 \in DOMAIN batch /\ Tail(batch)[k] = batch[k + 1]
               /\ Follows(Head(batch), Tail(batch)[k])
               /\ Deciding(Tail(batch)[k]) => Tail(batch)[k].review \in InState("TRIGGERED")
               /\ Tail(batch)[k].kind \in {"trigger", "pickup", "autoconfirm"} => InHand = {}
               /\ Head(batch).kind = "update" /\ Deciding(Tail(batch)[k]) => Spared(Tail(batch)[k].review)
<1>1. batch # <<>> /\ batch \in Seq(Transaction)
    BY DEF CaseInv, TypeOK, Busy, Apply
<1>2. Head(batch) = batch[1] /\ 1 \in DOMAIN batch
    BY <1>1, Shortened
<1>3. \A k \in DOMAIN Tail(batch) : k + 1 \in DOMAIN batch /\ 1 < k + 1 /\ Tail(batch)[k] = batch[k + 1]
    BY <1>1, Shortened
<1> QED  BY <1>2, <1>3 DEF CaseInv, Ready

\* The rest of the batch is ready when what it needs of the rows still holds.
LEMMA ReadyAfter ==
    ASSUME CaseInv, Apply, OneInHand',
           \A k \in DOMAIN Tail(batch) :
               /\ Deciding(Tail(batch)[k]) => Tail(batch)[k].review \in InState("TRIGGERED")'
               /\ Tail(batch)[k].kind \in {"trigger", "pickup", "autoconfirm"} => InHand' = {},
           \A k, l \in DOMAIN Tail(batch) :
               k < l /\ Tail(batch)[k].kind = "update" /\ Deciding(Tail(batch)[l])
                   => reviews'[Tail(batch)[l].review].by = "trigger" /\ OpenedBy("cap")' # {}
    PROVE  CaseInv'
<1>1. TypeOK' /\ Busy'
  <2>1. Busy'
    BY DEF Apply, Busy
  <2> QED  BY <2>1, ApplyTyped DEF CaseInv
<1>2. batch # <<>> /\ batch \in Seq(Transaction) /\ batch' = Tail(batch)
    BY DEF CaseInv, TypeOK, Busy, Apply
<1>3. \A k, l \in DOMAIN Tail(batch) : k < l => Follows(Tail(batch)[k], Tail(batch)[l])
  <2> SUFFICES ASSUME NEW k \in DOMAIN Tail(batch), NEW l \in DOMAIN Tail(batch), k < l
               PROVE  Follows(Tail(batch)[k], Tail(batch)[l])
    OBVIOUS
  <2>1. k + 1 < l + 1
    BY <1>2
  <2>2. k + 1 \in DOMAIN batch /\ l + 1 \in DOMAIN batch
    BY RestReady
  <2>3. Follows(batch[k + 1], batch[l + 1])
    BY <2>1, <2>2 DEF CaseInv, Ready
  <2> QED  BY <2>3, RestReady
<1>5. UpdatesSpare'
  <2>1. CASE Tail(batch) = <<>>
    BY <1>2, <2>1 DEF UpdatesSpare
  <2>2. CASE Tail(batch) # <<>>
    BY <2>2 DEF UpdatesSpare, Apply
  <2> QED  BY <2>1, <2>2
<1>6. Ready(batch)'
  <2>1. \A k \in DOMAIN batch' : Deciding(batch'[k]) => batch'[k].review \in InState("TRIGGERED")'
    BY <1>2
  <2>2. \A k \in DOMAIN batch' : batch'[k].kind \in {"trigger", "pickup", "autoconfirm"} => InHand' = {}
    BY <1>2
  <2>3. \A k, l \in DOMAIN batch' : k < l => Follows(batch'[k], batch'[l])
    BY <1>2, <1>3
  <2>4. \A k, l \in DOMAIN batch' :
            k < l /\ batch'[k].kind = "update" /\ Deciding(batch'[l])
                => reviews'[batch'[l].review].by = "trigger" /\ OpenedBy("cap")' # {}
    BY <1>2
  <2> QED  BY <2>1, <2>2, <2>3, <2>4 DEF Ready, Spared
<1> QED  BY <1>1, <1>5, <1>6 DEF CaseInv

\* While some review is in hand, a decision of it is the only one left.
LEMMA DecisionLeavesNone ==
    ASSUME CaseInv, Apply, Deciding(Head(batch))
    PROVE  /\ Head(batch).review \in InState("TRIGGERED") /\ Head(batch).review \in InHand
           /\ \A k \in DOMAIN Tail(batch) :
                  /\ ~Deciding(Tail(batch)[k])
                  /\ Tail(batch)[k].kind \notin {"trigger", "pickup", "autoconfirm"}
<1>1. batch # <<>> /\ batch \in Seq(Transaction)
    BY DEF CaseInv, TypeOK, Busy, Apply
<1>2. Head(batch).review \in InState("TRIGGERED")
  <2>1. Head(batch) = batch[1] /\ 1 \in DOMAIN batch
    BY <1>1, Shortened
  <2> QED  BY <2>1 DEF CaseInv, Ready
<1>3. Head(batch).review \in InHand
    BY <1>2, TriggeredIsInHand DEF CaseInv
<1> QED  BY <1>2, <1>3, RestReady DEF Follows

\* The rows after a step of the abstract system: a new row, or another state.
LEMMA AddedRow ==
    ASSUME reviews \in Seq(Row), NEW c \in Row, c.state \notin Closed, reviews' = Append(reviews, c)
    PROVE  /\ InHand' = InHand \cup (IF c.by = "cap" THEN {} ELSE {Len(reviews) + 1})
           /\ OneInHand /\ (c.state = "TRIGGERED" => c.by # "cap")
                  => \A i \in InState("TRIGGERED")' : reviews'[i].by # "cap"
<1>1. /\ DOMAIN reviews' = DOMAIN reviews \cup {Len(reviews) + 1}
      /\ \A i \in DOMAIN reviews : reviews'[i] = reviews[i]
      /\ reviews'[Len(reviews) + 1] = c
    BY Extended
<1>2. InHand' = InHand \cup (IF c.by = "cap" THEN {} ELSE {Len(reviews) + 1})
  <2>1. InHand' \subseteq InHand \cup (IF c.by = "cap" THEN {} ELSE {Len(reviews) + 1})
    BY <1>1 DEF InHand, OpenReviews
  <2>2. InHand \subseteq InHand'
    BY <1>1 DEF InHand, OpenReviews
  <2>3. c.by # "cap" => Len(reviews) + 1 \in InHand'
    BY <1>1 DEF InHand, OpenReviews
  <2> QED  BY <2>1, <2>2, <2>3
<1> QED  BY <1>1, <1>2 DEF InState, OneInHand

LEMMA ChangedRow ==
    ASSUME reviews \in Seq(Row), NEW i \in DOMAIN reviews, NEW s \in ReviewState, SetState(i, s),
           s # "TRIGGERED"
    PROVE  /\ InState("TRIGGERED")' = InState("TRIGGERED") \ {i}
           /\ \A j \in DOMAIN reviews : reviews'[j].by = reviews[j].by
           /\ s \in Closed => InHand' = InHand \ {i} /\ OpenReviews' = OpenReviews \ {i}
           /\ i \in OpenReviews => InHand' \subseteq InHand
<1>1. /\ DOMAIN reviews' = DOMAIN reviews
      /\ reviews'[i] = [state |-> s, by |-> reviews[i].by]
      /\ \A j \in DOMAIN reviews \ {i} : reviews'[j] = reviews[j]
    BY Rewritten, Zenon DEF SetState
<1>2. reviews'[i].state = s /\ reviews'[i].by = reviews[i].by
    BY <1>1
<1>3. InState("TRIGGERED")' = InState("TRIGGERED") \ {i}
    BY <1>1, <1>2 DEF InState
<1>4. s \in Closed => InHand' = InHand \ {i} /\ OpenReviews' = OpenReviews \ {i}
    BY <1>1, <1>2 DEF InHand, OpenReviews
<1>5. i \in OpenReviews => InHand' \subseteq InHand
    BY <1>1, <1>2 DEF InHand, OpenReviews
<1> QED  BY <1>1, <1>2, <1>3, <1>4, <1>5

\* A step of the abstract system, and the invariant after it.
Fine == CaseInv' /\ [Cases!Next]_reviews

LEMMA OpensFine ==
    ASSUME CaseInv, Apply, Opens(Head(batch)) PROVE Fine
<1> DEFINE tx == Head(batch)
<1> reviews \in Seq(Row) /\ OneInHand
    BY DEF CaseInv, TypeOK, Row
<1>1. InHand = {}
  <2>1. batch # <<>> /\ batch \in Seq(Transaction)
    BY DEF CaseInv, TypeOK, Busy, Apply
  <2>2. tx = batch[1] /\ 1 \in DOMAIN batch
    BY <2>1, Shortened
  <2> QED  BY <2>2 DEF CaseInv, Ready, Opens
<1>2. \A k \in DOMAIN Tail(batch) : ~Deciding(Tail(batch)[k])
    BY <1>1, RestReady, TriggeredIsInHand
<1>3. PICK c \in Row :
          /\ reviews' = Append(reviews, c) /\ c.state \notin Closed
          /\ \/ c = NobodyCame
             \/ tx.kind \in {"trigger", "pickup"} /\ \E by \in {"trigger", "claim"} : c = Assigned(by)
    BY StatesAreStates DEF Opens, Assigned, NobodyCame, Closed
<1>4. c.state = "TRIGGERED" => c.by # "cap"
    BY <1>3 DEF Assigned, NobodyCame
<1>5. /\ InHand' = (IF c.by = "cap" THEN {} ELSE {Len(reviews) + 1})
      /\ \A i \in InState("TRIGGERED")' : reviews'[i].by # "cap"
    BY <1>1, <1>3, <1>4, AddedRow
<1>6. OneInHand'
    BY <1>5 DEF OneInHand
<1>7. ASSUME NEW k \in DOMAIN Tail(batch),
             Tail(batch)[k].kind \in {"trigger", "pickup", "autoconfirm"}
      PROVE  InHand' = {}
  <2>1. c = NobodyCame
    <3>1. CASE Changes(tx)
      BY <1>7, <3>1, RestReady DEF Follows, Changes, Mutator
    <3>2. CASE ~Changes(tx)
      BY <1>3, <3>2 DEF Changes, Mutator
    <3> QED  BY <3>1, <3>2
  <2> QED  BY <1>5, <2>1 DEF NobodyCame
<1>8. CaseInv'
    BY <1>2, <1>6, <1>7, ReadyAfter
<1>9. Cases!Next
  <2>1. \A i \in Cases!Open : reviews[i].by = "cap"
    BY <1>1 DEF Cases!Open, InHand, OpenReviews, Cases!Closed, Closed
  <2>2. Cases!OpenCase(c)
    BY <1>3, <2>1 DEF Cases!OpenCase
  <2> QED  BY <1>3, <2>2 DEF Cases!Next, Cases!NobodyCame, NobodyCame, Cases!Assigned, Assigned
<1> QED  BY <1>8, <1>9 DEF Fine

LEMMA DecidesFine ==
    ASSUME CaseInv, Apply, Decides(Head(batch)) PROVE Fine
<1> DEFINE tx == Head(batch)
           i  == tx.review
<1> reviews \in Seq(Row) /\ OneInHand
    BY DEF CaseInv, TypeOK, Row
<1>1. /\ i \in InState("TRIGGERED") /\ i \in InHand
      /\ \A k \in DOMAIN Tail(batch) :
             ~Deciding(Tail(batch)[k]) /\ Tail(batch)[k].kind \notin {"trigger", "pickup", "autoconfirm"}
    BY DecisionLeavesNone DEF Decides, Deciding
<1>2. i \in DOMAIN reviews /\ i \in OpenReviews /\ reviews[i].state = "TRIGGERED"
    BY <1>1 DEF InState, InHand
<1>3. tx.to \in {"DISMISSED", "CONFIRMED", "RECUSED", "NO_SHOW"} /\ tx.to \in ReviewState
    BY Effects, Kinds, StatesAreStates DEF Decides, CaseInv
<1>4. /\ InState("TRIGGERED")' = InState("TRIGGERED") \ {i}
      /\ \A j \in DOMAIN reviews : reviews'[j].by = reviews[j].by
      /\ InHand' \subseteq InHand
    BY <1>2, <1>3, ChangedRow DEF Decides
<1>5. OneInHand'
    BY <1>4 DEF OneInHand, InState
<1>6. CaseInv'
    BY <1>1, <1>5, ReadyAfter
<1>7. Cases!Next
  <2>1. reviews' = [reviews EXCEPT ![i].state = tx.to]
    BY DEF Decides, SetState
  <2>2. CASE tx.to = "CONFIRMED"
    BY <1>2, <2>1, <2>2 DEF Cases!Next, Cases!Confirm
  <2>3. CASE tx.to # "CONFIRMED"
    <3>1. tx.to \in Cases!Closed /\ i \in Cases!Open
      BY <1>2, <1>3, <2>3 DEF Cases!Closed, Cases!Open, OpenReviews, Closed
    <3>2. Cases!Close(i, tx.to)
      BY <2>1, <3>1 DEF Cases!Close
    <3> QED  BY <1>2, <3>1, <3>2 DEF Cases!Next
  <2> QED  BY <2>2, <2>3
<1> QED  BY <1>6, <1>7 DEF Fine

LEMMA SameLength ==
    ASSUME NEW p \in Seq(Row), NEW q \in Seq(Row), DOMAIN p = DOMAIN q PROVE Len(p) = Len(q)
<1> DEFINE a == Len(p)
           b == Len(q)
<1>1. a \in Nat /\ b \in Nat /\ \A k : k \in 1..a <=> k \in 1..b
  <2>1. DOMAIN p = 1..a /\ DOMAIN q = 1..b
    OBVIOUS
  <2>2. a \in Nat /\ b \in Nat
    OBVIOUS
  <2> HIDE DEF a, b
  <2> QED  BY <2>1, <2>2
<1> HIDE DEF a, b
<1>2. a = b
  <2>1. a \in 1..a <=> a \in 1..b
    BY <1>1
  <2>2. b \in 1..a <=> b \in 1..b
    BY <1>1
  <2> QED  BY <1>1, <2>1, <2>2
<1> QED  BY <1>2 DEF a, b

LEMMA ReplacesFine ==
    ASSUME CaseInv, Apply, Replaces(Head(batch)) PROVE Fine
<1> DEFINE tx == Head(batch)
           i  == tx.review
           closed == [reviews EXCEPT ![i].state = "CLAIMED_OVER"]
<1> reviews \in Seq(Row) /\ OneInHand
    BY DEF CaseInv, TypeOK, Row
<1>1. /\ i \in InState("TRIGGERED") /\ i \in InHand
      /\ \A k \in DOMAIN Tail(batch) :
             ~Deciding(Tail(batch)[k]) /\ Tail(batch)[k].kind \notin {"trigger", "pickup", "autoconfirm"}
    BY DecisionLeavesNone DEF Replaces, Deciding
<1>2. i \in DOMAIN reviews /\ reviews[i].state = "TRIGGERED" /\ InHand = {i}
    BY <1>1 DEF InState, OneInHand
<1>3. reviews' = Append(closed, Assigned("claim"))
    BY DEF Replaces
<1>4. /\ closed \in Seq(Row) /\ DOMAIN closed = DOMAIN reviews /\ Len(closed) = Len(reviews)
      /\ closed[i] = [state |-> "CLAIMED_OVER", by |-> reviews[i].by]
      /\ \A j \in DOMAIN reviews \ {i} : closed[j] = reviews[j]
  <2>1. "CLAIMED_OVER" \in ReviewState
    BY StatesAreStates
  <2>2. i \in DOMAIN reviews /\ reviews \in Seq(Row)
    BY <1>2
  <2>3. /\ closed \in Seq(Row) /\ DOMAIN closed = DOMAIN reviews
        /\ closed[i] = [state |-> "CLAIMED_OVER", by |-> reviews[i].by]
        /\ \A j \in DOMAIN reviews \ {i} : closed[j] = reviews[j]
    BY <2>1, <2>2, Rewritten, Zenon
  <2> HIDE DEF closed
  <2>4. Len(closed) = Len(reviews)
    BY <2>2, <2>3, SameLength, Zenon
  <2> QED  BY <2>3, <2>4
<1> HIDE DEF closed
<1>5. /\ DOMAIN reviews' = DOMAIN reviews \cup {Len(reviews) + 1}
      /\ \A j \in DOMAIN reviews \ {i} : reviews'[j] = reviews[j]
      /\ reviews'[i].state = "CLAIMED_OVER"
      /\ reviews'[Len(reviews) + 1] = Assigned("claim")
  <2>1. Assigned("claim") \in Row
    BY StatesAreStates
  <2> QED  BY <1>2, <1>3, <1>4, <2>1, Extended
<1>6. OneInHand'
  <2>1. \A j \in OpenReviews' : reviews'[j].by # "cap" => j = Len(reviews) + 1
    BY <1>2, <1>5 DEF OpenReviews, InHand, Closed
  <2>2. \A j \in InState("TRIGGERED")' : reviews'[j].by # "cap"
    BY <1>5 DEF InState, OneInHand, Assigned
  <2> QED  BY <2>1, <2>2 DEF OneInHand, InHand
<1>7. CaseInv'
    BY <1>1, <1>6, ReadyAfter
<1>8. Cases!Next
  <2>1. Cases!HandOver(i)
    BY <1>2, <1>3 DEF closed, Cases!HandOver, Cases!Assigned, Assigned
  <2> QED  BY <1>2, <2>1 DEF Cases!Next
<1> QED  BY <1>7, <1>8 DEF Fine

LEMMA EndsFine ==
    ASSUME CaseInv, Apply, Ends(Head(batch)) PROVE Fine
<1> DEFINE tx == Head(batch)
<1> reviews \in Seq(Row) /\ OneInHand
    BY DEF CaseInv, TypeOK, Row
<1>1. PICK i \in OpenReview \ {0}, s \in {"ACCEPTED_PRIVATE", "SELF_CORRECT", "ESCALATED"} :
          SetState(i, s) /\ (tx.kind = "dispute" => reviews[i].state = "CONFIRMED")
    BY DEF Ends
<1>2. i \in OpenReviews /\ i \in DOMAIN reviews
    BY <1>1, OpenOnesAreOpen
<1>3. s \in ReviewState /\ s \in Closed /\ s # "TRIGGERED"
    BY StatesAreStates DEF Closed
<1>4. /\ InState("TRIGGERED")' = InState("TRIGGERED") \ {i}
      /\ \A j \in DOMAIN reviews : reviews'[j].by = reviews[j].by
      /\ InHand' = InHand \ {i}
    BY <1>1, <1>2, <1>3, ChangedRow
<1>5. OneInHand'
    BY <1>4 DEF OneInHand, InState
<1>6. Changes(tx)
    BY DEF Ends, Changes, Mutator
<1>7. ASSUME NEW k \in DOMAIN Tail(batch)
      PROVE  Tail(batch)[k].kind \notin Mutator \cup {"autoconfirm"}
    BY <1>6, RestReady DEF Follows, Changes
<1>8. ASSUME NEW k \in DOMAIN Tail(batch), Deciding(Tail(batch)[k])
      PROVE  Tail(batch)[k].review \in InState("TRIGGERED")'
  <2>1. Tail(batch)[k].review \in InState("TRIGGERED")
    BY <1>8, RestReady
  <2>2. Tail(batch)[k].review # i
    <3>1. CASE tx.kind = "dispute"
      BY <1>1, <2>1, <3>1 DEF InState
    <3>2. CASE tx.kind = "update"
      <4>1. Spared(Tail(batch)[k].review)
        BY <1>8, <3>2, RestReady
      <4> QED  BY <1>1, <1>2, <4>1 DEF Spared, OpenReview, OpenedBy
    <3> QED  BY <3>1, <3>2 DEF Ends
  <2> QED  BY <1>4, <2>1, <2>2
<1>9. CaseInv'
    BY <1>5, <1>7, <1>8, ReadyAfter DEF Mutator
<1>10. Cases!Next
  <2>1. i \in Cases!Open /\ s \in Cases!Closed
    BY <1>2, <1>3 DEF Cases!Open, Cases!Closed, OpenReviews, Closed
  <2>2. Cases!Close(i, s)
    BY <1>1, <2>1 DEF Cases!Close, SetState
  <2> QED  BY <1>2, <2>1, <2>2 DEF Cases!Next
<1> QED  BY <1>9, <1>10 DEF Fine

LEMMA UntouchedFine ==
    ASSUME CaseInv, Apply, reviews' = reviews PROVE Fine
<1> OneInHand'
    BY SameRowsSameCases DEF CaseInv
<1>1. CaseInv'
  <2>1. ASSUME NEW k \in DOMAIN Tail(batch)
        PROVE  /\ Deciding(Tail(batch)[k]) => Tail(batch)[k].review \in InState("TRIGGERED")'
               /\ Tail(batch)[k].kind \in {"trigger", "pickup", "autoconfirm"} => InHand' = {}
    BY RestReady, SameRowsSameCases
  <2>2. ASSUME NEW k \in DOMAIN Tail(batch), NEW l \in DOMAIN Tail(batch), k < l,
               Tail(batch)[k].kind = "update", Deciding(Tail(batch)[l])
        PROVE  reviews'[Tail(batch)[l].review].by = "trigger" /\ OpenedBy("cap")' # {}
    <3>1. batch # <<>> /\ batch \in Seq(Transaction)
      BY DEF CaseInv, TypeOK, Busy, Apply
    <3>2. k + 1 < l + 1
      BY <2>2, <3>1
    <3>3. Spared(Tail(batch)[l].review)
      BY <2>2, <3>2, RestReady DEF CaseInv, Ready
    <3> QED  BY <3>3 DEF Spared, OpenedBy, OpenReviews
  <2> QED  BY <2>1, <2>2, ReadyAfter
<1> QED  BY <1>1 DEF Fine

LEMMA FineStep ==
    ASSUME CaseInv, [Next]_vars PROVE Fine
<1>1. TypeOK /\ Busy /\ TypeOK' /\ Busy'
    BY TypedStep DEF CaseInv
<1>2. ASSUME reviews' = reviews, batch' = batch, applying => applying' PROVE Fine
  <2>1. OneInHand' /\ Ready(batch)' /\ UpdatesSpare'
    BY <1>2, SameRowsSameCases DEF CaseInv, UpdatesSpare, Ready
  <2> QED  BY <1>1, <1>2, <2>1 DEF Fine, CaseInv
<1>3. CASE Apply
    BY <1>1, <1>3, Effects, OpensFine, ReplacesFine, DecidesFine, EndsFine, UntouchedFine DEF CaseInv
<1>4. ASSUME NEW n \in Node, Validate(n) PROVE Fine
    BY <1>4, ValidateReady DEF Validate, Fine
<1>5. CASE UNCHANGED vars \/ ClaimJob \/ Rule \/ BeginApplying
    BY <1>2, <1>5 DEF vars, ClaimJob, Rule, BeginApplying, commit
<1>6. ASSUME NEW v \in {"flagged", "clear"}, FinishJob(v) PROVE Fine
    BY <1>2, <1>6 DEF FinishJob, commit
<1>7. ASSUME NEW d \in {"failopen", "grace"}, Pass(d) PROVE Fine
    BY <1>2, <1>7 DEF Pass, commit
<1>8. ASSUME NEW i \in DOMAIN reviews, PassWindow(i) PROVE Fine
    BY <1>2, <1>8 DEF PassWindow, commit
<1>9. ASSUME NEW n \in Desk, NEW i \in DOMAIN reviews,
             NEW s \in {"DISMISSED", "CONFIRMED", "RECUSED"}, Decide(n, i, s)
      PROVE  Fine
    BY <1>2, <1>9 DEF Decide, commit
<1>10. ASSUME NEW n \in Desk, Claim(n) \/ CorrectOrigin(n) \/ Others(n) PROVE Fine
    BY <1>2, <1>10 DEF Claim, CorrectOrigin, Others, commit
<1>11. ASSUME NEW n \in Node, EmitFailOpen(n) \/ CheckReviews(n) PROVE Fine
    BY <1>2, <1>11 DEF EmitFailOpen, CheckReviews, commit
<1> QED
    BY <1>3, <1>4, <1>5, <1>6, <1>7, <1>8, <1>9, <1>10, <1>11 DEF Next

\* The rows of prescan_reviews behave as cases, for any number of nodes and
\* any cut of the batches: no two open at once but for the network's own, and
\* no decision overwritten (commit-handler.js, _dedupCheck and _statefulCheck).
THEOREM ImplementsCases == Spec => OneCaseAtATime
<1>1. Init => CaseInv /\ Cases!Init
  <2>1. Init => TypeOK /\ Busy
    <3>1. <<>> \in Seq(Transaction) /\ <<>> \in Seq(Row)
      OBVIOUS
    <3> QED  BY <3>1 DEF Init, TypeOK, Busy, Row, Status
  <2>2. Init => OneInHand /\ Ready(batch) /\ UpdatesSpare
    BY DEF Init, OneInHand, InHand, OpenReviews, InState, Ready, UpdatesSpare
  <2>3. Init => Cases!Init
    BY DEF Init, Cases!Init
  <2> QED  BY <2>1, <2>2, <2>3 DEF CaseInv
<1>2. CaseInv /\ [Next]_vars => CaseInv' /\ [Cases!Next]_reviews
    BY FineStep DEF Fine
<1> QED  BY <1>1, <1>2, PTL DEF Spec, OneCaseAtATime, Cases!Spec
=============================================================================
