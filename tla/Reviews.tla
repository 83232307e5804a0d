------------------------------ MODULE Reviews ------------------------------
(***************************************************************************)
(* One flagged content from registration to the end of its review: the     *)
(* classifier's verdict or the fail-open in its place                      *)
(* (workers/prescan-worker.js, consensus/prescan-completion-trigger.js),   *)
(* the reviews leaders propose (consensus/prescan-review-trigger.js),      *)
(* what reviewers, the desk, the creator and others submit                 *)
(* (services/review-service.js, content-service.js), and the two phases    *)
(* in which commit-handler.js commits a batch: every transaction is        *)
(* validated against the state before the batch and the siblings accepted  *)
(* ahead of it, and only then are they applied.                            *)
(*                                                                         *)
(* As in Disputes the committed state is one state, mempools are first in  *)
(* first out, and consensus merges them in any way; here it also cuts the  *)
(* merge into batches.  The content was registered as OH with an override, *)
(* so the creator may correct it for as long as no review is due.  Who     *)
(* reviews is left out: a review has an assignee, another may take it.     *)
(***************************************************************************)
EXTENDS Sequences, FiniteSets, Naturals

CONSTANTS
    Node,
    Scanner,        \* the node that registered the content and runs its job
    Desk,           \* the nodes whose API people use
    NoShowCap,      \* PRESCAN_REVIEW_CAP.MAX_NO_SHOWS
    MaxBatch,       \* bound on the transactions of a batch
    MaxQueue,       \* bound on a mempool
    MaxReviews      \* bound on the reviews opened and proposed

ASSUME NumbersAreNatural ==
    /\ NoShowCap \in Nat \ {0} /\ MaxBatch \in Nat \ {0}
    /\ MaxQueue \in Nat /\ MaxReviews \in Nat
ASSUME ScannerIsNode == Scanner \in Node /\ Desk \subseteq Node

Closed ==
    {"DISMISSED", "RECUSED", "NO_SHOW", "CLAIMED_OVER",
     "ACCEPTED_PRIVATE", "SELF_CORRECT", "ESCALATED"}
ReviewState == {"TRIGGERED", "CONFIRMED"} \cup Closed
Status ==
    {"PENDING_PRESCAN", "REGISTERED", "PENDING_REVIEW", "VERIFIED", "DISPUTED", "RETRACTED"}

VARIABLES
    status,     \* content.status
    verdict,    \* "pending", "flagged", or "clear" (a degraded one included)
    corrected,  \* UPDATE_ORIGIN is committed: the content is no longer OH
    verified,   \* CONTENT_VERIFIED is committed
    disputes,   \* who filed a committed CONTENT_DISPUTED: "user", "node"
    ruled,      \* a dispute of the content has been ruled on
    reviews,    \* the rows of prescan_reviews, oldest first; "NO_SHOW" is
                \* RECUSED with the reason sla_expired
    passed,     \* of "failopen" and "grace", the deadlines behind us
    late,       \* the reviews whose deadline has passed, in their present state
    job,        \* the row of the prescan job queue
    queue,      \* queue[n]: the mempool of n
    batch,      \* the batch being committed: accepted, not yet applied
    applying    \* phase 2 of the commit has begun

row == <<status, verdict, corrected, verified, disputes, ruled>>
clocks == <<passed, late>>
commit == <<batch, applying>>
vars == <<row, reviews, clocks, job, queue, commit>>

Init ==
    /\ status = "PENDING_PRESCAN" /\ verdict = "pending"
    /\ corrected = FALSE /\ verified = FALSE /\ disputes = {} /\ ruled = FALSE
    /\ reviews = <<>> /\ passed = {} /\ late = {} /\ job = "queued"
    /\ queue = [n \in Node |-> <<>>] /\ batch = <<>> /\ applying = FALSE

-----------------------------------------------------------------------------
(* Transactions.                                                           *)

Completed(v) == [kind |-> "completed", verdict |-> v]
Trigger == [kind |-> "trigger"]
AutoConfirm == [kind |-> "autoconfirm"]
Decision(i, s) == [kind |-> "decide", review |-> i, to |-> s]
TakeOver(i) == [kind |-> "takeover", review |-> i]
PickUp == [kind |-> "pickup"]
Update(early) == [kind |-> "update", early |-> early]   \* sent inside the grace
Verify == [kind |-> "verify"]
Retract == [kind |-> "retract"]
Dispute(by) == [kind |-> "dispute", by |-> by]

-----------------------------------------------------------------------------
(* Queries of dag.js and rules of business-rules.js.  DecidedInRow,        *)
(* KeepsStatus and EscalatesAssigned, below, are faulty variants that show *)
(* the properties bite; no action uses them.                               *)

OpenReviews == {i \in DOMAIN reviews : reviews[i].state \notin Closed}
InState(s) == {i \in DOMAIN reviews : reviews[i].state = s}
Overdue(s) == InState(s) \cap late
NoShows == Cardinality(InState("NO_SHOW"))

\* Of several open reviews the query returns the one triggered in the highest
\* round: a claim is dated by its commit, and the network's own case was
\* proposed later than a trigger, whose proposer still saw fewer no-shows.
OpenedBy(by) == {i \in OpenReviews : reviews[i].by = by}
OpenReview ==
    IF OpenReviews = {} THEN {0}
    ELSE IF OpenedBy("claim") # {} THEN OpenedBy("claim")
    ELSE IF OpenedBy("cap") # {} THEN OpenedBy("cap") ELSE OpenReviews

NeedsReview ==
    /\ status = "REGISTERED" /\ ~corrected /\ verdict = "flagged" /\ "grace" \in passed
    /\ \A i \in DOMAIN reviews : reviews[i].state \in {"RECUSED", "NO_SHOW", "CLAIMED_OVER"}

CanUpdateOrigin(open, early) ==
    /\ status \in {"REGISTERED", "PENDING_REVIEW", "PENDING_PRESCAN"} /\ ~corrected
    /\ IF open = 0 THEN verdict = "pending" \/ early ELSE reviews[open].state = "CONFIRMED"
CanRetract == status \notin {"RETRACTED", "DISPUTED"} /\ OpenReviews = {}
CanVerify == status \notin {"RETRACTED", "DISPUTED", "PENDING_REVIEW"} /\ ~verified
CanDispute ==
    /\ status \notin {"RETRACTED", "DISPUTED", "PENDING_REVIEW"}
    /\ verdict # "pending" /\ "user" \notin disputes

-----------------------------------------------------------------------------
(* Submitting.  Bound: nothing is submitted to a mempool that holds        *)
(* MaxQueue transactions, or the same one.  A batch is committed in one    *)
(* go: nothing happens in between.                                         *)

Holds(n, tx) == \E i \in DOMAIN queue[n] : queue[n][i] = tx
Submit(n, txs) ==
    /\ batch = <<>> /\ txs # <<>> /\ Len(queue[n]) < MaxQueue
    /\ \A i \in DOMAIN txs : ~Holds(n, txs[i])
    /\ queue' = [queue EXCEPT ![n] = @ \o txs]

Opening == {"trigger", "autoconfirm", "pickup", "takeover"}
Room ==
    LET openings(n) == {i \in DOMAIN queue[n] : queue[n][i].kind \in Opening}
        waiting == UNION {{<<n, i>> : i \in openings(n)} : n \in Node}
    IN Len(reviews) + Cardinality(waiting) < MaxReviews

\* A worker claims the job; the verdict may already be on the chain.
ClaimJob ==
    /\ batch = <<>> /\ job = "queued"
    /\ job' = IF verdict = "pending" THEN "claimed" ELSE "done"
    /\ UNCHANGED <<row, reviews, clocks, queue, commit>>

\* The classifier answers, or the worker gives up.
FinishJob(v) ==
    /\ job = "claimed" /\ job' = "done"
    /\ Submit(Scanner, <<Completed(v)>>)
    /\ UNCHANGED <<row, reviews, clocks, commit>>

\* The leader of a round finds the content stuck past the deadline and no
\* verdict waiting in its own mempool.
EmitFailOpen(n) ==
    /\ verdict = "pending" /\ "failopen" \in passed
    /\ \A i \in DOMAIN queue[n] : queue[n][i].kind # "completed"
    /\ Submit(n, <<Completed("clear")>>)
    /\ UNCHANGED <<row, reviews, clocks, job, commit>>

DueReviews ==
    IF ~NeedsReview \/ ~Room THEN <<>>
    ELSE IF NoShows >= NoShowCap THEN <<AutoConfirm>> ELSE <<Trigger>>

\* S one by one, in the order of the rows
OneByOne(S) ==
    {rows \in [1..Cardinality(S) -> S] : \A k, l \in DOMAIN rows : k < l => rows[k] < rows[l]}

EscalatesAssigned ==
    IF disputes # {} \/ \A i \in Overdue("CONFIRMED") : reviews[i].by = "cap" THEN <<>>
    ELSE <<Dispute("node")>>
\* Several reviews of one content escalate with the same transaction.
AutoEscalations ==
    IF disputes # {} \/ Overdue("CONFIRMED") = {} THEN <<>> ELSE <<Dispute("node")>>
AutoRecusals(rows) == [k \in DOMAIN rows |-> Decision(rows[k], "NO_SHOW")]

\* The round's leader proposes all that is due.
CheckReviews(n) ==
    /\ \E rows \in OneByOne(Overdue("TRIGGERED")) :
           Submit(n, DueReviews \o AutoEscalations \o AutoRecusals(rows))
    /\ UNCHANGED <<row, reviews, clocks, job, commit>>

\* The assigned reviewer answers, or recuses.
Decide(n, i, s) ==
    /\ i \in InState("TRIGGERED")
    /\ Submit(n, <<Decision(i, s)>>)
    /\ UNCHANGED <<row, reviews, clocks, job, commit>>

\* A member of the review desk takes an open review, or a waiting content.
Claim(n) ==
    /\ Room
    /\ \/ \E i \in InState("TRIGGERED") : Submit(n, <<TakeOver(i)>>)
       \/ NeedsReview /\ Submit(n, <<PickUp>>)
    /\ UNCHANGED <<row, reviews, clocks, job, commit>>

\* The creator corrects the origin, in the grace period or when a reviewer has
\* confirmed the flag and the window for the decision is open.
CorrectOrigin(n) ==
    /\ LET early == "grace" \notin passed IN
           /\ \E open \in OpenReview :
                  /\ CanUpdateOrigin(open, early)
                  /\ open \notin late
           /\ Submit(n, <<Update(early)>>)
    /\ UNCHANGED <<row, reviews, clocks, job, commit>>

\* The creator retracts, or takes the confirmed flag to a dispute at once; a
\* reader verifies or disputes.
Others(n) ==
    /\ \/ CanRetract /\ Submit(n, <<Retract>>)
       \/ InState("CONFIRMED") # {} /\ Submit(n, <<Dispute("node")>>)
       \/ CanVerify /\ Submit(n, <<Verify>>)
       \/ CanDispute /\ Submit(n, <<Dispute("user")>>)
    /\ UNCHANGED <<row, reviews, clocks, job, commit>>

-----------------------------------------------------------------------------
(* Time, and the ruling of a dispute (module Disputes).                    *)

Pass(d) ==
    /\ batch = <<>> /\ d \notin passed
    /\ (d = "failopen") = (verdict = "pending")
    /\ passed' = passed \cup {d}
    /\ UNCHANGED <<row, reviews, late, job, queue, commit>>

PassWindow(i) ==
    /\ batch = <<>> /\ i \in OpenReviews \ late
    /\ late' = late \cup {i}
    /\ UNCHANGED <<row, reviews, passed, job, queue, commit>>

Rule ==
    /\ batch = <<>> /\ status = "DISPUTED" /\ ~ruled
    /\ ruled' = TRUE /\ status' \in {"REGISTERED", "VERIFIED"}
    /\ UNCHANGED <<verdict, corrected, verified, disputes, reviews, clocks, job, queue, commit>>

-----------------------------------------------------------------------------
(* Phase 1: a transaction enters the batch or is dropped.                  *)

Accepted(kinds) == \E i \in DOMAIN batch : batch[i].kind \in kinds
Mutator == {"dispute", "verify", "retract", "update", "trigger", "pickup"}
Alone == ~Accepted(Mutator)
DecidedInRow(i) == \E k \in DOMAIN batch : k > 1 /\ batch[k].kind = "decide" /\ batch[k].review = i
Decided(i) == \E k \in DOMAIN batch : batch[k].kind \in {"decide", "takeover"} /\ batch[k].review = i

Valid(tx, open) ==
    \/ tx.kind = "completed" /\ verdict = "pending" /\ ~Accepted({"completed"})
    \/ tx.kind = "trigger" /\ Alone /\ OpenReviews = {}
    \/ /\ tx.kind = "autoconfirm" /\ Alone
       /\ status = "REGISTERED" /\ ~corrected /\ verdict = "flagged"
       /\ OpenReviews = {} /\ NoShows >= NoShowCap
    \/ tx.kind \in {"decide", "takeover"} /\ reviews[tx.review].state = "TRIGGERED" /\ ~Decided(tx.review)
    \/ tx.kind = "pickup" /\ Alone /\ NeedsReview
    \/ tx.kind = "update" /\ Alone /\ CanUpdateOrigin(open, tx.early)
    \/ tx.kind = "retract" /\ Alone /\ CanRetract
    \/ tx.kind = "verify" /\ Alone /\ CanVerify
    \/ tx.kind = "dispute" /\ Alone /\ (tx.by = "node" \/ CanDispute)

Validate(n) ==
    /\ ~applying /\ Len(batch) < MaxBatch /\ queue[n] # <<>>
    /\ queue' = [queue EXCEPT ![n] = Tail(@)]
    /\ \E open \in OpenReview :
           batch' = IF Valid(Head(queue[n]), open) THEN Append(batch, Head(queue[n])) ELSE batch
    /\ UNCHANGED <<row, reviews, clocks, job, applying>>

BeginApplying ==
    /\ ~applying /\ batch # <<>>
    /\ applying' = TRUE
    /\ UNCHANGED <<row, reviews, clocks, job, queue, batch>>

-----------------------------------------------------------------------------
(* Phase 2: the batch is applied in its order.                             *)

Assigned(by) == [state |-> "TRIGGERED", by |-> by]
NobodyCame == [state |-> "CONFIRMED", by |-> "cap"]
SetState(i, s) == reviews' = [reviews EXCEPT ![i].state = s]

ApplyCompleted(tx) ==
    /\ tx.kind = "completed"
    /\ verdict' = tx.verdict /\ status' = "REGISTERED"
    /\ UNCHANGED <<corrected, verified, disputes, reviews>>

ApplyOpening(tx) ==
    /\ \/ /\ tx.kind \in {"trigger", "pickup"}
          /\ reviews' = Append(reviews, Assigned(IF tx = PickUp THEN "claim" ELSE "trigger"))
          /\ status' = "PENDING_REVIEW"
       \/ /\ tx.kind = "autoconfirm"
          /\ reviews' = Append(reviews, NobodyCame)
          /\ status' = IF status = "REGISTERED" THEN "PENDING_REVIEW" ELSE status
       \/ /\ tx.kind = "takeover"
          /\ reviews' = Append([reviews EXCEPT ![tx.review].state = "CLAIMED_OVER"], Assigned("claim"))
          /\ UNCHANGED status
    /\ UNCHANGED <<verdict, corrected, verified, disputes>>

KeepsStatus(s) == status
StatusAfter(s) == IF s = "CONFIRMED" THEN status ELSE "REGISTERED"
ApplyDecision(tx) ==
    /\ tx.kind = "decide"
    /\ SetState(tx.review, tx.to) /\ status' = StatusAfter(tx.to)
    /\ UNCHANGED <<verdict, corrected, verified, disputes>>

ApplyUpdate(tx, open) ==
    /\ tx.kind = "update"
    /\ corrected' = TRUE /\ status' = "REGISTERED"
    /\ IF open = 0 THEN UNCHANGED reviews
       ELSE SetState(open, IF reviews[open].state = "CONFIRMED" THEN "ACCEPTED_PRIVATE" ELSE "SELF_CORRECT")
    /\ UNCHANGED <<verdict, verified, disputes>>

ApplyDispute(tx, open) ==
    /\ tx.kind = "dispute"
    /\ disputes' = disputes \cup {tx.by} /\ status' = "DISPUTED"
    /\ IF open # 0 /\ reviews[open].state = "CONFIRMED"
       THEN SetState(open, "ESCALATED") ELSE UNCHANGED reviews
    /\ UNCHANGED <<verdict, corrected, verified>>

ApplyRest(tx) ==
    /\ \/ tx.kind = "retract" /\ status' = "RETRACTED" /\ UNCHANGED verified
       \/ /\ tx.kind = "verify" /\ verified' = TRUE
          /\ status' = IF status = "REGISTERED" THEN "VERIFIED" ELSE status
    /\ UNCHANGED <<verdict, corrected, disputes, reviews>>

Apply ==
    /\ applying
    /\ LET tx == Head(batch) IN
           \/ ApplyCompleted(tx) \/ ApplyOpening(tx) \/ ApplyDecision(tx) \/ ApplyRest(tx)
           \/ \E open \in OpenReview : ApplyUpdate(tx, open) \/ ApplyDispute(tx, open)
    /\ batch' = Tail(batch) /\ applying' = (Tail(batch) # <<>>)
    /\ late' = {i \in late : reviews'[i] = reviews[i]}
    /\ UNCHANGED <<ruled, passed, job, queue>>

-----------------------------------------------------------------------------
Next ==
    \/ ClaimJob \/ Rule \/ BeginApplying \/ Apply
    \/ \E v \in {"flagged", "clear"} : FinishJob(v)
    \/ \E d \in {"failopen", "grace"} : Pass(d)
    \/ \E i \in DOMAIN reviews : PassWindow(i)
    \/ \E n \in Desk, i \in DOMAIN reviews : \E s \in {"DISMISSED", "CONFIRMED", "RECUSED"} : Decide(n, i, s)
    \/ \E n \in Desk : Claim(n) \/ CorrectOrigin(n) \/ Others(n)
    \/ \E n \in Node : EmitFailOpen(n) \/ CheckReviews(n) \/ Validate(n)

Spec == Init /\ [][Next]_vars

\* Time passes, mempools are drained, and some leader gets to act again and
\* again.  Nothing is asked of people or of the classifier.
LiveSpec ==
    /\ Spec
    /\ WF_vars(BeginApplying \/ Apply) /\ \A n \in Node : WF_vars(Validate(n))
    /\ WF_vars(Pass("failopen")) /\ WF_vars(\E i \in DOMAIN reviews : PassWindow(i))
    /\ SF_vars(\E n \in Node : EmitFailOpen(n)) /\ SF_vars(\E n \in Node : CheckReviews(n))

-----------------------------------------------------------------------------
(* Properties.                                                             *)

Transaction ==
    {Trigger, AutoConfirm, PickUp, Retract, Verify, Dispute("user"), Dispute("node")}
        \cup {Completed(v) : v \in {"flagged", "clear"}} \cup {Update(e) : e \in BOOLEAN}
        \cup [kind : {"decide"}, review : DOMAIN reviews, to : {"DISMISSED", "CONFIRMED", "RECUSED", "NO_SHOW"}]
        \cup [kind : {"takeover"}, review : DOMAIN reviews]

\* The state has its shape, and a content shown as under review has a review
\* that somebody is to decide (commit-handler.js sets the two separately).
TypeOK ==
    /\ status \in Status /\ verdict \in {"pending", "flagged", "clear"}
    /\ {corrected, verified, ruled, applying} \subseteq BOOLEAN
    /\ disputes \subseteq {"user", "node"}
    /\ reviews \in Seq([state : ReviewState, by : {"trigger", "cap", "claim"}])
    /\ passed \subseteq {"failopen", "grace"}
    /\ late \subseteq OpenReviews
    /\ job \in {"queued", "claimed", "done"}
    /\ queue \in [Node -> Seq(Transaction)] /\ batch \in Seq(Transaction)
    /\ status = "PENDING_REVIEW" => OpenReviews # {}

Cases == INSTANCE ReviewCases WITH cases <- reviews

\* The rows of prescan_reviews are cases: one is open at a time but for those
\* of the no-show cap, and a decision stands, whatever reviewers, desk,
\* creator and leaders have under way and however batches are cut
\* (commit-handler.js, _dedupCheck and _statefulCheck).
OneCaseAtATime == Cases!Spec

\* A content leaves the prescan and the review, whoever stays silent: the
\* fail-open ends the one, no-shows, the cap and the escalation the other.  A
\* content that was disputed before is set aside: its confirmed review is not
\* escalated (prescan-review-trigger.js, _emitAutoEscalations).
NotEscalated == disputes # {} /\ InState("CONFIRMED") # {}
ReviewEnds == []<>(status \notin {"PENDING_PRESCAN", "PENDING_REVIEW"} \/ NotEscalated)
=============================================================================
