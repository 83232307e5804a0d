------------------------------ MODULE Disputes ------------------------------
(***************************************************************************)
(* One content under dispute: filing (services/dispute-service.js), the    *)
(* rulings every node may propose when a deadline has passed               *)
(* (consensus/verdict-trigger.js with the builders of jury.js), and what   *)
(* the commit handler does with what consensus orders.                     *)
(*                                                                         *)
(* Nodes commit one sequence of transactions, so the committed state is    *)
(* one state; a node that lags proposes what it would have proposed        *)
(* earlier.  Each node's mempool is first in, first out, and consensus     *)
(* merges them in any way.  A batch is not atomic in that merge.           *)
(***************************************************************************)
EXTENDS Sequences, FiniteSets, Naturals

CONSTANTS
    Node, Disputer, Juror, Expert,
    Origin,        \* the origins a panel may confirm instead of the declared one
    Lenient,       \* those of them that clear the author (AG declared, OH confirmed)
    Declared,      \* the origin the author declared
    Quorum, Majority, MinVotes,   \* JURY.QUORUM, JURY.MAJORITY_VOTE, APPEAL.MIN_VOTES
    JuryOf,        \* JuryOf[d]: the jury that the dispute of d selects
    PanelOf,       \* PanelOf[n]: the experts that an appeal built by n selects
    Pools,         \* the sets of experts there may be
    Desk,          \* the nodes whose API the parties use
    Restarting,    \* the nodes that may restart
    Options,       \* Options[p]: the votes p may give
    None,          \* no vote, no origin, no ruling
    MaxRefusals,   \* bound on the batches a mempool refuses
    MaxRestarts    \* bound on restarts

Person == Juror \cup Expert
Stage == {"jury", "appeal"}
Vote == Origin \cup {"MATCH", "ABSTAIN"}    \* an origin is a MISMATCH that confirms it
Status == {"REGISTERED", "DISPUTED", "VERIFIED"}

ASSUME RulesAreNumbers == Quorum \in Nat /\ Majority \in Nat /\ MinVotes \in Nat \ {0}
ASSUME BoundsAreNumbers == MaxRefusals \in Nat /\ MaxRestarts \in Nat
ASSUME OriginsDiffer == Lenient \subseteq Origin /\ Declared \notin Origin
ASSUME NoneIsNoVote == None \notin Vote
ASSUME PanelsAreKnown ==
    /\ JuryOf \in [Disputer -> SUBSET Juror] /\ PanelOf \in [Node -> SUBSET Expert]
    /\ Pools \subseteq SUBSET Expert
    /\ Desk \subseteq Node /\ Restarting \subseteq Node
    /\ Options \in [Person -> SUBSET Vote]

VARIABLES
    pool,       \* the experts that consent and are not revoked
    queue,      \* queue[n]: the mempool of n
    pending,    \* pending[n]: the stages with an entry in the heap of n
    closed,     \* the stages whose reveal deadline has passed
    cast,       \* cast[s][p]: a vote revealed in time, not committed yet
    disputes,   \* committed CONTENT_DISPUTED, by disputer
    panel,      \* panel[s]: who has a committed JURY_SUMMONS
    votes,      \* votes[s][p]: committed JURY_VOTE_REVEAL
    rulings,    \* committed ADJUDICATION_RESULT
    appeals,    \* committed APPEAL_FILED, by appellant
    results,    \* committed APPEAL_RESULT
    status, origin,   \* the content row
    settled,    \* the reasons of the disputer's committed SCORE_UPDATEs
    refusals, restarts
board == <<closed, cast, votes>>
row == <<status, origin, settled>>
chain == <<disputes, panel, rulings, appeals, results>>
bounds == <<refusals, restarts>>
vars == <<pool, queue, pending, board, chain, row, bounds>>

NoVotes == [s \in Stage |-> [p \in Person |-> None]]

Init ==
    /\ pool \in Pools
    /\ queue = [n \in Node |-> <<>>]
    /\ pending = [n \in Node |-> {}]
    /\ closed = {} /\ cast = NoVotes /\ votes = NoVotes
    /\ disputes = <<>> /\ panel = [s \in Stage |-> {}]
    /\ rulings = <<>> /\ appeals = <<>> /\ results = <<>>
    /\ status = "REGISTERED" /\ origin = Declared /\ settled = {}
    /\ refusals = 0 /\ restarts = 0

-----------------------------------------------------------------------------
(* Transactions.  "score" is the disputer's SCORE_UPDATE with that reason. *)

Dispute(d) == [kind |-> "dispute", by |-> d]
Summons(s, who) == [kind |-> "summons", stage |-> s, who |-> who]
Ruling(v, o, final) == [kind |-> "ruling", verdict |-> v, confirmed |-> o, terminal |-> final]
Appeal(by) == [kind |-> "appeal", by |-> by]
Result(v, o, prior, over) ==
    [kind |-> "result", verdict |-> v, confirmed |-> o, stage2 |-> prior, overturned |-> over]
Score(reason) == [kind |-> "score", reason |-> reason]

-----------------------------------------------------------------------------
(* The batches of jury.js.  AlwaysEscalates, RevealUnasked,                *)
(* SupersededByAppeal and AnyRuling are faulty variants that show the      *)
(* properties bite; no action uses them.                                   *)

Tally(s, kinds) == Cardinality({p \in Person : votes[s][p] \in kinds})
Matches(s) == Tally(s, {"MATCH"})
Mismatches(s) == Tally(s, Origin)
\* Of the origins named most often, the one named first wins; the order of
\* votes is not modelled, so any of them may.
Confirmed(s) == {o \in Origin : \A x \in Origin : Tally(s, {o}) >= Tally(s, {x})}

Seats(n) == PanelOf[n] \cap pool
AlwaysEscalates(n) == TRUE
CanEscalate(n) == Cardinality(Seats(n)) >= MinVotes

JuryDecides ==
    /\ Matches("jury") + Mismatches("jury") + Tally("jury", {"ABSTAIN"}) >= Quorum
    /\ Matches("jury") + Mismatches("jury") >= Majority
    /\ Matches("jury") # Mismatches("jury")
Finding(s, o) ==
    IF Matches(s) >= Mismatches(s) THEN "DISMISSED"
    ELSE IF o \in Lenient THEN "CONSERVATIVE" ELSE "UPHELD"

NoQuorumBatch(n) ==
    IF CanEscalate(n)
    THEN <<Ruling("NO_QUORUM", None, FALSE), Appeal("SYSTEM"), Summons("appeal", Seats(n))>>
    ELSE <<Ruling("NO_QUORUM", None, TRUE), Score("refunded")>>
RulingBatch(v, o) ==
    IF v = "UPHELD" THEN <<Ruling(v, o, FALSE), Score("upheld")>>
    ELSE IF v = "CONSERVATIVE" THEN <<Ruling(v, o, FALSE), Score("conservative-label")>>
    ELSE <<Ruling(v, None, FALSE)>>
AdjudicationBatches(n) ==
    IF JuryDecides THEN {RulingBatch(Finding("jury", o), o) : o \in Confirmed("jury")}
    ELSE {NoQuorumBatch(n)}

Stage2 == IF rulings = <<>> THEN None ELSE Head(rulings).verdict
ExpertsDecide ==
    /\ Matches("appeal") + Mismatches("appeal") >= MinVotes
    /\ Matches("appeal") # Mismatches("appeal")
DefaultBatch ==
    <<Result("DISMISSED", None, Stage2, FALSE)>>
        \o IF Stage2 = "NO_QUORUM" THEN <<Score("refunded")>> ELSE <<>>
Overturns(v) == {Stage2, v} = {"UPHELD", "DISMISSED"}
Settlement(v) ==
    IF Overturns(v) THEN <<Score("overturned")>>
    ELSE IF Stage2 = "NO_QUORUM" /\ v # "DISMISSED" THEN <<Score("final")>> ELSE <<>>
ResultBatch(v, o) ==
    <<Result(v, IF v = "DISMISSED" THEN None ELSE o, Stage2, Overturns(v))>> \o Settlement(v)
AppealBatches ==
    IF ExpertsDecide THEN {ResultBatch(Finding("appeal", o), o) : o \in Confirmed("appeal")}
    ELSE {DefaultBatch}

Batches(n, s) == IF s = "jury" THEN AdjudicationBatches(n) ELSE AppealBatches

-----------------------------------------------------------------------------
(* Submitting.                                                             *)

Waiting(tx) == \E n \in Node : \E i \in DOMAIN queue[n] : queue[n][i] = tx
Submit(n, batch) == queue' = [queue EXCEPT ![n] = @ \o batch]

CanDispute(d) == status # "DISPUTED" /\ \A i \in DOMAIN disputes : disputes[i] # d
CanAppeal == rulings # <<>> /\ appeals = <<>>

\* Bound: a disputer, and the appellant at each node, has one filing under way.
FileDispute(n, d) ==
    /\ CanDispute(d)
    /\ ~Waiting(Dispute(d))
    /\ Submit(n, <<Dispute(d), Summons("jury", JuryOf[d])>>)
    /\ UNCHANGED <<pool, pending, board, chain, row, bounds>>

FileAppeal(n) ==
    /\ CanAppeal
    /\ \A i \in DOMAIN queue[n] : queue[n][i] # Appeal("PARTY")
    /\ Submit(n, <<Appeal("PARTY"), Summons("appeal", Seats(n))>>)
    /\ UNCHANGED <<pool, pending, board, chain, row, bounds>>

RevealUnasked(s, p, v) ==
    /\ s \notin closed
    /\ cast[s][p] = None /\ votes[s][p] = None
    /\ cast' = [cast EXCEPT ![s][p] = v]
    /\ UNCHANGED <<pool, queue, pending, closed, votes, chain, row, bounds>>

\* The vote's commitment has been committed; this is its reveal.
Reveal(s, p, v) ==
    /\ p \in panel[s] /\ s \notin closed
    /\ cast[s][p] = None /\ votes[s][p] = None
    /\ cast' = [cast EXCEPT ![s][p] = v]
    /\ UNCHANGED <<pool, queue, pending, closed, votes, chain, row, bounds>>

LandReveal(s, p) ==
    /\ cast[s][p] # None
    /\ votes' = [votes EXCEPT ![s][p] = cast[s][p]]
    /\ cast' = [cast EXCEPT ![s][p] = None]
    /\ UNCHANGED <<pool, queue, pending, closed, chain, row, bounds>>

DeadlinePasses(s) ==
    /\ panel[s] # {} /\ s \notin closed
    /\ closed' = closed \cup {s}
    /\ UNCHANGED <<pool, queue, pending, cast, votes, chain, row, bounds>>

SupersededByAppeal(s) == rulings # <<>> \/ appeals # <<>>

Superseded(s) ==
    IF s = "appeal" THEN results # <<>> ELSE rulings # <<>> \/ appeals # <<>>

\* n leads the round that finds the deadline passed.  The entry leaves the
\* heap before the batch is built, and is not put back when it is refused.
CheckPending(n, s) ==
    /\ s \in pending[n] /\ s \in closed
    /\ pending' = [pending EXCEPT ![n] = @ \ {s}]
    /\ IF Superseded(s) THEN UNCHANGED <<queue, refusals>>
       ELSE \/ \E b \in Batches(n, s) : Submit(n, b) /\ UNCHANGED refusals
            \/ refusals < MaxRefusals /\ refusals' = refusals + 1 /\ UNCHANGED queue
    /\ UNCHANGED <<pool, board, chain, row, restarts>>

Unresolved == {s \in Stage : panel[s] # {} /\ ~Superseded(s)}

\* The mempool is on disk, the heap is not: it is rebuilt from the chain.
\* (A restart that rebuilds the same heap changes nothing.)
Restart(n) ==
    /\ restarts < MaxRestarts /\ pending[n] # Unresolved
    /\ restarts' = restarts + 1
    /\ pending' = [pending EXCEPT ![n] = Unresolved]
    /\ UNCHANGED <<pool, queue, board, chain, row, refusals>>

-----------------------------------------------------------------------------
(* Committing the transaction at the head of a mempool.                    *)

\* onTxCommitted, on every node's heap
Track(s) == pending' = [n \in Node |-> pending[n] \cup {s}]
Untrack(s) == pending' = [n \in Node |-> pending[n] \ {s}]

CommitDispute(tx) ==
    /\ tx.kind = "dispute"
    /\ IF CanDispute(tx.by)
       THEN disputes' = Append(disputes, tx.by) /\ status' = "DISPUTED"
       ELSE UNCHANGED <<disputes, status>>
    /\ UNCHANGED <<pending, panel, rulings, appeals, results, origin, settled>>

CommitSummons(tx) ==
    /\ tx.kind = "summons"
    /\ panel' = [panel EXCEPT ![tx.stage] = @ \cup tx.who]
    /\ IF tx.who = {} THEN UNCHANGED pending ELSE Track(tx.stage)
    /\ UNCHANGED <<disputes, rulings, appeals, results, row>>

Resolved == "REGISTERED"   \* _postResolutionStatus of a registered content
ApplyRuling(tx) ==
    \/ /\ tx.verdict = "UPHELD"
       /\ status' = "VERIFIED" /\ origin' = tx.confirmed
    \/ /\ \/ tx.verdict \in {"DISMISSED", "CONSERVATIVE"}
          \/ tx.verdict = "NO_QUORUM" /\ tx.terminal
       /\ status' = Resolved /\ UNCHANGED origin
    \/ /\ tx.verdict = "NO_QUORUM" /\ ~tx.terminal
       /\ UNCHANGED <<status, origin>>
AnyRuling == TRUE
FirstRuling == rulings = <<>>
CommitRuling(tx) ==
    /\ tx.kind = "ruling"
    /\ IF FirstRuling
       THEN ApplyRuling(tx) /\ rulings' = Append(rulings, tx) /\ Untrack("jury")
       ELSE UNCHANGED <<status, origin, rulings, pending>>
    /\ UNCHANGED <<disputes, panel, appeals, results, settled>>

CommitAppeal(tx) ==
    /\ tx.kind = "appeal"
    /\ IF appeals = <<>> /\ (tx.by = "SYSTEM" \/ CanAppeal)
       THEN appeals' = Append(appeals, tx.by) /\ Untrack("jury")
       ELSE UNCHANGED <<appeals, pending>>
    /\ UNCHANGED <<disputes, panel, rulings, results, row>>

ApplyResult(tx) ==
    \/ /\ tx.overturned /\ tx.stage2 = "UPHELD"
       /\ origin' = Declared /\ status' = Resolved
    \/ /\ tx.verdict = "UPHELD" /\ (tx.overturned => tx.stage2 = "DISMISSED")
       /\ origin' = tx.confirmed /\ status' = "VERIFIED"
    \/ /\ ~tx.overturned /\ tx.verdict = "DISMISSED"
       /\ status' = Resolved /\ UNCHANGED origin
    \/ /\ ~tx.overturned /\ tx.verdict = "CONSERVATIVE"
       /\ UNCHANGED <<status, origin>>
FirstResult == results = <<>>
CommitResult(tx) ==
    /\ tx.kind = "result"
    /\ IF FirstResult
       THEN ApplyResult(tx) /\ results' = Append(results, tx) /\ Untrack("appeal")
       ELSE UNCHANGED <<status, origin, results, pending>>
    /\ UNCHANGED <<disputes, panel, rulings, appeals, settled>>

\* A second SCORE_UPDATE with the same reason is refused.
CommitScore(tx) ==
    /\ tx.kind = "score"
    /\ settled' = settled \cup {tx.reason}
    /\ UNCHANGED <<pending, chain, status, origin>>

Commit(n) ==
    /\ queue[n] # <<>>
    /\ queue' = [queue EXCEPT ![n] = Tail(@)]
    /\ LET tx == Head(queue[n]) IN
           \/ CommitDispute(tx) \/ CommitSummons(tx) \/ CommitRuling(tx)
           \/ CommitAppeal(tx) \/ CommitResult(tx) \/ CommitScore(tx)
    /\ UNCHANGED <<pool, board, bounds>>

Next ==
    \/ \E n \in Desk, d \in Disputer : FileDispute(n, d)
    \/ \E n \in Desk : FileAppeal(n)
    \/ \E n \in Restarting : Restart(n)
    \/ \E n \in Node : Commit(n)
    \/ \E s \in Stage, p \in Person : \E v \in Options[p] : Reveal(s, p, v)
    \/ \E s \in Stage, p \in Person : LandReveal(s, p)
    \/ \E s \in Stage : DeadlinePasses(s)
    \/ \E n \in Node, s \in Stage : CheckPending(n, s)

Spec == Init /\ [][Next]_vars

\* Time passes, mempools are drained, and every node leads again and again.
LiveSpec ==
    /\ Spec
    /\ \A n \in Node : WF_vars(Commit(n))
    /\ \A s \in Stage : WF_vars(DeadlinePasses(s))
    /\ \A n \in Node, s \in Stage : WF_vars(CheckPending(n, s))

-----------------------------------------------------------------------------
(* Properties.                                                             *)

Reason == {"refunded", "upheld", "conservative-label", "overturned", "final"}
NamesItsOrigin(tx) == tx.verdict = "UPHELD" => tx.confirmed # None
RulingTx ==
    {tx \in [kind : {"ruling"}, verdict : {"UPHELD", "DISMISSED", "CONSERVATIVE", "NO_QUORUM"},
             confirmed : Origin \cup {None}, terminal : BOOLEAN] : NamesItsOrigin(tx)}
ResultTx ==
    {tx \in [kind : {"result"}, verdict : {"UPHELD", "DISMISSED", "CONSERVATIVE"},
             confirmed : Origin \cup {None},
             stage2 : {"UPHELD", "DISMISSED", "CONSERVATIVE", "NO_QUORUM", None},
             overturned : BOOLEAN] : NamesItsOrigin(tx)}
Transaction ==
    [kind : {"dispute"}, by : Disputer]
        \cup [kind : {"summons"}, stage : Stage, who : SUBSET Person]
        \cup [kind : {"appeal"}, by : {"SYSTEM", "PARTY"}]
        \cup [kind : {"score"}, reason : Reason]
        \cup RulingTx \cup ResultTx

\* The committed state has its shape, and nobody's vote counts who has no
\* summons: a vote is judged by the chain it is committed to.
TypeOK ==
    /\ pool \in Pools /\ queue \in [Node -> Seq(Transaction)]
    /\ pending \in [Node -> SUBSET Stage] /\ closed \subseteq Stage
    /\ cast \in [Stage -> [Person -> Vote \cup {None}]]
    /\ votes \in [Stage -> [Person -> Vote \cup {None}]]
    /\ disputes \in Seq(Disputer) /\ panel \in [Stage -> SUBSET Person]
    /\ rulings \in Seq(RulingTx) /\ results \in Seq(ResultTx)
    /\ appeals \in Seq({"SYSTEM", "PARTY"})
    /\ status \in Status /\ origin \in Origin \cup {Declared}
    /\ settled \subseteq Reason
    /\ refusals \in 0..MaxRefusals /\ restarts \in 0..MaxRestarts
    /\ \A s \in Stage, p \in Person : votes[s][p] # None => p \in panel[s]

\* The origin shown is the one the committed rulings give, read by
\* themselves: the experts' if they upheld the dispute, the declared one if
\* they cleared what the jury upheld, else the jury's (commit-handler.js
\* ADJUDICATION_RESULT and APPEAL_RESULT, whatever the race between nodes).
Ruled ==
    IF rulings # <<>> /\ Head(rulings).verdict = "UPHELD" THEN Head(rulings).confirmed
    ELSE Declared
LabelIsRuled ==
    origin = IF results = <<>> THEN Ruled
             ELSE IF Head(results).verdict = "UPHELD" THEN Head(results).confirmed
             ELSE IF Head(results).overturned THEN Declared ELSE Ruled

\* A content stays parked as disputed only while a ruling is on its way: its
\* jury has not ruled, or it did not decide and the experts have not; and who
\* has to rule sits, or is called by what waits in a mempool.  Three cases are
\* not covered by the code and are set aside by name; in the last the selection
\* found nobody, of which dispute-service.js:188 only warns.
LabelAfterNoQuorum ==
    results # <<>> /\ Stage2 = "NO_QUORUM" /\ Head(results).verdict = "CONSERVATIVE"
DisputedAgain == Len(disputes) > 1
NoJuror == disputes # <<>> /\ JuryOf[Head(disputes)] = {}
RulingAwaited ==
    \/ /\ rulings = <<>>
       /\ panel["jury"] # {} \/ Waiting(Summons("jury", JuryOf[Head(disputes)]))
    \/ /\ Stage2 = "NO_QUORUM" /\ ~Head(rulings).terminal /\ results = <<>>
       /\ \/ panel["appeal"] # {}
          \/ \E n \in Node : Seats(n) # {} /\ Waiting(Summons("appeal", Seats(n)))
ParkedAwaitsRuling ==
    status = "DISPUTED" => RulingAwaited \/ LabelAfterNoQuorum \/ DisputedAgain \/ NoJuror

\* A summoned jury's case is ruled on, and an appeal the system files by
\* itself gets its result, although a node tries each deadline only once: with
\* fewer refusals than nodes another leader still has the entry
\* (verdict-trigger.js checkPending).
RulingsCome ==
    []<>(/\ panel["jury"] # {} => rulings # <<>>
         /\ appeals = <<"SYSTEM">> => results # <<>>)

\* Of the batches that rival leaders submit for one case, only one has effects
\* (jury.js, buildAdjudicationBatch): the jury stage settles the disputer once.
SettledOnce == Cardinality(settled \cap {"refunded", "upheld", "conservative-label"}) <= 1
=============================================================================
