------------------------------ MODULE Rotation ------------------------------
(***************************************************************************)
(* How the committee is replaced once per epoch: the boundary check of     *)
(* consensus/bullshark.js, the committee computed by participants.js, the  *)
(* signatures collected by rotation-coordinator.js, and the test the       *)
(* rotation passes when its transaction is committed (business-rules.js).  *)
(*                                                                         *)
(* The order of anchors is what Bullshark provides: one sequence, which    *)
(* nodes go through at their own pace.  Rounds and epochs are counted in   *)
(* anchors.  A payload hash is the payload.                                *)
(***************************************************************************)
EXTENDS QuorumMath, Sequences, FiniteSetsExt

CONSTANTS
    Node,        \* numbers: leaders take turns in their order
    Genesis,     \* the genesis committee
    Walks,       \* the sets of nodes an anchor may find certificates or acks of
    Lead,        \* ROTATION_ACTIVATION_LEAD_ROUNDS
    EpochLen,    \* anchors per epoch
    SliceLen,    \* anchors per slice of an epoch (EPOCH_PARTICIPATION_BUCKETS)
    Percent,     \* COMMITTEE_ROTATION_PARTICIPATION_PCT_OF_INTERVAL
    Refusers,    \* the nodes whose mempool may refuse a transaction
    MaxAnchor    \* bound on the anchors

ASSUME NodesAreNumbers == Node \subseteq Nat /\ IsFiniteSet(Node)
ASSUME GenesisIsKnown == Genesis \subseteq Node /\ Genesis # {}
ASSUME WalksAreNodes == Walks \subseteq SUBSET Node
ASSUME NumbersArePositive ==
    /\ Lead \in Nat /\ MaxAnchor \in Nat /\ Percent \in Nat
    /\ EpochLen \in Nat \ {0} /\ SliceLen \in Nat \ {0}
ASSUME RefusersAreNodes == Refusers \subseteq Node

VARIABLES
    walked,      \* the anchors in order, each with the nodes it credits
    rows,        \* committee_history as the whole order gives it, from rotation 0
    done,        \* done[n]: the anchors n has committed
    flights,     \* flights[n]: _inFlight
    proposals,   \* RotationProposal messages sent
    signatures,  \* RotationSignature messages sent
    pool         \* COMMITTEE_ROTATION transactions in mempools and batches

vars == <<walked, rows, done, flights, proposals, signatures, pool>>

\* Rotation k is row k + 1.
Row0 == [committee |-> Genesis, effective |-> 0, anchor |-> 0]

Init ==
    /\ walked = <<>> /\ rows = <<Row0>>
    /\ done = [n \in Node |-> 0] /\ flights = [n \in Node |-> {}]
    /\ proposals = {} /\ signatures = {} /\ pool = {}
----------------------------------------------------------------------------
\* epochIndexOfTime, and _participationBucket within an epoch.
Epoch(a) == a \div EpochLen
Slice(a) == (a % EpochLen) \div SliceLen

\* getCommitteeAtRound: of the first len rows, the last one in force at a.
InForce(len, a) == Max({i \in 1..len : rows[i].effective <= a})
CommitteeAt(len, a) == rows[InForce(len, a)].committee

\* getActiveCommittee and _getLeader.
LeaderOf(len, a) ==
    LET C == CommitteeAt(len, a) IN
    CHOOSE n \in C : Cardinality({m \in C : m < n}) = a % Cardinality(C)

\* What n has of committee_history: the rows of the anchors it has committed.
Known(n) == Max({i \in 1..Len(rows) : rows[i].anchor <= done[n]})

\* incrementRotationParticipation, as of anchor a: the slices in which n was
\* credited to the rotation of row i.
Presence(n, i, len, a) ==
    Cardinality({Slice(b) : b \in {c \in 1..a : n \in walked[c] /\ InForce(len, c) = i}})

\* computeNextRotationCommittee, closing the rotation of the last row.
NextCommittee(len, a) ==
    LET Tally(n) == Presence(n, len, len, a)
        best == Max({Tally(n) : n \in Node})
        threshold == Max({1, (best * Percent + 99) \div 100})
    IN  IF Cardinality(rows[len].committee) <= 1 THEN Node
        ELSE Genesis \cup {n \in Node : Tally(n) >= threshold}

\* _maybeProposeCommitteeRotation: what the leader of anchor a proposes.
Payload(len, a) ==
    [number |-> len, committee |-> NextCommittee(len, a),
     effective |-> Max({a + Lead, rows[len].effective + 1})]

\* The formula before computeQuorum: 2f + 1.
QuorumOfThirds(k) == 2 * ((Cardinality(rows[k].committee) - 1) \div 3) + 1
Quorum(k) == ComputeQuorum(Cardinality(rows[k].committee))

Flight(n, k) == {f \in flights[n] : f.payload.number = k}
EveryFlight(n, k) == flights[n]
Others(n, k) == flights[n] \ Flight(n, k)

\* buildRotationTx
Tx(f) == [payload |-> f.payload, sigs |-> f.sigs]

\* Whether submitTx succeeds.
Outcomes(n) == IF n \in Refusers THEN BOOLEAN ELSE {TRUE}

\* _maybeSubmit, and what becomes of the flight.  A refused transaction
\* leaves it as it was.
Submits(f) == ~f.submitted /\ Cardinality({s.by : s \in f.sigs}) >= Quorum(f.payload.number)
Launch(n, f, taken) ==
    LET goes == Submits(f) /\ taken
    IN  /\ flights' = [flights EXCEPT ![n] = Others(n, f.payload.number) \cup
                                      {[f EXCEPT !.submitted = @ \/ goes]}]
        /\ pool' = IF goes THEN pool \cup {Tx(f)} ELSE pool

Sig(n, payload) == [by |-> n, over |-> payload]

\* proposeRotation: signatures are kept only if the payload is the same.
Propose(n, payload, taken) ==
    LET open == Flight(n, payload.number)
        fresh == [payload |-> payload, proposer |-> n, submitted |-> FALSE,
                  sigs |-> {Sig(n, payload)}]
    IN  \/ /\ \E f \in open : f.submitted
           /\ UNCHANGED <<flights, proposals, pool>>
        \/ /\ \E f \in open : ~f.submitted /\ f.payload = payload /\ Launch(n, f, taken)
           /\ UNCHANGED proposals
        \/ /\ \A f \in open : ~f.submitted /\ f.payload # payload
           /\ Launch(n, fresh, taken)
           /\ proposals' = proposals \cup {Sig(n, payload)}

AtEveryAnchor(len, a) == Epoch(a) >= Epoch(rows[len].anchor)

\* An anchor of a later epoch than the one the latest rotation was committed in.
AtBoundary(len, a) == Epoch(a) > Epoch(rows[len].anchor)

\* One anchor is committed by n: the boundary check, made by the leader only,
\* comes before the transactions of the anchor are applied.
CommitAnchor(n, taken) ==
    LET a == done[n] + 1
        len == Known(n)
    IN  /\ a <= Len(walked)
        /\ done' = [done EXCEPT ![n] = a]
        /\ IF AtBoundary(len, a) /\ LeaderOf(len, a) = n
           THEN Propose(n, Payload(len, a), taken)
           ELSE UNCHANGED <<flights, proposals, pool>>
        /\ UNCHANGED <<walked, rows, signatures>>
----------------------------------------------------------------------------
MergedUnseen(f, p) == [f EXCEPT !.sigs = @ \cup {p}]

\* What _onProposal does with the proposer's signature.
Merged(f, p) ==
    IF f.payload = p.over /\ \A s \in f.sigs : s.by # p.by
    THEN [f EXCEPT !.sigs = @ \cup {p}] ELSE f

\* _onProposal.  What the node signs is the proposal, and it files the
\* signature in the flight it has.
OnProposal(n, p, taken) ==
    LET k == p.over.number
        mine == Sig(n, p.over)
        first == [payload |-> p.over, proposer |-> p.by, submitted |-> FALSE, sigs |-> {p}]
        open == Flight(n, k)
    IN  /\ k = Known(n)
        /\ \A f \in open : ~f.submitted
        /\ p.by \in rows[k].committee
        /\ \E f \in IF open = {} THEN {first} ELSE open :
            LET merged == Merged(f, p)
                signs == n \in rows[k].committee /\ \A s \in merged.sigs : s.by # n
            IN  IF signs
                THEN /\ Launch(n, [merged EXCEPT !.sigs = @ \cup {mine}], taken)
                     /\ signatures' = signatures \cup {mine}
                ELSE Launch(n, merged, taken) /\ UNCHANGED signatures
        /\ UNCHANGED <<walked, rows, done, proposals>>

\* What _onSignature and _mergePulledSig add to a flight.
Accepts(f, s) ==
    /\ ~f.submitted /\ f.payload = s.over
    /\ s.by \in rows[f.payload.number].committee
    /\ \A t \in f.sigs : t.by # s.by

\* _onSignature
OnSignature(n, s, taken) ==
    /\ \E f \in Flight(n, s.over.number) :
        Accepts(f, s) /\ Launch(n, [f EXCEPT !.sigs = @ \cup {s}], taken)
    /\ UNCHANGED <<walked, rows, done, proposals, signatures>>

\* _rebroadcastTick: the proposal was sent before, the signatures of others
\* may not have been, as signatures.
Rebroadcast(n) ==
    /\ signatures' = signatures \cup
           UNION {{s \in f.sigs : s.by # f.proposer} : f \in flights[n]}
    /\ UNCHANGED <<walked, rows, done, flights, proposals, pool>>

\* pruneExpired, at a deadline the model leaves open.
Expire(n, f) ==
    /\ f \in flights[n]
    /\ flights' = [flights EXCEPT ![n] = @ \ {f}]
    /\ UNCHANGED <<walked, rows, done, proposals, signatures, pool>>

\* A snapshot is installed: n skips to anchor a and resetInflight is called.
Install(n, a) ==
    /\ a > done[n] /\ a <= Len(walked)
    /\ done' = [done EXCEPT ![n] = a]
    /\ flights' = [flights EXCEPT ![n] = {}]
    /\ UNCHANGED <<walked, rows, proposals, signatures, pool>>

\* requestTxRepair: a peer that holds the transaction sends it, and it goes to
\* the mempool with the signatures that count ...
Countable(tx) ==
    {s \in tx.sigs : s.over = tx.payload /\ s.by \in rows[tx.payload.number].committee}
FetchTx(n, tx) ==
    LET k == tx.payload.number IN
    /\ k = Known(n)
    /\ \A f \in Flight(n, k) : ~f.submitted
    /\ Cardinality(Countable(tx)) >= Quorum(k)
    /\ pool' = pool \cup {[tx EXCEPT !.sigs = Countable(tx)]}
    /\ flights' = [flights EXCEPT ![n] =
                      {IF f \in Flight(n, k) THEN [f EXCEPT !.submitted = TRUE] ELSE f :
                          f \in flights[n]}]
    /\ UNCHANGED <<walked, rows, done, proposals, signatures>>

\* ... one that does not sends the signatures it has for the same payload.
PullSignature(n, m, s, taken) ==
    /\ \E g \in flights[m] : s \in g.sigs /\ g.payload = s.over
    /\ s.over.number = Known(n)
    /\ \E f \in Flight(n, Known(n)) :
        Accepts(f, s) /\ Launch(n, [f EXCEPT !.sigs = @ \cup {s}], taken)
    /\ UNCHANGED <<walked, rows, done, proposals, signatures>>
----------------------------------------------------------------------------
CanRotateLate(tx, a) ==
    LET p == tx.payload
        k == Len(rows)
    IN  /\ p.number = k
        /\ p.committee # {}
        /\ p.effective > rows[k].effective
        /\ Cardinality({s.by : s \in Countable(tx)}) >= Quorum(k)

CanRotateAtOnce(tx, a) ==
    LET p == tx.payload
        k == Len(rows)
    IN  /\ p.number = k
        /\ p.committee # {}
        /\ p.effective > rows[k].effective
        /\ p.effective >= a
        /\ Cardinality({s.by : s \in Countable(tx)}) >= Quorum(k)

\* canCommitteeRotation, for a transaction of anchor a.
CanRotate(tx, a) ==
    LET p == tx.payload
        k == Len(rows)
    IN  /\ p.number = k
        /\ p.committee # {}
        /\ p.effective > rows[k].effective
        /\ p.effective > a
        /\ Cardinality({s.by : s \in Countable(tx)}) >= Quorum(k)

\* Consensus decides the next anchor, whose certificates hold the transactions
\* in batch; all nodes will accept the same one of them.
Order(walk, batch) ==
    LET a == Len(walked) + 1
        good == {tx \in batch : CanRotate(tx, a)}
    IN  /\ a <= MaxAnchor
        /\ walked' = Append(walked, walk)
        /\ IF good = {} THEN UNCHANGED rows
           ELSE \E tx \in good :
               rows' = Append(rows, [committee |-> tx.payload.committee,
                                     effective |-> tx.payload.effective, anchor |-> a])
        /\ UNCHANGED <<done, flights, proposals, signatures, pool>>

Next ==
    \/ \E walk \in Walks, batch \in SUBSET pool : Order(walk, batch)
    \/ \E n \in Node :
        \/ \E taken \in Outcomes(n) : CommitAnchor(n, taken)
        \/ \E p \in proposals, taken \in Outcomes(n) : OnProposal(n, p, taken)
        \/ \E s \in signatures, taken \in Outcomes(n) : OnSignature(n, s, taken)
        \/ Rebroadcast(n)
        \/ \E f \in flights[n] : Expire(n, f)
        \/ \E a \in 1..MaxAnchor : Install(n, a)
        \/ \E tx \in pool : FetchTx(n, tx)
        \/ \E m \in Node : \E g \in flights[m] : \E s \in g.sigs, taken \in Outcomes(n) :
               PullSignature(n, m, s, taken)

Spec == Init /\ [][Next]_vars
----------------------------------------------------------------------------
Numbers == 1..MaxAnchor + 1
Payloads == [number : Numbers, committee : SUBSET Node, effective : Nat]
Signatures == [by : Node, over : Payloads]
Flights == [payload : Payloads, proposer : Node, submitted : BOOLEAN,
            sigs : SUBSET Signatures]
Rows == [committee : SUBSET Node, effective : Nat, anchor : Nat]
Txs == [payload : Payloads, sigs : SUBSET Signatures]

\* The state has its shape: a node holds one aggregation per rotation number
\* and has committed no anchor that was not decided.
TypeOK ==
    /\ walked \in Seq(SUBSET Node)
    /\ rows \in Seq(Rows) /\ Len(rows) \in Numbers /\ rows[1] = Row0
    /\ done \in [Node -> 0..Len(walked)] /\ Len(walked) <= MaxAnchor
    /\ flights \in [Node -> SUBSET Flights]
    /\ \A n \in Node : \A f, g \in flights[n] :
           f.payload.number = g.payload.number => f = g
    /\ proposals \subseteq Signatures /\ signatures \subseteq Signatures
    /\ pool \subseteq Txs

\* Every committee after genesis was signed for by a quorum of the one before
\* it, each signature by its owner's own step and over this very payload:
\* canCommitteeRotation, against signatures merged, pulled and rebroadcast.
PayloadOf(i) ==
    [number |-> i - 1, committee |-> rows[i].committee, effective |-> rows[i].effective]
Endorsers(i) ==
    {n \in rows[i - 1].committee : Sig(n, PayloadOf(i)) \in proposals \cup signatures}
Endorsed ==
    \A i \in 2..Len(rows) :
        Cardinality(Endorsers(i)) >= ComputeQuorum(Cardinality(rows[i - 1].committee))

\* A node files its signature in the flight it has, without comparing hashes
\* again: no flight ever holds a signature over another payload, so that what
\* is counted up to the quorum is what the commit will count.
SigsMatch ==
    \A n \in Node : \A f \in flights[n] : \A s \in f.sigs : s.over = f.payload

\* However far behind, a node finds for the next anchor it commits, and for
\* those before, the committee the whole order gives: the leader and the
\* quorum it uses are those of the nodes ahead.
NextAnchorAgreed ==
    \A n \in Node : \A a \in 0..done[n] + 1 :
        CommitteeAt(Known(n), a) = CommitteeAt(Len(rows), a)

\* A rotation never changes the committee of a round already decided:
\* canCommitteeRotation against a rotation committed late.
CommitteeNow(a) == CommitteeAt(Len(rows), a)
PastFixed == [][\A a \in 0..Len(walked') : CommitteeNow(a)' = CommitteeNow(a)]_vars

\* At most one rotation in an epoch, although the boundary fires again at
\* every anchor and old transactions stay in the mempools.
OnePerEpoch ==
    \A i \in 2..Len(rows) : Epoch(rows[i].anchor) > Epoch(rows[i - 1].anchor)
----------------------------------------------------------------------------
=============================================================================
