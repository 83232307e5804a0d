----------------------------- MODULE Bullshark -----------------------------
(***************************************************************************)
(* consensus/bullshark.js: how each node turns its copy of the certificate *)
(* DAG into an ordered log.  Rounds go in pairs; the certificate the       *)
(* leader of a pair made in its odd round is committed when a quorum of    *)
(* the even round's certificates cite it, and everything it reaches that   *)
(* is not yet ordered goes into the log with it.                           *)
(*                                                                         *)
(* The DAG of the network is a constant; nodes differ in how much of it    *)
(* they hold.  Inside one commit the code sorts by round and author, which *)
(* is the same everywhere, so an entry of the log is a set.                *)
(***************************************************************************)
EXTENDS QuorumMath, Sequences

CONSTANTS
    Node,           \* the nodes whose logs are compared
    Committee,      \* the authors of certificates, in leader order (a sequence)
    Cert,           \* the certificates of the network
    Author, Round, Parents,
    Past,           \* Past[c]: everything c descends from
    Stamp,          \* cert.timestamp: the median of the acknowledgers' clocks
    Loaded,         \* the certificates with a transaction in their batch
    Reordering,     \* nodes that may get a certificate before its parents
    Lagging,        \* nodes whose round peers' batches may move ahead
    PullsFrom,      \* the first rounds sync may ask a peer for; {}: no sync
    Restarting,     \* nodes that may restart
    ApplyOutcomes,  \* whether onOrderedTxs returns: {TRUE}, or BOOLEAN
    MaxIndex        \* bound on _consensusIndex

ASSUME CommitteeIsKnown == Len(Committee) \in Nat \ {0}
ASSUME GraphIsTyped ==
    /\ Round \in [Cert -> Nat \ {0}] /\ Stamp \in [Cert -> Nat \ {0}]
    /\ Parents \in [Cert -> SUBSET Cert] /\ Loaded \subseteq Cert
ASSUME ParentsAreOneRoundOlder ==
    \A c \in Cert : \A p \in Parents[c] : Round[c] = Round[p] + 1
ASSUME PastIsAncestry ==
    \A c \in Cert : Past[c] = Parents[c] \cup UNION {Past[p] : p \in Parents[c]}
ASSUME OneCertificatePerAuthorAndRound ==
    \A c, d \in Cert : Author[c] = Author[d] /\ Round[c] = Round[d] => c = d

VARIABLE bs   \* bs[n]: the state of node n, a record

vars == bs

ASSUME ThereIsALastRound == \E c \in Cert : \A d \in Cert : Round[d] <= Round[c]
ASSUME OutcomesAreBoolean == ApplyOutcomes \subseteq BOOLEAN

\* What a peer may hold: certificates with their whole ancestry.
Holdings == {D \in SUBSET Cert : \A c \in D : Parents[c] \subseteq D}

Rounds == {Round[c] : c \in Cert}
Nothing == [round |-> 0, missing |-> {}]

Fresh == [dag     |-> {},        \* certificates in the store
          round   |-> 1,         \* Narwhal's _currentRound
          heard   |-> {},        \* Narwhal's _roundCertificates
          ordered |-> {},        \* _orderedCertHashes
          last    |-> 0,         \* _lastCommittedRound
          index   |-> 0,         \* _consensusIndex, persisted
          floor   |-> 0,         \* _lastAnchorTimestamp
          pending |-> Nothing,   \* _pendingAnchorCommit
          storing |-> <<>>,      \* saved, Narwhal's part still due (a call stack)
          upto    |-> 0,         \* the round a running sync will call driveCommit with
          driving |-> 0,         \* the round driveCommit is at
          log     |-> <<>>,      \* what was handed on, commit by commit
          jumped  |-> {},        \* anchors in reach when a round was skipped (history)
          boots   |-> {}]        \* how long the log was at each restart (history)

Init == bs = [n \in Node |-> Fresh]
----------------------------------------------------------------------------
Quorum == ComputeQuorum(Len(Committee))

\* _getLeader: the leader rotates once per pair of rounds.
Leader(r) == Committee[(((r - 1) \div 2) % Len(Committee)) + 1]

LatestRound(D) == CHOOSE r \in {0} \cup {Round[c] : c \in D} : \A c \in D : Round[c] <= r

\* The leader's certificate for vote round v, if a quorum of what the node
\* holds of round v cites it.
Supported(s, v) ==
    {a \in s.dag : /\ Round[a] = v - 1 /\ Author[a] = Leader(v - 1)
                   /\ Cardinality({x \in s.dag : Round[x] = v /\ a \in Parents[x]}) >= Quorum}

\* The clock gate: an anchor must be later than the one before it.
Committable(s, v) == {a \in Supported(s, v) : Stamp[a] > s.floor}

\* What a reaches through the certificates of a set: all it descends from,
\* unless part of that is cut off.
Reach(new, a) ==
    LET held == ({a} \cup Past[a]) \cap new
        Closed == {S \in SUBSET held :
                      a \in S /\ \A c \in S : Parents[c] \cap held \subseteq S}
    IN  IF a \notin new THEN {}
        ELSE IF \A c \in held \ {a} : \E d \in held : c \in Parents[d] THEN held
        ELSE {c \in held : \A S \in Closed : c \in S}

\* _walkAnchoredCertChain: what the node holds and has not ordered.
WalkBroken(s, a) == Reach(s.dag, a)
WalkByRound(s, a) == {c \in s.dag \ s.ordered : Round[c] <= Round[a]}
WalkShallow(s, a) == (({a} \cup Parents[a]) \cap s.dag) \ s.ordered
Walk(s, a) == Reach(s.dag \ s.ordered, a)

\* The walked certificates are marked before their transactions are applied.
\* If applying throws, everything after it is skipped.
Commit(s, v, a, walk, applies) ==
    LET marked == [s EXCEPT !.ordered = @ \cup walk,
                            !.pending = IF @.round = v THEN Nothing ELSE @]
    IN  IF applies \/ walk \cap Loaded = {}
        THEN [marked EXCEPT !.last = v, !.floor = Stamp[a],
                 !.log = Append(@, [anchor |-> a, certs |-> walk, index |-> s.index])]
        ELSE marked

\* _checkAnchorCommit.  The index ticks before it is known whether the
\* commit will park, and a second incomplete commit is not parked.
Check(s, v, applies) ==
    IF Committable(s, v) = {} THEN s
    ELSE LET a == CHOOSE a \in Committable(s, v) : TRUE
             walk == Walk(s, a)
             missing == (UNION {Parents[c] : c \in walk}) \ s.dag
             ticked == [s EXCEPT !.index = @ + 1]
         IN  IF missing # {} /\ s.pending = Nothing
             THEN [ticked EXCEPT !.pending = [round |-> v, missing |-> missing]]
             ELSE Commit(ticked, v, a, walk, applies)

\* onRoundComplete
RoundComplete(s, v, applies) ==
    IF v > s.last /\ v % 2 = 0 THEN Check(s, v, applies) ELSE s

\* onCertSaved: a parked commit that was waiting for c only is checked again,
\* even if a later round has been committed since.
CertSaved(s, c, applies) ==
    LET missing == s.pending.missing \ {c}
    IN  IF c \notin s.pending.missing THEN s
        ELSE IF missing # {} THEN [s EXCEPT !.pending.missing = missing]
        ELSE Check([s EXCEPT !.pending = Nothing], s.pending.round, applies)

\* What Narwhal does next: a certificate of the current round may complete
\* it, one of an earlier round has its vote round checked again.  Narwhal
\* drops the certificates it heard when the next round begins, a little later
\* than here; until then its round could only move sooner, as FastForward does.
VoteRound(c) == IF Round[c] % 2 = 0 THEN Round[c] ELSE Round[c] + 1

Heard(s, certs, applies) ==
    IF Cardinality(certs) < Quorum THEN [s EXCEPT !.heard = certs]
    ELSE [RoundComplete(s, s.round, applies) EXCEPT !.round = @ + 1, !.heard = {}]

HeardBroken(s, c, applies) ==      \* remembers the author
    Heard(s, s.heard \cup {Author[c]}, applies)
HeardCert(s, c, applies) == Heard(s, s.heard \cup {c}, applies)

NotifyBroken(s, c, applies) ==      \* no check again for a late certificate
    IF Round[c] = s.round THEN HeardCert(s, c, applies) ELSE s
Notify(s, c, applies) ==
    IF Round[c] = s.round THEN HeardCert(s, c, applies)
    ELSE IF Round[c] < s.round THEN RoundComplete(s, VoteRound(c), applies)
    ELSE s
----------------------------------------------------------------------------
Becomes(n, s) == s.index <= MaxIndex /\ bs' = [bs EXCEPT ![n] = s]

\* No other handler runs while certificates are being stored or driveCommit
\* goes through the rounds.
Idle(n) == bs[n].storing = <<>> /\ bs[n].driving = 0

\* _saveCertAndNotify.  CertWaiter holds a certificate back until the node has
\* its parents.
StoreBroken(n, c, applies) ==      \* released by the first parent that lands
    /\ c \notin bs[n].dag /\ (Parents[c] = {} \/ Parents[c] \cap bs[n].dag # {})
    /\ Becomes(n, CertSaved([bs[n] EXCEPT !.dag = @ \cup {c}, !.storing = <<c>> \o @],
                            c, applies))
Store(n, c, applies) ==
    /\ c \notin bs[n].dag /\ Parents[c] \subseteq bs[n].dag
    /\ Becomes(n, CertSaved([bs[n] EXCEPT !.dag = @ \cup {c}, !.storing = <<c>> \o @],
                            c, applies))

\* A certificate arrives by gossip.
Save(n, c, applies) == Idle(n) /\ Store(n, c, applies)

\* _flushPendingForParent: before Narwhal has dealt with a certificate, those
\* that were parked on it are stored and dealt with.
Flush(n, c, applies) ==
    /\ n \in Reordering /\ bs[n].storing # <<>> /\ Head(bs[n].storing) \in Parents[c]
    /\ Store(n, c, applies)

\* The rest of _processVerifiedCertificate.
Finish(n, applies) ==
    /\ bs[n].storing # <<>>
    /\ Becomes(n, [Notify(bs[n], Head(bs[n].storing), applies) EXCEPT !.storing = Tail(@)])

\* The retry timer, and reconcileCurrentRound after a sync: the certificates
\* of the current round are counted again from the store.
Reconcile(n, applies) ==
    LET s == bs[n]
    IN  /\ Idle(n)
        /\ Becomes(n, Heard(s, {c \in s.dag : Round[c] = s.round}, applies))

\* The anchor whose votes of round v a node holds, v being a vote round.
InReach(s, v) == IF v % 2 = 0 THEN Supported(s, v) ELSE {}

\* A peer's batch of a later round, which follows a round with certificates:
\* what the node heard of its own is dropped, and Bullshark is not asked.
FastForward(n, r) ==
    LET s == bs[n]
    IN  /\ n \in Lagging /\ Idle(n) /\ r > s.round
        /\ bs' = [bs EXCEPT ![n].round = r, ![n].heard = {},
               ![n].jumped = @ \cup UNION {InReach(s, v) : v \in s.round .. (r - 1)}]

\* Sync writes a peer's certificates from a round on straight to the store:
\* onCertSaved is not called.  driveCommit follows, after an await.
Pull(n, held, from) ==
    /\ from \in PullsFrom /\ Idle(n) /\ bs[n].upto = 0
    /\ bs' = [bs EXCEPT ![n].dag = @ \cup {c \in held : Round[c] >= from},
                        ![n].upto = LatestRound(held)]

\* driveCommit: every round past the frontier, up to the peer's latest.
StartDrive(n) ==
    /\ Idle(n) /\ bs[n].upto > 0
    /\ bs' = [bs EXCEPT ![n].driving = bs[n].last + 1]

Drive(n, applies) ==
    LET s == bs[n]
    IN  /\ s.driving > 0
        /\ IF s.driving > s.upto
           THEN bs' = [bs EXCEPT ![n].upto = 0, ![n].driving = 0]
           ELSE Becomes(n, [RoundComplete(s, s.driving, applies) EXCEPT !.driving = @ + 1])

\* The timer of a parked commit drops it and asks for a snapshot, which the
\* model does not install.
TimerFires(n) ==
    /\ Idle(n) /\ bs[n].pending # Nothing
    /\ bs' = [bs EXCEPT ![n].pending = Nothing]

\* A row of the commits table is written for a commit with transactions.
HasRow(s, i) == s.log[i].certs \cap Loaded # {}

FloorBroken(s) == 0         \* not read back

\* The floor createBullshark starts from: the stamp in the row that
\* getLatestCommit finds, which is the one of the latest round.
PersistedFloor(s) ==
    LET rows == {i \in DOMAIN s.log : HasRow(s, i)}
    IN  IF rows = {} THEN 0
        ELSE Stamp[s.log[CHOOSE i \in rows : \A j \in rows :
                            Round[s.log[j].anchor] <= Round[s.log[i].anchor]].anchor]

\* createBullshark and _initFromDAG: all the store holds counts as ordered, and
\* the frontier starts at its latest round.
From(s, frontier) ==
    [s EXCEPT !.round = LatestRound(s.dag) + 1, !.heard = {}, !.pending = Nothing, !.upto = 0,
              !.storing = <<>>, !.driving = 0, !.ordered = s.dag, !.last = frontier,
              !.floor = PersistedFloor(s), !.boots = @ \cup {Len(s.log)}]
RestartedBroken(s) == From(s, 0)
Restarted(s) == From(s, LatestRound(s.dag))

Restart(n) ==
    /\ n \in Restarting
    /\ bs' = [bs EXCEPT ![n] = Restarted(@)]

Next ==
    \E n \in Node :
        \/ \E c \in Cert, ok \in ApplyOutcomes : Save(n, c, ok) \/ Flush(n, c, ok)
        \/ \E ok \in ApplyOutcomes : Finish(n, ok)
        \/ \E ok \in ApplyOutcomes : Reconcile(n, ok)
        \/ \E r \in Rounds : FastForward(n, r + 1)
        \/ \E held \in Holdings \ {{}}, from \in PullsFrom : Pull(n, held, from)
        \/ StartDrive(n)
        \/ \E ok \in ApplyOutcomes : Drive(n, ok)
        \/ TimerFires(n)
        \/ Restart(n)

Spec == Init /\ [][Next]_vars
----------------------------------------------------------------------------
(***************************************************************************)
(* Properties.                                                             *)
(***************************************************************************)
Log(n) == bs[n].log
UpTo(log, i) == UNION {log[j].certs : j \in 1 .. i}
Output(n) == UpTo(Log(n), Len(Log(n)))

Entries == [anchor : Cert, certs : SUBSET Cert, index : Nat]
States ==
    [dag : SUBSET Cert, round : Nat, heard : SUBSET Cert, ordered : SUBSET Cert,
     last : Nat, index : Nat, floor : Nat,
     pending : [round : Nat, missing : SUBSET Cert],
     storing : Seq(Cert), upto : Nat, driving : Nat, log : Seq(Entries),
     jumped : SUBSET Cert, boots : SUBSET Nat]

TypeOK == bs \in [Node -> States]

\* No certificate is handed on twice, whatever pulls, parked commits, failed
\* applications and restarts come in between (_orderedCertHashes).
OrderedOnce ==
    \A n \in Node : \A i, j \in DOMAIN Log(n) :
        i # j => Log(n)[i].certs \cap Log(n)[j].certs = {}

\* A certificate is never handed on in an earlier commit than one it builds
\* on: the walk of _walkAnchoredCertChain leaves nothing behind.
CausalOrder ==
    \A n \in Node : \A i \in DOMAIN Log(n) :
        UNION {Parents[c] : c \in Log(n)[i].certs} \subseteq UpTo(Log(n), i)

\* Two nodes that have committed the same anchors have handed on the same
\* certificates, commit by commit, however different the DAGs they hold.
SameAnchorsSameOutput ==
    \A n, m \in Node : \A k \in 0 .. Len(Log(n)) :
        /\ k <= Len(Log(m))
        /\ \A i \in 1 .. k : Log(n)[i].anchor = Log(m)[i].anchor
        => \A i \in 1 .. k : Log(n)[i].certs = Log(m)[i].certs

\* With gossip alone no commit parks: the certificate waiter has put the whole
\* ancestry of an anchor in the store before the anchor itself.
NoCommitParks == \A n \in Node : bs[n].pending = Nothing

\* No anchor is committed a second time, although the frontier may go back: a
\* parked commit is retried after later rounds were committed (onCertSaved does
\* not compare its round with _lastCommittedRound), and those rounds are then
\* checked again.  Across restarts too, when the floor may be lost.
EachAnchorOnce ==
    \A n \in Node : \A i, j \in DOMAIN Log(n) :
        i # j => Log(n)[i].anchor # Log(n)[j].anchor

\* Does commit i outlive a restart?  It has a row, and no row before it has a
\* later round, which getLatestCommit would prefer.
Remembered(s, i) ==
    /\ HasRow(s, i)
    /\ \A k \in 1 .. (i - 1) :
          HasRow(s, k) => Round[s.log[k].anchor] < Round[s.log[i].anchor]

\* The clock of the log: each anchor is later than all that were committed
\* before it, parked commits retried late included, but for what a restart in
\* between forgot (the BFT-Time gate of _checkAnchorCommit and the floor
\* createBullshark reads back).
TimeAdvances ==
    \A n \in Node : \A i, j \in DOMAIN Log(n) :
        /\ i < j
        /\ Remembered(bs[n], i) \/ \A b \in bs[n].boots : b < i \/ j <= b
        => Stamp[Log(n)[i].anchor] < Stamp[Log(n)[j].anchor]

\* x is handed on before y by n: in an earlier commit, or in the same one and
\* earlier in its order, by round and then author.
Before(n, x, y) ==
    \E i, j \in DOMAIN Log(n) :
        /\ x \in Log(n)[i].certs /\ y \in Log(n)[j].certs
        /\ i < j \/ (i = j /\ Round[x] < Round[y])

\* Nodes never hand two certificates on in opposite orders.
AgreeOnOrder ==
    \A n, m \in Node : \A x, y \in Cert : ~(Before(n, x, y) /\ Before(m, y, x))

\* However late the votes of an anchor came and in whatever order they were
\* stored: a node past the vote round that holds a quorum of votes has handed
\* the anchor on.  Three things pass one over for good: a commit of a later
\* anchor, the clock gate, and a jump over the vote round once the votes are
\* there, which asks Bullshark nothing (narwhal.js, handleIncomingBatch).
AnchorsAreOrdered ==
    \A n \in Node : Idle(n) =>
        \A v \in 1 .. (bs[n].round - 1) : \A a \in InReach(bs[n], v) :
            \/ a \in Output(n)
            \/ \E i \in DOMAIN Log(n) : Round[Log(n)[i].anchor] > Round[a]
            \/ Stamp[a] <= bs[n].floor
            \/ a \in bs[n].jumped
============================================================================
