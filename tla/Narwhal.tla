------------------------------ MODULE Narwhal ------------------------------
(***************************************************************************)
(* The data-availability layer of consensus/narwhal.js: every node batches *)
(* its transactions once per round, collects acknowledgements, seals a     *)
(* certificate, and moves to the next round once enough certificates of    *)
(* its round have arrived.                                                 *)
(*                                                                         *)
(* local[n] is what one process holds.  Its dag and votes fields are the   *)
(* store the process reads (certificates and votes_seen); everything else  *)
(* is lost in a crash.  batches, acks and certs are the messages ever      *)
(* published: a handler may read any of them at any time, any number of    *)
(* times or never, which covers loss, reordering, duplication, the direct  *)
(* ack stream with its gossip fallback, and every re-broadcast.            *)
(*                                                                         *)
(* A JavaScript handler runs to its first await without interruption, so   *)
(* each action below is one whole handler or timer callback.               *)
(***************************************************************************)
EXTENDS Naturals, FiniteSets, QuorumMath

CONSTANTS
    Node,             \* the registered nodes; all of them sit on the committee
    Byz,              \* nodes that may sign two batches for one round
    Content,          \* what a batch can carry: a set of transactions
    None,             \* no batch
    RetentionRounds,  \* VOTES_RETENTION_ROUNDS
    SaveOutcomes,     \* {TRUE}, or BOOLEAN when a save can find the store busy
    WriteBehind,      \* the store applies its writes later (KnexAdapter)
    MaxRound,         \* bound on rounds
    MaxCrashes        \* bound on crashes

ASSUME NodesAreFinite == IsFiniteSet(Node)
ASSUME FaultBound == Byz \subseteq Node /\ Cardinality(Byz) <= MaxFaulty(Cardinality(Node))
ASSUME SeveralNodes == Cardinality(Node) >= 2
ASSUME BoundsAreNumbers == RetentionRounds \in Nat /\ MaxRound \in Nat /\ MaxCrashes \in Nat
ASSUME OutcomesAreBooleans == SaveOutcomes \subseteq BOOLEAN /\ WriteBehind \in BOOLEAN

VARIABLES
    local,      \* local[n]: the state of the process at n
    disk,       \* disk[n]: what a write-behind store has made durable
    batches,    \* batches ever published
    acks,       \* acknowledgements ever sent
    certs,      \* certificates ever published
    crashes,    \* crashes so far
    high,       \* high[n]: the highest round n was ever in (history)
    unrecorded  \* acks whose vote no store has kept (history)

vars == <<local, disk, batches, acks, certs, crashes, high, unrecorded>>

\* Names ending in Broken are faulty variants that show the properties bite;
\* nothing else uses them.
QuorumBroken == MaxFaulty(Cardinality(Node)) + 1
Quorum == ComputeQuorum(Cardinality(Node))

Batch == [round : Nat, author : Node, content : Content]
Ack   == [batch : Batch, acker : Node]

Fresh(round, dag, votes) ==
    [round |-> round, batch |-> None, peers |-> {}, acked |-> {}, roundCerts |-> {},
     created |-> FALSE, due |-> TRUE, timer |-> "off", leaked |-> FALSE,
     dag |-> dag, votes |-> votes]

Init ==
    /\ local = [n \in Node |-> Fresh(1, {}, {})]
    /\ disk = [n \in Node |-> [dag |-> {}, votes |-> {}]]
    /\ batches = {} /\ acks = {} /\ certs = {}
    /\ crashes = 0
    /\ high = [n \in Node |-> 1]
    /\ unrecorded = {}

----------------------------------------------------------------------------
(* The functions of narwhal.js that change a node's own state.             *)

\* _beginRound at the given round: _resetRoundState, drain the mempool into
\* a batch, and acknowledge it oneself.  The self-ack leaves no vote row.  A
\* round timer still armed is overwritten, not cleared: it leaks, and fires.
Begun(n, s, round, content) ==
    [s EXCEPT !.round = round,
              !.batch = [round |-> round, author |-> n, content |-> content],
              !.peers = {}, !.acked = {n}, !.roundCerts = {}, !.created = FALSE, !.due = FALSE,
              !.timer = "round", !.leaked = @ \/ s.timer = "round"]

AdvancedBroken(s) ==
    IF Cardinality(s.roundCerts) < Quorum THEN s
    ELSE [s EXCEPT !.round = @ + 1, !.due = TRUE, !.timer = "off",
                   !.votes = {v \in @ : v.round + RetentionRounds > s.round + 1}]

\* _tryAdvanceRound.  It schedules the next round and leaves the batch and
\* the collected certificates of this one in place until that timer fires.
Advanced(s) ==
    IF Cardinality(s.roundCerts) < Quorum THEN s
    ELSE [s EXCEPT !.round = @ + 1, !.due = TRUE, !.timer = "off",
                   !.votes = {v \in @ : v.round + RetentionRounds >= s.round + 1}]

CanSeal(s) == ~s.created /\ s.batch # None /\ Cardinality(s.acked) >= Quorum

OwnCertificatesBroken(n, s) == {}
OwnCertificates(n, s) == {c \in s.dag : c.author = n /\ c.round = s.round}

\* createCertificate: the round is the current one, whatever the batch's.
NewCertificate(n, s) ==
    [round |-> s.round, author |-> n, batch |-> s.batch,
     parents |-> {c \in s.dag : c.round + 1 = s.round}]

\* _tryCreateCertificate.  saved is FALSE when the store was busy: the
\* round is then started afresh 100 ms later.
TryCreate(n, s, saved) ==
    IF ~CanSeal(s) THEN s
    ELSE IF OwnCertificates(n, s) # {}
      THEN Advanced([s EXCEPT !.created = TRUE, !.roundCerts = @ \cup {n}])
    ELSE IF saved
      THEN Advanced([s EXCEPT !.created = TRUE, !.roundCerts = @ \cup {n},
                              !.dag = @ \cup {NewCertificate(n, s)}])
    ELSE [s EXCEPT !.due = TRUE]

SealedBroken(n, s, saved) ==
    IF CanSeal(s) /\ OwnCertificates(n, s) # {}
    THEN OwnCertificates(n, s) ELSE {}

\* The certificate that call publishes.
Sealed(n, s, saved) ==
    IF CanSeal(s) /\ OwnCertificates(n, s) = {} /\ saved
    THEN {NewCertificate(n, s)} ELSE {}

ReconciledBroken(s) == s

\* The scan of the DAG in _scheduleRetry and reconcileCurrentRound.
Reconciled(s) ==
    [s EXCEPT !.roundCerts = @ \cup {c.author : c \in {d \in s.dag : d.round = s.round}}]

\* The votes_seen test of handleIncomingBatch.
MayAttest(s, b) ==
    /\ b.round + RetentionRounds >= s.round
    /\ \A v \in s.votes : v.round = b.round /\ v.author = b.author => v = b

\* _peerBatches keeps the last batch of each author; the vote row is lost
\* when the store is busy.
Attested(s, b, saved) ==
    [s EXCEPT !.peers = {d \in @ : d.author # b.author} \cup {b},
              !.votes = IF saved THEN @ \cup {b} ELSE @]

\* What that does to the acks without a vote row.
StillUnrecorded(s, a, saved) ==
    IF saved THEN unrecorded \ {a}
    ELSE IF a.batch \in s.votes THEN unrecorded ELSE unrecorded \cup {a}

\* r is what dag.getLatestRound returns.
IsLatestRound(dag, r) ==
    IF dag = {} THEN r = 0
    ELSE /\ \A c \in dag : c.round <= r
         /\ \E c \in dag : c.round = r

\* node n moves to the state s, within the bound on rounds
Becomes(n, s) ==
    /\ s.round <= MaxRound
    /\ local' = [local EXCEPT ![n] = s]
    /\ high' = [high EXCEPT ![n] = IF s.round > @ THEN s.round ELSE @]
----------------------------------------------------------------------------
(* Timers and handlers.                                                    *)

\* The timer of _scheduleNextRound fires.
BeginRound(n, content) ==
    LET s == Begun(n, local[n], local[n].round, content) IN
    /\ local[n].due
    /\ Becomes(n, s)
    /\ batches' = batches \cup {s.batch}
    /\ acks' = acks \cup {[batch |-> s.batch, acker |-> n]}
    /\ UNCHANGED <<disk, certs, crashes, unrecorded>>

\* handleIncomingBatch, for a batch that is not ahead of this node.  The ack
\* is signed whether or not the vote was saved; the last batch seen of an
\* author has its ack sent again and nothing else.
ReceiveBatch(n, b, saved) ==
    LET s == local[n]
        ack == [batch |-> b, acker |-> n] IN
    /\ b.author # n /\ b.round <= s.round
    /\ MayAttest(s, b) /\ b \notin s.peers
    /\ Becomes(n, Attested(s, b, saved))
    /\ acks' = acks \cup {ack}
    /\ unrecorded' = StillUnrecorded(s, ack, saved)
    /\ UNCHANGED <<disk, batches, certs, crashes>>

\* handleIncomingBatch, for a batch of a later round: jump to that round,
\* begin it, and then attest the batch unless a recorded vote forbids it.
FastForward(n, b, content, saved) ==
    LET s == Begun(n, [local[n] EXCEPT !.timer = "off"], b.round, content)
        own == [batch |-> s.batch, acker |-> n]
        ack == [batch |-> b, acker |-> n] IN
    /\ b.author # n /\ b.round > local[n].round
    /\ batches' = batches \cup {s.batch}
    /\ IF MayAttest(s, b)
       THEN /\ Becomes(n, Attested(s, b, saved))
            /\ acks' = acks \cup {own, ack}
            /\ unrecorded' = StillUnrecorded(s, ack, saved)
       ELSE /\ Becomes(n, s)
            /\ acks' = acks \cup {own}
            /\ UNCHANGED unrecorded
    /\ UNCHANGED <<disk, certs, crashes>>

\* handleIncomingAck, for the batch this node is still waiting to certify.
\* Acks of other batches are stored and never read.
ReceiveAck(n, a, saved) ==
    LET s == [local[n] EXCEPT !.acked = @ \cup {a.acker}] IN
    /\ a.batch = local[n].batch /\ ~local[n].created
    /\ Becomes(n, TryCreate(n, s, saved))
    /\ certs' = certs \cup Sealed(n, s, saved)
    /\ UNCHANGED <<disk, batches, acks, crashes, unrecorded>>

\* handleIncomingCertificate.  One whose parents are missing waits (module
\* CertWaiter); a busy store loses the row but not what follows it.
ReceiveCertificate(n, c, saved) ==
    LET s == local[n]
        stored == [s EXCEPT !.dag = IF saved THEN @ \cup {c} ELSE @] IN
    /\ c \notin s.dag /\ c.parents \subseteq s.dag
    /\ Becomes(n, IF c.round = s.round
                  THEN Advanced([stored EXCEPT !.roundCerts = @ \cup {c.author}])
                  ELSE stored)
    /\ UNCHANGED <<disk, batches, acks, certs, crashes, unrecorded>>

\* The retry loop goes on while the round is stuck below quorum.
Rearmed(s) ==
    IF Cardinality(s.roundCerts) < Quorum THEN [s EXCEPT !.timer = "retry"] ELSE s

\* The round timer set by _beginRound.  A leaked one also drops the handle
\* of the timer armed since, which then leaks in turn.
RoundTimeout(n, saved) ==
    LET s == local[n]
        fired == [s EXCEPT !.timer = IF @ = "round" THEN "off" ELSE @,
                           !.leaked = s.leaked /\ s.timer = "round"] IN
    /\ s.timer = "round" \/ s.leaked
    /\ Becomes(n, Rearmed(Advanced(TryCreate(n, fired, saved))))
    /\ certs' = certs \cup Sealed(n, fired, saved)
    /\ UNCHANGED <<disk, batches, acks, crashes, unrecorded>>

\* The retry timer: count what sync has put in the DAG, then try again.
RetryTick(n, saved) ==
    LET s == Reconciled([local[n] EXCEPT !.timer = "off"]) IN
    /\ local[n].timer = "retry"
    /\ Becomes(n, Rearmed(Advanced(TryCreate(n, s, saved))))
    /\ certs' = certs \cup Sealed(n, s, saved)
    /\ UNCHANGED <<disk, batches, acks, crashes, unrecorded>>

\* Anti-entropy pulls the certificates a peer holds from some round on,
\* writes them straight to the DAG and calls reconcileCurrentRound.
SyncFrom(n, m, from) ==
    LET pulled == {c \in local[m].dag : c.round >= from} IN
    /\ ~(pulled \subseteq local[n].dag)
    /\ Becomes(n, Advanced(Reconciled([local[n] EXCEPT !.dag = @ \cup pulled])))
    /\ UNCHANGED <<disk, batches, acks, certs, crashes, unrecorded>>

\* The write-behind store catches up with the process.
Flush(n) ==
    /\ WriteBehind
    /\ disk' = [disk EXCEPT ![n] = [dag |-> local[n].dag, votes |-> local[n].votes]]
    /\ UNCHANGED <<local, batches, acks, certs, crashes, high, unrecorded>>

\* The process dies and createNarwhal runs again over what the store kept.
Restart(n) ==
    LET kept == IF WriteBehind THEN disk[n]
                ELSE [dag |-> local[n].dag, votes |-> local[n].votes] IN
    /\ crashes < MaxCrashes
    /\ crashes' = crashes + 1
    /\ unrecorded' = unrecorded \cup
           {a \in acks : a.acker = n /\ a.batch \in local[n].votes \ kept.votes}
    /\ \E r \in 0..MaxRound :
          IsLatestRound(kept.dag, r) /\ Becomes(n, Fresh(r + 1, kept.dag, kept.votes))
    /\ UNCHANGED <<disk, batches, acks, certs>>
----------------------------------------------------------------------------
(* A faulty node: it also signs other batches for a round it is in, or was *)
(* in, and acknowledges and certifies whatever it likes.                   *)

Equivocate(n, round, content) ==
    LET b == [round |-> round, author |-> n, content |-> content] IN
    /\ round <= local[n].round
    /\ batches' = batches \cup {b}
    /\ acks' = acks \cup {[batch |-> b, acker |-> n]}
    /\ UNCHANGED <<local, disk, certs, crashes, high, unrecorded>>

AckAnything(n, b) ==
    /\ acks' = acks \cup {[batch |-> b, acker |-> n]}
    /\ UNCHANGED <<local, disk, batches, certs, crashes, high, unrecorded>>

Ackers(b) == {a.acker : a \in {x \in acks : x.batch = b}}

\* verifyCertificate checks neither the round against the batch's nor how
\* many parents there are.
CertifyAnything(n, b, round, parents) ==
    /\ b.author = n /\ Cardinality(Ackers(b)) >= Quorum
    /\ certs' = certs \cup {[round |-> round, author |-> n, batch |-> b,
                             parents |-> parents]}
    /\ UNCHANGED <<local, disk, batches, acks, crashes, high, unrecorded>>

Faulty(n) ==
    \/ \E r \in 1..MaxRound, x \in Content : Equivocate(n, r, x)
    \/ \E b \in batches : AckAnything(n, b)
    \/ \E b \in batches, r \in 1..MaxRound :
          \E parents \in SUBSET {c \in local[n].dag : c.round + 1 = r} :
              CertifyAnything(n, b, r, parents)

NodeStep(n) ==
    \/ \E x \in Content : BeginRound(n, x)
    \/ \E b \in batches, saved \in SaveOutcomes : ReceiveBatch(n, b, saved)
    \/ \E b \in batches, x \in Content, saved \in SaveOutcomes : FastForward(n, b, x, saved)
    \/ \E a \in acks, saved \in SaveOutcomes : ReceiveAck(n, a, saved)
    \/ \E c \in certs, saved \in SaveOutcomes : ReceiveCertificate(n, c, saved)
    \/ \E saved \in SaveOutcomes : RoundTimeout(n, saved) \/ RetryTick(n, saved)
    \/ \E m \in Node, r \in 1..MaxRound : SyncFrom(n, m, r)
    \/ Flush(n)
    \/ Restart(n)

Next == (\E n \in Node : NodeStep(n)) \/ (\E n \in Byz : Faulty(n))

Spec == Init /\ [][Next]_vars

\* Timers fire, and a message that still changes something is delivered in
\* the end: the retry loop publishes batch and certificate again, missing
\* acks are asked for, and anti-entropy pulls certificates at an interval.
Fairness ==
    \A n \in Node \ Byz :
        /\ WF_vars(\E x \in Content : BeginRound(n, x))
        /\ WF_vars(RoundTimeout(n, TRUE))
        /\ WF_vars(RetryTick(n, TRUE))
        /\ WF_vars(\E b \in batches : ReceiveBatch(n, b, TRUE))
        /\ WF_vars(\E b \in batches, x \in Content : FastForward(n, b, x, TRUE))
        /\ WF_vars(\E a \in acks : ReceiveAck(n, a, TRUE))
        /\ WF_vars(\E c \in certs : ReceiveCertificate(n, c, TRUE))
        /\ WF_vars(\E m \in Node : SyncFrom(n, m, 1))

LiveSpec == Spec /\ Fairness
----------------------------------------------------------------------------
(* Properties.                                                             *)

\* The states of a node when those certificates have been published.
NodeState(published) ==
    [round : Nat, batch : Batch \cup {None}, peers : SUBSET Batch, acked : SUBSET Node,
     roundCerts : SUBSET Node, created : BOOLEAN, due : BOOLEAN,
     timer : {"off", "round", "retry"}, leaked : BOOLEAN,
     dag : SUBSET published, votes : SUBSET Batch]

\* Every variable has its type; a certificate's parents are certificates,
\* and nothing enters a DAG that was not published.
TypeOK ==
    /\ local \in [Node -> NodeState(certs)]
    /\ disk \in [Node -> [dag : SUBSET certs, votes : SUBSET Batch]]
    /\ batches \subseteq Batch
    /\ acks \subseteq Ack
    /\ \A c \in certs : /\ c.round \in Nat /\ c.author \in Node
                        /\ c.batch \in Batch /\ c.parents \subseteq certs
    /\ crashes \in Nat
    /\ high \in [Node -> Nat]
    /\ unrecorded \subseteq acks

SameSlot(b, d) == b.round = d.round /\ b.author = d.author

\* Has node n been in a round so late that votes of round r are pruned?
Forgot(n, r) == r + RetentionRounds < high[n]

\* votes_seen at work: of the batches of one author and round a node that runs
\* this code signs one, whatever crashes, replays and jumps happen, while that
\* round is within the retention window of the highest round it reached
\* (narwhal.js, the equivocation guard of handleIncomingBatch).  Acks whose vote
\* no store kept are set aside: the code signs them all the same, when the
\* store is busy or a crash comes before its writes.
AttestsOnce ==
    \A x, y \in acks \ unrecorded :
        /\ x.acker = y.acker /\ x.acker \notin Byz
        /\ SameSlot(x.batch, y.batch) /\ x.batch.author # x.acker
        /\ ~Forgot(x.acker, x.batch.round)
        => x.batch = y.batch

\* Two certificates never carry different batches of one author and round.
\* For an author running this code that holds through crashes; for a faulty
\* one, while no honest node has moved past the retention window of that
\* round.  A store that is busy at a seal or at a vote voids it.
CertifiedOnce ==
    \A c, d \in certs :
        SameSlot(c.batch, d.batch) /\ c.batch # d.batch =>
            /\ c.batch.author \in Byz
            /\ \E h \in Node \ Byz : Forgot(h, c.batch.round)

\* A node never signs a second certificate for a round: the own-certificate
\* defence of _tryCreateCertificate and the restart at latest round + 1.
SealsOncePerRound ==
    \A c, d \in certs :
        c.author = d.author /\ c.author \notin Byz /\ c.round = d.round => c = d

\* While no node fails, every node keeps moving to later rounds: neither the
\* retry loop nor the wait for certificates leaves the network stuck.  It
\* holds of a store that is never busy.  A busy one makes the node begin the
\* round again with another batch, which peers that saw the first refuse.
RoundsGoOn == \A n \in Node \ Byz : <>(local[n].round = MaxRound)
===========================================================================
