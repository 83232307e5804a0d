---------------------------- MODULE CertWaiter ----------------------------
(***************************************************************************)
(* The certificate waiter of consensus/narwhal.js, on one node.  A peer's  *)
(* certificate is verified off the event loop, so several copies of it may *)
(* be in verification at once; one whose parents are not in the DAG is     *)
(* parked with the set of them, and stored when the last of them has been. *)
(*                                                                         *)
(* The DAG has two more writers: the node's own certificates, and the sync *)
(* path, which writes what a peer sends straight to it.                    *)
(***************************************************************************)
EXTENDS Naturals, FiniteSets

CONSTANTS
    Cert,          \* the certificates of the network
    Round,         \* Round[c]: the round of c
    Parents,       \* Parents[c]: the certificates c cites, all of earlier rounds
    Own,           \* those this node authors
    PullsFrom,     \* the first rounds sync may ask for; {}: no sync
    MaxPulled,     \* bound on the certificates one sync brings
    Retain,        \* GC_DEPTH
    MaxRound,      \* bound on the node's round
    MaxCopies,     \* bound on the copies of one certificate in verification
    MaxDeferrals   \* bound on the saves that find the store busy

ASSUME GraphIsTyped == Round \in [Cert -> Nat] /\ Parents \in [Cert -> SUBSET Cert]
ASSUME ParentsAreOlder == \A c \in Cert : \A p \in Parents[c] : Round[p] < Round[c]
ASSUME OwnAreCertificates == Own \subseteq Cert
ASSUME BoundsAreNumbers ==
    /\ PullsFrom \subseteq Nat
    /\ Retain \in Nat /\ MaxPulled \in Nat /\ MaxRound \in Nat
    /\ MaxCopies \in Nat /\ MaxDeferrals \in Nat

VARIABLES
    dag,         \* the certificates in the store
    waiting,     \* _pendingCerts: each parked certificate with its missing parents
    verifying,   \* verifying[c]: handlers of c between the await and its answer
    round,       \* _currentRound
    floor,       \* certificates of earlier rounds have been collected
    deferrals,   \* saves deferred so far
    accepted,    \* certificates verified and not lost to a deferred save (history)
    pulled       \* certificates sync has written (history)

vars == <<dag, waiting, verifying, round, floor, deferrals, accepted, pulled>>

Init ==
    /\ dag = {} /\ waiting = [c \in {} |-> {}]
    /\ verifying = [c \in Cert |-> 0]
    /\ round = 1 /\ floor = 0 /\ deferrals = 0
    /\ accepted = {} /\ pulled = {}

Parked == DOMAIN waiting
----------------------------------------------------------------------------
\* _processVerifiedCertificate, _saveCertAndNotify and _flushPendingForParent
\* call one another: saving c stores every parked certificate that is then
\* complete, and those that completes in turn.  _pendingByParent, the index
\* they use, is the inverse of waiting.
Unblocked(c) ==
    {c} \cup
    {d \in Parked :
        \A S \in SUBSET Parked :
            (\A e \in Parked : waiting[e] \subseteq S \cup {c} => e \in S) => d \in S}

\* Names ending in Broken are faulty variants that show the properties bite;
\* nothing else uses them.
WithoutBroken(S) == [d \in Parked |-> waiting[d] \ S]

\* What is still parked, and for what, once S has been stored.
Without(S) ==
    [d \in {e \in Parked : ~(waiting[e] \subseteq S)} |-> waiting[d] \ S]

\* A flush that goes one level deep only.
StoreBroken(c) ==
    LET direct == {d \in Parked : waiting[d] = {c}} IN
    /\ dag' = dag \cup {c} \cup direct
    /\ waiting' = [d \in Parked \ direct |-> waiting[d] \ {c}]
    /\ accepted' = accepted \cup {c} \cup direct
    /\ UNCHANGED deferrals

\* The save of c, with all it unblocks.
Store(c) ==
    /\ dag' = dag \cup Unblocked(c)
    /\ waiting' = Without(Unblocked(c))
    /\ accepted' = accepted \cup Unblocked(c)
    /\ UNCHANGED deferrals

\* The same when the store is busy: nothing is saved and nothing unblocked.
Defer(c) ==
    /\ deferrals < MaxDeferrals
    /\ deferrals' = deferrals + 1
    /\ accepted' = accepted \ {c}
    /\ UNCHANGED <<dag, waiting>>

MissingParentsBroken(c) == Parents[c] \ (dag \cup Parked)
MissingParents(c) == Parents[c] \ dag

\* _parkPendingCert; a copy parked before is overwritten.
Park(c) ==
    /\ waiting' = [d \in Parked \cup {c} |->
                      IF d = c THEN MissingParents(c) ELSE waiting[d]]
    /\ accepted' = accepted \cup {c}
    /\ UNCHANGED <<dag, deferrals>>

\* handleIncomingCertificate, up to its await.
Receive(c) ==
    /\ c \notin dag /\ c \notin Parked
    /\ verifying[c] < MaxCopies
    /\ verifying' = [verifying EXCEPT ![c] = @ + 1]
    /\ UNCHANGED <<dag, waiting, round, floor, deferrals, accepted, pulled>>

\* ... and after it.  Only the store is looked at again, not the parked ones.
Verified(c) ==
    /\ verifying[c] > 0
    /\ verifying' = [verifying EXCEPT ![c] = @ - 1]
    /\ \/ c \in dag /\ UNCHANGED <<dag, waiting, deferrals, accepted>>
       \/ c \notin dag /\ MissingParents(c) # {} /\ Park(c)
       \/ c \notin dag /\ MissingParents(c) = {} /\ (Store(c) \/ Defer(c))
    /\ UNCHANGED <<round, floor, pulled>>

\* _tryCreateCertificate: the node's own certificate cites what is in the DAG.
Seal(c) ==
    /\ c \in Own \ dag /\ Round[c] = round /\ MissingParents(c) = {}
    /\ Store(c) \/ Defer(c)
    /\ UNCHANGED <<verifying, round, floor, pulled>>

\* syncFromPeer: the certificates of a peer from some round on.  What the
\* peer holds is complete; what is pulled of it need not be.
Pull(from, held) ==
    LET brought == {c \in held : Round[c] >= from} IN
    /\ \A c \in held : Parents[c] \subseteq held
    /\ Cardinality(pulled \cup brought) <= MaxPulled
    /\ dag' = dag \cup brought
    /\ pulled' = pulled \cup brought
    /\ UNCHANGED <<waiting, verifying, round, floor, deferrals, accepted>>

\* _tryAdvanceRound, which drops the parked certificates too old to matter.
Advance ==
    /\ round < MaxRound
    /\ round' = round + 1
    /\ waiting' = [c \in {d \in Parked : Round[d] + Retain >= round + 1} |-> waiting[c]]
    /\ UNCHANGED <<dag, verifying, floor, deferrals, accepted, pulled>>

\* _maybeRunCertGC of bullshark.js: what it has committed lags the round.
Collect(cutoff) ==
    /\ cutoff > floor /\ cutoff + Retain <= round
    /\ floor' = cutoff
    /\ dag' = {c \in dag : Round[c] >= cutoff}
    /\ UNCHANGED <<waiting, verifying, round, deferrals, accepted, pulled>>

Next ==
    \/ \E c \in Cert : Receive(c) \/ Verified(c) \/ Seal(c)
    \/ \E from \in PullsFrom, held \in SUBSET Cert : Pull(from, held)
    \/ Advance
    \/ \E cutoff \in 1..MaxRound : Collect(cutoff)

Spec == Init /\ [][Next]_vars

\* Certificates are published again while a round is stuck, and the worker
\* pool answers.
Fairness == \A c \in Cert : WF_vars(Receive(c) \/ Verified(c))

LiveSpec == Spec /\ Fairness
----------------------------------------------------------------------------
(* Properties.                                                             *)

\* Every variable has its type, and what is parked waits for something.
TypeOK ==
    /\ dag \subseteq Cert
    /\ Parked \subseteq Cert /\ waiting \in [Parked -> (SUBSET Cert) \ {{}}]
    /\ verifying \in [Cert -> Nat]
    /\ round \in Nat /\ floor \in Nat /\ deferrals \in Nat
    /\ accepted \subseteq Cert /\ pulled \subseteq Cert

\* "Parked on receive, reprocessed when the missing parent lands": nothing
\* stays parked once all its parents are in the DAG (_pendingCerts).  Sync does
\* not tell the waiter what it has written.
ReprocessedWhenParentsLand ==
    pulled = {} => \A c \in Parked : ~(Parents[c] \subseteq dag)

\* The certificates whose whole ancestry is in S.
Grounded(S) ==
    UNION {T \in SUBSET S : \A c \in T : Parents[c] \subseteq T}

\* Neither the order in which certificates arrive, nor copies of one verified
\* side by side, decide what the DAG holds: it is all that can be held of what
\* the node has accepted.  Until certificates start to be dropped as too old.
HoldsAllItCan ==
    pulled = {} /\ floor = 0 /\ round <= Retain => dag = Grounded(accepted)

\* All certificates of the network are stored in the end, whatever they waited
\* for, unless sync steps in or certificates start to be dropped as too old.
EveryCertificateLands ==
    <>(dag = Cert \/ pulled # {} \/ floor > 0 \/ round > Retain)

Causal == INSTANCE CausalStore WITH stored <- dag, imported <- pulled

\* The waiter implements the causally ordered store, with sync as its second
\* writer: whatever sync has left in the DAG, the handlers of certificates
\* store one only when its parents are there, or with them, or too old.
StoresCausally == Causal!Spec
===========================================================================
