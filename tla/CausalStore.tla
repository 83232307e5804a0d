---------------------------- MODULE CausalStore ----------------------------
(***************************************************************************)
(* What the certificate waiter of consensus/narwhal.js promises of the DAG *)
(* it feeds: whatever order certificates arrive in, each is stored after   *)
(* its parents, except those old enough to have been collected.  A second  *)
(* writer, the sync path, imports certificates as it finds them.           *)
(***************************************************************************)
EXTENDS Naturals

CONSTANTS
    Cert,     \* certificates
    Round,    \* Round[c]: the round of c
    Parents   \* Parents[c]: the certificates c cites

VARIABLES
    stored,    \* the certificates in the store
    imported,  \* those the second writer has brought
    floor      \* rounds below this one have been collected

\* The parents of c that a store has to hold when it holds c.
Needed(c, f) == {p \in Parents[c] : Round[p] >= f}

Init == stored = {} /\ imported = {} /\ floor = 0

\* One arrival may complete the ancestry of several certificates.
Deliver(S) ==
    /\ \A c \in S : Needed(c, floor) \subseteq stored \cup S
    /\ stored' = stored \cup S
    /\ UNCHANGED <<imported, floor>>

Import(S) ==
    /\ stored' = stored \cup S
    /\ imported' = imported \cup S
    /\ UNCHANGED floor

Collect ==
    /\ floor' \in Nat /\ floor' > floor
    /\ stored' = {c \in stored : Round[c] >= floor'}
    /\ UNCHANGED imported

Next == (\E S \in SUBSET Cert : Deliver(S) \/ Import(S)) \/ Collect

Spec == Init /\ [][Next]_<<stored, imported, floor>>
===========================================================================
