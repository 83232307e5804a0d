---------------------------- MODULE MCBullshark ----------------------------
(* Bullshark for TLC.  Three authors, so a quorum is two; pairs of rounds  *)
(* are led by a, b, c in turn.  Two graphs:                                *)
(*                                                                         *)
(* - the long one, three pairs: a makes nothing in round 1, b3 is cited by *)
(*   a4 and b4 of which only a4 is built on, and c5 by a6 and c6.  Nodes   *)
(*   that see b4 late reach c5 without having committed b3;                *)
(*                                                                         *)
(* - the deep one, with rounds 2 to 6, whose anchors b3 and c5 everybody   *)
(*   supports, for a node that gets it from round 3 on.                    *)
EXTENDS Bullshark, TLC

CONSTANTS na, nb, nc, a1, b1, c1, a2, b2, c2, a3, b3, c3, a4, b4, c4, a5, c5, a6, c6

MCCommittee == <<na, nb, nc>>
MCRound ==
    [x \in Cert |-> CASE x \in {a1, b1, c1} -> 1 [] x \in {a2, b2, c2} -> 2
                      [] x \in {a3, b3, c3} -> 3 [] x \in {a4, b4, c4} -> 4
                      [] x \in {a5, c5} -> 5 [] OTHER -> 6]
MCAuthor ==
    [x \in Cert |-> CASE x \in {a1, a2, a3, a4, a5, a6} -> na
                      [] x \in {b1, b2, b3, b4} -> nb [] OTHER -> nc]

Long == [x \in Cert |-> CASE x \in {b1, c1} -> {}
                          [] x \in {a2, b2, c2} -> {b1, c1}
                          [] x = a3 -> {a2, b2}
                          [] x \in {b3, c3} -> {b2, c2}
                          [] x \in {a4, b4} -> {a3, b3}
                          [] x = c4 -> {a3, c3}
                          [] x \in {a5, c5} -> {a4, c4}
                          [] OTHER -> {a5, c5}]

Deep == [x \in Cert |-> CASE x \in {b2, c2} -> {}
                          [] x \in {a3, b3} -> {b2, c2}
                          [] x \in {a4, b4} -> {a3, b3}
                          [] x \in {a5, c5} -> {a4, b4}
                          [] OTHER -> {a5, c5}]

MCPast == LET Up[x \in Cert] == Parents[x] \cup UNION {Up[p] : p \in Parents[x]} IN Up

\* Clocks in step with the rounds, and b3 stamped far ahead.
InStep == MCRound
Ahead == [MCRound EXCEPT ![b3] = 9]

\* Nodes share nothing, so one that stores certificates out of order need not
\* be interleaved with another one until it is idle.
OneAtATime ==
    \A n \in Reordering : Idle(n) \/ \A m \in Node \ {n} : bs[m] = Fresh
============================================================================
