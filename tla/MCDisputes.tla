---------------------------- MODULE MCDisputes ----------------------------
(* Disputes for TLC: two nodes whose appeals seat different experts.       *)
EXTENDS Disputes, TLC

CONSTANTS n1, n2, d1, d2, j1, e1, e2, AA, OH

\* The selection finds a juror for the dispute of d1 and nobody for that of d2.
OneJury == [d \in Disputer |-> IF d = d1 THEN {j1} ELSE {}]
RivalPanels == [n \in Node |-> IF n = n1 THEN {e1} ELSE {e2}]
Leanings ==
    (j1 :> {"MATCH", AA, OH}) @@ (e1 :> {"MATCH", AA}) @@ (e2 :> {OH})
\* Bound: one of them disputes the content.
Filed(d) == Waiting(Dispute(d)) \/ \E i \in DOMAIN disputes : disputes[i] = d
OneDispute == \A d, e \in Disputer : Filed(d) /\ Filed(e) => d = e
OneOrNone == {{e1}, {e2}, {}}
===========================================================================
