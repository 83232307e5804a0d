---------------------------- MODULE ReviewCases ----------------------------
(***************************************************************************)
(* What the reviews of a flagged content promise, whatever the nodes race  *)
(* to propose: one case is open at a time, a case goes from its reviewer   *)
(* to its creator and not back, and what is closed stays closed.  Cases    *)
(* the network opens by itself, at the no-show cap, are the exception: a   *)
(* case may be opened beside them.                                         *)
(***************************************************************************)
EXTENDS Sequences, Naturals

VARIABLE cases    \* the cases of the content, in the order they were opened

Closed ==
    {"DISMISSED", "RECUSED", "NO_SHOW", "CLAIMED_OVER",
     "ACCEPTED_PRIVATE", "SELF_CORRECT", "ESCALATED"}

Open == {i \in DOMAIN cases : cases[i].state \notin Closed}
Assigned(by) == [state |-> "TRIGGERED", by |-> by]
NobodyCame == [state |-> "CONFIRMED", by |-> "cap"]

Init == cases = <<>>

OpenCase(c) ==
    /\ \A i \in Open : cases[i].by = "cap"
    /\ cases' = Append(cases, c)

Confirm(i) ==
    /\ cases[i].state = "TRIGGERED"
    /\ cases' = [cases EXCEPT ![i].state = "CONFIRMED"]

Close(i, s) == i \in Open /\ cases' = [cases EXCEPT ![i].state = s]

\* Another reviewer takes an open case: a new case replaces it.
HandOver(i) ==
    /\ cases[i].state = "TRIGGERED"
    /\ cases' = Append([cases EXCEPT ![i].state = "CLAIMED_OVER"], Assigned("claim"))

Next ==
    \/ OpenCase(NobodyCame) \/ \E by \in {"trigger", "claim"} : OpenCase(Assigned(by))
    \/ \E i \in DOMAIN cases :
           Confirm(i) \/ HandOver(i) \/ \E s \in Closed : Close(i, s)

Spec == Init /\ [][Next]_cases
=============================================================================
