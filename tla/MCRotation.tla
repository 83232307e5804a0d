---------------------------- MODULE MCRotation ----------------------------
(* Rotation on a small instance: at most MaxProposals proposals and MaxPool *)
(* transactions, and no node more than MaxLag anchors behind.               *)
EXTENDS Rotation

CONSTANTS MaxProposals, MaxPool, MaxLag

FewProposals ==
    /\ Cardinality(proposals) <= MaxProposals
    /\ Cardinality(pool) <= MaxPool
Close == \A n \in Node : done[n] + MaxLag >= Len(walked)
===========================================================================
