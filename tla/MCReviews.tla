----------------------------- MODULE MCReviews -----------------------------
(* Reviews for TLC: two nodes, one of them runs the classifier's job.      *)
EXTENDS Reviews, TLC

CONSTANTS n1, n2
===========================================================================
