---------------------------- MODULE QuorumMath ----------------------------
(***************************************************************************)
(* The arithmetic of consensus/certificate.js: the quorum of a committee,  *)
(* the number of disagreeing peers at which a node halts itself, and the   *)
(* fault bound both are built on.  Every caller in the code goes through   *)
(* computeQuorum and bftHaltThreshold, so the other modules go through     *)
(* these operators.                                                        *)
(***************************************************************************)
EXTENDS Naturals, FiniteSets

\* f = floor((n-1)/3), the faults a committee of n is meant to tolerate.
MaxFaulty(n) == (n - 1) \div 3

\* Math.ceil((2 * n) / 3)
ComputeQuorum(n) == (2 * n + 2) \div 3

\* The code's threshold is Infinity for n <= 1: it is never reached.
HaltReached(disagreers, n) ==
    /\ n > 1
    /\ disagreers >= MaxFaulty(n) + 1
    /\ disagreers >= 2

(***************************************************************************)
(* What the comment above computeQuorum promises of it.                    *)
(***************************************************************************)

\* Two quorums of q out of n overlap in more nodes than may be faulty.
OverlapsHonestly(q, n) == 2 * q >= n + MaxFaulty(n) + 1

\* S holds at least a quorum of the members of C.
IsQuorum(S, C) == Cardinality(S \cap C) >= ComputeQuorum(Cardinality(C))
===========================================================================
