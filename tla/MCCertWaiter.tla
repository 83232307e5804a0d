--------------------------- MODULE MCCertWaiter ---------------------------
(* CertWaiter for TLC: two authors, three rounds, and one certificate that *)
(* does not cite everything of the round before.                           *)
EXTENDS CertWaiter

CONSTANTS a1, b1, a2, b2, a3

MCRound ==
    [c \in Cert |-> CASE c \in {a1, b1} -> 1 [] c \in {a2, b2} -> 2 [] OTHER -> 3]

MCParents ==
    [c \in Cert |-> CASE c \in {a1, b1} -> {}
                      [] c = a2 -> {a1, b1}
                      [] c = b2 -> {b1}
                      [] OTHER -> {a2, b2}]
===========================================================================
