----------------------------- MODULE MCNarwhal -----------------------------
(* Narwhal for TLC.  Honest nodes are interchangeable, and so are contents *)
(* and the producers of a run among themselves.                            *)
EXTENDS Narwhal, TLC

CONSTANTS
    Producer,    \* bound: the nodes whose batches a run follows
    MaxBatches   \* bound: how many batches are ever published

\* Nodes outside Producer are too slow to make a batch, and only attest.
FewProducers == \A b \in batches : b.author \in Producer
FewBatches == Cardinality(batches) <= MaxBatches

\* Bound: one crash, or one vote that finds the store busy and is not saved later.
FewFaults == crashes + Cardinality(unrecorded) <= 1

Symmetry ==
    Permutations(Producer \ Byz) \cup Permutations(Node \ (Producer \cup Byz))
        \cup Permutations(Content)
===========================================================================
