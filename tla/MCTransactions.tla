-------------------------- MODULE MCTransactions --------------------------
(* Transactions for TLC: x and y exclude each other, and y is of a type    *)
(* that is held back; z excludes nobody.                                   *)
EXTENDS Transactions

CONSTANTS
    MaxRows,     \* bound on rejection rows
    x, y, z

MCKey == [t \in Tx |-> IF t \in {x, y} THEN 1 ELSE 2]
MCPeerBatches == {<<x, z>>}
FewRows == Cardinality(pool.rows) <= MaxRows
===========================================================================
