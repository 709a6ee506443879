--------------------------- MODULE MCWorkingMemory ---------------------------
(* Model-checking instances of WorkingMemory. *)
EXTENDS WorkingMemoryProofs

CONSTANTS e1, e2, p1, p2

OneEdge == {e1}
TwoEdges == {e1, e2}
OneReplay == {p1}
TwoReplays == {p1, p2}

=============================================================================
