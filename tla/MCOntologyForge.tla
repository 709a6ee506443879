--------------------------- MODULE MCOntologyForge ---------------------------
(* Model-checking instances of OntologyForge: the daemon has a store of its *)
(* own, requests share the other one.                                       *)
EXTENDS OntologyForgeProofs, TLC

CONSTANTS l1, l2, c1, c2, c3, c4, d, r1, r2, memory, ontology

OneLabel == {l1}
TwoLabels == {l1, l2}
TwoIds == {c1, c2}
FourIds == {c1, c2, c3, c4}
TwoRequests == {r1, r2}
AllRuns == {d, r1, r2}
TwoStores == {memory, ontology}

StoreOfRun == [p \in AllRuns |-> IF p = d THEN memory ELSE ontology]
StoreOfRequest == [p \in TwoRequests |-> ontology]

Symmetry == Permutations(FourIds) \cup Permutations(TwoLabels) \cup Permutations(TwoRequests)

=============================================================================
