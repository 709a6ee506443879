---------------------------- MODULE MCMemoryBuild ----------------------------
(* Model-checking instances of MemoryBuild: both items mention one term, and *)
(* the second mentions another one too.                                      *)
EXTENDS MemoryBuildProofs

CONSTANTS i1, i2, t1, t2, r1

OneItem == {i1}
TwoItems == {i1, i2}
OneTerm == {t1}
TwoTerms == {t1, t2}
OneRequest == {r1}

MentionsOfOne == [i \in OneItem |-> OneTerm]
MentionsOfTwo == [i \in TwoItems |-> IF i = i1 THEN {t1} ELSE TwoTerms]

=============================================================================
