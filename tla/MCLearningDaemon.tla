-------------------------- MODULE MCLearningDaemon --------------------------
(* Model-checking instances of LearningDaemon. *)
EXTENDS LearningDaemonProofs

CONSTANTS c1, c2, w1, w2

OneClient == {c1}
TwoClients == {c1, c2}
TwoWorkers == {w1, w2}

=============================================================================
