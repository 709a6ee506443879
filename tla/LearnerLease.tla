---------------------------- MODULE LearnerLease ----------------------------
(***************************************************************************)
(* What the hippocampus daemon promises about its learner, whatever the    *)
(* number of HTTP requests that start, stop and tick it: there is one      *)
(* learner at a time, a learner that was told to end is never told to go   *)
(* on again, and it does end.                                              *)
(***************************************************************************)

VARIABLES
    phase,   \* "off": no learner; "on": it learns; "ending": it was told to end
    wants    \* does the persisted state ask for a learner after a restart?

vars == <<phase, wants>>

TypeOK ==
    /\ phase \in {"off", "on", "ending"}
    /\ wants \in BOOLEAN

Init ==
    /\ phase = "off"
    /\ wants = FALSE

\* A learner is only begun where there is none.
Begin ==
    /\ phase = "off"
    /\ phase' = "on"
    /\ wants' = TRUE

\* The wish is withdrawn by a stop, which ends the learner, or by the resource
\* guard, which a learner that is not the one that met it may outlive.
Withdraw ==
    /\ wants' = FALSE
    /\ phase' \in IF phase = "on" THEN {"on", "ending"} ELSE {phase}

\* The learner gives up and the wish stays what it is: its round raised, it found that
\* the guard had stopped it, or a stop told it to end and raised before it was noted.
GiveUp ==
    /\ phase = "on"
    /\ phase' = "ending"
    /\ UNCHANGED wants

\* The learner is gone.
End ==
    /\ phase = "ending"
    /\ phase' = "off"
    /\ UNCHANGED wants

\* The process is gone, and the learner with it.
Crash ==
    /\ phase \in {"on", "ending"}
    /\ phase' = "off"
    /\ UNCHANGED wants

Next == Begin \/ Withdraw \/ GiveUp \/ End \/ Crash

Spec == Init /\ [][Next]_vars /\ WF_vars(End)

=============================================================================
