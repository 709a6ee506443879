---------------------------- MODULE ReplayLedger ----------------------------
(***************************************************************************)
(* What working memory promises to whoever reads homage.db, whatever the   *)
(* number of consolidations that overlap, are locked out or fail: a        *)
(* fragment is there at once, and a consolidation is one step, which moves *)
(* a bounded batch of rows and strengthens each by evidence there is.      *)
(***************************************************************************)
EXTENDS Integers

CONSTANTS
    Edges,
    Batches     \* what one consolidation may take

VARIABLES
    working,    \* evidence in the working memory, 0 where there is no row
    longTerm,   \* evidence in the long-term tables
    ingested    \* evidence that ever came

vars == <<working, longTerm, ingested>>

Plus(counts, fragment) ==
    [e \in Edges |-> IF e \in fragment THEN counts[e] + 1 ELSE counts[e]]

Init ==
    /\ working = [e \in Edges |-> 0]
    /\ longTerm = [e \in Edges |-> 0]
    /\ ingested = [e \in Edges |-> 0]

Ingest(fragment) ==
    /\ fragment # {}
    /\ working' = Plus(working, fragment)
    /\ ingested' = Plus(ingested, fragment)
    /\ UNCHANGED longTerm

\* What the batch gains may differ from what its rows hold by now: rows are
\* selected before, and deleted whatever they have become.
Consolidate(batch) ==
    /\ working' = [e \in Edges |-> IF e \in batch THEN 0 ELSE working[e]]
    /\ longTerm' \in [Edges -> Nat]
    /\ \A e \in batch : longTerm'[e] - longTerm[e] \in 1 .. ingested[e]
    /\ \A e \in Edges \ batch : longTerm'[e] = longTerm[e]
    /\ UNCHANGED ingested

Next ==
    \/ \E fragment \in SUBSET Edges : Ingest(fragment)
    \/ \E batch \in Batches : Consolidate(batch)

Spec == Init /\ [][Next]_vars

=============================================================================
