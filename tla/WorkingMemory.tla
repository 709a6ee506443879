---------------------------- MODULE WorkingMemory ----------------------------
(***************************************************************************)
(* rag_engine/replay_daemon.py: verified fragments reinforce the edges of  *)
(* working_memory_edges, and a consolidation moves the best of them to the *)
(* long-term tables.  Every request runs in a thread and on a connection   *)
(* of its own, and nothing but SQLite stands between them: a SELECT sees   *)
(* what is committed, the transaction of a consolidation begins with its   *)
(* first INSERT, and one connection writes at a time.                      *)
(*                                                                         *)
(* An edge stands for its edge_id, a hash of source, relation and target.  *)
(* Scores, weights and timestamps are left out; a row is `sure' once some  *)
(* fragment gave it replay_min_confidence, for confidence only grows.      *)
(***************************************************************************)
EXTENDS Naturals, FiniteSets

CONSTANTS
    Edges,
    Replays,       \* consolidations that may run at the same time
    None,          \* nobody writes
    TopPercent,    \* replay_top_percent * 100
    MaxEdges,      \* replay_max_edges_per_cycle
    MaxIngests,    \* fragments are ingested so many times
    MaxAborts      \* consolidations fail or end so many times

ASSUME WorkingMemoryAssumption ==
    /\ IsFiniteSet(Edges)
    /\ None \notin Replays
    /\ TopPercent \in 1 .. 100
    /\ MaxEdges \in Nat \ {0}
    /\ MaxIngests \in Nat
    /\ MaxAborts \in Nat

VARIABLES
    durable,     \* the committed tables of homage.db
    view,        \* the tables as the writing connection sees them
    writer,      \* whose transaction is open
    pc,          \* where each consolidation is
    limit,       \* the LIMIT it has computed
    chosen,      \* the counts of the rows it selected, 0 for the others
    left,        \* the rows it has yet to merge
    ingested,    \* history: how often each edge was ingested
    ingests, aborts

tables == <<durable, view, writer>>
local == <<pc, limit, chosen, left>>
bounds == <<ingests, aborts>>
vars == <<tables, local, ingested, bounds>>

Counts == [Edges -> Nat]

Zero == [e \in Edges |-> 0]

\* Rows of working_memory_edges (count 0: no row) and synaptic_edges and, as a
\* history, what each consolidation added to the latter.
Tables == [working : Counts, sure : SUBSET Edges, synaptic : Counts,
           merged : [Replays -> Counts]]

Empty == [working |-> Zero, sure |-> {}, synaptic |-> Zero,
          merged |-> [p \in Replays |-> Zero]]

TypeOK ==
    /\ durable \in Tables
    /\ view \in Tables
    /\ writer \in Replays \cup {None}
    /\ pc \in [Replays -> {"idle", "counted", "merging"}]
    /\ limit \in [Replays -> Nat]
    /\ chosen \in [Replays -> Counts]
    /\ left \in [Replays -> SUBSET Edges]
    /\ ingested \in Counts
    /\ ingests \in Nat
    /\ aborts \in Nat

Init ==
    /\ durable = Empty
    /\ view = Empty
    /\ writer = None
    /\ pc = [p \in Replays |-> "idle"]
    /\ limit = [p \in Replays |-> 0]
    /\ chosen = [p \in Replays |-> Zero]
    /\ left = [p \in Replays |-> {}]
    /\ ingested = Zero
    /\ ingests = 0
    /\ aborts = 0

-----------------------------------------------------------------------------
\* A row for every edge of the fragment, or one more for the row there is.
Reinforced(t, fragment, confident) ==
    [t EXCEPT !.working = [e \in Edges |-> IF e \in fragment THEN @[e] + 1 ELSE @[e]],
              !.sure = @ \cup confident]

\* ingest_working_memory_fragment: one transaction, which waits for the writer.
Ingest(fragment, confident) ==
    /\ ingests < MaxIngests
    /\ ingests' = ingests + 1
    /\ writer = None
    /\ durable' = Reinforced(durable, fragment, confident)
    /\ view' = durable'
    /\ ingested' = [e \in Edges |-> IF e \in fragment THEN ingested[e] + 1 ELSE ingested[e]]
    /\ UNCHANGED <<writer, local, aborts>>

-----------------------------------------------------------------------------
(* consolidate_working_memory. *)

\* Mutant: without the lower bound a short table is never consolidated.
LimitRoundedDown(total) ==
    IF (total * TopPercent) \div 100 < MaxEdges
    THEN (total * TopPercent) \div 100 ELSE MaxEdges

\* max(1, min(max_edges, ceil(total * top_percent)))
Limit(total) ==
    LET share == (total * TopPercent + 99) \div 100
    IN IF share < MaxEdges THEN share ELSE MaxEdges

\* The first SELECT of _select_replay_edges, once the idle gate is open.
Count(p) ==
    /\ pc[p] = "idle"
    /\ durable.sure # {}
    /\ limit' = [limit EXCEPT ![p] = Limit(Cardinality(durable.sure))]
    /\ pc' = [pc EXCEPT ![p] = "counted"]
    /\ UNCHANGED <<tables, chosen, left, ingested, bounds>>

\* The second one takes the best rows there are by now, if there is any left.
Select(p) ==
    /\ pc[p] = "counted"
    /\ \E best \in SUBSET durable.sure :
          /\ IF Cardinality(durable.sure) <= limit[p]
             THEN best = durable.sure ELSE Cardinality(best) = limit[p]
          /\ chosen' = [chosen EXCEPT ![p] =
                           [e \in Edges |-> IF e \in best THEN durable.working[e] ELSE 0]]
          /\ left' = [left EXCEPT ![p] = best]
          /\ pc' = [pc EXCEPT ![p] = IF best = {} THEN "idle" ELSE "merging"]
    /\ UNCHANGED <<tables, limit, ingested, bounds>>

\* What the tables become when p merges row e.
Merged(t, p, e) ==
    [t EXCEPT !.synaptic[e] = @ + chosen[p][e],
              !.merged[p][e] = @ + chosen[p][e]]

\* Mutant: every row is committed by itself.
MergeCommitted(p, e) ==
    /\ pc[p] = "merging"
    /\ e \in left[p]
    /\ writer \in {None, p}
    /\ writer' = p
    /\ view' = Merged(view, p, e)
    /\ durable' = view'
    /\ left' = [left EXCEPT ![p] = @ \ {e}]
    /\ UNCHANGED <<pc, limit, chosen, ingested, bounds>>

\* _merge_long_term_edge for one row: the first one begins the transaction.
Merge(p, e) ==
    /\ pc[p] = "merging"
    /\ e \in left[p]
    /\ writer \in {None, p}
    /\ writer' = p
    /\ view' = Merged(view, p, e)
    /\ left' = [left EXCEPT ![p] = @ \ {e}]
    /\ UNCHANGED <<durable, pc, limit, chosen, ingested, bounds>>

Chosen(p) == {e \in Edges : chosen[p][e] > 0}

\* Mutant: all sure rows are deleted, not those that were selected.
ClearedAllSure(t, p) ==
    [t EXCEPT !.working = [e \in Edges |-> IF e \in t.sure THEN 0 ELSE @[e]],
              !.sure = {}]

\* The DELETE by edge_id: the rows go, whatever they have become.
Cleared(t, p) ==
    [t EXCEPT !.working = [e \in Edges |-> IF e \in Chosen(p) THEN 0 ELSE @[e]],
              !.sure = @ \ Chosen(p)]

\* It ends the transaction of the merges.
Clear(p) ==
    /\ pc[p] = "merging"
    /\ left[p] = {}
    /\ writer = p
    /\ durable' = Cleared(view, p)
    /\ view' = durable'
    /\ writer' = None
    /\ pc' = [pc EXCEPT ![p] = "idle"]
    /\ chosen' = [chosen EXCEPT ![p] = Zero]
    /\ UNCHANGED <<limit, left, ingested, bounds>>

\* A locked database, another exception or the end of the process: close()
\* rolls back whatever p has begun.
Abort(p) ==
    /\ pc[p] # "idle"
    /\ aborts < MaxAborts
    /\ aborts' = aborts + 1
    /\ pc' = [pc EXCEPT ![p] = "idle"]
    /\ chosen' = [chosen EXCEPT ![p] = Zero]
    /\ left' = [left EXCEPT ![p] = {}]
    /\ \/ writer = p /\ view' = durable /\ writer' = None
       \/ writer # p /\ UNCHANGED <<view, writer>>
    /\ UNCHANGED <<durable, limit, ingested, ingests>>

ReplayStep(p) ==
    Count(p) \/ Select(p) \/ (\E e \in Edges : Merge(p, e)) \/ Clear(p)

Next ==
    \/ \E fragment \in (SUBSET Edges) \ {{}} : \E confident \in SUBSET fragment :
          Ingest(fragment, confident)
    \/ \E p \in Replays : ReplayStep(p)
    \/ \E p \in Replays : Abort(p)

Spec == Init /\ [][Next]_vars

\* Consolidation is asked for again and again, and whoever waits for SQLite's
\* write lock, which is held briefly, obtains it in the end.
FairSpec == Spec /\ \A p \in Replays : SF_vars(ReplayStep(p))

-----------------------------------------------------------------------------
(* Properties. *)

\* What was ingested is never forgotten altogether: an edge is in the working
\* memory until it is in the long-term tables, whatever fails and overlaps.
NeverForgotten ==
    \A e \in Edges : ingested[e] > 0 => durable.working[e] + durable.synaptic[e] > 0

\* No evidence counts twice in what one consolidation merges, and what still
\* waits for it counts too: a failure between two merges leaves no trace.
OncePerReplay ==
    \A p \in Replays, e \in Edges :
        durable.merged[p][e] + durable.working[e] <= ingested[e]

\* A row leaves the working memory with the commit that merges it.
ClearedWhenMerged ==
    [][\A e \in Edges :
          durable.working[e] > 0 /\ durable'.working[e] = 0
          => durable'.synaptic[e] > durable.synaptic[e]]_vars

\* To whoever reads homage.db a consolidation is one step, of a bounded batch: its
\* merges and its DELETE are seen together or, when it fails, not at all.
Ledger == INSTANCE ReplayLedger WITH
              Batches <- {batch \in SUBSET Edges : Cardinality(batch) \in 1 .. MaxEdges},
              working <- durable.working,
              longTerm <- durable.synaptic

ImplementsLedger == Ledger!Init /\ [][Ledger!Next]_(Ledger!vars)

\* Every sure row is consolidated, however small a share a cycle takes.
Drains == durable.sure # {} ~> durable.sure = {}

=============================================================================
