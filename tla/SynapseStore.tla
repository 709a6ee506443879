---------------------------- MODULE SynapseStore ----------------------------
(***************************************************************************)
(* The synaptic tables of homage.db and the three that write them:          *)
(* _upsert_sqlite_synapses of knowledge_bakery/learning_daemon.py, which    *)
(* commits the rows of one ontology in several transactions, the decay of   *)
(* run_synaptic_decay, which a tick runs once per interval and /decay and   *)
(* /prune run at any moment and without the daemon's lock, and the merges   *)
(* of a consolidation (rag_engine/replay_daemon.py).                        *)
(*                                                                         *)
(* A row of synaptic_edges is an edge with the writer of its key, for the   *)
(* daemon and the replay give the same triple different edge_ids.  Weights  *)
(* are counted in units and rounded down; evidence, confidences and dates   *)
(* are left out, and so is the learning event of a potentiation with        *)
(* nothing in it.                                                          *)
(***************************************************************************)
EXTENDS Integers

CONSTANTS
    Nodes, Edges,  \* an edge is a pair of nodes
    Increment,     \* what potentiation adds to the weight of a row
    Fresh,         \* the weight of a new row: max(increment, confidence)
    ReplayWeight,  \* the weight of a new row of the replay
    ReplayGain,    \* a tenth of it, which every further merge adds ...
    Full,          \* ... up to 1.0
    Keep,          \* percentage of a weight that the decay of a tick leaves
    Threshold,     \* weights below it are pruned
    Requests,      \* factors and thresholds that /decay and /prune may bring
    MaxBatches,    \* ontologies are potentiated so many times
    MaxReplays,    \* edges are consolidated so many times
    MaxFaults      \* ticks that decayed or learn are cut short so many times

ASSUME SynapseAssumption ==
    /\ Edges \subseteq Nodes \X Nodes
    /\ Increment \in Nat \ {0}
    /\ Fresh \in Nat /\ Fresh >= Increment
    /\ Full \in Nat /\ ReplayWeight \in 1 .. Full /\ ReplayGain \in Nat
    /\ Keep \in 0 .. 100
    /\ Threshold \in Nat \ {0}
    /\ Requests \subseteq [keep : 0 .. 100, threshold : Nat \ {0}]
    /\ MaxBatches \in Nat
    /\ MaxReplays \in Nat
    /\ MaxFaults \in Nat

VARIABLES
    durable,     \* the committed tables
    view,        \* the tables as the learning connection sees them
    open,        \* is its transaction open?
    pending,     \* has its _AutoFlush counted a row since the last flush?
    pc,          \* where the tick is
    batch,       \* the nodes and edges of the ontology in hand
    todo,        \* and those that are not written yet
    seen,        \* the count that the SELECT of a node returned, -1 without one
    due,         \* has decay_interval_seconds passed since last_decay_at?
    spent,       \* history: decays of ticks since an interval last passed
    batches, replays, faults

tables == <<durable, view, open, pending>>
local == <<batch, todo, seen>>
clock == <<due, spent>>
bounds == <<batches, replays, faults>>
vars == <<tables, pc, local, clock, bounds>>

Rows == Edges \X {"daemon", "replay"}

Counts == [Nodes -> Nat]

\* Counts of synaptic_nodes and weights of synaptic_edges, 0 for no row.  Kept
\* along as history: what the daemon added to a node since its row was made, all
\* that anybody ever added to it, and the nodes that a decay deleted although an
\* ontology in hand had written them.
Tables == [count : Counts, weight : [Rows -> Nat],
           learned : Counts, ever : Counts, swept : SUBSET Nodes]

Parts == [nodes : SUBSET Nodes, edges : SUBSET Edges]

TypeOK ==
    /\ durable \in Tables
    /\ view \in Tables
    /\ open \in BOOLEAN
    /\ pending \in BOOLEAN
    /\ pc \in {"idle", "rows", "record", "between", "decide", "decayed", "build"}
    /\ batch \in Parts
    /\ todo \in Parts
    /\ seen \in [Nodes -> Nat \cup {-1}]
    /\ due \in BOOLEAN
    /\ spent \in Nat
    /\ batches \in Nat
    /\ replays \in Nat
    /\ faults \in Nat

Nothing == [nodes |-> {}, edges |-> {}]

NoRows == [count |-> [n \in Nodes |-> 0], weight |-> [r \in Rows |-> 0],
           learned |-> [n \in Nodes |-> 0], ever |-> [n \in Nodes |-> 0], swept |-> {}]

Unseen == [n \in Nodes |-> -1]

Init ==
    /\ durable = NoRows
    /\ view = NoRows
    /\ open = FALSE
    /\ pending = FALSE
    /\ pc = "idle"
    /\ batch = Nothing
    /\ todo = Nothing
    /\ seen = Unseen
    /\ due = TRUE
    /\ spent = 0
    /\ batches = 0
    /\ replays = 0
    /\ faults = 0

Ends(edges) == {e[1] : e \in edges} \cup {e[2] : e \in edges}

-----------------------------------------------------------------------------
(* Potentiation. *)

\* _AutoFlush.mark, which flushes when enough rows or seconds have gathered.
Mark(flush) ==
    /\ pending' = ~flush
    /\ open' = ~flush
    /\ durable' = IF flush THEN view' ELSE durable

\* The nodes of an ontology include the ends of its edges.  The record of the
\* file before may still wait in the open transaction.
Learn(ontology) ==
    /\ pc \in {"idle", "between"}
    /\ batches < MaxBatches
    /\ Ends(ontology.edges) \subseteq ontology.nodes
    /\ ontology.nodes # {}
    /\ batches' = batches + 1
    /\ batch' = ontology
    /\ todo' = ontology
    /\ pc' = "rows"
    /\ UNCHANGED <<tables, seen, clock, replays, faults>>

\* The SELECT of a node, inside the transaction if a row has begun one.
SelectNode(n) ==
    /\ pc = "rows"
    /\ n \in todo.nodes
    /\ seen = Unseen
    /\ seen' = [seen EXCEPT ![n] = view.count[n]]
    /\ UNCHANGED <<tables, pc, batch, todo, clock, bounds>>

\* Mutant: a row there is keeps its own count.
NodeOverwritten(t, n, count) ==
    [t EXCEPT !.count[n] = 1, !.learned[n] = @ + 1, !.ever[n] = @ + 1,
              !.swept = @ \ {n}]

NodeRow(t, n, count) ==
    [t EXCEPT !.count[n] = count, !.learned[n] = @ + 1, !.ever[n] = @ + 1,
              !.swept = @ \ {n}]

\* Its INSERT ... ON CONFLICT, which sets the count computed from what was seen.
UpsertNode(n, flush) ==
    /\ pc = "rows"
    /\ seen[n] >= 0
    /\ view' = NodeRow(view, n, seen[n] + 1)
    /\ Mark(flush)
    /\ seen' = Unseen
    /\ todo' = [todo EXCEPT !.nodes = @ \ {n}]
    /\ UNCHANGED <<pc, batch, clock, bounds>>

Potentiated(weight) == IF weight = 0 THEN Fresh ELSE weight + Increment

\* Edges come after the nodes; their counts and weights grow inside SQLite.
UpsertEdge(e, flush) ==
    /\ pc = "rows"
    /\ todo.nodes = {}
    /\ e \in todo.edges
    /\ view' = [view EXCEPT !.weight[<<e, "daemon">>] = Potentiated(@)]
    /\ Mark(flush)
    /\ todo' = [todo EXCEPT !.edges = @ \ {e}]
    /\ UNCHANGED <<pc, batch, seen, clock, bounds>>

\* The learning event and the last flush, which commits nothing when no row has
\* been marked since the one before: the event then keeps the transaction open.
FinishUpsert ==
    /\ pc = "rows"
    /\ todo = Nothing
    /\ durable' = IF pending THEN view ELSE durable
    /\ open' = ~pending
    /\ pending' = FALSE
    /\ pc' = "record"
    /\ UNCHANGED <<view, local, clock, bounds>>

\* The record of the file opens a transaction, which the counter of the batch
\* may flush now or leave open while the next file is read.
Record(flush) ==
    /\ pc = "record"
    /\ open' = ~flush
    /\ durable' = IF flush THEN view ELSE durable
    /\ batch' = Nothing
    /\ pc' = "between"
    /\ UNCHANGED <<view, pending, todo, seen, clock, bounds>>

\* The commit at the end of ingest_raw_documents.
FinishIngest ==
    /\ pc \in {"idle", "between"}
    /\ durable' = view
    /\ open' = FALSE
    /\ pc' = "decide"
    /\ UNCHANGED <<view, pending, local, clock, bounds>>

-----------------------------------------------------------------------------
(* Decay. *)

Scaled(weight, decay) ==
    IF (weight * decay.keep) \div 100 < decay.threshold
    THEN 0 ELSE (weight * decay.keep) \div 100

\* Mutant: nodes that are only the target of an edge count as orphans.
LinkedAsSource(weight) == {n \in Nodes : \E r \in Rows : weight[r] > 0 /\ n = r[1][1]}

Linked(weight) == {n \in Nodes : \E r \in Rows : weight[r] > 0 /\ n \in Ends({r[1]})}

\* Mutant: orphan nodes stay.
DecayedKeepsOrphans(t, decay, written) ==
    [t EXCEPT !.weight = [r \in Rows |-> Scaled(@[r], decay)]]

\* Weights are multiplied, weak edges deleted, and then every node without an edge.
Decayed(t, decay, written) ==
    LET weight == [r \in Rows |-> Scaled(t.weight[r], decay)]
        orphans == {n \in Nodes : t.count[n] > 0} \ Linked(weight)
    IN [t EXCEPT !.weight = weight,
                 !.count = [n \in Nodes |-> IF n \in orphans THEN 0 ELSE @[n]],
                 !.learned = [n \in Nodes |-> IF n \in orphans THEN 0 ELSE @[n]],
                 !.swept = @ \cup (orphans \cap written)]

\* run_synaptic_decay up to its commit: one transaction, which waits until nobody
\* else writes.
DecayTables(decay, written) ==
    /\ ~open
    /\ durable' = Decayed(durable, decay, written)
    /\ view' = durable'
    /\ UNCHANGED <<open, pending>>

\* /decay and non-dry /prune, which take no lock.
RequestDecay(decay) ==
    /\ DecayTables(decay, batch.nodes \ todo.nodes)
    /\ UNCHANGED <<pc, local, clock, bounds>>

TickRate == [keep |-> Keep, threshold |-> Threshold]

\* The decay of a tick, when it asks for one and one is due ...
TickDecay ==
    /\ pc = "decide"
    /\ due
    /\ DecayTables(TickRate, {})
    /\ spent' = spent + 1
    /\ pc' = "decayed"
    /\ UNCHANGED <<local, due, bounds>>

\* ... or none is due, or run_decay is false.
TickNoDecay ==
    /\ pc = "decide"
    /\ pc' = "build"
    /\ UNCHANGED <<tables, local, clock, bounds>>

\* Mutant: last_decay_at is never written to daemon_state.json.
TickEndsUndated ==
    /\ pc \in {"decayed", "build"}
    /\ pc' = "idle"
    /\ UNCHANGED <<tables, local, clock, bounds>>

\* After the rebuild, the state file, with last_decay_at if this tick decayed.
TickEnds ==
    /\ pc \in {"decayed", "build"}
    /\ pc' = "idle"
    /\ due' = (due /\ pc # "decayed")
    /\ UNCHANGED <<tables, local, spent, bounds>>

\* A tick that raises or whose process ends anywhere: the open transaction is
\* rolled back, and last_decay_at is not written.
CutShort ==
    /\ pc # "idle"
    /\ faults < MaxFaults
    /\ faults' = faults + 1
    /\ view' = durable
    /\ open' = FALSE
    /\ pending' = FALSE
    /\ pc' = "idle"
    /\ batch' = Nothing
    /\ todo' = Nothing
    /\ seen' = Unseen
    /\ UNCHANGED <<durable, clock, batches, replays>>

\* decay_interval_seconds have passed.
Interval ==
    /\ ~due
    /\ due' = TRUE
    /\ spent' = 0
    /\ UNCHANGED <<tables, pc, local, bounds>>

-----------------------------------------------------------------------------
(* Replay. *)

Strengthened(weight) ==
    IF weight = 0 THEN ReplayWeight
    ELSE IF weight + ReplayGain < Full THEN weight + ReplayGain ELSE Full

\* One merge of a consolidation, whose transaction is short: both nodes count one
\* more, inside SQLite, and the row under the key of the replay grows.
Replay(e) ==
    /\ ~open
    /\ replays < MaxReplays
    /\ replays' = replays + 1
    /\ durable' =
          [durable EXCEPT
              !.count = [n \in Nodes |-> IF n \in Ends({e}) THEN @[n] + 1 ELSE @[n]],
              !.ever = [n \in Nodes |-> IF n \in Ends({e}) THEN @[n] + 1 ELSE @[n]],
              !.weight[<<e, "replay">>] = Strengthened(@),
              !.swept = @ \ Ends({e})]
    /\ view' = durable'
    /\ UNCHANGED <<open, pending, pc, local, clock, batches, faults>>

-----------------------------------------------------------------------------
(* Specification. *)

Flush == {TRUE, FALSE}

Next ==
    \/ \E ontology \in Parts : Learn(ontology)
    \/ \E n \in Nodes : SelectNode(n) \/ \E flush \in Flush : UpsertNode(n, flush)
    \/ \E e \in Edges, flush \in Flush : UpsertEdge(e, flush)
    \/ FinishUpsert
    \/ \E flush \in Flush : Record(flush)
    \/ FinishIngest
    \/ TickEnds
    \/ TickDecay
    \/ TickNoDecay
    \/ CutShort
    \/ Interval
    \/ \E decay \in Requests : RequestDecay(decay)
    \/ \E e \in Edges : Replay(e)

Spec == Init /\ [][Next]_vars

-----------------------------------------------------------------------------
(* Properties. *)

\* Every edge that is committed has the rows of both its ends, however the flushes
\* of a potentiation fall: only a decay in the middle of it may have taken them.
EdgesKeepNodes ==
    \A r \in Rows : durable.weight[r] > 0 =>
        \A n \in Ends({r[1]}) : durable.count[n] > 0 \/ n \in durable.swept

\* The count of a node, which the daemon reads before its transaction and writes
\* back as a number, may lose what a consolidation adds in between, but nothing
\* that the daemon learned, and nothing counts twice.
CountsBracketed ==
    \A n \in Nodes : /\ durable.learned[n] <= durable.count[n]
                     /\ durable.count[n] <= durable.ever[n]

\* Forgetting is slow: ticks decay once in an interval, and once more for each
\* tick cut short before its state file said that it had.
DecaysOncePerInterval == spent <= 1 + faults

=============================================================================
