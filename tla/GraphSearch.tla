----------------------------- MODULE GraphSearch -----------------------------
(***************************************************************************)
(* The bounded breadth-first searches that answer a question from           *)
(* homage.db: query_lazy_subgraph over relation_stats and the synaptic      *)
(* tables (rag_engine/graph_store.py), GhostTopology.query over the ghost   *)
(* tables where there are any (rag_engine/ghost_graph.py), and the          *)
(* spreading activation of activate_memory along relation_stats             *)
(* (knowledge_bakery/memory.py).  No transaction spans a search: every      *)
(* SELECT sees what is committed at its moment, and rebuilds, decays and    *)
(* consolidations commit between two of them.                               *)
(*                                                                         *)
(* Which rows a SELECT prefers when its LIMIT is reached is left open, and  *)
(* so are the scores and what the terms of a question match.                *)
(***************************************************************************)
EXTENDS Integers, Sequences, SequencesExt

CONSTANTS
    Nodes, Relations,
    Edges,         \* source, target and relation: a pair has an edge for each relation
    MaxDepth, MaxNodes, MaxEdges,  \* what the question and the hardware allow
    SeedLimit,     \* 24, 12 of an activation, or what the ghost search takes for it
    LeastRows,     \* 64, the least LIMIT of a depth
    MaxActive,     \* what an activation may answer
    FanOut,        \* 12, the LIMIT of one node's relations
    Commits,       \* contents of the tables that others may commit
    MaxWrites      \* others commit so many times

VARIABLES
    db,      \* what is committed
    search,  \* the search in progress
    writes

searchVars == <<db, search, writes>>

\* One edge may be a row of relation_stats, of ghost_edges and, under the two keys of
\* its writers, of synaptic_edges.  The rows of ghost_edges are keyed by their ends: a
\* pair has one, whose relation stands for none.
Synaptic == {"daemon", "replay"}
Rows == Edges \X (Synaptic \cup {"stats", "ghost"})

\* The index is the table nodes, learned is synaptic_nodes and shades is ghost_nodes.
Databases == [rows : SUBSET Rows, index : SUBSET Nodes, learned : SUBSET Nodes,
              shades : SUBSET Nodes]

NoRows == [rows |-> {}, index |-> {}, learned |-> {}, shades |-> {}]

ASSUME SearchAssumption ==
    /\ IsFiniteSet(Nodes)
    /\ IsFiniteSet(Relations)
    /\ Edges \subseteq Nodes \X Nodes \X Relations
    /\ {MaxDepth, MaxNodes, MaxEdges, SeedLimit, LeastRows, MaxActive, FanOut} \subseteq Nat \ {0}
    /\ Commits \subseteq Databases
    /\ \A d \in Commits, e, f \in Edges :
          e[1] = f[1] /\ e[2] = f[2] /\ {<<e, "ghost">>, <<f, "ghost">>} \subseteq d.rows => e = f
    /\ MaxWrites \in Nat

SearchPhases == {"idle", "check", "seeds", "rows", "synaptic", "expand", "shades", "nodes",
           "kindle", "spread", "active", "done"}

\* kept, ever and cut are history: the rows, nodes and shades that were there all the time
\* and at any time since its first SELECT, and whether any limit has left something out.
Searches ==
    [pc : SearchPhases, kind : {"none", "lazy", "ghost", "spread"},
     depth : 0 .. MaxDepth, seeds : SUBSET Nodes, visited : SUBSET Nodes,
     frontier : SUBSET Nodes, queue : Seq(Nodes \X (0 .. MaxDepth)),
     edges : SUBSET Edges, read : SUBSET Rows, missing : SUBSET Nodes,
     kept : Databases, ever : Databases, cut : BOOLEAN]

SearchTypeOK ==
    /\ db \in Databases
    /\ search \in Searches
    /\ writes \in Nat

NoSearch == [pc |-> "idle", kind |-> "none", depth |-> 0, seeds |-> {}, visited |-> {},
             frontier |-> {}, queue |-> <<>>, edges |-> {}, read |-> {}, missing |-> {},
             kept |-> NoRows, ever |-> NoRows, cut |-> FALSE]

SearchInit ==
    /\ db \in Commits
    /\ search = NoSearch
    /\ writes = 0

\* Another connection commits: a rebuild, an ingestion, a decay or a consolidation.
WriterCommits(new) ==
    /\ writes < MaxWrites
    /\ writes' = writes + 1
    /\ db' = new
    /\ search' = [search EXCEPT
                      !.kept = [table \in DOMAIN new |-> @[table] \cap new[table]],
                      !.ever = [table \in DOMAIN new |-> @[table] \cup new[table]]]

-----------------------------------------------------------------------------
(* The search over the index or the ghost tables. *)

Start ==
    /\ search.pc \in {"idle", "done"}
    /\ search' = [NoSearch EXCEPT !.pc = "check", !.kept = db, !.ever = db]
    /\ UNCHANGED <<db, writes>>

\* ghost_store_available, on a connection of its own.
CheckGhost ==
    /\ search.pc = "check"
    /\ search' = [search EXCEPT !.pc = "seeds",
                                !.kind = IF db.shades = {} THEN "lazy" ELSE "ghost",
                                !.kept = db, !.ever = db]
    /\ UNCHANGED <<db, writes>>

Least(a, b) == IF a <= b THEN a ELSE b
Most(a, b) == IF a >= b THEN a ELSE b

\* What a SELECT of these rows may return under a LIMIT.
Select(rows, limit) ==
    {some \in SUBSET rows : Cardinality(some) = Least(limit, Cardinality(rows))}

\* Each term of the question has a SELECT of its own from each table, and others commit
\* between them: what one of them finds was there at some time of the search.
SeenNodes == search.ever.index \cup search.ever.learned

\* _fetch_seed_nodes, or the shades that are nearest to the question, by one SELECT.
Seeds ==
    /\ search.pc = "seeds"
    /\ \E seeds \in IF search.kind = "ghost" THEN Select(db.shades, Least(MaxNodes, SeedLimit))
                    ELSE {s \in SUBSET SeenNodes : Cardinality(s) <= Least(MaxNodes, SeedLimit)} :
          search' = [search EXCEPT !.pc = "rows", !.seeds = seeds, !.visited = seeds,
                                   !.frontier = seeds]
    /\ UNCHANGED <<db, writes>>

\* Mutant: at the last depth the search goes on.
OverOnlyWhenStuck == search.frontier = {}

\* The condition at the head of the loop.
Over ==
    \/ search.depth = MaxDepth
    \/ search.frontier = {}
    \/ Cardinality(search.visited) >= MaxNodes
    \/ Cardinality(search.edges) >= MaxEdges

\* Mutant: each depth may read as many rows as the whole search.
LimitOfAll == Most(LeastRows, MaxEdges)

\* min(remaining_edges, per_depth_limit)
Limit == Least(MaxEdges - Cardinality(search.edges), Most(LeastRows, MaxEdges \div MaxDepth))

\* Mutant: edges are followed from their source only.
TouchingAsSource(tables) ==
    {row \in db.rows : row[2] \in tables /\ row[1][1] \in search.frontier}

Touching(tables) ==
    {row \in db.rows : row[2] \in tables /\ {row[1][1], row[1][2]} \cap search.frontier # {}}

\* The SELECT from relation_stats, or from ghost_edges.
ReadRows ==
    /\ search.pc = "rows"
    /\ ~Over
    /\ LET rows == Touching({IF search.kind = "ghost" THEN "ghost" ELSE "stats"})
       IN \E some \in Select(rows, Limit) :
             search' = [search EXCEPT !.pc = IF search.kind = "ghost" THEN "expand" ELSE "synaptic",
                                      !.read = some, !.cut = @ \/ some # rows]
    /\ UNCHANGED <<db, writes>>

\* The SELECT from synaptic_edges, for what the LIMIT has left.
ReadSynaptic ==
    /\ search.pc = "synaptic"
    /\ LET rows == Touching(Synaptic)
       IN \E some \in Select(rows, Limit - Cardinality(search.read)) :
             search' = [search EXCEPT !.pc = "expand", !.read = @ \cup some,
                                      !.cut = @ \/ some # rows]
    /\ UNCHANGED <<db, writes>>

EndsOf(edges) == {e[1] : e \in edges} \cup {e[2] : e \in edges}

\* The edges that are new, and the ends of them that the bound on nodes lets in.
Expand ==
    /\ search.pc = "expand"
    /\ search.kind = "lazy"
    /\ LET new == {row[1] : row \in search.read} \ search.edges
           ends == EndsOf(new) \ search.visited
       IN \E some \in Select(ends, MaxNodes - Cardinality(search.visited)) :
             search' = [search EXCEPT !.pc = "rows", !.depth = @ + 1,
                                      !.edges = @ \cup new, !.visited = @ \cup some,
                                      !.frontier = some, !.read = {},
                                      !.cut = @ \/ some # ends]
    /\ UNCHANGED <<db, writes>>

\* The ghost search looks for the ends of every row it read ...
ExpandGhost ==
    /\ search.pc = "expand"
    /\ search.kind = "ghost"
    /\ LET ends == EndsOf({row[1] : row \in search.read}) \ search.visited
       IN \E some \in Select(ends, MaxNodes - Cardinality(search.visited)) :
             search' = [search EXCEPT !.pc = "shades", !.missing = some, !.read = {},
                                      !.edges = @ \cup {row[1] : row \in search.read},
                                      !.cut = @ \/ some # ends]
    /\ UNCHANGED <<db, writes>>

\* ... and goes on from those that are in ghost_nodes.
FetchShades ==
    /\ search.pc = "shades"
    /\ search' = [search EXCEPT !.pc = "rows", !.depth = @ + 1, !.missing = {},
                                !.visited = @ \cup (search.missing \cap db.shades),
                                !.frontier = search.missing \cap db.shades]
    /\ UNCHANGED <<db, writes>>

EndSearch ==
    /\ search.pc = "rows"
    /\ Over
    /\ search' = [search EXCEPT !.pc = "nodes"]
    /\ UNCHANGED <<db, writes>>

\* _fetch_nodes_by_id makes nodes of its own for those that are in no table by now, so
\* that every node visited is answered.
FetchNodes ==
    /\ search.pc = "nodes"
    /\ search' = [search EXCEPT !.pc = "done"]
    /\ UNCHANGED <<db, writes>>

\* kept_edges, and those active_edges that have both ends in the answer
AnswerEdges == {e \in search.edges : {e[1], e[2]} \subseteq search.visited}

-----------------------------------------------------------------------------
(* Spreading activation: the scored nodes are visited. *)

StartSpread ==
    /\ search.pc \in {"idle", "done"}
    /\ search' = [NoSearch EXCEPT !.pc = "kindle", !.kind = "spread", !.kept = db, !.ever = db]
    /\ UNCHANGED <<db, writes>>

\* Queue entries of these nodes, in the order in which they were scored.
Entries(nodes, depth) == {[i \in DOMAIN s |-> <<s[i], depth>>] : s \in SetToSeqs(nodes)}

\* _seed_nodes, with a SELECT for each term; where no term has found a node, a last one
\* takes the most frequent.
SeedSpread ==
    /\ search.pc = "kindle"
    /\ \E seeds \in SUBSET search.ever.index :
          /\ Cardinality(seeds) <= SeedLimit
          /\ seeds = {} => db.index = {}
          /\ \E entries \in Entries(seeds, 0) :
                search' = [search EXCEPT !.pc = "spread", !.seeds = seeds, !.visited = seeds,
                                         !.queue = entries]
    /\ UNCHANGED <<db, writes>>

TooManyScored == Cardinality(search.visited) >= 2 * MaxActive

\* The next entry is too deep, or enough nodes are scored.
SkipEntry ==
    /\ search.pc = "spread"
    /\ search.queue # <<>>
    /\ Head(search.queue)[2] >= MaxDepth \/ TooManyScored
    /\ search' = [search EXCEPT !.queue = Tail(@), !.cut = @ \/ TooManyScored]
    /\ UNCHANGED <<db, writes>>

\* The relations of the next entry score their targets.  A target that was not scored is
\* queued, one that was is queued again where its score has risen.
SpreadEntry ==
    /\ search.pc = "spread"
    /\ search.queue # <<>>
    /\ ~(Head(search.queue)[2] >= MaxDepth \/ TooManyScored)
    /\ LET node == Head(search.queue)[1]
           depth == Head(search.queue)[2]
           rows == {r \in db.rows : r[2] = "stats" /\ r[1][1] = node /\ r[1][2] \in db.index}
       IN \E some \in Select(rows, FanOut) :
             LET targets == {r[1][2] : r \in some}
             IN \E risen \in SUBSET (targets \cap search.visited) :
                \E entries \in Entries((targets \ search.visited) \cup risen, depth + 1) :
                   search' = [search EXCEPT !.queue = Tail(@) \o entries,
                                            !.visited = @ \cup targets,
                                            !.edges = @ \cup {r[1] : r \in some},
                                            !.cut = @ \/ some # rows]
    /\ UNCHANGED <<db, writes>>

\* top_ids
EndSpread ==
    /\ search.pc = "spread"
    /\ search.queue = <<>>
    /\ \E top \in Select(search.visited, MaxActive) :
          search' = [search EXCEPT !.pc = IF top = {} THEN "done" ELSE "active",
                                   !.visited = top, !.cut = @ \/ top # search.visited]
    /\ UNCHANGED <<db, writes>>

\* The answer is of the nodes that are still in the index, and of so many edges.
FetchActive ==
    /\ search.pc = "active"
    /\ LET known == search.visited \cap db.index
           edges == {e \in search.edges : {e[1], e[2]} \subseteq known}
       IN \E some \in Select(edges, 2 * MaxActive) :
             search' = [search EXCEPT !.pc = "done", !.visited = known, !.edges = some,
                                      !.cut = @ \/ some # edges]
    /\ UNCHANGED <<db, writes>>

SearchStep ==
    \/ CheckGhost \/ Seeds \/ ReadRows \/ ReadSynaptic \/ Expand \/ ExpandGhost
    \/ FetchShades \/ EndSearch \/ FetchNodes
    \/ SeedSpread \/ SkipEntry \/ SpreadEntry \/ EndSpread \/ FetchActive

-----------------------------------------------------------------------------
(* Properties. *)

\* An activation follows relations from their source, the other searches either way.
Follows(kind, e, nodes) ==
    \/ e[1] \in nodes
    \/ kind # "spread" /\ e[2] \in nodes

Step(kind, edges, nodes) == nodes \cup EndsOf({e \in edges : Follows(kind, e, nodes)})

\* The reference: the nodes within n steps of the seeds.
Within(kind, seeds, edges, n) ==
    LET near[i \in Nat] == IF i = 0 THEN seeds ELSE Step(kind, edges, near[i - 1])
    IN near[n]

\* The tables that a search reads.
TablesOf(kind) ==
    CASE kind = "ghost" -> {"ghost"}
      [] kind = "spread" -> {"stats"}
      [] OTHER -> Synaptic \cup {"stats"}

EdgesOf(kind, d) == {row[1] : row \in {r \in d.rows : r[2] \in TablesOf(kind)}}

\* The search holds no more of the graph than it was allowed, however the depths and
\* the tables they read share the limits; an activation may hold the relations of one
\* node more than it goes on from, and answers no more than it was allowed.
SearchBounded ==
    IF search.kind = "spread"
    THEN /\ Cardinality(search.visited) < Most(2 * MaxActive, SeedLimit + 1) + FanOut
         /\ search.pc = "done" => /\ Cardinality(search.visited) <= MaxActive
                                  /\ Cardinality(search.edges) <= 2 * MaxActive
    ELSE /\ Cardinality(search.visited) <= MaxNodes
         /\ Cardinality(search.edges) <= MaxEdges

\* Nothing is answered that does not belong to the question: every node is within
\* the depth of a seed over edges that were committed while the search ran.
FoundNearby ==
    search.visited \subseteq Within(search.kind, search.seeds,
                                   EdgesOf(search.kind, search.ever), MaxDepth)

\* Where the search asks for the ends of an edge, they have to be there too.
Stays(kind, kept) ==
    {e \in EdgesOf(kind, kept) :
        /\ kind = "ghost" => {e[1], e[2]} \subseteq kept.shades
        /\ kind = "spread" => {e[1], e[2]} \subseteq kept.index}

StayingSeeds == IF search.kind = "spread" THEN search.seeds \cap search.kept.index
                ELSE search.seeds

\* The nodes within n steps that were there all the time.
Due(n) == Within(search.kind, StayingSeeds, Stays(search.kind, search.kept), n)

MetLimit ==
    \/ search.cut
    \/ /\ search.kind # "spread"
       /\ \/ Cardinality(search.visited) >= MaxNodes
          \/ Cardinality(search.edges) >= MaxEdges

\* A search that met no limit has found everything: whoever commits meanwhile, nodes
\* within the depth over edges that were there all the time are in the answer,
\* and the edges between them as far as their ends were asked for.
CompleteUnlessCut ==
    search.pc = "done" /\ ~MetLimit =>
        /\ Due(MaxDepth) \subseteq search.visited
        /\ {e \in Stays(search.kind, search.kept) :
               Follows(search.kind, e, Due(MaxDepth - 1))} \subseteq AnswerEdges

\* A search whose tables nobody changed, where every edge has the ends it asks for, and
\* that met no limit has found what the reference finds, neither more nor less.
ExactWhereUndisturbed ==
    /\ search.pc = "done" /\ ~MetLimit
    /\ Stays(search.kind, search.kept) = EdgesOf(search.kind, search.ever)
    /\ StayingSeeds = search.seeds
    => search.visited = Within(search.kind, search.seeds, EdgesOf(search.kind, search.ever),
                               MaxDepth)

\* What a search has before it: stages, depths, and the statements of its depth or the
\* entries that an activation has queued at the depth it is at.
StageOf(pc) ==
    CASE pc = "check" -> 4
      [] pc \in {"seeds", "kindle"} -> 3
      [] pc \in {"rows", "synaptic", "expand", "shades", "spread"} -> 2
      [] pc \in {"nodes", "active"} -> 1
      [] OTHER -> 0

StatementOf(pc) ==
    CASE pc = "rows" -> 4 [] pc = "synaptic" -> 3 [] pc = "expand" -> 2 [] OTHER -> 1

AtFirstDepth(queue) == {i \in DOMAIN queue : queue[i][2] = queue[1][2]}

Ahead ==
    IF search.pc = "spread"
    THEN <<2, IF search.queue = <<>> THEN 0 ELSE MaxDepth + 1 - search.queue[1][2],
           Cardinality(AtFirstDepth(search.queue))>>
    ELSE <<StageOf(search.pc), MaxDepth - search.depth, StatementOf(search.pc)>>

Less(a, b) ==
    \/ a[1] < b[1]
    \/ a[1] = b[1] /\ a[2] < b[2]
    \/ a[1] = b[1] /\ a[2] = b[2] /\ a[3] < b[3]

\* No search goes on for ever: each of its statements leaves less before it, though nodes
\* are queued again whenever their score rises, and no commit of others adds to it.
SearchEnds ==
    [][/\ SearchStep => Less(Ahead', Ahead)
       /\ \A new \in Commits : WriterCommits(new) => Ahead' = Ahead]_searchVars

=============================================================================
