---------------------------- MODULE OntologyForge ----------------------------
(***************************************************************************)
(* ontology_forge: run_ontology resolves the labels it extracts from the   *)
(* cleaned documents to concepts with UUIDs, in one transaction on a       *)
(* concept store, and then writes nodes.json and edges.json.  The resolver *)
(* reads the store into a cache before that transaction begins.            *)
(*                                                                         *)
(* Ticks of the daemon run one after another, on the store of data/memory; *)
(* requests for /api/ontology/run come at any time, on that of             *)
(* data/ontology; both write the same files.  A label stands for a name    *)
(* in contexts that the resolver takes for similar.                        *)
(***************************************************************************)
EXTENDS Naturals, FiniteSets

CONSTANTS
    Labels,
    Ids,           \* UUIDs
    Runs,          \* the daemon and the threads that serve requests
    Stores,        \* files canonical_concepts.sqlite3
    StoreOf,       \* the one each run opens
    None,
    MaxRuns,       \* ontologies are run so many times
    MaxFailures    \* runs fail, or end with the process, so many times

ASSUME OntologyForgeAssumption ==
    /\ StoreOf \in [Runs -> Stores]
    /\ None \notin Labels \cup Ids \cup Runs
    /\ MaxRuns \in Nat
    /\ MaxFailures \in Nat

VARIABLES
    durable,     \* the committed rows of each store
    view,        \* the rows as its writing connection sees them
    writer,      \* whose transaction is open on each store
    pc,          \* where each run is
    cache,       \* the counts in its resolver's cache, 0 for what is not there
    found,       \* the labels it has yet to resolve
    result,      \* the concept it resolved each label to
    files,       \* nodes.json and edges.json
    runs, failures

tables == <<durable, view, writer>>
local == <<pc, cache, found, result>>
vars == <<tables, local, files, runs, failures>>

Naming == [Labels -> Ids \cup {None}]

NoNames == [l \in Labels |-> None]

Uncached == [c \in Ids |-> 0]

\* Rows of concepts with their aliases (label None: no row) and, as a history,
\* how often each concept was resolved to.
Concepts == [label : [Ids -> Labels \cup {None}], count : [Ids -> Nat], uses : [Ids -> Nat]]

NoConcepts == [label |-> [c \in Ids |-> None], count |-> Uncached, uses |-> Uncached]

TypeOK ==
    /\ durable \in [Stores -> Concepts]
    /\ view \in [Stores -> Concepts]
    /\ writer \in [Stores -> Runs \cup {None}]
    /\ pc \in [Runs -> {"idle", "cached", "resolving", "resolved", "half written"}]
    /\ cache \in [Runs -> [Ids -> Nat]]
    /\ found \in [Runs -> SUBSET Labels]
    /\ result \in [Runs -> Naming]
    /\ files \in [nodes : Naming, edges : Naming]
    /\ runs \in Nat
    /\ failures \in Nat

Init ==
    /\ durable = [s \in Stores |-> NoConcepts]
    /\ view = durable
    /\ writer = [s \in Stores |-> None]
    /\ pc = [p \in Runs |-> "idle"]
    /\ cache = [p \in Runs |-> Uncached]
    /\ found = [p \in Runs |-> {}]
    /\ result = [p \in Runs |-> NoNames]
    /\ files = [nodes |-> NoNames, edges |-> NoNames]
    /\ runs = 0
    /\ failures = 0

\* Nobody has given this UUID to a concept.
Fresh(c) == \A s \in Stores : durable[s].label[c] = None /\ view[s].label[c] = None

-----------------------------------------------------------------------------
(* run_ontology. *)

\* Mutant: the resolver and its cache outlive the run.
BeginKeepsCache(p, labels) ==
    /\ pc[p] = "idle"
    /\ runs < MaxRuns
    /\ runs' = runs + 1
    /\ found' = [found EXCEPT ![p] = labels]
    /\ result' = [result EXCEPT ![p] = NoNames]
    /\ pc' = [pc EXCEPT ![p] = "cached"]
    /\ UNCHANGED <<tables, cache, files, failures>>

\* Labels are extracted, and EntityResolver loads its cache from what is committed.
Begin(p, labels) ==
    /\ pc[p] = "idle"
    /\ runs < MaxRuns
    /\ runs' = runs + 1
    /\ found' = [found EXCEPT ![p] = labels]
    /\ result' = [result EXCEPT ![p] = NoNames]
    /\ cache' = [cache EXCEPT ![p] = durable[StoreOf[p]].count]
    /\ pc' = [pc EXCEPT ![p] = "cached"]
    /\ UNCHANGED <<tables, files, failures>>

\* BEGIN IMMEDIATE, which waits for the write lock.
Lock(p) ==
    /\ pc[p] = "cached"
    /\ writer[StoreOf[p]] = None
    /\ writer' = [writer EXCEPT ![StoreOf[p]] = p]
    /\ pc' = [pc EXCEPT ![p] = "resolving"]
    /\ UNCHANGED <<durable, view, cache, found, result, files, runs, failures>>

\* _best_match: the concepts with this alias that are in the cache.
Matches(p, l) == {c \in Ids : view[StoreOf[p]].label[c] = l /\ cache[p][c] > 0}

\* _merge writes the count of the cache plus one.
Merge(p, l, c) ==
    /\ c \in Matches(p, l)
    /\ view' = [view EXCEPT ![StoreOf[p]].count[c] = cache[p][c] + 1,
                            ![StoreOf[p]].uses[c] = @ + 1]
    /\ cache' = [cache EXCEPT ![p][c] = @ + 1]

\* Mutant: a concept is created although there is one.
CreateAlways(p, l, c) ==
    /\ Fresh(c)
    /\ view' = [view EXCEPT ![StoreOf[p]].label[c] = l,
                            ![StoreOf[p]].count[c] = 1,
                            ![StoreOf[p]].uses[c] = 1]
    /\ cache' = [cache EXCEPT ![p][c] = 1]

\* _create, if nothing matches.
Create(p, l, c) ==
    /\ Matches(p, l) = {}
    /\ Fresh(c)
    /\ view' = [view EXCEPT ![StoreOf[p]].label[c] = l,
                            ![StoreOf[p]].count[c] = 1,
                            ![StoreOf[p]].uses[c] = 1]
    /\ cache' = [cache EXCEPT ![p][c] = 1]

\* resolve for one label.
Resolve(p, l) ==
    /\ pc[p] = "resolving"
    /\ l \in found[p]
    /\ found' = [found EXCEPT ![p] = @ \ {l}]
    /\ \E c \in Ids :
          /\ Merge(p, l, c) \/ Create(p, l, c)
          /\ result' = [result EXCEPT ![p][l] = c]
    /\ UNCHANGED <<durable, writer, pc, files, runs, failures>>

\* The end of the transaction.
Commit(p) ==
    /\ pc[p] = "resolving"
    /\ found[p] = {}
    /\ durable' = [durable EXCEPT ![StoreOf[p]] = view[StoreOf[p]]]
    /\ writer' = [writer EXCEPT ![StoreOf[p]] = None]
    /\ pc' = [pc EXCEPT ![p] = "resolved"]
    /\ UNCHANGED <<view, cache, found, result, files, runs, failures>>

\* Mutant: the nodes are written before the transaction is committed.
WriteNodesEarly(p) ==
    /\ pc[p] = "resolving"
    /\ found[p] = {}
    /\ files' = [files EXCEPT !.nodes = result[p]]
    /\ UNCHANGED <<tables, local, runs, failures>>

\* nodes.json is overwritten.
WriteNodes(p) ==
    /\ pc[p] = "resolved"
    /\ files' = [files EXCEPT !.nodes = result[p]]
    /\ pc' = [pc EXCEPT ![p] = "half written"]
    /\ UNCHANGED <<tables, cache, found, result, runs, failures>>

\* edges.json is overwritten: its edges connect concepts that were resolved.
WriteEdges(p) ==
    /\ pc[p] = "half written"
    /\ files' = [files EXCEPT !.edges = result[p]]
    /\ pc' = [pc EXCEPT ![p] = "idle"]
    /\ UNCHANGED <<tables, cache, found, result, runs, failures>>

\* A locked database, another exception or the end of the process: the
\* transaction is rolled back, files stay as they are.
Fail(p) ==
    /\ pc[p] # "idle"
    /\ failures < MaxFailures
    /\ failures' = failures + 1
    /\ pc' = [pc EXCEPT ![p] = "idle"]
    /\ \/ /\ pc[p] = "resolving"
          /\ view' = [view EXCEPT ![StoreOf[p]] = durable[StoreOf[p]]]
          /\ writer' = [writer EXCEPT ![StoreOf[p]] = None]
       \/ pc[p] # "resolving" /\ UNCHANGED <<view, writer>>
    /\ UNCHANGED <<durable, cache, found, result, files, runs>>

Next ==
    \/ \E p \in Runs : \E labels \in (SUBSET Labels) \ {{}} : Begin(p, labels)
    \/ \E p \in Runs : Lock(p)
    \/ \E p \in Runs : \E l \in Labels : Resolve(p, l)
    \/ \E p \in Runs : Commit(p) \/ WriteNodes(p) \/ WriteEdges(p)
    \/ \E p \in Runs : Fail(p)

Spec == Init /\ [][Next]_vars

-----------------------------------------------------------------------------
(* Properties. *)

\* Only one run opens this store, as the daemon's lock makes it be for its own.
Alone(s) == \A p, q \in Runs : StoreOf[p] = s /\ StoreOf[q] = s => p = q

\* A store that runs use one after another gives a label no second UUID, wherever
\* they fail: synapses of the daemon are reinforced, not multiplied.
OneConceptWhereAlone ==
    \A s \in Stores : Alone(s) =>
        \A c, d \in Ids :
            durable[s].label[c] = durable[s].label[d] /\ durable[s].label[c] # None => c = d

\* And its counts are those of the resolutions that were committed.
CountsWhereAlone ==
    \A s \in Stores : Alone(s) => durable[s].count = durable[s].uses

\* Whoever shares a store, no concept counts more than it was resolved to.
NeverOvercounts ==
    \A s \in Stores, c \in Ids : durable[s].count[c] <= durable[s].uses[c]

\* The files name concepts that are committed, under the label they have: a run
\* that fails leaves no trace in them.
Named(names) ==
    \A l \in Labels : names[l] # None => \E s \in Stores : durable[s].label[names[l]] = l

FilesNameConcepts == Named(files.nodes) /\ Named(files.edges)

=============================================================================
