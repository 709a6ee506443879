# Verification of the Homage local learning engine

Homage keeps a graph of what it has learned on the user's own machine: files that
are dropped into a directory become an ontology, the ontology strengthens a table of
synapses and a memory index, questions are answered from both, and fragments of
other machines' graphs may join them.  This directory holds TLA+ models of the parts
of it in which order matters, TLC configurations that check them on small instances,
and theorems, with proofs for TLAPS, that hold for every value of the constants.

`tlc -config X.cfg M` repeats a run of the table below, `tlapm M.tla` a proof.

## 1. The system

| Component | Source | State it keeps | Operations |
|---|---|---|---|
| Learning daemon | `packages/knowledge_bakery/knowledge_bakery/learning_daemon.py` | `_lock`, `_stop_event`, `_worker_thread`, `daemon_state.json`, checkpoints | start, resume, stop, checkpoint, tick, autostart, the worker's loop |
| Raw ingestion | the same | `data/raw`, `data/cleaned`, `ingest_batches`, the tables `synaptic_nodes`, `synaptic_edges`, `ingested_files` of `homage.db` | `ingest_raw_documents`, the rebuild decision of `tick_daemon` |
| Synapse decay and the mirror | the same | the synaptic tables, the relations of an optional Neo4j database | `run_synaptic_decay`, `_upsert_sqlite_synapses`, `_Neo4jSink` |
| Memory index | `knowledge_bakery/memory.py` | the other tables of `homage.db`, `events.jsonl` | `build_memory`, `memory_status`, `activate_memory`, `drift_check` |
| Working memory and replay | `packages/rag_engine/rag_engine/replay_daemon.py` | `working_memory_edges`, the long-term edges | ingest a fragment, consolidate, a background loop that nothing starts |
| Edge broker | `apps/api/app/services/edge_compute_broker.py` | none | advertise capacity, consolidate when idle |
| Hybrid network | `apps/api/app/services/hybrid_network_manager.py` | none between requests | discover peers, fetch fragments through transports in order, validate |
| Self-correction | `rag_engine/self_correction.py` | `peer_trust.json` | verify a fragment, lower a peer's trust |
| Ontology forge | `packages/ontology_forge/ontology_forge/` | the concept store, `nodes.json`, `edges.json` | resolve concepts, extract triples |
| Graph store, retrieval, ghost graph | `rag_engine/graph_store.py`, `retriever.py`, `ghost_graph.py` | none, they read | bounded breadth-first searches |
| DataGate | `packages/datagate/`, `services/datagate_service.py` | the status of the last run, a pending configuration | filter `data/raw` into `data/cleaned` and `data/rejected` |
| Alpha services, routers | `apps/api/app/services/alpha_services.py`, `apps/api/app/routers/` | five status objects under `_lock` | run the ontology, build the memory, answer a question, check a draft, bake; one thread of a pool per request |
| Predecessor of the daemon | `knowledge_bakery/daemon.py` | superseded by `learning_daemon.py`; nothing imports it | |
| Crash safety | `apps/api/app/services/crash_safety.py`, `database.py` | `homage.db.bak`, which nothing reads | SQLite pragmas, a snapshot of each database at every start |
| Planner, utterance engine, guard, trainer, web search, factory, web and desktop shells | `packages/neuro_efficiency`, `rag_engine/utterance_engine.py`, ... | none that is shared | |

The FastAPI process runs everything.  Requests are served by threads of a pool (the
routers' plain functions) or by coroutines that push their work to threads with
`asyncio.to_thread`; the daemon's worker is a thread of its own.  They share the
module globals of `learning_daemon.py`, the files under `data/` and the SQLite database
`homage.db`, through one connection per call.  `learning_daemon._lock` serialises
the daemon's operations among themselves, and nothing else: `/decay`,
`/api/memory/build`, consolidation and retrieval run beside it, serialised only by
SQLite's single writer, statement by statement or transaction by transaction.

What is hard in it: threads that race through start, stop and tick; a state file
that is read at the beginning of a long operation and written at its end;
transactions that are committed after a number of rows or of seconds, not where
the work has a natural end; a process that may end anywhere, with part of the effects
on the file system and part in a transaction; caches and selections read before a
transaction begins; searches that read a database in many SELECTs while others commit;
status objects that overlapping operations overwrite; two components that put files
into one directory; time limits that give up waiting for threads that go on.
`PROJECT.json` lists each of these hazards at its line.

### What makes each part correct

* Daemon: one worker at a time; a stop that is seen, and is never taken back; no
  round and no checkpoint lost from the state file; no request that waits for ever.
* Ingestion: a recorded file has its synapses, a recorded file is learned once, and
  the index catches up with every file, wherever ticks are cut short.
* Memory index: what a build found is there when it has finished, whatever other
  builds do; readers never find the tables emptied; the index catches up.
* Working memory: nothing is forgotten, nothing counts twice, every sure edge moves
  in the end, with its evidence.
* Ontology forge: one label, one concept; counts that are right; files that name
  concepts that are committed.
* Synapses: committed edges have their nodes; no learned count is lost; decay comes
  once in an interval, and what is not learned again is forgotten; Neo4j is not behind
  as long as its calls arrive.
* DataGate: each run with the configuration of its request; outputs that agree with
  their list; no text accepted twice; a request is refused only while a run goes on.
* Searches: within their limits; nothing that was not near; everything that was, if no
  limit was met.
* Alpha services: no question shows anything of another's; nothing is left "running".
* Hybrid network and self-correction: the best offers first, every usable transport
  before a peer counts as failed, one penalty for each contradiction, an answer for
  every request.

## 2. Modules

Each component has a module with its state and actions, a module of proofs that extends
it, and an `MC` module that gives the small sets their values.  Most `MC` modules extend the
proofs, so that a run can check the inductive invariant as well; the services (the
questions and searches of `AlphaService`, and `DataGate`) share `ServiceProofs`.  Operators marked
*Mutant* in a comment are the plausible bugs that the properties were tried against;
nothing uses them.

| Module | Models | Composed of |
|---|---|---|
| `LearnerLease` | what the daemon promises about its learner (abstract) | |
| `LearningDaemon` | `learning_daemon.py` 33-167, 233-234, 791-1015 | implements `LearnerLease` through `Lease == INSTANCE` |
| `RawIngest` | `learning_daemon.py` 170-313, 410-520, 636-736, 857-931 | |
| `MemoryBuild` | `memory.py` `build_memory`, `memory_status` | |
| `ReplayLedger` | what working memory promises to the readers of `homage.db` (abstract) | |
| `WorkingMemory` | `replay_daemon.py` up to the background loop | implements `ReplayLedger` through `Ledger == INSTANCE` |
| `OntologyForge` | `runner.py` `run_ontology`, `entity_resolver.py` | |
| `PeerTrust` | `self_correction.py` 307-420 | |
| `FragmentResolver` | `hybrid_network_manager.py` `resolve_cloud_knowledge` and below | extends `PeerTrust` |
| `SynapseStore` | `learning_daemon.py` 410-520 row by row, `run_synaptic_decay`, its callers, and the merges of `replay_daemon.py` | |
| `SynapseMirror` | `learning_daemon.py` `_Neo4jSink` and who calls it | extends `SynapseStore` |
| `DataGate` | `packages/datagate`, `services/datagate_service.py`, `routers/datagate.py` | |
| `GraphSearch` | `graph_store.py` `query_lazy_subgraph`, `ghost_graph.py` `GhostTopology.query`, `memory.py` `activate_memory` | |
| `AlphaService` | `services/alpha_services.py` | extends `GraphSearch` |

The exact lines of every definition are in the "map" of `PROJECT.json`.

### LearningDaemon

`lock`, `stopEvent`, `thread` and `file` are `_lock`, `_stop_event`, `_worker_thread` and
`daemon_state.json`, the latter with its state, its `desired_running`, its
`total_rounds` and the round of its last checkpoint.  `pc` says where each thread is:
a request of a router between its steps, the worker between those of
`_async_worker_loop`.  Code that runs with the lock held and blocks on nothing else is
one action (`Start`, `StopRequest`, `SaveCheckpoint`, `GuardedTick`); a round is two, for
it is long: `TickEnter` reads the file into `seen`, `TickLeave` writes it back.
`StopRaises` is a stop that sets the event and then cannot write the file.
`StopJoin` is `join(timeout=2)`, which ends with the worker or before it.  `Crash` is the
end of the process at any point, `BootAutostart` and `BootPlain` the import of the
module afterwards.  `done` and `lapsed` are history: the rounds completed, and whether an
exception or the end of the process took the worker, or a stop that raised sent it
away, without the file having been told.

### RawIngest

A document is a fingerprint; `raw`, `cleaned` and `batch` count its files in each
directory.  `durable` is what is committed and `view` what the ingesting connection
sees: `Commit` makes the one the other, and happens at `MarkRow` and `MarkFile` either
because `FlushRows` or `FlushFiles` were reached or at any time, for `_AutoFlush` also
looks at the clock.  The two counters of pending rows are separate, as in the code,
though the transaction is one.  `CutShort` is an exception or the end of the process:
files stay where they are and `view` is rolled back.  `MemoryBuild` is one action here
(`Learn`, `Rebuild`), so that the question is whether it is called with the right inputs.

### MemoryBuild

Builders are request threads and the daemon.  `Reset` opens the transaction that
empties the tables, `Read` lists the inputs after that, `ImportItem` and `WriteTerm` are
the two passes, each row of which goes through `Mark` (the flush by number or by
time), `Finish` is the last commit.  A writer keeps SQLite's write lock from its first
statement to its commit (`writer`).  `emptied` and `finished` are history kept in the
tables, so that a rollback takes them back too.

### WorkingMemory

`Ingest` is one transaction.  A consolidation is `Count` and `Select`, two SELECTs outside
any transaction, `Merge` for each row, the first of which begins the transaction, and
`Clear`, which deletes by `edge_id` and commits.  Counts stand for evidence; `sure` for
`confidence >= replay_min_confidence`, which the code only ever raises.

`ReplayLedger` has a consolidation as one step: a batch leaves the working memory and each
of its edges gains long-term evidence, between one piece and all that was ever ingested.
`Count`, `Select`, `Merge` and `Abort` leave the ledger alone, and `Clear` is that step,
whatever other consolidations and ingestions came between the selection and it.

### OntologyForge

`Begin` loads the resolver's cache from what is committed, `Lock` is BEGIN IMMEDIATE,
`Resolve` merges with a concept of the cache or creates one, `Commit` ends the
transaction, `WriteNodes` and `WriteEdges` overwrite the two files.  The daemon opens
the store of `data/memory`, requests that of `data/ontology` (`StoreOf`).

### PeerTrust and FragmentResolver

A file is the set of the tables whose bytes are in it: `{}` was just truncated, `{s}` is
readable, more is torn.  `Reads` is what `json.loads` makes of it: a torn one is
nobody's scores, so that every peer has all trust again, or, if it ends within a
character, a UnicodeDecodeError that nothing below the verification catches
(`RejectRaises`, `ContradictRaises`).  `Reject` reads and lowers, `Open` truncates the one temporary
file that all threads use, `Write` writes wherever the file it opened is by then (a
handle follows a rename, see `Renamed`), `Replace` renames; `ReplaceFails` is the
FileNotFoundError of a thread whose file another one has renamed, and `DiskFails` an
OSError of any step.

`FragmentResolver` extends it: `Discover` takes any set of offers (`offered`, history)
through `Deduped` and `Cut`, or ends the request if a provider raises where nothing
catches it (`DiscoverRaises`); `Ask` takes the best hint that is left, `Try` the next transport in the order of
`_ordered_transports`.  A fragment is not there or not valid (`FetchFails`), is accepted
(`Accept`), or contradicts the graph: `Contradict` is the step of the resolver that is
`Reject` for the trust, and `Block` the one that ends the lowering, in whichever way,
and lets the next transport have its turn.

### SynapseStore and SynapseMirror

`durable` and `view` are as in RawIngest, and here hold the tables' contents: a count for
each node, a weight for each edge and writer (the daemon and the replay give one
triple different keys).  `SelectNode` and `UpsertNode` are the SELECT of a node's count
and the INSERT that writes the number made of it; they are two actions because the
SELECT of the first row of a transaction is outside it.  `Mark` flushes at any row, as
`_AutoFlush`'s clock may.  `DecayTables` is the one transaction of
`run_synaptic_decay`; `TickDecay` takes it in a tick, which leaves "decayed" with `TickEnds`,
where the state file says so, and `RequestDecay` whenever no transaction is open.
`Replay` is one merge of a consolidation, which makes a row of `ReplayWeight` or
strengthens one by `ReplayGain`, up to `Full`.  `learned`, `ever`, `swept` and `spent` are
history.

`SynapseMirror` joins to these steps what is sent to Neo4j: `Potentiate` and `Decay` owe
a call, `SendUpsert` and `SendDecay` make it, `Ask` and `SendAsked` are those of a request,
`SendFails` and `AskedFails` their failures, and `Quietly` marks the steps that send
nothing.  `Mirrored` is what the Cypher statement does, row by row of its UNWINDs.
`apart` is history: whether a call was lost or has overtaken another, or a relation has
outlived its row.

### DataGate

`raw` gives each path its text, of which identity and duplicates go by the normalized
`Form` and length and shares by the text itself; `cleaned` tells the files of DataGate from those that the
learning daemon moved into the same directory.  A run is a record in `run`: `Accept` is
`start_run` under the lock, `Keep` the assignment of `_pending_config` after it, `RunPending`
the background task that reads it, `Discover` the listing, `Filter` one file through the
chain, `Clear` and `RemoveOutputs` the `rmtree` of the outputs, which fails if the daemon puts a
file there in between, `Write` a file, `List` documents.jsonl, `Report` the status.
`DaemonMoves` always finds the directory, for the daemon makes it itself right
before the move (`learning_daemon.py:411`).  `RunFails` is an exception at any of these, `Crash` the end of the process, either of which
may leave a part of documents.jsonl (`Torn`).

### GraphSearch and AlphaService

`db` is what is committed; `WriterCommits` replaces it between any two SELECTs.  `search`
is the one in progress: `CheckGhost` decides for the ghost tables, `Seeds` is any set within
the limits of nodes that were there at some time since the search began (`SeenNodes`;
each term has a SELECT of its own, and others commit between them), `ReadRows` and `ReadSynaptic` are the two SELECTs of a depth with
what of the LIMIT each has, `Expand` makes the next frontier of them, and `FetchNodes` reads
the nodes at the end.  `StartSpread` to `FetchActive` are the activation of the
memory, which goes along a queue instead.  `kept`, `ever` and `cut` are history: the rows
there all the time and at any time of the search, and whether a limit was met.  An edge is
a triple, so that two relations of one pair are two rows of a LIMIT.

`AlphaService` has one record for each of the five status objects and one for each
request.  `Begin` marks the object as running under the lock, `Succeed` and `Fail` make the
new status from what the object is by then, `Publish` puts it in place and answers.  A
question goes through `Search`, `ReadChunks`, `Recall`, `Route` and `WebAnswers`, a draft through
the first two.  Values are not modelled: a field holds the request it came from.  Questions
follow one another, for `query_graphrag` runs on the event loop and awaits nothing that
gives it back (the only await is `search_web`'s, a coroutine without one of its own), while
the operations in threads overlap.

## 3. Runs

| Run | Instance | What it shows |
|---|---|---|
| `daemon` | 2 clients, 2 workers, 2 rounds, autostart; 11 426 states | one worker, no lost round, a wanted daemon is served, stops stick and take effect, requests return, the lease is implemented |
| `guard_stop` | 1 client, 1 round | **violated**: a tick of a request meets the resource guard and the worker, whose own look comes later, goes on |
| `ingest` | 2 documents of 3 rows, 3 drops, 2 faults; 157 233 states | a record implies its rows, a file is learned once and once more for each fault, the index catches up |
| `ingest_lost` | 1 document, 1 fault | **violated**: a tick cut short after the move loses the file's synapses |
| `working` | 2 edges, 2 consolidations, 3 fragments, 1 abort; 173 815 states | nothing is forgotten, once per consolidation, sure rows drain |
| `index` | 2 items, 2 terms, a request and the daemon, 2 requests, 1 failure; 100 262 states | finished builds stay, never emptied, catches up, is repaired |
| `forge` | 2 labels, 4 UUIDs, the daemon and 2 requests on 2 stores, 3 runs, 1 failure; 37 447 states up to symmetry | one concept and exact counts where a store is not shared, no count too high where it is, files name what is committed |
| `resolver` | 2 requests, 4 offers about 3 peers of which 2 may be asked, 2 transports, trust 3, penalty 2, 2 contradictions of one peer and 1 of another, 1 disk failure; 249 825 states | the best offer of each peer, the best first, every transport tried, no penalty twice, exact while threads do not meet, every request answered |
| `synapses` | 2 nodes, 1 edge, 2 ontologies, 1 consolidation, 2 merges of a replay, a request's decay and the ticks', 1 fault; 1 029 688 states | edges keep their nodes, learned counts stay, one decay in an interval, Neo4j keeps up, what is not learned again is forgotten |
| `mirror_agrees` | the same | **violated**: a potentiation adds the increment to Neo4j once for each node of the ontology |
| `datagate` | 2 requests, 2 files, 3 texts of 2 forms, 2 configurations, 2 drops; 210 381 states | a run's configuration is its request's, the list agrees with the directories, nothing accepted twice, every run ends |
| `services` | 2 requests of any kind, 5 nodes, 6 edges of 2 relations, 1 commit of others; 766 628 states | questions keep apart, "running" is true, searches keep their limits, find what is near, and all of it |

The inductive invariant of each component (`IInv`; `ServiceIInv` of the questions), which
includes its type invariant, was model-checked on the same instances before it was proved;
a configuration lists what is a property of the code.

### The bounds, and why they are enough

Every bound is a constant with a name, and only guards an input (a drop, a fragment,
a request, a fault) or caps a counter (`Bump`), never a step of the code.

* `daemon`: two clients are the least that race with each other and with the worker;
  two worker identities are the least that can break `AtMostOneWorker`, and one is
  reused once it is dead, so starts and crashes are unbounded.  `MaxRounds = 2`
  distinguishes a file that lost a round from one that did not, before the cap.
* `ingest`: three rows with `FlushRows = 2` flush in the middle of a file and leave one
  row pending at its end; three drops of two documents make a duplicate within one
  batch and across ticks; two faults cut a file short, and cut short its second try.
* `working`: a share of 30 % of two rows rounds to none without the lower bound, and is
  less than all rows with it; three fragments reinforce a row before, during and
  after a selection.
* `index`: `FlushAfter = 2` commits in the middle of a pass, and one term is mentioned by
  both items and one by the second only, so that a row made of one item differs from
  a row made of both.  Two requests and the daemon overlap three builds.
* `forge`: three runs are one that fills a store, one that loads a stale cache and one
  that reuses what both left; with four UUIDs two requests that do not see each
  other's concepts give both labels a second one on the shared store.  A run that
  finds no UUID left goes no further, which a safety property does not mind.
* `resolver`: one peer is offered twice with different scores and ways to be asked, and
  with two others that is one more than `MaxHints`, so that the limit cuts; two
  contradictions of one peer and one of the other, at trust 3 and penalty 2, let two threads
  meet at the file while there is trust to lose (3 to 1, and to 0 by the lower bound) and a
  third one read what they left, a torn file included: a penalty taken twice, or
  scores that start below full trust, would show.
* `synapses`: two ontologies strengthen a row that exists; a weight of 2 halves to 1 and
  then to none, so that rows are weakened and pruned; the request prunes by a
  threshold above a fresh weight and so deletes nodes in the middle of an ontology; two
  merges of a replay meet the full weight.
* `datagate`: two files may hold one text, or texts of one form of which one is too short
  and the other is not, so that the order of the filters and the set of what was seen
  matter; `strict` and `lax` reject one text for different reasons; two drops
  put a file back where one was taken away.
* `services`: the databases of `MCCommits` have a row in one table or several, a node
  missing from the index, an edge of which only the replay knows, and ghost tables that
  appear or lack a shade; paths longer than `MaxDepth = 2` have ends that are too
  far; with five nodes and a pair of two relations `MaxNodes = 4`, `MaxEdges = 4` and
  `LeastRows = 3` are met by some searches and not by others, so that
  `CompleteUnlessCut` speaks of complete searches of two steps too.

### What the violated runs say

Each checks one property that a document or test of the repository states and that the
code does not keep; `PROJECT.json`, "findings", quotes the line and names the one of the
code.

Other sentences of the documents are not kept either, and the properties are weaker than
they are for that reason:

* Two consolidations that overlap select one edge and merge it once each
  (`replay_daemon.py:422`), though `docs/LONG_RUN_STABILITY_PLAN.md:85` wants every stage to
  be idempotent: `OncePerReplay` is about one consolidation.
* A fragment that reinforces a selected edge before its DELETE is deleted with the row
  (`replay_daemon.py:438`; `docs/CLOUD_BRAIN_ARCHITECTURE.md:214`): `NeverForgotten` is
  about edges, not about evidence.
* A part of an index is called completed (`memory.py:758`; `README.md:85`):
  `IndexIsRepaired` holds where no request builds, `IndexCatchesUp` where none fails.
* Runs on a store that others share give a label several UUIDs (`entity_resolver.py:143`;
  `docs/LONG_RUN_STABILITY_PLAN.md:85`): `OneConceptWhereAlone` is about stores that are not.
* Files are named by the hash of their text, so that three files of one text make one in
  `data/cleaned` and one in `data/rejected`, and `docs/HANDOFF_CLAUDE.md:224`'s
  `len(cleaned) + len(rejected) == total` fails: `ListedIsFiled` compares names, not numbers.
* A run of DataGate deletes `data/cleaned` (`datagate/io.py:64`), from which the daemon
  rebuilds ontology and index (`learning_daemon.py:735-736`, `886-895`): what had been
  learned is missing from the next build.  `MemoryCatchesUp` and the four
  properties of `index` are about inputs that only grow, that is, about a system in which
  nobody runs DataGate on the daemon's directories.
* An exception ends the daemon's worker while the file says it is wanted
  (`learning_daemon.py:936`): `DesiredHasWorker` is about workers that no exception and no
  raising stop has sent away (`lapsed`).  Likewise `EdgesKeepNodes` leaves out the nodes that
  a decay deleted in the middle of an ontology (`swept`), `MirrorKeepsUp` what an overtaken
  or lost call concerns (`apart`), and `ExactWhereApart` all that follows two threads'
  meeting (`tangled`); the hazards in `PROJECT.json` say so where they bite.
* A provider of hints that raises inside the handler of AttributeError
  (`hybrid_network_manager.py:535`) leaves its request without an answer: `Answers` begins
  at the end of the discovery.
* An object of the services may say "completed" while another operation is at work on it:
  `RunningIsTrue` is one direction, and `QuestionsApart` is about questions only.

## 4. Fairness

| Module | Assumed | Why the code justifies it |
|---|---|---|
| `LearningDaemon` | SF of each worker's and each begun request's step | Every wait in them has a time limit or is for `_lock`.  An RLock is not fair, but it is released after every round, and a thread that asks again and again obtains it; weak fairness would let requests starve the worker's look at the event for ever.  No request has to come, no crash, no boot. |
| `RawIngest` | WF of `TickStep`; for each document SF of a scan that takes it | The worker ticks at an interval, or somebody resumes it after an exception; a file becomes old enough. |
| `WorkingMemory` | SF of each consolidation's step | Consolidation is asked for again and again, by requests of its own and by each one that advertises the idle machine; SQLite's write lock is held briefly. |
| `MemoryBuild` | WF of `Tick` and `Remember`, SF of each build's step | As above; a build that waits for the write lock obtains it or fails. |
| `OntologyForge` | none | Safety only. |
| `FragmentResolver` | WF of each request's step | Every fetch has a time limit, and nothing else waits. |
| `SynapseMirror` | WF of `TickStep`, of `TickNoDecay` and of `Interval`, SF of a tick's decay | The worker ticks at an interval, asks for decay in each tick, and time passes; a request may tick without decay in between, and SQLite's write lock may be taken at the moment, but neither for ever.  No request, no fault. |
| `DataGate` | WF of each run's step or failure | A background task that has begun goes on until it returns or raises. |
| `AlphaService` | none | Safety only. |

`CHECK_DEADLOCK FALSE` stands where all inputs of the instance may be used up.

## 5. Proofs

`tlapm M.tla` proves every theorem of a module from its named assumptions: the
constants are disjoint where identities must differ, sets that are counted are
finite, and limits are natural numbers (or positive, where the code divides by or
counts up to them).  The bounds of the model are natural numbers of any size, so the
theorems hold for any number of threads, documents, rows, faults and the rest.

Every module's argument is the same: `Init => IInv`, a lemma for each action that
`IInv` is kept, `IInv` implies the property.  What is proved, and why the property
alone is not inductive:

* **LearningDaemonProofs** - `DaemonInvariant`, `OneWorker`, `NoRoundLost`, `WantedIsServed`,
  `StopSticks`, `LeaseSafety`.  `NoRoundLost` needs `SeenIsFile` (nobody writes the file under
  a round, because a round holds the lock: `RoundsExclusive`); `WantedIsServed` needs
  `StateAgreesWithWish` (a worker that reads "failed" and leaves is not wanted) and
  `DownIsAtRest`.  `LeaseSafety` is the safety part of the refinement: each step of the
  daemon is one of `LearnerLease` or a stutter.
* **RawIngestProofs** - `IngestInvariant`, `RecordedHasItsRows`, `LearnsOnce`, `RecordStays`.  The
  invariant follows the file in hand: `LearnedIsThere` says which of its rows are
  there and that they are committed unless rows are pending, `LearnedOnce` bounds
  them by the faults, `ViewExtendsDurable` relates the transaction to what is
  committed, so that a rollback may restore it; `InHandIsNew` is why a record is not
  learned over, and `CandidatesExist` why a move finds its file.
* **WorkingMemoryProofs** - `WorkingMemoryInvariant`, `KnownForEver`, `MergesOnce`,
  `LeavesWhenMerged`, `ReplayIsAtomic`.  `ViewIsMerging` says exactly what an open transaction has added,
  `SelectionHeld` what a consolidation may still merge, `SelectionIsBacked` that a
  selection, however stale, asks for no more than was ingested.  `ReplayIsAtomic` is the
  refinement of `ReplayLedger`; what it needs beyond `IInv` is `BatchHeld`, that whoever
  merges has selected something and nobody more than a cycle may take, an invariant
  relative to `IInv`.  `ImplementsLedger` and `BatchHeld` were model-checked on the
  instance of `working`, and with `MaxEdges = 1`.
* **MemoryBuildProofs** - `MemoryBuildInvariant`, `FinishedStays`, `NeverEmptied`.  `BuildsProgress`
  says what each overlapping build has put into the tables *if nobody has emptied
  them since*; `TakesNothing` that an open transaction either adds, or has emptied
  tables it will refill with at least what was there, for the inputs only grow
  (`FromCorpus`).
* **OntologyForgeProofs** - `ForgeInvariant`, `OneUUID`, `CountsExactly`, `CountsAtMost`,
  `FilesFollowCommits`.  `CacheIsOld` holds for everybody, `AloneCache` (the cache *is* the
  store) for a run that is alone on its store; `ResultNamed` carries what was resolved
  from the transaction to the files.
* **FragmentResolverProofs** - `ResolverInvariant`, `AsksBestFirst`, `TriesEveryTransport`,
  `PunishesOnce`, `AddsUpApart`.  That the best offer of a peer is the one kept is no matter of
  one step: `KeptStays` carries it through the asking of the others.  `NeverOverpunished` is about every table anywhere, in a file,
  torn or in a thread's hands, which makes it inductive in spite of every overlap;
  `Untangled` says whose the exact table is while threads stay apart; `AskHeld` ties
  `untried` and `tried` together.

* **SynapseMirrorProofs** - `SynapseInvariant`, `EdgesHaveNodes`, `CountsKeepLearning`,
  `DecayIsSpentOnce`, `MirrorIsFollowed`, `Neo4jKeepsUp`.  `Good` holds of `durable` *and* of `view`, because a flush makes the one
  the other at any row; `WrittenIsKept` says that the ends of the edges still to be
  written are there, or swept, and `SeenIsBracketed` that a count in hand, however stale,
  lies between what was learned and what was ever added.  The theorems are about
  `MirrorSpec`: a step of the mirror is one of the store or leaves it alone, but for the
  faults it counts.  `Neo4jKeepsUp` needs `Follows`: an edge of the ontology in hand is
  ahead of its relation by one potentiation at most (`AheadByOne`), a decay that has still to be
  sent takes no relation below its row (`WeakenedCovers`; `ScaledMonotone`: scaling keeps the
  order of weights), and otherwise row and relation are there together (`Covers`).  Without
  the last a relation that outlived its row would gain the increment where the row starts
  at `Fresh`, and fall behind.  That an ontology has a node, and finitely many, makes the Cypher
  merge its edges at least once (`SendsSomething`).
* **ServiceProofs**, the questions - `ServiceInvariant`, `ServiceQuestionsApart`,
  `ServiceRunningTrue`, `ServiceSearchBounded`, `ServiceFindsNearby`, `ServiceFindsAll`,
  `ServiceFindsExactly`, `ServiceSearchEnds`.  The search
  has an invariant of its own, `SearchIInv`, which every statement of it and every commit of
  others keep.  `Shape` says which fields matter at which statement.  `Between` puts what was
  there all the time below the tables and these below what was ever there, so that a row that
  is read *was* there, and one that stays *is* read.  `Bounded` carries what the first SELECT
  of a depth leaves to the second one and to the new edges.  `Found` has the frontier within
  `depth` steps, which is what makes the nodes of the next one near.  `Complete` is the frontier
  argument: unless a limit was met, all that is due in `depth` steps has been visited, and
  of that only the frontier has still to be followed.  An activation has a queue instead:
  `Spreading` says that it is ordered by depth, that whatever is visited but not followed
  yet has an entry in it, and what is due at the depth of the first entry one of that
  depth (`Pending`), although risen nodes are queued again behind others; so an empty
  queue has nothing left out (`ExhaustedFinds`).  Where nothing it reads changes meanwhile, what
  is found is exactly what is near (`ExactWhereUndisturbed`).  `SearchEnds` takes the place of
  termination: every step of a search lowers `Ahead`, its depths, statements and entries
  still to come, in lexicographic order, so no chain of risen nodes keeps an activation
  going for ever, though they are queued again (`QueueShrinks`).  No run lists these
  two; they were model-checked on the instance of `services`.
  `Within` is the reference, a recursive function over the length of a path, and what is
  needed of it (`WithinGrows`, `WithinClosed`, its monotony in seeds and edges) is
  proved by `SetInduction`.  Around the search `OwnQuestion` says of
  each question what the status in its hands and the shared one hold, which is its own
  because no other is at work (`OneQuestion`): `QuestionsApart` alone does not say what a
  question that has not been answered yet holds.  A step of one request can only
  take the others' work away from an object by overwriting "running" (`OneMoves`).
* **ServiceProofs**, DataGate - `DataGateInvariant`, `AlwaysRunsAsAsked`, `AlwaysListedIsFiled`,
  `AlwaysAcceptedOnce`.  `ActiveIsReported` makes the status a lock, so that one run at most
  is active and what it knows of `_pending_config` and the directories (`Configured`,
  `Filed`) is disturbed by nobody; `Listed` says that accepted texts are among those seen
  and that listed files are not to be read again.

Every invariant and every action property of the runs is a theorem.  Only model-checked are
the liveness properties (`StopTakesEffect`, `RequestsReturn`, `MemoryCatchesUp`, `Drains`,
`IndexCatchesUp`, `IndexIsRepaired`, `Answers`, `Forgets`, `RunsEnd`) and `ImplementsLease` with its
fairness, for liveness and ENABLED are out of the prover's reach.  The library's induction
theorems, which take an operator, are out of its reach too; `SetInduction` states induction
over the numbers with a set instead, and follows from the least element of what is
not in it (`WFMin`).

## 6. What is not modelled

* Inside the modelled parts: values that no decision depends on (confidences, scores,
  timestamps), the rewriting of `events.jsonl`, status answers of the daemon.  `RawIngest`
  counts potentiations, which decay, in `SynapseStore`, weakens or deletes with the row;
  `SynapseStore` rounds weights down where the code keeps floating-point numbers, and
  leaves out the nodes of Neo4j.  In `MemoryBuild` a term's row may be stale after
  builds that overlapped: `IndexCatchesUp` claims that every term has a row, and only
  `IndexIsRepaired`, where no request builds, that it is the right one.  In
  `FragmentResolver` what providers offer, what arrives and whether it is valid or
  contradictory are inputs; a hint does not go stale between discovery and its turn; the
  end of the process in the middle of the trust file is not a step.  In `GraphSearch` which
  rows a SELECT prefers when its LIMIT is met, and which terms match, are left open; one
  search at a time is followed, for searches write nothing.  In `DataGate` a file that is
  replaced while it is read is not a step.  No run has DataGate together with the daemon's
  ingestion and rebuild, though both use `data/cleaned`.
* `LocalGenerativeReplayDaemon`, the loop that would consolidate in the background: nothing
  makes an instance of it.
* Heuristics on strings and floating-point scores (extraction of triples, similarity,
  embeddings, retrieval scores, the measures of DataGate's filters, wording of answers): there is
  nothing in them that interleaves, and their arithmetic is not TLA+'s.
* SQLite's pragmas and the snapshots of `crash_safety.py`, which nothing reads back.
* I/O without shared state (web search, factory, desktop and web shells), stubs, and
  `daemon.py`, which nothing imports.

## 7. Plan

1. `MemoryBuild` with `WorkingMemory`: the rebuild empties `edges` and `relation_stats`, into
   which consolidations merge.
2. `ShadowBackup`: is a snapshot taken at a start whole, also when it is a copy of bytes
   while the database has a log?
3. Pure algorithms against a reference definition: the export of `memory.py`, the merge of
   `fusion.py`, the order of the planner's decisions.
