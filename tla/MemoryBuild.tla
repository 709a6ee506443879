----------------------------- MODULE MemoryBuild -----------------------------
(***************************************************************************)
(* knowledge_bakery/memory.py: build_memory empties the tables of the      *)
(* memory index, reads the inputs and writes the index anew, committing    *)
(* whenever enough rows have piled up or enough time has passed.  A tick   *)
(* of the daemon builds when the inputs have changed; a request builds     *)
(* when it likes, in another thread and on another connection, and no lock *)
(* but SQLite's write lock keeps the two apart.                            *)
(*                                                                         *)
(* An item is whatever the first pass writes a row and an event for: a     *)
(* node or an edge of the ontology, a document, a chunk.  A term is        *)
(* whatever the second pass writes a row for: a node, an edge, a           *)
(* transition, a vector; its row is abstracted to the items that it was    *)
(* counted from.                                                           *)
(***************************************************************************)
EXTENDS Naturals, FiniteSets

CONSTANTS
    Items,
    Terms,
    Mentions,      \* the terms each item mentions
    Requests,      \* threads that serve /api/memory/build
    Daemon,        \* the thread of the learning daemon
    None,          \* nobody
    FlushAfter,    \* AUTO_FLUSH_FRAGMENT_COUNT
    MaxRequests,   \* builds are requested so many times
    MaxFailures    \* builds fail, or end with the process, so many times

Builders == Requests \cup {Daemon}

ASSUME MemoryBuildAssumption ==
    /\ Mentions \in [Items -> SUBSET Terms]
    /\ None \notin Builders
    /\ Daemon \notin Requests
    /\ IsFiniteSet(Requests)
    /\ FlushAfter \in Nat \ {0}
    /\ MaxRequests \in Nat
    /\ MaxFailures \in Nat

VARIABLES
    corpus,      \* the items of data/cleaned and data/ontology
    remembered,  \* last_input_fingerprint
    durable,     \* the committed tables of homage.db
    view,        \* the tables as the writing connection sees them
    writer,      \* whose transaction is open
    pc,          \* where each build is
    seen,        \* the items whose fingerprint the tick took
    read,        \* the items a build found
    left,        \* the items it has yet to import
    due,         \* the terms it has yet to write
    pending,     \* rows since its last flush
    requests, failures

tables == <<durable, view, writer>>
inputs == <<corpus, remembered, seen>>
local == <<pc, read, left, due, pending>>
bounds == <<requests, failures>>
vars == <<inputs, tables, local, bounds>>

\* items, events and terms are rows; emptied and finished are history: who
\* emptied the tables last, and what it had found when it finished.
Tables == [items : SUBSET Items, events : [Items -> Nat], terms : [Terms -> SUBSET Items],
           emptied : Builders \cup {None}, finished : SUBSET Items]

NoRows(b) == [items |-> {}, events |-> [i \in Items |-> 0], terms |-> [t \in Terms |-> {}],
              emptied |-> b, finished |-> {}]

TypeOK ==
    /\ corpus \in SUBSET Items
    /\ remembered \in SUBSET Items
    /\ seen \in SUBSET Items
    /\ durable \in Tables
    /\ view \in Tables
    /\ writer \in Builders \cup {None}
    /\ pc \in [Builders -> {"idle", "waiting", "emptied", "building", "built"}]
    /\ read \in [Builders -> SUBSET Items]
    /\ left \in [Builders -> SUBSET Items]
    /\ due \in [Builders -> SUBSET Terms]
    /\ pending \in [Builders -> Nat]
    /\ requests \in Nat
    /\ failures \in Nat

Init ==
    /\ corpus = {}
    /\ remembered = {}
    /\ seen = {}
    /\ durable = NoRows(None)
    /\ view = durable
    /\ writer = None
    /\ pc = [b \in Builders |-> "idle"]
    /\ read = [b \in Builders |-> {}]
    /\ left = [b \in Builders |-> {}]
    /\ due = [b \in Builders |-> {}]
    /\ pending = [b \in Builders |-> 0]
    /\ requests = 0
    /\ failures = 0

\* A cleaned file or a new entry of the ontology appears.
Supply(i) ==
    /\ i \notin corpus
    /\ corpus' = corpus \cup {i}
    /\ UNCHANGED <<remembered, seen, tables, local, bounds>>

-----------------------------------------------------------------------------
(* Who builds, and when. *)

\* A tick that finds other inputs than it remembers, or no events; a tick that
\* is forced builds as a request does.
Tick ==
    /\ pc[Daemon] = "idle"
    /\ corpus # remembered \/ \A i \in Items : durable.events[i] = 0
    /\ corpus # {}
    /\ seen' = corpus
    /\ pc' = [pc EXCEPT ![Daemon] = "waiting"]
    /\ UNCHANGED <<corpus, remembered, tables, read, left, due, pending, bounds>>

\* A request for a build.
Request(b) ==
    /\ pc[b] = "idle"
    /\ requests < MaxRequests
    /\ requests' = requests + 1
    /\ pc' = [pc EXCEPT ![b] = "waiting"]
    /\ UNCHANGED <<inputs, tables, read, left, due, pending, failures>>

-----------------------------------------------------------------------------
(* build_memory. *)

\* Mutant: emptying the tables is a transaction of its own.
ResetCommitted(b) ==
    /\ pc[b] = "waiting"
    /\ writer = None
    /\ view' = NoRows(b)
    /\ durable' = view'
    /\ pc' = [pc EXCEPT ![b] = "emptied"]
    /\ UNCHANGED <<inputs, writer, read, left, due, pending, bounds>>

\* _init_schema begins the transaction in which _reset_tables empties all.
Reset(b) ==
    /\ pc[b] = "waiting"
    /\ writer = None
    /\ writer' = b
    /\ view' = NoRows(b)
    /\ pc' = [pc EXCEPT ![b] = "emptied"]
    /\ UNCHANGED <<inputs, durable, read, left, due, pending, bounds>>

\* The inputs are listed after that.
Read(b) ==
    /\ pc[b] = "emptied"
    /\ read' = [read EXCEPT ![b] = corpus]
    /\ left' = [left EXCEPT ![b] = corpus]
    /\ due' = [due EXCEPT ![b] = UNION {Mentions[i] : i \in corpus}]
    /\ pending' = [pending EXCEPT ![b] = 0]
    /\ pc' = [pc EXCEPT ![b] = "building"]
    /\ UNCHANGED <<inputs, tables, bounds>>

\* A row is written, in the open transaction or in a new one, and _AutoFlush
\* commits because of the number of rows or of the time.
Mark(b, t) ==
    /\ writer \in {None, b}
    /\ view' = t
    /\ \/ /\ pending[b] + 1 < FlushAfter
          /\ pending' = [pending EXCEPT ![b] = @ + 1]
          /\ writer' = b
          /\ UNCHANGED durable
       \/ /\ pending' = [pending EXCEPT ![b] = 0]
          /\ writer' = None
          /\ durable' = t

\* The first pass: a row by key and an event that is simply added.
ImportItem(b, i) ==
    /\ pc[b] = "building"
    /\ i \in left[b]
    /\ left' = [left EXCEPT ![b] = @ \ {i}]
    /\ Mark(b, [view EXCEPT !.items = @ \cup {i}, !.events[i] = @ + 1])
    /\ UNCHANGED <<inputs, pc, read, due, bounds>>

\* The second pass: a row of what the first one counted replaces what there is.
WriteTerm(b, t) ==
    /\ pc[b] = "building"
    /\ left[b] = {}
    /\ t \in due[b]
    /\ due' = [due EXCEPT ![b] = @ \ {t}]
    /\ Mark(b, [view EXCEPT !.terms[t] = {i \in read[b] : t \in Mentions[i]}])
    /\ UNCHANGED <<inputs, pc, read, left, bounds>>

\* What the tables become when b is through: if nobody has emptied them since.
Finished(b, t) ==
    IF t.emptied = b THEN [t EXCEPT !.finished = read[b]] ELSE t

\* Mutant: the second pass is not waited for.
FinishEarly(b) ==
    /\ pc[b] = "building"
    /\ left[b] = {}
    /\ writer \in {None, b}
    /\ durable' = Finished(b, view)
    /\ view' = durable'
    /\ writer' = None
    /\ pending' = [pending EXCEPT ![b] = 0]
    /\ pc' = [pc EXCEPT ![b] = IF b = Daemon THEN "built" ELSE "idle"]
    /\ UNCHANGED <<inputs, read, left, due, bounds>>

\* Mutant: the connection is closed and the last rows are not committed.
FinishUncommitted(b) ==
    /\ pc[b] = "building"
    /\ left[b] = {} /\ due[b] = {}
    /\ writer \in {None, b}
    /\ view' = durable
    /\ writer' = None
    /\ pending' = [pending EXCEPT ![b] = 0]
    /\ pc' = [pc EXCEPT ![b] = IF b = Daemon THEN "built" ELSE "idle"]
    /\ UNCHANGED <<inputs, durable, read, left, due, bounds>>

\* The rows of meta, and the last commit.
Finish(b) ==
    /\ pc[b] = "building"
    /\ left[b] = {} /\ due[b] = {}
    /\ writer \in {None, b}
    /\ durable' = Finished(b, view)
    /\ view' = durable'
    /\ writer' = None
    /\ pending' = [pending EXCEPT ![b] = 0]
    /\ pc' = [pc EXCEPT ![b] = IF b = Daemon THEN "built" ELSE "idle"]
    /\ UNCHANGED <<inputs, read, left, due, bounds>>

\* The tick stores the fingerprint that it took before it built.
Remember ==
    /\ pc[Daemon] = "built"
    /\ remembered' = seen
    /\ pc' = [pc EXCEPT ![Daemon] = "idle"]
    /\ UNCHANGED <<corpus, seen, tables, read, left, due, pending, bounds>>

\* Mutant: the tick stores the fingerprint even if the build fails.
FailRemembered(b) ==
    /\ pc[b] # "idle"
    /\ failures < MaxFailures
    /\ failures' = failures + 1
    /\ pc' = [pc EXCEPT ![b] = "idle"]
    /\ pending' = [pending EXCEPT ![b] = 0]
    /\ remembered' = IF b = Daemon THEN seen ELSE remembered
    /\ \/ writer = b /\ view' = durable /\ writer' = None
       \/ writer # b /\ UNCHANGED <<view, writer>>
    /\ UNCHANGED <<corpus, seen, durable, read, left, due, requests>>

\* A locked database, another exception or the end of the process: what is not
\* committed is rolled back, what is stays.
Fail(b) ==
    /\ pc[b] # "idle"
    /\ failures < MaxFailures
    /\ failures' = failures + 1
    /\ pc' = [pc EXCEPT ![b] = "idle"]
    /\ pending' = [pending EXCEPT ![b] = 0]
    /\ \/ writer = b /\ view' = durable /\ writer' = None
       \/ writer # b /\ UNCHANGED <<view, writer>>
    /\ UNCHANGED <<inputs, durable, read, left, due, requests>>

BuildStep(b) ==
    \/ Reset(b)
    \/ Read(b)
    \/ \E i \in Items : ImportItem(b, i)
    \/ \E t \in Terms : WriteTerm(b, t)
    \/ Finish(b)

Next ==
    \/ \E i \in Items : Supply(i)
    \/ Tick
    \/ \E b \in Requests : Request(b)
    \/ \E b \in Builders : BuildStep(b)
    \/ Remember
    \/ \E b \in Builders : Fail(b)

Spec == Init /\ [][Next]_vars

\* The daemon ticks again and again, and a build that waits for SQLite's write
\* lock obtains it in the end unless it fails.
FairSpec ==
    /\ Spec
    /\ WF_vars(Tick)
    /\ WF_vars(Remember)
    /\ \A b \in Builders : SF_vars(BuildStep(b))

-----------------------------------------------------------------------------
(* Properties. *)

\* What a build found is in the index when it has finished, and stays there
\* until a later build empties it: builds that overlap and finish after it
\* replace rows but lose none.
FinishedIsThere ==
    /\ durable.finished \subseteq durable.items
    /\ \A i \in durable.finished : \A t \in Mentions[i] : durable.terms[t] # {}

\* The emptied tables are never committed by themselves: who reads the index
\* sees some of it from the first build on, and memory_status says "completed".
StaysCompleted ==
    [][durable.items # {} => durable'.items # {}]_vars

Mentioned == UNION {Mentions[i] : i \in corpus}

HasRows == durable.items = corpus /\ \A t \in Mentioned : durable.terms[t] # {}

IsWhole ==
    /\ durable.items = corpus
    /\ \A t \in Terms : durable.terms[t] = {i \in corpus : t \in Mentions[i]}

\* If no build fails, everything that is supplied is in the index in the end,
\* whichever of them overlapped and whatever they had read.
IndexCatchesUp == [](failures = 0) => <>[]HasRows

\* If only the daemon builds, the index is in the end what one build makes of all
\* inputs, however often builds fail.
IndexIsRepaired == [](requests = 0) => <>[]IsWhole

=============================================================================
