---------------------------- MODULE AlphaService ----------------------------
(***************************************************************************)
(* The status objects of AlphaService (services/alpha_services.py).  Each   *)
(* operation marks its object as running under _lock, works without the     *)
(* lock, makes its status from what the object is by then, and puts it in   *)
(* place under the lock, which it answers with.  Requests run on the        *)
(* threads of the server and overlap, except that questions are answered    *)
(* on its event loop, where nothing they do yields to another question.     *)
(*                                                                         *)
(* A question searches the graph and activates the memory (GraphSearch);    *)
(* answers are not modelled, only whose they are.                           *)
(***************************************************************************)
EXTENDS GraphSearch

CONSTANTS
    Calls,
    Nobody

Objects == {"ontology", "memory", "graphrag", "guard", "oven"}

ASSUME NobodyAssumption == Nobody \notin Calls \cup Objects

VARIABLES
    object,  \* the status objects
    work,    \* where each request is
    answer,  \* what it was answered with
    asker    \* whose search is in progress

serviceVars == <<object, work, answer, asker>>
alphaVars == <<searchVars, serviceVars>>

\* started and result are the requests whose started_at and whose result it holds, query
\* the one whose last_query.
Statuses == [state : {"idle", "running", "completed", "failed"},
             started : Calls \cup {Nobody}, result : Calls \cup {Nobody},
             query : Calls \cup {Nobody}]

Steps == {"none", "work", "ask", "search", "chunks", "recall", "route", "web",
          "memory", "read", "spread", "merge", "publish", "done"}

ServiceTypeOK ==
    /\ SearchTypeOK
    /\ object \in [Objects -> Statuses]
    /\ work \in [Calls -> [pc : Steps, on : Objects \cup {Nobody}, status : Statuses]]
    /\ answer \in [Calls -> Statuses]
    /\ asker \in Calls \cup {Nobody}

Idle == [state |-> "idle", started |-> Nobody, result |-> Nobody, query |-> Nobody]

ServiceInit ==
    /\ SearchInit
    /\ object = [o \in Objects |-> Idle]
    /\ work = [r \in Calls |-> [pc |-> "none", on |-> Nobody, status |-> Idle]]
    /\ answer = [r \in Calls |-> Idle]
    /\ asker = Nobody

Goes(r, pc) == work' = [work EXCEPT ![r].pc = pc]

AtWork(o) == {r \in Calls : work[r].on = o /\ work[r].pc \in Steps \ {"none", "done"}}

\* Mutant: a question lets others begin before it has its answer.
BeginAnyway(r, o) ==
    /\ work[r].pc = "none"
    /\ work' = [work EXCEPT ![r].pc = IF o \in {"graphrag", "guard"} THEN "ask" ELSE "work",
                            ![r].on = o]
    /\ object' = [object EXCEPT ![o].state = "running", ![o].started = r,
                                ![o].query = IF o = "graphrag" THEN r ELSE @]
    /\ UNCHANGED <<searchVars, answer, asker>>

\* The first lines of every operation, under the lock.  query_graphrag is a coroutine
\* whose only await is search_web, which awaits nothing, so the loop comes to the next
\* question when this one has been answered.
Begin(r, o) ==
    /\ work[r].pc = "none"
    /\ o = "graphrag" => AtWork(o) = {}
    /\ work' = [work EXCEPT ![r].pc = IF o \in {"graphrag", "guard"} THEN "ask" ELSE "work",
                            ![r].on = o]
    /\ object' = [object EXCEPT ![o].state = "running", ![o].started = r,
                                ![o].query = IF o = "graphrag" THEN r ELSE @]
    /\ UNCHANGED <<searchVars, answer, asker>>

\* The status of an operation that succeeded.  started_at is read from the object,
\* without the lock.  The ontology's result has a memory to show first.
Succeed(r) ==
    /\ work[r].pc = "work"
    /\ LET o == work[r].on
       IN work' = [work EXCEPT ![r].pc = IF o = "ontology" THEN "memory" ELSE "publish",
                               ![r].status = [state |-> "completed",
                                              started |-> object[o].started, result |-> r,
                                              query |-> IF o = "graphrag" THEN r ELSE Nobody]]
    /\ UNCHANGED <<searchVars, object, answer, asker>>

Working == {"work", "ask", "search", "chunks", "recall", "spread", "route", "web"}

\* What a request that is left in the middle leaves of its search.
Leaves(r) ==
    /\ search' = IF asker = r THEN NoSearch ELSE search
    /\ asker' = IF asker = r THEN Nobody ELSE asker
    /\ UNCHANGED <<db, writes>>

\* Mutant: the exception leaves the operation.
RaisesOut(r) ==
    /\ work[r].pc \in Working
    /\ work[r].on # Nobody
    /\ Leaves(r)
    /\ Goes(r, "done")
    /\ UNCHANGED <<object, answer>>

\* An exception anywhere: what the object holds by now, as failed.
Fail(r) ==
    /\ work[r].pc \in Working
    /\ work[r].on # Nobody
    /\ LET o == work[r].on
       IN work' = [work EXCEPT ![r].pc = "publish",
                               ![r].status = [object[o] EXCEPT
                                   !.state = "failed",
                                   !.result = IF o = "graphrag" THEN Nobody ELSE @]]
    /\ Leaves(r)
    /\ UNCHANGED <<object, answer>>

\* run_ontology puts the status of the memory it built in place.
ShowMemory(r) ==
    /\ work[r].pc = "memory"
    /\ \E state \in {"idle", "completed"} :
          object' = [object EXCEPT !["memory"] = [Idle EXCEPT !.state = state, !.result = r]]
    /\ Goes(r, "publish")
    /\ UNCHANGED <<searchVars, answer, asker>>

\* The last lines of every operation: the status and the answer, under one lock.
Publish(r) ==
    /\ work[r].pc = "publish"
    /\ object' = [object EXCEPT ![work[r].on] = work[r].status]
    /\ answer' = [answer EXCEPT ![r] = work[r].status]
    /\ Goes(r, "done")
    /\ UNCHANGED <<searchVars, asker>>

-----------------------------------------------------------------------------
(* Questions, and drafts whose evidence is searched for. *)

\* A greeting, a thanks, or a question about the graph itself searches nothing; nor
\* does a draft that comes with its evidence, or finds that of the last question.
AnswerAtOnce(r) ==
    /\ work[r].pc = "ask"
    /\ Goes(r, "work")
    /\ UNCHANGED <<searchVars, object, answer, asker>>

\* One search at a time is followed; searches do not change what others see.
Search(r) ==
    /\ work[r].pc = "ask"
    /\ work[r].on = "guard" => object["graphrag"].result = Nobody
    /\ asker = Nobody
    /\ Start
    /\ asker' = r
    /\ Goes(r, "search")
    /\ UNCHANGED <<object, answer>>

Searched(r) ==
    /\ asker = r
    /\ search.pc = "done"
    /\ asker' = Nobody
    /\ search' = NoSearch
    /\ Goes(r, CASE work[r].pc = "search" -> "chunks"
                 [] work[r].on = Nobody -> "merge"
                 [] OTHER -> "route")
    /\ UNCHANGED <<db, writes, object, answer>>

\* query_lazy_chunks, of the vault if there are ghost tables by now, their ranking and
\* the answer made of them.  A question goes on with the memory.
ReadChunks(r) ==
    /\ work[r].pc = "chunks"
    /\ Goes(r, IF work[r].on = "guard" THEN "work" ELSE "recall")
    /\ UNCHANGED <<searchVars, object, answer, asker>>

\* The memory is activated if memory_status calls it completed.
Recall(r) ==
    /\ work[r].pc = "recall"
    /\ \/ asker = Nobody /\ StartSpread /\ asker' = r /\ Goes(r, "spread")
       \/ Goes(r, "route") /\ UNCHANGED <<searchVars, asker>>
    /\ UNCHANGED <<object, answer>>

\* should_search
Route(r) ==
    /\ work[r].pc = "route"
    /\ \E next \in {"web", "work"} : Goes(r, next)
    /\ UNCHANGED <<searchVars, object, answer, asker>>

\* search_web, its results or none, and _merge_web_search_result.
WebAnswers(r) ==
    /\ work[r].pc = "web"
    /\ Goes(r, "work")
    /\ UNCHANGED <<searchVars, object, answer, asker>>

-----------------------------------------------------------------------------
(* The memory's status, which requests about it bring up to date. *)

\* What memory_status may say: completed if the database holds events.
Counted == {[Idle EXCEPT !.state = state] : state \in {"idle", "completed"}}

Merged(status) == [object["memory"] EXCEPT !.state = status.state]

\* memory_status and memory_drift_check read the database first ...
ReadMemory(r) ==
    /\ work[r].pc = "none"
    /\ \E status \in Counted :
          work' = [work EXCEPT ![r].pc = "read", ![r].status = status]
    /\ UNCHANGED <<searchVars, object, answer, asker>>

\* ... and merge what they read into what is there by then.
MergeMemory(r) ==
    /\ work[r].pc = "read"
    /\ object' = [object EXCEPT !["memory"] = Merged(work[r].status)]
    /\ answer' = [answer EXCEPT ![r] = object'["memory"]]
    /\ Goes(r, "done")
    /\ UNCHANGED <<searchVars, asker>>

\* activate_memory: without a database there is nothing to activate ...
ActivateMemory(r) ==
    /\ work[r].pc = "none"
    /\ \/ asker = Nobody /\ StartSpread /\ asker' = r /\ Goes(r, "spread")
       \/ Goes(r, "merge") /\ UNCHANGED <<searchVars, asker>>
    /\ UNCHANGED <<object, answer>>

\* ... and the status is read under the lock.  The answer is the activation.
ShowActivated(r) ==
    /\ work[r].pc = "merge"
    /\ \E status \in Counted : object' = [object EXCEPT !["memory"] = Merged(status)]
    /\ Goes(r, "done")
    /\ UNCHANGED <<searchVars, answer, asker>>

\* These requests catch nothing.
Raises(r) ==
    /\ work[r].pc \in {"read", "spread", "merge"}
    /\ work[r].on = Nobody
    /\ Leaves(r)
    /\ Goes(r, "done")
    /\ UNCHANGED <<object, answer>>

-----------------------------------------------------------------------------
(* Specification. *)

RequestStep(r) ==
    \/ Succeed(r) \/ Fail(r) \/ ShowMemory(r) \/ Publish(r)
    \/ AnswerAtOnce(r) \/ Search(r) \/ Searched(r) \/ ReadChunks(r) \/ Recall(r) \/ Route(r)
    \/ WebAnswers(r) \/ MergeMemory(r) \/ ShowActivated(r) \/ Raises(r)

ServiceNext ==
    \/ \E r \in Calls, o \in Objects : Begin(r, o)
    \/ \E r \in Calls : RequestStep(r) \/ ReadMemory(r) \/ ActivateMemory(r)
    \/ SearchStep /\ UNCHANGED serviceVars
    \/ \E new \in Commits : WriterCommits(new) /\ UNCHANGED serviceVars

ServiceSpec == ServiceInit /\ [][ServiceNext]_alphaVars

-----------------------------------------------------------------------------
(* Properties. *)

\* s is all about r: its start, its query, and its result or none.
OwnStatus(r, s) ==
    /\ s.started = r
    /\ s.query = r
    /\ \/ s.state = "completed" /\ s.result = r
       \/ s.state = "failed" /\ s.result = Nobody

\* The status of the questions never mixes two of them, although started_at and what a
\* failure keeps are read from the shared object without the lock: while one is at work
\* the object says so and names it, then it holds that one's start, query and result
\* (which check_guard takes for evidence), and each question, failed or not, is
\* answered with its own.  It rests on questions following one another.
QuestionsApart ==
    LET shown == object["graphrag"]
    IN /\ \A r \in AtWork("graphrag") :
              shown.state = "running" /\ shown.started = r /\ shown.query = r
       /\ shown.state \in {"completed", "failed"} => \E r \in Calls : OwnStatus(r, shown)
       /\ \A r \in Calls : work[r].on = "graphrag" /\ answer[r] # Idle =>
              OwnStatus(r, answer[r])

\* An object that says it is running has a request at work on it: none is left in that
\* state by requests that overwrote each other's status or failed.
RunningIsTrue ==
    \A o \in Objects : object[o].state = "running" => AtWork(o) # {}

=============================================================================
