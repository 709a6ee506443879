--------------------------- MODULE LearningDaemon ---------------------------
(***************************************************************************)
(* The lifecycle of the hippocampus worker of                              *)
(* knowledge_bakery/learning_daemon.py: the module lock _lock, the event   *)
(* _stop_event, the thread _worker_thread, the persisted daemon_state.json *)
(* and the requests of the FastAPI routers that start, stop, tick and      *)
(* checkpoint the daemon from threads of their own.  What a round learns   *)
(* is left to other modules: here a round is a stretch of time during      *)
(* which the lock is held and at whose end the state file is rewritten     *)
(* from what was read at its beginning.                                    *)
(***************************************************************************)
EXTENDS Naturals, FiniteSets

CONSTANTS
    Clients,     \* threads of FastAPI's pool that serve one request at a time
    Workers,     \* identities for worker threads; one is reused once it is dead
    None,        \* no thread: the lock is free, _worker_thread is None
    Autostart,   \* HOMAGE_AUTOSTART_DAEMON = "1"
    MaxRounds    \* rounds are counted up to here, and no further

ASSUME LearningDaemonAssumption ==
    /\ Clients \cap Workers = {}
    /\ None \notin Clients \cup Workers
    /\ IsFiniteSet(Workers)
    /\ Autostart \in BOOLEAN
    /\ MaxRounds \in Nat

VARIABLES
    lock,        \* who holds _lock across steps
    stopEvent,   \* _stop_event.is_set()
    thread,      \* _worker_thread
    file,        \* daemon_state.json
    pc,          \* where each thread is
    seen,        \* the state a running tick_daemon read when it took the lock
    up,          \* is the FastAPI process running?
    done,        \* history: rounds completed since the state was last reset
    lapsed       \* history: an exception or a restart ended the worker, or a stop that
                 \* raised has told it to end, and the file has not been told

vars == <<lock, stopEvent, thread, file, pc, seen, up, done, lapsed>>

Threads == Clients \cup Workers

Rounds == 0 .. MaxRounds

FileStates == [state   : {"idle", "running", "stopped", "failed"},
               desired : BOOLEAN,      \* desired_running
               rounds  : Rounds,       \* total_rounds
               saved   : Rounds]       \* total_rounds in the last checkpoint

WorkerPC == {"dead", "check", "tick", "ticking", "status", "autosave",
             "waiting", "exiting"}

ClientPC == {"idle", "ticking", "joining", "saving"}

TypeOK ==
    /\ lock \in Threads \cup {None}
    /\ stopEvent \in BOOLEAN
    /\ thread \in Workers \cup {None}
    /\ file \in FileStates
    /\ pc \in [Threads -> WorkerPC \cup ClientPC]
    /\ \A w \in Workers : pc[w] \in WorkerPC
    /\ \A c \in Clients : pc[c] \in ClientPC
    /\ seen \in [Threads -> FileStates]
    /\ up \in BOOLEAN
    /\ done \in Rounds
    /\ lapsed \in BOOLEAN

DefaultState == [state |-> "idle", desired |-> FALSE, rounds |-> 0, saved |-> 0]

\* No thread does anything: the process has just been started.
AtRest == [t \in Threads |-> IF t \in Workers THEN "dead" ELSE "idle"]

Init ==
    /\ lock = None
    /\ stopEvent = FALSE
    /\ thread = None
    /\ file = DefaultState
    /\ pc = AtRest
    /\ seen = [t \in Threads |-> DefaultState]
    /\ up = TRUE
    /\ done = 0
    /\ lapsed = FALSE

-----------------------------------------------------------------------------
Bump(n) == IF n < MaxRounds THEN n + 1 ELSE n

\* Mutant: a worker that has left its loop counts as dead.
WorkerAliveInLoop == thread # None /\ pc[thread] \notin {"dead", "exiting"}

\* _worker_alive
WorkerAlive == thread # None /\ pc[thread] # "dead"

\* The state that daemon_status answers with for the contents f of the file.
Reported(f) == IF f.desired /\ ~WorkerAlive /\ f.state # "failed"
               THEN "resume_needed" ELSE f.state

Goto(t, l) == pc' = [pc EXCEPT ![t] = l]

-----------------------------------------------------------------------------
(* tick_daemon, called by the worker and by /tick and /consolidate. *)

\* The resource guard: the round ends before it begins.
GuardedTick(t, next) ==
    /\ lock = None
    /\ file' = [file EXCEPT !.state = "failed", !.desired = FALSE]
    /\ Goto(t, next)
    /\ UNCHANGED <<lock, stopEvent, thread, seen, up, done, lapsed>>

TickEnter(t) ==
    /\ lock = None
    /\ lock' = t
    /\ seen' = [seen EXCEPT ![t] = file]
    /\ Goto(t, "ticking")
    /\ UNCHANGED <<stopEvent, thread, file, up, done, lapsed>>

\* The end of the round writes back what was read at its beginning, updated.
TickLeave(t, next) ==
    /\ pc[t] = "ticking"
    /\ file' = [seen[t] EXCEPT !.state = IF seen[t].desired THEN "running" ELSE "idle",
                               !.rounds = Bump(@)]
    /\ lock' = None
    /\ seen' = [seen EXCEPT ![t] = DefaultState]
    /\ done' = Bump(done)
    /\ Goto(t, next)
    /\ UNCHANGED <<stopEvent, thread, up, lapsed>>

\* Mutant: the lock is released by hand, and not when the round raises.
TickRaiseLocked(t, next) ==
    /\ pc[t] = "ticking"
    /\ seen' = [seen EXCEPT ![t] = DefaultState]
    /\ Goto(t, next)
    /\ lapsed' = (lapsed \/ t \in Workers)
    /\ UNCHANGED <<lock, stopEvent, thread, file, up, done>>

\* The round raises (a locked database, an unreadable file): nothing is written.
TickRaise(t, next) ==
    /\ pc[t] = "ticking"
    /\ lock' = None
    /\ seen' = [seen EXCEPT ![t] = DefaultState]
    /\ Goto(t, next)
    /\ lapsed' = (lapsed \/ t \in Workers)
    /\ UNCHANGED <<stopEvent, thread, file, up, done>>

\* daemon_checkpoint: the snapshot and the note of it are one critical section.
SaveCheckpoint ==
    /\ lock = None
    /\ file' = [file EXCEPT !.saved = file.rounds]

-----------------------------------------------------------------------------
(* The worker thread: _worker_entry and _async_worker_loop. *)

\* Mutant: the loop does not look at the event.
WorkerCheckForever(w) ==
    /\ pc[w] = "check"
    /\ Goto(w, "tick")
    /\ UNCHANGED <<lock, stopEvent, thread, file, seen, up, done, lapsed>>

WorkerCheck(w) ==
    /\ pc[w] = "check"
    /\ Goto(w, IF stopEvent THEN "exiting" ELSE "tick")
    /\ UNCHANGED <<lock, stopEvent, thread, file, seen, up, done, lapsed>>

WorkerGuardedTick(w) == pc[w] = "tick" /\ GuardedTick(w, "status")

WorkerTickEnter(w) == pc[w] = "tick" /\ TickEnter(w)

WorkerTickLeave(w) == TickLeave(w, "status")

\* Nothing in the loop catches it: asyncio.run raises and the thread ends.
WorkerTickRaise(w) == TickRaise(w, "exiting")

\* The worker learns that the guard fired from a second look at the file.
WorkerStatus(w) ==
    /\ pc[w] = "status"
    /\ lock = None
    /\ \/ file.state = "failed" /\ Goto(w, "exiting")
       \/ file.state # "failed" /\ \E next \in {"autosave", "waiting"} : Goto(w, next)
    /\ UNCHANGED <<lock, stopEvent, thread, file, seen, up, done, lapsed>>

WorkerAutosave(w) ==
    /\ pc[w] = "autosave"
    /\ SaveCheckpoint
    /\ Goto(w, "waiting")
    /\ UNCHANGED <<lock, stopEvent, thread, seen, up, done, lapsed>>

\* _stop_event.wait returns at the interval's end or when the event is set.
WorkerWake(w) ==
    /\ pc[w] = "waiting"
    /\ Goto(w, "check")
    /\ UNCHANGED <<lock, stopEvent, thread, file, seen, up, done, lapsed>>

WorkerExit(w) ==
    /\ pc[w] = "exiting"
    /\ Goto(w, "dead")
    /\ UNCHANGED <<lock, stopEvent, thread, file, seen, up, done, lapsed>>

WorkerStep(w) ==
    \/ WorkerCheck(w) \/ WorkerGuardedTick(w) \/ WorkerTickEnter(w)
    \/ WorkerTickLeave(w) \/ WorkerTickRaise(w) \/ WorkerStatus(w)
    \/ WorkerAutosave(w) \/ WorkerWake(w) \/ WorkerExit(w)

-----------------------------------------------------------------------------
(* Requests. *)

\* Mutant: the resumed daemon starts from the default state.
LaunchFresh(f, w) ==
    /\ pc[w] = "dead"
    /\ file' = [DefaultState EXCEPT !.state = "running", !.desired = TRUE]
    /\ stopEvent' = FALSE
    /\ thread' = w
    /\ Goto(w, "check")
    /\ lapsed' = FALSE

\* Mutant: the event of an earlier stop is not cleared.
LaunchStopped(f, w) ==
    /\ pc[w] = "dead"
    /\ file' = [f EXCEPT !.state = "running", !.desired = TRUE]
    /\ thread' = w
    /\ Goto(w, "check")
    /\ lapsed' = FALSE
    /\ UNCHANGED stopEvent

\* What start_daemon does under the lock once it has found no live worker.
Launch(f, w) ==
    /\ pc[w] = "dead"
    /\ file' = [f EXCEPT !.state = "running", !.desired = TRUE]
    /\ stopEvent' = FALSE
    /\ thread' = w
    /\ Goto(w, "check")
    /\ lapsed' = FALSE

\* Mutant: the event is cleared before the look at the worker.
StartClearsFirst(c, resume) ==
    /\ pc[c] = "idle"
    /\ lock = None
    /\ \/ /\ WorkerAlive
          /\ stopEvent' = FALSE
          /\ UNCHANGED <<thread, file, pc, done, lapsed>>
       \/ /\ ~WorkerAlive
          /\ \E w \in Workers : Launch(IF resume THEN file ELSE DefaultState, w)
          /\ done' = IF resume THEN done ELSE 0
    /\ UNCHANGED <<lock, seen, up>>

\* start_daemon and, with resume = TRUE, resume_daemon.
Start(c, resume) ==
    /\ pc[c] = "idle"
    /\ lock = None
    /\ ~WorkerAlive
    /\ \E w \in Workers : Launch(IF resume THEN file ELSE DefaultState, w)
    /\ done' = IF resume THEN done ELSE 0
    /\ UNCHANGED <<lock, seen, up>>

\* stop_daemon, first part: the event and the state, under the lock.
StopRequest(c) ==
    /\ pc[c] = "idle"
    /\ lock = None
    /\ stopEvent' = TRUE
    /\ file' = [file EXCEPT !.state = "stopped", !.desired = FALSE]
    /\ Goto(c, "joining")
    /\ UNCHANGED <<lock, thread, seen, up, done, lapsed>>

\* The state cannot be read or written (a full disk, an unreadable file): the event has
\* been set by then, and the request ends there.
StopRaises(c) ==
    /\ pc[c] = "idle"
    /\ lock = None
    /\ stopEvent' = TRUE
    /\ lapsed' = TRUE
    /\ UNCHANGED <<lock, thread, file, pc, seen, up, done>>

\* Second part, without the lock: join(timeout=2) ends with the worker, or
\* before it.
StopJoin(c) ==
    /\ pc[c] = "joining"
    /\ Goto(c, "saving")
    /\ UNCHANGED <<lock, stopEvent, thread, file, seen, up, done, lapsed>>

\* Last part: the checkpoint, whose status is the answer.
StopSave(c) ==
    /\ pc[c] = "saving"
    /\ SaveCheckpoint
    /\ Goto(c, "idle")
    /\ UNCHANGED <<lock, stopEvent, thread, seen, up, done, lapsed>>

Checkpoint(c) ==
    /\ pc[c] = "idle"
    /\ SaveCheckpoint
    /\ UNCHANGED <<lock, stopEvent, thread, pc, seen, up, done, lapsed>>

ClientGuardedTick(c) == pc[c] = "idle" /\ GuardedTick(c, "idle")

ClientTickEnter(c) == pc[c] = "idle" /\ TickEnter(c)

ClientTickLeave(c) == TickLeave(c, "idle")

ClientTickRaise(c) == TickRaise(c, "idle")

\* What a request does, and what it does after having begun.
ClientCall(c) ==
    \/ \E resume \in BOOLEAN : Start(c, resume)
    \/ StopRequest(c) \/ StopRaises(c) \/ Checkpoint(c)
    \/ ClientGuardedTick(c) \/ ClientTickEnter(c)

ClientStep(c) ==
    StopJoin(c) \/ StopSave(c) \/ ClientTickLeave(c) \/ ClientTickRaise(c)

-----------------------------------------------------------------------------
(* The process ends, at any point, and is started again. *)

Crash ==
    /\ up
    /\ up' = FALSE
    /\ lock' = None
    /\ stopEvent' = FALSE
    /\ thread' = None
    /\ pc' = AtRest
    /\ seen' = [t \in Threads |-> DefaultState]
    /\ lapsed' = TRUE
    /\ UNCHANGED <<file, done>>

\* The import of the module resumes a daemon that was wanted.
BootAutostart ==
    /\ ~up
    /\ up' = TRUE
    /\ Autostart /\ file.desired
    /\ \E w \in Workers : Launch(file, w)
    /\ UNCHANGED <<lock, seen, done>>

BootPlain ==
    /\ ~up
    /\ up' = TRUE
    /\ ~(Autostart /\ file.desired)
    /\ UNCHANGED <<lock, stopEvent, thread, file, pc, seen, done, lapsed>>

Next ==
    \/ up /\ \E w \in Workers : WorkerStep(w)
    \/ up /\ \E c \in Clients : ClientCall(c) \/ ClientStep(c)
    \/ Crash
    \/ BootAutostart
    \/ BootPlain

(***************************************************************************)
(* A thread that has begun goes on: a wait has a time limit, a round ends  *)
(* and the lock, which is never held for ever, is obtained by whoever      *)
(* keeps asking for it.  Nobody has to send a request, and the process     *)
(* does not have to crash or to be started again.                          *)
(***************************************************************************)
Fairness ==
    /\ \A w \in Workers : SF_vars(up /\ WorkerStep(w))
    /\ \A c \in Clients : SF_vars(up /\ ClientStep(c))

Spec == Init /\ [][Next]_vars

FairSpec == Spec /\ Fairness

-----------------------------------------------------------------------------
(* Properties. *)

\* There is never a second worker: _worker_alive looks at _worker_thread only,
\* so every worker that still runs must be that thread.
AtMostOneWorker == \A w \in Workers : pc[w] # "dead" => w = thread

\* Rounds of the worker and of requests never overlap, wherever they come from:
\* a round in progress owns the lock.
RoundsExclusive == \A t \in Threads : pc[t] = "ticking" => lock = t

\* No completed round is lost from daemon_state.json to a stop, a start that
\* resumes, a checkpoint or a crash that hits while another thread rewrites the
\* file, and a checkpoint never claims more rounds than the file does.
CountsAgree ==
    /\ file.rounds = done
    /\ file.saved <= file.rounds

\* Is there a worker that will look for work again?
WorkerGoing == WorkerAlive /\ pc[thread] # "exiting"

\* A daemon that is wanted has a worker that goes on, and no stop is pending
\* for it, unless the worker was lost to an exception or to a restart that did
\* not resume, or a stop raised half way: stops that return, the guard and starts
\* cannot between them leave it without one.
DesiredHasWorker ==
    up /\ file.desired => (WorkerGoing /\ ~stopEvent) \/ lapsed

\* start_daemon never clears the event under a worker that has yet to see it.
StopIsNotRevoked ==
    [][up' /\ stopEvent /\ ~stopEvent' => ~WorkerAlive]_vars

\* A stop that finds a worker ends it, whatever other requests do meanwhile.
StopTakesEffect == stopEvent /\ WorkerAlive ~> ~WorkerAlive

\* Every request returns: nobody waits for ever, with the lock or for it.
RequestsReturn == \A c \in Clients : pc[c] # "idle" ~> pc[c] = "idle"

\* The lease of the learner that the worker, the event and the file implement.
Lease == INSTANCE LearnerLease WITH
    phase <- IF ~WorkerAlive THEN "off"
             ELSE IF stopEvent \/ pc[thread] = "exiting" THEN "ending" ELSE "on",
    wants <- file.desired

\* The daemon implements the abstract lease, its promise to end included.
ImplementsLease == Lease!Spec

\* "Resource guard stopped the daemon before the workstation became unstable":
\* once the guard has fired the worker ends, or somebody starts it again.
GuardStopsDaemon == file.state = "failed" ~> ~WorkerAlive \/ file.desired

=============================================================================
