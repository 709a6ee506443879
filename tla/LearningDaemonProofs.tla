------------------------ MODULE LearningDaemonProofs ------------------------
(***************************************************************************)
(* Proofs about the lifecycle of the learning daemon, for every number of  *)
(* clients and of worker identities.                                       *)
(***************************************************************************)
EXTENDS LearningDaemon, TLAPS

\* Only a daemon that is not wanted is stopped or failed.
StateAgreesWithWish ==
    /\ file.state \in {"stopped", "failed"} => ~file.desired

\* The file does not change under a round, which holds the lock.
SeenIsFile == \A t \in Threads : pc[t] = "ticking" => seen[t] = file

\* Nothing of a process outlives it.
DownIsAtRest ==
    ~up => /\ pc = AtRest
           /\ thread = None
           /\ lapsed

\* The inductive invariant.
IInv ==
    /\ TypeOK
    /\ AtMostOneWorker
    /\ RoundsExclusive
    /\ SeenIsFile
    /\ CountsAgree
    /\ StateAgreesWithWish
    /\ DesiredHasWorker
    /\ DownIsAtRest

-----------------------------------------------------------------------------
\* The invariant holds before the process first starts.
LEMMA InitIInv == Init => IInv
<1> SUFFICES ASSUME Init PROVE IInv
  OBVIOUS
<1> USE DEF Init
<1>1. /\ DefaultState \in FileStates
      /\ 0 \in Rounds
  BY LearningDaemonAssumption DEF DefaultState, FileStates, Rounds
<1>2. \A t \in Threads : pc[t] = IF t \in Workers THEN "dead" ELSE "idle"
  BY DEF AtRest
<1>3. TypeOK
  BY <1>1, <1>2, LearningDaemonAssumption DEF TypeOK, AtRest, Threads, WorkerPC, ClientPC
<1>4. /\ AtMostOneWorker
      /\ RoundsExclusive
      /\ SeenIsFile
  BY <1>2 DEF AtMostOneWorker, RoundsExclusive, SeenIsFile, Threads
<1>5. /\ CountsAgree
      /\ StateAgreesWithWish
      /\ DesiredHasWorker
      /\ DownIsAtRest
  BY DEF CountsAgree, StateAgreesWithWish, DesiredHasWorker, DownIsAtRest, DefaultState
<1> QED
  BY <1>3, <1>4, <1>5 DEF IInv

\* One more round is a round again, up to the bound.
LEMMA BumpType == \A n \in Rounds : Bump(n) \in Rounds /\ n <= Bump(n)
BY LearningDaemonAssumption DEF Rounds, Bump

\* The invariant survives every step of a process that is up.
LEMMA UpStepIInv ==
    ASSUME IInv, up,
           \/ \E w \in Workers : WorkerStep(w)
           \/ \E c \in Clients : ClientCall(c) \/ ClientStep(c)
    PROVE  IInv'
<1> USE LearningDaemonAssumption
    DEF IInv, TypeOK, AtMostOneWorker, RoundsExclusive, SeenIsFile, CountsAgree,
        StateAgreesWithWish, DesiredHasWorker, DownIsAtRest, WorkerGoing,
        WorkerAlive, FileStates, Threads, WorkerPC, ClientPC, Goto
<1>1. ASSUME NEW t \in Threads, NEW next, GuardedTick(t, next),
             \/ t \in Workers /\ pc[t] = "tick" /\ next = "status"
             \/ t \in Clients /\ pc[t] = "idle" /\ next = "idle"
      PROVE  IInv'
  BY <1>1 DEF GuardedTick
<1>2. ASSUME NEW t \in Threads, TickEnter(t),
             \/ t \in Workers /\ pc[t] = "tick"
             \/ t \in Clients /\ pc[t] = "idle"
      PROVE  IInv'
  BY <1>2 DEF TickEnter
<1>3. ASSUME NEW t \in Threads, NEW next, TickLeave(t, next),
             \/ t \in Workers /\ next = "status"
             \/ t \in Clients /\ next = "idle"
      PROVE  IInv'
  <2>1. \A u \in Threads : u # t => pc[u] # "ticking"
    BY <1>3 DEF TickLeave
  <2>2. /\ file' = [file EXCEPT !.state = IF file.desired THEN "running" ELSE "idle",
                                !.rounds = Bump(file.rounds)]
        /\ done' = Bump(done)
    BY <1>3 DEF TickLeave
  <2>3. DefaultState \in FileStates
    BY DEF DefaultState, Rounds
  <2>4. TypeOK'
    <3>1. file' \in FileStates /\ done' \in Rounds
      BY <2>2, BumpType
    <3> QED
      BY <1>3, <2>3, <3>1 DEF TickLeave
  <2>5. CountsAgree' /\ StateAgreesWithWish'
    BY <2>2, BumpType DEF Rounds
  <2>6. AtMostOneWorker' /\ RoundsExclusive' /\ SeenIsFile'
    BY <1>3, <2>1 DEF TickLeave
  <2>7. DesiredHasWorker' /\ DownIsAtRest'
    BY <1>3, <2>2 DEF TickLeave
  <2> QED
    BY <2>4, <2>5, <2>6, <2>7
<1>4. ASSUME NEW t \in Threads, NEW next, TickRaise(t, next),
             \/ t \in Workers /\ next = "exiting"
             \/ t \in Clients /\ next = "idle"
      PROVE  IInv'
  <2>1. \A u \in Threads : u # t => pc[u] # "ticking"
    BY <1>4 DEF TickRaise
  <2>2. DefaultState \in FileStates
    BY DEF DefaultState, Rounds
  <2> QED
    BY <1>4, <2>1, <2>2 DEF TickRaise
<1>5. ASSUME NEW w \in Workers, WorkerStep(w)
      PROVE  IInv'
  <2>1. CASE WorkerCheck(w)
    BY <2>1 DEF WorkerCheck
  <2>2. CASE WorkerGuardedTick(w)
    BY <1>1, <2>2 DEF WorkerGuardedTick
  <2>3. CASE WorkerTickEnter(w)
    BY <1>2, <2>3 DEF WorkerTickEnter
  <2>4. CASE WorkerTickLeave(w)
    BY <1>3, <2>4 DEF WorkerTickLeave
  <2>5. CASE WorkerTickRaise(w)
    BY <1>4, <2>5 DEF WorkerTickRaise
  <2>6. CASE WorkerStatus(w)
    BY <2>6 DEF WorkerStatus
  <2>7. CASE WorkerAutosave(w)
    BY <2>7 DEF WorkerAutosave, SaveCheckpoint, Rounds
  <2>8. CASE WorkerWake(w)
    BY <2>8 DEF WorkerWake
  <2>9. CASE WorkerExit(w)
    BY <2>9 DEF WorkerExit
  <2> QED
    BY <1>5, <2>1, <2>2, <2>3, <2>4, <2>5, <2>6, <2>7, <2>8, <2>9 DEF WorkerStep
<1>6. ASSUME NEW c \in Clients, ClientCall(c) \/ ClientStep(c)
      PROVE  IInv'
  <2>1. ASSUME NEW resume \in BOOLEAN, Start(c, resume)
        PROVE  IInv'
    <3>1. PICK w \in Workers : Launch(IF resume THEN file ELSE DefaultState, w)
      BY <2>1 DEF Start
    <3>2. \A v \in Workers : pc[v] = "dead"
      BY <2>1 DEF Start
    <3>3. DefaultState \in FileStates
      BY DEF DefaultState, Rounds
    <3>4. 0 \in Rounds
      BY DEF Rounds
    <3>5. CountsAgree'
      BY <2>1, <3>1 DEF Start, Launch, DefaultState
    <3>6. TypeOK'
      BY <2>1, <3>1, <3>3, <3>4 DEF Start, Launch
    <3>7. AtMostOneWorker' /\ RoundsExclusive' /\ SeenIsFile'
      BY <2>1, <3>1, <3>2 DEF Start, Launch
    <3>8. StateAgreesWithWish' /\ DesiredHasWorker' /\ DownIsAtRest'
      BY <2>1, <3>1, <3>3 DEF Start, Launch
    <3> QED
      BY <3>5, <3>6, <3>7, <3>8
  <2>2. CASE StopRequest(c)
    BY <2>2 DEF StopRequest
  <2>10. CASE StopRaises(c)
    BY <2>10 DEF StopRaises
  <2>3. CASE Checkpoint(c)
    BY <2>3 DEF Checkpoint, SaveCheckpoint, Rounds
  <2>4. CASE ClientGuardedTick(c)
    BY <1>1, <2>4 DEF ClientGuardedTick
  <2>5. CASE ClientTickEnter(c)
    BY <1>2, <2>5 DEF ClientTickEnter
  <2>6. CASE StopJoin(c)
    BY <2>6 DEF StopJoin
  <2>7. CASE StopSave(c)
    BY <2>7 DEF StopSave, SaveCheckpoint, Reported, Rounds
  <2>8. CASE ClientTickLeave(c)
    BY <1>3, <2>8 DEF ClientTickLeave
  <2>9. CASE ClientTickRaise(c)
    BY <1>4, <2>9 DEF ClientTickRaise
  <2> QED
    BY <1>6, <2>1, <2>2, <2>3, <2>4, <2>5, <2>6, <2>7, <2>8, <2>9, <2>10
    DEF ClientCall, ClientStep
<1> QED
  BY <1>5, <1>6

\* And it survives the end of the process and its next beginning.
LEMMA ProcessIInv ==
    ASSUME IInv, Crash \/ BootAutostart \/ BootPlain
    PROVE  IInv'
<1> USE LearningDaemonAssumption
    DEF IInv, TypeOK, AtMostOneWorker, RoundsExclusive, SeenIsFile, CountsAgree,
        StateAgreesWithWish, DesiredHasWorker, DownIsAtRest, WorkerGoing,
        WorkerAlive, FileStates, Threads, WorkerPC, ClientPC, Goto, AtRest
<1>1. CASE Crash
  <2>1. DefaultState \in FileStates
    BY DEF DefaultState, Rounds
  <2> QED
    BY <1>1, <2>1 DEF Crash
<1>2. CASE BootAutostart
  <2>1. PICK w \in Workers : Launch(file, w)
    BY <1>2 DEF BootAutostart
  <2>2. \A v \in Workers : pc[v] = "dead"
    BY <1>2 DEF BootAutostart
  <2>3. \A t \in Threads : pc[t] # "ticking"
    BY <1>2 DEF BootAutostart
  <2>4. TypeOK' /\ StateAgreesWithWish'
    BY <1>2, <2>1 DEF BootAutostart, Launch
  <2>5. AtMostOneWorker' /\ RoundsExclusive' /\ SeenIsFile'
    BY <1>2, <2>1, <2>2, <2>3 DEF BootAutostart, Launch
  <2>6. CountsAgree' /\ DesiredHasWorker' /\ DownIsAtRest'
    BY <1>2, <2>1 DEF BootAutostart, Launch
  <2> QED
    BY <2>4, <2>5, <2>6
<1>3. CASE BootPlain
  BY <1>3 DEF BootPlain
<1> QED
  BY <1>1, <1>2, <1>3

\* The inductive invariant holds of every state the daemon reaches.
THEOREM DaemonInvariant == Spec => []IInv
<1>1. IInv /\ [Next]_vars => IInv'
  <2> SUFFICES ASSUME IInv, [Next]_vars
               PROVE  IInv'
    OBVIOUS
  <2>1. CASE Next
    BY <2>1, UpStepIInv, ProcessIInv DEF Next
  <2>2. CASE UNCHANGED vars
    BY <2>2 DEF vars, IInv, TypeOK, AtMostOneWorker, RoundsExclusive, SeenIsFile,
                CountsAgree, StateAgreesWithWish, DesiredHasWorker, DownIsAtRest,
                WorkerGoing, WorkerAlive
  <2> QED
    BY <2>1, <2>2
<1> QED
  BY <1>1, InitIInv, PTL DEF Spec

-----------------------------------------------------------------------------
\* No second worker ever runs, however start, stop and the worker's own end
\* interleave.
THEOREM OneWorker == Spec => []AtMostOneWorker
BY DaemonInvariant, PTL DEF IInv

\* No completed round and no checkpoint is lost to another writer of the file.
THEOREM NoRoundLost == Spec => []CountsAgree
BY DaemonInvariant, PTL DEF IInv

\* A wanted daemon has a worker that goes on, but after an exception or a restart.
THEOREM WantedIsServed == Spec => []DesiredHasWorker
BY DaemonInvariant, PTL DEF IInv

\* A stop is never revoked under the worker it was meant for.
THEOREM StopSticks == Spec => StopIsNotRevoked
<1>1. IInv /\ [Next]_vars => [up' /\ stopEvent /\ ~stopEvent' => ~WorkerAlive]_vars
  <2> SUFFICES ASSUME IInv, Next, up', stopEvent, ~stopEvent'
               PROVE  ~WorkerAlive
    BY DEF vars
  <2>1. CASE \E w \in Workers : WorkerStep(w)
    BY <2>1 DEF WorkerStep, WorkerCheck, WorkerGuardedTick, GuardedTick,
                WorkerTickEnter, TickEnter, WorkerTickLeave, TickLeave,
                WorkerTickRaise, TickRaise, WorkerStatus, WorkerAutosave,
                WorkerWake, WorkerExit
  <2>2. CASE \E c \in Clients : ClientCall(c) \/ ClientStep(c)
    BY <2>2 DEF ClientCall, ClientStep, Start, StopRequest, StopRaises, StopJoin, StopSave,
                Checkpoint, ClientGuardedTick, GuardedTick, ClientTickEnter,
                TickEnter, ClientTickLeave, TickLeave, ClientTickRaise, TickRaise
  <2>3. CASE Crash \/ BootAutostart \/ BootPlain
    BY <2>3 DEF Crash, BootAutostart, BootPlain, IInv, DownIsAtRest, WorkerAlive
  <2> QED
    BY <2>1, <2>2, <2>3 DEF Next
<1> QED
  BY <1>1, DaemonInvariant, PTL DEF Spec, StopIsNotRevoked

-----------------------------------------------------------------------------
\* Every step of the daemon is a step of the abstract lease, or leaves it alone.
LEMMA StepLease == IInv /\ [Next]_vars => [Lease!Next]_(Lease!vars)
<1> SUFFICES ASSUME IInv, [Next]_vars
             PROVE  [Lease!Next]_(Lease!vars)
  OBVIOUS
<1> DEFINE phase == IF ~WorkerAlive THEN "off"
                    ELSE IF stopEvent \/ pc[thread] = "exiting" THEN "ending"
                    ELSE "on"
<1>1. SUFFICES
        \/ phase = "off" /\ phase' = "on" /\ file'.desired = TRUE
        \/ file'.desired = FALSE /\ phase' \in IF phase = "on" THEN {"on", "ending"} ELSE {phase}
        \/ phase = "on" /\ phase' = "ending" /\ file'.desired = file.desired
        \/ phase = "ending" /\ phase' = "off" /\ file'.desired = file.desired
        \/ phase \in {"on", "ending"} /\ phase' = "off" /\ file'.desired = file.desired
        \/ phase' = phase /\ file'.desired = file.desired
  BY DEF Lease!Next, Lease!Begin, Lease!Withdraw, Lease!GiveUp, Lease!End,
         Lease!Crash, Lease!vars
<1> USE LearningDaemonAssumption
    DEF IInv, TypeOK, AtMostOneWorker, RoundsExclusive, SeenIsFile, WorkerAlive,
        FileStates, Threads, WorkerPC, ClientPC, Goto
<1>2. ASSUME NEW t \in Threads, NEW next, GuardedTick(t, next),
             pc[t] # "dead", next \notin {"dead", "exiting"}, pc[t] # "exiting"
      PROVE  file'.desired = FALSE /\ phase' = phase
  BY <1>2 DEF GuardedTick
<1>3. ASSUME NEW t \in Threads, TickEnter(t), pc[t] \notin {"dead", "exiting"}
      PROVE  phase' = phase /\ file'.desired = file.desired
  BY <1>3 DEF TickEnter
<1>4. ASSUME NEW t \in Threads, NEW next, TickLeave(t, next),
             next \notin {"dead", "exiting"}
      PROVE  phase' = phase /\ file'.desired = file.desired
  BY <1>4 DEF TickLeave
<1>5. CASE \E w \in Workers : WorkerStep(w)
  <2>1. PICK w \in Workers : WorkerStep(w)
    BY <1>5
  <2>2. CASE WorkerCheck(w)
    BY <2>2 DEF WorkerCheck
  <2>3. CASE WorkerGuardedTick(w)
    BY <1>2, <2>3 DEF WorkerGuardedTick
  <2>4. CASE WorkerTickEnter(w)
    BY <1>3, <2>4 DEF WorkerTickEnter
  <2>5. CASE WorkerTickLeave(w)
    BY <1>4, <2>5 DEF WorkerTickLeave
  <2>6. CASE WorkerTickRaise(w)
    BY <2>6 DEF WorkerTickRaise, TickRaise
  <2>7. CASE WorkerStatus(w)
    BY <2>7 DEF WorkerStatus
  <2>8. CASE WorkerAutosave(w)
    BY <2>8 DEF WorkerAutosave, SaveCheckpoint
  <2>9. CASE WorkerWake(w)
    BY <2>9 DEF WorkerWake
  <2>10. CASE WorkerExit(w)
    BY <2>10 DEF WorkerExit
  <2> QED
    BY <2>1, <2>2, <2>3, <2>4, <2>5, <2>6, <2>7, <2>8, <2>9, <2>10 DEF WorkerStep
<1>6. CASE \E c \in Clients : ClientCall(c) \/ ClientStep(c)
  <2>1. PICK c \in Clients : ClientCall(c) \/ ClientStep(c)
    BY <1>6
  <2>2. ASSUME NEW resume \in BOOLEAN, Start(c, resume)
        PROVE  phase = "off" /\ phase' = "on" /\ file'.desired = TRUE
    BY <2>2 DEF Start, Launch, DefaultState
  <2>3. CASE StopRequest(c)
    BY <2>3 DEF StopRequest
  <2>11. CASE StopRaises(c)
    BY <2>11 DEF StopRaises
  <2>4. CASE Checkpoint(c)
    BY <2>4 DEF Checkpoint, SaveCheckpoint
  <2>5. CASE ClientGuardedTick(c)
    BY <1>2, <2>5 DEF ClientGuardedTick
  <2>6. CASE ClientTickEnter(c)
    BY <1>3, <2>6 DEF ClientTickEnter
  <2>7. CASE StopJoin(c)
    BY <2>7 DEF StopJoin
  <2>8. CASE StopSave(c)
    BY <2>8 DEF StopSave, SaveCheckpoint
  <2>9. CASE ClientTickLeave(c)
    BY <1>4, <2>9 DEF ClientTickLeave
  <2>10. CASE ClientTickRaise(c)
    BY <2>10 DEF ClientTickRaise, TickRaise
  <2> QED
    BY <2>1, <2>2, <2>3, <2>4, <2>5, <2>6, <2>7, <2>8, <2>9, <2>10, <2>11
    DEF ClientCall, ClientStep
<1>7. CASE Crash
  BY <1>7 DEF Crash
<1>8. CASE BootAutostart
  BY <1>8 DEF BootAutostart, Launch, DownIsAtRest
<1>9. CASE BootPlain
  BY <1>9 DEF BootPlain
<1>10. CASE UNCHANGED vars
  BY <1>10 DEF vars
<1> QED
  BY <1>5, <1>6, <1>7, <1>8, <1>9, <1>10 DEF Next

\* The daemon's lifecycle implements the safety part of the abstract lease.
THEOREM LeaseSafety == Spec => Lease!Init /\ [][Lease!Next]_(Lease!vars)
<1>1. Init => Lease!Init
  BY DEF Init, Lease!Init, WorkerAlive, DefaultState
<1> QED
  BY <1>1, StepLease, DaemonInvariant, PTL DEF Spec

=============================================================================
