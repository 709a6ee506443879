------------------------------ MODULE RawIngest ------------------------------
(***************************************************************************)
(* ingest_raw_documents of knowledge_bakery/learning_daemon.py and the part *)
(* of tick_daemon that decides whether the memory is rebuilt: files move    *)
(* from data/raw to data/cleaned, their ontology potentiates the synaptic   *)
(* tables of homage.db, and ingested_files remembers their fingerprints.    *)
(* One thread does this at a time, the one in tick_daemon, but it can be    *)
(* cut short between any two of the effects below, some of which are made   *)
(* on the file system and some inside a transaction.                        *)
(*                                                                         *)
(* A document stands for a fingerprint (file name and content); the rows   *)
(* its ontology yields are numbered, nodes first.                          *)
(***************************************************************************)
EXTENDS Naturals

CONSTANTS
    Docs,          \* fingerprints of files that may be dropped into data/raw
    None,          \* no file in hand, no inputs
    Rows,          \* how many node and edge rows the ontology of a file yields
    FlushRows,     \* AUTO_FLUSH_FRAGMENT_COUNT, for the rows of one file
    FlushFiles,    \* the same limit for files, which have a counter of their own
    MaxDrops,      \* files are dropped so many times
    MaxFaults      \* the tick is cut short so many times

ASSUME RawIngestAssumption ==
    /\ None \notin Docs
    /\ Rows \in Nat
    /\ FlushRows \in Nat \ {0}
    /\ FlushFiles \in Nat \ {0}
    /\ MaxDrops \in Nat
    /\ MaxFaults \in Nat

VARIABLES
    raw,        \* how many files with each fingerprint are in data/raw
    cleaned,    \* and in data/cleaned
    batch,      \* and in ingest_batches/<fingerprint>
    durable,    \* the committed rows of homage.db
    view,       \* the rows as the ingesting connection sees them
    memory,     \* the cleaned files that the memory index was last built from
    input,      \* the inputs that daemon_state.json says were learned last
    pc,         \* where tick_daemon is
    todo,       \* the candidates that are left
    cur,        \* the fingerprint of the file in hand
    pos,        \* the row of its ontology that comes next
    rowsPending,    \* pending of the _AutoFlush of the file in hand
    filesPending,   \* pending of the _AutoFlush of the batch
    fresh,      \* has this tick ingested a file?
    print,      \* the inputs as this tick fingerprinted them
    drops,      \* how often a file was dropped
    faults      \* how often a tick was cut short

disk == <<raw, cleaned, batch>>
local == <<todo, cur, pos, rowsPending, filesPending, fresh, print>>
vars == <<disk, durable, view, memory, input, pc, local, drops, faults>>

Counts == [Docs -> Nat]

\* What the tables hold: how often each row of a file was potentiated, and the
\* fingerprints in ingested_files.
Tables == [potentiated : [Docs -> [1 .. Rows -> Nat]], ingested : SUBSET Docs]

Inputs == [raw : Counts, cleaned : Counts]

PC == {"idle", "file", "duplicate", "copy", "upsert", "record", "learn",
       "fingerprint", "rebuild", "persist"}

TypeOK ==
    /\ raw \in Counts
    /\ cleaned \in Counts
    /\ batch \in Counts
    /\ durable \in Tables
    /\ view \in Tables
    /\ memory \in Counts
    /\ input \in Inputs \cup {None}
    /\ pc \in PC
    /\ todo \in Counts
    /\ cur \in Docs \cup {None}
    /\ pos \in 1 .. Rows + 1
    /\ rowsPending \in Nat
    /\ filesPending \in Nat
    /\ fresh \in BOOLEAN
    /\ print \in Inputs \cup {None}
    /\ drops \in Nat
    /\ faults \in Nat

NoFile == [d \in Docs |-> 0]

NoRows == [potentiated |-> [d \in Docs |-> [k \in 1 .. Rows |-> 0]], ingested |-> {}]

Init ==
    /\ raw = NoFile
    /\ cleaned = NoFile
    /\ batch = NoFile
    /\ durable = NoRows
    /\ view = NoRows
    /\ memory = NoFile
    /\ input = None
    /\ pc = "idle"
    /\ todo = NoFile
    /\ cur = None
    /\ pos = 1
    /\ rowsPending = 0
    /\ filesPending = 0
    /\ fresh = FALSE
    /\ print = None
    /\ drops = 0
    /\ faults = 0

-----------------------------------------------------------------------------
(* The user puts a file into data/raw, the same one again if he likes: in a *)
(* folder of its own when the first is still there.                         *)
Drop(d) ==
    /\ drops < MaxDrops
    /\ drops' = drops + 1
    /\ raw' = [raw EXCEPT ![d] = @ + 1]
    /\ UNCHANGED <<cleaned, batch, durable, view, memory, input, pc, local, faults>>

-----------------------------------------------------------------------------
(* _AutoFlush.mark and flush, one for the rows of a file and one for the    *)
(* files of a batch: the transaction, which is the same one, is committed   *)
(* once enough is pending, or enough time has passed.                       *)

Commit == durable' = view'

MarkRow ==
    \/ Commit /\ rowsPending' = 0
    \/ /\ rowsPending + 1 < FlushRows
       /\ rowsPending' = rowsPending + 1
       /\ UNCHANGED durable

FlushPendingRows ==
    \/ rowsPending > 0 /\ Commit /\ rowsPending' = 0
    \/ rowsPending = 0 /\ UNCHANGED <<durable, rowsPending>>

MarkFile ==
    \/ Commit /\ filesPending' = 0
    \/ /\ filesPending + 1 < FlushFiles
       /\ filesPending' = filesPending + 1
       /\ UNCHANGED durable

-----------------------------------------------------------------------------
(* ingest_raw_documents. *)

\* The candidates: files that are too young are left for another tick.
Scan ==
    /\ pc = "idle"
    /\ todo' \in {f \in [Docs -> 0 .. MaxDrops] : \A d \in Docs : f[d] <= raw[d]}
    /\ pc' = IF todo' = NoFile THEN "fingerprint" ELSE "file"
    /\ UNCHANGED <<disk, durable, view, memory, input, cur, pos, rowsPending, filesPending,
                   fresh, print, drops, faults>>

\* Mutant: the look-up does not see what its own transaction wrote.
TakeByCommitted(d) ==
    /\ pc = "file"
    /\ todo[d] > 0
    /\ todo' = [todo EXCEPT ![d] = @ - 1]
    /\ raw' = [raw EXCEPT ![d] = @ - 1]
    /\ cleaned' = [cleaned EXCEPT ![d] = @ + 1]
    /\ cur' = d
    /\ pc' = IF d \in durable.ingested THEN "duplicate" ELSE "copy"
    /\ UNCHANGED <<batch, durable, view, memory, input, pos, rowsPending, filesPending,
                   fresh, print, drops, faults>>

\* Fingerprint, look-up and shutil.move: the first effect that lasts.
Take(d) ==
    /\ pc = "file"
    /\ todo[d] > 0
    /\ todo' = [todo EXCEPT ![d] = @ - 1]
    /\ raw' = [raw EXCEPT ![d] = @ - 1]
    /\ cleaned' = [cleaned EXCEPT ![d] = @ + 1]
    /\ cur' = d
    /\ pc' = IF d \in view.ingested THEN "duplicate" ELSE "copy"
    /\ UNCHANGED <<batch, durable, view, memory, input, pos, rowsPending, filesPending,
                   fresh, print, drops, faults>>

\* A file that was ingested before: an event is all there is to write.
Duplicate ==
    /\ pc = "duplicate"
    /\ UNCHANGED view
    /\ MarkFile
    /\ pc' = "file"
    /\ UNCHANGED <<disk, memory, input, todo, cur, pos, rowsPending, fresh,
                   print, drops, faults>>

\* The copy into the batch directory, and the ontology of what is there.
CopyBatch ==
    /\ pc = "copy"
    /\ batch' = [batch EXCEPT ![cur] = @ + 1]
    /\ pos' = 1
    /\ rowsPending' = 0
    /\ pc' = "upsert"
    /\ UNCHANGED <<raw, cleaned, durable, view, memory, input, todo, cur, filesPending,
                   fresh, print, drops, faults>>

\* One row of _upsert_sqlite_synapses, marked.
UpsertRow ==
    /\ pc = "upsert"
    /\ pos <= Rows
    /\ view' = [view EXCEPT !.potentiated[cur][pos] = @ + 1]
    /\ MarkRow
    /\ pos' = pos + 1
    /\ UNCHANGED <<disk, memory, input, pc, todo, cur, filesPending, fresh, print, drops, faults>>

\* Mutant: nothing is flushed at the end of a file.
FinishUpsertUnflushed ==
    /\ pc = "upsert"
    /\ pos > Rows
    /\ pc' = "record"
    /\ UNCHANGED <<disk, durable, view, memory, input, local, drops, faults>>

\* Its end: the event, and a flush if any row is pending.
FinishUpsert ==
    /\ pc = "upsert"
    /\ pos > Rows
    /\ UNCHANGED view
    /\ FlushPendingRows
    /\ pc' = "record"
    /\ UNCHANGED <<disk, memory, input, todo, cur, pos, filesPending, fresh,
                   print, drops, faults>>

\* The file enters ingested_files, after its rows.
Record ==
    /\ pc = "record"
    /\ view' = [view EXCEPT !.ingested = @ \cup {cur}]
    /\ MarkFile
    /\ fresh' = TRUE
    /\ pc' = "file"
    /\ UNCHANGED <<disk, memory, input, todo, cur, pos, rowsPending, print, drops, faults>>

\* No candidate is left: whatever is pending is committed.
FinishFiles ==
    /\ pc = "file"
    /\ todo = NoFile
    /\ UNCHANGED view
    /\ Commit
    /\ filesPending' = 0
    /\ pc' = IF fresh THEN "learn" ELSE "fingerprint"
    /\ UNCHANGED <<disk, memory, input, todo, cur, pos, rowsPending, fresh,
                   print, drops, faults>>

\* The ontology and the memory of all cleaned files, after a new one.
Learn ==
    /\ pc = "learn"
    /\ memory' = cleaned
    /\ pc' = "fingerprint"
    /\ UNCHANGED <<disk, durable, view, input, local, drops, faults>>

-----------------------------------------------------------------------------
(* The rest of tick_daemon. *)

\* Mutant: the fingerprint is remembered before the inputs are learned.
FingerprintEarly ==
    /\ pc = "fingerprint"
    /\ print' = [raw |-> raw, cleaned |-> cleaned]
    /\ input' = print'
    /\ pc' = "rebuild"
    /\ UNCHANGED <<disk, durable, view, memory, todo, cur, pos, rowsPending,
                   filesPending, fresh, drops, faults>>

Fingerprint ==
    /\ pc = "fingerprint"
    /\ print' = [raw |-> raw, cleaned |-> cleaned]
    /\ pc' = "rebuild"
    /\ UNCHANGED <<disk, durable, view, memory, input, todo, cur, pos, rowsPending,
                   filesPending, fresh, drops, faults>>

\* needs_build: always when the tick is forced or the ontology snapshot, which
\* is an input too, has changed; never when nothing has.
Rebuild ==
    /\ pc = "rebuild"
    /\ memory' = cleaned
    /\ pc' = "persist"
    /\ UNCHANGED <<disk, durable, view, input, local, drops, faults>>

NoRebuild ==
    /\ pc = "rebuild"
    /\ ~fresh
    /\ input = print
    /\ pc' = "persist"
    /\ UNCHANGED <<disk, durable, view, memory, input, local, drops, faults>>

\* What the locals of a tick are between ticks.
Forget ==
    /\ todo' = NoFile
    /\ cur' = None
    /\ pos' = 1
    /\ rowsPending' = 0
    /\ filesPending' = 0
    /\ fresh' = FALSE
    /\ print' = None

\* last_input_fingerprint reaches daemon_state.json with the tick's end.
Persist ==
    /\ pc = "persist"
    /\ input' = print
    /\ pc' = "idle"
    /\ Forget
    /\ UNCHANGED <<disk, durable, view, memory, drops, faults>>

-----------------------------------------------------------------------------
(* The process ends or an exception leaves the tick: files stay where they  *)
(* are, the open transaction is rolled back.                                *)
CutShort ==
    /\ pc # "idle"
    /\ faults < MaxFaults
    /\ faults' = faults + 1
    /\ view' = durable
    /\ pc' = "idle"
    /\ Forget
    /\ UNCHANGED <<disk, durable, memory, input, drops>>

TickStep ==
    \/ Scan \/ (\E d \in Docs : Take(d)) \/ Duplicate \/ CopyBatch
    \/ UpsertRow \/ FinishUpsert \/ Record \/ FinishFiles \/ Learn
    \/ Fingerprint \/ Rebuild \/ NoRebuild \/ Persist

Next ==
    \/ \E d \in Docs : Drop(d)
    \/ TickStep
    \/ CutShort

\* The worker ticks for ever, and a file is old enough for a tick in the end.
Fairness ==
    /\ WF_vars(TickStep)
    /\ \A d \in Docs : SF_vars(Scan /\ todo'[d] > 0)

Spec == Init /\ [][Next]_vars

FairSpec == Spec /\ Fairness

-----------------------------------------------------------------------------
(* Properties. *)

\* A fingerprint in ingested_files, even one that is not committed yet, has all
\* its rows committed: a file is never taken for a duplicate of one whose
\* synapses were lost.
RecordedIsPotentiated ==
    \A d \in view.ingested : \A k \in 1 .. Rows : durable.potentiated[d][k] > 0

\* Dropping a file again and again strengthens its synapses once, and once more
\* for each time a tick was cut short: the only way to learn a file twice.
PotentiatedOnce ==
    \A d \in Docs : \A k \in 1 .. Rows : durable.potentiated[d][k] <= 1 + faults

\* A file whose record is committed is settled: nothing that happens afterwards
\* potentiates its rows again or forgets it.
RecordIsFinal ==
    [][\A d \in durable.ingested :
          /\ d \in durable'.ingested
          /\ durable'.potentiated[d] = durable.potentiated[d]]_vars

\* The memory index catches up with every dropped file, although a tick may be
\* cut short after it has moved the file out of sight: the inputs of a tick
\* that did not finish are not yet those that daemon_state.json remembers.
MemoryCatchesUp == <>[](raw = NoFile /\ memory = cleaned)

\* "The daemon resumes from SQLite WAL, events.jsonl, and daemon_state.json": a
\* file that was in data/raw has its synapses potentiated in the end.
DroppedIsPotentiated ==
    \A d \in Docs : raw[d] > 0 ~> \A k \in 1 .. Rows : durable.potentiated[d][k] > 0

=============================================================================
