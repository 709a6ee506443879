------------------------------- MODULE DataGate -------------------------------
(***************************************************************************)
(* DataGate: a request starts a run (services/datagate_service.py), whose   *)
(* background task filters the files of data/raw (datagate/runner.py) and   *)
(* then overwrites data/cleaned, data/rejected and documents.jsonl          *)
(* (datagate/io.py).  The learning daemon takes files out of data/raw and   *)
(* puts them into data/cleaned at any moment.                               *)
(*                                                                         *)
(* What the thresholds of a configuration make of a text is a constant; the *)
(* document id is the hash of its normalized form, which several texts may  *)
(* have, of which a configuration rejects some and accepts others.          *)
(***************************************************************************)
EXTENDS Integers, FiniteSets

CONSTANTS
    Requests,
    Files,       \* the paths of data/raw, in their sorted order
    Texts,
    Forms,
    Form,        \* normalize_text, of which the id is the hash
    Configs,
    Short,       \* texts that min_length rejects under a configuration
    Symbols,     \* texts that special_char_ratio rejects
    LinkLists,   \* texts that link_density rejects
    None,
    MaxDrops

ASSUME DataGateAssumption ==
    /\ Files \subseteq Nat
    /\ IsFiniteSet(Files)
    /\ Form \in [Texts -> Forms]
    /\ Short \in [Configs -> SUBSET Texts]
    /\ Symbols \in [Configs -> SUBSET Texts]
    /\ LinkLists \in [Configs -> SUBSET Texts]
    /\ None \notin Configs \cup Texts \cup Requests
    /\ MaxDrops \in Nat

VARIABLES
    raw,       \* the text of each file of data/raw, None where there is no file
    cleaned,   \* data/cleaned: what DataGate wrote and what the daemon moved there
    rejected,  \* data/rejected
    jsonl,     \* the lines of documents.jsonl
    status,    \* _status
    pending,   \* _pending_config
    run,       \* the runs, by the request that started each
    drops

dirs == <<raw, cleaned, rejected, jsonl>>
vars == <<dirs, status, pending, run, drops>>

Reasons == {"accepted", "read_error", "min_length", "duplicate_hash", "special_char_ratio",
            "link_density"}

\* An unreadable file has no text; its id is made of its path.
Lines == [file : Files, text : Texts \cup {None}, by : Reasons]

Phases == {"none", "accepted", "queued", "discover", "filter", "clear", "remove", "write",
           "report"}

Runs == [pc : Phases, asked : Configs \cup {None}, config : Configs \cup {None},
         todo : SUBSET Files, seen : SUBSET Forms, lines : SUBSET Lines,
         unwritten : SUBSET Lines]

TypeOK ==
    /\ raw \in [Files -> Texts \cup {None}]
    /\ cleaned \in [gate : SUBSET Forms, moved : SUBSET Texts]
    /\ rejected \subseteq Forms \cup Files
    /\ jsonl \subseteq Lines
    /\ status \in [state : {"idle", "running", "completed", "failed"},
                   by : Requests \cup {None}]
    /\ pending \in Configs \cup {None}
    /\ run \in [Requests -> Runs]
    /\ drops \in Nat

NoRun == [pc |-> "none", asked |-> None, config |-> None, todo |-> {}, seen |-> {},
          lines |-> {}, unwritten |-> {}]

Init ==
    /\ raw = [f \in Files |-> None]
    /\ cleaned = [gate |-> {}, moved |-> {}]
    /\ rejected = {}
    /\ jsonl = {}
    /\ status = [state |-> "idle", by |-> None]
    /\ pending = None
    /\ run = [r \in Requests |-> NoRun]
    /\ drops = 0

-----------------------------------------------------------------------------
(* The directories' other users. *)

Drop(f, t) ==
    /\ drops < MaxDrops
    /\ drops' = drops + 1
    /\ raw[f] = None
    /\ raw' = [raw EXCEPT ![f] = t]
    /\ UNCHANGED <<cleaned, rejected, jsonl, status, pending, run>>

\* shutil.move of the learning daemon, under a name of its own and into a directory that it
\* makes just before if need be.  Where DataGate removes the directory between the two, the
\* move fails, its tick ends, and nothing has changed here.
DaemonMoves(f) ==
    /\ raw[f] # None
    /\ raw' = [raw EXCEPT ![f] = None]
    /\ cleaned' = [cleaned EXCEPT !.moved = @ \cup {raw[f]}]
    /\ UNCHANGED <<rejected, jsonl, status, pending, run, drops>>

-----------------------------------------------------------------------------
(* The service. *)

\* start_run under its lock.
Accept(r, config) ==
    /\ run[r].pc = "none"
    /\ status.state # "running"
    /\ status' = [state |-> "running", by |-> r]
    /\ run' = [run EXCEPT ![r] = [NoRun EXCEPT !.pc = "accepted", !.asked = config]]
    /\ UNCHANGED <<dirs, pending, drops>>

\* Mutant: the configuration is kept before the lock is taken.
RefuseTooLate(r, config) ==
    /\ run[r].pc = "none"
    /\ status.state = "running"
    /\ pending' = config
    /\ UNCHANGED <<dirs, status, run, drops>>

\* DataGateRunAlreadyRunning, which the router answers with 409.
Refuse(r, config) ==
    /\ run[r].pc = "none"
    /\ status.state = "running"
    /\ UNCHANGED vars

\* The rest of start_run, after the lock.
Keep(r) ==
    /\ run[r].pc = "accepted"
    /\ pending' = run[r].asked
    /\ run' = [run EXCEPT ![r].pc = "queued"]
    /\ UNCHANGED <<dirs, status, drops>>

\* The background task, after the answer.
RunPending(r) ==
    /\ run[r].pc = "queued"
    /\ run' = [run EXCEPT ![r].pc = "discover", ![r].config = pending]
    /\ UNCHANGED <<dirs, status, pending, drops>>

-----------------------------------------------------------------------------
(* The pipeline. *)

Discover(r) ==
    /\ run[r].pc = "discover"
    /\ run' = [run EXCEPT ![r].pc = "filter", ![r].todo = {f \in Files : raw[f] # None}]
    /\ UNCHANGED <<dirs, status, pending, drops>>

\* Mutant: every document meets a filter that was reset.
DuplicateHashReset(seen, text) == Form[text] \notin {}

\* What each filter lets pass.  The thresholds are of the text as it is; the filter of
\* duplicates asks for its form, and has seen what passed the one before.
MinLength(config, text) == text \notin Short[config]

DuplicateHash(seen, text) == Form[text] \notin seen

SpecialCharRatio(config, text) == text \notin Symbols[config]

LinkDensity(config, text) == text \notin LinkLists[config]

\* What the filter of duplicates has remembered once it met a text.
Remembered(config, seen, text) ==
    IF text # None /\ MinLength(config, text) THEN seen \cup {Form[text]} ELSE seen

\* _process_one: the chain of filters ends with the first that rejects.
Verdict(config, seen, text) ==
    IF text = None THEN "read_error"
    ELSE IF ~MinLength(config, text) THEN "min_length"
    ELSE IF ~DuplicateHash(seen, text) THEN "duplicate_hash"
    ELSE IF ~SpecialCharRatio(config, text) THEN "special_char_ratio"
    ELSE IF ~LinkDensity(config, text) THEN "link_density"
    ELSE "accepted"

\* Files are read in the order of their names; one may have been moved by now.
Filter(r) ==
    /\ run[r].pc = "filter"
    /\ \E f \in run[r].todo :
          /\ \A g \in run[r].todo : f <= g
          /\ LET config == run[r].config
                 line == [file |-> f, text |-> raw[f],
                          by |-> Verdict(config, run[r].seen, raw[f])]
             IN run' = [run EXCEPT ![r].todo = @ \ {f},
                                   ![r].seen = Remembered(config, @, raw[f]),
                                   ![r].lines = @ \cup {line},
                                   ![r].unwritten = @ \cup {line}]
    /\ UNCHANGED <<dirs, status, pending, drops>>

EndFilter(r) ==
    /\ run[r].pc = "filter"
    /\ run[r].todo = {}
    /\ run' = [run EXCEPT ![r].pc = "clear"]
    /\ UNCHANGED <<dirs, status, pending, drops>>

\* rmtree lists data/cleaned and unlinks what it saw ...
Clear(r) ==
    /\ run[r].pc = "clear"
    /\ cleaned' = [gate |-> {}, moved |-> {}]
    /\ run' = [run EXCEPT ![r].pc = "remove"]
    /\ UNCHANGED <<raw, rejected, jsonl, status, pending, drops>>

\* ... and cannot remove the directory if the daemon has put a file there since.  What the
\* daemon puts there after that, it puts as well after mkdir, which lets a directory be.
RemoveOutputs(r) ==
    /\ run[r].pc = "remove"
    /\ cleaned.moved = {}
    /\ rejected' = {}
    /\ run' = [run EXCEPT ![r].pc = "write"]
    /\ UNCHANGED <<raw, cleaned, jsonl, status, pending, drops>>

\* The name of a line's file; lines of one form that are both rejected share it.
Id(line) == IF line.text = None THEN line.file ELSE Form[line.text]

Write(r, line) ==
    /\ run[r].pc = "write"
    /\ line \in run[r].unwritten
    /\ run' = [run EXCEPT ![r].unwritten = @ \ {line}]
    /\ IF line.by = "accepted"
       THEN /\ cleaned' = [cleaned EXCEPT !.gate = @ \cup {Id(line)}]
            /\ UNCHANGED rejected
       ELSE /\ rejected' = rejected \cup {Id(line)}
            /\ UNCHANGED cleaned
    /\ UNCHANGED <<raw, jsonl, status, pending, drops>>

List(r) ==
    /\ run[r].pc = "write"
    /\ run[r].unwritten = {}
    /\ jsonl' = run[r].lines
    /\ run' = [run EXCEPT ![r].pc = "report"]
    /\ UNCHANGED <<raw, cleaned, rejected, status, pending, drops>>

\* run_pending: the report of the pipeline becomes the status.
Report(r) ==
    /\ run[r].pc = "report"
    /\ status' = [state |-> "completed", by |-> r]
    /\ run' = [run EXCEPT ![r] = NoRun]
    /\ UNCHANGED <<dirs, pending, drops>>

\* Mutant: the exception leaves the background task.
RunDies(r) ==
    /\ run[r].pc \in {"discover", "filter", "clear", "remove", "write"}
    /\ run' = [run EXCEPT ![r] = NoRun]
    /\ UNCHANGED <<dirs, status, pending, drops>>

\* Mutant: an exception while the outputs are written is only logged.
RunFailsUnnoticed(r) ==
    /\ run[r].pc \in {"discover", "filter", "clear", "remove", "write"}
    /\ status' = [state |-> "completed", by |-> r]
    /\ run' = [run EXCEPT ![r] = NoRun]
    /\ UNCHANGED <<dirs, pending, drops>>

\* What a run that ends while it writes documents.jsonl leaves of it.
Torn(r) ==
    IF run[r].pc = "write" /\ run[r].unwritten = {}
    THEN {jsonl} \cup {{l \in run[r].lines : l.file < f} : f \in Files}
    ELSE {jsonl}

\* Any exception, of a full disk or of the directory that is not empty: a report
\* that says "failed", or the service's own handler.
RunFails(r) ==
    /\ run[r].pc \in {"discover", "filter", "clear", "remove", "write"}
    /\ status' = [state |-> "failed", by |-> r]
    /\ run' = [run EXCEPT ![r] = NoRun]
    /\ jsonl' \in Torn(r)
    /\ UNCHANGED <<raw, cleaned, rejected, pending, drops>>

\* The process ends; what is in memory is gone.
Crash ==
    /\ status' = [state |-> "idle", by |-> None]
    /\ pending' = None
    /\ run' = [r \in Requests |-> NoRun]
    /\ jsonl' \in UNION {Torn(r) : r \in Requests}
    /\ UNCHANGED <<raw, cleaned, rejected, drops>>

RunStep(r) ==
    \/ Keep(r) \/ RunPending(r) \/ Discover(r) \/ Filter(r) \/ EndFilter(r)
    \/ Clear(r) \/ RemoveOutputs(r) \/ (\E line \in run[r].unwritten : Write(r, line))
    \/ List(r) \/ Report(r)

Next ==
    \/ \E f \in Files, t \in Texts : Drop(f, t)
    \/ \E f \in Files : DaemonMoves(f)
    \/ \E r \in Requests, config \in Configs : Accept(r, config) \/ Refuse(r, config)
    \/ \E r \in Requests : RunStep(r) \/ RunFails(r)
    \/ Crash

Spec == Init /\ [][Next]_vars

\* A background task that has begun goes on, or meets the exception that stops it.
FairSpec == Spec /\ \A r \in Requests : WF_vars(RunStep(r) \/ RunFails(r))

-----------------------------------------------------------------------------
(* Properties. *)

\* _pending_config is one for all requests and written outside of the lock, and yet
\* every run reads the configuration of the request that started it.
RunsAsAsked == \A r \in Requests : run[r].config \in {None, run[r].asked}

\* Once a run is completed, and until the next begins, documents.jsonl and the
\* two directories agree: every line has its file, accepted ones among the cleaned,
\* and no other file of DataGate's is there.
ListedIsFiled ==
    status.state = "completed" =>
        /\ cleaned.gate = {Id(line) : line \in {l \in jsonl : l.by = "accepted"}}
        /\ rejected = {Id(line) : line \in {l \in jsonl : l.by # "accepted"}}

\* No text is accepted twice, nor is a file listed twice, whatever the daemon takes
\* away while the files are read.
AcceptedOnce ==
    \A l, m \in jsonl : l # m =>
        /\ l.file # m.file
        /\ l.by = "accepted" /\ m.by = "accepted" => Form[l.text] # Form[m.text]

\* A run that is accepted ends: the service does not refuse requests for ever.
RunsEnd == status.state = "running" ~> status.state # "running"

=============================================================================
