------------------------------ MODULE PeerTrust ------------------------------
(***************************************************************************)
(* rag_engine/self_correction.py: the trust in each peer, a JSON file that *)
(* the thread of a verification reads when it has found a contradiction,   *)
(* and replaces.  No lock guards it, and all the threads write one and the *)
(* same temporary file, which is opened, written, and renamed.             *)
(*                                                                         *)
(* A file is the set of the tables whose bytes are in it: none when it was *)
(* only just truncated, more than one when a table was written over a      *)
(* longer one; either way it cannot be read.                               *)
(***************************************************************************)
EXTENDS Naturals

CONSTANTS
    Requests,
    Peers,
    MaxTrust,      \* 1.0, in units of round(..., 6)
    Penalty,       \* trust_penalty_on_contradiction
    MaxRejections, \* so many contradictions are found in each peer's fragments
    MaxFailures    \* the disk fails so many times

ASSUME PeerTrustAssumption ==
    /\ MaxTrust \in Nat
    /\ Penalty \in Nat
    /\ MaxRejections \in [Peers -> Nat]
    /\ MaxFailures \in Nat

VARIABLES
    file,          \* peer_trust.json
    temp,          \* peer_trust.json.tmp
    hasTemp,       \* whether there is one
    at,            \* where each thread is in _lower_peer_trust
    handle,        \* what the file that it has opened is called by now
    scores,        \* the table it is going to write
    rejections,    \* history: the contradictions found in each peer's fragments
    tangled,       \* history: two threads were at it together, or one failed
    failures

threads == <<at, handle, scores>>
trust == <<file, temp, hasTemp, threads, rejections, tangled, failures>>

Scores == [Peers -> 0 .. MaxTrust]

Full == [p \in Peers |-> MaxTrust]

TrustTypeOK ==
    /\ file \in SUBSET Scores
    /\ temp \in SUBSET Scores
    /\ hasTemp \in BOOLEAN
    /\ at \in [Requests -> {"out", "read", "opened", "written"}]
    /\ handle \in [Requests -> {"none", "temp", "file", "gone"}]
    /\ scores \in [Requests -> Scores]
    /\ rejections \in [Peers -> Nat]
    /\ tangled \in BOOLEAN
    /\ failures \in Nat

TrustInit ==
    /\ file = {}
    /\ temp = {}
    /\ hasTemp = FALSE
    /\ at = [r \in Requests |-> "out"]
    /\ handle = [r \in Requests |-> "none"]
    /\ scores = [r \in Requests |-> Full]
    /\ rejections = [p \in Peers |-> 0]
    /\ tangled = FALSE
    /\ failures = 0

-----------------------------------------------------------------------------
\* Mutant: a torn file trusts nobody.
TornIsNobody(x) ==
    IF \E s \in x : x = {s} THEN CHOOSE s \in x : TRUE
    ELSE IF x = {} THEN Full ELSE [p \in Peers |-> 0]

\* json.loads, and 1.0 for who is not named: a missing or torn file is {}.
Reads(x) ==
    IF \E s \in x : x = {s} THEN CHOOSE s \in x : TRUE ELSE Full

\* max(0.0, current - penalty) for p, the others as they were.
Lowered(s, p) ==
    [s EXCEPT ![p] = IF @ > Penalty THEN @ - Penalty ELSE 0]

Busy(q) == at[q] # "out"

\* r has found a contradiction in a fragment of p, and reads the file.
Reject(r, p) ==
    /\ at[r] = "out"
    /\ rejections[p] < MaxRejections[p]
    /\ at' = [at EXCEPT ![r] = "read"]
    /\ scores' = [scores EXCEPT ![r] = Lowered(Reads(file), p)]
    /\ rejections' = [rejections EXCEPT ![p] = @ + 1]
    /\ tangled' = (tangled \/ \E q \in Requests : Busy(q))
    /\ UNCHANGED <<file, temp, hasTemp, handle, failures>>

\* The file is torn in the middle of a character (ensure_ascii=False): that is a
\* UnicodeDecodeError, which nobody catches before the end of the verification.
RejectRaises(r, p) ==
    /\ at[r] = "out"
    /\ rejections[p] < MaxRejections[p]
    /\ file # {} /\ \A s \in file : file # {s}
    /\ rejections' = [rejections EXCEPT ![p] = @ + 1]
    /\ tangled' = TRUE
    /\ UNCHANGED <<file, temp, hasTemp, threads, failures>>

\* Opening truncates the temporary file that another thread may be writing.
Open(r) ==
    /\ at[r] = "read"
    /\ at' = [at EXCEPT ![r] = "opened"]
    /\ handle' = [handle EXCEPT ![r] = "temp"]
    /\ temp' = {}
    /\ hasTemp' = TRUE
    /\ UNCHANGED <<file, scores, rejections, tangled, failures>>

\* What is in a file when own was written at its beginning: the end of what was
\* there may show behind it.
Written(x, own) ==
    {{own}} \cup (IF x = {} THEN {} ELSE {x \cup {own}})

\* The handle writes wherever the file it opened has been moved to meanwhile.
Write(r) ==
    /\ at[r] = "opened"
    /\ at' = [at EXCEPT ![r] = "written"]
    /\ handle' = [handle EXCEPT ![r] = "none"]
    /\ \/ handle[r] = "temp" /\ temp' \in Written(temp, scores[r]) /\ file' = file
       \/ handle[r] = "file" /\ file' \in Written(file, scores[r]) /\ temp' = temp
       \/ handle[r] = "gone" /\ UNCHANGED <<file, temp>>
    /\ UNCHANGED <<hasTemp, scores, rejections, tangled, failures>>

Leaves(r) ==
    /\ at' = [at EXCEPT ![r] = "out"]
    /\ scores' = [scores EXCEPT ![r] = Full]

\* Mutant: the file that was written is never given its name.
NotReplaced(r) ==
    /\ at[r] = "written"
    /\ hasTemp
    /\ Leaves(r)
    /\ UNCHANGED <<file, temp, hasTemp, handle, rejections, tangled, failures>>

\* What an open file is called when the temporary file gets the other one's name.
Renamed(name) ==
    IF name = "temp" THEN "file" ELSE IF name = "file" THEN "gone" ELSE name

\* temp.replace(path); a handle that is open follows its file.
Replace(r) ==
    /\ at[r] = "written"
    /\ hasTemp
    /\ Leaves(r)
    /\ file' = temp
    /\ temp' = {}
    /\ hasTemp' = FALSE
    /\ handle' = [q \in Requests |-> Renamed(handle[q])]
    /\ UNCHANGED <<rejections, tangled, failures>>

\* Another thread has renamed it already: FileNotFoundError.
ReplaceFails(r) ==
    /\ at[r] = "written"
    /\ ~hasTemp
    /\ Leaves(r)
    /\ UNCHANGED <<file, temp, hasTemp, handle, rejections, tangled, failures>>

\* An OSError of any step; a write may have got half way over what was there.
DiskFails(r) ==
    /\ failures < MaxFailures
    /\ failures' = failures + 1
    /\ Busy(r)
    /\ Leaves(r)
    /\ handle' = [handle EXCEPT ![r] = "none"]
    /\ tangled' = TRUE
    /\ \/ UNCHANGED <<file, temp>>
       \/ handle[r] = "temp" /\ temp # {} /\ temp' = temp \cup {scores[r]} /\ file' = file
       \/ handle[r] = "file" /\ file # {} /\ file' = file \cup {scores[r]} /\ temp' = temp
    /\ UNCHANGED <<hasTemp, rejections>>

-----------------------------------------------------------------------------
\* Every table anywhere, in a file or about to be written.
Tables == file \cup temp \cup {scores[r] : r \in Requests}

\* However the threads overlap, lose each other's updates or tear the file, a peer
\* is never trusted less than one penalty for each contradiction that was found in
\* its fragments accounts for.
NeverOverpunished ==
    \A s \in Tables, p \in Peers : s[p] + Penalty * rejections[p] >= MaxTrust

\* As long as no two threads were at the file together and the disk did not fail,
\* the file says what all the contradictions found so far add up to.
ExactWhereApart ==
    ~tangled /\ (\A r \in Requests : ~Busy(r)) =>
        \A p \in Peers :
            LET lost == Penalty * rejections[p]
            IN Reads(file)[p] = IF lost < MaxTrust THEN MaxTrust - lost ELSE 0
=============================================================================
