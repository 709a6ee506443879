------------------------ MODULE FragmentResolverProofs ------------------------
(***************************************************************************)
(* Proofs about the resolution of fragments and the trust in peers: for    *)
(* any requests, peers, hints and transports, any penalty and any bounds.  *)
(***************************************************************************)
EXTENDS FragmentResolver, FiniteSetTheorems, TLAPS

\* What a table says when no contradiction was lost.
Exact(s) ==
    \A p \in Peers :
        s[p] = IF Penalty * rejections[p] < MaxTrust
               THEN MaxTrust - Penalty * rejections[p] ELSE 0

\* Until two threads meet, one at most has a table in hand, and the table in hand
\* or else the one in the file is exact; what is in the temporary file is its own.
Untangled ==
    ~tangled =>
        /\ \A q, r \in Requests : Busy(q) /\ Busy(r) => q = r
        /\ (\A r \in Requests : ~Busy(r)) => Exact(Reads(file))
        /\ \A r \in Requests : Busy(r) => Exact(scores[r])
        /\ \A r \in Requests : at[r] = "opened" => temp = {} /\ hasTemp /\ handle[r] = "temp"
        /\ \A r \in Requests : at[r] = "written" => temp = {scores[r]} /\ hasTemp

TrustInv == TrustTypeOK /\ NeverOverpunished /\ Untangled

\* A hint is being asked exactly while transports are tried; those that are left
\* can ask it, and the others have been tried.
AskHeld(r) ==
    /\ Busy(r) => pc[r] = "lowering"
    /\ pc[r] \in {"asking", "lowering"} =>
          /\ current[r] \in Hints
          /\ untried[r] \subseteq Usable(current[r])
          /\ \A t \in Usable(current[r]) \ untried[r] : <<current[r], t>> \in tried[r]
    /\ pc[r] \notin {"asking", "lowering"} => current[r] = None
    /\ pc[r] = "idle" => Asked(r) = {}

Local(r) == AskHeld(r) /\ InOrder(r) /\ KeepsBest(r) /\ AllTried(r)

\* The inductive invariant.
IInv ==
    /\ TypeOK
    /\ TrustInv
    /\ \A r \in Requests : Local(r)

-----------------------------------------------------------------------------
(* The operators. *)

\* Reading gives a table of the file, or full trust in everybody.
LEMMA ReadsTable ==
    ASSUME NEW x \in SUBSET Scores
    PROVE  Reads(x) \in Scores /\ (Reads(x) \in x \/ Reads(x) = Full)
<1>1. Full \in Scores
  BY PeerTrustAssumption DEF Full, Scores
<1>2. CASE \E s \in x : x = {s}
  <2>1. (CHOOSE s \in x : TRUE) \in x
    BY <1>2
  <2> QED
    BY <1>2, <2>1 DEF Reads
<1>3. CASE ~\E s \in x : x = {s}
  BY <1>1, <1>3 DEF Reads
<1> QED
  BY <1>2, <1>3

\* What was written alone is what is read.
LEMMA ReadsOne ==
    ASSUME NEW s
    PROVE  Reads({s}) = s
<1>1. \E u \in {s} : {s} = {u}
  OBVIOUS
<1>2. (CHOOSE u \in {s} : TRUE) = s
  OBVIOUS
<1> QED
  BY <1>1, <1>2 DEF Reads

\* Lowering takes one penalty from one peer, down to nothing.
LEMMA LoweredTable ==
    ASSUME NEW s \in Scores, NEW p \in Peers
    PROVE  /\ Lowered(s, p) \in Scores
           /\ Lowered(s, p)[p] = IF s[p] > Penalty THEN s[p] - Penalty ELSE 0
           /\ \A q \in Peers : q # p => Lowered(s, p)[q] = s[q]
<1>1. s[p] \in 0 .. MaxTrust
  BY DEF Scores
<1>2. (IF s[p] > Penalty THEN s[p] - Penalty ELSE 0) \in 0 .. MaxTrust
  BY <1>1, PeerTrustAssumption
<1> QED
  BY <1>2 DEF Lowered, Scores

\* One more contradiction costs one more penalty.
LEMMA OneMorePenalty ==
    ASSUME NEW n \in Nat
    PROVE  /\ Penalty * n \in Nat
           /\ Penalty * (n + 1) = Penalty * n + Penalty
  BY PeerTrustAssumption

-----------------------------------------------------------------------------
(* The threads at the file. *)

LEMMA RejectKeeps ==
    ASSUME TrustInv, NEW r \in Requests, NEW p \in Peers, Reject(r, p)
    PROVE  TrustInv'
<1> USE PeerTrustAssumption
<1> DEFINE old == Reads(file)
           new == Lowered(old, p)
<1>1. TrustTypeOK /\ NeverOverpunished /\ Untangled
  BY DEF TrustInv
<1>2. old \in Scores /\ (old \in file \/ old = Full)
  BY <1>1, ReadsTable DEF TrustTypeOK
<1>3. /\ new \in Scores
      /\ new[p] = IF old[p] > Penalty THEN old[p] - Penalty ELSE 0
      /\ \A q \in Peers : q # p => new[q] = old[q]
  BY <1>2, LoweredTable
<1> HIDE DEF new, old
<1>4. /\ at' = [at EXCEPT ![r] = "read"] /\ scores' = [scores EXCEPT ![r] = new]
      /\ rejections' = [rejections EXCEPT ![p] = rejections[p] + 1]
      /\ tangled' = (tangled \/ \E q \in Requests : Busy(q))
      /\ UNCHANGED <<file, temp, hasTemp, handle, failures>>
  BY DEF Reject, new, old
<1>5. rejections[p] \in Nat /\ rejections'[p] = rejections[p] + 1
      /\ \A q \in Peers : q # p => rejections'[q] = rejections[q]
  BY <1>1, <1>4 DEF TrustTypeOK
<1>6. Penalty * rejections[p] \in Nat
      /\ Penalty * rejections'[p] = Penalty * rejections[p] + Penalty
  BY <1>5, OneMorePenalty
<1>7. TrustTypeOK'
  BY <1>1, <1>3, <1>4, <1>5 DEF TrustTypeOK
<1>8. NeverOverpunished'
  <2> SUFFICES ASSUME NEW s \in Tables', NEW q \in Peers
               PROVE  s[q] + Penalty * rejections'[q] >= MaxTrust
    BY DEF NeverOverpunished
  <2>1. s \in Tables \/ s = new
    BY <1>1, <1>4 DEF Tables, TrustTypeOK
  <2>2. \A u \in Tables : u \in Scores /\ u[q] \in Nat
    BY <1>1 DEF Tables, TrustTypeOK, Scores
  <2>3. rejections[q] \in Nat /\ Penalty * rejections[q] \in Nat
    BY <1>1, OneMorePenalty DEF TrustTypeOK
  <2>4. Penalty * rejections'[q] >= Penalty * rejections[q] /\ Penalty * rejections'[q] \in Nat
    BY <1>5, <1>6, <2>3
  <2>5. CASE s \in Tables
    <3>1. s[q] + Penalty * rejections[q] >= MaxTrust
      BY <1>1, <2>5 DEF NeverOverpunished
    <3> QED
      BY <2>2, <2>3, <2>4, <2>5, <3>1
  <2>6. CASE s = new
    <3>1. old[q] \in Nat /\ old[q] + Penalty * rejections[q] >= MaxTrust
      <4>1. CASE old = Full
        BY <2>3, <4>1 DEF Full
      <4>2. CASE old \in file
        BY <1>1, <1>2, <4>2 DEF NeverOverpunished, Tables, Scores
      <4> QED
        BY <1>2, <4>1, <4>2
    <3> QED
      BY <1>3, <1>5, <1>6, <2>3, <2>6, <3>1
  <2> QED
    BY <2>1, <2>5, <2>6
<1>9. Untangled'
  <2> SUFFICES ASSUME ~tangled' PROVE
          /\ \A q, u \in Requests : Busy(q)' /\ Busy(u)' => q = u
          /\ (\A u \in Requests : ~Busy(u)') => Exact(Reads(file))'
          /\ \A u \in Requests : Busy(u)' => Exact(scores[u])'
          /\ \A u \in Requests : at'[u] = "opened" => temp' = {} /\ hasTemp' /\ handle'[u] = "temp"
          /\ \A u \in Requests : at'[u] = "written" => temp' = {scores'[u]} /\ hasTemp'
    BY DEF Untangled
  <2>1. ~tangled /\ \A q \in Requests : at[q] = "out"
    BY <1>4 DEF Busy
  <2>2. at'[r] = "read" /\ \A q \in Requests : q # r => at'[q] = "out"
    BY <1>1, <1>4, <2>1 DEF TrustTypeOK
  <2>3. Exact(old)
    BY <1>1, <2>1 DEF Untangled, Busy, old
  <2>4. Exact(scores[r])'
    <3>1. scores'[r] = new
      BY <1>1, <1>4 DEF TrustTypeOK
    <3> SUFFICES ASSUME NEW q \in Peers
                 PROVE  new[q] = IF Penalty * rejections'[q] < MaxTrust
                                 THEN MaxTrust - Penalty * rejections'[q] ELSE 0
      BY <3>1 DEF Exact
    <3>2. old[q] = IF Penalty * rejections[q] < MaxTrust
                   THEN MaxTrust - Penalty * rejections[q] ELSE 0
      BY <2>3 DEF Exact
    <3> QED
      BY <1>3, <1>5, <1>6, <3>2
  <2> QED
    BY <2>2, <2>4 DEF Busy
<1> QED
  BY <1>7, <1>8, <1>9 DEF TrustInv

\* A contradiction that nobody writes down leaves each peer with more than it cost.
LEMMA RejectRaisesKeeps ==
    ASSUME TrustInv, NEW r \in Requests, NEW p \in Peers, RejectRaises(r, p)
    PROVE  TrustInv'
<1>1. /\ rejections' = [rejections EXCEPT ![p] = rejections[p] + 1] /\ tangled' = TRUE
      /\ UNCHANGED <<file, temp, hasTemp, at, handle, scores, failures>>
  BY DEF RejectRaises, threads
<1>2. TrustTypeOK'
  BY <1>1 DEF TrustInv, TrustTypeOK
<1>3. NeverOverpunished'
  <2> SUFFICES ASSUME NEW s \in Tables, NEW q \in Peers
               PROVE  s[q] + Penalty * rejections'[q] >= MaxTrust
    BY <1>1 DEF NeverOverpunished, Tables
  <2>1. rejections[q] \in Nat /\ rejections'[q] \in {rejections[q], rejections[q] + 1}
    BY <1>1 DEF TrustInv, TrustTypeOK
  <2>2. Penalty * rejections[q] \in Nat
        /\ Penalty * (rejections[q] + 1) = Penalty * rejections[q] + Penalty
    BY <2>1, OneMorePenalty
  <2>3. s[q] \in Nat /\ s[q] + Penalty * rejections[q] >= MaxTrust
    BY DEF TrustInv, NeverOverpunished, TrustTypeOK, Tables, Scores
  <2> QED
    BY <2>1, <2>2, <2>3, PeerTrustAssumption
<1> QED
  BY <1>1, <1>2, <1>3 DEF TrustInv, Untangled

\* A step that moves tables about keeps every score as far as it was.
LEMMA MovedTables ==
    ASSUME NeverOverpunished, rejections' = rejections,
           \A s \in Tables' : s \in Tables \/ s = Full,
           rejections \in [Peers -> Nat]
    PROVE  NeverOverpunished'
<1> SUFFICES ASSUME NEW s \in Tables', NEW q \in Peers
             PROVE  s[q] + Penalty * rejections[q] >= MaxTrust
  BY DEF NeverOverpunished
<1>1. CASE s \in Tables
  BY <1>1 DEF NeverOverpunished
<1>2. CASE s = Full
  <2>1. Penalty * rejections[q] \in Nat
    BY OneMorePenalty
  <2> QED
    BY <1>2, <2>1, PeerTrustAssumption DEF Full
<1> QED
  BY <1>1, <1>2

LEMMA OpenKeeps ==
    ASSUME TrustInv, NEW r \in Requests, Open(r)
    PROVE  TrustInv'
<1>1. TrustTypeOK'
  BY DEF TrustInv, TrustTypeOK, Open
<1>2. NeverOverpunished'
  <2>1. Tables' \subseteq Tables
    BY DEF Open, Tables
  <2> QED
    BY <2>1, MovedTables DEF TrustInv, TrustTypeOK, Open
<1>3. Untangled'
  <2>1. /\ at' = [at EXCEPT ![r] = "opened"] /\ handle' = [handle EXCEPT ![r] = "temp"]
        /\ temp' = {} /\ hasTemp' = TRUE /\ at[r] = "read"
        /\ UNCHANGED <<file, scores, rejections, tangled, failures>>
    BY DEF Open
  <2>2. at \in [Requests -> {"out", "read", "opened", "written"}]
        /\ handle \in [Requests -> {"none", "temp", "file", "gone"}]
    BY DEF TrustInv, TrustTypeOK
  <2>3. \A q \in Requests : Busy(q)' <=> Busy(q)
    BY <2>1, <2>2 DEF Busy
  <2>4. \A s : Exact(s)' <=> Exact(s)
    BY <2>1 DEF Exact
  <2>5. Reads(file)' = Reads(file)
    BY <2>1 DEF Reads, Full
  <2>6. ~tangled => \A q \in Requests : q # r => at[q] = "out"
    BY <2>1 DEF TrustInv, Untangled, Busy
  <2> QED
    BY <2>1, <2>2, <2>3, <2>4, <2>5, <2>6 DEF TrustInv, Untangled, Busy, Exact
<1> QED
  BY <1>1, <1>2, <1>3 DEF TrustInv

LEMMA WrittenTables ==
    ASSUME NEW x \in SUBSET Scores, NEW own \in Scores, NEW y \in Written(x, own)
    PROVE  y \in SUBSET Scores /\ y \subseteq x \cup {own} /\ (x = {} => y = {own})
  BY DEF Written

LEMMA WriteKeeps ==
    ASSUME TrustInv, NEW r \in Requests, Write(r)
    PROVE  TrustInv'
<1>1. /\ at \in [Requests -> {"out", "read", "opened", "written"}]
      /\ handle \in [Requests -> {"none", "temp", "file", "gone"}]
      /\ file \in SUBSET Scores /\ temp \in SUBSET Scores /\ scores[r] \in Scores
  BY DEF TrustInv, TrustTypeOK
<1>2. /\ at[r] = "opened" /\ at' = [at EXCEPT ![r] = "written"]
      /\ handle' = [handle EXCEPT ![r] = "none"]
      /\ UNCHANGED <<hasTemp, scores, rejections, tangled, failures>>
  BY DEF Write
<1>3. /\ file' \in SUBSET Scores /\ temp' \in SUBSET Scores
      /\ file' \subseteq file \cup {scores[r]} /\ temp' \subseteq temp \cup {scores[r]}
      /\ handle[r] = "temp" => file' = file /\ (temp = {} => temp' = {scores[r]})
  BY <1>1, WrittenTables DEF Write
<1>4. TrustTypeOK'
  BY <1>1, <1>2, <1>3 DEF TrustInv, TrustTypeOK
<1>5. NeverOverpunished'
  <2>1. Tables' \subseteq Tables
    BY <1>2, <1>3 DEF Tables
  <2> QED
    BY <1>2, <2>1, MovedTables DEF TrustInv, TrustTypeOK
<1>6. Untangled'
  <2>1. \A q \in Requests : Busy(q)' <=> Busy(q)
    BY <1>1, <1>2 DEF Busy
  <2>2. \A s : Exact(s)' <=> Exact(s)
    BY <1>2 DEF Exact
  <2>3. ~tangled => \A q \in Requests : q # r => at[q] = "out"
    BY <1>2 DEF TrustInv, Untangled, Busy
  <2>4. ~tangled => handle[r] = "temp" /\ temp' = {scores[r]} /\ file' = file /\ hasTemp
    <3> SUFFICES ASSUME ~tangled PROVE handle[r] = "temp" /\ temp = {} /\ hasTemp
      BY <1>3
    <3> QED
      BY <1>2 DEF TrustInv, Untangled
  <2>5. ~tangled => Reads(file)' = Reads(file)
    BY <2>4 DEF Reads, Full
  <2> QED
    BY <1>1, <1>2, <2>1, <2>2, <2>3, <2>4, <2>5 DEF TrustInv, Untangled, Busy, Exact
<1> QED
  BY <1>4, <1>5, <1>6 DEF TrustInv

\* The table that a thread has given up is full again, and none else has moved.
LEMMA LeavesScores ==
    ASSUME TrustTypeOK, NEW r \in Requests, Leaves(r)
    PROVE  /\ at' \in [Requests -> {"out", "read", "opened", "written"}]
           /\ scores' \in [Requests -> Scores]
           /\ at'[r] = "out" /\ scores'[r] = Full
           /\ \A q \in Requests : q # r => at'[q] = at[q] /\ scores'[q] = scores[q]
<1>1. Full \in Scores
  BY PeerTrustAssumption DEF Full, Scores
<1> QED
  BY <1>1 DEF Leaves, TrustTypeOK

LEMMA ReplaceKeeps ==
    ASSUME TrustInv, NEW r \in Requests, Replace(r)
    PROVE  TrustInv'
<1>1. /\ at[r] = "written" /\ hasTemp /\ Leaves(r)
      /\ file' = temp /\ temp' = {} /\ hasTemp' = FALSE
      /\ UNCHANGED <<rejections, tangled, failures>>
  BY DEF Replace
<1>2. /\ at' \in [Requests -> {"out", "read", "opened", "written"}]
      /\ scores' \in [Requests -> Scores]
      /\ at'[r] = "out" /\ scores'[r] = Full
      /\ \A q \in Requests : q # r => at'[q] = at[q] /\ scores'[q] = scores[q]
  BY <1>1, LeavesScores DEF TrustInv
<1>3. handle' \in [Requests -> {"none", "temp", "file", "gone"}]
  BY DEF TrustInv, TrustTypeOK, Replace, Renamed
<1>4. TrustTypeOK'
  BY <1>1, <1>2, <1>3 DEF TrustInv, TrustTypeOK
<1>5. NeverOverpunished'
  <2>1. \A s \in Tables' : s \in Tables \/ s = Full
    BY <1>1, <1>2 DEF Tables
  <2> QED
    BY <1>1, <2>1, MovedTables DEF TrustInv, TrustTypeOK
<1>6. Untangled'
  <2> SUFFICES ASSUME ~tangled'
               PROVE  (\A q \in Requests : ~Busy(q)') /\ Exact(Reads(file))'
    BY DEF Untangled, Busy
  <2>1. ~tangled /\ Busy(r)
    BY <1>1 DEF Busy
  <2>2. \A q \in Requests : ~Busy(q)'
    BY <1>2, <2>1 DEF TrustInv, Untangled, Busy
  <2>3. temp = {scores[r]} /\ Exact(scores[r])
    BY <1>1, <2>1 DEF TrustInv, Untangled
  <2>4. Reads(file)' = scores[r]
    <3>1. Reads(file)' = Reads(file')
      BY DEF Reads, Full
    <3> QED
      BY <1>1, <2>3, <3>1, ReadsOne
  <2> QED
    BY <1>1, <2>2, <2>3, <2>4 DEF Exact
<1> QED
  BY <1>4, <1>5, <1>6 DEF TrustInv

\* Where another thread has taken the temporary file, threads have met.
LEMMA ReplaceFailsKeeps ==
    ASSUME TrustInv, NEW r \in Requests, ReplaceFails(r)
    PROVE  TrustInv'
<1>1. /\ at[r] = "written" /\ ~hasTemp /\ Leaves(r)
      /\ UNCHANGED <<file, temp, hasTemp, handle, rejections, tangled, failures>>
  BY DEF ReplaceFails
<1>2. /\ at' \in [Requests -> {"out", "read", "opened", "written"}]
      /\ scores' \in [Requests -> Scores]
      /\ at'[r] = "out" /\ scores'[r] = Full
      /\ \A q \in Requests : q # r => at'[q] = at[q] /\ scores'[q] = scores[q]
  BY <1>1, LeavesScores DEF TrustInv
<1>3. TrustTypeOK'
  BY <1>1, <1>2 DEF TrustInv, TrustTypeOK
<1>4. NeverOverpunished'
  <2>1. \A s \in Tables' : s \in Tables \/ s = Full
    BY <1>1, <1>2 DEF Tables
  <2> QED
    BY <1>1, <2>1, MovedTables DEF TrustInv, TrustTypeOK
<1>5. tangled'
  BY <1>1 DEF TrustInv, Untangled
<1> QED
  BY <1>3, <1>4, <1>5 DEF TrustInv, Untangled

LEMMA DiskFailsKeeps ==
    ASSUME TrustInv, NEW r \in Requests, DiskFails(r)
    PROVE  TrustInv'
<1>1. /\ Leaves(r) /\ tangled' = TRUE
      /\ handle' = [handle EXCEPT ![r] = "none"] /\ failures' = failures + 1
      /\ UNCHANGED <<hasTemp, rejections>>
      /\ file' \subseteq file \cup {scores[r]} /\ temp' \subseteq temp \cup {scores[r]}
  BY DEF DiskFails
<1>2. /\ at' \in [Requests -> {"out", "read", "opened", "written"}]
      /\ scores' \in [Requests -> Scores]
      /\ at'[r] = "out" /\ scores'[r] = Full
      /\ \A q \in Requests : q # r => at'[q] = at[q] /\ scores'[q] = scores[q]
  BY <1>1, LeavesScores DEF TrustInv
<1>3. TrustTypeOK'
  <2>1. file' \in SUBSET Scores /\ temp' \in SUBSET Scores
    BY <1>1 DEF TrustInv, TrustTypeOK
  <2>2. failures' \in Nat /\ handle' \in [Requests -> {"none", "temp", "file", "gone"}]
    BY <1>1 DEF TrustInv, TrustTypeOK
  <2>3. tangled' \in BOOLEAN /\ hasTemp' \in BOOLEAN /\ rejections' \in [Peers -> Nat]
    BY <1>1 DEF TrustInv, TrustTypeOK
  <2> QED
    BY <1>2, <2>1, <2>2, <2>3 DEF TrustTypeOK
<1>4. NeverOverpunished'
  <2>1. \A s \in Tables' : s \in Tables \/ s = Full
    BY <1>1, <1>2 DEF Tables
  <2> QED
    BY <1>1, <2>1, MovedTables DEF TrustInv, TrustTypeOK
<1> QED
  BY <1>1, <1>3, <1>4 DEF TrustInv, Untangled

LEMMA TrustUnchanged ==
    ASSUME TrustInv, UNCHANGED trust
    PROVE  TrustInv'
<1> USE DEF trust, threads
<1>1. TrustTypeOK'
  BY DEF TrustInv, TrustTypeOK
<1>2. NeverOverpunished'
  BY DEF TrustInv, NeverOverpunished, Tables
<1>3. Untangled'
  BY DEF TrustInv, Untangled, Busy, Exact, Reads, Full
<1> QED
  BY <1>1, <1>2, <1>3 DEF TrustInv

-----------------------------------------------------------------------------
(* The requests. *)

\* A request that does not move keeps what holds of it.
LEMMA OthersKeep ==
    ASSUME NEW q, Local(q), Busy(q)' => Busy(q),
           pc'[q] = pc[q], offered'[q] = offered[q], pending'[q] = pending[q], current'[q] = current[q],
           untried'[q] = untried[q], tried'[q] = tried[q],
           fragments'[q] = fragments[q], failed'[q] = failed[q]
    PROVE  Local(q)'
<1>1. Asked(q)' = Asked(q)
  BY DEF Asked
<1>2. AskHeld(q)'
  BY <1>1 DEF Local, AskHeld, Usable, CanHandle
<1>3. InOrder(q)' /\ KeepsBest(q)'
  BY <1>1 DEF Local, InOrder, KeepsBest, Kept
<1>4. AllTried(q)'
  BY DEF Local, AllTried, Usable, CanHandle, Before, Preferred
<1> QED
  BY <1>2, <1>3, <1>4 DEF Local

\* What is asked sooner or later is settled by the discovery.
LEMMA KeptStays ==
    ASSUME IInv, NEW r \in Requests, Kept(r)' = Kept(r), offered'[r] = offered[r]
    PROVE  KeepsBest(r)'
  BY DEF IInv, Local, KeepsBest

LEMMA DiscoverKeeps ==
    ASSUME IInv, NEW r \in Requests, Discover(r)
    PROVE  TypeOK' /\ \A q \in Requests : Local(q)'
<1> DEFINE Chosen(found, some) ==
             /\ offered' = [offered EXCEPT ![r] = found]
             /\ pending' = [pending EXCEPT ![r] = some]
<1>1. PICK found \in Offers : \E best \in Deduped(found) : \E some \in Cut(best) :
         Chosen(found, some)
  BY DEF Discover
<1>2. PICK best \in Deduped(found) : \E some \in Cut(best) : Chosen(found, some)
  BY <1>1
<1>3. PICK some \in Cut(best) : Chosen(found, some)
  BY <1>2
<1>4. /\ found \in SUBSET Hints /\ some \in SUBSET Hints
      /\ \A g, h \in some : g.key = h.key => g = h
      /\ Cardinality(some) <= MaxHints
  <2>1. some \subseteq best /\ best \subseteq found /\ \A g, h \in best : g.key = h.key => g = h
    BY DEF Cut, Deduped
  <2>2. Cardinality(some) <= MaxHints
    BY FragmentResolverAssumption DEF Cut
  <2> QED
    BY <2>1, <2>2, FragmentResolverAssumption
<1>8. ASSUME NEW h \in found
      PROVE  \/ \E g \in some : g.key = h.key /\ h.score <= g.score
             \/ Cardinality(some) = MaxHints /\ \A g \in some : h.score <= g.score
  <2>1. PICK g \in best : g.key = h.key /\ h.score <= g.score
    BY DEF Deduped
  <2>2. CASE g \in some
    BY <2>1, <2>2
  <2>3. CASE g \notin some
    <3>1. Cardinality(some) = MaxHints /\ \A f \in some : g.score <= f.score
      BY <2>3 DEF Cut
    <3>2. g \in Hints /\ h \in Hints
      BY <1>4 DEF Deduped
    <3>3. ASSUME NEW f \in some PROVE h.score <= f.score
      <4>1. f.score \in Nat /\ g.score \in Nat /\ h.score \in Nat
        BY <1>4, <3>2, FragmentResolverAssumption
      <4> QED
        BY <2>1, <3>1, <4>1
    <3> QED
      BY <3>1, <3>3
  <2> QED
    BY <2>2, <2>3
<1>5. /\ pc[r] = "idle" /\ pc' = [pc EXCEPT ![r] = "ready"]
      /\ UNCHANGED <<current, untried, tried, fragments, failed, trust>>
  BY DEF Discover
<1>6. TypeOK'
  BY <1>3, <1>4, <1>5 DEF IInv, TypeOK, TrustTypeOK, trust, threads
<1>7. ASSUME NEW q \in Requests PROVE Local(q)'
  <2>1. Busy(q)' <=> Busy(q)
    BY <1>5 DEF Busy, trust, threads
  <2>2. CASE q # r
    BY <1>3, <1>5, <2>1, <2>2, OthersKeep DEF IInv, TypeOK
  <2>3. CASE q = r
    <3>1. pc'[r] = "ready" /\ pending'[r] = some
      BY <1>3, <1>5 DEF IInv, TypeOK
    <3>2. Asked(r)' = Asked(r) /\ Asked(r) = {} /\ current[r] = None /\ ~Busy(r)
      BY <1>5 DEF IInv, Local, AskHeld, Asked
    <3>3. AskHeld(r)'
      BY <1>5, <2>1, <2>3, <3>1, <3>2 DEF AskHeld
    <3>4. InOrder(r)' /\ KeepsBest(r)'
      <4>1. Kept(r)' = some /\ offered'[r] = found
        BY <1>3, <3>1, <3>2 DEF Kept, IInv, TypeOK
      <4> QED
        BY <1>4, <1>8, <3>1, <3>2, <4>1 DEF InOrder, KeepsBest
    <3>5. AllTried(r)'
      BY <1>5 DEF IInv, Local, AllTried, Usable, CanHandle, Before, Preferred
    <3> QED
      BY <2>3, <3>3, <3>4, <3>5 DEF Local
  <2> QED
    BY <2>2, <2>3
<1> QED
  BY <1>6, <1>7

LEMMA DiscoverRaisesKeeps ==
    ASSUME IInv, NEW r \in Requests, DiscoverRaises(r)
    PROVE  TypeOK' /\ \A q \in Requests : Local(q)'
<1>1. /\ pc[r] = "idle" /\ pc' = [pc EXCEPT ![r] = "raised"]
      /\ UNCHANGED <<offered, pending, current, untried, tried, fragments, failed, trust>>
  BY DEF DiscoverRaises
<1>2. TypeOK'
  BY <1>1 DEF IInv, TypeOK, TrustTypeOK, trust, threads
<1>3. ASSUME NEW q \in Requests PROVE Local(q)'
  <2>1. Busy(q)' <=> Busy(q)
    BY <1>1 DEF Busy, trust, threads
  <2>2. CASE q # r
    BY <1>1, <2>1, <2>2, OthersKeep DEF IInv, TypeOK
  <2>3. CASE q = r
    <3>1. AskHeld(r)'
      BY <1>1, <2>1, <2>3 DEF IInv, TypeOK, Local, AskHeld
    <3>2. InOrder(r)' /\ KeepsBest(r)'
      <4>1. Asked(r)' = Asked(r)
        BY <1>1 DEF Asked
      <4>2. Kept(r)' = Kept(r)
        BY <1>1, <4>1 DEF Kept
      <4>3. InOrder(r)
        BY DEF IInv, Local
      <4> QED
        BY <1>1, <4>1, <4>2, <4>3, KeptStays DEF InOrder
    <3>3. AllTried(r)'
      BY <1>1 DEF IInv, Local, AllTried, Usable, CanHandle, Before, Preferred
    <3> QED
      BY <2>3, <3>1, <3>2, <3>3 DEF Local
  <2> QED
    BY <2>2, <2>3
<1> QED
  BY <1>2, <1>3

LEMMA AskKeeps ==
    ASSUME IInv, NEW r \in Requests, NEW h \in Hints, Ask(r, h)
    PROVE  TypeOK' /\ \A q \in Requests : Local(q)'
<1>1. /\ pc[r] = "ready" /\ h \in pending[r]
      /\ \A g \in pending[r] : g.score <= h.score
      /\ pending' = [pending EXCEPT ![r] = pending[r] \ {h}]
      /\ current' = [current EXCEPT ![r] = h]
      /\ untried' = [untried EXCEPT ![r] = Usable(h)]
      /\ pc' = [pc EXCEPT ![r] = "asking"]
      /\ UNCHANGED <<offered, tried, fragments, failed, trust>>
  BY DEF Ask
<1>2. TypeOK'
  BY <1>1 DEF IInv, TypeOK, TrustTypeOK, trust, threads, Usable
<1>3. ASSUME NEW q \in Requests PROVE Local(q)'
  <2>1. Busy(q)' <=> Busy(q)
    BY <1>1 DEF Busy, trust, threads
  <2>2. CASE q # r
    BY <1>1, <2>1, <2>2, OthersKeep DEF IInv, TypeOK
  <2>3. CASE q = r
    <3>1. pc'[r] = "asking" /\ current'[r] = h /\ untried'[r] = Usable(h)
          /\ pending'[r] = pending[r] \ {h}
      BY <1>1 DEF IInv, TypeOK
    <3>2. current[r] = None /\ ~Busy(r) /\ h # None
      BY <1>1, FragmentResolverAssumption DEF IInv, Local, AskHeld
    <3>3. Asked(r)' = Asked(r) \cup {h}
      BY <1>1, <3>1, <3>2 DEF Asked
    <3>4. AskHeld(r)'
      BY <1>1, <2>1, <2>3, <3>1, <3>2 DEF AskHeld, Usable, CanHandle
    <3>5. InOrder(r)' /\ KeepsBest(r)'
      <4>1. Kept(r)' = Kept(r)
        BY <1>1, <3>1, <3>3 DEF Kept
      <4>2. InOrder(r)
        BY DEF IInv, Local
      <4> QED
        BY <1>1, <3>1, <3>3, <4>1, <4>2, KeptStays DEF InOrder
    <3>6. AllTried(r)'
      BY <1>1 DEF IInv, Local, AllTried, Usable, CanHandle, Before, Preferred
    <3> QED
      BY <2>3, <3>4, <3>5, <3>6 DEF Local
  <2> QED
    BY <2>2, <2>3
<1> QED
  BY <1>2, <1>3

\* Trying a transport keeps the order, whatever comes of it.
LEMMA TryKeepsOrder ==
    ASSUME IInv, NEW r \in Requests, NEW t \in Transports, Try(r, t), UNCHANGED failed
    PROVE  /\ current[r] \in Hints /\ t \in Usable(current[r]) /\ ~Busy(r)
           /\ tried' \in [Requests -> SUBSET (Hints \X Transports)]
           /\ tried'[r] = tried[r] \cup {<<current[r], t>>}
           /\ \A q \in Requests : q # r => tried'[q] = tried[q]
           /\ AllTried(r)'
<1>1. /\ pc[r] = "asking" /\ t \in untried[r]
      /\ \A u \in untried[r] : ~Before(u, t, current[r])
      /\ tried' = [tried EXCEPT ![r] = tried[r] \cup {<<current[r], t>>}]
  BY DEF Try
<1>2. current[r] \in Hints /\ t \in Usable(current[r]) /\ ~Busy(r)
      /\ \A u \in Usable(current[r]) \ untried[r] : <<current[r], u>> \in tried[r]
  BY <1>1 DEF IInv, Local, AskHeld
<1>3. /\ tried' \in [Requests -> SUBSET (Hints \X Transports)]
      /\ tried'[r] = tried[r] \cup {<<current[r], t>>}
      /\ \A q \in Requests : q # r => tried'[q] = tried[q]
  BY <1>1, <1>2 DEF IInv, TypeOK
<1>4. AllTried(r)
  BY DEF IInv, Local
<1>5. ASSUME NEW h \in failed[r], NEW v \in Usable(h) PROVE <<h, v>> \in tried'[r]
  BY <1>3, <1>4 DEF AllTried
<1>6. ASSUME NEW h \in Hints, NEW v \in Usable(h), NEW u \in Usable(h),
             <<h, v>> \in tried'[r], Before(u, v, h)
      PROVE  <<h, u>> \in tried'[r]
  <2>1. CASE <<h, v>> \in tried[r]
    BY <1>3, <1>4, <1>6, <2>1 DEF AllTried
  <2>2. CASE <<h, v>> = <<current[r], t>>
    <3>1. h = current[r] /\ v = t
      BY <2>2
    <3> QED
      BY <1>1, <1>2, <1>3, <1>6, <3>1
  <2> QED
    BY <1>3, <1>6, <2>1, <2>2
<1>7. AllTried(r)'
  BY <1>5, <1>6 DEF AllTried, Usable, CanHandle, Before, Preferred
<1> QED
  BY <1>2, <1>3, <1>7

LEMMA FetchFailsKeeps ==
    ASSUME IInv, NEW r \in Requests, NEW t \in Transports, FetchFails(r, t)
    PROVE  TypeOK' /\ \A q \in Requests : Local(q)'
<1>1. /\ Try(r, t) /\ untried' = [untried EXCEPT ![r] = untried[r] \ {t}]
      /\ UNCHANGED <<pc, offered, pending, current, fragments, failed, trust>>
  BY DEF FetchFails
<1>2. /\ tried' \in [Requests -> SUBSET (Hints \X Transports)]
      /\ tried'[r] = tried[r] \cup {<<current[r], t>>}
      /\ \A q \in Requests : q # r => tried'[q] = tried[q]
      /\ AllTried(r)'
  BY <1>1, TryKeepsOrder
<1>3. TypeOK'
  BY <1>1, <1>2 DEF IInv, TypeOK, TrustTypeOK, trust, threads
<1>4. ASSUME NEW q \in Requests PROVE Local(q)'
  <2>1. Busy(q)' <=> Busy(q)
    BY <1>1 DEF Busy, trust, threads
  <2>2. CASE q # r
    BY <1>1, <1>2, <2>1, <2>2, OthersKeep DEF IInv, TypeOK
  <2>3. CASE q = r
    <3>1. untried'[r] = untried[r] \ {t}
      BY <1>1 DEF IInv, TypeOK
    <3>2. AskHeld(r)'
      BY <1>1, <1>2, <2>1, <2>3, <3>1 DEF IInv, Local, AskHeld, Usable, CanHandle, Asked
    <3>3. InOrder(r)' /\ KeepsBest(r)'
      <4>1. Asked(r)' = Asked(r)
        BY <1>1 DEF Asked
      <4>2. Kept(r)' = Kept(r)
        BY <1>1, <4>1 DEF Kept
      <4>3. InOrder(r)
        BY DEF IInv, Local
      <4> QED
        BY <1>1, <4>1, <4>2, <4>3, KeptStays DEF InOrder
    <3> QED
      BY <1>2, <2>3, <3>2, <3>3 DEF Local
  <2> QED
    BY <2>2, <2>3
<1> QED
  BY <1>3, <1>4

LEMMA AcceptKeeps ==
    ASSUME IInv, NEW r \in Requests, NEW t \in Transports, Accept(r, t)
    PROVE  TypeOK' /\ \A q \in Requests : Local(q)'
<1>1. /\ Try(r, t)
      /\ fragments' = [fragments EXCEPT ![r] = fragments[r] \cup {current[r]}]
      /\ current' = [current EXCEPT ![r] = None]
      /\ untried' = [untried EXCEPT ![r] = {}]
      /\ pc' = [pc EXCEPT ![r] = "ready"]
      /\ UNCHANGED <<offered, pending, failed, trust>>
  BY DEF Accept
<1>2. /\ current[r] \in Hints /\ ~Busy(r)
      /\ tried' \in [Requests -> SUBSET (Hints \X Transports)]
      /\ \A q \in Requests : q # r => tried'[q] = tried[q]
      /\ AllTried(r)'
  BY <1>1, TryKeepsOrder
<1>3. TypeOK'
  BY <1>1, <1>2 DEF IInv, TypeOK, TrustTypeOK, trust, threads
<1>4. ASSUME NEW q \in Requests PROVE Local(q)'
  <2>1. Busy(q)' <=> Busy(q)
    BY <1>1 DEF Busy, trust, threads
  <2>2. CASE q # r
    BY <1>1, <1>2, <2>1, <2>2, OthersKeep DEF IInv, TypeOK
  <2>3. CASE q = r
    <3>1. pc'[r] = "ready" /\ current'[r] = None /\ pending'[r] = pending[r]
          /\ fragments'[r] = fragments[r] \cup {current[r]} /\ failed'[r] = failed[r]
      BY <1>1 DEF IInv, TypeOK
    <3>2. Asked(r)' = Asked(r)
      BY <1>2, <3>1, FragmentResolverAssumption DEF Asked
    <3>3. AskHeld(r)'
      BY <1>2, <2>1, <2>3, <3>1 DEF AskHeld
    <3>4. InOrder(r)' /\ KeepsBest(r)'
      BY <1>1, <3>1, <3>2, KeptStays DEF IInv, Local, InOrder, Kept
    <3> QED
      BY <1>2, <2>3, <3>3, <3>4 DEF Local
  <2> QED
    BY <2>2, <2>3
<1> QED
  BY <1>3, <1>4

LEMMA ContradictKeeps ==
    ASSUME IInv, NEW r \in Requests, NEW t \in Transports, NEW p \in Peers,
           Contradict(r, t, p), TrustInv'
    PROVE  TypeOK' /\ \A q \in Requests : Local(q)'
<1>1. /\ Try(r, t) /\ Reject(r, p)
      /\ untried' = [untried EXCEPT ![r] = untried[r] \ {t}]
      /\ pc' = [pc EXCEPT ![r] = "lowering"]
      /\ UNCHANGED <<offered, pending, current, fragments, failed>>
  BY DEF Contradict
<1>2. /\ current[r] \in Hints
      /\ tried' \in [Requests -> SUBSET (Hints \X Transports)]
      /\ tried'[r] = tried[r] \cup {<<current[r], t>>}
      /\ \A q \in Requests : q # r => tried'[q] = tried[q]
      /\ AllTried(r)'
  BY <1>1, TryKeepsOrder
<1>3. TypeOK'
  BY <1>1, <1>2 DEF IInv, TypeOK, TrustInv
<1>4. ASSUME NEW q \in Requests PROVE Local(q)'
  <2>1. q # r => (Busy(q)' <=> Busy(q))
    BY <1>1 DEF Busy, Reject, IInv, TypeOK, TrustTypeOK
  <2>2. CASE q # r
    BY <1>1, <1>2, <2>1, <2>2, OthersKeep DEF IInv, TypeOK
  <2>3. CASE q = r
    <3>1. untried'[r] = untried[r] \ {t} /\ pc'[r] = "lowering" /\ pc[r] = "asking"
      BY <1>1 DEF IInv, TypeOK, Try
    <3>2. AskHeld(r)'
      BY <1>1, <1>2, <2>3, <3>1 DEF IInv, Local, AskHeld, Usable, CanHandle
    <3>3. InOrder(r)' /\ KeepsBest(r)'
      <4>1. Asked(r)' = Asked(r) /\ pending'[r] = pending[r] /\ offered' = offered
        BY <1>1 DEF Asked
      <4>2. InOrder(r)
        BY DEF IInv, Local
      <4> QED
        BY <4>1, <4>2, KeptStays DEF InOrder, Kept
    <3> QED
      BY <1>2, <2>3, <3>2, <3>3 DEF Local
  <2> QED
    BY <2>2, <2>3
<1> QED
  BY <1>3, <1>4

LEMMA ContradictRaisesKeeps ==
    ASSUME IInv, NEW r \in Requests, NEW t \in Transports, NEW p \in Peers,
           ContradictRaises(r, t, p), TrustInv'
    PROVE  TypeOK' /\ \A q \in Requests : Local(q)'
<1>1. /\ Try(r, t) /\ untried' = [untried EXCEPT ![r] = untried[r] \ {t}]
      /\ UNCHANGED <<pc, offered, pending, current, fragments, failed, at>>
  BY DEF ContradictRaises, RejectRaises, threads
<1>2. /\ tried' \in [Requests -> SUBSET (Hints \X Transports)]
      /\ tried'[r] = tried[r] \cup {<<current[r], t>>}
      /\ \A q \in Requests : q # r => tried'[q] = tried[q]
      /\ AllTried(r)'
  BY <1>1, TryKeepsOrder
<1>3. TypeOK'
  BY <1>1, <1>2 DEF IInv, TypeOK, TrustInv
<1>4. ASSUME NEW q \in Requests PROVE Local(q)'
  <2>1. Busy(q)' <=> Busy(q)
    BY <1>1 DEF Busy
  <2>2. CASE q # r
    BY <1>1, <1>2, <2>1, <2>2, OthersKeep DEF IInv, TypeOK
  <2>3. CASE q = r
    <3>1. untried'[r] = untried[r] \ {t}
      BY <1>1 DEF IInv, TypeOK
    <3>2. AskHeld(r)'
      BY <1>1, <1>2, <2>1, <2>3, <3>1 DEF IInv, Local, AskHeld, Usable, CanHandle, Asked
    <3>3. InOrder(r)' /\ KeepsBest(r)'
      <4>1. Asked(r)' = Asked(r)
        BY <1>1 DEF Asked
      <4>2. Kept(r)' = Kept(r)
        BY <1>1, <4>1 DEF Kept
      <4>3. InOrder(r)
        BY DEF IInv, Local
      <4> QED
        BY <1>1, <4>1, <4>2, <4>3, KeptStays DEF InOrder
    <3> QED
      BY <1>2, <2>3, <3>2, <3>3 DEF Local
  <2> QED
    BY <2>2, <2>3
<1> QED
  BY <1>3, <1>4

LEMMA LoweringKeeps ==
    ASSUME IInv, NEW r \in Requests, Lowering(r), TrustInv'
    PROVE  TypeOK' /\ \A q \in Requests : Local(q)'
<1>1. UNCHANGED resolver
  BY DEF Lowering
<1>2. TypeOK'
  BY <1>1 DEF IInv, TypeOK, TrustInv, resolver
<1>3. ASSUME NEW q \in Requests PROVE Local(q)'
  <2>1. Busy(q)' <=> Busy(q)
    BY DEF Lowering, Open, Write, Busy, IInv, TypeOK, TrustTypeOK
  <2> QED
    BY <1>1, <2>1, OthersKeep DEF IInv, resolver
<1> QED
  BY <1>2, <1>3

LEMMA BlockKeeps ==
    ASSUME IInv, NEW r \in Requests, Block(r), TrustInv'
    PROVE  TypeOK' /\ \A q \in Requests : Local(q)'
<1>1. /\ pc' = [pc EXCEPT ![r] = "asking"]
      /\ UNCHANGED <<offered, pending, current, untried, tried, fragments, failed>>
  BY DEF Block
<1>2. Busy(r) /\ Leaves(r)
  BY DEF Block, Replace, ReplaceFails, DiskFails, Busy
<1>3. pc[r] = "lowering"
  BY <1>2 DEF IInv, Local, AskHeld
<1>4. TypeOK'
  BY <1>1 DEF IInv, TypeOK, TrustInv
<1>5. ASSUME NEW q \in Requests PROVE Local(q)'
  <2>1. ~Busy(r)' /\ (q # r => (Busy(q)' <=> Busy(q)))
    BY <1>2 DEF Leaves, Busy, IInv, TypeOK, TrustTypeOK
  <2>2. CASE q # r
    BY <1>1, <2>1, <2>2, OthersKeep DEF IInv, TypeOK
  <2>3. CASE q = r
    <3>1. AskHeld(r)'
      BY <1>1, <1>3, <2>1, <2>3 DEF IInv, TypeOK, Local, AskHeld, Usable, CanHandle
    <3>2. InOrder(r)' /\ KeepsBest(r)'
      <4>1. Asked(r)' = Asked(r) /\ pending'[r] = pending[r] /\ offered' = offered
        BY <1>1 DEF Asked
      <4>2. InOrder(r)
        BY DEF IInv, Local
      <4> QED
        BY <4>1, <4>2, KeptStays DEF InOrder, Kept
    <3>3. AllTried(r)'
      BY <1>1 DEF IInv, Local, AllTried, Usable, CanHandle, Before, Preferred
    <3> QED
      BY <2>3, <3>1, <3>2, <3>3 DEF Local
  <2> QED
    BY <2>2, <2>3
<1> QED
  BY <1>4, <1>5

LEMMA GiveUpKeeps ==
    ASSUME IInv, NEW r \in Requests, GiveUp(r)
    PROVE  TypeOK' /\ \A q \in Requests : Local(q)'
<1>1. /\ pc[r] = "asking" /\ untried[r] = {}
      /\ failed' = [failed EXCEPT ![r] = failed[r] \cup {current[r]}]
      /\ current' = [current EXCEPT ![r] = None]
      /\ pc' = [pc EXCEPT ![r] = "ready"]
      /\ UNCHANGED <<offered, pending, untried, tried, fragments, trust>>
  BY DEF GiveUp
<1>2. /\ current[r] \in Hints /\ ~Busy(r)
      /\ \A t \in Usable(current[r]) : <<current[r], t>> \in tried[r]
  BY <1>1 DEF IInv, Local, AskHeld
<1>3. TypeOK'
  BY <1>1, <1>2 DEF IInv, TypeOK, TrustTypeOK, trust, threads
<1>4. ASSUME NEW q \in Requests PROVE Local(q)'
  <2>1. Busy(q)' <=> Busy(q)
    BY <1>1 DEF Busy, trust, threads
  <2>2. CASE q # r
    BY <1>1, <2>1, <2>2, OthersKeep DEF IInv, TypeOK
  <2>3. CASE q = r
    <3>1. pc'[r] = "ready" /\ current'[r] = None /\ pending'[r] = pending[r]
          /\ failed'[r] = failed[r] \cup {current[r]} /\ fragments'[r] = fragments[r]
      BY <1>1 DEF IInv, TypeOK
    <3>2. Asked(r)' = Asked(r)
      BY <1>2, <3>1, FragmentResolverAssumption DEF Asked
    <3>3. AskHeld(r)'
      BY <1>2, <2>1, <2>3, <3>1 DEF AskHeld
    <3>4. InOrder(r)' /\ KeepsBest(r)'
      BY <1>1, <3>1, <3>2, KeptStays DEF IInv, Local, InOrder, Kept
    <3>5. AllTried(r)'
      BY <1>1, <1>2, <3>1 DEF IInv, Local, AllTried, Usable, CanHandle, Before, Preferred
    <3> QED
      BY <2>3, <3>3, <3>4, <3>5 DEF Local
  <2> QED
    BY <2>2, <2>3
<1> QED
  BY <1>3, <1>4

LEMMA AnswerKeeps ==
    ASSUME IInv, NEW r \in Requests, Answer(r)
    PROVE  TypeOK' /\ \A q \in Requests : Local(q)'
<1>1. /\ pc[r] = "ready" /\ pc' = [pc EXCEPT ![r] = "answered"]
      /\ UNCHANGED <<offered, pending, current, untried, tried, fragments, failed, trust>>
  BY DEF Answer
<1>2. TypeOK'
  BY <1>1 DEF IInv, TypeOK, TrustTypeOK, trust, threads
<1>3. ASSUME NEW q \in Requests PROVE Local(q)'
  <2>1. Busy(q)' <=> Busy(q)
    BY <1>1 DEF Busy, trust, threads
  <2>2. CASE q # r
    BY <1>1, <2>1, <2>2, OthersKeep DEF IInv, TypeOK
  <2>3. CASE q = r
    <3>1. AskHeld(r)'
      BY <1>1, <2>1, <2>3 DEF IInv, TypeOK, Local, AskHeld
    <3>2. InOrder(r)' /\ KeepsBest(r)'
      <4>1. Asked(r)' = Asked(r)
        BY <1>1 DEF Asked
      <4>2. Kept(r)' = Kept(r)
        BY <1>1, <4>1 DEF Kept
      <4>3. InOrder(r)
        BY DEF IInv, Local
      <4> QED
        BY <1>1, <4>1, <4>2, <4>3, KeptStays DEF InOrder
    <3>3. AllTried(r)'
      BY <1>1 DEF IInv, Local, AllTried, Usable, CanHandle, Before, Preferred
    <3> QED
      BY <2>3, <3>1, <3>2, <3>3 DEF Local
  <2> QED
    BY <2>2, <2>3
<1> QED
  BY <1>2, <1>3

-----------------------------------------------------------------------------
(* The theorems. *)

LEMMA InitHolds == Init => IInv
<1> SUFFICES ASSUME Init PROVE IInv
  OBVIOUS
<1> USE DEF Init, TrustInit
<1>1. Full \in Scores
  BY PeerTrustAssumption DEF Full, Scores
<1>2. TypeOK
  BY <1>1 DEF TypeOK, TrustTypeOK
<1>3. NeverOverpunished
  <2> SUFFICES ASSUME NEW s \in Tables, NEW p \in Peers
               PROVE  s[p] + Penalty * rejections[p] >= MaxTrust
    BY DEF NeverOverpunished
  <2>1. s = Full /\ rejections[p] = 0
    BY DEF Tables
  <2> QED
    BY <2>1, PeerTrustAssumption DEF Full
<1>4. Untangled
  <2>1. Reads(file) = Full
    BY DEF Reads
  <2>2. Exact(Full)
    BY PeerTrustAssumption DEF Exact, Full
  <2> QED
    BY <2>1, <2>2 DEF Untangled, Busy
<1>5. ASSUME NEW r \in Requests PROVE Local(r)
  <2>1. Asked(r) = {} /\ Kept(r) = {} /\ offered[r] = {}
    BY DEF Asked, Kept
  <2>2. Cardinality(Kept(r)) <= MaxHints
    BY <2>1, FS_EmptySet, FragmentResolverAssumption
  <2> QED
    BY <2>1, <2>2 DEF Local, AskHeld, InOrder, KeepsBest, AllTried, Busy
<1> QED
  BY <1>2, <1>3, <1>4, <1>5 DEF IInv, TrustInv, TypeOK

LEMMA NextKeeps == IInv /\ [Next]_vars => IInv'
<1> SUFFICES ASSUME IInv, [Next]_vars PROVE IInv'
  OBVIOUS
<1> USE DEF IInv
<1>1. ASSUME NEW r \in Requests, Discover(r) PROVE IInv'
  BY <1>1, DiscoverKeeps, TrustUnchanged DEF Discover
<1>2. ASSUME NEW r \in Requests, NEW h \in Hints, Ask(r, h) PROVE IInv'
  BY <1>2, AskKeeps, TrustUnchanged DEF Ask
<1>3. ASSUME NEW r \in Requests, NEW t \in Transports, FetchFails(r, t) PROVE IInv'
  BY <1>3, FetchFailsKeeps, TrustUnchanged DEF FetchFails
<1>4. ASSUME NEW r \in Requests, NEW t \in Transports, Accept(r, t) PROVE IInv'
  BY <1>4, AcceptKeeps, TrustUnchanged DEF Accept
<1>5. ASSUME NEW r \in Requests, NEW t \in Transports, NEW p \in Peers, Contradict(r, t, p)
      PROVE  IInv'
  BY <1>5, ContradictKeeps, RejectKeeps DEF Contradict
<1>6. ASSUME NEW r \in Requests, Lowering(r) PROVE IInv'
  BY <1>6, LoweringKeeps, OpenKeeps, WriteKeeps DEF Lowering
<1>7. ASSUME NEW r \in Requests, Block(r) PROVE IInv'
  BY <1>7, BlockKeeps, ReplaceKeeps, ReplaceFailsKeeps, DiskFailsKeeps DEF Block
<1>8. ASSUME NEW r \in Requests, GiveUp(r) PROVE IInv'
  BY <1>8, GiveUpKeeps, TrustUnchanged DEF GiveUp
<1>9. ASSUME NEW r \in Requests, Answer(r) PROVE IInv'
  BY <1>9, AnswerKeeps, TrustUnchanged DEF Answer
<1>10. ASSUME NEW r \in Requests, DiscoverRaises(r) PROVE IInv'
  BY <1>10, DiscoverRaisesKeeps, TrustUnchanged DEF DiscoverRaises
<1>11. ASSUME NEW r \in Requests, NEW t \in Transports, NEW p \in Peers,
              ContradictRaises(r, t, p)
       PROVE  IInv'
  BY <1>11, ContradictRaisesKeeps, RejectRaisesKeeps DEF ContradictRaises
<1>12. CASE UNCHANGED vars
  <2>1. UNCHANGED resolver /\ UNCHANGED trust
    BY <1>12 DEF vars
  <2>2. TrustInv'
    BY <2>1, TrustUnchanged
  <2>3. TypeOK'
    BY <2>1, <2>2 DEF TypeOK, TrustInv, resolver
  <2>4. \A q \in Requests : Local(q)'
    BY <2>1, OthersKeep DEF resolver, Busy, trust, threads
  <2> QED
    BY <2>2, <2>3, <2>4
<1> QED
  BY <1>1, <1>2, <1>3, <1>4, <1>5, <1>6, <1>7, <1>8, <1>9, <1>10, <1>11, <1>12
     DEF Next, Step

\* The inductive invariant, type correctness included, holds of every behaviour,
\* for any number of requests, peers and transports and any penalty.
THEOREM ResolverInvariant == Spec => []IInv
<1>1. Init => IInv
  BY InitHolds
<1>2. IInv /\ [Next]_vars => IInv'
  BY NextKeeps
<1> QED
  BY <1>1, <1>2, PTL DEF Spec

\* The best offer of each peer is asked or gives way to MaxHints that are as good,
\* and the better ones come first.
THEOREM AsksBestFirst == Spec => []BestFirst
<1>1. IInv => BestFirst
  BY DEF IInv, Local, BestFirst
<1> QED
  BY <1>1, ResolverInvariant, PTL

\* No transport that could ask a peer is left out before the peer fails.
THEOREM TriesEveryTransport == Spec => []FallsBack
<1>1. IInv => FallsBack
  BY DEF IInv, Local, FallsBack
<1> QED
  BY <1>1, ResolverInvariant, PTL

\* Whatever is overwritten, lost or torn, no peer is trusted too little.
THEOREM PunishesOnce == Spec => []NeverOverpunished
<1>1. IInv => NeverOverpunished
  BY DEF IInv, TrustInv
<1> QED
  BY <1>1, ResolverInvariant, PTL

\* The file adds up to what was found, until threads meet or the disk fails.
THEOREM AddsUpApart == Spec => []ExactWhereApart
<1>1. IInv => ExactWhereApart
  BY DEF IInv, TrustInv, Untangled, ExactWhereApart, Exact
<1> QED
  BY <1>1, ResolverInvariant, PTL
=============================================================================
