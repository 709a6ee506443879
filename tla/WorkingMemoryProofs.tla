------------------------- MODULE WorkingMemoryProofs -------------------------
(***************************************************************************)
(* Proofs about the working memory: for every set of edges, every number   *)
(* of consolidations at once, every share they take and every bound.       *)
(***************************************************************************)
EXTENDS WorkingMemory, FiniteSetTheorems, TLAPS

\* Only a consolidation that is merging has selected anything, and the rows that
\* are left are among those it selected: all of them until its transaction begins.
SelectionHeld ==
    \A p \in Replays :
        /\ pc[p] # "merging" => chosen[p] = Zero /\ left[p] = {}
        /\ left[p] \subseteq Chosen(p)
        /\ writer # p => left[p] = Chosen(p)

\* A sure row is there.
SureIsThere == \A e \in durable.sure : durable.working[e] > 0

\* What p has merged of e in the transaction that is open.
Gain(p, e) == IF writer = p /\ e \notin left[p] THEN chosen[p][e] ELSE 0

\* The open transaction has merged rows and done nothing else.
ViewIsMerging ==
    /\ writer # None => pc[writer] = "merging"
    /\ writer = None => view = durable
    /\ view.working = durable.working
    /\ view.sure = durable.sure
    /\ \A p \in Replays, e \in Edges :
          view.merged[p][e] = durable.merged[p][e] + Gain(p, e)
    /\ \A p \in Replays, e \in Edges :
          writer = p => view.synaptic[e] = durable.synaptic[e] + Gain(p, e)

\* A selection never asks for more than was ingested since p last cleared.
SelectionIsBacked ==
    \A p \in Replays, e \in Edges :
        durable.merged[p][e] + chosen[p][e] <= ingested[e]

\* The inductive invariant.
IInv ==
    /\ TypeOK
    /\ SelectionHeld
    /\ SureIsThere
    /\ ViewIsMerging
    /\ SelectionIsBacked
    /\ NeverForgotten
    /\ OncePerReplay

-----------------------------------------------------------------------------
\* Ingesting a fragment adds one to its rows and changes nothing long-term.
LEMMA ReinforcedRows ==
    ASSUME NEW t \in Tables, NEW F, F \subseteq Edges, NEW S, S \subseteq F
    PROVE  /\ Reinforced(t, F, S) \in Tables
           /\ Reinforced(t, F, S).sure = t.sure \cup S
           /\ Reinforced(t, F, S).synaptic = t.synaptic
           /\ Reinforced(t, F, S).merged = t.merged
           /\ \A e \in Edges : Reinforced(t, F, S).working[e] =
                                   IF e \in F THEN t.working[e] + 1 ELSE t.working[e]
<1> DEFINE w == [e \in Edges |-> IF e \in F THEN t.working[e] + 1 ELSE t.working[e]]
<1>1. t.working \in Counts /\ t.sure \subseteq Edges
  BY DEF Tables
<1>2. w \in Counts
  BY <1>1 DEF Counts
<1>3. Reinforced(t, F, S) = [t EXCEPT !.working = w, !.sure = t.sure \cup S]
  BY DEF Reinforced
<1> HIDE DEF w
<1>4. Reinforced(t, F, S) \in Tables /\ Reinforced(t, F, S).working = w
      /\ Reinforced(t, F, S).sure = t.sure \cup S
      /\ Reinforced(t, F, S).synaptic = t.synaptic /\ Reinforced(t, F, S).merged = t.merged
  BY <1>1, <1>2, <1>3 DEF Tables
<1> QED
  BY <1>4 DEF w

\* Merging one row adds what was selected of it, to the counts of p and of the edge.
LEMMA MergedRow ==
    ASSUME NEW t \in Tables, NEW p \in Replays, NEW e \in Edges, chosen[p] \in Counts
    PROVE  /\ Merged(t, p, e) \in Tables
           /\ Merged(t, p, e).working = t.working
           /\ Merged(t, p, e).sure = t.sure
           /\ \A f \in Edges : Merged(t, p, e).synaptic[f] =
                 IF f = e THEN t.synaptic[f] + chosen[p][e] ELSE t.synaptic[f]
           /\ \A q \in Replays, f \in Edges : Merged(t, p, e).merged[q][f] =
                 IF q = p /\ f = e THEN t.merged[q][f] + chosen[p][e] ELSE t.merged[q][f]
<1> DEFINE s == [t.synaptic EXCEPT ![e] = t.synaptic[e] + chosen[p][e]]
           mp == [t.merged[p] EXCEPT ![e] = t.merged[p][e] + chosen[p][e]]
           m == [t.merged EXCEPT ![p] = mp]
<1>1. /\ t.synaptic \in [Edges -> Nat] /\ t.merged \in [Replays -> [Edges -> Nat]]
      /\ chosen[p][e] \in Nat
  BY DEF Tables, Counts
<1>2. s \in Counts /\ mp \in Counts
  BY <1>1 DEF Counts
<1>3. m \in [Replays -> Counts]
  BY <1>1, <1>2 DEF Counts
<1>4. \A f \in Edges : s[f] = IF f = e THEN t.synaptic[f] + chosen[p][e] ELSE t.synaptic[f]
  BY <1>1
<1>5. \A q \in Replays, f \in Edges :
         m[q][f] = IF q = p /\ f = e THEN t.merged[q][f] + chosen[p][e] ELSE t.merged[q][f]
  BY <1>1
<1>6. Merged(t, p, e) = [t EXCEPT !.synaptic = s, !.merged = m]
  BY <1>1 DEF Merged
<1> HIDE DEF s, m
<1>7. /\ Merged(t, p, e) \in Tables /\ Merged(t, p, e).working = t.working
      /\ Merged(t, p, e).sure = t.sure
      /\ Merged(t, p, e).synaptic = s /\ Merged(t, p, e).merged = m
  BY <1>2, <1>3, <1>6 DEF Tables
<1> QED
  BY <1>4, <1>5, <1>7

\* Clearing deletes the rows that were selected and changes nothing long-term.
LEMMA ClearedRows ==
    ASSUME NEW t \in Tables, NEW p \in Replays
    PROVE  /\ Cleared(t, p) \in Tables
           /\ Cleared(t, p).sure = t.sure \ Chosen(p)
           /\ Cleared(t, p).synaptic = t.synaptic
           /\ Cleared(t, p).merged = t.merged
           /\ \A e \in Edges : Cleared(t, p).working[e] =
                                   IF e \in Chosen(p) THEN 0 ELSE t.working[e]
<1> DEFINE w == [e \in Edges |-> IF e \in Chosen(p) THEN 0 ELSE t.working[e]]
<1>1. t.working \in Counts /\ t.sure \subseteq Edges
  BY DEF Tables
<1>2. w \in Counts
  BY <1>1 DEF Counts
<1>3. Cleared(t, p) = [t EXCEPT !.working = w, !.sure = t.sure \ Chosen(p)]
  BY DEF Cleared
<1> HIDE DEF w
<1>4. Cleared(t, p) \in Tables /\ Cleared(t, p).working = w
      /\ Cleared(t, p).sure = t.sure \ Chosen(p)
      /\ Cleared(t, p).synaptic = t.synaptic /\ Cleared(t, p).merged = t.merged
  BY <1>1, <1>2, <1>3 DEF Tables
<1> QED
  BY <1>4 DEF w

\* A limit is a natural number.
LEMMA LimitType == \A n \in Nat : Limit(n) \in Nat
BY WorkingMemoryAssumption DEF Limit

-----------------------------------------------------------------------------
\* The invariant holds before anything was ingested.
LEMMA InitIInv == Init => IInv
<1> SUFFICES ASSUME Init PROVE IInv
  OBVIOUS
<1> USE DEF Init
<1>1. Zero \in Counts /\ \A e \in Edges : Zero[e] = 0
  BY DEF Zero, Counts
<1>2. /\ Empty \in Tables /\ Empty.working = Zero /\ Empty.sure = {} /\ Empty.synaptic = Zero
      /\ \A p \in Replays : Empty.merged[p] = Zero
  BY <1>1 DEF Empty, Tables
<1>3. TypeOK
  BY <1>1, <1>2 DEF TypeOK
<1>4. ViewIsMerging
  BY <1>1, <1>2, WorkingMemoryAssumption DEF ViewIsMerging, Gain
<1>5. SelectionHeld /\ SureIsThere
  BY <1>1, <1>2 DEF SelectionHeld, SureIsThere, Chosen
<1>6. SelectionIsBacked /\ NeverForgotten /\ OncePerReplay
  BY <1>1, <1>2 DEF SelectionIsBacked, NeverForgotten, OncePerReplay
<1> QED
  BY <1>3, <1>4, <1>5, <1>6 DEF IInv

\* What an ingestion leaves of the committed tables.
LEMMA IngestEffect ==
    ASSUME IInv, NEW F \in SUBSET Edges, NEW S \in SUBSET F, Ingest(F, S)
    PROVE  /\ durable' \in Tables /\ durable'.sure = durable.sure \cup S
           /\ durable'.synaptic = durable.synaptic /\ durable'.merged = durable.merged
           /\ \A e \in Edges : durable'.working[e] =
                  IF e \in F THEN durable.working[e] + 1 ELSE durable.working[e]
<1>1. durable' = Reinforced(durable, F, S)
  BY DEF Ingest
<1>2. durable \in Tables
  BY DEF IInv, TypeOK
<1> DEFINE r == Reinforced(durable, F, S)
<1>3. /\ r \in Tables /\ r.sure = durable.sure \cup S
      /\ r.synaptic = durable.synaptic /\ r.merged = durable.merged
      /\ \A e \in Edges : r.working[e] =
             IF e \in F THEN durable.working[e] + 1 ELSE durable.working[e]
  <2>1. F \subseteq Edges /\ S \subseteq F
    OBVIOUS
  <2> HIDE DEF r
  <2>2. r \in Tables
    BY <1>2, <2>1, ReinforcedRows DEF r
  <2>3. r.sure = durable.sure \cup S
    BY <1>2, <2>1, ReinforcedRows DEF r
  <2>4. r.synaptic = durable.synaptic /\ r.merged = durable.merged
    BY <1>2, <2>1, ReinforcedRows DEF r
  <2> QED
    BY <1>2, <2>1, <2>2, <2>3, <2>4, ReinforcedRows DEF r
<1> QED
  BY <1>1, <1>3

\* A fragment adds as much to the working memory as to what was ingested.
LEMMA IngestIInv ==
    ASSUME IInv, NEW F \in SUBSET Edges, NEW S \in SUBSET F, Ingest(F, S)
    PROVE  IInv'
<1> USE DEF Ingest
<1>1. /\ durable \in Tables /\ ingested \in Counts /\ ingests \in Nat
      /\ durable.working \in Counts /\ durable.synaptic \in Counts
      /\ durable.merged \in [Replays -> Counts] /\ chosen \in [Replays -> Counts]
      /\ durable.sure \subseteq Edges
  BY DEF IInv, TypeOK, Tables
<1>2. /\ durable' \in Tables /\ durable'.sure = durable.sure \cup S
      /\ durable'.synaptic = durable.synaptic /\ durable'.merged = durable.merged
      /\ \A e \in Edges : durable'.working[e] =
             IF e \in F THEN durable.working[e] + 1 ELSE durable.working[e]
  <2> HIDE DEF Ingest
  <2> QED
    BY IngestEffect
<1>3. /\ ingested' \in Counts
      /\ \A e \in Edges : ingested'[e] = IF e \in F THEN ingested[e] + 1 ELSE ingested[e]
  BY <1>1 DEF Counts
<1>4. TypeOK'
  BY <1>2, <1>3 DEF IInv, TypeOK, local
<1>5. SelectionHeld' /\ \A p \in Replays : Chosen(p)' = Chosen(p)
  BY DEF IInv, SelectionHeld, Chosen, local
<1>6. SureIsThere'
  BY <1>1, <1>2 DEF IInv, SureIsThere, Counts
<1>7. ViewIsMerging'
  <2>1. view' = durable' /\ writer' = None /\ writer = None
    OBVIOUS
  <2>2. durable'.merged \in [Replays -> Counts]
    BY <1>2 DEF Tables
  <2> QED
    BY <2>1, <2>2, WorkingMemoryAssumption DEF ViewIsMerging, Gain, Counts
<1>8. SelectionIsBacked' /\ OncePerReplay'
  BY <1>1, <1>2, <1>3 DEF IInv, SelectionIsBacked, OncePerReplay, Counts, local
<1>9. NeverForgotten'
  BY <1>1, <1>2, <1>3 DEF IInv, NeverForgotten, Counts
<1> QED
  BY <1>4, <1>5, <1>6, <1>7, <1>8, <1>9 DEF IInv


\* Counting and selecting read what is committed and write nothing.
LEMMA SelectIInv ==
    ASSUME IInv, NEW p \in Replays, Count(p) \/ Select(p)
    PROVE  IInv'
<1>1. /\ durable \in Tables /\ durable.working \in Counts /\ durable.sure \subseteq Edges
      /\ chosen \in [Replays -> Counts] /\ left \in [Replays -> SUBSET Edges]
      /\ pc \in [Replays -> {"idle", "counted", "merging"}] /\ limit \in [Replays -> Nat]
  BY DEF IInv, TypeOK, Tables
<1>2. pc[p] # "merging" /\ chosen[p] = Zero /\ left[p] = {} /\ writer # p
  <2>1. pc[p] # "merging"
    BY DEF Count, Select
  <2>2. p # None
    BY WorkingMemoryAssumption
  <2> QED
    BY <2>1, <2>2 DEF IInv, SelectionHeld, ViewIsMerging
<1>3. UNCHANGED <<tables, ingested, bounds>>
  BY DEF Count, Select
<1>4. CASE Count(p)
  <2>1. IsFiniteSet(durable.sure)
    BY <1>1, WorkingMemoryAssumption, FS_Subset
  <2>2. limit' \in [Replays -> Nat]
    BY <1>1, <1>4, <2>1, FS_CardinalityType, LimitType DEF Count
  <2>3. TypeOK'
    BY <1>1, <1>4, <2>2 DEF IInv, TypeOK, Count, tables, bounds
  <2>4. \A q \in Replays : pc'[q] = "merging" <=> pc[q] = "merging"
    BY <1>1, <1>2, <1>4 DEF Count
  <2>5. UNCHANGED <<chosen, left>>
    BY <1>4 DEF Count
  <2>6. SelectionHeld'
    BY <1>3, <2>4, <2>5 DEF IInv, SelectionHeld, Chosen, tables
  <2>7. ViewIsMerging'
    BY <1>3, <2>4, <2>5, WorkingMemoryAssumption
       DEF IInv, TypeOK, ViewIsMerging, Gain, tables
  <2> QED
    BY <1>3, <2>3, <2>5, <2>6, <2>7
       DEF IInv, SureIsThere, SelectionIsBacked, NeverForgotten, OncePerReplay, tables
<1>5. CASE Select(p)
  <2>1. PICK best \in SUBSET durable.sure :
           /\ chosen' = [chosen EXCEPT ![p] =
                           [e \in Edges |-> IF e \in best THEN durable.working[e] ELSE 0]]
           /\ left' = [left EXCEPT ![p] = best]
           /\ pc' = [pc EXCEPT ![p] = IF best = {} THEN "idle" ELSE "merging"]
    BY <1>5 DEF Select
  <2> DEFINE c == [e \in Edges |-> IF e \in best THEN durable.working[e] ELSE 0]
  <2>2. c \in Counts
    BY <1>1 DEF Counts
  <2>3. /\ chosen' \in [Replays -> Counts] /\ chosen'[p] = c
        /\ \A q \in Replays : q # p => chosen'[q] = chosen[q]
    BY <1>1, <2>1, <2>2
  <2>4. /\ left' \in [Replays -> SUBSET Edges] /\ left'[p] = best
        /\ \A q \in Replays : q # p => left'[q] = left[q]
    BY <1>1, <2>1
  <2>5. /\ pc' \in [Replays -> {"idle", "counted", "merging"}]
        /\ pc'[p] = IF best = {} THEN "idle" ELSE "merging"
        /\ \A q \in Replays : q # p => pc'[q] = pc[q]
    BY <1>1, <2>1
  <2>6. TypeOK'
    BY <1>1, <1>5, <2>3, <2>4, <2>5 DEF IInv, TypeOK, Select, tables, bounds
  <2>7. SelectionHeld'
    <3>1. best = {} => c = Zero
      BY DEF Zero
    <3>2. best = {e \in Edges : c[e] > 0}
      BY <1>1 DEF IInv, SureIsThere
    <3>3. Chosen(p)' = best /\ \A q \in Replays : q # p => Chosen(q)' = Chosen(q)
      BY <2>3, <3>2 DEF Chosen
    <3> QED
      BY <1>3, <2>3, <2>4, <2>5, <3>1, <3>3 DEF IInv, SelectionHeld, tables
  <2>8. ViewIsMerging'
    <3>1. \A q \in Replays, e \in Edges : Gain(q, e)' = Gain(q, e)
      BY <1>2, <1>3, <2>3, <2>4 DEF Gain, tables
    <3> QED
      BY <1>2, <1>3, <2>5, <3>1, WorkingMemoryAssumption DEF IInv, TypeOK, ViewIsMerging, tables
  <2>9. SelectionIsBacked'
    <3> SUFFICES ASSUME NEW q \in Replays, NEW e \in Edges
                 PROVE  durable.merged[q][e] + chosen'[q][e] <= ingested[e]
      BY <1>3 DEF SelectionIsBacked, tables
    <3>1. CASE q = p
      <4>1. /\ durable.merged[p][e] \in Nat /\ ingested[e] \in Nat /\ durable.working[e] \in Nat
            /\ durable.merged[p][e] + durable.working[e] <= ingested[e]
        BY <1>1 DEF IInv, TypeOK, Tables, Counts, OncePerReplay
      <4> QED
        BY <2>3, <3>1, <4>1
    <3>2. CASE q # p
      BY <2>3, <3>2 DEF IInv, SelectionIsBacked
    <3> QED
      BY <3>1, <3>2
  <2> QED
    BY <1>3, <2>6, <2>7, <2>8, <2>9
       DEF IInv, SureIsThere, NeverForgotten, OncePerReplay, tables
<1> QED
  BY <1>4, <1>5

\* A merge adds to the open transaction what its selection holds.
LEMMA MergeIInv ==
    ASSUME IInv, NEW p \in Replays, NEW e \in Edges, Merge(p, e)
    PROVE  IInv'
<1>1. /\ view \in Tables /\ chosen \in [Replays -> Counts] /\ left \in [Replays -> SUBSET Edges]
      /\ chosen[p] \in Counts
  BY DEF IInv, TypeOK
<1>2. /\ pc[p] = "merging" /\ e \in left[p] /\ writer \in {None, p} /\ writer' = p
      /\ left' = [left EXCEPT ![p] = left[p] \ {e}]
      /\ view' = Merged(view, p, e)
      /\ UNCHANGED <<durable, pc, limit, chosen, ingested, bounds>>
  BY DEF Merge
<1>3. view' \in Tables
  BY <1>1, <1>2, MergedRow
<1>4. view'.working = view.working /\ view'.sure = view.sure
  BY <1>1, <1>2, MergedRow
<1>5. \A f \in Edges : view'.synaptic[f] =
          IF f = e THEN view.synaptic[f] + chosen[p][e] ELSE view.synaptic[f]
  BY <1>1, <1>2, MergedRow
<1>6. \A q \in Replays, f \in Edges : view'.merged[q][f] =
          IF q = p /\ f = e THEN view.merged[q][f] + chosen[p][e] ELSE view.merged[q][f]
  BY <1>1, <1>2, MergedRow
<1>7. TypeOK'
  BY <1>1, <1>2, <1>3 DEF IInv, TypeOK, bounds
<1>8. SelectionHeld'
  BY <1>1, <1>2, WorkingMemoryAssumption DEF IInv, SelectionHeld, Chosen
<1>9. ViewIsMerging'
  <2>1. \A q \in Replays, f \in Edges :
            /\ chosen[q][f] \in Nat /\ durable.merged[q][f] \in Nat /\ durable.synaptic[f] \in Nat
    BY <1>1 DEF IInv, TypeOK, Tables, Counts
  <2>2. \A q \in Replays, f \in Edges :
            Gain(q, f)' = IF q = p /\ f = e THEN chosen[p][e] ELSE Gain(q, f)
    <3> SUFFICES ASSUME NEW q \in Replays, NEW f \in Edges
                 PROVE  Gain(q, f)' = IF q = p /\ f = e THEN chosen[p][e] ELSE Gain(q, f)
      OBVIOUS
    <3>1. CASE writer = p
      BY <1>1, <1>2, <3>1 DEF Gain
    <3>2. CASE writer = None
      \* No transaction is open: nothing of the selection has been merged.
      <4>1. left[p] = Chosen(p) /\ p # None
        BY <3>2, WorkingMemoryAssumption DEF IInv, SelectionHeld
      <4>2. f \notin left[p] => chosen[p][f] = 0
        BY <2>1, <4>1 DEF Chosen
      <4>3. Gain(q, f) = 0 /\ writer' = p /\ chosen' = chosen
        BY <1>2, <3>2, WorkingMemoryAssumption DEF Gain
      <4>4. CASE q = p
        <5>1. left'[p] = left[p] \ {e}
          BY <1>1, <1>2
        <5> QED
          BY <1>2, <2>1, <4>2, <4>3, <4>4, <5>1 DEF Gain
      <4>5. CASE q # p
        BY <4>3, <4>5 DEF Gain
      <4> QED
        BY <4>4, <4>5
    <3> QED
      BY <1>2, <3>1, <3>2
  <2>3. \A f \in Edges : view.synaptic[f] = durable.synaptic[f] + Gain(p, f)
    <3>1. CASE writer = p
      BY <3>1 DEF IInv, ViewIsMerging
    <3>2. CASE writer = None
      BY <2>1, <3>2, WorkingMemoryAssumption DEF IInv, ViewIsMerging, Gain
    <3> QED
      BY <1>2, <3>1, <3>2
  <2>4. \A q \in Replays, f \in Edges : Gain(q, f) \in Nat
    BY <2>1 DEF Gain
  <2>5. \A f \in Edges : view'.synaptic[f] = durable'.synaptic[f] + Gain(p, f)'
    <3> SUFFICES ASSUME NEW f \in Edges
                 PROVE  view'.synaptic[f] = durable'.synaptic[f] + Gain(p, f)'
      OBVIOUS
    <3>1. f = e => Gain(p, f) = 0
      BY <1>2 DEF Gain
    <3> QED
      BY <1>2, <1>5, <2>1, <2>2, <2>3, <2>4, <3>1
  <2>6. \A q \in Replays, f \in Edges :
            view'.merged[q][f] = durable'.merged[q][f] + Gain(q, f)'
    <3> SUFFICES ASSUME NEW q \in Replays, NEW f \in Edges
                 PROVE  view'.merged[q][f] = durable'.merged[q][f] + Gain(q, f)'
      OBVIOUS
    <3>1. view.merged[q][f] = durable.merged[q][f] + Gain(q, f)
      BY DEF IInv, ViewIsMerging
    <3>2. q = p /\ f = e => Gain(q, f) = 0
      BY <1>2 DEF Gain
    <3> QED
      BY <1>2, <1>6, <2>1, <2>2, <2>4, <3>1, <3>2
  <2>7. view'.working = durable'.working /\ view'.sure = durable'.sure
    BY <1>2, <1>4 DEF IInv, ViewIsMerging
  <2>8. writer' # None /\ pc'[writer'] = "merging"
    BY <1>2, WorkingMemoryAssumption
  <2> QED
    BY <1>2, <2>5, <2>6, <2>7, <2>8 DEF ViewIsMerging
<1> QED
  BY <1>2, <1>7, <1>8, <1>9
     DEF IInv, SureIsThere, SelectionIsBacked, NeverForgotten, OncePerReplay

\* When p clears, the rows that go are those it has merged.
LEMMA ClearEffect ==
    ASSUME IInv, NEW p \in Replays, Clear(p)
    PROVE  /\ durable' \in Tables /\ view' = durable'
           /\ durable'.sure = durable.sure \ Chosen(p)
           /\ \A e \in Edges : durable'.working[e] =
                  IF e \in Chosen(p) THEN 0 ELSE durable.working[e]
           /\ \A e \in Edges : durable'.synaptic[e] = durable.synaptic[e] + chosen[p][e]
           /\ \A q \in Replays, e \in Edges : durable'.merged[q][e] =
                  durable.merged[q][e] + (IF q = p THEN chosen[p][e] ELSE 0)
<1>1. /\ view \in Tables /\ durable' = Cleared(view, p) /\ view' = durable'
      /\ writer = p /\ left[p] = {}
  BY DEF IInv, TypeOK, Clear
<1> DEFINE r == Cleared(view, p)
<1>2. r \in Tables
  BY <1>1, ClearedRows
<1>3. r.sure = view.sure \ Chosen(p)
  BY <1>1, ClearedRows
<1>4. r.synaptic = view.synaptic /\ r.merged = view.merged
  BY <1>1, ClearedRows
<1>5. \A e \in Edges : r.working[e] = IF e \in Chosen(p) THEN 0 ELSE view.working[e]
  BY <1>1, ClearedRows
<1>6. durable' = r
  BY <1>1
<1> HIDE DEF r
<1>7. /\ view.working = durable.working /\ view.sure = durable.sure
      /\ \A e \in Edges : view.synaptic[e] = durable.synaptic[e] + Gain(p, e)
      /\ \A q \in Replays, e \in Edges :
            view.merged[q][e] = durable.merged[q][e] + Gain(q, e)
  BY <1>1 DEF IInv, ViewIsMerging
<1>8. \A q \in Replays, e \in Edges : Gain(q, e) = IF q = p THEN chosen[p][e] ELSE 0
  BY <1>1 DEF Gain
<1> QED
  BY <1>1, <1>2, <1>3, <1>4, <1>5, <1>6, <1>7, <1>8

\* Clearing moves as much as was selected, or loses what came since.
LEMMA ClearIInv ==
    ASSUME IInv, NEW p \in Replays, Clear(p)
    PROVE  IInv'
<1>1. /\ durable' \in Tables /\ view' = durable'
      /\ durable'.sure = durable.sure \ Chosen(p)
      /\ \A e \in Edges : durable'.working[e] =
             IF e \in Chosen(p) THEN 0 ELSE durable.working[e]
      /\ \A e \in Edges : durable'.synaptic[e] = durable.synaptic[e] + chosen[p][e]
      /\ \A q \in Replays, e \in Edges : durable'.merged[q][e] =
             durable.merged[q][e] + (IF q = p THEN chosen[p][e] ELSE 0)
  BY ClearEffect
<1>2. /\ pc' = [pc EXCEPT ![p] = "idle"] /\ chosen' = [chosen EXCEPT ![p] = Zero]
      /\ writer = p /\ left[p] = {} /\ writer' = None
      /\ UNCHANGED <<limit, left, ingested, bounds>>
  BY DEF Clear
<1>3. Zero \in Counts /\ \A e \in Edges : Zero[e] = 0
  BY DEF Zero, Counts
<1>4. /\ chosen \in [Replays -> Counts] /\ left \in [Replays -> SUBSET Edges]
      /\ pc \in [Replays -> {"idle", "counted", "merging"}]
  BY DEF IInv, TypeOK
<1>5. \A e \in Edges, q \in Replays :
         /\ chosen[q][e] \in Nat /\ durable.merged[q][e] \in Nat /\ durable.synaptic[e] \in Nat
         /\ durable.working[e] \in Nat /\ ingested[e] \in Nat
  BY <1>4 DEF IInv, TypeOK, Tables, Counts
<1>6. /\ chosen' \in [Replays -> Counts] /\ chosen'[p] = Zero
      /\ \A q \in Replays : q # p => chosen'[q] = chosen[q]
  BY <1>2, <1>3, <1>4
<1>7. TypeOK'
  BY <1>1, <1>2, <1>4, <1>6 DEF IInv, TypeOK, bounds
<1>8. SelectionHeld'
  <2>1. Chosen(p)' = {} /\ \A q \in Replays : q # p => Chosen(q)' = Chosen(q)
    BY <1>3, <1>6 DEF Chosen
  <2>2. \A q \in Replays : q # p => pc'[q] = pc[q]
    BY <1>2, <1>4
  <2> QED
    BY <1>2, <1>6, <2>1, <2>2 DEF IInv, SelectionHeld
<1>9. SureIsThere'
  BY <1>1, <1>5 DEF IInv, TypeOK, Tables, SureIsThere
<1>10. ViewIsMerging'
  <2>1. \A q \in Replays, e \in Edges : Gain(q, e)' = 0 /\ durable'.merged[q][e] \in Nat
    BY <1>1, <1>2, WorkingMemoryAssumption DEF Gain, Tables, Counts
  <2> QED
    BY <1>1, <1>2, <2>1, WorkingMemoryAssumption DEF ViewIsMerging
<1>11. \A q \in Replays, e \in Edges :
          durable'.merged[q][e] + chosen'[q][e] <= ingested'[e]
  <2> SUFFICES ASSUME NEW q \in Replays, NEW e \in Edges
               PROVE  durable'.merged[q][e] + chosen'[q][e] <= ingested'[e]
    OBVIOUS
  <2>1. durable.merged[q][e] + chosen[q][e] <= ingested[e]
    BY DEF IInv, SelectionIsBacked
  <2> QED
    BY <1>1, <1>2, <1>3, <1>5, <1>6, <2>1
<1>12. \A q \in Replays, e \in Edges :
          durable'.merged[q][e] + durable'.working[e] <= ingested'[e]
  <2> SUFFICES ASSUME NEW q \in Replays, NEW e \in Edges
               PROVE  durable'.merged[q][e] + durable'.working[e] <= ingested'[e]
    OBVIOUS
  <2>1. /\ durable.merged[q][e] + durable.working[e] <= ingested[e]
        /\ durable.merged[q][e] + chosen[q][e] <= ingested[e]
    BY DEF IInv, OncePerReplay, SelectionIsBacked
  <2>2. CASE e \in Chosen(p)
    BY <1>1, <1>2, <1>5, <2>1, <2>2
  <2>3. CASE e \notin Chosen(p)
    <3>1. chosen[p][e] = 0
      BY <1>5, <2>3 DEF Chosen
    <3> QED
      BY <1>1, <1>2, <1>5, <2>1, <2>3, <3>1
  <2> QED
    BY <2>2, <2>3
<1>13. NeverForgotten'
  <2> SUFFICES ASSUME NEW e \in Edges, ingested[e] > 0
               PROVE  durable'.working[e] + durable'.synaptic[e] > 0
    BY <1>2 DEF NeverForgotten
  <2>1. durable.working[e] + durable.synaptic[e] > 0
    BY DEF IInv, NeverForgotten
  <2>2. CASE e \in Chosen(p)
    BY <1>1, <1>5, <2>2 DEF Chosen
  <2>3. CASE e \notin Chosen(p)
    BY <1>1, <1>5, <2>1, <2>3
  <2> QED
    BY <2>2, <2>3
<1> QED
  BY <1>7, <1>8, <1>9, <1>10, <1>11, <1>12, <1>13
     DEF IInv, SelectionIsBacked, OncePerReplay

\* A consolidation that fails leaves the tables as they were before it.
LEMMA AbortIInv ==
    ASSUME IInv, NEW p \in Replays, Abort(p)
    PROVE  IInv'
<1>1. /\ pc' = [pc EXCEPT ![p] = "idle"] /\ chosen' = [chosen EXCEPT ![p] = Zero]
      /\ left' = [left EXCEPT ![p] = {}]
      /\ \/ writer = p /\ view' = durable /\ writer' = None
         \/ writer # p /\ UNCHANGED <<view, writer>>
      /\ aborts' = aborts + 1
      /\ UNCHANGED <<durable, limit, ingested, ingests>>
  BY DEF Abort
<1>2. Zero \in Counts /\ \A e \in Edges : Zero[e] = 0
  BY DEF Zero, Counts
<1>3. /\ chosen \in [Replays -> Counts] /\ left \in [Replays -> SUBSET Edges]
      /\ pc \in [Replays -> {"idle", "counted", "merging"}] /\ durable \in Tables
      /\ aborts \in Nat
  BY DEF IInv, TypeOK
<1>4. /\ chosen' \in [Replays -> Counts] /\ chosen'[p] = Zero
      /\ \A q \in Replays : q # p => chosen'[q] = chosen[q]
  BY <1>1, <1>2, <1>3
<1>5. /\ left' \in [Replays -> SUBSET Edges] /\ left'[p] = {}
      /\ \A q \in Replays : q # p => left'[q] = left[q]
  BY <1>1, <1>3
<1>6. /\ pc' \in [Replays -> {"idle", "counted", "merging"}]
      /\ \A q \in Replays : q # p => pc'[q] = pc[q]
  BY <1>1, <1>3
<1>7. TypeOK'
  BY <1>1, <1>3, <1>4, <1>5, <1>6 DEF IInv, TypeOK
<1>8. SelectionHeld'
  <2>1. Chosen(p)' = {} /\ \A q \in Replays : q # p => Chosen(q)' = Chosen(q)
    BY <1>2, <1>4 DEF Chosen
  <2>2. \A q \in Replays : q # p /\ writer' # q => writer # q
    BY <1>1
  <2> QED
    BY <1>4, <1>5, <1>6, <2>1, <2>2 DEF IInv, SelectionHeld
<1>9. ViewIsMerging'
  <2>1. CASE writer = p
    <3>1. \A q \in Replays, e \in Edges : Gain(q, e)' = 0 /\ durable.merged[q][e] \in Nat
      BY <1>1, <1>3, <2>1, WorkingMemoryAssumption DEF Gain, Tables, Counts
    <3> QED
      BY <1>1, <2>1, <3>1, WorkingMemoryAssumption DEF ViewIsMerging
  <2>2. CASE writer # p
    <3>1. \A q \in Replays, e \in Edges : Gain(q, e)' = Gain(q, e)
      BY <1>1, <1>4, <1>5, <2>2 DEF Gain
    <3>2. writer # None => writer \in Replays
      BY DEF IInv, TypeOK
    <3> QED
      BY <1>1, <1>6, <2>2, <3>1, <3>2 DEF IInv, ViewIsMerging
  <2> QED
    BY <2>1, <2>2
<1>10. SelectionIsBacked'
  <2> SUFFICES ASSUME NEW q \in Replays, NEW e \in Edges
               PROVE  durable.merged[q][e] + chosen'[q][e] <= ingested[e]
    BY <1>1 DEF SelectionIsBacked
  <2>1. durable.merged[q][e] + chosen[q][e] <= ingested[e]
    BY DEF IInv, SelectionIsBacked
  <2>2. chosen[q][e] \in Nat /\ durable.merged[q][e] \in Nat /\ ingested[e] \in Nat
    BY <1>3 DEF IInv, TypeOK, Tables, Counts
  <2> QED
    BY <1>2, <1>4, <2>1, <2>2
<1> QED
  BY <1>1, <1>7, <1>8, <1>9, <1>10 DEF IInv, SureIsThere, NeverForgotten, OncePerReplay

-----------------------------------------------------------------------------
\* Every step keeps the invariant.
LEMMA StepIInv == IInv /\ [Next]_vars => IInv'
<1> SUFFICES ASSUME IInv, [Next]_vars PROVE IInv'
  OBVIOUS
<1>1. CASE \E F \in (SUBSET Edges) \ {{}} : \E S \in SUBSET F : Ingest(F, S)
  BY <1>1, IngestIInv
<1>2. CASE \E p \in Replays : Count(p) \/ Select(p)
  BY <1>2, SelectIInv
<1>3. CASE \E p \in Replays : \E e \in Edges : Merge(p, e)
  BY <1>3, MergeIInv
<1>4. CASE \E p \in Replays : Clear(p)
  BY <1>4, ClearIInv
<1>5. CASE \E p \in Replays : Abort(p)
  BY <1>5, AbortIInv
<1>6. CASE UNCHANGED vars
  <2>1. \A p \in Replays : Chosen(p)' = Chosen(p)
    BY <1>6 DEF Chosen, vars, local
  <2>2. \A p \in Replays, e \in Edges : Gain(p, e)' = Gain(p, e)
    BY <1>6 DEF Gain, vars, local, tables
  <2> QED
    BY <1>6, <2>1, <2>2 DEF vars, local, tables, bounds, IInv, TypeOK, SelectionHeld,
       SureIsThere, ViewIsMerging, SelectionIsBacked, NeverForgotten, OncePerReplay
<1> QED
  BY <1>1, <1>2, <1>3, <1>4, <1>5, <1>6 DEF Next, ReplayStep

\* The inductive invariant of the working memory, its types included.
THEOREM WorkingMemoryInvariant == Spec => []IInv
BY InitIInv, StepIInv, PTL DEF Spec

\* What was ingested is in the working memory or in the long-term tables, however
\* ingestions, consolidations and failures overlap.
THEOREM KnownForEver == Spec => []NeverForgotten
<1>1. IInv => NeverForgotten
  BY DEF IInv
<1> QED
  BY <1>1, WorkingMemoryInvariant, PTL

\* One consolidation never merges a piece of evidence twice, wherever it fails.
THEOREM MergesOnce == Spec => []OncePerReplay
<1>1. IInv => OncePerReplay
  BY DEF IInv
<1> QED
  BY <1>1, WorkingMemoryInvariant, PTL

\* A row leaves the working memory only in the commit that merges it.
THEOREM LeavesWhenMerged == Spec => ClearedWhenMerged
<1> DEFINE A == \A e \in Edges : durable.working[e] > 0 /\ durable'.working[e] = 0
                                 => durable'.synaptic[e] > durable.synaptic[e]
<1>1. IInv /\ [Next]_vars => [A]_vars
  <2> SUFFICES ASSUME IInv, Next PROVE A
    OBVIOUS
  <2>0. /\ durable \in Tables /\ chosen \in [Replays -> Counts]
        /\ durable.working \in Counts /\ durable.synaptic \in Counts
    BY DEF IInv, TypeOK, Tables
  <2>1. CASE UNCHANGED durable
    BY <2>0, <2>1 DEF Counts
  <2>2. ASSUME NEW F \in SUBSET Edges, NEW S \in SUBSET F, Ingest(F, S)
        PROVE  A
    <3>1. \A e \in Edges : durable'.working[e] =
                 IF e \in F THEN durable.working[e] + 1 ELSE durable.working[e]
      BY <2>2, IngestEffect
    <3> QED
      BY <2>0, <3>1 DEF Counts
  <2>3. ASSUME NEW p \in Replays, Clear(p)
        PROVE  A
    <3> SUFFICES ASSUME NEW e \in Edges, durable.working[e] > 0, durable'.working[e] = 0
                 PROVE  durable'.synaptic[e] > durable.synaptic[e]
      OBVIOUS
    <3>1. e \in Chosen(p) /\ durable'.synaptic[e] = durable.synaptic[e] + chosen[p][e]
      BY <2>3, ClearEffect
    <3>2. chosen[p][e] \in Nat /\ durable.synaptic[e] \in Nat
      BY <2>0 DEF Counts
    <3> QED
      BY <3>1, <3>2 DEF Chosen
  <2>4. \A p \in Replays : Count(p) \/ Select(p) \/ (\E e \in Edges : Merge(p, e)) \/ Abort(p)
                           => UNCHANGED durable
    BY DEF Count, Select, Merge, Abort, tables
  <2> QED
    BY <2>1, <2>2, <2>3, <2>4 DEF Next, ReplayStep
<1> QED
  BY <1>1, WorkingMemoryInvariant, PTL DEF Spec, ClearedWhenMerged

-----------------------------------------------------------------------------
(* The refinement: consolidations that overlap and fail are single steps of *)
(* the ledger.  Beyond IInv it needs that a batch is bounded and not empty, *)
(* which no step but the selection establishes and none disturbs.           *)

\* Whoever merges has selected something, and nobody more than a cycle may take.
BatchHeld ==
    \A p \in Replays :
        /\ limit[p] <= MaxEdges
        /\ Cardinality(Chosen(p)) <= MaxEdges
        /\ pc[p] = "merging" => Chosen(p) # {}

\* A limit is within what a cycle may take.
LEMMA LimitBound == \A n \in Nat : Limit(n) <= MaxEdges
BY WorkingMemoryAssumption DEF Limit

\* A selection takes the rows it chooses, as many as its limit and never more.
LEMMA SelectEffect ==
    ASSUME IInv, NEW p \in Replays, Select(p)
    PROVE  /\ Cardinality(Chosen(p)') <= limit[p]
           /\ pc'[p] = "merging" => Chosen(p)' # {}
           /\ \A q \in Replays : q # p => pc'[q] = pc[q] /\ Chosen(q)' = Chosen(q)
<1>1. /\ durable.working \in Counts /\ durable.sure \subseteq Edges
      /\ chosen \in [Replays -> Counts] /\ limit[p] \in Nat
      /\ pc \in [Replays -> {"idle", "counted", "merging"}]
  BY DEF IInv, TypeOK, Tables
<1>2. PICK best \in SUBSET durable.sure :
         /\ IF Cardinality(durable.sure) <= limit[p]
            THEN best = durable.sure ELSE Cardinality(best) = limit[p]
         /\ chosen' = [chosen EXCEPT ![p] =
                         [e \in Edges |-> IF e \in best THEN durable.working[e] ELSE 0]]
         /\ pc' = [pc EXCEPT ![p] = IF best = {} THEN "idle" ELSE "merging"]
  BY DEF Select
<1>3. Cardinality(best) <= limit[p]
  BY <1>1, <1>2
<1>4. \A e \in best : durable.working[e] > 0
  BY <1>2 DEF IInv, SureIsThere
<1>5. chosen'[p] = [e \in Edges |-> IF e \in best THEN durable.working[e] ELSE 0]
  BY <1>1, <1>2
<1>6. Chosen(p)' = best
  BY <1>1, <1>2, <1>4, <1>5 DEF Chosen
<1>7. \A q \in Replays : q # p => pc'[q] = pc[q] /\ chosen'[q] = chosen[q]
  BY <1>1, <1>2
<1> QED
  BY <1>1, <1>2, <1>3, <1>6, <1>7 DEF Chosen

\* Nothing is selected before anything was asked for.
LEMMA InitBatch == Init => BatchHeld
<1> SUFFICES ASSUME Init, NEW p \in Replays
             PROVE  /\ limit[p] <= MaxEdges
                    /\ Cardinality(Chosen(p)) <= MaxEdges
                    /\ pc[p] = "merging" => Chosen(p) # {}
  BY DEF BatchHeld
<1>1. Chosen(p) = {}
  BY DEF Init, Chosen, Zero
<1> QED
  BY <1>1, FS_EmptySet, WorkingMemoryAssumption DEF Init

\* Every step keeps a batch bounded, and not empty while it is merged.
LEMMA StepBatch == IInv /\ BatchHeld /\ [Next]_vars => BatchHeld'
<1> SUFFICES ASSUME IInv, BatchHeld, [Next]_vars
             PROVE  BatchHeld'
  OBVIOUS
<1>1. /\ chosen \in [Replays -> Counts] /\ limit \in [Replays -> Nat]
      /\ pc \in [Replays -> {"idle", "counted", "merging"}]
      /\ durable.sure \subseteq Edges
  BY DEF IInv, TypeOK, Tables
<1>2. ASSUME UNCHANGED <<pc, limit, chosen>>
      PROVE  BatchHeld'
  BY <1>2 DEF BatchHeld, Chosen
<1>3. ASSUME NEW p \in Replays, Count(p)
      PROVE  BatchHeld'
  <2>1. Cardinality(durable.sure) \in Nat
    BY <1>1, WorkingMemoryAssumption, FS_Subset, FS_CardinalityType
  <2>2. limit' = [limit EXCEPT ![p] = Limit(Cardinality(durable.sure))]
    BY <1>3 DEF Count
  <2>3. \A q \in Replays : limit'[q] <= MaxEdges
    BY <1>1, <2>1, <2>2, LimitBound DEF BatchHeld
  <2>4. \A q \in Replays : pc'[q] = "merging" => pc[q] = "merging"
    BY <1>1, <1>3 DEF Count
  <2>5. \A q \in Replays : Chosen(q)' = Chosen(q)
    BY <1>3 DEF Count, Chosen
  <2> QED
    BY <2>3, <2>4, <2>5 DEF BatchHeld
<1>4. ASSUME NEW p \in Replays, Select(p)
      PROVE  BatchHeld'
  <2>1. /\ Cardinality(Chosen(p)') <= limit[p]
        /\ pc'[p] = "merging" => Chosen(p)' # {}
        /\ \A q \in Replays : q # p => pc'[q] = pc[q] /\ Chosen(q)' = Chosen(q)
    BY <1>4, SelectEffect
  <2>2. limit[p] <= MaxEdges /\ limit[p] \in Nat /\ limit' = limit
    BY <1>1, <1>4 DEF BatchHeld, Select
  <2>3. Chosen(p)' \subseteq Edges
    BY DEF Chosen
  <2>4. Cardinality(Chosen(p)') \in Nat
    BY <2>3, WorkingMemoryAssumption, FS_Subset, FS_CardinalityType
  <2>5. Cardinality(Chosen(p)') <= MaxEdges
    BY <2>1, <2>2, <2>4, WorkingMemoryAssumption
  <2> QED
    BY <2>1, <2>2, <2>5 DEF BatchHeld
<1>5. ASSUME NEW p \in Replays, Clear(p) \/ Abort(p)
      PROVE  BatchHeld'
  <2>1. /\ chosen' = [chosen EXCEPT ![p] = Zero] /\ pc' = [pc EXCEPT ![p] = "idle"]
        /\ limit' = limit
    BY <1>5 DEF Clear, Abort
  <2>2. chosen'[p] = Zero /\ pc'[p] = "idle"
    BY <1>1, <2>1
  <2>3. Chosen(p)' = {}
    BY <2>2 DEF Chosen, Zero
  <2>4. Cardinality(Chosen(p)') <= MaxEdges
    BY <2>3, FS_EmptySet, WorkingMemoryAssumption
  <2>5. \A q \in Replays : q # p => pc'[q] = pc[q] /\ Chosen(q)' = Chosen(q)
    BY <1>1, <2>1 DEF Chosen
  <2> QED
    BY <2>1, <2>2, <2>4, <2>5 DEF BatchHeld
<1>6. ASSUME NEW p \in Replays, NEW e \in Edges, Merge(p, e)
      PROVE  BatchHeld'
  BY <1>2, <1>6 DEF Merge
<1>7. ASSUME NEW F, NEW S, Ingest(F, S)
      PROVE  BatchHeld'
  BY <1>2, <1>7 DEF Ingest, local
<1>8. CASE UNCHANGED vars
  BY <1>2, <1>8 DEF vars, local
<1> QED
  BY <1>3, <1>4, <1>5, <1>6, <1>7, <1>8 DEF Next, ReplayStep

\* A fragment is ingested in one step of the ledger, and a consolidation takes its
\* step when it clears: until then it has changed nothing that is committed.
LEMMA StepLedger == IInv /\ BatchHeld /\ [Next]_vars => [Ledger!Next]_(Ledger!vars)
<1> SUFFICES ASSUME IInv, BatchHeld, [Next]_vars
             PROVE  [Ledger!Next]_(Ledger!vars)
  OBVIOUS
<1>1. /\ durable.working \in [Edges -> Nat] /\ durable.synaptic \in [Edges -> Nat]
      /\ ingested \in [Edges -> Nat] /\ chosen \in [Replays -> [Edges -> Nat]]
      /\ durable.merged \in [Replays -> [Edges -> Nat]]
  BY DEF IInv, TypeOK, Tables, Counts
<1>2. ASSUME UNCHANGED <<durable, ingested>>
      PROVE  UNCHANGED Ledger!vars
  BY <1>2 DEF Ledger!vars
<1>3. ASSUME NEW F \in (SUBSET Edges) \ {{}}, NEW S \in SUBSET F, Ingest(F, S)
      PROVE  Ledger!Ingest(F)
  <2>1. /\ durable' \in Tables /\ durable'.synaptic = durable.synaptic
        /\ \A e \in Edges : durable'.working[e] =
               IF e \in F THEN durable.working[e] + 1 ELSE durable.working[e]
    BY <1>3, IngestEffect
  <2>2. durable'.working \in [Edges -> Nat]
    BY <2>1 DEF Tables, Counts
  <2>3. durable'.working = Ledger!Plus(durable.working, F)
    BY <2>1, <2>2 DEF Ledger!Plus
  <2>4. ingested' = Ledger!Plus(ingested, F)
    BY <1>3 DEF Ingest, Ledger!Plus
  <2> QED
    BY <2>1, <2>3, <2>4 DEF Ledger!Ingest
<1>4. ASSUME NEW p \in Replays, Clear(p)
      PROVE  /\ Chosen(p) \in SUBSET Edges /\ Cardinality(Chosen(p)) \in 1 .. MaxEdges
             /\ Ledger!Consolidate(Chosen(p))
  <2>1. /\ durable' \in Tables
        /\ \A e \in Edges : durable'.working[e] =
               IF e \in Chosen(p) THEN 0 ELSE durable.working[e]
        /\ \A e \in Edges : durable'.synaptic[e] = durable.synaptic[e] + chosen[p][e]
    BY <1>4, ClearEffect
  <2>2. durable'.working \in [Edges -> Nat] /\ durable'.synaptic \in [Edges -> Nat]
    BY <2>1 DEF Tables, Counts
  <2>3. Cardinality(Chosen(p)) \in 1 .. MaxEdges
    <3>1. IsFiniteSet(Chosen(p)) /\ Chosen(p) # {} /\ Cardinality(Chosen(p)) <= MaxEdges
      BY <1>4, WorkingMemoryAssumption, FS_Subset DEF BatchHeld, Chosen, Clear
    <3>2. Cardinality(Chosen(p)) \in Nat /\ Cardinality(Chosen(p)) # 0
      BY <3>1, FS_EmptySet, FS_CardinalityType
    <3> QED
      BY <3>1, <3>2, WorkingMemoryAssumption
  <2>4. durable'.working = [e \in Edges |-> IF e \in Chosen(p) THEN 0 ELSE durable.working[e]]
    BY <2>1, <2>2
  <2>5. ASSUME NEW e \in Chosen(p)
        PROVE  durable'.synaptic[e] - durable.synaptic[e] \in 1 .. ingested[e]
    <3>1. e \in Edges /\ chosen[p][e] > 0
      BY DEF Chosen
    <3>2. /\ chosen[p][e] \in Nat /\ durable.synaptic[e] \in Nat /\ ingested[e] \in Nat
          /\ durable.merged[p][e] \in Nat
      BY <1>1, <3>1
    <3>3. durable.merged[p][e] + chosen[p][e] <= ingested[e]
      BY <3>1 DEF IInv, SelectionIsBacked
    <3>4. durable'.synaptic[e] = durable.synaptic[e] + chosen[p][e]
      BY <2>1, <3>1
    <3> QED
      BY <3>1, <3>2, <3>3, <3>4
  <2>6. ASSUME NEW e \in Edges \ Chosen(p)
        PROVE  durable'.synaptic[e] = durable.synaptic[e]
    <3>1. chosen[p][e] = 0 /\ durable.synaptic[e] \in Nat
      BY <1>1 DEF Chosen
    <3> QED
      BY <2>1, <3>1
  <2>7. ingested' = ingested
    BY <1>4 DEF Clear
  <2> QED
    BY <2>2, <2>3, <2>4, <2>5, <2>6, <2>7 DEF Ledger!Consolidate, Chosen
<1>5. ASSUME NEW p \in Replays,
             Count(p) \/ Select(p) \/ (\E e \in Edges : Merge(p, e)) \/ Abort(p)
      PROVE  UNCHANGED <<durable, ingested>>
  BY <1>5 DEF Count, Select, Merge, Abort, tables
<1>6. CASE UNCHANGED vars
  BY <1>2, <1>6 DEF vars, tables
<1> QED
  BY <1>2, <1>3, <1>4, <1>5, <1>6 DEF Next, ReplayStep, Ledger!Next

\* Consolidations that overlap, wait for each other and fail are, in what is
\* committed, one step each: a bounded batch, strengthened by evidence there is.
THEOREM ReplayIsAtomic == Spec => ImplementsLedger
<1>1. Init => Ledger!Init
  BY DEF Init, Empty, Zero, Ledger!Init
<1> QED
  BY <1>1, InitBatch, StepBatch, StepLedger, WorkingMemoryInvariant, PTL
     DEF Spec, ImplementsLedger

=============================================================================
