--------------------------- MODULE RawIngestProofs ---------------------------
(***************************************************************************)
(* Proofs about the ingestion of raw files: for every set of documents,    *)
(* every size of their ontologies, and every flush limit.                  *)
(***************************************************************************)
EXTENDS RawIngest, TLAPS

Row == 1 .. Rows

\* The candidates of a tick are still in data/raw when their turn comes.
CandidatesExist == \A d \in Docs : todo[d] <= raw[d]

\* A file whose rows are being written is not in ingested_files.
InHandIsNew ==
    pc \in {"copy", "upsert", "record"} => cur \in Docs \ view.ingested

\* Has this connection potentiated row k of d, since d was last taken?
Learned(d, k) ==
    \/ d \in view.ingested
    \/ d = cur /\ pc = "record"
    \/ d = cur /\ pc = "upsert" /\ k < pos

\* What was learned is there, and it is committed unless rows are pending.
LearnedIsThere ==
    \A d \in Docs : \A k \in Row :
        Learned(d, k) =>
            /\ view.potentiated[d][k] > 0
            /\ durable.potentiated[d][k] > 0 \/ (d = cur /\ pc = "upsert" /\ rowsPending > 0)

\* Only a file that was cut short was learned before it is learned.
LearnedOnce ==
    \A d \in Docs : \A k \in Row :
        view.potentiated[d][k] <= faults + (IF Learned(d, k) THEN 1 ELSE 0)

\* The transaction only adds to what is committed, and not to what is recorded.
ViewExtendsDurable ==
    /\ durable.ingested \subseteq view.ingested
    /\ \A d \in Docs : \A k \in Row : durable.potentiated[d][k] <= view.potentiated[d][k]
    /\ \A d \in durable.ingested : durable.potentiated[d] = view.potentiated[d]

\* The inductive invariant.
IInv ==
    /\ TypeOK
    /\ CandidatesExist
    /\ InHandIsNew
    /\ LearnedIsThere
    /\ LearnedOnce
    /\ ViewExtendsDurable

-----------------------------------------------------------------------------
\* Potentiating one row leaves every other row alone.
LEMMA AddRow ==
    ASSUME UpsertRow, view \in Tables, cur \in Docs, pos \in Row
    PROVE  /\ view' \in Tables
           /\ view'.ingested = view.ingested
           /\ view'.potentiated[cur][pos] = view.potentiated[cur][pos] + 1
           /\ \A d \in Docs : d # cur => view'.potentiated[d] = view.potentiated[d]
           /\ \A k \in Row : k # pos => view'.potentiated[cur][k] = view.potentiated[cur][k]
<1> DEFINE p == view.potentiated
           q == [p EXCEPT ![cur] = [p[cur] EXCEPT ![pos] = p[cur][pos] + 1]]
<1>1. /\ p \in [Docs -> [Row -> Nat]]
      /\ view.ingested \in SUBSET Docs
  BY DEF Tables, Row
<1>2. [p[cur] EXCEPT ![pos] = p[cur][pos] + 1] \in [Row -> Nat]
  BY <1>1
<1>3. q \in [Docs -> [Row -> Nat]]
  BY <1>1, <1>2
<1>4. view' = [view EXCEPT !.potentiated = q]
  BY DEF UpsertRow
<1>5. view'.potentiated = q /\ view'.ingested = view.ingested
  BY <1>4 DEF Tables
<1>6. view' \in Tables
  BY <1>1, <1>3, <1>4 DEF Tables, Row
<1> QED
  BY <1>1, <1>5, <1>6

\* Recording a file leaves the rows alone.
LEMMA AddRecord ==
    ASSUME NEW t \in Tables, NEW d \in Docs,
           NEW u, u = [t EXCEPT !.ingested = @ \cup {d}]
    PROVE  /\ u \in Tables
           /\ u.ingested = t.ingested \cup {d}
           /\ u.potentiated = t.potentiated
BY DEF Tables

\* The invariant holds before anything was dropped.
LEMMA InitIInv == Init => IInv
<1> SUFFICES ASSUME Init PROVE IInv
  OBVIOUS
<1> USE DEF Init
<1>1. NoFile \in Counts
  BY DEF NoFile, Counts
<1>2. NoRows \in Tables
  BY DEF NoRows, Tables
<1>3. /\ \A d \in Docs : \A k \in Row : NoRows.potentiated[d][k] = 0
      /\ NoRows.ingested = {}
  BY DEF NoRows, Row
<1>4. TypeOK
  <2>1. pos \in 1 .. Rows + 1
    BY RawIngestAssumption
  <2>2. pc \in PC
    BY DEF PC
  <2> QED
    BY <1>1, <1>2, <2>1, <2>2 DEF TypeOK
<1>5. InHandIsNew
  BY DEF InHandIsNew
<1>6. \A d \in Docs : \A k \in Row : ~Learned(d, k)
  BY <1>3 DEF Learned
<1>7. LearnedIsThere /\ LearnedOnce
  BY <1>3, <1>6 DEF LearnedIsThere, LearnedOnce
<1>8. ViewExtendsDurable
  BY <1>3 DEF ViewExtendsDurable
<1> QED
  BY <1>1, <1>4, <1>5, <1>7, <1>8 DEF IInv, CandidatesExist, Counts

\* What a commit, or none, makes of the committed rows.
LEMMA CommitType == TypeOK /\ view' \in Tables /\ (Commit \/ UNCHANGED durable) => durable' \in Tables
BY DEF Commit, TypeOK

\* Every step keeps the types.
LEMMA TypeStep == TypeOK /\ CandidatesExist /\ InHandIsNew /\ Next => TypeOK'
<1> SUFFICES ASSUME TypeOK, CandidatesExist, InHandIsNew, Next PROVE TypeOK'
  OBVIOUS
<1> USE RawIngestAssumption DEF TypeOK, disk, local
<1>0. "file" \in PC /\ "idle" \in PC /\ "duplicate" \in PC /\ "copy" \in PC
      /\ "upsert" \in PC /\ "record" \in PC /\ "learn" \in PC
      /\ "fingerprint" \in PC /\ "rebuild" \in PC /\ "persist" \in PC
  BY DEF PC
<1>1. ASSUME NEW d \in Docs, Drop(d) PROVE TypeOK'
  BY <1>1 DEF Drop, Counts
<1>2. CASE Scan
  <2>1. todo' \in Counts
    BY <1>2 DEF Scan, Counts
  <2>2. pc' = "fingerprint" \/ pc' = "file"
    BY <1>2, Zenon DEF Scan
  <2> QED
    BY <1>0, <1>2, <2>1, <2>2 DEF Scan
<1>3. ASSUME NEW d \in Docs, Take(d) PROVE TypeOK'
  <2>1. raw[d] > 0
    BY <1>3 DEF Take, CandidatesExist, Counts
  <2>2. todo' \in Counts /\ cleaned' \in Counts /\ raw' \in Counts
    BY <1>3, <2>1 DEF Take, Counts
  <2> QED
    BY <1>0, <1>3, <2>2 DEF Take
<1>4. CASE Duplicate
  BY <1>0, <1>4, CommitType DEF Duplicate, MarkFile
<1>5. CASE CopyBatch
  <2>1. batch' \in Counts
    BY <1>5 DEF CopyBatch, Counts, InHandIsNew
  <2> QED
    BY <1>0, <1>5, <2>1 DEF CopyBatch
<1>6. CASE UpsertRow /\ cur \in Docs
  <2>1. view' \in Tables
    <3>1. pos \in Row
      BY <1>6 DEF UpsertRow, Row
    <3> QED
      BY <1>6, <3>1, AddRow
  <2>2. pos' \in 1 .. Rows + 1
    BY <1>6 DEF UpsertRow
  <2>3. rowsPending' \in Nat
    BY <1>6 DEF UpsertRow, MarkRow
  <2> QED
    BY <1>6, <2>1, <2>2, <2>3, CommitType DEF UpsertRow, MarkRow
<1>7. CASE FinishUpsert
  BY <1>0, <1>7, CommitType DEF FinishUpsert, FlushPendingRows
<1>8. CASE Record /\ cur \in Docs
  <2>1. view' \in Tables
    BY <1>8, AddRecord DEF Record
  <2>2. filesPending' \in Nat
    BY <1>8 DEF Record, MarkFile
  <2> QED
    BY <1>0, <1>8, <2>1, <2>2, CommitType DEF Record, MarkFile
<1>9. CASE FinishFiles
  BY <1>0, <1>9, CommitType DEF FinishFiles
<1>10. CASE Learn
  BY <1>0, <1>10 DEF Learn
<1>11. CASE Fingerprint
  BY <1>0, <1>11 DEF Fingerprint, Inputs
<1>12. CASE Rebuild \/ NoRebuild
  BY <1>0, <1>12 DEF Rebuild, NoRebuild
<1>13. CASE Persist \/ CutShort
  <2>1. NoFile \in Counts
    BY DEF NoFile, Counts
  <2>2. input' \in Inputs \cup {None} /\ view' \in Tables /\ faults' \in Nat /\ pc' \in PC
    BY <1>0, <1>13 DEF Persist, CutShort
  <2>3. UNCHANGED <<raw, cleaned, batch, durable, memory, drops>> /\ Forget
    BY <1>13 DEF Persist, CutShort
  <2>4. pos' \in 1 .. Rows + 1
    BY <2>3 DEF Forget
  <2> QED
    BY <2>1, <2>2, <2>3, <2>4 DEF Forget
<1>14. UpsertRow \/ Record => cur \in Docs
  BY DEF UpsertRow, Record, InHandIsNew
<1> QED
  BY <1>1, <1>2, <1>3, <1>4, <1>5, <1>6, <1>7, <1>8, <1>9, <1>10, <1>11, <1>12, <1>13, <1>14
  DEF Next, TickStep

-----------------------------------------------------------------------------
\* Steps that write no row: nothing is learned by them, and a commit only makes
\* what was learned last.
LEMMA NoRowIInv ==
    ASSUME IInv, TypeOK', CandidatesExist', InHandIsNew',
           UNCHANGED <<view, faults>>, Commit \/ UNCHANGED durable,
           \A d \in Docs : \A k \in Row : Learned(d, k)' <=> Learned(d, k),
           \/ pc # "upsert"
           \/ Commit
           \/ rowsPending = 0
           \/ UNCHANGED <<pc, cur, rowsPending>>
    PROVE  IInv'
<1> USE DEF IInv
<1>1. LearnedIsThere'
  BY DEF LearnedIsThere, Commit
<1>2. LearnedOnce'
  BY DEF LearnedOnce
<1>3. ViewExtendsDurable'
  <2>1. CASE Commit
    <3>1. \A d \in Docs : \A k \in Row : view.potentiated[d][k] \in Nat
      BY DEF TypeOK, Tables, Row
    <3>2. durable' = view
      BY <2>1 DEF Commit
    <3> QED
      BY <3>1, <3>2 DEF ViewExtendsDurable
  <2>2. CASE UNCHANGED durable
    BY <2>2 DEF ViewExtendsDurable
  <2> QED
    BY <2>1, <2>2
<1> QED
  BY <1>1, <1>2, <1>3

\* A candidate leaves data/raw only by being taken.
LEMMA CandidatesStep == IInv /\ Next => CandidatesExist'
<1> SUFFICES ASSUME IInv, Next PROVE CandidatesExist'
  OBVIOUS
<1>0. todo \in Counts /\ raw \in Counts /\ CandidatesExist
  BY DEF IInv, TypeOK
<1>1. CASE \E d \in Docs : Drop(d)
  BY <1>0, <1>1 DEF Drop, local, Counts, CandidatesExist
<1>2. CASE Scan
  BY <1>0, <1>2 DEF Scan, disk, Counts, CandidatesExist
<1>3. CASE \E d \in Docs : Take(d)
  BY <1>0, <1>3 DEF Take, Counts, CandidatesExist
<1>4. CASE Persist \/ CutShort
  <2>1. todo' = NoFile /\ UNCHANGED raw
    BY <1>4 DEF Persist, CutShort, Forget, disk
  <2> QED
    BY <1>0, <2>1 DEF NoFile, Counts, CandidatesExist
<1>5. CASE UNCHANGED <<raw, todo>>
  BY <1>0, <1>5 DEF CandidatesExist
<1>6. Duplicate \/ CopyBatch \/ UpsertRow \/ FinishUpsert \/ Record \/ FinishFiles \/ Learn
      \/ Fingerprint \/ Rebuild \/ NoRebuild => UNCHANGED <<raw, todo>>
  BY DEF Duplicate, CopyBatch, UpsertRow, FinishUpsert, Record, FinishFiles, Learn,
         Fingerprint, Rebuild, NoRebuild, disk, local
<1> QED
  BY <1>1, <1>2, <1>3, <1>4, <1>5, <1>6 DEF Next, TickStep

\* A row is written, and is the one row more that is learned.
LEMMA UpsertIInv ==
    ASSUME IInv, TypeOK', CandidatesExist', UpsertRow
    PROVE  IInv'
<1> USE DEF IInv
<1>0. /\ cur \in Docs /\ cur \notin view.ingested
      /\ pos \in Row /\ pos \in Nat
      /\ pc = "upsert" /\ pc' = "upsert" /\ cur' = cur /\ faults' = faults /\ pos' = pos + 1
      /\ faults \in Nat /\ rowsPending \in Nat /\ view \in Tables
  BY RawIngestAssumption DEF UpsertRow, InHandIsNew, TypeOK, Row
<1>1. /\ view'.ingested = view.ingested
      /\ view'.potentiated[cur][pos] = view.potentiated[cur][pos] + 1
      /\ \A e \in Docs : e # cur => view'.potentiated[e] = view.potentiated[e]
      /\ \A j \in Row : j # pos => view'.potentiated[cur][j] = view.potentiated[cur][j]
  BY <1>0, AddRow
<1>2. \A d \in Docs : \A k \in Row :
        /\ view.potentiated[d][k] \in Nat
        /\ durable.potentiated[d][k] \in Nat
        /\ view'.potentiated[d][k] \in Nat
        /\ view.potentiated[d][k] <= view'.potentiated[d][k]
  <2>1. \A d \in Docs : \A k \in Row :
          /\ view.potentiated[d][k] \in Nat
          /\ durable.potentiated[d][k] \in Nat
          /\ view'.potentiated[d][k] \in Nat
    BY DEF TypeOK, Tables, Row
  <2> QED
    BY <1>0, <1>1, <2>1
<1>3. \A d \in Docs : \A k \in Row : Learned(d, k)' <=> Learned(d, k) \/ (d = cur /\ k = pos)
  BY <1>0, <1>1 DEF Learned, Row
<1>4. ~Learned(cur, pos)
  BY <1>0 DEF Learned
<1>5. Commit \/ (rowsPending' > 0 /\ UNCHANGED durable)
  BY <1>0 DEF UpsertRow, MarkRow
<1>6. InHandIsNew'
  BY <1>0, <1>1 DEF InHandIsNew
<1>7. LearnedIsThere'
  <2> SUFFICES ASSUME NEW d \in Docs, NEW k \in Row, Learned(d, k)'
               PROVE  /\ view'.potentiated[d][k] > 0
                      /\ \/ durable'.potentiated[d][k] > 0
                         \/ d = cur /\ rowsPending' > 0
    BY <1>0 DEF LearnedIsThere
  <2>1. view'.potentiated[d][k] > 0
    <3>1. CASE Learned(d, k)
      BY <1>2, <3>1 DEF LearnedIsThere
    <3>2. CASE d = cur /\ k = pos
      BY <1>1, <1>2, <3>2
    <3> QED
      BY <1>3, <3>1, <3>2
  <2>2. CASE Commit
    BY <2>1, <2>2 DEF Commit
  <2>3. CASE rowsPending' > 0 /\ UNCHANGED durable
    BY <1>3, <2>1, <2>3 DEF LearnedIsThere
  <2> QED
    BY <1>5, <2>1, <2>2, <2>3
<1>8. LearnedOnce'
  <2> SUFFICES ASSUME NEW d \in Docs, NEW k \in Row
               PROVE  view'.potentiated[d][k] <= faults + (IF Learned(d, k)' THEN 1 ELSE 0)
    BY <1>0 DEF LearnedOnce
  <2>1. CASE d = cur /\ k = pos
    BY <1>0, <1>1, <1>2, <1>3, <1>4, <2>1 DEF LearnedOnce
  <2>2. CASE ~(d = cur /\ k = pos)
    <3>1. view'.potentiated[d][k] = view.potentiated[d][k]
      BY <1>1, <2>2
    <3>2. Learned(d, k)' <=> Learned(d, k)
      BY <1>3, <2>2
    <3> QED
      BY <3>1, <3>2 DEF LearnedOnce
  <2> QED
    BY <2>1, <2>2
<1>9. ViewExtendsDurable'
  <2>1. CASE Commit
    <3>1. \A d \in Docs : \A k \in Row : view'.potentiated[d][k] \in Nat
      <4>1. view' \in Tables
        BY DEF TypeOK
      <4>2. view'.potentiated \in [Docs -> [Row -> Nat]]
        BY <4>1 DEF Tables, Row
      <4> QED
        BY <4>2
    <3> QED
      BY <2>1, <3>1 DEF Commit, ViewExtendsDurable
  <2>2. CASE UNCHANGED durable
    <3>1. durable.ingested \subseteq Docs
      BY DEF TypeOK, Tables
    <3>2. \A d \in durable.ingested : d # cur
      BY <1>0 DEF ViewExtendsDurable
    <3>3. \A d \in Docs : \A k \in Row : durable.potentiated[d][k] <= view'.potentiated[d][k]
      <4>1. \A d \in Docs : \A k \in Row :
              /\ view'.potentiated[d][k] \in Nat
              /\ durable.potentiated[d][k] <= view.potentiated[d][k]
        BY DEF TypeOK, Tables, Row, ViewExtendsDurable
      <4> QED
        BY <1>2, <4>1
    <3> QED
      BY <1>1, <2>2, <3>1, <3>2, <3>3 DEF ViewExtendsDurable
  <2> QED
    BY <1>5, <2>1, <2>2
<1> QED
  BY <1>6, <1>7, <1>8, <1>9

\* A file is recorded when all of it was learned and nothing is pending.
LEMMA RecordIInv ==
    ASSUME IInv, TypeOK', CandidatesExist', Record
    PROVE  IInv'
<1> USE DEF IInv
<1>0. /\ cur \in Docs /\ pc = "record" /\ pc' = "file" /\ cur' = cur /\ faults' = faults
      /\ view \in Tables
  BY DEF Record, InHandIsNew, TypeOK
<1>1. view'.ingested = view.ingested \cup {cur} /\ view'.potentiated = view.potentiated
  BY <1>0, AddRecord DEF Record
<1>2. \A d \in Docs : \A k \in Row : Learned(d, k)' <=> Learned(d, k)
  BY <1>0, <1>1 DEF Learned
<1>3. Commit \/ UNCHANGED durable
  BY DEF Record, MarkFile
<1>4. InHandIsNew'
  BY <1>0 DEF InHandIsNew
<1>5. LearnedIsThere'
  BY <1>0, <1>1, <1>2, <1>3 DEF LearnedIsThere, Commit
<1>6. LearnedOnce'
  BY <1>0, <1>1, <1>2 DEF LearnedOnce
<1>7. ViewExtendsDurable'
  <2>1. CASE Commit
    <3>1. \A d \in Docs : \A k \in Row : view'.potentiated[d][k] \in Nat
      <4>1. view' \in Tables
        BY DEF TypeOK
      <4>2. view'.potentiated \in [Docs -> [Row -> Nat]]
        BY <4>1 DEF Tables, Row
      <4> QED
        BY <4>2
    <3> QED
      BY <2>1, <3>1 DEF Commit, ViewExtendsDurable
  <2>2. CASE UNCHANGED durable
    BY <1>1, <2>2 DEF ViewExtendsDurable
  <2> QED
    BY <1>3, <2>1, <2>2
<1> QED
  BY <1>4, <1>5, <1>6, <1>7

\* What a tick that is cut short leaves is what was committed.
LEMMA CutShortIInv ==
    ASSUME IInv, TypeOK', CandidatesExist', CutShort
    PROVE  IInv'
<1> USE DEF IInv
<1>0. /\ view' = durable /\ durable' = durable /\ pc' = "idle" /\ faults' = faults + 1
      /\ faults \in Nat
      /\ \A d \in Docs : \A k \in Row :
            durable.potentiated[d][k] \in Nat /\ view.potentiated[d][k] \in Nat
  <2>1. durable \in Tables /\ view \in Tables /\ faults \in Nat
    BY DEF TypeOK
  <2>2. \A d \in Docs : \A k \in Row :
          durable.potentiated[d][k] \in Nat /\ view.potentiated[d][k] \in Nat
    BY <2>1 DEF Tables, Row
  <2> QED
    BY <2>1, <2>2 DEF CutShort
<1>1. \A d \in Docs : \A k \in Row : Learned(d, k)' <=> d \in durable.ingested
  BY <1>0 DEF Learned
<1>2. InHandIsNew'
  BY <1>0 DEF InHandIsNew
<1>3. LearnedIsThere'
  <2>1. \A d \in Docs : \A k \in Row : d \in durable.ingested => durable.potentiated[d][k] > 0
    <3> SUFFICES ASSUME NEW d \in Docs, NEW k \in Row, d \in durable.ingested
                 PROVE  durable.potentiated[d][k] > 0
      OBVIOUS
    <3>1. d \in view.ingested
      BY DEF ViewExtendsDurable
    <3>2. ~(d = cur /\ pc = "upsert")
      BY <3>1 DEF InHandIsNew
    <3> QED
      BY <3>1, <3>2 DEF LearnedIsThere, Learned
  <2> QED
    BY <1>0, <1>1, <2>1 DEF LearnedIsThere
<1>4. LearnedOnce'
  <2>1. \A d \in Docs : \A k \in Row : durable.potentiated[d][k] <= faults + 1
    BY <1>0 DEF LearnedOnce, ViewExtendsDurable
  <2>2. \A d \in Docs : \A k \in Row : (IF Learned(d, k)' THEN 1 ELSE 0) \in {0, 1}
    OBVIOUS
  <2>3. \A d \in Docs : \A k \in Row :
          durable.potentiated[d][k] <= faults + 1 + (IF Learned(d, k)' THEN 1 ELSE 0)
    BY <1>0, <2>1, <2>2
  <2> QED
    BY <1>0, <2>3 DEF LearnedOnce
<1>5. ViewExtendsDurable'
  BY <1>0 DEF ViewExtendsDurable
<1> QED
  BY <1>2, <1>3, <1>4, <1>5

\* Every step keeps the invariant.
LEMMA StepIInv == IInv /\ [Next]_vars => IInv'
<1> SUFFICES ASSUME IInv, [Next]_vars PROVE IInv'
  OBVIOUS
<1>1. CASE UNCHANGED vars
  BY <1>1 DEF vars, disk, local, IInv, TypeOK, CandidatesExist, InHandIsNew,
              LearnedIsThere, LearnedOnce, ViewExtendsDurable, Learned
<1> SUFFICES ASSUME Next PROVE IInv'
  BY <1>1
<1>2. TypeOK'
  BY TypeStep DEF IInv
<1>3. CandidatesExist'
  BY CandidatesStep
<1>4. ASSUME NEW d \in Docs, Drop(d) PROVE IInv'
  <2>1. UNCHANGED <<view, durable, faults, cur, pos, pc, rowsPending>>
    BY <1>4 DEF Drop, local
  <2>2. InHandIsNew' /\ (\A e \in Docs : \A k \in Row : Learned(e, k)' <=> Learned(e, k))
    BY <2>1 DEF IInv, InHandIsNew, Learned
  <2> QED
    BY <1>2, <1>3, <2>1, <2>2, NoRowIInv
<1>5. CASE Scan
  <2>1. pc = "idle" /\ (pc' = "fingerprint" \/ pc' = "file")
    BY <1>5, Zenon DEF Scan
  <2>2. UNCHANGED <<view, durable, faults, cur, pos>>
    BY <1>5 DEF Scan
  <2> QED
    BY <1>2, <1>3, <2>1, <2>2, NoRowIInv DEF InHandIsNew, Learned
<1>6. ASSUME NEW d \in Docs, Take(d) PROVE IInv'
  BY <1>2, <1>3, <1>6, NoRowIInv DEF Take, IInv, InHandIsNew, Learned
<1>7. CASE Duplicate
  BY <1>2, <1>3, <1>7, NoRowIInv DEF Duplicate, MarkFile, IInv, InHandIsNew, Learned
<1>8. CASE CopyBatch
  <2>1. /\ pc = "copy" /\ pc' = "upsert" /\ pos' = 1
        /\ UNCHANGED <<view, durable, faults, cur>>
    BY <1>8 DEF CopyBatch
  <2>2. \A d \in Docs : \A k \in Row : Learned(d, k)' <=> Learned(d, k)
    BY <2>1, RawIngestAssumption DEF Learned, Row
  <2>3. InHandIsNew'
    BY <2>1 DEF IInv, InHandIsNew
  <2> QED
    BY <1>2, <1>3, <2>1, <2>2, <2>3, NoRowIInv
<1>9. CASE UpsertRow
  BY <1>2, <1>3, <1>9, UpsertIInv
<1>10. CASE FinishUpsert
  <2>1. /\ pc = "upsert" /\ pc' = "record" /\ pos > Rows /\ pos \in Nat
        /\ UNCHANGED <<view, faults, cur>>
        /\ Commit \/ (rowsPending = 0 /\ UNCHANGED durable)
    BY <1>10, RawIngestAssumption DEF FinishUpsert, FlushPendingRows, IInv, TypeOK
  <2>2. \A d \in Docs : \A k \in Row : Learned(d, k)' <=> Learned(d, k)
    BY <2>1, RawIngestAssumption DEF Learned, Row
  <2>3. InHandIsNew'
    BY <2>1 DEF IInv, InHandIsNew
  <2> QED
    BY <1>2, <1>3, <2>1, <2>2, <2>3, NoRowIInv
<1>11. CASE Record
  BY <1>2, <1>3, <1>11, RecordIInv
<1>12. CASE FinishFiles
  BY <1>2, <1>3, <1>12, NoRowIInv DEF FinishFiles, IInv, InHandIsNew, Learned
<1>13. CASE Learn \/ Fingerprint \/ Rebuild \/ NoRebuild \/ Persist
  BY <1>2, <1>3, <1>13, NoRowIInv
  DEF Learn, Fingerprint, Rebuild, NoRebuild, Persist, Forget, local, IInv, InHandIsNew, Learned
<1>14. CASE CutShort
  BY <1>2, <1>3, <1>14, CutShortIInv
<1> QED
  BY <1>4, <1>5, <1>6, <1>7, <1>8, <1>9, <1>10, <1>11, <1>12, <1>13, <1>14 DEF Next, TickStep

-----------------------------------------------------------------------------
\* The inductive invariant holds throughout, for documents of any number and size.
THEOREM IngestInvariant == Spec => []IInv
<1>1. Init => IInv
  BY InitIInv
<1>2. IInv /\ [Next]_vars => IInv'
  BY StepIInv
<1> QED
  BY <1>1, <1>2, PTL DEF Spec

\* No file is taken for a duplicate of one whose synapses were lost: what
\* ingest_raw_documents looks up in ingested_files has its rows committed.
THEOREM RecordedHasItsRows == Spec => []RecordedIsPotentiated
<1>1. IInv => RecordedIsPotentiated
  <2> SUFFICES ASSUME IInv, NEW d \in view.ingested, NEW k \in Row
               PROVE  durable.potentiated[d][k] > 0
    BY DEF RecordedIsPotentiated, Row
  <2>1. d \in Docs
    BY DEF IInv, TypeOK, Tables
  <2>2. ~(d = cur /\ pc = "upsert")
    BY DEF IInv, InHandIsNew
  <2> QED
    BY <2>1, <2>2 DEF IInv, LearnedIsThere, Learned
<1> QED
  BY <1>1, IngestInvariant, PTL

\* A file potentiates its synapses once, and once more for each tick that was cut
\* short, however often it is dropped.
THEOREM LearnsOnce == Spec => []PotentiatedOnce
<1>1. IInv => PotentiatedOnce
  <2> SUFFICES ASSUME IInv, NEW d \in Docs, NEW k \in Row
               PROVE  durable.potentiated[d][k] <= 1 + faults
    BY DEF PotentiatedOnce, Row
  <2>1. /\ durable.potentiated[d][k] \in Nat /\ view.potentiated[d][k] \in Nat /\ faults \in Nat
        /\ durable.potentiated[d][k] <= view.potentiated[d][k]
    BY DEF IInv, TypeOK, Tables, Row, ViewExtendsDurable
  <2>2. view.potentiated[d][k] <= faults + (IF Learned(d, k) THEN 1 ELSE 0)
    BY DEF IInv, LearnedOnce
  <2> QED
    BY <2>1, <2>2
<1> QED
  BY <1>1, IngestInvariant, PTL

\* A committed record is final: nothing forgets it and nothing potentiates the
\* rows of its file again.
THEOREM RecordStays == Spec => RecordIsFinal
<1> DEFINE Final == \A d \in durable.ingested :
                       /\ d \in durable'.ingested
                       /\ durable'.potentiated[d] = durable.potentiated[d]
<1>1. IInv /\ [Next]_vars => [Final]_vars
  <2> SUFFICES ASSUME IInv, Next PROVE Final
    OBVIOUS
  <2>0. /\ durable.ingested \subseteq Docs /\ durable.ingested \subseteq view.ingested
        /\ \A d \in durable.ingested : durable.potentiated[d] = view.potentiated[d]
    BY DEF IInv, TypeOK, Tables, ViewExtendsDurable
  <2>1. CASE UNCHANGED durable
    BY <2>1
  <2>2. CASE Commit /\ UNCHANGED view
    BY <2>0, <2>2 DEF Commit
  <2>3. CASE UpsertRow /\ Commit
    <3>1. cur \in Docs \ view.ingested /\ view \in Tables /\ pos \in Row
      BY <2>3 DEF IInv, UpsertRow, InHandIsNew, TypeOK, Row
    <3>2. /\ view'.ingested = view.ingested
          /\ \A e \in Docs : e # cur => view'.potentiated[e] = view.potentiated[e]
      BY <2>3, <3>1, AddRow
    <3> QED
      BY <2>0, <2>3, <3>1, <3>2 DEF Commit
  <2>4. CASE Record /\ Commit
    <3>1. cur \in Docs /\ view \in Tables
      BY <2>4 DEF IInv, Record, InHandIsNew, TypeOK
    <3> QED
      BY <2>0, <2>4, <3>1, AddRecord DEF Record, Commit
  <2>5. (\E d \in Docs : Drop(d) \/ Take(d)) \/ Scan \/ CopyBatch \/ Learn \/ Fingerprint
        \/ Rebuild \/ NoRebuild \/ Persist \/ CutShort => UNCHANGED durable
    BY DEF Drop, Take, Scan, CopyBatch, Learn, Fingerprint, Rebuild, NoRebuild, Persist, CutShort
  <2>6. Duplicate \/ FinishUpsert \/ FinishFiles => UNCHANGED durable \/ (Commit /\ UNCHANGED view)
    BY DEF Duplicate, FinishUpsert, FinishFiles, MarkFile, FlushPendingRows
  <2>7. UpsertRow \/ Record => UNCHANGED durable \/ Commit
    BY DEF UpsertRow, Record, MarkRow, MarkFile
  <2> QED
    BY <2>1, <2>2, <2>3, <2>4, <2>5, <2>6, <2>7 DEF Next, TickStep
<1> QED
  BY <1>1, IngestInvariant, PTL DEF Spec, RecordIsFinal

=============================================================================
