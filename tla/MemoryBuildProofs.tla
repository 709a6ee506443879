-------------------------- MODULE MemoryBuildProofs --------------------------
(***************************************************************************)
(* Proofs about the memory index: for all items and terms, any number of   *)
(* builds at once, any flush limit and any failures.                       *)
(***************************************************************************)
EXTENDS MemoryBuild, TLAPS

\* Whoever writes has emptied the tables or is building; no one else's rows are
\* uncommitted.
WriterIsBuilding ==
    /\ writer = None => view = durable
    /\ writer # None => pc[writer] \in {"emptied", "building"}
    /\ \A b \in Builders : pc[b] = "emptied" => writer = b /\ view.items = {}
                                              /\ view.finished = {} /\ view.emptied = b

\* The inputs only grow, and what is indexed or to be indexed comes from them.
FromCorpus ==
    /\ durable.items \subseteq corpus
    /\ view.items \subseteq corpus
    /\ \A b \in Builders :
          /\ read[b] \subseteq corpus
          /\ left[b] \subseteq read[b]
          /\ \A t \in due[b] : \E i \in read[b] : t \in Mentions[i]

\* What b has imported and written so far is in tables t, if nobody has emptied
\* them since b did.
Progress(t, b) ==
    pc[b] = "building" /\ t.emptied = b =>
        /\ read[b] \ left[b] \subseteq t.items
        /\ \A i \in read[b] : \A x \in Mentions[i] \ due[b] : t.terms[x] # {}

BuildsProgress ==
    /\ \A b \in Builders : Progress(view, b)
    /\ \A b \in Builders : b # writer => Progress(durable, b)

\* What was finished is in tables t.
Whole(t) ==
    /\ t.finished \subseteq t.items
    /\ \A i \in t.finished : \A x \in Mentions[i] : t.terms[x] # {}

\* The open transaction takes nothing away, or its build has emptied the tables
\* and has yet to import what they held.
TakesNothing ==
    writer # None =>
        \/ durable.items \subseteq view.items
        \/ /\ view.emptied = writer
           /\ pc[writer] = "building" => durable.items \subseteq read[writer]

IInv ==
    /\ TypeOK
    /\ WriterIsBuilding
    /\ FromCorpus
    /\ BuildsProgress
    /\ Whole(view)
    /\ Whole(durable)
    /\ TakesNothing

-----------------------------------------------------------------------------
\* Initially there are no inputs, no rows and no builds.
LEMMA InitIInv == Init => IInv
<1> SUFFICES ASSUME Init PROVE IInv
  OBVIOUS
<1>1. NoRows(None) \in Tables
  BY DEF NoRows, Tables
<1>2. TypeOK
  BY <1>1, MemoryBuildAssumption DEF Init, TypeOK
<1> QED
  BY <1>2 DEF Init, IInv, NoRows, WriterIsBuilding, FromCorpus, BuildsProgress, Progress,
     Whole, TakesNothing

\* A new input concerns no build that has listed them.
LEMMA SupplyIInv == ASSUME IInv, NEW i \in Items, Supply(i) PROVE IInv'
BY DEF IInv, Supply, tables, local, bounds, TypeOK, WriterIsBuilding, FromCorpus,
   BuildsProgress, Progress, Whole, TakesNothing

\* A build that is due has done nothing yet.
LEMMA WaitIInv ==
    ASSUME IInv, Tick \/ \E b \in Requests : Request(b) PROVE IInv'
<1>1. PICK c \in Builders :
        /\ pc[c] = "idle" /\ pc' = [pc EXCEPT ![c] = "waiting"]
        /\ seen' \subseteq Items /\ requests' \in Nat
        /\ UNCHANGED <<corpus, remembered, tables, read, left, due, pending, failures>>
  BY DEF IInv, TypeOK, Tick, Request, Builders, bounds, inputs, tables
<1>2. pc \in [Builders -> {"idle", "waiting", "emptied", "building", "built"}]
  BY DEF IInv, TypeOK
<1>3. \A b \in Builders : pc'[b] = pc[b] \/ (b = c /\ pc'[b] = "waiting")
  BY <1>1, <1>2
<1>4. writer # c /\ (writer = None \/ writer \in Builders)
  BY <1>1, MemoryBuildAssumption DEF IInv, TypeOK, WriterIsBuilding
<1>5. TypeOK'
  BY <1>1, <1>2 DEF IInv, TypeOK, tables
<1>6. WriterIsBuilding'
  BY <1>1, <1>3, <1>4 DEF IInv, WriterIsBuilding, tables
<1>7. FromCorpus' /\ Whole(view)' /\ Whole(durable)'
  BY <1>1 DEF IInv, FromCorpus, Whole, tables
<1>8. BuildsProgress'
  BY <1>1, <1>3 DEF IInv, BuildsProgress, Progress, tables
<1>9. TakesNothing'
  BY <1>1, <1>3, <1>4 DEF IInv, TakesNothing, tables
<1> QED
  BY <1>5, <1>6, <1>7, <1>8, <1>9 DEF IInv

\* The emptied tables promise nothing; those of before are still committed.
LEMMA ResetIInv == ASSUME IInv, NEW b \in Builders, Reset(b) PROVE IInv'
<1>1. /\ pc[b] = "waiting" /\ writer = None /\ writer' = b /\ view' = NoRows(b)
      /\ pc' = [pc EXCEPT ![b] = "emptied"]
      /\ UNCHANGED <<corpus, remembered, seen, durable, read, left, due, pending, requests, failures>>
  BY DEF Reset, inputs, bounds
<1>2. /\ NoRows(b) \in Tables /\ NoRows(b).items = {} /\ NoRows(b).finished = {}
      /\ NoRows(b).emptied = b
  BY DEF NoRows, Tables
<1>3. pc \in [Builders -> {"idle", "waiting", "emptied", "building", "built"}]
  BY DEF IInv, TypeOK
<1>4. \A c \in Builders : pc'[c] = IF c = b THEN "emptied" ELSE pc[c]
  BY <1>1, <1>3
<1>5. b # None /\ view = durable
  BY <1>1, MemoryBuildAssumption DEF IInv, WriterIsBuilding
<1>6. TypeOK'
  BY <1>1, <1>2, <1>3 DEF IInv, TypeOK
<1>7. WriterIsBuilding'
  BY <1>1, <1>2, <1>4, <1>5, MemoryBuildAssumption DEF IInv, WriterIsBuilding
<1>8. FromCorpus' /\ Whole(view)' /\ Whole(durable)'
  BY <1>1, <1>2 DEF IInv, FromCorpus, Whole
<1>9. BuildsProgress'
  BY <1>1, <1>2, <1>4, <1>5 DEF IInv, BuildsProgress, Progress
<1>10. TakesNothing'
  BY <1>1, <1>2, <1>4 DEF TakesNothing
<1> QED
  BY <1>6, <1>7, <1>8, <1>9, <1>10 DEF IInv

\* The inputs are listed while the tables are locked and empty, so that what they
\* held is among them.
LEMMA ReadIInv == ASSUME IInv, NEW b \in Builders, Read(b) PROVE IInv'
<1>1. /\ pc[b] = "emptied" /\ pc' = [pc EXCEPT ![b] = "building"]
      /\ read' = [read EXCEPT ![b] = corpus] /\ left' = [left EXCEPT ![b] = corpus]
      /\ due' = [due EXCEPT ![b] = UNION {Mentions[i] : i \in corpus}]
      /\ pending' = [pending EXCEPT ![b] = 0]
      /\ UNCHANGED <<corpus, remembered, seen, durable, view, writer, requests, failures>>
  BY DEF Read, inputs, bounds, tables
<1>2. /\ corpus \subseteq Items /\ writer = b /\ view.items = {} /\ view.emptied = b
      /\ pc \in [Builders -> {"idle", "waiting", "emptied", "building", "built"}]
      /\ read \in [Builders -> SUBSET Items] /\ left \in [Builders -> SUBSET Items]
      /\ due \in [Builders -> SUBSET Terms] /\ pending \in [Builders -> Nat]
  BY <1>1 DEF IInv, TypeOK, WriterIsBuilding
<1>3. UNION {Mentions[i] : i \in corpus} \in SUBSET Terms
  BY <1>2, MemoryBuildAssumption
<1>4. \A c \in Builders : /\ pc'[c] = IF c = b THEN "building" ELSE pc[c]
                          /\ c # b => /\ read'[c] = read[c] /\ left'[c] = left[c]
                                      /\ due'[c] = due[c]
  BY <1>1, <1>2
<1>5. read'[b] = corpus /\ left'[b] = corpus /\ due'[b] = UNION {Mentions[i] : i \in corpus}
  BY <1>1, <1>2
<1>6. TypeOK'
  BY <1>1, <1>2, <1>3 DEF IInv, TypeOK
<1>7. WriterIsBuilding'
  BY <1>1, <1>2, <1>4 DEF IInv, WriterIsBuilding
<1>8. FromCorpus' /\ Whole(view)' /\ Whole(durable)'
  BY <1>1, <1>2, <1>4, <1>5 DEF IInv, FromCorpus, Whole
<1>9. BuildsProgress'
  <2>1. Progress(view, b)'
    BY <1>1, <1>5 DEF Progress
  <2>2. \A c \in Builders : c # b => Progress(view, c)' /\ Progress(durable, c)'
    BY <1>1, <1>2, <1>4 DEF IInv, BuildsProgress, Progress
  <2> QED
    BY <1>1, <1>2, <2>1, <2>2 DEF BuildsProgress
<1>10. TakesNothing'
  BY <1>1, <1>2, <1>5 DEF IInv, TakesNothing, FromCorpus
<1> QED
  BY <1>6, <1>7, <1>8, <1>9, <1>10 DEF IInv

-----------------------------------------------------------------------------
\* A row that takes none away, written by b, committed or not.
LEMMA MarkIInv ==
    ASSUME IInv, NEW b \in Builders, pc[b] = "building", NEW t \in Tables, Mark(b, t),
           view.items \subseteq t.items, t.items \subseteq corpus,
           t.emptied = view.emptied, t.finished = view.finished,
           \A x \in Terms : view.terms[x] # {} => t.terms[x] # {},
           left' \in [Builders -> SUBSET Items], due' \in [Builders -> SUBSET Terms],
           due'[b] \subseteq due[b],
           left'[b] \subseteq left[b],
           \A c \in Builders \ {b} : left'[c] = left[c] /\ due'[c] = due[c],
           t.emptied = b => /\ read[b] \ left'[b] \subseteq t.items
                            /\ \A i \in read[b] : \A x \in Mentions[i] \ due'[b] : t.terms[x] # {},
           UNCHANGED <<inputs, pc, read, bounds>>
    PROVE  IInv'
<1>1. /\ durable \in Tables /\ view \in Tables /\ pending \in [Builders -> Nat]
      /\ \A i \in Items : Mentions[i] \subseteq Terms
      /\ \A c \in Builders : read[c] \subseteq Items
      /\ view.finished \subseteq Items
  BY MemoryBuildAssumption DEF IInv, TypeOK, Tables
<1>2. view' = t /\ writer \in {None, b}
  BY DEF Mark
<1>3. \/ writer' = b /\ durable' = durable
      \/ writer' = None /\ durable' = t
  BY DEF Mark
<1>4. pending' \in [Builders -> Nat]
  BY <1>1 DEF Mark
<1>5. b # None
  BY MemoryBuildAssumption
<1>6. TypeOK'
  BY <1>1, <1>2, <1>3, <1>4 DEF IInv, TypeOK, inputs, bounds
<1>7. \A c \in Builders : pc[c] # "emptied"
  BY <1>2, MemoryBuildAssumption DEF IInv, WriterIsBuilding
<1>8. WriterIsBuilding'
  BY <1>2, <1>3, <1>5, <1>7 DEF WriterIsBuilding
<1>9. FromCorpus'
  BY <1>2, <1>3 DEF IInv, FromCorpus, inputs
<1>10. Whole(t)
  BY <1>1 DEF IInv, Whole
<1>11. Whole(view)' /\ Whole(durable)'
  BY <1>2, <1>3, <1>10 DEF IInv, Whole
<1>12. \A c \in Builders : Progress(view, c)'
  <2> SUFFICES ASSUME NEW c \in Builders PROVE Progress(view, c)'
    OBVIOUS
  <2>1. CASE c = b
    BY <1>2, <2>1 DEF Progress
  <2>2. CASE c # b
    BY <1>1, <1>2, <2>2 DEF IInv, BuildsProgress, Progress
  <2> QED
    BY <2>1, <2>2
<1>13. \A c \in Builders : c # writer' => Progress(durable, c)'
  <2> SUFFICES ASSUME NEW c \in Builders, c # writer' PROVE Progress(durable, c)'
    OBVIOUS
  <2>1. CASE writer' = b /\ durable' = durable
    <3>1. c # writer /\ c # b
      BY <1>2, <2>1, MemoryBuildAssumption
    <3> QED
      BY <2>1, <3>1 DEF IInv, BuildsProgress, Progress
  <2>2. CASE writer' = None /\ durable' = t
    BY <1>2, <1>12, <2>2 DEF Progress
  <2> QED
    BY <1>3, <2>1, <2>2
<1>14. TakesNothing'
  <2>1. CASE writer = None
    BY <1>2, <1>3, <2>1 DEF IInv, WriterIsBuilding, TakesNothing
  <2>2. CASE writer = b
    BY <1>2, <1>3, <1>5, <2>2 DEF IInv, TakesNothing
  <2> QED
    BY <1>2, <2>1, <2>2
<1> QED
  BY <1>6, <1>8, <1>9, <1>11, <1>12, <1>13, <1>14 DEF IInv, BuildsProgress

\* An imported item has its row.
LEMMA ImportIInv ==
    ASSUME IInv, NEW b \in Builders, NEW i \in Items, ImportItem(b, i) PROVE IInv'
<1> DEFINE t == [view EXCEPT !.items = @ \cup {i}, !.events[i] = @ + 1]
<1>1. /\ pc[b] = "building" /\ i \in left[b] /\ Mark(b, t)
      /\ left' = [left EXCEPT ![b] = @ \ {i}]
      /\ UNCHANGED <<inputs, pc, read, due, bounds>>
  BY DEF ImportItem
<1>2. /\ view \in Tables /\ left \in [Builders -> SUBSET Items]
      /\ due \in [Builders -> SUBSET Terms]
  BY DEF IInv, TypeOK
<1>3. t \in Tables
  <2> DEFINE more == [view.events EXCEPT ![i] = @ + 1]
  <2>1. more \in [Items -> Nat]
    BY <1>2 DEF Tables
  <2>2. t = [view EXCEPT !.items = view.items \cup {i}, !.events = more]
    BY <1>2 DEF Tables
  <2> HIDE DEF more, t
  <2> QED
    BY <1>2, <2>1, <2>2 DEF Tables
<1>4. /\ t.items = view.items \cup {i} /\ t.terms = view.terms
      /\ t.emptied = view.emptied /\ t.finished = view.finished
  BY <1>2 DEF Tables
<1> HIDE DEF t
<1>5. i \in corpus /\ left[b] \subseteq read[b]
  BY <1>1 DEF IInv, FromCorpus
<1>6. view.items \subseteq t.items /\ t.items \subseteq corpus
  BY <1>4, <1>5 DEF IInv, FromCorpus
<1>7. /\ left' \in [Builders -> SUBSET Items] /\ due' \in [Builders -> SUBSET Terms]
      /\ left'[b] = left[b] \ {i} /\ due'[b] \subseteq due[b]
      /\ \A c \in Builders \ {b} : left'[c] = left[c] /\ due'[c] = due[c]
  BY <1>1, <1>2
<1>8. t.emptied = b => /\ read[b] \ left'[b] \subseteq t.items
                       /\ \A j \in read[b] : \A x \in Mentions[j] \ due'[b] : t.terms[x] # {}
  BY <1>1, <1>4, <1>7 DEF IInv, BuildsProgress, Progress
<1>9. \A x \in Terms : view.terms[x] # {} => t.terms[x] # {}
  BY <1>4
<1>10. UNCHANGED <<inputs, pc, read, bounds>>
  BY <1>1
<1> QED
  BY <1>1, <1>3, <1>4, <1>6, <1>7, <1>8, <1>9, <1>10, MarkIInv

\* A term that is due is mentioned, so that its row is not empty.
LEMMA WriteTermIInv ==
    ASSUME IInv, NEW b \in Builders, NEW x \in Terms, WriteTerm(b, x) PROVE IInv'
<1> DEFINE counted == {i \in read[b] : x \in Mentions[i]}
           t == [view EXCEPT !.terms[x] = counted]
<1>1. /\ pc[b] = "building" /\ x \in due[b] /\ Mark(b, t)
      /\ due' = [due EXCEPT ![b] = @ \ {x}]
      /\ UNCHANGED <<inputs, pc, read, left, bounds>>
  BY DEF WriteTerm
<1>2. /\ view \in Tables /\ left \in [Builders -> SUBSET Items]
      /\ due \in [Builders -> SUBSET Terms] /\ read \in [Builders -> SUBSET Items]
  BY DEF IInv, TypeOK
<1>3. counted # {} /\ counted \subseteq Items
  BY <1>1, <1>2 DEF IInv, FromCorpus
<1> HIDE DEF counted
<1>4. t \in Tables
  BY <1>2, <1>3 DEF Tables
<1>5. /\ t.items = view.items /\ t.emptied = view.emptied /\ t.finished = view.finished
      /\ \A y \in Terms : t.terms[y] = IF y = x THEN counted ELSE view.terms[y]
  BY <1>2 DEF Tables
<1> HIDE DEF t
<1>6. view.items \subseteq t.items /\ t.items \subseteq corpus
  BY <1>5 DEF IInv, FromCorpus
<1>7. /\ left' \in [Builders -> SUBSET Items] /\ due' \in [Builders -> SUBSET Terms]
      /\ left' = left /\ due'[b] = due[b] \ {x} /\ due'[b] \subseteq due[b]
      /\ \A c \in Builders \ {b} : left'[c] = left[c] /\ due'[c] = due[c]
  BY <1>1, <1>2
<1>8. \A i \in read[b] : Mentions[i] \subseteq Terms
  BY <1>2, MemoryBuildAssumption
<1>9. t.emptied = b => /\ read[b] \ left'[b] \subseteq t.items
                       /\ \A j \in read[b] : \A y \in Mentions[j] \ due'[b] : t.terms[y] # {}
  BY <1>1, <1>3, <1>5, <1>7, <1>8 DEF IInv, BuildsProgress, Progress
<1>10. \A y \in Terms : view.terms[y] # {} => t.terms[y] # {}
  BY <1>3, <1>5
<1>11. UNCHANGED <<inputs, pc, read, bounds>>
  BY <1>1
<1> QED
  BY <1>1, <1>4, <1>5, <1>6, <1>7, <1>9, <1>10, <1>11, MarkIInv

\* What is committed last, whether or not it counts as finished.
LEMMA FinishEffect ==
    ASSUME IInv, NEW b \in Builders, Finish(b)
    PROVE  /\ Finished(b, view) \in Tables
           /\ Finished(b, view).items = view.items /\ Finished(b, view).terms = view.terms
           /\ Finished(b, view).emptied = view.emptied
           /\ Whole(Finished(b, view))
<1> DEFINE t == Finished(b, view)
<1>1. view \in Tables /\ read[b] \subseteq Items
  BY DEF IInv, TypeOK
<1>2. /\ t \in Tables /\ t.items = view.items /\ t.terms = view.terms
      /\ t.emptied = view.emptied
      /\ t.finished = IF view.emptied = b THEN read[b] ELSE view.finished
  BY <1>1 DEF Finished, Tables
<1> HIDE DEF t
<1>3. pc[b] = "building" /\ left[b] = {} /\ due[b] = {}
  BY DEF Finish
<1>4. Whole(t)
  BY <1>2, <1>3 DEF IInv, Whole, BuildsProgress, Progress
<1> QED
  BY <1>2, <1>4 DEF t

\* A build that is through leaves what it found, unless it was emptied since.
LEMMA FinishIInv == ASSUME IInv, NEW b \in Builders, Finish(b) PROVE IInv'
<1> DEFINE t == Finished(b, view)
<1>1. /\ pc[b] = "building" /\ writer \in {None, b}
      /\ durable' = t /\ view' = t /\ writer' = None
      /\ pending' = [pending EXCEPT ![b] = 0]
      /\ pc' = [pc EXCEPT ![b] = IF b = Daemon THEN "built" ELSE "idle"]
      /\ UNCHANGED <<corpus, remembered, seen, read, left, due, requests, failures>>
  BY DEF Finish, inputs, bounds
<1>2. /\ t \in Tables /\ t.items = view.items /\ t.terms = view.terms
      /\ t.emptied = view.emptied /\ Whole(t)
  BY FinishEffect
<1> HIDE DEF t
<1>3. pc \in [Builders -> {"idle", "waiting", "emptied", "building", "built"}]
  BY DEF IInv, TypeOK
<1>4. \A c \in Builders : pc'[c] = pc[c] \/ (c = b /\ pc'[c] \in {"built", "idle"})
  BY <1>1, <1>3
<1>5. TypeOK'
  BY <1>1, <1>2, <1>3 DEF IInv, TypeOK
<1>6. \A c \in Builders : pc[c] # "emptied"
  BY <1>1, MemoryBuildAssumption DEF IInv, WriterIsBuilding
<1>7. WriterIsBuilding'
  BY <1>1, <1>4, <1>6 DEF WriterIsBuilding
<1>8. FromCorpus'
  BY <1>1, <1>2 DEF IInv, FromCorpus
<1>9. Whole(view)' /\ Whole(durable)'
  BY <1>1, <1>2 DEF Whole
<1>10. BuildsProgress'
  BY <1>1, <1>2, <1>4 DEF IInv, BuildsProgress, Progress
<1>11. TakesNothing'
  BY <1>1 DEF TakesNothing
<1> QED
  BY <1>5, <1>7, <1>8, <1>9, <1>10, <1>11 DEF IInv

\* The fingerprint is nobody's row.
LEMMA RememberIInv == ASSUME IInv, Remember PROVE IInv'
<1>1. /\ pc[Daemon] = "built" /\ remembered' = seen /\ pc' = [pc EXCEPT ![Daemon] = "idle"]
      /\ UNCHANGED <<corpus, seen, durable, view, writer, read, left, due, pending,
                     requests, failures>>
  BY DEF Remember, tables, bounds
<1>2. /\ pc \in [Builders -> {"idle", "waiting", "emptied", "building", "built"}]
      /\ Daemon \in Builders
  BY DEF IInv, TypeOK, Builders
<1>3. \A c \in Builders : pc'[c] = IF c = Daemon THEN "idle" ELSE pc[c]
  BY <1>1, <1>2
<1>4. writer # Daemon /\ (writer = None \/ writer \in Builders)
  BY <1>1, <1>2, MemoryBuildAssumption DEF IInv, TypeOK, WriterIsBuilding
<1>5. TypeOK'
  BY <1>1, <1>2 DEF IInv, TypeOK
<1>6. WriterIsBuilding'
  BY <1>1, <1>3, <1>4 DEF IInv, WriterIsBuilding
<1>7. FromCorpus' /\ Whole(view)' /\ Whole(durable)'
  BY <1>1 DEF IInv, FromCorpus, Whole
<1>8. BuildsProgress' /\ TakesNothing'
  BY <1>1, <1>3, <1>4 DEF IInv, BuildsProgress, Progress, TakesNothing
<1> QED
  BY <1>5, <1>6, <1>7, <1>8 DEF IInv

\* A failure rolls back to rows that promise what they promised.
LEMMA FailIInv == ASSUME IInv, NEW b \in Builders, Fail(b) PROVE IInv'
<1>1. /\ pc[b] # "idle" /\ failures' = failures + 1 /\ pc' = [pc EXCEPT ![b] = "idle"]
      /\ pending' = [pending EXCEPT ![b] = 0]
      /\ \/ writer = b /\ view' = durable /\ writer' = None
         \/ writer # b /\ view' = view /\ writer' = writer
      /\ UNCHANGED <<corpus, remembered, seen, durable, read, left, due, requests>>
  BY DEF Fail, inputs
<1>2. /\ pc \in [Builders -> {"idle", "waiting", "emptied", "building", "built"}]
      /\ pending \in [Builders -> Nat] /\ writer \in Builders \cup {None}
  BY DEF IInv, TypeOK
<1>3. \A c \in Builders : pc'[c] = IF c = b THEN "idle" ELSE pc[c]
  BY <1>1, <1>2
<1>4. TypeOK'
  BY <1>1, <1>2 DEF IInv, TypeOK
<1>5. WriterIsBuilding'
  BY <1>1, <1>2, <1>3 DEF IInv, WriterIsBuilding
<1>6. FromCorpus' /\ Whole(view)' /\ Whole(durable)'
  BY <1>1 DEF IInv, FromCorpus, Whole
<1>7. BuildsProgress'
  BY <1>1, <1>3 DEF IInv, BuildsProgress, Progress
<1>8. TakesNothing'
  BY <1>1, <1>2, <1>3 DEF IInv, TakesNothing
<1> QED
  BY <1>4, <1>5, <1>6, <1>7, <1>8 DEF IInv

-----------------------------------------------------------------------------
\* Every step keeps the invariant.
LEMMA StepIInv == IInv /\ [Next]_vars => IInv'
<1> SUFFICES ASSUME IInv, [Next]_vars PROVE IInv'
  OBVIOUS
<1>1. CASE \E i \in Items : Supply(i)
  BY <1>1, SupplyIInv
<1>2. CASE Tick \/ \E b \in Requests : Request(b)
  BY <1>2, WaitIInv
<1>3. CASE \E b \in Builders : Reset(b) \/ Read(b) \/ Finish(b)
  BY <1>3, ResetIInv, ReadIInv, FinishIInv
<1>4. CASE \E b \in Builders : \E i \in Items : ImportItem(b, i)
  BY <1>4, ImportIInv
<1>5. CASE \E b \in Builders : \E t \in Terms : WriteTerm(b, t)
  BY <1>5, WriteTermIInv
<1>6. CASE Remember
  BY <1>6, RememberIInv
<1>7. CASE \E b \in Builders : Fail(b)
  BY <1>7, FailIInv
<1>8. CASE UNCHANGED vars
  BY <1>8 DEF vars, inputs, tables, local, bounds, IInv, TypeOK, WriterIsBuilding,
     FromCorpus, BuildsProgress, Progress, Whole, TakesNothing
<1> QED
  BY <1>1, <1>2, <1>3, <1>4, <1>5, <1>6, <1>7, <1>8 DEF Next, BuildStep

\* The inductive invariant of the memory index, its types included.
THEOREM MemoryBuildInvariant == Spec => []IInv
BY InitIInv, StepIInv, PTL DEF Spec

\* What a finished build found stays in the index until a later build empties it.
THEOREM FinishedStays == Spec => []FinishedIsThere
<1>1. IInv => FinishedIsThere
  BY DEF IInv, Whole, FinishedIsThere
<1> QED
  BY <1>1, MemoryBuildInvariant, PTL

\* When b has imported all it found, there is a row if there was one before.
LEMMA SomethingImported ==
    ASSUME IInv, NEW b \in Builders, pc[b] = "building", left[b] = {}, writer \in {None, b},
           durable.items # {}
    PROVE  view.items # {}
<1>1. b # None
  BY MemoryBuildAssumption
<1>2. view.emptied = b => read[b] \subseteq view.items
  BY DEF IInv, BuildsProgress, Progress
<1>3. CASE writer = None
  BY <1>3 DEF IInv, WriterIsBuilding
<1>4. CASE writer = b
  BY <1>1, <1>2, <1>4 DEF IInv, TakesNothing
<1> QED
  BY <1>3, <1>4

\* A reader of a non-empty index never finds it empty, although every build empties it.
THEOREM NeverEmptied == Spec => StaysCompleted
<1> DEFINE A == durable.items # {} => durable'.items # {}
<1>1. IInv /\ [Next]_vars => [A]_vars
  <2> SUFFICES ASSUME IInv, Next, durable.items # {} PROVE durable'.items # {}
    OBVIOUS
  <2>0. view \in Tables
    BY DEF IInv, TypeOK
  <2>1. ASSUME NEW b \in Builders, NEW i \in Items, ImportItem(b, i)
        PROVE  durable'.items # {}
    <3> DEFINE t == [view EXCEPT !.items = @ \cup {i}, !.events[i] = @ + 1]
    <3>1. durable' = durable \/ durable' = t
      BY <2>1 DEF ImportItem, Mark
    <3>2. t.items = view.items \cup {i}
      BY <2>0 DEF Tables
    <3> HIDE DEF t
    <3> QED
      BY <3>1, <3>2
  <2>2. ASSUME NEW b \in Builders, NEW x \in Terms, WriteTerm(b, x)
        PROVE  durable'.items # {}
    <3> DEFINE t == [view EXCEPT !.terms[x] = {i \in read[b] : x \in Mentions[i]}]
    <3>1. /\ durable' = durable \/ durable' = t
          /\ pc[b] = "building" /\ left[b] = {} /\ writer \in {None, b}
      BY <2>2 DEF WriteTerm, Mark
    <3>2. t.items = view.items
      BY <2>0 DEF Tables
    <3> HIDE DEF t
    <3> QED
      BY <3>1, <3>2, SomethingImported
  <2>3. ASSUME NEW b \in Builders, Finish(b)
        PROVE  durable'.items # {}
    <3>1. /\ durable' = Finished(b, view)
          /\ pc[b] = "building" /\ left[b] = {} /\ writer \in {None, b}
      BY <2>3 DEF Finish
    <3> QED
      BY <2>3, <3>1, FinishEffect, SomethingImported
  <2>4. /\ \A i \in Items : Supply(i) => durable' = durable
        /\ Tick \/ Remember => durable' = durable
        /\ \A b \in Requests : Request(b) => durable' = durable
        /\ \A b \in Builders : Reset(b) \/ Read(b) \/ Fail(b) => durable' = durable
    BY DEF Supply, Tick, Remember, Request, Reset, Read, Fail, tables
  <2> QED
    BY <2>1, <2>2, <2>3, <2>4 DEF Next, BuildStep
<1> QED
  BY <1>1, MemoryBuildInvariant, PTL DEF Spec, StaysCompleted

=============================================================================
