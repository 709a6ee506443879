------------------------- MODULE OntologyForgeProofs -------------------------
(***************************************************************************)
(* Proofs about the ontology forge: for any labels and UUIDs, any number   *)
(* of runs on any stores, and any failures.                                *)
(***************************************************************************)
EXTENDS OntologyForge, TLAPS

\* Whoever resolves holds the write lock of its store, and nobody else does.
WriterResolves ==
    /\ \A s \in Stores : writer[s] = None => view[s] = durable[s]
    /\ \A s \in Stores : writer[s] # None => /\ pc[writer[s]] = "resolving"
                                             /\ StoreOf[writer[s]] = s
    /\ \A p \in Runs : pc[p] = "resolving" => writer[StoreOf[p]] = p

\* Rows t: a concept counts at least one use, and no more than it has.
RowsCounted(t) ==
    \A c \in Ids : /\ t.count[c] <= t.uses[c]
                   /\ t.label[c] = None => t.uses[c] = 0
                   /\ t.label[c] # None => t.count[c] > 0

\* An open transaction only adds concepts and uses.
ViewAdds ==
    \A s \in Stores, c \in Ids :
        /\ durable[s].label[c] # None => view[s].label[c] = durable[s].label[c]
        /\ durable[s].uses[c] <= view[s].uses[c]

\* A cache holds no use that the store does not.
CacheIsOld ==
    \A p \in Runs, c \in Ids :
        /\ pc[p] = "cached" => cache[p][c] <= durable[StoreOf[p]].uses[c]
        /\ pc[p] = "resolving" => cache[p][c] <= view[StoreOf[p]].uses[c]

\* What was resolved is in the store, and is committed when the files are written.
ResultNamed ==
    \A p \in Runs, l \in Labels : result[p][l] # None =>
        /\ pc[p] # "cached"
        /\ pc[p] = "resolving" => view[StoreOf[p]].label[result[p][l]] = l
        /\ pc[p] \in {"resolved", "half written"} =>
               durable[StoreOf[p]].label[result[p][l]] = l

\* The cache of a run that is alone on its store is the store.
AloneCache ==
    \A p \in Runs : Alone(StoreOf[p]) /\ pc[p] \in {"cached", "resolving"} =>
        cache[p] = view[StoreOf[p]].count

\* Rows t: one concept for a label, whose count is that of its uses.
Unique(t) ==
    /\ t.count = t.uses
    /\ \A c, d \in Ids : t.label[c] = t.label[d] /\ t.label[c] # None => c = d

AloneUnique ==
    \A s \in Stores : Alone(s) => Unique(view[s]) /\ Unique(durable[s])

IInv ==
    /\ TypeOK
    /\ WriterResolves
    /\ \A s \in Stores : RowsCounted(view[s]) /\ RowsCounted(durable[s])
    /\ ViewAdds
    /\ CacheIsOld
    /\ ResultNamed
    /\ AloneCache
    /\ AloneUnique
    /\ FilesNameConcepts

-----------------------------------------------------------------------------
\* What Merge does to the rows and to the cache.
LEMMA MergeEffect ==
    ASSUME TypeOK, NEW p \in Runs, NEW l \in Labels, NEW c \in Ids, Merge(p, l, c)
    PROVE  LET s == StoreOf[p] IN
           /\ view' \in [Stores -> Concepts]
           /\ \A t \in Stores : t # s => view'[t] = view[t]
           /\ view'[s].label = view[s].label
           /\ cache' \in [Runs -> [Ids -> Nat]]
           /\ \A q \in Runs : q # p => cache'[q] = cache[q]
           /\ \A a \in Ids : a # c => /\ view'[s].count[a] = view[s].count[a]
                                    /\ view'[s].uses[a] = view[s].uses[a]
                                    /\ cache'[p][a] = cache[p][a]
           /\ view'[s].count[c] = cache[p][c] + 1
           /\ view'[s].uses[c] = view[s].uses[c] + 1
           /\ cache'[p][c] = cache[p][c] + 1
<1> DEFINE s == StoreOf[p]
           n == [view[s].count EXCEPT ![c] = cache[p][c] + 1]
           u == [view[s].uses EXCEPT ![c] = @ + 1]
           k == [cache[p] EXCEPT ![c] = @ + 1]
<1>1. s \in Stores
  BY OntologyForgeAssumption
<1>2. /\ view \in [Stores -> Concepts] /\ cache \in [Runs -> [Ids -> Nat]]
      /\ view[s].count \in [Ids -> Nat] /\ view[s].uses \in [Ids -> Nat]
      /\ view[s].label \in [Ids -> Labels \cup {None}]
  BY <1>1 DEF TypeOK, Concepts
<1>3. n \in [Ids -> Nat] /\ u \in [Ids -> Nat] /\ k \in [Ids -> Nat]
  BY <1>2
<1>4. view' = [view EXCEPT ![s] = [view[s] EXCEPT !.count = n, !.uses = u]]
  BY <1>1, <1>2 DEF Merge, Concepts
<1>5. cache' = [cache EXCEPT ![p] = k]
  BY <1>2 DEF Merge
<1> HIDE DEF s, n, u, k
<1>6. /\ [view[s] EXCEPT !.count = n, !.uses = u] \in Concepts
      /\ [view[s] EXCEPT !.count = n, !.uses = u].label = view[s].label
      /\ [view[s] EXCEPT !.count = n, !.uses = u].count = n
      /\ [view[s] EXCEPT !.count = n, !.uses = u].uses = u
  BY <1>1, <1>2, <1>3 DEF Concepts
<1>7. /\ view' \in [Stores -> Concepts]
      /\ \A t \in Stores : t # s => view'[t] = view[t]
      /\ view'[s].label = view[s].label /\ view'[s].count = n /\ view'[s].uses = u
  BY <1>1, <1>2, <1>4, <1>6
<1>8. /\ cache' \in [Runs -> [Ids -> Nat]]
      /\ \A q \in Runs : q # p => cache'[q] = cache[q]
      /\ cache'[p] = k
  BY <1>2, <1>3, <1>5
<1>9. /\ \A a \in Ids : a # c => /\ n[a] = view[s].count[a] /\ u[a] = view[s].uses[a]
                               /\ k[a] = cache[p][a]
      /\ n[c] = cache[p][c] + 1 /\ u[c] = view[s].uses[c] + 1 /\ k[c] = cache[p][c] + 1
  BY <1>2 DEF n, u, k
<1> QED
  BY <1>7, <1>8, <1>9 DEF s

\* What Create does to them.
LEMMA CreateEffect ==
    ASSUME TypeOK, NEW p \in Runs, NEW l \in Labels, NEW c \in Ids, Create(p, l, c)
    PROVE  LET s == StoreOf[p] IN
           /\ view' \in [Stores -> Concepts]
           /\ \A t \in Stores : t # s => view'[t] = view[t]
           /\ cache' \in [Runs -> [Ids -> Nat]]
           /\ \A q \in Runs : q # p => cache'[q] = cache[q]
           /\ \A a \in Ids : a # c => /\ view'[s].count[a] = view[s].count[a]
                                    /\ view'[s].uses[a] = view[s].uses[a]
                                    /\ view'[s].label[a] = view[s].label[a]
                                    /\ cache'[p][a] = cache[p][a]
           /\ view'[s].count[c] = 1 /\ view'[s].uses[c] = 1
           /\ view'[s].label[c] = l /\ cache'[p][c] = 1
<1> DEFINE s == StoreOf[p]
           b == [view[s].label EXCEPT ![c] = l]
           n == [view[s].count EXCEPT ![c] = 1]
           u == [view[s].uses EXCEPT ![c] = 1]
           k == [cache[p] EXCEPT ![c] = 1]
           row == [view[s] EXCEPT !.label = b, !.count = n, !.uses = u]
<1>1. s \in Stores
  BY OntologyForgeAssumption
<1>2. /\ view \in [Stores -> Concepts] /\ cache \in [Runs -> [Ids -> Nat]]
      /\ view[s].count \in [Ids -> Nat] /\ view[s].uses \in [Ids -> Nat]
      /\ view[s].label \in [Ids -> Labels \cup {None}]
  BY <1>1 DEF TypeOK, Concepts
<1>3. /\ b \in [Ids -> Labels \cup {None}] /\ n \in [Ids -> Nat] /\ u \in [Ids -> Nat]
      /\ k \in [Ids -> Nat]
  BY <1>2
<1>4. view' = [view EXCEPT ![s] = row]
  BY <1>1, <1>2 DEF Create, Concepts
<1>5. cache' = [cache EXCEPT ![p] = k]
  BY <1>2 DEF Create
<1> HIDE DEF s, b, n, u, k
<1>6. row \in Concepts /\ row.label = b /\ row.count = n /\ row.uses = u
  BY <1>1, <1>2, <1>3 DEF Concepts
<1> HIDE DEF row
<1>7. /\ view' \in [Stores -> Concepts]
      /\ \A t \in Stores : t # s => view'[t] = view[t]
      /\ view'[s].label = b /\ view'[s].count = n /\ view'[s].uses = u
  BY <1>1, <1>2, <1>4, <1>6
<1>8. /\ cache' \in [Runs -> [Ids -> Nat]]
      /\ \A q \in Runs : q # p => cache'[q] = cache[q]
      /\ cache'[p] = k
  BY <1>2, <1>3, <1>5
<1>9. /\ \A a \in Ids : a # c => /\ n[a] = view[s].count[a] /\ u[a] = view[s].uses[a]
                               /\ b[a] = view[s].label[a] /\ k[a] = cache[p][a]
      /\ n[c] = 1 /\ u[c] = 1 /\ b[c] = l /\ k[c] = 1
  BY <1>2 DEF b, n, u, k
<1> QED
  BY <1>7, <1>8, <1>9 DEF s

-----------------------------------------------------------------------------
\* It holds when nothing has run.
LEMMA InitIInv == Init => IInv
<1> SUFFICES ASSUME Init PROVE IInv
  OBVIOUS
<1>1. NoConcepts \in Concepts
  BY DEF NoConcepts, Uncached, Concepts
<1>2. TypeOK
  BY <1>1 DEF Init, TypeOK, Uncached, NoNames, Naming
<1>3. WriterResolves /\ CacheIsOld /\ AloneCache /\ ResultNamed
  BY OntologyForgeAssumption
     DEF Init, WriterResolves, CacheIsOld, AloneCache, ResultNamed, NoNames
<1>4. \A s \in Stores : /\ RowsCounted(view[s]) /\ RowsCounted(durable[s])
                        /\ Unique(view[s]) /\ Unique(durable[s])
  BY DEF Init, NoConcepts, Uncached, RowsCounted, Unique
<1>5. ViewAdds
  BY DEF Init, NoConcepts, Uncached, ViewAdds
<1>6. FilesNameConcepts
  BY DEF Init, FilesNameConcepts, Named, NoNames
<1> QED
  BY <1>2, <1>3, <1>4, <1>5, <1>6 DEF IInv, AloneUnique

\* The writers are runs that are resolving.
LEMMA WritersAreRuns ==
    ASSUME IInv
    PROVE  \A s \in Stores : writer[s] # None =>
               writer[s] \in Runs /\ pc[writer[s]] = "resolving" /\ StoreOf[writer[s]] = s
<1>1. \A s \in Stores : writer[s] # None => writer[s] \in Runs
  BY DEF IInv, TypeOK
<1> QED
  BY <1>1 DEF IInv, WriterResolves

\* Results are named still, when the rows keep their labels and the results of a
\* run that is beyond its start stay, or are gone.
LEMMA NamedStill ==
    ASSUME ResultNamed, UNCHANGED <<durable, view>>,
           \A q \in Runs : \/ pc'[q] = pc[q] /\ result'[q] = result[q]
                           \/ \A l \in Labels : result'[q][l] = None
    PROVE  ResultNamed'
<1> SUFFICES ASSUME NEW q \in Runs, NEW l \in Labels, result'[q][l] # None
             PROVE  /\ pc'[q] # "cached"
                    /\ pc'[q] = "resolving" => view[StoreOf[q]].label[result'[q][l]] = l
                    /\ pc'[q] \in {"resolved", "half written"} =>
                           durable[StoreOf[q]].label[result'[q][l]] = l
  BY DEF ResultNamed
<1>1. pc'[q] = pc[q] /\ result'[q] = result[q]
  OBVIOUS
<1> QED
  BY <1>1 DEF ResultNamed

\* A run that begins caches what is committed.
LEMMA BeginIInv ==
    ASSUME IInv, NEW p \in Runs, NEW labels \in SUBSET Labels, Begin(p, labels)
    PROVE  IInv'
<1> DEFINE s == StoreOf[p]
<1>1. /\ pc[p] = "idle" /\ pc' = [pc EXCEPT ![p] = "cached"]
      /\ cache' = [cache EXCEPT ![p] = durable[s].count]
      /\ result' = [result EXCEPT ![p] = NoNames]
      /\ UNCHANGED <<durable, view, writer, files>>
  BY DEF Begin, tables
<1>2. s \in Stores /\ durable[s] \in Concepts /\ durable[s].count \in [Ids -> Nat]
  BY OntologyForgeAssumption DEF IInv, TypeOK, Concepts
<1>3. TypeOK'
  <2>1. NoNames \in Naming
    BY DEF NoNames, Naming
  <2>2. found' \in [Runs -> SUBSET Labels] /\ runs' \in Nat /\ failures' = failures
    <3>1. found' = [found EXCEPT ![p] = labels] /\ runs' = runs + 1 /\ failures' = failures
      BY DEF Begin
    <3>2. found \in [Runs -> SUBSET Labels] /\ runs \in Nat
      BY DEF IInv, TypeOK
    <3> QED
      BY <3>1, <3>2
  <2>3. cache' \in [Runs -> [Ids -> Nat]] /\ result' \in [Runs -> Naming]
    BY <1>1, <1>2, <2>1 DEF IInv, TypeOK
  <2> QED
    BY <1>1, <2>2, <2>3 DEF IInv, TypeOK
<1>4. /\ \A q \in Runs : q # p => pc'[q] = pc[q] /\ cache'[q] = cache[q] /\ result'[q] = result[q]
      /\ pc'[p] = "cached" /\ cache'[p] = durable[s].count /\ result'[p] = NoNames
  BY <1>1 DEF IInv, TypeOK
<1>5. WriterResolves'
  <2>1. \A t \in Stores : writer[t] # None => writer[t] # p
    BY <1>1, WritersAreRuns
  <2> QED
    BY <1>1, <1>4, <2>1, WritersAreRuns DEF IInv, WriterResolves
<1>6. CacheIsOld'
  <2> SUFFICES ASSUME NEW q \in Runs, NEW c \in Ids
               PROVE  /\ pc'[q] = "cached" => cache'[q][c] <= durable[StoreOf[q]].uses[c]
                      /\ pc'[q] = "resolving" => cache'[q][c] <= view[StoreOf[q]].uses[c]
    BY <1>1 DEF CacheIsOld
  <2>1. durable[s].count[c] <= durable[s].uses[c]
    BY <1>2 DEF IInv, RowsCounted
  <2> QED
    BY <1>4, <2>1 DEF IInv, CacheIsOld
<1>7. ResultNamed'
  <2>1. \A l \in Labels : result'[p][l] = None
    BY <1>4 DEF NoNames
  <2> QED
    BY <1>1, <1>4, <2>1, NamedStill DEF IInv
<1>8. AloneCache'
  <2>1. Alone(s) => writer[s] = None
    <3>1. \A q \in Runs : Alone(s) /\ StoreOf[q] = s => q = p
      BY DEF Alone
    <3> QED
      BY <1>1, <1>2, <3>1, WritersAreRuns
  <2>2. Alone(s) => view[s] = durable[s]
    BY <1>2, <2>1 DEF IInv, WriterResolves
  <2> QED
    BY <1>1, <1>4, <2>2 DEF IInv, AloneCache
<1> QED
  BY <1>1, <1>3, <1>5, <1>6, <1>7, <1>8
     DEF IInv, ViewAdds, AloneUnique, FilesNameConcepts, Named

\* A run that takes the write lock sees what is committed.
LEMMA LockIInv ==
    ASSUME IInv, NEW p \in Runs, Lock(p)
    PROVE  IInv'
<1> DEFINE s == StoreOf[p]
<1>1. /\ pc[p] = "cached" /\ pc' = [pc EXCEPT ![p] = "resolving"]
      /\ writer[s] = None /\ writer' = [writer EXCEPT ![s] = p]
      /\ UNCHANGED <<durable, view, cache, found, result, files, runs, failures>>
  BY DEF Lock
<1>2. s \in Stores /\ view[s] = durable[s]
  BY <1>1, OntologyForgeAssumption DEF IInv, WriterResolves
<1>3. TypeOK'
  BY <1>1 DEF IInv, TypeOK
<1>4. /\ \A q \in Runs : q # p => pc'[q] = pc[q]
      /\ pc'[p] = "resolving"
      /\ \A t \in Stores : t # s => writer'[t] = writer[t]
      /\ writer'[s] = p
  BY <1>1, <1>2 DEF IInv, TypeOK
<1>5. WriterResolves'
  <2>1. \A t \in Stores : writer'[t] = None => view[t] = durable[t]
    BY <1>2, <1>4 DEF IInv, WriterResolves
  <2>2. \A t \in Stores : writer'[t] # None => pc'[writer'[t]] = "resolving" /\ StoreOf[writer'[t]] = t
    BY <1>1, <1>4, WritersAreRuns
  <2>3. \A q \in Runs : pc'[q] = "resolving" => writer'[StoreOf[q]] = q
    BY <1>1, <1>4, OntologyForgeAssumption DEF IInv, WriterResolves
  <2> QED
    BY <1>1, <2>1, <2>2, <2>3 DEF WriterResolves
<1>6. CacheIsOld'
  BY <1>1, <1>2, <1>4 DEF IInv, CacheIsOld
<1>7. ResultNamed'
  BY <1>1, <1>4 DEF IInv, ResultNamed
<1>8. AloneCache'
  BY <1>1, <1>4 DEF IInv, AloneCache
<1> QED
  BY <1>1, <1>3, <1>5, <1>6, <1>7, <1>8
     DEF IInv, ViewAdds, AloneUnique, FilesNameConcepts, Named

\* Nobody else resolves on the store of a run that resolves.
LEMMA AloneResolving ==
    ASSUME IInv, NEW p \in Runs, pc[p] = "resolving"
    PROVE  /\ StoreOf[p] \in Stores /\ writer[StoreOf[p]] = p
           /\ \A q \in Runs : q # p /\ pc[q] = "resolving" => StoreOf[q] # StoreOf[p]
BY OntologyForgeAssumption DEF IInv, WriterResolves

\* A label of a concept that the cache knows is resolved to it.
LEMMA MergeIInv ==
    ASSUME IInv, NEW p \in Runs, NEW l \in Labels, NEW c \in Ids, pc[p] = "resolving",
           Merge(p, l, c), found' = [found EXCEPT ![p] = @ \ {l}],
           result' = [result EXCEPT ![p] = [@ EXCEPT ![l] = c]],
           UNCHANGED <<durable, writer, pc, files, runs, failures>>
    PROVE  IInv'
<1> DEFINE s == StoreOf[p]
<1> HIDE DEF s
<1>1. /\ s \in Stores /\ writer[s] = p
      /\ \A q \in Runs : q # p /\ pc[q] = "resolving" => StoreOf[q] # s
      /\ StoreOf[p] = s /\ \A q \in Runs : StoreOf[q] \in Stores
  BY AloneResolving, OntologyForgeAssumption DEF s
<1>2. /\ view' \in [Stores -> Concepts] /\ cache' \in [Runs -> [Ids -> Nat]]
      /\ \A t \in Stores : t # s => view'[t] = view[t]
      /\ \A q \in Runs : q # p => cache'[q] = cache[q]
      /\ view'[s].label = view[s].label
  BY MergeEffect DEF IInv, s
<1>3. view[s].label[c] = l /\ cache[p][c] > 0
  BY <1>1 DEF Merge, Matches
<1>4. /\ view[s].label \in [Ids -> Labels \cup {None}]
      /\ view[s].count \in [Ids -> Nat] /\ view[s].uses \in [Ids -> Nat]
      /\ cache \in [Runs -> [Ids -> Nat]] /\ durable[s] \in Concepts
      /\ durable[s].uses \in [Ids -> Nat]
  <2>1. view[s] \in Concepts /\ durable[s] \in Concepts /\ cache \in [Runs -> [Ids -> Nat]]
    BY <1>1 DEF IInv, TypeOK
  <2> QED
    BY <2>1 DEF Concepts
<1>5. /\ \A a \in Ids : a # c => /\ view'[s].count[a] = view[s].count[a]
                               /\ view'[s].uses[a] = view[s].uses[a]
                               /\ cache'[p][a] = cache[p][a]
      /\ view'[s].count[c] = cache[p][c] + 1
      /\ view'[s].uses[c] = view[s].uses[c] + 1
      /\ cache'[p][c] = cache[p][c] + 1
  BY MergeEffect DEF IInv, s
<1>5a. /\ view'[s].count \in [Ids -> Nat] /\ view'[s].uses \in [Ids -> Nat]
       /\ cache'[p] \in [Ids -> Nat]
  BY <1>1, <1>2 DEF Concepts
<1>6. TypeOK'
  <2>1. /\ found \in [Runs -> SUBSET Labels] /\ result \in [Runs -> [Labels -> Ids \cup {None}]]
    BY DEF IInv, TypeOK, Naming
  <2>2. found' \in [Runs -> SUBSET Labels]
    BY <2>1
  <2>3. result' \in [Runs -> Naming]
    BY <2>1 DEF Naming
  <2> QED
    BY <1>2, <2>2, <2>3 DEF IInv, TypeOK
<1>7. WriterResolves'
  <2>1. \A t \in Stores : writer[t] = None => t # s
    BY <1>1, OntologyForgeAssumption
  <2> QED
    BY <1>1, <1>2, <2>1 DEF IInv, WriterResolves
<1>8. cache[p][c] <= view[s].uses[c]
  BY <1>1 DEF IInv, CacheIsOld
<1>9. RowsCounted(view'[s])
  <2>1. RowsCounted(view[s])
    BY <1>1 DEF IInv
  <2>2. cache[p][c] \in Nat /\ view[s].uses[c] \in Nat /\ l # None
    BY <1>4, OntologyForgeAssumption
  <2> QED
    BY <1>2, <1>3, <1>4, <1>5, <1>8, <2>1, <2>2 DEF RowsCounted
<1>10. ViewAdds'
  <2> SUFFICES ASSUME NEW t \in Stores, NEW a \in Ids
               PROVE  /\ durable[t].label[a] # None => view'[t].label[a] = durable[t].label[a]
                      /\ durable[t].uses[a] <= view'[t].uses[a]
    BY DEF ViewAdds
  <2>1. /\ durable[t].label[a] # None => view[t].label[a] = durable[t].label[a]
        /\ durable[t].uses[a] <= view[t].uses[a]
    BY DEF IInv, ViewAdds
  <2>2. durable[s].uses[a] \in Nat /\ view[s].uses[a] \in Nat
    BY <1>4
  <2>3. CASE t # s
    BY <1>2, <2>1, <2>3
  <2>4. CASE t = s
    <3>1. durable[t].uses[a] \in Nat /\ view[t].uses[a] \in Nat
      BY <2>2, <2>4
    <3>2. view'[t].uses[a] = view[t].uses[a] \/ view'[t].uses[a] = view[t].uses[a] + 1
      BY <1>5, <2>4
    <3>3. view'[t].label = view[t].label
      BY <1>2, <2>4
    <3> QED
      BY <2>1, <3>1, <3>2, <3>3
  <2> QED
    BY <2>3, <2>4
<1>11. CacheIsOld'
  <2> SUFFICES ASSUME NEW q \in Runs, NEW a \in Ids
               PROVE  /\ pc[q] = "cached" => cache'[q][a] <= durable[StoreOf[q]].uses[a]
                      /\ pc[q] = "resolving" => cache'[q][a] <= view'[StoreOf[q]].uses[a]
    BY DEF CacheIsOld
  <2>1. /\ pc[q] = "cached" => cache[q][a] <= durable[StoreOf[q]].uses[a]
        /\ pc[q] = "resolving" => cache[q][a] <= view[StoreOf[q]].uses[a]
    BY DEF IInv, CacheIsOld
  <2>2. CASE q # p
    BY <1>1, <1>2, <2>1, <2>2
  <2>3. CASE q = p
    <3>1. cache[p][a] \in Nat /\ view[s].uses[a] \in Nat
      BY <1>4
    <3> QED
      BY <1>1, <1>5, <2>1, <2>3, <3>1
  <2> QED
    BY <2>2, <2>3
<1>12. ResultNamed'
  <2>1. \A q \in Runs, k \in Labels : result'[q][k] # None =>
            (q = p /\ k = l /\ result'[q][k] = c) \/ result'[q][k] = result[q][k]
    BY DEF IInv, TypeOK, Naming
  <2>2. \A q \in Runs : view'[StoreOf[q]].label = view[StoreOf[q]].label
    BY <1>1, <1>2
  <2> QED
    <3> SUFFICES ASSUME NEW q \in Runs, NEW k \in Labels, result'[q][k] # None
                 PROVE  /\ pc[q] # "cached"
                        /\ pc[q] = "resolving" => view'[StoreOf[q]].label[result'[q][k]] = k
                        /\ pc[q] \in {"resolved", "half written"} =>
                               durable[StoreOf[q]].label[result'[q][k]] = k
      BY DEF ResultNamed
    <3>1. CASE q = p /\ k = l /\ result'[q][k] = c
      BY <1>1, <1>2, <1>3, <3>1
    <3>2. CASE result'[q][k] = result[q][k]
      BY <2>2, <3>2 DEF IInv, ResultNamed
    <3> QED
      BY <2>1, <3>1, <3>2
<1>13. AloneCache'
  <2> SUFFICES ASSUME NEW q \in Runs, Alone(StoreOf[q]), pc[q] \in {"cached", "resolving"}
               PROVE  cache'[q] = view'[StoreOf[q]].count
    BY DEF AloneCache
  <2>1. cache[q] = view[StoreOf[q]].count
    BY DEF IInv, AloneCache
  <2>2. CASE q # p
    <3>1. StoreOf[q] # s
      BY <1>1, <2>2 DEF Alone
    <3> QED
      BY <1>1, <1>2, <2>1, <2>2, <3>1
  <2>3. CASE q = p
    <3>1. \A a \in Ids : cache'[p][a] = view'[s].count[a]
      BY <1>1, <1>5, <2>1, <2>3
    <3> QED
      BY <1>1, <1>5a, <2>3, <3>1
  <2> QED
    BY <2>2, <2>3
<1>14. AloneUnique'
  <2> SUFFICES ASSUME Alone(s) PROVE Unique(view'[s])
    BY <1>1, <1>2 DEF IInv, AloneUnique
  <2>1. cache[p] = view[s].count
    BY <1>1 DEF IInv, AloneCache
  <2>2. Unique(view[s])
    BY <1>1 DEF IInv, AloneUnique
  <2>3. \A a \in Ids : view'[s].count[a] = view'[s].uses[a]
    BY <1>5, <2>1, <2>2 DEF Unique
  <2> QED
    BY <1>2, <1>5a, <2>2, <2>3 DEF Unique
<1> QED
  BY <1>2, <1>6, <1>7, <1>9, <1>10, <1>11, <1>12, <1>13, <1>14
     DEF IInv, FilesNameConcepts, Named

\* Any other label is resolved to a concept with a UUID of its own.
LEMMA CreateIInv ==
    ASSUME IInv, NEW p \in Runs, NEW l \in Labels, NEW c \in Ids, pc[p] = "resolving",
           Create(p, l, c), found' = [found EXCEPT ![p] = @ \ {l}],
           result' = [result EXCEPT ![p] = [@ EXCEPT ![l] = c]],
           UNCHANGED <<durable, writer, pc, files, runs, failures>>
    PROVE  IInv'
<1> DEFINE s == StoreOf[p]
<1> HIDE DEF s
<1>1. /\ s \in Stores /\ writer[s] = p
      /\ \A q \in Runs : q # p /\ pc[q] = "resolving" => StoreOf[q] # s
      /\ StoreOf[p] = s /\ \A q \in Runs : StoreOf[q] \in Stores
  BY AloneResolving, OntologyForgeAssumption DEF s
<1>2. /\ view' \in [Stores -> Concepts] /\ cache' \in [Runs -> [Ids -> Nat]]
      /\ \A t \in Stores : t # s => view'[t] = view[t]
      /\ \A q \in Runs : q # p => cache'[q] = cache[q]
  BY CreateEffect DEF IInv, s
<1>3. /\ \A t \in Stores : durable[t].label[c] = None /\ view[t].label[c] = None
      /\ \A a \in Ids : view[s].label[a] = l => ~(cache[p][a] > 0)
  <2>1. Fresh(c) /\ Matches(p, l) = {}
    BY DEF Create
  <2>2. \A a \in Ids : ~(view[s].label[a] = l /\ cache[p][a] > 0)
    BY <1>1, <2>1 DEF Matches
  <2> QED
    BY <2>1, <2>2 DEF Fresh
<1>4. /\ view[s].label \in [Ids -> Labels \cup {None}]
      /\ view[s].count \in [Ids -> Nat] /\ view[s].uses \in [Ids -> Nat]
      /\ cache \in [Runs -> [Ids -> Nat]] /\ durable[s] \in Concepts
      /\ durable[s].uses \in [Ids -> Nat]
  <2>1. view[s] \in Concepts /\ durable[s] \in Concepts /\ cache \in [Runs -> [Ids -> Nat]]
    BY <1>1 DEF IInv, TypeOK
  <2> QED
    BY <2>1 DEF Concepts
<1>5. /\ \A a \in Ids : a # c => /\ view'[s].count[a] = view[s].count[a]
                               /\ view'[s].uses[a] = view[s].uses[a]
                               /\ view'[s].label[a] = view[s].label[a]
                               /\ cache'[p][a] = cache[p][a]
      /\ view'[s].count[c] = 1 /\ view'[s].uses[c] = 1
      /\ view'[s].label[c] = l /\ cache'[p][c] = 1
  BY CreateEffect DEF IInv, s
<1>5a. /\ view'[s].count \in [Ids -> Nat] /\ view'[s].uses \in [Ids -> Nat]
       /\ cache'[p] \in [Ids -> Nat]
  BY <1>1, <1>2 DEF Concepts
<1>6. TypeOK'
  <2>1. /\ found \in [Runs -> SUBSET Labels] /\ result \in [Runs -> [Labels -> Ids \cup {None}]]
    BY DEF IInv, TypeOK, Naming
  <2>2. found' \in [Runs -> SUBSET Labels]
    BY <2>1
  <2>3. result' \in [Runs -> Naming]
    BY <2>1 DEF Naming
  <2> QED
    BY <1>2, <2>2, <2>3 DEF IInv, TypeOK
<1>7. WriterResolves'
  <2>1. \A t \in Stores : writer[t] = None => t # s
    BY <1>1, OntologyForgeAssumption
  <2> QED
    BY <1>1, <1>2, <2>1 DEF IInv, WriterResolves
<1>8. l # None
  BY OntologyForgeAssumption
<1>9. RowsCounted(view'[s])
  <2>1. RowsCounted(view[s])
    BY <1>1 DEF IInv
  <2> QED
    BY <1>5, <1>8, <2>1 DEF RowsCounted
<1>10. ViewAdds'
  <2> SUFFICES ASSUME NEW t \in Stores, NEW a \in Ids
               PROVE  /\ durable[t].label[a] # None => view'[t].label[a] = durable[t].label[a]
                      /\ durable[t].uses[a] <= view'[t].uses[a]
    BY DEF ViewAdds
  <2>1. /\ durable[t].label[a] # None => view[t].label[a] = durable[t].label[a]
        /\ durable[t].uses[a] <= view[t].uses[a]
    BY DEF IInv, ViewAdds
  <2>2. durable[s].uses[a] \in Nat /\ view[s].uses[a] \in Nat
    BY <1>4
  <2>3. CASE t # s
    BY <1>2, <2>1, <2>3
  <2>4. CASE t = s
    <3>1. durable[t].uses[a] \in Nat /\ view[t].uses[a] \in Nat
      BY <2>2, <2>4
    <3>2. CASE a # c
      BY <1>5, <2>1, <2>4, <3>2
    <3>3. CASE a = c
      <4>1. durable[s].label[c] = None
        BY <1>1, <1>3
      <4>2. durable[s].uses[c] = 0
        BY <1>1, <4>1 DEF IInv, RowsCounted
      <4> QED
        BY <1>5, <2>4, <3>3, <4>1, <4>2
    <3> QED
      BY <3>2, <3>3
  <2> QED
    BY <2>3, <2>4
<1>11. CacheIsOld'
  <2> SUFFICES ASSUME NEW q \in Runs, NEW a \in Ids
               PROVE  /\ pc[q] = "cached" => cache'[q][a] <= durable[StoreOf[q]].uses[a]
                      /\ pc[q] = "resolving" => cache'[q][a] <= view'[StoreOf[q]].uses[a]
    BY DEF CacheIsOld
  <2>1. /\ pc[q] = "cached" => cache[q][a] <= durable[StoreOf[q]].uses[a]
        /\ pc[q] = "resolving" => cache[q][a] <= view[StoreOf[q]].uses[a]
    BY DEF IInv, CacheIsOld
  <2>2. CASE q # p
    BY <1>1, <1>2, <2>1, <2>2
  <2>3. CASE q = p
    <3>1. cache[p][a] \in Nat /\ view[s].uses[a] \in Nat
      BY <1>4
    <3> QED
      BY <1>1, <1>5, <2>1, <2>3, <3>1
  <2> QED
    BY <2>2, <2>3
<1>12. ResultNamed'
  <2>1. \A q \in Runs, k \in Labels : result'[q][k] # None =>
            (q = p /\ k = l /\ result'[q][k] = c) \/ result'[q][k] = result[q][k]
    BY DEF IInv, TypeOK, Naming
  <2>2. \A t \in Stores, a \in Ids :
            view[t].label[a] # None => view'[t].label[a] = view[t].label[a]
    BY <1>2, <1>3, <1>5
  <2> QED
    <3> SUFFICES ASSUME NEW q \in Runs, NEW k \in Labels, result'[q][k] # None
                 PROVE  /\ pc[q] # "cached"
                        /\ pc[q] = "resolving" => view'[StoreOf[q]].label[result'[q][k]] = k
                        /\ pc[q] \in {"resolved", "half written"} =>
                               durable[StoreOf[q]].label[result'[q][k]] = k
      BY DEF ResultNamed
    <3>1. CASE q = p /\ k = l /\ result'[q][k] = c
      BY <1>1, <1>5, <3>1
    <3>2. CASE result'[q][k] = result[q][k]
      <4>1. result \in [Runs -> [Labels -> Ids \cup {None}]]
        BY DEF IInv, TypeOK, Naming
      <4>2. result[q][k] \in Ids /\ k # None /\ StoreOf[q] \in Stores
        BY <1>1, <3>2, <4>1, OntologyForgeAssumption
      <4>3. /\ pc[q] # "cached"
            /\ pc[q] = "resolving" => view[StoreOf[q]].label[result[q][k]] = k
            /\ pc[q] \in {"resolved", "half written"} =>
                   durable[StoreOf[q]].label[result[q][k]] = k
        BY <3>2 DEF IInv, ResultNamed
      <4> QED
        BY <2>2, <3>2, <4>2, <4>3
    <3> QED
      BY <2>1, <3>1, <3>2
<1>13. AloneCache'
  <2> SUFFICES ASSUME NEW q \in Runs, Alone(StoreOf[q]), pc[q] \in {"cached", "resolving"}
               PROVE  cache'[q] = view'[StoreOf[q]].count
    BY DEF AloneCache
  <2>1. cache[q] = view[StoreOf[q]].count
    BY DEF IInv, AloneCache
  <2>2. CASE q # p
    <3>1. StoreOf[q] # s
      BY <1>1, <2>2 DEF Alone
    <3> QED
      BY <1>1, <1>2, <2>1, <2>2, <3>1
  <2>3. CASE q = p
    <3>1. \A a \in Ids : cache'[p][a] = view'[s].count[a]
      BY <1>1, <1>5, <2>1, <2>3
    <3> QED
      BY <1>1, <1>5a, <2>3, <3>1
  <2> QED
    BY <2>2, <2>3
<1>14. AloneUnique'
  <2> SUFFICES ASSUME Alone(s) PROVE Unique(view'[s])
    BY <1>1, <1>2 DEF IInv, AloneUnique
  <2>1. cache[p] = view[s].count
    BY <1>1 DEF IInv, AloneCache
  <2>2. Unique(view[s])
    BY <1>1 DEF IInv, AloneUnique
  <2>3. \A a \in Ids : view[s].label[a] # l
    BY <1>1, <1>3, <1>8, <2>1 DEF IInv, RowsCounted
  <2>4. view'[s].count = view'[s].uses
    <3>1. \A a \in Ids : view'[s].count[a] = view'[s].uses[a]
      BY <1>5, <2>2 DEF Unique
    <3> QED
      BY <1>5a, <3>1
  <2>5. \A a, b \in Ids :
            view'[s].label[a] = view'[s].label[b] /\ view'[s].label[a] # None => a = b
    BY <1>5, <2>2, <2>3 DEF Unique
  <2> QED
    BY <2>4, <2>5 DEF Unique
<1> QED
  BY <1>2, <1>6, <1>7, <1>9, <1>10, <1>11, <1>12, <1>13, <1>14
     DEF IInv, FilesNameConcepts, Named

\* A label is resolved.
LEMMA ResolveIInv ==
    ASSUME IInv, NEW p \in Runs, NEW l \in Labels, Resolve(p, l)
    PROVE  IInv'
<1>1. PICK c \in Ids : (Merge(p, l, c) \/ Create(p, l, c))
                       /\ result' = [result EXCEPT ![p][l] = c]
  BY DEF Resolve
<1>2. /\ pc[p] = "resolving" /\ found' = [found EXCEPT ![p] = @ \ {l}]
      /\ result' = [result EXCEPT ![p] = [@ EXCEPT ![l] = c]]
      /\ UNCHANGED <<durable, writer, pc, files, runs, failures>>
  BY <1>1 DEF Resolve
<1>3. CASE Merge(p, l, c)
  BY <1>2, <1>3, MergeIInv
<1>4. CASE Create(p, l, c)
  BY <1>2, <1>4, CreateIInv
<1> QED
  BY <1>1, <1>3, <1>4

\* A run that commits hands its rows to everybody.
LEMMA CommitIInv ==
    ASSUME IInv, NEW p \in Runs, Commit(p)
    PROVE  IInv'
<1> DEFINE s == StoreOf[p]
<1> HIDE DEF s
<1>1. /\ pc[p] = "resolving" /\ pc' = [pc EXCEPT ![p] = "resolved"]
      /\ durable' = [durable EXCEPT ![s] = view[s]] /\ writer' = [writer EXCEPT ![s] = None]
      /\ UNCHANGED <<view, cache, found, result, files, runs, failures>>
  BY DEF Commit, s
<1>2. /\ s \in Stores /\ writer[s] = p /\ StoreOf[p] = s
      /\ \A q \in Runs : q # p /\ pc[q] = "resolving" => StoreOf[q] # s
      /\ \A q \in Runs : StoreOf[q] \in Stores
  BY <1>1, AloneResolving, OntologyForgeAssumption DEF s
<1>3. TypeOK'
  BY <1>1, <1>2 DEF IInv, TypeOK
<1>4. /\ pc'[p] = "resolved" /\ \A q \in Runs : q # p => pc'[q] = pc[q]
      /\ durable'[s] = view[s] /\ \A t \in Stores : t # s => durable'[t] = durable[t]
      /\ writer'[s] = None /\ \A t \in Stores : t # s => writer'[t] = writer[t]
  BY <1>1, <1>2 DEF IInv, TypeOK
<1>5. \A t \in Stores, a \in Ids :
          /\ durable[t].label[a] # None => durable'[t].label[a] = durable[t].label[a]
          /\ durable[t].uses[a] <= durable'[t].uses[a]
  <2> SUFFICES ASSUME NEW t \in Stores, NEW a \in Ids
               PROVE  /\ durable[t].label[a] # None => durable'[t].label[a] = durable[t].label[a]
                      /\ durable[t].uses[a] <= durable'[t].uses[a]
    OBVIOUS
  <2>1. durable[t] \in Concepts
    BY DEF IInv, TypeOK
  <2>2. durable[t].uses[a] \in Nat
    BY <2>1 DEF Concepts
  <2>3. /\ durable[t].label[a] # None => view[t].label[a] = durable[t].label[a]
        /\ durable[t].uses[a] <= view[t].uses[a]
    BY DEF IInv, ViewAdds
  <2> QED
    BY <1>4, <2>2, <2>3
<1>6. WriterResolves'
  <2>1. \A t \in Stores : writer'[t] # None => t # s /\ writer[t] # p
    BY <1>2, <1>4, WritersAreRuns
  <2>2. \A t \in Stores : writer'[t] # None =>
            pc'[writer'[t]] = "resolving" /\ StoreOf[writer'[t]] = t
    BY <1>4, <2>1, WritersAreRuns
  <2>3. \A t \in Stores : writer'[t] = None => view[t] = durable'[t]
    BY <1>4 DEF IInv, WriterResolves
  <2>4. \A q \in Runs : pc'[q] = "resolving" => writer'[StoreOf[q]] = q
    BY <1>2, <1>4 DEF IInv, WriterResolves
  <2> QED
    BY <1>1, <2>2, <2>3, <2>4 DEF WriterResolves
<1>7. \A t \in Stores : RowsCounted(view[t]) /\ RowsCounted(durable'[t])
  BY <1>4 DEF IInv
<1>8. ViewAdds'
  <2>1. view[s] \in Concepts
    BY <1>2 DEF IInv, TypeOK
  <2>2. \A a \in Ids : view[s].uses[a] \in Nat
    BY <2>1 DEF Concepts
  <2> QED
    BY <1>1, <1>4, <2>2 DEF IInv, ViewAdds
<1>9. CacheIsOld'
  <2> SUFFICES ASSUME NEW q \in Runs, NEW a \in Ids
               PROVE  /\ pc'[q] = "cached" => cache[q][a] <= durable'[StoreOf[q]].uses[a]
                      /\ pc'[q] = "resolving" => cache[q][a] <= view[StoreOf[q]].uses[a]
    BY <1>1 DEF CacheIsOld
  <2>1. /\ pc[q] = "cached" => cache[q][a] <= durable[StoreOf[q]].uses[a]
        /\ pc[q] = "resolving" => cache[q][a] <= view[StoreOf[q]].uses[a]
    BY DEF IInv, CacheIsOld
  <2>2. /\ durable[StoreOf[q]] \in Concepts /\ durable'[StoreOf[q]] \in Concepts
        /\ cache[q][a] \in Nat
    <3>1. durable \in [Stores -> Concepts] /\ cache \in [Runs -> [Ids -> Nat]]
      BY DEF IInv, TypeOK
    <3>2. durable' \in [Stores -> Concepts]
      BY <1>3 DEF TypeOK
    <3> QED
      BY <1>2, <3>1, <3>2
  <2>3. durable[StoreOf[q]].uses[a] \in Nat /\ durable'[StoreOf[q]].uses[a] \in Nat
    BY <2>2 DEF Concepts
  <2> QED
    BY <1>2, <1>4, <1>5, <2>1, <2>2, <2>3
<1>10. ResultNamed'
  <2> SUFFICES ASSUME NEW q \in Runs, NEW k \in Labels, result[q][k] # None
               PROVE  /\ pc'[q] # "cached"
                      /\ pc'[q] = "resolving" => view[StoreOf[q]].label[result[q][k]] = k
                      /\ pc'[q] \in {"resolved", "half written"} =>
                             durable'[StoreOf[q]].label[result[q][k]] = k
    BY <1>1 DEF ResultNamed
  <2>1. result \in [Runs -> [Labels -> Ids \cup {None}]]
    BY DEF IInv, TypeOK, Naming
  <2>2. result[q][k] \in Ids /\ k # None
    BY <2>1, OntologyForgeAssumption
  <2>3. /\ pc[q] # "cached"
        /\ pc[q] = "resolving" => view[StoreOf[q]].label[result[q][k]] = k
        /\ pc[q] \in {"resolved", "half written"} =>
               durable[StoreOf[q]].label[result[q][k]] = k
    BY DEF IInv, ResultNamed
  <2>4. CASE q = p
    BY <1>1, <1>2, <1>4, <2>3, <2>4
  <2>5. CASE q # p
    BY <1>2, <1>4, <1>5, <2>2, <2>3, <2>5
  <2> QED
    BY <2>4, <2>5
<1>11. AloneCache'
  BY <1>1, <1>4 DEF IInv, AloneCache
<1>12. AloneUnique'
  BY <1>1, <1>4 DEF IInv, AloneUnique
<1>13. FilesNameConcepts'
  <2>1. \A names \in Naming : Named(names) => Named(names)'
    <3> SUFFICES ASSUME NEW names \in Naming, Named(names), NEW k \in Labels, names[k] # None
                 PROVE  \E t \in Stores : durable'[t].label[names[k]] = k
      BY DEF Named
    <3>1. names[k] \in Ids /\ k # None
      BY OntologyForgeAssumption DEF Naming
    <3> QED
      BY <1>5, <3>1 DEF Named
  <2> QED
    BY <1>1, <2>1 DEF IInv, TypeOK, FilesNameConcepts
<1> QED
  BY <1>1, <1>3, <1>6, <1>7, <1>8, <1>9, <1>10, <1>11, <1>12, <1>13 DEF IInv

\* A run that writes a file leaves the rows alone.
LEMMA WriteIInv ==
    ASSUME IInv, NEW p \in Runs, WriteNodes(p) \/ WriteEdges(p)
    PROVE  IInv'
<1>1. /\ pc[p] \in {"resolved", "half written"}
      /\ \/ /\ pc' = [pc EXCEPT ![p] = "half written"]
            /\ files' = [files EXCEPT !.nodes = result[p]]
         \/ /\ pc' = [pc EXCEPT ![p] = "idle"]
            /\ files' = [files EXCEPT !.edges = result[p]]
      /\ UNCHANGED <<durable, view, writer, cache, found, result, runs, failures>>
  BY DEF WriteNodes, WriteEdges, tables
<1>2. result[p] \in Naming /\ files \in [nodes : Naming, edges : Naming]
  BY DEF IInv, TypeOK
<1>3. TypeOK'
  BY <1>1, <1>2 DEF IInv, TypeOK
<1>4. /\ pc'[p] \in {"half written", "idle"}
      /\ \A q \in Runs : q # p => pc'[q] = pc[q]
  BY <1>1 DEF IInv, TypeOK
<1>5. WriterResolves'
  <2>1. \A t \in Stores : writer[t] # None => writer[t] # p
    BY <1>1, WritersAreRuns
  <2>2. \A t \in Stores : writer[t] # None =>
            pc'[writer[t]] = "resolving" /\ StoreOf[writer[t]] = t
    BY <1>4, <2>1, WritersAreRuns
  <2>3. \A q \in Runs : pc'[q] = "resolving" => writer[StoreOf[q]] = q
    BY <1>4 DEF IInv, WriterResolves
  <2> QED
    BY <1>1, <2>2, <2>3 DEF IInv, WriterResolves
<1>6. CacheIsOld' /\ AloneCache'
  BY <1>1, <1>4 DEF IInv, CacheIsOld, AloneCache
<1>7. ResultNamed'
  <2> SUFFICES ASSUME NEW q \in Runs, NEW k \in Labels, result[q][k] # None
               PROVE  /\ pc'[q] # "cached"
                      /\ pc'[q] = "resolving" => view[StoreOf[q]].label[result[q][k]] = k
                      /\ pc'[q] \in {"resolved", "half written"} =>
                             durable[StoreOf[q]].label[result[q][k]] = k
    BY <1>1 DEF ResultNamed
  <2> QED
    BY <1>1, <1>4 DEF IInv, ResultNamed
<1>8. Named(result[p])
  BY <1>1, OntologyForgeAssumption DEF IInv, ResultNamed, Named
<1>9. FilesNameConcepts'
  <2>1. files'.nodes \in {files.nodes, result[p]} /\ files'.edges \in {files.edges, result[p]}
    BY <1>1, <1>2
  <2>2. \A names : Named(names)' <=> Named(names)
    BY <1>1 DEF Named
  <2> QED
    BY <1>8, <2>1, <2>2 DEF IInv, FilesNameConcepts
<1> QED
  BY <1>1, <1>3, <1>5, <1>6, <1>7, <1>9 DEF IInv, ViewAdds, AloneUnique

\* A run that fails takes its transaction back.
LEMMA FailIInv ==
    ASSUME IInv, NEW p \in Runs, Fail(p)
    PROVE  IInv'
<1> DEFINE s == StoreOf[p]
<1> HIDE DEF s
<1>1. /\ pc[p] # "idle" /\ pc' = [pc EXCEPT ![p] = "idle"]
      /\ \/ /\ pc[p] = "resolving"
            /\ view' = [view EXCEPT ![s] = durable[s]] /\ writer' = [writer EXCEPT ![s] = None]
         \/ pc[p] # "resolving" /\ UNCHANGED <<view, writer>>
      /\ failures' = failures + 1
      /\ UNCHANGED <<durable, cache, found, result, files, runs>>
  BY DEF Fail, s
<1>2. /\ s \in Stores /\ StoreOf[p] = s /\ \A q \in Runs : StoreOf[q] \in Stores
      /\ pc[p] = "resolving" => writer[s] = p
      /\ \A q \in Runs : pc[p] = "resolving" /\ q # p /\ pc[q] = "resolving" => StoreOf[q] # s
  BY AloneResolving, OntologyForgeAssumption DEF s
<1>2a. /\ durable \in [Stores -> Concepts] /\ view \in [Stores -> Concepts]
       /\ writer \in [Stores -> Runs \cup {None}] /\ failures \in Nat
       /\ pc \in [Runs -> {"idle", "cached", "resolving", "resolved", "half written"}]
  BY DEF IInv, TypeOK
<1>3. TypeOK'
  <2>1. pc' \in [Runs -> {"idle", "cached", "resolving", "resolved", "half written"}]
    BY <1>1, <1>2a
  <2>2. view' \in [Stores -> Concepts]
    BY <1>1, <1>2, <1>2a
  <2>3. writer' \in [Stores -> Runs \cup {None}]
    BY <1>1, <1>2a
  <2>4. failures' \in Nat
    <3>1. failures' = failures + 1 /\ failures \in Nat
      BY <1>1, <1>2a
    <3> QED
      BY <3>1
  <2> QED
    BY <1>1, <2>1, <2>2, <2>3, <2>4 DEF IInv, TypeOK
<1>4. /\ pc'[p] = "idle" /\ \A q \in Runs : q # p => pc'[q] = pc[q]
      /\ \A t \in Stores : \/ view'[t] = view[t] /\ writer'[t] = writer[t]
                           \/ /\ t = s /\ pc[p] = "resolving"
                              /\ view'[t] = durable[t] /\ writer'[t] = None
      /\ pc[p] = "resolving" => writer'[s] = None
  <2>1. pc'[p] = "idle" /\ \A q \in Runs : q # p => pc'[q] = pc[q]
    BY <1>1, <1>2a
  <2>2. CASE pc[p] = "resolving"
    <3>1. view' = [view EXCEPT ![s] = durable[s]] /\ writer' = [writer EXCEPT ![s] = None]
      BY <1>1, <2>2
    <3>2. /\ view'[s] = durable[s] /\ \A t \in Stores : t # s => view'[t] = view[t]
          /\ writer'[s] = None /\ \A t \in Stores : t # s => writer'[t] = writer[t]
      BY <1>2, <1>2a, <3>1
    <3> QED
      BY <2>1, <2>2, <3>2
  <2>3. CASE pc[p] # "resolving"
    BY <1>1, <2>1, <2>3
  <2> QED
    BY <2>2, <2>3
<1>5. WriterResolves'
  <2>1. \A t \in Stores : writer'[t] # None => writer'[t] = writer[t] /\ writer[t] # p
    BY <1>4, <1>2, WritersAreRuns
  <2>2. \A t \in Stores : writer'[t] # None =>
            pc'[writer'[t]] = "resolving" /\ StoreOf[writer'[t]] = t
    BY <1>4, <2>1, WritersAreRuns
  <2>3. \A t \in Stores : writer'[t] = None => view'[t] = durable[t]
    BY <1>4 DEF IInv, WriterResolves
  <2>4. \A q \in Runs : pc'[q] = "resolving" => writer'[StoreOf[q]] = q
    BY <1>2, <1>4 DEF IInv, WriterResolves
  <2> QED
    BY <1>1, <2>2, <2>3, <2>4 DEF WriterResolves
<1>6. \A t \in Stores : /\ RowsCounted(view'[t]) /\ RowsCounted(durable[t])
                        /\ Alone(t) => Unique(view'[t]) /\ Unique(durable[t])
  BY <1>4 DEF IInv, AloneUnique
<1>7. ViewAdds'
  <2>1. \A t \in Stores, a \in Ids : durable[t].uses[a] \in Nat
    <3>1. \A t \in Stores : durable[t] \in Concepts
      BY DEF IInv, TypeOK
    <3> QED
      BY <3>1 DEF Concepts
  <2> QED
    BY <1>1, <1>4, <2>1 DEF IInv, ViewAdds
<1>8. \A q \in Runs : pc'[q] = "resolving" => view'[StoreOf[q]] = view[StoreOf[q]]
  BY <1>2, <1>4
<1>9. CacheIsOld'
  BY <1>1, <1>4, <1>8 DEF IInv, CacheIsOld
<1>10. ResultNamed'
  <2> SUFFICES ASSUME NEW q \in Runs, NEW k \in Labels, result[q][k] # None
               PROVE  /\ pc'[q] # "cached"
                      /\ pc'[q] = "resolving" => view'[StoreOf[q]].label[result[q][k]] = k
                      /\ pc'[q] \in {"resolved", "half written"} =>
                             durable[StoreOf[q]].label[result[q][k]] = k
    BY <1>1 DEF ResultNamed
  <2>1. q # p => pc'[q] = pc[q]
    BY <1>4
  <2>2. /\ pc[q] # "cached"
        /\ pc[q] = "resolving" => view[StoreOf[q]].label[result[q][k]] = k
        /\ pc[q] \in {"resolved", "half written"} =>
               durable[StoreOf[q]].label[result[q][k]] = k
    BY DEF IInv, ResultNamed
  <2> QED
    BY <1>4, <1>8, <2>1, <2>2
<1>11. AloneCache'
  <2> SUFFICES ASSUME NEW q \in Runs, Alone(StoreOf[q]), pc'[q] \in {"cached", "resolving"}
               PROVE  cache[q] = view'[StoreOf[q]].count
    BY <1>1 DEF AloneCache
  <2>1. q # p
    BY <1>4
  <2>2. StoreOf[q] # s
    BY <1>2, <2>1 DEF Alone
  <2> QED
    BY <1>2, <1>4, <2>1, <2>2 DEF IInv, AloneCache
<1> QED
  BY <1>1, <1>3, <1>5, <1>6, <1>7, <1>9, <1>10, <1>11
     DEF IInv, AloneUnique, FilesNameConcepts, Named

-----------------------------------------------------------------------------
\* Every step keeps the invariant.
LEMMA StepIInv == IInv /\ [Next]_vars => IInv'
<1> SUFFICES ASSUME IInv, [Next]_vars PROVE IInv'
  OBVIOUS
<1>1. CASE \E p \in Runs : \E labels \in (SUBSET Labels) \ {{}} : Begin(p, labels)
  BY <1>1, BeginIInv
<1>2. CASE \E p \in Runs : Lock(p)
  BY <1>2, LockIInv
<1>3. CASE \E p \in Runs : \E l \in Labels : Resolve(p, l)
  BY <1>3, ResolveIInv
<1>4. CASE \E p \in Runs : Commit(p) \/ WriteNodes(p) \/ WriteEdges(p)
  BY <1>4, CommitIInv, WriteIInv
<1>5. CASE \E p \in Runs : Fail(p)
  BY <1>5, FailIInv
<1>6. CASE UNCHANGED vars
  <2>1. TypeOK' /\ WriterResolves'
    BY <1>6 DEF vars, tables, local, IInv, TypeOK, WriterResolves
  <2>1a. ViewAdds' /\ CacheIsOld'
    BY <1>6 DEF vars, tables, local, IInv, ViewAdds, CacheIsOld
  <2>2. ResultNamed' /\ AloneCache' /\ AloneUnique' /\ FilesNameConcepts'
    BY <1>6 DEF vars, tables, local, IInv, ResultNamed, AloneCache, AloneUnique,
       FilesNameConcepts, Named
  <2> QED
    BY <1>6, <2>1, <2>1a, <2>2 DEF vars, tables, IInv
<1> QED
  BY <1>1, <1>2, <1>3, <1>4, <1>5, <1>6 DEF Next

\* The inductive invariant of the ontology forge, its types included.
THEOREM ForgeInvariant == Spec => []IInv
BY InitIInv, StepIInv, PTL DEF Spec

\* On a store that only one run opens, as the daemon's, a label has one UUID for
\* ever, whatever requests run meanwhile and wherever runs fail.
THEOREM OneUUID == Spec => []OneConceptWhereAlone
<1>1. IInv => OneConceptWhereAlone
  BY DEF IInv, AloneUnique, Unique, OneConceptWhereAlone
<1> QED
  BY <1>1, ForgeInvariant, PTL

\* There the counts are those of the resolutions that were committed.
THEOREM CountsExactly == Spec => []CountsWhereAlone
<1>1. IInv => CountsWhereAlone
  BY DEF IInv, AloneUnique, Unique, CountsWhereAlone
<1> QED
  BY <1>1, ForgeInvariant, PTL

\* However runs share a store, a concept counts no more than it was resolved to:
\* an overlap loses counts, and never makes them up.
THEOREM CountsAtMost == Spec => []NeverOvercounts
<1>1. IInv => NeverOvercounts
  BY DEF IInv, RowsCounted, NeverOvercounts
<1> QED
  BY <1>1, ForgeInvariant, PTL

\* nodes.json and edges.json name committed concepts, whichever runs wrote them.
THEOREM FilesFollowCommits == Spec => []FilesNameConcepts
<1>1. IInv => FilesNameConcepts
  BY DEF IInv
<1> QED
  BY <1>1, ForgeInvariant, PTL

=============================================================================
