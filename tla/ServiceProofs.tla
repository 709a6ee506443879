---------------------------- MODULE ServiceProofs ----------------------------
(***************************************************************************)
(* Proofs about the services of the API: the questions of AlphaService and  *)
(* the searches they make, for any graph, limits and commits of others and  *)
(* any requests, and then the runs of DataGate, for any configurations,     *)
(* files and texts, and whatever the learning daemon and the end of the     *)
(* process do to a run.                                                     *)
(***************************************************************************)
EXTENDS AlphaService, DataGate, FiniteSetTheorems, SequenceTheorems,
        WellFoundedInduction, TLAPS

-----------------------------------------------------------------------------
(* Induction and the reference definition of a search. *)

\* Induction over the numbers of a set.
LEMMA SetInduction ==
    ASSUME NEW S, 0 \in S, \A n \in Nat : n \in S => n + 1 \in S
    PROVE  Nat \subseteq S
<1> DEFINE less == OpToRel(<, Nat)
           rest == Nat \ S
<1>1. IsWellFoundedOn(less, Nat)
  BY NatLessThanWellFounded
<1>2. \A x, y \in Nat : x < y => <<x, y>> \in less
  BY DEF OpToRel
<1> HIDE DEF less
<1> SUFFICES ASSUME rest # {} PROVE FALSE
  OBVIOUS
<1>3. PICK x \in rest : \A y \in rest : ~ (<<y, x>> \in less)
  BY <1>1, WFMin
<1>4. x \in Nat /\ x \notin S /\ x - 1 \in Nat
  OBVIOUS
<1>5. x - 1 < x /\ (x - 1) + 1 = x
  BY <1>4
<1>6. <<x - 1, x>> \in less
  BY <1>2, <1>4, <1>5
<1>7. x - 1 \notin rest
  BY <1>3, <1>6
<1> QED
  BY <1>4, <1>5, <1>7

LEMMA StepMember ==
    ASSUME NEW kind, NEW edges, NEW nodes, NEW x
    PROVE  x \in Step(kind, edges, nodes) <=>
              \/ x \in nodes
              \/ \E e \in edges : Follows(kind, e, nodes) /\ (x = e[1] \/ x = e[2])
BY DEF Step, EndsOf

\* The first n + 1 terms of the recursion that defines Within.
UpTo(kind, seeds, edges, f, n) ==
    /\ f[0] = seeds
    /\ \A i \in 0 .. n - 1 : f[i + 1] = Step(kind, edges, f[i])

LEMMA UpToExists ==
    ASSUME NEW kind, NEW seeds, NEW edges
    PROVE  \A n \in Nat : \E f : UpTo(kind, seeds, edges, f, n)
<1> DEFINE S == {n \in Nat : \E f : UpTo(kind, seeds, edges, f, n)}
<1>1. 0 \in S
  <2>1. UpTo(kind, seeds, edges, [i \in {0} |-> seeds], 0)
    BY DEF UpTo
  <2> QED
    BY <2>1
<1>2. ASSUME NEW n \in Nat, n \in S PROVE n + 1 \in S
  <2>1. PICK f : UpTo(kind, seeds, edges, f, n)
    BY <1>2
  <2> DEFINE last == Step(kind, edges, f[n])
             g == [i \in 0 .. n + 1 |-> IF i <= n THEN f[i] ELSE last]
  <2>2. g[0] = seeds
    BY <2>1 DEF UpTo
  <2>3. ASSUME NEW i \in 0 .. n PROVE g[i + 1] = Step(kind, edges, g[i])
    <3>1. CASE i = n
      BY <3>1
    <3>2. CASE i < n
      BY <2>1, <3>2 DEF UpTo
    <3> QED
      BY <3>1, <3>2
  <2> HIDE DEF g
  <2>4. UpTo(kind, seeds, edges, g, n + 1)
    BY <2>2, <2>3 DEF UpTo
  <2> QED
    BY <2>4
<1> HIDE DEF S
<1>3. Nat \subseteq S
  BY <1>1, <1>2, SetInduction
<1> QED
  BY <1>3 DEF S

LEMMA UpToAgree ==
    ASSUME NEW kind, NEW seeds, NEW edges, NEW f, NEW g, NEW n \in Nat, NEW m \in Nat,
           UpTo(kind, seeds, edges, f, n), UpTo(kind, seeds, edges, g, m)
    PROVE  \A i \in Nat : i <= n /\ i <= m => f[i] = g[i]
<1> DEFINE S == {i \in Nat : i <= n /\ i <= m => f[i] = g[i]}
<1>1. 0 \in S
  BY DEF UpTo
<1>2. ASSUME NEW i \in Nat, i \in S PROVE i + 1 \in S
  <2> SUFFICES ASSUME i + 1 <= n, i + 1 <= m PROVE f[i + 1] = g[i + 1]
    OBVIOUS
  <2>1. i \in 0 .. n - 1 /\ i \in 0 .. m - 1 /\ f[i] = g[i]
    BY <1>2
  <2> QED
    BY <2>1 DEF UpTo
<1> HIDE DEF S
<1>3. Nat \subseteq S
  BY <1>1, <1>2, SetInduction
<1> QED
  BY <1>3 DEF S

\* The recursion has a solution, so Within is what it says.
LEMMA WithinRecursion ==
    ASSUME NEW kind, NEW seeds, NEW edges
    PROVE  \E near : /\ \A n : Within(kind, seeds, edges, n) = near[n]
                     /\ near[0] = seeds
                     /\ \A n \in Nat : near[n + 1] = Step(kind, edges, near[n])
<1> DEFINE up(n) == CHOOSE f : UpTo(kind, seeds, edges, f, n)
           F == [n \in Nat |-> up(n)[n]]
           near == CHOOSE near : near = [i \in Nat |-> IF i = 0 THEN seeds
                                                      ELSE Step(kind, edges, near[i - 1])]
<1>1. \A n \in Nat : UpTo(kind, seeds, edges, up(n), n)
  BY UpToExists
<1> HIDE DEF up
<1>2. F[0] = seeds
  BY <1>1 DEF UpTo
<1>3. ASSUME NEW n \in Nat PROVE F[n + 1] = Step(kind, edges, F[n])
  <2>1. UpTo(kind, seeds, edges, up(n), n) /\ UpTo(kind, seeds, edges, up(n + 1), n + 1)
    BY <1>1
  <2>2. up(n + 1)[n + 1] = Step(kind, edges, up(n + 1)[n])
    BY <2>1 DEF UpTo
  <2>3. up(n + 1)[n] = up(n)[n]
    BY <2>1, UpToAgree
  <2> QED
    BY <2>2, <2>3
<1>4. F = [i \in Nat |-> IF i = 0 THEN seeds ELSE Step(kind, edges, F[i - 1])]
  <2>1. ASSUME NEW i \in Nat
        PROVE  F[i] = IF i = 0 THEN seeds ELSE Step(kind, edges, F[i - 1])
    <3>1. CASE i = 0
      BY <1>2, <3>1
    <3>2. CASE i # 0
      <4>1. i - 1 \in Nat /\ (i - 1) + 1 = i
        BY <3>2
      <4>2. F[(i - 1) + 1] = Step(kind, edges, F[i - 1])
        BY <1>3, <4>1
      <4> QED
        BY <3>2, <4>1, <4>2
    <3> QED
      BY <3>1, <3>2
  <2> QED
    BY <2>1
<1> HIDE DEF F
<1>5. near = [i \in Nat |-> IF i = 0 THEN seeds ELSE Step(kind, edges, near[i - 1])]
  BY <1>4
<1>6. \A n : Within(kind, seeds, edges, n) = near[n]
  BY DEF Within
<1> HIDE DEF near
<1>7. near[0] = seeds
  BY <1>5
<1>8. ASSUME NEW n \in Nat PROVE near[n + 1] = Step(kind, edges, near[n])
  <2>1. n + 1 \in Nat /\ n + 1 # 0 /\ (n + 1) - 1 = n
    OBVIOUS
  <2> QED
    BY <1>5, <2>1
<1> QED
  BY <1>6, <1>7, <1>8

LEMMA WithinZero ==
    ASSUME NEW kind, NEW seeds, NEW edges
    PROVE  Within(kind, seeds, edges, 0) = seeds
<1>1. PICK near : /\ \A n : Within(kind, seeds, edges, n) = near[n]
                  /\ near[0] = seeds
  BY WithinRecursion
<1> QED
  BY <1>1

LEMMA WithinNext ==
    ASSUME NEW kind, NEW seeds, NEW edges, NEW n \in Nat
    PROVE  Within(kind, seeds, edges, n + 1) = Step(kind, edges, Within(kind, seeds, edges, n))
<1>1. PICK near : /\ \A i : Within(kind, seeds, edges, i) = near[i]
                  /\ \A i \in Nat : near[i + 1] = Step(kind, edges, near[i])
  BY WithinRecursion
<1>2. near[n + 1] = Step(kind, edges, near[n])
  BY <1>1
<1> QED
  BY <1>1, <1>2

\* More seeds and edges reach more.
LEMMA WithinMonotone ==
    ASSUME NEW kind, NEW s1, NEW s2, NEW e1, NEW e2, s1 \subseteq s2, e1 \subseteq e2
    PROVE  \A n \in Nat : Within(kind, s1, e1, n) \subseteq Within(kind, s2, e2, n)
<1> DEFINE S == {n \in Nat : Within(kind, s1, e1, n) \subseteq Within(kind, s2, e2, n)}
<1>1. 0 \in S
  BY WithinZero
<1>2. ASSUME NEW n \in Nat, n \in S PROVE n + 1 \in S
  <2>1. Within(kind, s1, e1, n) \subseteq Within(kind, s2, e2, n)
    BY <1>2
  <2>2. Step(kind, e1, Within(kind, s1, e1, n)) \subseteq Step(kind, e2, Within(kind, s2, e2, n))
    BY <2>1, StepMember DEF Follows
  <2>3. /\ Within(kind, s1, e1, n + 1) = Step(kind, e1, Within(kind, s1, e1, n))
        /\ Within(kind, s2, e2, n + 1) = Step(kind, e2, Within(kind, s2, e2, n))
    BY WithinNext
  <2> QED
    BY <2>2, <2>3
<1> HIDE DEF S
<1>3. Nat \subseteq S
  BY <1>1, <1>2, SetInduction
<1> QED
  BY <1>3 DEF S

\* So do more steps.
LEMMA WithinGrows ==
    ASSUME NEW kind, NEW seeds, NEW edges, NEW m \in Nat
    PROVE  \A n \in Nat : m <= n => Within(kind, seeds, edges, m) \subseteq Within(kind, seeds, edges, n)
<1> DEFINE S == {n \in Nat : m <= n => Within(kind, seeds, edges, m)
                                         \subseteq Within(kind, seeds, edges, n)}
<1>1. 0 \in S
  BY WithinZero
<1>2. ASSUME NEW n \in Nat, n \in S PROVE n + 1 \in S
  <2>1. Within(kind, seeds, edges, n) \subseteq Within(kind, seeds, edges, n + 1)
    <3>1. Within(kind, seeds, edges, n + 1)
            = Step(kind, edges, Within(kind, seeds, edges, n))
      BY WithinNext
    <3> QED
      BY <3>1, StepMember
  <2>2. CASE m <= n
    BY <1>2, <2>1, <2>2
  <2>3. CASE m > n
    BY <2>3
  <2> QED
    BY <2>2, <2>3
<1> HIDE DEF S
<1>3. Nat \subseteq S
  BY <1>1, <1>2, SetInduction
<1> QED
  BY <1>3 DEF S

\* Nothing is reached from a set that no edge leaves, but what is in it.
LEMMA WithinClosed ==
    ASSUME NEW kind, NEW seeds, NEW edges, NEW nodes, seeds \subseteq nodes,
           \A e \in edges : Follows(kind, e, nodes) => e[1] \in nodes /\ e[2] \in nodes
    PROVE  \A n \in Nat : Within(kind, seeds, edges, n) \subseteq nodes
<1> DEFINE S == {n \in Nat : Within(kind, seeds, edges, n) \subseteq nodes}
<1>1. 0 \in S
  BY WithinZero
<1>2. ASSUME NEW n \in Nat, n \in S PROVE n + 1 \in S
  <2>1. Within(kind, seeds, edges, n) \subseteq nodes
    BY <1>2
  <2>2. Step(kind, edges, Within(kind, seeds, edges, n)) \subseteq nodes
    BY <2>1, StepMember DEF Follows
  <2>3. Within(kind, seeds, edges, n + 1) = Step(kind, edges, Within(kind, seeds, edges, n))
    BY WithinNext
  <2> QED
    BY <2>2, <2>3
<1> HIDE DEF S
<1>3. Nat \subseteq S
  BY <1>1, <1>2, SetInduction
<1> QED
  BY <1>3 DEF S

-----------------------------------------------------------------------------
(* Finite sets. *)

LEMMA UnionBound ==
    ASSUME NEW S, IsFiniteSet(S), NEW T, IsFiniteSet(T)
    PROVE  /\ IsFiniteSet(S \cup T)
           /\ Cardinality(S \cup T) \in Nat
           /\ Cardinality(S \cup T) <= Cardinality(S) + Cardinality(T)
<1>1. /\ IsFiniteSet(S \cup T)
      /\ Cardinality(S \cup T) = Cardinality(S) + Cardinality(T) - Cardinality(S \cap T)
  BY FS_Union
<1>2. IsFiniteSet(S \cap T)
  BY FS_Subset
<1> QED
  BY <1>1, <1>2, FS_CardinalityType

LEMMA FiniteGraph ==
    /\ \A nodes \in SUBSET Nodes : IsFiniteSet(nodes) /\ Cardinality(nodes) \in Nat
    /\ \A edges \in SUBSET Edges : IsFiniteSet(edges) /\ Cardinality(edges) \in Nat
    /\ \A rows \in SUBSET Rows : IsFiniteSet(rows) /\ Cardinality(rows) \in Nat
<1>1. IsFiniteSet(Nodes)
  BY SearchAssumption
<1>2. IsFiniteSet(Edges)
  <2> DEFINE triples == Nodes \X Nodes \X Relations
             pairs == (Nodes \X Nodes) \X Relations
             f == [p \in pairs |-> <<p[1][1], p[1][2], p[2]>>]
  <2>1. IsFiniteSet(pairs)
    BY <1>1, FS_Product, SearchAssumption
  <2>2. f \in Surjection(pairs, triples)
    <3>1. f \in [pairs -> triples]
      OBVIOUS
    <3>2. ASSUME NEW t \in triples PROVE \E p \in pairs : f[p] = t
      <4>1. <<<<t[1], t[2]>>, t[3]>> \in pairs /\ f[<<<<t[1], t[2]>>, t[3]>>] = t
        OBVIOUS
      <4> QED
        BY <4>1
    <3> QED
      BY <3>1, <3>2 DEF Surjection
  <2>3. IsFiniteSet(triples)
    BY <2>1, <2>2, FS_Surjection
  <2> QED
    BY <2>3, FS_Subset, SearchAssumption
<1>3. IsFiniteSet(Rows)
  <2> DEFINE tables == Synaptic \cup {"stats", "ghost"}
  <2>1. /\ tables = Synaptic \cup ({"stats"} \cup {"ghost"})
        /\ Synaptic = {"daemon"} \cup {"replay"}
    BY DEF Synaptic
  <2>2. IsFiniteSet(tables)
    BY <2>1, FS_Singleton, UnionBound
  <2> QED
    BY <1>2, <2>2, FS_Product DEF Rows
<1> QED
  BY <1>1, <1>2, <1>3, FS_Subset, FS_CardinalityType

\* A SELECT returns rows of what it asks for, and no more than its LIMIT.
LEMMA Selected ==
    ASSUME NEW rows, IsFiniteSet(rows), NEW limit \in Nat, NEW some \in Select(rows, limit)
    PROVE  /\ some \subseteq rows
           /\ IsFiniteSet(some) /\ Cardinality(some) \in Nat /\ Cardinality(some) <= limit
<1>1. some \in SUBSET rows /\ Cardinality(some) = Least(limit, Cardinality(rows))
  BY DEF Select
<1>2. IsFiniteSet(some) /\ Cardinality(some) \in Nat /\ Cardinality(rows) \in Nat
  BY <1>1, FS_Subset, FS_CardinalityType
<1> QED
  BY <1>1, <1>2 DEF Least

\* Rows have no more edges, and edges no more targets, than there are.
LEMMA EdgesOfRows ==
    ASSUME NEW rows, IsFiniteSet(rows)
    PROVE  /\ IsFiniteSet({row[1] : row \in rows})
           /\ Cardinality({row[1] : row \in rows}) <= Cardinality(rows)
<1> DEFINE f == [row \in rows |-> row[1]]
<1>1. f \in Surjection(rows, {row[1] : row \in rows})
  BY DEF Surjection
<1> QED
  BY <1>1, FS_Surjection

LEMMA TargetsOfRows ==
    ASSUME NEW rows, IsFiniteSet(rows)
    PROVE  /\ IsFiniteSet({row[1][2] : row \in rows})
           /\ Cardinality({row[1][2] : row \in rows}) <= Cardinality(rows)
<1> DEFINE f == [row \in rows |-> row[1][2]]
<1>1. f \in Surjection(rows, {row[1][2] : row \in rows})
  BY DEF Surjection
<1> QED
  BY <1>1, FS_Surjection

\* The entries of a queue are all of the nodes, each at the depth given.
LEMMA EntriesAre ==
    ASSUME NEW nodes \in SUBSET Nodes, NEW depth \in 0 .. MaxDepth,
           NEW entries \in Entries(nodes, depth)
    PROVE  /\ entries \in Seq(Nodes \X (0 .. MaxDepth))
           /\ \A i \in 1 .. Len(entries) : entries[i][1] \in nodes /\ entries[i][2] = depth
           /\ \A n \in nodes : \E i \in 1 .. Len(entries) : entries[i][1] = n
<1> DEFINE size == Cardinality(nodes)
<1>1. size \in Nat /\ IsFiniteSet(nodes)
  BY FiniteGraph
<1>2. PICK s \in SetToSeqs(nodes) : entries = [i \in DOMAIN s |-> <<s[i], depth>>]
  BY DEF Entries
<1>3. s \in [1 .. size -> nodes] /\ \A i, j \in 1 .. size : i # j => s[i] # s[j]
  BY <1>2 DEF SetToSeqs
<1>4. s \in Surjection(1 .. size, nodes)
  <2>1. s \in Injection(1 .. size, nodes)
    BY <1>3 DEF Injection, IsInjective
  <2>2. Cardinality(1 .. size) = size
    BY <1>1, FS_Interval
  <2> QED
    BY <1>1, <2>1, <2>2, FS_Injection
<1>5. entries = [i \in 1 .. size |-> <<s[i], depth>>]
  BY <1>2, <1>3
<1> HIDE DEF size
<1>6. entries \in Seq(Nodes \X (0 .. MaxDepth)) /\ Len(entries) = size
  <2>1. \A i \in 1 .. size : <<s[i], depth>> \in Nodes \X (0 .. MaxDepth)
    BY <1>3
  <2>2. entries \in [1 .. size -> Nodes \X (0 .. MaxDepth)]
    BY <1>5, <2>1
  <2> QED
    BY <1>1, <2>2, SeqDef, LenProperties
<1>7. \A n \in nodes : \E i \in 1 .. size : s[i] = n
  BY <1>4 DEF Surjection
<1> QED
  BY <1>3, <1>5, <1>6, <1>7

-----------------------------------------------------------------------------
(* The invariant of a search. *)

\* Where a search is tells what it has.
Shape ==
    /\ search.kind = "none" <=> search.pc \in {"idle", "check"}
    /\ search.pc \in {"seeds", "rows", "expand", "nodes"} => search.kind \in {"lazy", "ghost"}
    /\ search.pc = "synaptic" => search.kind = "lazy"
    /\ search.pc = "shades" => search.kind = "ghost"
    /\ search.pc \in {"kindle", "spread", "active"} => search.kind = "spread"
    /\ search.pc \in {"idle", "check", "seeds", "kindle"} =>
          /\ search.seeds = {} /\ search.visited = {} /\ search.edges = {}
          /\ search.frontier = {} /\ search.queue = <<>> /\ search.depth = 0
    /\ search.pc \notin {"synaptic", "expand"} => search.read = {}
    /\ search.pc # "shades" => search.missing = {}
    /\ search.pc \in {"synaptic", "expand", "shades"} => search.depth < MaxDepth
    /\ search.frontier \subseteq search.visited
    /\ search.kind = "spread" => search.frontier = {}
    /\ search.missing \cap search.visited = {}

Contained(d1, d2) ==
    /\ d1.rows \subseteq d2.rows
    /\ d1.index \subseteq d2.index
    /\ d1.learned \subseteq d2.learned
    /\ d1.shades \subseteq d2.shades

\* What was there all the time is there now, and that was there at some time.
Between ==
    search.pc # "idle" => Contained(search.kept, db) /\ Contained(db, search.ever)

\* What is read and looked for counts as found, so the limits are shared.
Bounded ==
    IF search.kind = "spread"
    THEN /\ Cardinality(search.visited) < Most(2 * MaxActive, SeedLimit + 1) + FanOut
         /\ search.pc \in {"active", "done"} => Cardinality(search.visited) <= MaxActive
         /\ search.pc = "done" => Cardinality(search.edges) <= 2 * MaxActive
         /\ search.visited = {} => search.edges = {}
    ELSE /\ Cardinality(search.visited) + Cardinality(search.missing) <= MaxNodes
         /\ Cardinality(search.edges) + Cardinality(search.read) <= MaxEdges
         /\ search.pc = "synaptic" => Cardinality(search.read) <= Limit

\* The nodes within n steps over edges that were there at some time.
Near(n) == Within(search.kind, search.seeds, EdgesOf(search.kind, search.ever), n)

\* What is found at a depth is within so many steps.
Found ==
    /\ search.kind # "spread" => search.visited \subseteq Near(search.depth)
    /\ search.kind = "spread" => search.visited \subseteq Near(MaxDepth)
    /\ \A i \in DOMAIN search.queue : search.queue[i][1] \in Near(search.queue[i][2])
    /\ search.missing \subseteq Near(search.depth + 1)
    /\ \A row \in search.read :
          /\ row \in search.ever.rows /\ row[2] \in TablesOf(search.kind)
          /\ Follows(search.kind, row[1], search.frontier)

Staying == Stays(search.kind, search.kept)

\* The edges that stayed and leave these nodes are held, with their ends.
Followed(nodes) ==
    \A e \in Staying : Follows(search.kind, e, nodes) =>
        e \in search.edges /\ e[1] \in search.visited /\ e[2] \in search.visited

\* A search that was not cut has followed all that was found before the last depth, and
\* what it has read of the last is all there is.
Complete ==
    search.kind # "spread" /\ ~search.cut =>
        /\ Followed(search.visited \ search.frontier)
        /\ search.kind = "lazy" => EndsOf(search.edges) \subseteq search.visited
        /\ search.depth = 0 => search.visited = search.seeds /\ search.frontier = search.seeds
        /\ search.depth > 0 => Due(search.depth - 1) \subseteq search.visited \ search.frontier
        /\ search.pc = "synaptic" =>
              \A row \in search.kept.rows :
                  row[2] = "stats" /\ Follows("lazy", row[1], search.frontier)
                      => row \in search.read
        /\ search.pc = "expand" =>
              \A e \in Staying : Follows(search.kind, e, search.frontier) =>
                  \E row \in search.read : row[1] = e
        /\ search.pc = "shades" =>
              \A e \in Staying : Follows(search.kind, e, search.frontier) =>
                  /\ e \in search.edges
                  /\ e[1] \in search.visited \cup search.missing
                  /\ e[2] \in search.visited \cup search.missing
        /\ search.pc \in {"nodes", "done"} =>
              \/ MetLimit
              \/ search.depth = MaxDepth
              \/ search.frontier = {}

\* Depths in the queue do not decrease, and the last is the first or the next one.
Ordered(queue) ==
    \A i, j \in DOMAIN queue : i < j =>
        /\ queue[i][2] <= queue[j][2]
        /\ queue[j][2] <= queue[1][2] + 1

Queued(n) == \E i \in DOMAIN search.queue : search.queue[i][1] = n

\* All that an activation has to follow is followed ...
Exhausted == Followed(Due(MaxDepth - 1)) /\ Due(0) \subseteq search.visited

\* ... or what is not is in the queue: of the nodes within the depth of the first entry at
\* that depth, of those found since at any.
Pending ==
    /\ \A n \in search.visited : Followed({n}) \/ Queued(n)
    /\ search.queue # <<>> =>
          LET depth == search.queue[1][2]
          IN /\ depth > 0 => Followed(Due(depth - 1))
             /\ \A n \in Due(depth) : \/ Followed({n})
                                      \/ \E i \in DOMAIN search.queue : search.queue[i] = <<n, depth>>

Spreading ==
    search.kind = "spread" =>
        /\ Ordered(search.queue)
        /\ search.pc # "spread" => search.queue = <<>>
        /\ \A i \in DOMAIN search.queue : search.queue[i][1] \in search.visited
        /\ ~search.cut /\ search.pc = "spread" =>
              search.seeds \subseteq search.visited /\ (Exhausted \/ Pending)
        /\ ~search.cut /\ search.pc = "active" => Exhausted
        /\ ~search.cut /\ search.pc = "done" =>
              /\ Due(MaxDepth) \subseteq search.visited
              /\ {e \in Staying : Follows(search.kind, e, Due(MaxDepth - 1))} \subseteq AnswerEdges

SearchIInv ==
    /\ SearchTypeOK
    /\ Shape
    /\ Between
    /\ Bounded
    /\ Found
    /\ Complete
    /\ Spreading

-----------------------------------------------------------------------------
(* The steps of a search. *)

\* What the question and the moments of the search have fixed, and what it has found.
Scope == <<search.kind, search.seeds, search.kept, search.ever>>
Holding == <<search.visited, search.edges, search.frontier, search.depth, search.queue, search.cut>>
InHand == <<search.read, search.missing>>

LEMMA NumbersOK ==
    /\ MaxDepth \in Nat \ {0} /\ MaxNodes \in Nat \ {0} /\ MaxEdges \in Nat \ {0}
    /\ SeedLimit \in Nat \ {0} /\ LeastRows \in Nat \ {0} /\ MaxActive \in Nat \ {0}
    /\ FanOut \in Nat \ {0}
BY SearchAssumption

LEMMA EdgeNodes ==
    /\ \A e \in Edges : e[1] \in Nodes /\ e[2] \in Nodes
    /\ \A edges \in SUBSET Edges : EndsOf(edges) \in SUBSET Nodes
    /\ \A rows \in SUBSET Rows : {row[1] : row \in rows} \in SUBSET Edges
BY SearchAssumption DEF EndsOf, Rows

\* The scope of a search decides what is near it and what is due.
LEMMA SameScope ==
    ASSUME UNCHANGED Scope
    PROVE  /\ \A n : Near(n)' = Near(n) /\ Due(n)' = Due(n)
           /\ Staying' = Staying
BY DEF Scope, Near, Due, StayingSeeds, Staying

LEMMA TouchingRows ==
    ASSUME NEW tables, SearchTypeOK
    PROVE  Touching(tables) \in SUBSET Rows /\ Touching(tables) \in SUBSET db.rows
BY DEF Touching, SearchTypeOK, Databases

LEMMA SearchTypeStep ==
    ASSUME SearchIInv, SearchStep
    PROVE  SearchTypeOK'
<1> SUFFICES search' \in Searches
  BY DEF SearchStep, CheckGhost, Seeds, ReadRows, ReadSynaptic, Expand, ExpandGhost,
         FetchShades, EndSearch, FetchNodes, SeedSpread, SkipEntry, SpreadEntry, EndSpread,
         FetchActive, SearchIInv, SearchTypeOK
<1> USE NumbersOK
<1>1. /\ search \in Searches /\ db \in Databases
      /\ search.visited \in SUBSET Nodes /\ search.edges \in SUBSET Edges
      /\ search.read \in SUBSET Rows /\ search.missing \in SUBSET Nodes
      /\ search.queue \in Seq(Nodes \X (0 .. MaxDepth))
      /\ db.index \in SUBSET Nodes /\ db.learned \in SUBSET Nodes /\ db.shades \in SUBSET Nodes
      /\ db.rows \in SUBSET Rows
      /\ search.ever.index \in SUBSET Nodes /\ search.ever.learned \in SUBSET Nodes
  BY DEF SearchIInv, SearchTypeOK, Searches, Databases
<1>2. CASE CheckGhost
  BY <1>1, <1>2 DEF CheckGhost, Searches, SearchPhases
<1>3. CASE Seeds
  <2>1. PICK seeds \in SUBSET Nodes :
           search' = [search EXCEPT !.pc = "rows", !.seeds = seeds, !.visited = seeds,
                                    !.frontier = seeds]
    BY <1>1, <1>3 DEF Seeds, Select, SeenNodes
  <2> QED
    BY <1>1, <2>1 DEF Searches, SearchPhases
<1>4. CASE ReadRows
  <2> DEFINE rows == Touching({IF search.kind = "ghost" THEN "ghost" ELSE "stats"})
  <2>1. PICK some \in Select(rows, Limit) :
           search' = [search EXCEPT !.pc = IF search.kind = "ghost" THEN "expand" ELSE "synaptic",
                                    !.read = some, !.cut = @ \/ some # rows]
    BY <1>4 DEF ReadRows
  <2>2. some \in SUBSET Rows
    BY <2>1, TouchingRows DEF Select, SearchIInv
  <2> QED
    BY <1>1, <2>1, <2>2 DEF Searches, SearchPhases
<1>5. CASE ReadSynaptic
  <2> DEFINE rows == Touching(Synaptic)
  <2>1. PICK some \in Select(rows, Limit - Cardinality(search.read)) :
           search' = [search EXCEPT !.pc = "expand", !.read = @ \cup some,
                                    !.cut = @ \/ some # rows]
    BY <1>5 DEF ReadSynaptic
  <2>2. some \in SUBSET Rows
    BY <2>1, TouchingRows DEF Select, SearchIInv
  <2> QED
    BY <1>1, <2>1, <2>2 DEF Searches, SearchPhases
<1>6. CASE Expand
  <2> DEFINE new == {row[1] : row \in search.read} \ search.edges
             ends == EndsOf(new) \ search.visited
  <2>1. PICK some \in Select(ends, MaxNodes - Cardinality(search.visited)) :
           search' = [search EXCEPT !.pc = "rows", !.depth = @ + 1,
                                    !.edges = @ \cup new, !.visited = @ \cup some,
                                    !.frontier = some, !.read = {},
                                    !.cut = @ \/ some # ends]
    BY <1>6 DEF Expand
  <2>2. new \in SUBSET Edges /\ ends \in SUBSET Nodes
    BY <1>1, EdgeNodes
  <2> HIDE DEF new, ends
  <2>3. some \in SUBSET Nodes
    BY <2>1, <2>2 DEF Select
  <2>4. search.depth + 1 \in 0 .. MaxDepth
    BY <1>1, <1>6 DEF Expand, SearchIInv, Shape, Searches
  <2> QED
    BY <1>1, <2>1, <2>2, <2>3, <2>4 DEF Searches, SearchPhases
<1>7. CASE ExpandGhost
  <2> DEFINE new == {row[1] : row \in search.read}
             ends == EndsOf(new) \ search.visited
  <2>1. PICK some \in Select(ends, MaxNodes - Cardinality(search.visited)) :
           search' = [search EXCEPT !.pc = "shades", !.missing = some, !.read = {},
                                    !.edges = @ \cup new, !.cut = @ \/ some # ends]
    BY <1>7 DEF ExpandGhost
  <2>2. new \in SUBSET Edges /\ ends \in SUBSET Nodes
    BY <1>1, EdgeNodes
  <2>3. some \in SUBSET Nodes
    BY <2>2 DEF Select
  <2> HIDE DEF new, ends
  <2> QED
    BY <1>1, <2>1, <2>2, <2>3 DEF Searches, SearchPhases
<1>8. CASE FetchShades
  <2>1. search.depth + 1 \in 0 .. MaxDepth
    BY <1>1, <1>8 DEF FetchShades, SearchIInv, Shape, Searches
  <2> QED
    BY <1>1, <1>8, <2>1 DEF FetchShades, Searches, SearchPhases
<1>9. CASE EndSearch \/ FetchNodes
  BY <1>1, <1>9 DEF EndSearch, FetchNodes, Searches, SearchPhases
<1>10. CASE SeedSpread
  <2>1. PICK seeds \in SUBSET search.ever.index :
           \E entries \in Entries(seeds, 0) :
              search' = [search EXCEPT !.pc = "spread", !.seeds = seeds, !.visited = seeds,
                                       !.queue = entries]
    BY <1>10 DEF SeedSpread
  <2>2. PICK entries \in Entries(seeds, 0) :
           search' = [search EXCEPT !.pc = "spread", !.seeds = seeds, !.visited = seeds,
                                    !.queue = entries]
    BY <2>1
  <2>3. entries \in Seq(Nodes \X (0 .. MaxDepth))
    <3>1. seeds \in SUBSET Nodes /\ 0 \in 0 .. MaxDepth
      BY <1>1
    <3> QED
      BY <2>2, <3>1, EntriesAre
  <2> QED
    BY <1>1, <2>1, <2>2, <2>3 DEF Searches, SearchPhases
<1>11. CASE SkipEntry
  BY <1>1, <1>11, HeadTailProperties DEF SkipEntry, Searches
<1>12. CASE SpreadEntry
  <2> DEFINE node == Head(search.queue)[1]
             depth == Head(search.queue)[2]
             rows == {r \in db.rows : r[2] = "stats" /\ r[1][1] = node /\ r[1][2] \in db.index}
  <2>1. PICK some \in Select(rows, FanOut) :
           \E risen \in SUBSET ({r[1][2] : r \in some} \cap search.visited) :
           \E entries \in Entries(({r[1][2] : r \in some} \ search.visited) \cup risen, depth + 1) :
              search' = [search EXCEPT !.queue = Tail(@) \o entries,
                                       !.visited = @ \cup {r[1][2] : r \in some},
                                       !.edges = @ \cup {r[1] : r \in some},
                                       !.cut = @ \/ some # rows]
    BY <1>12 DEF SpreadEntry
  <2> DEFINE edges == {r[1] : r \in some}
             targets == {r[1][2] : r \in some}
  <2>2. PICK risen \in SUBSET (targets \cap search.visited) :
           \E entries \in Entries((targets \ search.visited) \cup risen, depth + 1) :
              search' = [search EXCEPT !.queue = Tail(@) \o entries,
                                       !.visited = @ \cup targets,
                                       !.edges = @ \cup edges,
                                       !.cut = @ \/ some # rows]
    BY <2>1
  <2>3. PICK entries \in Entries((targets \ search.visited) \cup risen, depth + 1) :
           search' = [search EXCEPT !.queue = Tail(@) \o entries,
                                    !.visited = @ \cup targets,
                                    !.edges = @ \cup edges,
                                    !.cut = @ \/ some # rows]
    BY <2>2
  <2>4. depth + 1 \in 0 .. MaxDepth /\ Tail(search.queue) \in Seq(Nodes \X (0 .. MaxDepth))
    BY <1>1, <1>12, HeadTailProperties DEF SpreadEntry
  <2>5. some \in SUBSET Rows
    BY <1>1, <2>1 DEF Select
  <2>6. edges \in SUBSET Edges /\ targets \in SUBSET Nodes
    BY <2>5, EdgeNodes DEF Rows
  <2> HIDE DEF depth, rows, edges, targets
  <2>7. entries \in Seq(Nodes \X (0 .. MaxDepth))
    <3>1. (targets \ search.visited) \cup risen \in SUBSET Nodes
      BY <1>1, <2>2, <2>6
    <3> QED
      BY <2>3, <2>4, <3>1, EntriesAre
  <2>8. Tail(search.queue) \o entries \in Seq(Nodes \X (0 .. MaxDepth))
    BY <2>4, <2>7, ConcatProperties
  <2> QED
    BY <1>1, <2>3, <2>6, <2>8 DEF Searches
<1>13. CASE EndSpread
  <2>1. PICK top \in SUBSET search.visited :
           search' = [search EXCEPT !.pc = IF top = {} THEN "done" ELSE "active",
                                    !.visited = top, !.cut = @ \/ top # search.visited]
    BY <1>13 DEF EndSpread, Select
  <2> QED
    BY <1>1, <2>1 DEF Searches, SearchPhases
<1>14. CASE FetchActive
  <2> DEFINE known == search.visited \cap db.index
             edges == {e \in search.edges : {e[1], e[2]} \subseteq known}
  <2>1. PICK some \in SUBSET edges :
           search' = [search EXCEPT !.pc = "done", !.visited = known, !.edges = some,
                                    !.cut = @ \/ some # edges]
    BY <1>14 DEF FetchActive, Select
  <2>2. known \in SUBSET Nodes /\ some \in SUBSET Edges
    BY <1>1, <2>1
  <2> HIDE DEF known, edges
  <2> QED
    BY <1>1, <2>1, <2>2 DEF Searches, SearchPhases
<1> QED
  BY <1>2, <1>3, <1>4, <1>5, <1>6, <1>7, <1>8, <1>9, <1>10, <1>11, <1>12, <1>13, <1>14
  DEF SearchStep

LEMMA SearchFields ==
    ASSUME SearchTypeOK
    PROVE  /\ search \in Searches
           /\ search.depth \in 0 .. MaxDepth
           /\ search.seeds \in SUBSET Nodes /\ search.visited \in SUBSET Nodes
           /\ search.frontier \in SUBSET Nodes /\ search.missing \in SUBSET Nodes
           /\ search.edges \in SUBSET Edges /\ search.read \in SUBSET Rows
           /\ search.queue \in Seq(Nodes \X (0 .. MaxDepth))
           /\ search.cut \in BOOLEAN
           /\ db.rows \in SUBSET Rows
           /\ db.index \in SUBSET Nodes /\ db.learned \in SUBSET Nodes
           /\ db.shades \in SUBSET Nodes
BY DEF SearchTypeOK, Searches, Databases

\* The sizes of what a search holds.
LEMMA SearchSizes ==
    ASSUME SearchTypeOK
    PROVE  /\ Cardinality(search.visited) \in Nat /\ IsFiniteSet(search.visited)
           /\ Cardinality(search.missing) \in Nat /\ IsFiniteSet(search.missing)
           /\ Cardinality(search.edges) \in Nat /\ IsFiniteSet(search.edges)
           /\ Cardinality(search.read) \in Nat /\ IsFiniteSet(search.read)
BY SearchFields, FiniteGraph

LEMMA LimitOK ==
    ASSUME SearchTypeOK, Cardinality(search.edges) <= MaxEdges
    PROVE  Limit \in Nat /\ Limit <= MaxEdges - Cardinality(search.edges)
<1>1. Cardinality(search.edges) \in Nat
  BY SearchSizes
<1>2. MaxEdges \div MaxDepth \in Nat
  BY NumbersOK
<1>3. Most(LeastRows, MaxEdges \div MaxDepth) \in Nat
  BY <1>2, NumbersOK DEF Most
<1> QED
  BY <1>1, <1>3, NumbersOK DEF Limit, Least

\* A node on an edge that touches what is near is near with one step more.
LEMMA NextIsNear ==
    ASSUME NEW kind, NEW seeds, NEW edges, NEW n \in Nat, NEW e \in edges,
           NEW nodes, nodes \subseteq Within(kind, seeds, edges, n), Follows(kind, e, nodes)
    PROVE  /\ e[1] \in Within(kind, seeds, edges, n + 1)
           /\ e[2] \in Within(kind, seeds, edges, n + 1)
<1>1. Follows(kind, e, Within(kind, seeds, edges, n))
  BY DEF Follows
<1>2. Within(kind, seeds, edges, n + 1) = Step(kind, edges, Within(kind, seeds, edges, n))
  BY WithinNext
<1> QED
  BY <1>1, <1>2, StepMember

\* What is near with so many steps is near with more.
LEMMA NearGrows ==
    ASSUME NEW m \in Nat, NEW n \in Nat, m <= n
    PROVE  Near(m) \subseteq Near(n) /\ Due(m) \subseteq Due(n)
BY WithinGrows DEF Near, Due

\* A search that has just been given its seeds, or nothing yet.
LEMMA NothingFollowed == Followed({}) <=> TRUE
BY DEF Followed, Follows

LEMMA CheckGhostKeeps ==
    ASSUME SearchIInv, CheckGhost, SearchTypeOK'
    PROVE  SearchIInv'
<1>1. /\ search.pc = "check" /\ search'.pc = "seeds" /\ search'.kind \in {"lazy", "ghost"}
      /\ search'.kept = db /\ search'.ever = db
      /\ UNCHANGED <<db, search.seeds, Holding, InHand>>
  BY SearchFields DEF CheckGhost, SearchIInv, Searches, Holding, InHand
<1>2. /\ search.seeds = {} /\ search.visited = {} /\ search.edges = {} /\ search.read = {}
      /\ search.frontier = {} /\ search.missing = {} /\ search.queue = <<>> /\ search.depth = 0
  BY <1>1 DEF SearchIInv, Shape
<1>3. Shape'
  BY <1>1, <1>2 DEF Shape, Holding, InHand
<1>4. Between'
  BY <1>1 DEF Between, Contained
<1>5. Bounded'
  BY <1>1, <1>2, FS_EmptySet, NumbersOK DEF Bounded, Holding, InHand
<1>6. Found'
  BY <1>1, <1>2 DEF Found, Holding, InHand
<1>7. Complete'
  BY <1>1, <1>2 DEF Complete, Followed, Follows, Holding, InHand, EndsOf
<1>8. Spreading'
  BY <1>1 DEF Spreading
<1> QED
  BY <1>3, <1>4, <1>5, <1>6, <1>7, <1>8 DEF SearchIInv

LEMMA SeedsKeeps ==
    ASSUME SearchIInv, Seeds, SearchTypeOK'
    PROVE  SearchIInv'
<1>1. PICK seeds \in SUBSET Nodes :
         /\ Cardinality(seeds) <= MaxNodes
         /\ search' = [search EXCEPT !.pc = "rows", !.seeds = seeds, !.visited = seeds,
                                     !.frontier = seeds]
  <2> DEFINE limit == Least(MaxNodes, SeedLimit)
  <2>1. limit \in Nat /\ limit <= MaxNodes
    BY NumbersOK DEF Least
  <2>2. IsFiniteSet(db.shades) /\ db.shades \in SUBSET Nodes /\ SeenNodes \in SUBSET Nodes
    BY SearchFields, FiniteGraph DEF SearchIInv, SearchTypeOK, Searches, Databases, SeenNodes
  <2> HIDE DEF limit
  <2>3. CASE search.kind = "ghost"
    <3>1. PICK seeds \in Select(db.shades, limit) :
             search' = [search EXCEPT !.pc = "rows", !.seeds = seeds, !.visited = seeds,
                                      !.frontier = seeds]
      BY <2>3 DEF Seeds, limit
    <3>2. seeds \subseteq db.shades /\ Cardinality(seeds) \in Nat /\ Cardinality(seeds) <= limit
      BY <2>1, <2>2, <3>1, Selected
    <3>3. seeds \in SUBSET Nodes /\ Cardinality(seeds) <= MaxNodes
      BY <2>1, <2>2, <3>2, NumbersOK
    <3> QED
      BY <3>1, <3>3
  <2>4. CASE search.kind # "ghost"
    <3>1. PICK seeds \in SUBSET SeenNodes :
             /\ Cardinality(seeds) <= limit
             /\ search' = [search EXCEPT !.pc = "rows", !.seeds = seeds, !.visited = seeds,
                                         !.frontier = seeds]
      BY <2>4 DEF Seeds, limit
    <3>2. seeds \in SUBSET Nodes
      BY <2>2, <3>1
    <3>3. Cardinality(seeds) <= MaxNodes
      BY <2>1, <3>1, <3>2, FiniteGraph, NumbersOK
    <3> QED
      BY <3>1, <3>2, <3>3
  <2> QED
    BY <2>3, <2>4
<1>2. /\ search.pc = "seeds" /\ search'.pc = "rows"
      /\ search'.seeds = seeds /\ search'.visited = seeds /\ search'.frontier = seeds
      /\ UNCHANGED <<db, search.kind, search.kept, search.ever, search.edges, search.depth,
                     search.queue, search.cut, InHand>>
  BY <1>1, SearchFields DEF Seeds, SearchIInv, Searches, InHand
<1>3. /\ search.kind \in {"lazy", "ghost"} /\ search.edges = {} /\ search.read = {}
      /\ search.missing = {} /\ search.queue = <<>> /\ search.depth = 0
  BY <1>2 DEF SearchIInv, Shape
<1>4. Shape'
  BY <1>2, <1>3 DEF Shape, InHand
<1>5. Between'
  BY <1>2 DEF SearchIInv, Between
<1>6. Bounded'
  <2>1. Cardinality({}) = 0 /\ Cardinality(seeds) \in Nat
    BY <1>1, FS_EmptySet, FiniteGraph
  <2>2. search'.edges = {} /\ search'.read = {} /\ search'.missing = {}
    BY <1>2, <1>3 DEF InHand
  <2>3. search'.kind # "spread" /\ search'.pc # "synaptic"
    BY <1>2, <1>3
  <2> QED
    BY <1>1, <1>2, <2>1, <2>2, <2>3, NumbersOK DEF Bounded
<1>7. Found'
  BY <1>2, <1>3, WithinZero DEF Found, Near, InHand
<1>8. Complete'
  BY <1>2, <1>3 DEF Complete, Followed, Follows, EndsOf
<1>9. Spreading'
  BY <1>2, <1>3 DEF Spreading
<1> QED
  BY <1>4, <1>5, <1>6, <1>7, <1>8, <1>9 DEF SearchIInv

\* A row that touches the frontier belongs to an edge that is followed from it.
LEMMA TouchingFollows ==
    ASSUME NEW tables, NEW kind \in {"lazy", "ghost"}, NEW row \in db.rows
    PROVE  row \in Touching(tables) <=>
              row[2] \in tables /\ Follows(kind, row[1], search.frontier)
BY DEF Touching, Follows

LEMMA ReadRowsKeeps ==
    ASSUME SearchIInv, ReadRows, SearchTypeOK'
    PROVE  SearchIInv'
<1> DEFINE table == IF search.kind = "ghost" THEN "ghost" ELSE "stats"
           rows == Touching({table})
<1> USE NumbersOK
<1>1. PICK some \in Select(rows, Limit) :
         search' = [search EXCEPT !.pc = IF search.kind = "ghost" THEN "expand" ELSE "synaptic",
                                  !.read = some, !.cut = @ \/ some # rows]
  BY DEF ReadRows
<1>2. /\ search.pc = "rows" /\ ~Over
      /\ search'.pc = (IF search.kind = "ghost" THEN "expand" ELSE "synaptic")
      /\ search'.read = some /\ search'.cut = (search.cut \/ some # rows)
      /\ UNCHANGED <<db, Scope, search.visited, search.edges, search.frontier, search.depth,
                     search.queue, search.missing>>
  BY <1>1, SearchFields DEF ReadRows, SearchIInv, Searches, Scope
<1>3. /\ search.kind \in {"lazy", "ghost"} /\ search.missing = {} /\ search.read = {}
  BY <1>2 DEF SearchIInv, Shape
<1>4. /\ search.depth < MaxDepth
      /\ Cardinality(search.edges) \in Nat /\ Cardinality(search.edges) < MaxEdges
  BY <1>2, SearchFields, SearchSizes DEF Over, SearchIInv
<1>5. Limit \in Nat /\ Limit <= MaxEdges - Cardinality(search.edges)
  BY <1>4, LimitOK DEF SearchIInv
<1>6. rows \in SUBSET Rows /\ rows \in SUBSET db.rows /\ IsFiniteSet(rows)
  BY TouchingRows, FiniteGraph DEF SearchIInv
<1> HIDE DEF rows
<1>7. some \subseteq rows /\ Cardinality(some) \in Nat /\ Cardinality(some) <= Limit
  BY <1>1, <1>5, <1>6, Selected
<1>8. \A row \in rows : row \in db.rows /\ row[2] = table /\ Follows(search.kind, row[1], search.frontier)
  BY <1>3, <1>6, TouchingFollows DEF rows
<1>9. \A row \in db.rows : row[2] = table /\ Follows(search.kind, row[1], search.frontier)
                              => row \in rows
  BY <1>3, TouchingFollows DEF rows
<1>10. Contained(search.kept, db) /\ Contained(db, search.ever)
  BY <1>2 DEF SearchIInv, Between
<1>11. Shape'
  BY <1>2, <1>3, <1>4 DEF SearchIInv, Shape, Scope
<1>12. Between'
  BY <1>2 DEF SearchIInv, Between, Scope
<1>13. Bounded'
  BY <1>2, <1>3, <1>4, <1>5, <1>7 DEF SearchIInv, Bounded, Scope, Limit
<1>14. Found'
  <2>1. \A row \in search'.read :
           /\ row \in search'.ever.rows /\ row[2] \in TablesOf(search'.kind)
           /\ Follows(search'.kind, row[1], search'.frontier)
    BY <1>2, <1>3, <1>7, <1>8, <1>10 DEF Contained, TablesOf, Scope
  <2> QED
    BY <1>2, <1>3, <2>1 DEF SearchIInv, Found, Near, Scope
<1>15. Complete'
  <2> SUFFICES ASSUME ~search'.cut PROVE Complete'
    BY <1>2, <1>3 DEF Complete
  <2>1. ~search.cut /\ some = rows
    BY <1>2
  <2>2. ASSUME NEW row \in search.kept.rows, row[2] = table,
               Follows(search.kind, row[1], search.frontier)
        PROVE  row \in search'.read
    BY <1>2, <1>9, <1>10, <2>1, <2>2 DEF Contained
  <2>3. ASSUME search.kind = "ghost", NEW e \in Staying,
               Follows(search.kind, e, search.frontier)
        PROVE  \E row \in search'.read : row[1] = e
    <3>1. PICK row \in search.kept.rows : row[2] \in {"ghost"} /\ row[1] = e
      BY <2>3 DEF Staying, Stays, EdgesOf, TablesOf
    <3> QED
      BY <2>2, <2>3, <3>1
  <2>4. Complete
    BY DEF SearchIInv
  <2> QED
    BY <1>2, <1>3, <2>1, <2>2, <2>3, <2>4 DEF Complete, Followed, Staying, Due, StayingSeeds, Scope
<1>16. Spreading'
  BY <1>2, <1>3 DEF Spreading, Scope
<1> QED
  BY <1>11, <1>12, <1>13, <1>14, <1>15, <1>16 DEF SearchIInv

LEMMA ReadSynapticKeeps ==
    ASSUME SearchIInv, ReadSynaptic, SearchTypeOK'
    PROVE  SearchIInv'
<1> DEFINE rows == Touching(Synaptic)
<1> USE NumbersOK
<1>1. PICK some \in Select(rows, Limit - Cardinality(search.read)) :
         search' = [search EXCEPT !.pc = "expand", !.read = @ \cup some,
                                  !.cut = @ \/ some # rows]
  BY DEF ReadSynaptic
<1>2. /\ search.pc = "synaptic" /\ search'.pc = "expand"
      /\ search'.read = search.read \cup some /\ search'.cut = (search.cut \/ some # rows)
      /\ UNCHANGED <<db, Scope, search.visited, search.edges, search.frontier, search.depth,
                     search.queue, search.missing>>
  BY <1>1, SearchFields DEF ReadSynaptic, SearchIInv, Searches, Scope
<1>3. search.kind = "lazy" /\ search.missing = {}
  BY <1>2 DEF SearchIInv, Shape
<1>4. /\ IsFiniteSet(search.read) /\ Cardinality(search.read) \in Nat
      /\ Cardinality(search.edges) \in Nat
      /\ Cardinality(search.read) <= Limit
      /\ Cardinality(search.edges) + Cardinality(search.read) <= MaxEdges
  BY <1>2, <1>3, SearchSizes DEF Bounded, SearchIInv
<1>5. Limit \in Nat /\ Limit <= MaxEdges - Cardinality(search.edges)
  BY <1>4, LimitOK DEF SearchIInv
<1>6. rows \in SUBSET Rows /\ rows \in SUBSET db.rows /\ IsFiniteSet(rows)
  BY TouchingRows, FiniteGraph DEF SearchIInv
<1> HIDE DEF rows
<1>7. /\ some \subseteq rows /\ IsFiniteSet(some)
      /\ Cardinality(some) \in Nat /\ Cardinality(some) <= Limit - Cardinality(search.read)
  BY <1>1, <1>4, <1>5, <1>6, Selected
<1>8. \A row \in rows : row \in db.rows /\ row[2] \in Synaptic /\ Follows("lazy", row[1], search.frontier)
  BY <1>6, TouchingFollows DEF rows
<1>9. \A row \in db.rows : row[2] \in Synaptic /\ Follows("lazy", row[1], search.frontier)
                              => row \in rows
  BY TouchingFollows DEF rows
<1>10. Contained(search.kept, db) /\ Contained(db, search.ever)
  BY <1>2 DEF SearchIInv, Between
<1>11. Shape'
  BY <1>2, <1>3 DEF SearchIInv, Shape, Scope
<1>12. Between'
  BY <1>2 DEF SearchIInv, Between, Scope
<1>13. Bounded'
  <2>1. Cardinality(search.read \cup some) \in Nat
        /\ Cardinality(search.read \cup some) <= Cardinality(search.read) + Cardinality(some)
    BY <1>4, <1>7, UnionBound
  <2>2. Cardinality(search.edges) + Cardinality(search.read \cup some) <= MaxEdges
    BY <1>4, <1>5, <1>7, <2>1
  <2> QED
    BY <1>2, <1>3, <2>2 DEF SearchIInv, Bounded, Scope
<1>14. Found'
  <2>1. \A row \in some :
           /\ row \in search.ever.rows /\ row[2] \in TablesOf(search.kind)
           /\ Follows(search.kind, row[1], search.frontier)
    BY <1>3, <1>7, <1>8, <1>10 DEF Contained, TablesOf
  <2> QED
    BY <1>2, <1>3, <2>1 DEF SearchIInv, Found, Near, Scope
<1>15. Complete'
  <2> SUFFICES ASSUME ~search'.cut PROVE Complete'
    BY <1>2, <1>3 DEF Complete
  <2>1. ~search.cut /\ some = rows
    BY <1>2
  <2>2. Complete
    BY DEF SearchIInv
  <2>3. ASSUME NEW e \in Staying, Follows(search.kind, e, search.frontier)
        PROVE  \E row \in search'.read : row[1] = e
    <3>1. PICK row \in search.kept.rows : row[2] \in Synaptic \cup {"stats"} /\ row[1] = e
      BY <1>3 DEF Staying, Stays, EdgesOf, TablesOf
    <3>2. CASE row[2] = "stats"
      BY <1>2, <1>3, <2>1, <2>2, <2>3, <3>1, <3>2 DEF Complete
    <3>3. CASE row[2] \in Synaptic
      BY <1>2, <1>3, <1>9, <1>10, <2>1, <2>3, <3>1, <3>3 DEF Contained
    <3> QED
      BY <3>1, <3>2, <3>3
  <2> QED
    BY <1>2, <1>3, <2>1, <2>2, <2>3 DEF Complete, Followed, Staying, Due, StayingSeeds, Scope
<1>16. Spreading'
  BY <1>2, <1>3 DEF Spreading, Scope
<1> QED
  BY <1>11, <1>12, <1>13, <1>14, <1>15, <1>16 DEF SearchIInv

\* What the rows in hand lead to is near with one step more.
LEMMA ReadIsNear ==
    ASSUME SearchIInv, search.kind # "spread", NEW row \in search.read
    PROVE  row[1][1] \in Near(search.depth + 1) /\ row[1][2] \in Near(search.depth + 1)
<1>1. row[1] \in EdgesOf(search.kind, search.ever)
  BY DEF SearchIInv, Found, EdgesOf
<1>2. Follows(search.kind, row[1], search.frontier)
  BY DEF SearchIInv, Found
<1>3. search.frontier \subseteq Near(search.depth)
  BY DEF SearchIInv, Found, Shape
<1> QED
  BY <1>1, <1>2, <1>3, SearchFields, NextIsNear DEF Near, SearchIInv

\* A search that was not cut has found what is due at its depth.
LEMMA DueFound ==
    ASSUME SearchIInv, search.kind # "spread", ~search.cut
    PROVE  Due(search.depth) \subseteq search.visited
<1>1. CASE search.depth = 0
  BY <1>1, WithinZero DEF SearchIInv, Complete, Due, StayingSeeds
<1>2. CASE search.depth # 0
  <2> DEFINE before == search.depth - 1
  <2>1. before \in Nat /\ search.depth = before + 1
    BY <1>2, SearchFields, NumbersOK DEF SearchIInv
  <2>2. Due(before) \subseteq search.visited \ search.frontier
    BY <2>1 DEF SearchIInv, Complete
  <2>3. Followed(search.visited \ search.frontier)
    BY DEF SearchIInv, Complete
  <2>4. Due(before + 1) = Step(search.kind, Staying, Due(before))
    BY <2>1, WithinNext DEF Due, Staying
  <2> HIDE DEF before
  <2>5. ASSUME NEW e \in Staying, Follows(search.kind, e, Due(before))
        PROVE  e[1] \in search.visited /\ e[2] \in search.visited
    BY <2>2, <2>3, <2>5 DEF Followed, Follows
  <2>6. Due(before + 1) \subseteq search.visited
    BY <2>2, <2>4, <2>5, StepMember
  <2> QED
    BY <2>1, <2>6
<1> QED
  BY <1>1, <1>2

\* The edges that stay and touch what was visited are held when those from the frontier
\* are, and lead to what is visited then.
LEMMA FollowedWithFrontier ==
    ASSUME SearchIInv, search.kind # "spread", ~search.cut,
           search'.kind = search.kind, search'.kept = search.kept,
           search.edges \subseteq search'.edges, search.visited \subseteq search'.visited,
           \A e \in Staying : Follows(search.kind, e, search.frontier) =>
              e \in search'.edges /\ e[1] \in search'.visited /\ e[2] \in search'.visited
    PROVE  \A e \in Staying : Follows(search.kind, e, search.visited) =>
              e \in search'.edges /\ e[1] \in search'.visited /\ e[2] \in search'.visited
<1>1. Followed(search.visited \ search.frontier)
  BY DEF SearchIInv, Complete
<1> QED
  BY <1>1 DEF Followed, Follows

LEMMA ExpandKeeps ==
    ASSUME SearchIInv, Expand, SearchTypeOK'
    PROVE  SearchIInv'
<1> DEFINE new == {row[1] : row \in search.read} \ search.edges
           ends == EndsOf(new) \ search.visited
<1> USE NumbersOK
<1>1. PICK some \in Select(ends, MaxNodes - Cardinality(search.visited)) :
         search' = [search EXCEPT !.pc = "rows", !.depth = @ + 1,
                                  !.edges = @ \cup new, !.visited = @ \cup some,
                                  !.frontier = some, !.read = {},
                                  !.cut = @ \/ some # ends]
  BY DEF Expand
<1>2. /\ search.pc = "expand" /\ search'.pc = "rows" /\ search.kind = "lazy"
      /\ search'.depth = search.depth + 1 /\ search'.read = {}
      /\ search'.edges = search.edges \cup new /\ search'.visited = search.visited \cup some
      /\ search'.frontier = some /\ search'.cut = (search.cut \/ some # ends)
      /\ UNCHANGED <<db, Scope, search.queue, search.missing>>
  BY <1>1, SearchFields DEF Expand, SearchIInv, Searches, Scope
<1>3. search.missing = {} /\ search.depth \in Nat
  BY <1>2, SearchFields DEF SearchIInv, Shape
<1>4. /\ Cardinality(search.visited) \in Nat /\ IsFiniteSet(search.visited)
      /\ Cardinality(search.edges) \in Nat /\ IsFiniteSet(search.edges)
      /\ Cardinality(search.read) \in Nat /\ IsFiniteSet(search.read)
      /\ Cardinality(search.visited) <= MaxNodes
      /\ Cardinality(search.edges) + Cardinality(search.read) <= MaxEdges
  BY <1>2, <1>3, SearchSizes, FS_EmptySet DEF Bounded, SearchIInv
<1>5. new \in SUBSET Edges /\ ends \in SUBSET Nodes /\ IsFiniteSet(ends)
  <2>1. {row[1] : row \in search.read} \in SUBSET Edges
    BY SearchFields, EdgeNodes DEF SearchIInv
  <2> QED
    BY <2>1, EdgeNodes, FiniteGraph
<1>6. \A row \in search.read : row[1] \in search.edges \/ row[1] \in new
  OBVIOUS
<1>7. \A e \in new : \E row \in search.read : e = row[1]
  OBVIOUS
<1>8. /\ IsFiniteSet(new) /\ Cardinality(new) \in Nat
      /\ Cardinality(new) <= Cardinality(search.read)
  <2> DEFINE all == {row[1] : row \in search.read}
  <2>1. IsFiniteSet(all) /\ Cardinality(all) <= Cardinality(search.read)
    BY <1>4, EdgesOfRows
  <2>2. new \subseteq all
    OBVIOUS
  <2> HIDE DEF all, new
  <2> QED
    BY <1>4, <2>1, <2>2, FS_Subset, FS_CardinalityType
<1>9. \A x : x \in ends <=> (\E e \in new : x = e[1] \/ x = e[2]) /\ x \notin search.visited
  BY DEF EndsOf
<1> HIDE DEF new, ends
<1>10. /\ some \subseteq ends /\ IsFiniteSet(some)
       /\ Cardinality(some) \in Nat
       /\ Cardinality(some) <= MaxNodes - Cardinality(search.visited)
  BY <1>1, <1>4, <1>5, Selected
<1>11. search'.visited \ search'.frontier = search.visited
  BY <1>2, <1>9, <1>10
<1>12. Shape'
  BY <1>2, <1>3 DEF SearchIInv, Shape, Scope
<1>13. Between'
  BY <1>2 DEF SearchIInv, Between, Scope
<1>14. Bounded'
  <2>1. /\ Cardinality(search'.visited) \in Nat
        /\ Cardinality(search'.visited) <= Cardinality(search.visited) + Cardinality(some)
        /\ Cardinality(search'.edges) \in Nat
        /\ Cardinality(search'.edges) <= Cardinality(search.edges) + Cardinality(new)
    BY <1>2, <1>4, <1>8, <1>10, UnionBound
  <2>2. Cardinality({}) = 0
    BY FS_EmptySet
  <2> QED
    BY <1>2, <1>3, <1>4, <1>8, <1>10, <2>1, <2>2 DEF Bounded, Scope
<1>15. Found'
  <2>1. some \subseteq Near(search.depth + 1)
    BY <1>2, <1>7, <1>9, <1>10, ReadIsNear
  <2>2. search.visited \subseteq Near(search.depth + 1)
    BY <1>2, <1>3, NearGrows DEF SearchIInv, Found
  <2>3. search'.visited \subseteq Near(search.depth + 1)
    BY <1>2, <2>1, <2>2
  <2> QED
    BY <1>2, <1>3, <2>3 DEF SearchIInv, Found, Near, Scope
<1>16. Complete'
  <2> SUFFICES ASSUME ~search'.cut PROVE Complete'
    BY <1>2, <1>3 DEF Complete
  <2>1. ~search.cut /\ some = ends
    BY <1>2
  <2>2. Complete
    BY DEF SearchIInv
  <2>3. EndsOf(search'.edges) \subseteq search'.visited
    <3>1. \A e \in search.edges : e[1] \in search.visited /\ e[2] \in search.visited
      BY <1>2, <2>1, <2>2 DEF Complete, EndsOf
    <3>2. \A e \in new : e[1] \in search'.visited /\ e[2] \in search'.visited
      BY <1>2, <1>9, <2>1
    <3> QED
      BY <1>2, <3>1, <3>2 DEF EndsOf
  <2>4. ASSUME NEW e \in Staying, Follows(search.kind, e, search.frontier)
        PROVE  e \in search'.edges /\ e[1] \in search'.visited /\ e[2] \in search'.visited
    <3>1. e \in search'.edges
      BY <1>2, <1>6, <2>1, <2>2, <2>4 DEF Complete
    <3> QED
      BY <2>3, <3>1 DEF EndsOf
  <2>6. Due(search.depth) \subseteq search.visited
    BY <1>2, <2>1, DueFound
  <2>7. /\ Staying' = Staying
        /\ search'.depth - 1 = search.depth /\ search'.depth # 0
    BY <1>2, <1>3 DEF Staying, Scope
  <2>8. Followed(search.visited \ search.frontier)'
    BY <1>2, <1>11, <2>1, <2>4, <2>7, FollowedWithFrontier DEF Followed, Scope
  <2>9. Due(search.depth - 1)' \subseteq search'.visited \ search'.frontier
    BY <1>2, <1>11, <2>6, <2>7 DEF Due, StayingSeeds, Scope
  <2> QED
    BY <1>2, <2>3, <2>7, <2>8, <2>9 DEF Complete
<1>17. Spreading'
  BY <1>2 DEF Spreading, Scope
<1> QED
  BY <1>12, <1>13, <1>14, <1>15, <1>16, <1>17 DEF SearchIInv

LEMMA ExpandGhostKeeps ==
    ASSUME SearchIInv, ExpandGhost, SearchTypeOK'
    PROVE  SearchIInv'
<1> DEFINE new == {row[1] : row \in search.read}
           ends == EndsOf(new) \ search.visited
<1> USE NumbersOK
<1>1. PICK some \in Select(ends, MaxNodes - Cardinality(search.visited)) :
         search' = [search EXCEPT !.pc = "shades", !.missing = some, !.read = {},
                                  !.edges = @ \cup new, !.cut = @ \/ some # ends]
  BY DEF ExpandGhost
<1>2. /\ search.pc = "expand" /\ search'.pc = "shades" /\ search.kind = "ghost"
      /\ search'.read = {} /\ search'.missing = some
      /\ search'.edges = search.edges \cup new /\ search'.cut = (search.cut \/ some # ends)
      /\ UNCHANGED <<db, Scope, search.queue, search.visited, search.frontier, search.depth>>
  BY <1>1, SearchFields DEF ExpandGhost, SearchIInv, Searches, Scope
<1>3. search.missing = {} /\ search.depth \in Nat
  BY <1>2, SearchFields DEF SearchIInv, Shape
<1>4. /\ Cardinality(search.visited) \in Nat
      /\ Cardinality(search.edges) \in Nat /\ IsFiniteSet(search.edges)
      /\ Cardinality(search.read) \in Nat /\ IsFiniteSet(search.read)
      /\ Cardinality(search.visited) <= MaxNodes
      /\ Cardinality(search.edges) + Cardinality(search.read) <= MaxEdges
  BY <1>2, <1>3, SearchSizes, FS_EmptySet DEF Bounded, SearchIInv
<1>5. ends \in SUBSET Nodes /\ IsFiniteSet(ends)
  BY SearchFields, EdgeNodes, FiniteGraph DEF SearchIInv
<1>6. \A row \in search.read : row[1] \in new
  OBVIOUS
<1>7. \A e \in new : \E row \in search.read : e = row[1]
  OBVIOUS
<1>8. IsFiniteSet(new) /\ Cardinality(new) <= Cardinality(search.read)
  BY <1>4, EdgesOfRows
<1>9. \A x : x \in ends <=> (\E e \in new : x = e[1] \/ x = e[2]) /\ x \notin search.visited
  BY DEF EndsOf
<1> HIDE DEF new, ends
<1>10. /\ some \subseteq ends /\ Cardinality(some) \in Nat
       /\ Cardinality(some) <= MaxNodes - Cardinality(search.visited)
  BY <1>1, <1>4, <1>5, Selected
<1>11. Shape'
  BY <1>2, <1>3, <1>9, <1>10 DEF SearchIInv, Shape, Scope
<1>12. Between'
  BY <1>2 DEF SearchIInv, Between, Scope
<1>13. Bounded'
  <2>1. /\ Cardinality(search'.edges) \in Nat /\ Cardinality(new) \in Nat
        /\ Cardinality(search'.edges) <= Cardinality(search.edges) + Cardinality(new)
    BY <1>2, <1>4, <1>8, UnionBound, FS_CardinalityType
  <2>2. Cardinality({}) = 0
    BY FS_EmptySet
  <2> QED
    BY <1>2, <1>4, <1>8, <1>10, <2>1, <2>2 DEF Bounded, Scope
<1>14. Found'
  <2>1. some \subseteq Near(search.depth + 1)
    BY <1>2, <1>7, <1>9, <1>10, ReadIsNear
  <2> QED
    BY <1>2, <2>1 DEF SearchIInv, Found, Near, Scope
<1>15. Complete'
  <2> SUFFICES ASSUME ~search'.cut PROVE Complete'
    BY <1>2 DEF Complete
  <2>1. ~search.cut /\ some = ends
    BY <1>2
  <2>2. Complete
    BY DEF SearchIInv
  <2>3. Staying' = Staying
    BY <1>2 DEF Staying, Scope
  <2>4. ASSUME NEW e \in Staying, Follows(search.kind, e, search.frontier)
        PROVE  /\ e \in search'.edges
               /\ e[1] \in search'.visited \cup search'.missing
               /\ e[2] \in search'.visited \cup search'.missing
    <3>1. e \in new
      BY <1>2, <1>6, <2>1, <2>2, <2>4 DEF Complete
    <3> QED
      BY <1>2, <1>9, <2>1, <3>1
  <2> QED
    BY <1>2, <2>1, <2>2, <2>3, <2>4 DEF Complete, Followed, Due, StayingSeeds, Scope
<1>16. Spreading'
  BY <1>2 DEF Spreading, Scope
<1> QED
  BY <1>11, <1>12, <1>13, <1>14, <1>15, <1>16 DEF SearchIInv

LEMMA FetchShadesKeeps ==
    ASSUME SearchIInv, FetchShades, SearchTypeOK'
    PROVE  SearchIInv'
<1> DEFINE some == search.missing \cap db.shades
<1> USE NumbersOK
<1>1. /\ search.pc = "shades" /\ search'.pc = "rows" /\ search'.depth = search.depth + 1
      /\ search'.missing = {} /\ search'.visited = search.visited \cup some
      /\ search'.frontier = some
      /\ UNCHANGED <<db, Scope, search.queue, search.edges, search.read, search.cut>>
  BY SearchFields DEF FetchShades, SearchIInv, Searches, Scope
<1>2. /\ search.kind = "ghost" /\ search.depth \in Nat /\ search.read = {}
      /\ search.missing \cap search.visited = {}
  BY <1>1, SearchFields DEF SearchIInv, Shape
<1>3. search'.visited \ search'.frontier = search.visited
  BY <1>1, <1>2
<1>4. Shape'
  BY <1>1, <1>2 DEF SearchIInv, Shape, Scope
<1>5. Between'
  BY <1>1 DEF SearchIInv, Between, Scope
<1>6. Bounded'
  <2>1. /\ Cardinality(search.visited) \in Nat /\ IsFiniteSet(search.visited)
        /\ Cardinality(search.missing) \in Nat /\ IsFiniteSet(search.missing)
        /\ Cardinality(search.visited) + Cardinality(search.missing) <= MaxNodes
    BY <1>2, SearchSizes DEF Bounded, SearchIInv
  <2>2. IsFiniteSet(some) /\ Cardinality(some) \in Nat /\ Cardinality(some) <= Cardinality(search.missing)
    BY <2>1, FS_Subset, FS_CardinalityType
  <2>3. /\ Cardinality(search'.visited) \in Nat
        /\ Cardinality(search'.visited) <= Cardinality(search.visited) + Cardinality(some)
    BY <1>1, <2>1, <2>2, UnionBound
  <2>4. Cardinality({}) = 0
    BY FS_EmptySet
  <2> QED
    BY <1>1, <1>2, <2>1, <2>2, <2>3, <2>4 DEF SearchIInv, Bounded, Scope
<1>7. Found'
  <2>1. search.visited \subseteq Near(search.depth + 1)
    BY <1>2, NearGrows DEF SearchIInv, Found
  <2>2. search'.visited \subseteq Near(search.depth + 1)
    BY <1>1, <2>1 DEF SearchIInv, Found
  <2> QED
    BY <1>1, <1>2, <2>2 DEF SearchIInv, Found, Near, Scope
<1>8. Complete'
  <2> SUFFICES ASSUME ~search'.cut PROVE Complete'
    BY <1>1, <1>2 DEF Complete
  <2>1. ~search.cut
    BY <1>1
  <2>2. Complete
    BY DEF SearchIInv
  <2>3. Staying' = Staying /\ search'.depth - 1 = search.depth /\ search'.depth # 0
    BY <1>1, <1>2 DEF Staying, Scope
  <2>4. ASSUME NEW e \in Staying, Follows(search.kind, e, search.frontier)
        PROVE  e \in search'.edges /\ e[1] \in search'.visited /\ e[2] \in search'.visited
    <3>1. /\ e \in search.edges
          /\ e[1] \in search.visited \cup search.missing
          /\ e[2] \in search.visited \cup search.missing
      BY <1>1, <1>2, <2>1, <2>2, <2>4 DEF Complete
    <3>2. {e[1], e[2]} \subseteq db.shades
      BY <1>1, <1>2 DEF Staying, Stays, SearchIInv, Between, Contained
    <3> QED
      BY <1>1, <3>1, <3>2
  <2>5. Followed(search.visited \ search.frontier)'
    BY <1>1, <1>2, <1>3, <2>1, <2>3, <2>4, FollowedWithFrontier DEF Followed, Scope
  <2>6. Due(search.depth) \subseteq search.visited
    BY <1>2, <2>1, DueFound
  <2>7. Due(search.depth - 1)' \subseteq search'.visited \ search'.frontier
    BY <1>1, <1>3, <2>3, <2>6 DEF Due, StayingSeeds, Scope
  <2> QED
    BY <1>1, <1>2, <2>3, <2>5, <2>7 DEF Complete, Scope
<1>9. Spreading'
  BY <1>1, <1>2 DEF Spreading, Scope
<1> QED
  BY <1>4, <1>5, <1>6, <1>7, <1>8, <1>9 DEF SearchIInv

LEMMA EndSearchKeeps ==
    ASSUME SearchIInv, EndSearch \/ FetchNodes, SearchTypeOK'
    PROVE  SearchIInv'
<1>1. /\ \/ search.pc = "rows" /\ search'.pc = "nodes" /\ Over
         \/ search.pc = "nodes" /\ search'.pc = "done"
      /\ UNCHANGED <<db, Scope, Holding, InHand>>
  BY SearchFields DEF EndSearch, FetchNodes, SearchIInv, Searches, Scope, Holding, InHand
<1>2. search.kind \in {"lazy", "ghost"} /\ search.read = {} /\ search.missing = {}
  BY <1>1 DEF SearchIInv, Shape
<1>3. Shape'
  BY <1>1, <1>2 DEF SearchIInv, Shape, Scope, Holding, InHand
<1>4. Between'
  BY <1>1 DEF SearchIInv, Between, Scope
<1>5. Bounded'
  BY <1>1, <1>2 DEF SearchIInv, Bounded, Scope, Holding, InHand
<1>6. Found'
  BY <1>1 DEF SearchIInv, Found, Near, Scope, Holding, InHand
<1>7. Complete'
  BY <1>1, <1>2 DEF SearchIInv, Complete, Followed, Staying, Due, StayingSeeds, Over, MetLimit,
                    Scope, Holding, InHand
<1>8. Spreading'
  BY <1>1, <1>2 DEF Spreading, Scope
<1> QED
  BY <1>3, <1>4, <1>5, <1>6, <1>7, <1>8 DEF SearchIInv

-----------------------------------------------------------------------------
(* Others commit. *)

LEMMA WriterKeeps ==
    ASSUME SearchIInv, NEW new \in Commits, WriterCommits(new)
    PROVE  SearchIInv'
<1>1. new \in Databases /\ db' = new /\ writes' = writes + 1
  BY SearchAssumption DEF WriterCommits
<1>2. /\ search.kept \in Databases /\ search.ever \in Databases /\ search \in Searches
      /\ db \in Databases /\ writes \in Nat
  BY DEF SearchIInv, SearchTypeOK, Searches
<1>3. DOMAIN new = {"rows", "index", "learned", "shades"}
  BY <1>1 DEF Databases
<1> DEFINE kept == [table \in DOMAIN new |-> search.kept[table] \cap new[table]]
           ever == [table \in DOMAIN new |-> search.ever[table] \cup new[table]]
<1>4. search' = [search EXCEPT !.kept = kept, !.ever = ever]
  BY DEF WriterCommits
<1>5. /\ kept.rows = search.kept.rows \cap new.rows
      /\ kept.index = search.kept.index \cap new.index
      /\ kept.learned = search.kept.learned \cap new.learned
      /\ kept.shades = search.kept.shades \cap new.shades
      /\ ever.rows = search.ever.rows \cup new.rows
      /\ ever.index = search.ever.index \cup new.index
      /\ ever.learned = search.ever.learned \cup new.learned
      /\ ever.shades = search.ever.shades \cup new.shades
  BY <1>3
<1>6. /\ kept = [x \in {"rows", "index", "learned", "shades"} |-> kept[x]]
      /\ ever = [x \in {"rows", "index", "learned", "shades"} |-> ever[x]]
  BY <1>3
<1> HIDE DEF kept, ever
<1>7. ASSUME NEW d, d = [x \in {"rows", "index", "learned", "shades"} |-> d[x]],
             d.rows \in SUBSET Rows, d.index \in SUBSET Nodes,
             d.learned \in SUBSET Nodes, d.shades \in SUBSET Nodes
      PROVE  d \in Databases
  BY <1>7 DEF Databases
<1>8. kept \in Databases /\ ever \in Databases
  <2>1. /\ kept.rows \in SUBSET Rows /\ kept.index \in SUBSET Nodes
        /\ kept.learned \in SUBSET Nodes /\ kept.shades \in SUBSET Nodes
        /\ ever.rows \in SUBSET Rows /\ ever.index \in SUBSET Nodes
        /\ ever.learned \in SUBSET Nodes /\ ever.shades \in SUBSET Nodes
    BY <1>1, <1>2, <1>5 DEF Databases
  <2> QED
    BY <1>6, <1>7, <2>1
<1>9. SearchTypeOK'
  <2>1. search' \in Searches
    BY <1>2, <1>4, <1>8 DEF Searches
  <2> QED
    BY <1>1, <1>2, <2>1 DEF SearchTypeOK
<1>10. /\ search'.kept = kept /\ search'.ever = ever
       /\ UNCHANGED <<search.pc, search.kind, search.seeds, Holding, InHand>>
  BY <1>2, <1>4 DEF Searches, Holding, InHand
<1>11. Contained(kept, search.kept) /\ Contained(kept, new)
       /\ Contained(search.ever, ever) /\ Contained(new, ever)
  BY <1>5 DEF Contained
<1>12. Staying' \subseteq Staying
  BY <1>10, <1>11 DEF Staying, Stays, EdgesOf, Contained
<1>13. ASSUME NEW n \in Nat
       PROVE  Within(search.kind, StayingSeeds', Staying', n)
                \subseteq Within(search.kind, StayingSeeds, Staying, n)
  <2>1. StayingSeeds' \subseteq StayingSeeds
    BY <1>10, <1>11 DEF StayingSeeds, Contained
  <2> QED
    BY <1>12, <2>1, WithinMonotone
<1>14. ASSUME NEW n \in Nat
       PROVE  Within(search.kind, search.seeds, EdgesOf(search.kind, search.ever), n)
                \subseteq Within(search.kind, search.seeds, EdgesOf(search.kind, ever), n)
  <2>1. EdgesOf(search.kind, search.ever) \subseteq EdgesOf(search.kind, ever)
    BY <1>11 DEF EdgesOf, Contained
  <2> QED
    BY <2>1, WithinMonotone
<1>15. ASSUME NEW nodes, NEW fewer, fewer \subseteq nodes, Followed(nodes) PROVE Followed(fewer)'
  BY <1>10, <1>12, <1>15 DEF Followed, Follows, Holding
<1>16. search.depth \in Nat /\ MaxDepth \in Nat \ {0}
  BY SearchFields, NumbersOK DEF SearchIInv
<1>17. Shape'
  BY <1>10 DEF SearchIInv, Shape, Holding, InHand
<1>18. Between'
  BY <1>1, <1>10, <1>11 DEF Between
<1>19. Bounded'
  BY <1>10 DEF SearchIInv, Bounded, Limit, Holding, InHand
<1>20. Found'
  <2> DEFINE near(n) == Within(search.kind, search.seeds, EdgesOf(search.kind, search.ever), n)
             nearer(n) == Within(search.kind, search.seeds, EdgesOf(search.kind, ever), n)
  <2>1. \A n \in Nat : near(n) \subseteq nearer(n)
    BY <1>14
  <2> HIDE DEF near, nearer
  <2>2. /\ search.kind # "spread" => search.visited \subseteq near(search.depth)
        /\ search.kind = "spread" => search.visited \subseteq near(MaxDepth)
        /\ \A i \in DOMAIN search.queue : search.queue[i][1] \in near(search.queue[i][2])
        /\ search.missing \subseteq near(search.depth + 1)
    BY DEF SearchIInv, Found, Near, near
  <2>3. \A i \in DOMAIN search.queue : search.queue[i][2] \in Nat
    BY SearchFields DEF SearchIInv
  <2>4. /\ search.kind # "spread" => search.visited \subseteq nearer(search.depth)
        /\ search.kind = "spread" => search.visited \subseteq nearer(MaxDepth)
        /\ \A i \in DOMAIN search.queue : search.queue[i][1] \in nearer(search.queue[i][2])
        /\ search.missing \subseteq nearer(search.depth + 1)
    BY <1>16, <2>1, <2>2, <2>3
  <2>5. \A row \in search.read :
           /\ row \in ever.rows /\ row[2] \in TablesOf(search.kind)
           /\ Follows(search.kind, row[1], search.frontier)
    BY <1>11 DEF SearchIInv, Found, Contained
  <2> QED
    BY <1>10, <2>4, <2>5 DEF Found, Near, nearer, Holding, InHand
<1>21. Complete'
  <2> SUFFICES ASSUME search.kind # "spread", ~search.cut PROVE Complete'
    BY <1>10 DEF Complete, Holding
  <2>1. Complete
    BY DEF SearchIInv
  <2>2. Followed(search.visited \ search.frontier)'
    BY <1>10, <1>15, <2>1 DEF Complete, Holding
  <2>3. search.depth > 0 => Due(search.depth - 1)' \subseteq search.visited \ search.frontier
    BY <1>10, <1>13, <1>16, <2>1 DEF Complete, Due, Staying, Holding
  <2>4. search.kept.rows \cap kept.rows = kept.rows
    BY <1>11 DEF Contained
  <2> QED
    BY <1>10, <1>12, <2>1, <2>2, <2>3, <2>4 DEF Complete, MetLimit, Holding, InHand
<1>22. Spreading'
  <2> SUFFICES ASSUME search.kind = "spread" PROVE Spreading'
    BY <1>10 DEF Spreading
  <2>1. Spreading
    BY DEF SearchIInv
  <2>2. Exhausted => Exhausted'
    BY <1>10, <1>13, <1>15, <1>16 DEF Exhausted, Due, Staying, Holding
  <2>3. Pending => Pending'
    <3> DEFINE depth == search.queue[1][2]
               due(n) == Within(search.kind, StayingSeeds, Staying, n)
               stillDue(n) == Within(search.kind, StayingSeeds', Staying', n)
    <3>1. ASSUME NEW n, Followed({n}) PROVE Followed({n})'
      BY <1>15, <3>1
    <3>2. ASSUME Pending, search.queue # <<>>
          PROVE  /\ depth > 0 =>
                       \A e \in Staying' : Follows(search.kind, e, stillDue(depth - 1)) =>
                          e \in search.edges /\ e[1] \in search.visited /\ e[2] \in search.visited
                 /\ \A n \in stillDue(depth) :
                       Followed({n})' \/ \E i \in DOMAIN search.queue : search.queue[i] = <<n, depth>>
      <4>1. depth \in Nat
        BY <3>2, SearchFields DEF SearchIInv
      <4> HIDE DEF depth
      <4>2. depth > 0 => stillDue(depth - 1) \subseteq due(depth - 1)
        BY <1>13, <4>1
      <4>3. stillDue(depth) \subseteq due(depth)
        BY <1>13, <4>1
      <4> HIDE DEF due, stillDue
      <4>4. /\ depth > 0 => Followed(due(depth - 1))
            /\ \A n \in due(depth) :
                  Followed({n}) \/ \E i \in DOMAIN search.queue : search.queue[i] = <<n, depth>>
        BY <3>2 DEF Pending, Due, Staying, due, depth
      <4> QED
        BY <1>12, <3>1, <4>2, <4>3, <4>4 DEF Followed, Follows
    <3>3. ASSUME Pending, NEW n \in search.visited PROVE (Followed({n}) \/ Queued(n))'
      <4>1. Followed({n}) \/ Queued(n)
        BY <3>3 DEF Pending
      <4>2. Queued(n) => Queued(n)'
        BY <1>10 DEF Queued, Holding
      <4> QED
        BY <3>1, <4>1, <4>2
    <3>4. ASSUME Pending, search.queue # <<>>, depth > 0 PROVE Followed(Due(depth - 1))'
      BY <1>10, <3>2, <3>4 DEF Followed, Due, Staying, Holding
    <3> QED
      BY <1>10, <3>2, <3>3, <3>4 DEF Pending, Due, Staying, Holding
  <2>4. Due(MaxDepth)' \subseteq Due(MaxDepth) /\ Due(MaxDepth - 1)' \subseteq Due(MaxDepth - 1)
    BY <1>10, <1>13, <1>16 DEF Due, Staying
  <2>5. Ordered(search.queue)'
    BY <1>10, <2>1 DEF Spreading, Ordered, Holding
  <2>6. ASSUME NEW e \in Staying', Follows(search.kind, e, Due(MaxDepth - 1)')
        PROVE  e \in Staying /\ Follows(search.kind, e, Due(MaxDepth - 1))
    BY <1>12, <2>4, <2>6 DEF Follows
  <2>7. AnswerEdges' = AnswerEdges
    BY <1>10 DEF AnswerEdges, Holding
  <2> QED
    BY <1>10, <2>1, <2>2, <2>3, <2>4, <2>5, <2>6, <2>7 DEF Spreading, Holding
<1> QED
  BY <1>9, <1>17, <1>18, <1>19, <1>20, <1>21, <1>22 DEF SearchIInv

-----------------------------------------------------------------------------
(* Spreading activation. *)

\* What is in a queue whose first entry makes room for others at its end.
Moved(old, entries, new) ==
    /\ 1 \in DOMAIN old
    /\ \A i \in DOMAIN old : i \in Nat /\ i >= 1
    /\ \A i \in DOMAIN new :
          /\ i \in Nat /\ i >= 1 /\ 1 \in DOMAIN new
          /\ \/ i + 1 \in DOMAIN old /\ new[i] = old[i + 1]
             \/ i + 1 \notin DOMAIN old /\ \E j \in DOMAIN entries : new[i] = entries[j]
    /\ \A i \in DOMAIN old : i # 1 => i - 1 \in DOMAIN new /\ new[i - 1] = old[i]
    /\ \A j \in DOMAIN entries : \E i \in DOMAIN new : new[i] = entries[j]

LEMMA QueueMoves ==
    ASSUME NEW S, NEW old \in Seq(S), old # <<>>, NEW entries \in Seq(S)
    PROVE  Moved(old, entries, Tail(old) \o entries) /\ Tail(old) \o entries \in Seq(S)
<1> DEFINE new == Tail(old) \o entries
<1>1. /\ Tail(old) \in Seq(S) /\ Len(Tail(old)) = Len(old) - 1
      /\ \A i \in 1 .. Len(Tail(old)) : Tail(old)[i] = old[i + 1]
  BY HeadTailProperties
<1>2. /\ Len(old) \in Nat \ {0} /\ DOMAIN old = 1 .. Len(old)
      /\ Len(entries) \in Nat /\ DOMAIN entries = 1 .. Len(entries)
  BY LenProperties, EmptySeq
<1>3. /\ new \in Seq(S) /\ Len(new) = Len(old) - 1 + Len(entries)
      /\ \A i \in 1 .. Len(old) - 1 + Len(entries) :
            new[i] = IF i <= Len(old) - 1 THEN Tail(old)[i] ELSE entries[i - (Len(old) - 1)]
  BY <1>1, <1>2, ConcatProperties
<1>4. DOMAIN new = 1 .. Len(old) - 1 + Len(entries)
  BY <1>3, LenProperties
<1> HIDE DEF new
<1>5. ASSUME NEW i \in DOMAIN new
      PROVE  \/ i + 1 \in DOMAIN old /\ new[i] = old[i + 1]
             \/ i + 1 \notin DOMAIN old /\ \E j \in DOMAIN entries : new[i] = entries[j]
  <2>1. CASE i <= Len(old) - 1
    BY <1>1, <1>2, <1>3, <1>4, <2>1
  <2>2. CASE i > Len(old) - 1
    <3>1. i - (Len(old) - 1) \in DOMAIN entries
      BY <1>2, <1>4, <2>2
    <3>2. new[i] = entries[i - (Len(old) - 1)] /\ i + 1 \notin DOMAIN old
      BY <1>2, <1>3, <1>4, <2>2
    <3> QED
      BY <3>1, <3>2
  <2> QED
    BY <1>2, <1>4, <2>1, <2>2
<1>6. ASSUME NEW i \in DOMAIN old, i # 1
      PROVE  i - 1 \in DOMAIN new /\ new[i - 1] = old[i]
  <2>1. i - 1 \in 1 .. Len(old) - 1 /\ (i - 1) + 1 = i
    BY <1>2, <1>6
  <2> QED
    BY <1>1, <1>2, <1>3, <1>4, <2>1
<1>7. ASSUME NEW j \in DOMAIN entries PROVE \E i \in DOMAIN new : new[i] = entries[j]
  <2> DEFINE i == Len(old) - 1 + j
  <2>1. i \in DOMAIN new /\ i - (Len(old) - 1) = j /\ ~ (i <= Len(old) - 1)
    BY <1>2, <1>4, <1>7
  <2>2. new[i] = entries[j]
    BY <1>3, <1>4, <2>1
  <2> QED
    BY <2>1, <2>2
<1>8. Moved(old, entries, new)
  BY <1>2, <1>4, <1>5, <1>6, <1>7 DEF Moved
<1> QED
  BY <1>3, <1>8 DEF new

LEMMA MovedEntry ==
    ASSUME NEW old, NEW entries, NEW new, Moved(old, entries, new), NEW i \in DOMAIN new
    PROVE  \/ \E j \in DOMAIN old : new[i] = old[j]
           \/ \E j \in DOMAIN entries : new[i] = entries[j]
BY DEF Moved

\* Entries one step deeper than the one they replace keep the order of a queue.
LEMMA OrderedMoves ==
    ASSUME NEW old \in Seq(Nodes \X (0 .. MaxDepth)), Ordered(old),
           NEW entries \in Seq(Nodes \X (0 .. MaxDepth)),
           \A j \in DOMAIN entries : entries[j][2] = old[1][2] + 1,
           NEW new, Moved(old, entries, new)
    PROVE  /\ Ordered(new)
           /\ \A i \in DOMAIN new :
                 /\ new[i][2] \in Nat /\ old[1][2] <= new[i][2] /\ new[i][2] <= old[1][2] + 1
<1> DEFINE depth == old[1][2]
<1>1. /\ 1 \in DOMAIN old
      /\ \A i \in DOMAIN old : i \in Nat /\ i >= 1 /\ old[i][2] \in Nat
      /\ \A i \in DOMAIN new :
            /\ i \in Nat /\ i >= 1 /\ 1 \in DOMAIN new
            /\ \/ i + 1 \in DOMAIN old /\ new[i] = old[i + 1]
               \/ i + 1 \notin DOMAIN old /\ \E j \in DOMAIN entries : new[i] = entries[j]
  <2>1. \A i \in DOMAIN old : old[i][2] \in Nat
    BY NumbersOK
  <2> QED
    BY <2>1 DEF Moved
<1>2. \A i, j \in DOMAIN old : i < j => old[i][2] <= old[j][2] /\ old[j][2] <= depth + 1
  BY DEF Ordered
<1>3. \A i \in DOMAIN new : i + 1 \notin DOMAIN old => new[i][2] = depth + 1
  BY <1>1
<1>4. \A i \in DOMAIN old : \A j \in Nat : j >= 1 /\ j < i => j \in DOMAIN old
  BY <1>1, LenProperties
<1>5. ASSUME NEW i \in DOMAIN new
      PROVE  new[i][2] \in Nat /\ depth <= new[i][2] /\ new[i][2] <= depth + 1
  <2>1. depth \in Nat
    BY <1>1
  <2>2. CASE i + 1 \in DOMAIN old
    <3>1. new[i] = old[i + 1] /\ 1 < i + 1
      BY <1>1, <2>2
    <3> QED
      BY <1>1, <1>2, <2>1, <2>2, <3>1
  <2>3. CASE i + 1 \notin DOMAIN old
    BY <1>3, <2>1, <2>3
  <2> QED
    BY <2>2, <2>3
<1>6. ASSUME NEW i \in DOMAIN new, NEW j \in DOMAIN new, i < j
      PROVE  new[i][2] <= new[j][2]
  <2>1. CASE j + 1 \in DOMAIN old
    <3>1. i + 1 \in DOMAIN old /\ i + 1 < j + 1
      BY <1>1, <1>4, <1>6, <2>1
    <3> QED
      BY <1>1, <1>2, <2>1, <3>1
  <2>2. CASE j + 1 \notin DOMAIN old
    BY <1>3, <1>5, <2>2
  <2> QED
    BY <2>1, <2>2
<1>7. ASSUME NEW i \in DOMAIN new, NEW j \in DOMAIN new, i < j
      PROVE  new[j][2] <= new[1][2] + 1
  <2>1. 1 \in DOMAIN new
    BY <1>1
  <2>2. depth \in Nat
    BY <1>1
  <2> QED
    <3>1. new[1][2] \in Nat /\ depth <= new[1][2]
      BY <1>5, <2>1
    <3>2. new[j][2] \in Nat /\ new[j][2] <= depth + 1
      BY <1>5
    <3>3. \A a, b, c \in Nat : c <= b /\ a <= c + 1 => a <= b + 1
      OBVIOUS
    <3> HIDE DEF depth
    <3> QED
      BY <2>2, <3>1, <3>2, <3>3, Zenon
<1> QED
  BY <1>1, <1>5, <1>6, <1>7 DEF Ordered

\* An activation follows a node when its relations are held.
LEMMA FollowedEach ==
    ASSUME search.kind = "spread", NEW nodes
    PROVE  Followed(nodes) <=> \A n \in nodes : Followed({n})
BY DEF Followed, Follows

\* With everything followed that is due before the last step, what is due is found.
LEMMA ExhaustedFinds ==
    ASSUME Exhausted
    PROVE  /\ Due(MaxDepth) \subseteq search.visited
           /\ \A e \in Staying : Follows(search.kind, e, Due(MaxDepth - 1)) =>
                 e \in search.edges /\ e[1] \in search.visited /\ e[2] \in search.visited
<1> USE NumbersOK
<1>1. Followed(Due(MaxDepth - 1)) /\ Due(0) \subseteq search.visited
  BY DEF Exhausted
<1> DEFINE S == {n \in Nat : n <= MaxDepth => Due(n) \subseteq search.visited}
<1>2. 0 \in S
  BY <1>1
<1>3. ASSUME NEW n \in Nat, n \in S PROVE n + 1 \in S
  <2> SUFFICES ASSUME n + 1 <= MaxDepth PROVE Due(n + 1) \subseteq search.visited
    OBVIOUS
  <2>1. Due(n) \subseteq search.visited
    BY <1>3
  <2>2. Due(n) \subseteq Due(MaxDepth - 1)
    <3>1. MaxDepth - 1 \in Nat /\ n <= MaxDepth - 1
      OBVIOUS
    <3> QED
      BY <3>1, NearGrows
  <2>3. ASSUME NEW e \in Staying, Follows(search.kind, e, Due(n))
        PROVE  e[1] \in search.visited /\ e[2] \in search.visited
    BY <1>1, <2>2, <2>3 DEF Followed, Follows
  <2>4. Due(n + 1) = Step(search.kind, Staying, Due(n))
    BY WithinNext DEF Due, Staying
  <2> QED
    BY <2>1, <2>3, <2>4, StepMember
<1> HIDE DEF S
<1>4. Nat \subseteq S
  BY <1>2, <1>3, SetInduction
<1> QED
  BY <1>1, <1>4 DEF S, Followed

LEMMA SeedSpreadKeeps ==
    ASSUME SearchIInv, SeedSpread, SearchTypeOK'
    PROVE  SearchIInv'
<1> USE NumbersOK
<1>1. PICK seeds \in SUBSET search.ever.index :
         /\ Cardinality(seeds) <= SeedLimit
         /\ \E entries \in Entries(seeds, 0) :
               search' = [search EXCEPT !.pc = "spread", !.seeds = seeds, !.visited = seeds,
                                        !.queue = entries]
  BY DEF SeedSpread
<1>2. PICK entries \in Entries(seeds, 0) :
         search' = [search EXCEPT !.pc = "spread", !.seeds = seeds, !.visited = seeds,
                                  !.queue = entries]
  BY <1>1
<1>3. seeds \in SUBSET Nodes /\ Cardinality(seeds) \in Nat
  BY SearchFields, FiniteGraph DEF SearchIInv, SearchTypeOK, Searches, Databases
<1>4. /\ entries \in Seq(Nodes \X (0 .. MaxDepth))
      /\ \A i \in DOMAIN entries : entries[i][1] \in seeds /\ entries[i][2] = 0
      /\ \A n \in seeds : \E i \in DOMAIN entries : entries[i][1] = n
  <2>1. /\ entries \in Seq(Nodes \X (0 .. MaxDepth))
        /\ \A i \in 1 .. Len(entries) : entries[i][1] \in seeds /\ entries[i][2] = 0
        /\ \A n \in seeds : \E i \in 1 .. Len(entries) : entries[i][1] = n
    <3>1. 0 \in 0 .. MaxDepth
      OBVIOUS
    <3> QED
      BY <1>3, <3>1, EntriesAre
  <2> QED
    BY <2>1, LenProperties
<1>5. /\ search.pc = "kindle" /\ search'.pc = "spread" /\ search'.seeds = seeds
      /\ search'.visited = seeds /\ search'.queue = entries
      /\ UNCHANGED <<db, search.kind, search.kept, search.ever, search.edges, search.frontier,
                     search.depth, search.cut, InHand>>
  BY <1>2, SearchFields DEF SeedSpread, SearchIInv, Searches, InHand
<1>6. /\ search.kind = "spread" /\ search.edges = {} /\ search.frontier = {}
      /\ search.read = {} /\ search.missing = {} /\ search.depth = 0
  BY <1>5 DEF SearchIInv, Shape
<1>7. Shape'
  BY <1>5, <1>6 DEF Shape, InHand
<1>8. Between'
  BY <1>5 DEF SearchIInv, Between
<1>9. Bounded'
  BY <1>1, <1>3, <1>5, <1>6 DEF Bounded, Most
<1>10. Found'
  <2>1. /\ Within(search.kind, seeds, EdgesOf(search.kind, search.ever), 0) = seeds
        /\ seeds \subseteq Within(search.kind, seeds, EdgesOf(search.kind, search.ever), MaxDepth)
    BY WithinZero, WithinGrows
  <2> QED
    BY <1>4, <1>5, <1>6, <2>1 DEF Found, Near, InHand
<1>11. Complete'
  BY <1>5, <1>6 DEF Complete
<1>12. Spreading'
  <2>1. Ordered(entries)
    BY <1>4 DEF Ordered
  <2>2. StayingSeeds' \subseteq seeds
    BY <1>5 DEF StayingSeeds
  <2>3. Within(search.kind, StayingSeeds', Staying', 0) \subseteq seeds
    BY <2>2, WithinZero
  <2>4. ASSUME NEW n \in seeds PROVE \E i \in DOMAIN entries : entries[i] = <<n, 0>>
    <3>1. PICK i \in DOMAIN entries : entries[i][1] = n
      BY <1>4
    <3>2. entries[i] \in Nodes \X (0 .. MaxDepth) /\ entries[i][2] = 0
      BY <1>4, LenProperties
    <3> QED
      BY <3>1, <3>2
  <2>5. Pending'
    <3>1. entries # <<>> => entries[1][2] = 0
      BY <1>4, LenProperties, EmptySeq
    <3> QED
      BY <1>4, <1>5, <1>6, <2>3, <2>4, <3>1 DEF Pending, Queued, Due, Staying
  <2> QED
    BY <1>4, <1>5, <1>6, <2>1, <2>5 DEF Spreading
<1> QED
  BY <1>7, <1>8, <1>9, <1>10, <1>11, <1>12 DEF SearchIInv

LEMMA SkipEntryKeeps ==
    ASSUME SearchIInv, SkipEntry, SearchTypeOK'
    PROVE  SearchIInv'
<1> USE NumbersOK
<1> DEFINE old == search.queue
           depth == old[1][2]
<1>1. /\ search.pc = "spread" /\ old # <<>>
      /\ Head(old)[2] >= MaxDepth \/ TooManyScored
      /\ search'.queue = Tail(old) /\ search'.cut = (search.cut \/ TooManyScored)
      /\ UNCHANGED <<db, Scope, search.pc, search.visited, search.edges, search.frontier,
                     search.depth, InHand>>
  BY SearchFields DEF SkipEntry, SearchIInv, Searches, Scope, InHand
<1>2. /\ search.kind = "spread" /\ old \in Seq(Nodes \X (0 .. MaxDepth))
  BY <1>1, SearchFields DEF SearchIInv, Shape
<1>3. /\ <<>> \in Seq(Nodes \X (0 .. MaxDepth)) /\ DOMAIN <<>> = {}
      /\ Moved(old, <<>>, Tail(old))
  <2>1. Tail(old) \o <<>> = Tail(old)
    BY <1>1, <1>2, HeadTailProperties, ConcatEmptySeq
  <2> QED
    <3>1. <<>> \in Seq(Nodes \X (0 .. MaxDepth)) /\ DOMAIN <<>> = {}
      BY EmptySeq
    <3>2. Moved(old, <<>>, Tail(old) \o <<>>)
      BY <1>1, <1>2, <3>1, QueueMoves
    <3> QED
      BY <2>1, <3>1, <3>2
<1>4. \A i \in DOMAIN Tail(old) : i + 1 \in DOMAIN old /\ Tail(old)[i] = old[i + 1]
  BY <1>1, <1>2, HeadTailProperties, LenProperties
<1>5. Shape'
  BY <1>1, <1>2 DEF SearchIInv, Shape, Scope, InHand
<1>6. Between'
  BY <1>1 DEF SearchIInv, Between, Scope
<1>7. Bounded'
  BY <1>1, <1>2 DEF SearchIInv, Bounded, Scope
<1>8. Found'
  BY <1>1, <1>2, <1>4 DEF SearchIInv, Found, Near, Scope, InHand
<1>9. Complete'
  BY <1>1, <1>2 DEF Complete, Scope
<1>10. Spreading'
  <2>1. Spreading
    BY DEF SearchIInv
  <2>2. Ordered(Tail(old))
    BY <1>1, <1>2, <1>3, <2>1, OrderedMoves DEF Spreading
  <2>3. \A i \in DOMAIN Tail(old) : Tail(old)[i][1] \in search.visited
    BY <1>2, <1>4, <2>1 DEF Spreading
  <2>4. ASSUME ~search'.cut
        PROVE  Exhausted
    <3>1. ~search.cut /\ Head(old)[2] >= MaxDepth
      BY <1>1, <2>4
    <3>2. search.seeds \subseteq search.visited
      BY <1>1, <1>2, <2>1, <3>1 DEF Spreading
    <3>3. CASE Pending
      <4>1. depth = MaxDepth
        BY <1>1, <1>2, <3>1, LenProperties, EmptySeq
      <4>2. Followed(Due(MaxDepth - 1))
        BY <1>1, <3>3, <4>1 DEF Pending
      <4>3. Due(0) \subseteq search.seeds
        BY WithinZero DEF Due, StayingSeeds
      <4> QED
        BY <3>2, <4>2, <4>3 DEF Exhausted
    <3> QED
      BY <1>1, <1>2, <2>1, <3>1, <3>3 DEF Spreading
  <2>5. Exhausted => Exhausted'
    BY <1>1 DEF Exhausted, Followed, Due, StayingSeeds, Staying, Scope
  <2>6. ~search'.cut => search.seeds \subseteq search.visited
    BY <1>1, <1>2, <2>1 DEF Spreading
  <2> QED
    BY <1>1, <1>2, <2>2, <2>3, <2>4, <2>5, <2>6 DEF Spreading, Scope
<1> QED
  BY <1>5, <1>6, <1>7, <1>8, <1>9, <1>10 DEF SearchIInv

\* What the relations of the first entry do to a search.
LEMMA SpreadEntryDoes ==
    ASSUME SearchIInv, SpreadEntry
    PROVE  LET node == Head(search.queue)[1]
               depth == Head(search.queue)[2]
               rows == {r \in db.rows : r[2] = "stats" /\ r[1][1] = node /\ r[1][2] \in db.index}
           IN /\ search.kind = "spread" /\ search.pc = "spread" /\ search.queue # <<>>
              /\ 1 \in DOMAIN search.queue /\ Head(search.queue) = search.queue[1]
              /\ depth \in Nat /\ depth + 1 \in 0 .. MaxDepth
              /\ ~TooManyScored
              /\ \E some \in SUBSET rows : \E targets \in SUBSET Nodes :
                 \E entries \in Seq(Nodes \X (0 .. MaxDepth)) :
                    /\ targets = {r[1][2] : r \in some}
                    /\ IsFiniteSet(some) /\ Cardinality(some) \in Nat /\ Cardinality(some) <= FanOut
                    /\ \A i \in DOMAIN entries : entries[i][1] \in targets /\ entries[i][2] = depth + 1
                    /\ \A n \in targets \ search.visited : \E i \in DOMAIN entries : entries[i][1] = n
                    /\ search'.queue = Tail(search.queue) \o entries
                    /\ search'.visited = search.visited \cup targets
                    /\ search'.edges = search.edges \cup {r[1] : r \in some}
                    /\ search'.cut = (search.cut \/ some # rows)
                    /\ UNCHANGED <<db, Scope, search.pc, search.frontier, search.depth, InHand>>
<1> DEFINE node == Head(search.queue)[1]
           depth == Head(search.queue)[2]
           rows == {r \in db.rows : r[2] = "stats" /\ r[1][1] = node /\ r[1][2] \in db.index}
<1> USE NumbersOK
<1>1. /\ search.pc = "spread" /\ search.queue # <<>>
      /\ ~(Head(search.queue)[2] >= MaxDepth \/ TooManyScored)
  BY DEF SpreadEntry
<1>2. /\ search.kind = "spread" /\ search.queue \in Seq(Nodes \X (0 .. MaxDepth))
      /\ db.rows \in SUBSET Rows
  BY <1>1, SearchFields DEF SearchIInv, Shape
<1>3. /\ 1 \in DOMAIN search.queue /\ Head(search.queue) = search.queue[1]
      /\ search.queue[1] \in Nodes \X (0 .. MaxDepth)
  BY <1>1, <1>2, LenProperties, EmptySeq
<1>4. depth \in Nat /\ depth + 1 \in 0 .. MaxDepth /\ ~TooManyScored
  BY <1>1, <1>3
<1>5. PICK some \in Select(rows, FanOut) :
         \E risen \in SUBSET ({r[1][2] : r \in some} \cap search.visited) :
         \E entries \in Entries(({r[1][2] : r \in some} \ search.visited) \cup risen, depth + 1) :
            search' = [search EXCEPT !.queue = Tail(@) \o entries,
                                     !.visited = @ \cup {r[1][2] : r \in some},
                                     !.edges = @ \cup {r[1] : r \in some},
                                     !.cut = @ \/ some # rows]
  BY DEF SpreadEntry
<1> DEFINE targets == {r[1][2] : r \in some}
           edges == {r[1] : r \in some}
<1>6. PICK risen \in SUBSET (targets \cap search.visited) :
         \E entries \in Entries((targets \ search.visited) \cup risen, depth + 1) :
            search' = [search EXCEPT !.queue = Tail(@) \o entries,
                                     !.visited = @ \cup targets,
                                     !.edges = @ \cup edges,
                                     !.cut = @ \/ some # rows]
  BY <1>5
<1>7. PICK entries \in Entries((targets \ search.visited) \cup risen, depth + 1) :
         search' = [search EXCEPT !.queue = Tail(@) \o entries,
                                  !.visited = @ \cup targets,
                                  !.edges = @ \cup edges,
                                  !.cut = @ \/ some # rows]
  BY <1>6
<1>8. IsFiniteSet(rows)
  <2>1. rows \in SUBSET Rows
    BY <1>2
  <2> QED
    BY <2>1, FiniteGraph
<1> HIDE DEF rows
<1>9. some \subseteq rows /\ IsFiniteSet(some) /\ Cardinality(some) \in Nat /\ Cardinality(some) <= FanOut
  BY <1>5, <1>8, Selected
<1>10. targets \in SUBSET Nodes
  BY <1>2, <1>9, EdgeNodes DEF Rows, rows
<1> HIDE DEF targets, edges, depth
<1> DEFINE nodes == (targets \ search.visited) \cup risen
<1>11. nodes \in SUBSET Nodes /\ nodes \subseteq targets /\ targets \ search.visited \subseteq nodes
  BY <1>6, <1>10
<1> HIDE DEF nodes
<1>12. /\ entries \in Seq(Nodes \X (0 .. MaxDepth))
       /\ \A i \in DOMAIN entries : entries[i][1] \in nodes /\ entries[i][2] = depth + 1
       /\ \A n \in nodes : \E i \in DOMAIN entries : entries[i][1] = n
  <2>1. entries \in Entries(nodes, depth + 1)
    BY <1>7 DEF nodes
  <2>2. /\ entries \in Seq(Nodes \X (0 .. MaxDepth))
        /\ \A i \in 1 .. Len(entries) : entries[i][1] \in nodes /\ entries[i][2] = depth + 1
        /\ \A n \in nodes : \E i \in 1 .. Len(entries) : entries[i][1] = n
    BY <1>4, <1>11, <2>1, EntriesAre
  <2> QED
    BY <2>2, LenProperties
<1>13. /\ search'.queue = Tail(search.queue) \o entries
       /\ search'.visited = search.visited \cup targets
       /\ search'.edges = search.edges \cup edges
       /\ search'.cut = (search.cut \/ some # rows)
       /\ UNCHANGED <<db, Scope, search.pc, search.frontier, search.depth, InHand>>
  BY <1>7, SearchFields DEF SpreadEntry, SearchIInv, Searches, Scope, InHand
<1>14. /\ \A i \in DOMAIN entries : entries[i][1] \in targets /\ entries[i][2] = depth + 1
       /\ \A n \in targets \ search.visited : \E i \in DOMAIN entries : entries[i][1] = n
  BY <1>11, <1>12
<1>15. \E some1 \in SUBSET rows : \E targets1 \in SUBSET Nodes :
       \E entries1 \in Seq(Nodes \X (0 .. MaxDepth)) :
          /\ targets1 = {r[1][2] : r \in some1}
          /\ IsFiniteSet(some1) /\ Cardinality(some1) \in Nat /\ Cardinality(some1) <= FanOut
          /\ \A i \in DOMAIN entries1 : entries1[i][1] \in targets1 /\ entries1[i][2] = depth + 1
          /\ \A n \in targets1 \ search.visited : \E i \in DOMAIN entries1 : entries1[i][1] = n
          /\ search'.queue = Tail(search.queue) \o entries1
          /\ search'.visited = search.visited \cup targets1
          /\ search'.edges = search.edges \cup {r[1] : r \in some1}
          /\ search'.cut = (search.cut \/ some1 # rows)
          /\ UNCHANGED <<db, Scope, search.pc, search.frontier, search.depth, InHand>>
  <2> USE <1>9, <1>10, <1>12
  <2> WITNESS some \in SUBSET rows
  <2> WITNESS targets \in SUBSET Nodes
  <2> WITNESS entries \in Seq(Nodes \X (0 .. MaxDepth))
  <2> QED
    BY <1>13, <1>14 DEF targets, edges
<1> QED
  BY <1>1, <1>2, <1>3, <1>4, <1>15 DEF rows, depth

LEMMA SpreadEntryKeeps ==
    ASSUME SearchIInv, SpreadEntry, SearchTypeOK'
    PROVE  SearchIInv'
<1> DEFINE Q == Nodes \X (0 .. MaxDepth)
           old == search.queue
           node == Head(old)[1]
           depth == Head(old)[2]
           rows == {r \in db.rows : r[2] = "stats" /\ r[1][1] = node /\ r[1][2] \in db.index}
<1> USE NumbersOK
<1>1. /\ search.kind = "spread" /\ search.pc = "spread" /\ old # <<>>
      /\ 1 \in DOMAIN old /\ node = old[1][1] /\ depth = old[1][2]
      /\ depth \in Nat /\ depth + 1 \in 0 .. MaxDepth
      /\ ~TooManyScored
  BY SpreadEntryDoes
<1>2. PICK some \in SUBSET rows : \E targets \in SUBSET Nodes : \E entries \in Seq(Q) :
         /\ targets = {r[1][2] : r \in some}
         /\ IsFiniteSet(some) /\ Cardinality(some) \in Nat /\ Cardinality(some) <= FanOut
         /\ \A i \in DOMAIN entries : entries[i][1] \in targets /\ entries[i][2] = depth + 1
         /\ \A n \in targets \ search.visited : \E i \in DOMAIN entries : entries[i][1] = n
         /\ search'.queue = Tail(old) \o entries
         /\ search'.visited = search.visited \cup targets
         /\ search'.edges = search.edges \cup {r[1] : r \in some}
         /\ search'.cut = (search.cut \/ some # rows)
         /\ UNCHANGED <<db, Scope, search.pc, search.frontier, search.depth, InHand>>
  BY SpreadEntryDoes
<1>3. PICK targets \in SUBSET Nodes, entries \in Seq(Q) :
         /\ targets = {r[1][2] : r \in some}
         /\ IsFiniteSet(some) /\ Cardinality(some) \in Nat /\ Cardinality(some) <= FanOut
         /\ \A i \in DOMAIN entries : entries[i][1] \in targets /\ entries[i][2] = depth + 1
         /\ \A n \in targets \ search.visited : \E i \in DOMAIN entries : entries[i][1] = n
         /\ search'.queue = Tail(old) \o entries
         /\ search'.visited = search.visited \cup targets
         /\ search'.edges = search.edges \cup {r[1] : r \in some}
         /\ search'.cut = (search.cut \/ some # rows)
         /\ UNCHANGED <<db, Scope, search.pc, search.frontier, search.depth, InHand>>
  BY <1>2
<1>4. old \in Seq(Q) /\ \A i \in DOMAIN old : old[i] \in Q
  BY <1>3, SearchFields, LenProperties DEF SearchIInv
<1>5. PICK new \in Seq(Q) : new = search'.queue /\ Moved(old, entries, new)
  <2>1. old # <<>> /\ search'.queue = Tail(old) \o entries
    BY <1>1, <1>3
  <2>2. Moved(old, entries, search'.queue) /\ search'.queue \in Seq(Q)
    BY <1>4, <2>1, QueueMoves
  <2> QED
    BY <2>2
<1>6. /\ \A r \in some : /\ r[1] \in search'.edges /\ r[1][2] \in targets
                         /\ r \in db.rows /\ r[2] = "stats" /\ r[1][1] = node
      /\ \A e \in search'.edges : e \in search.edges \/ \E r \in some : e = r[1]
      /\ \A n \in targets : \E r \in some : n = r[1][2]
  BY <1>3
<1>7. Contained(search.kept, db) /\ Contained(db, search.ever)
  BY <1>1 DEF SearchIInv, Between
<1>8. Spreading
  BY DEF SearchIInv
<1>9. Ordered(old) /\ \A i \in DOMAIN old : old[i][1] \in search.visited
  BY <1>1, <1>8 DEF Spreading
<1>10. /\ Ordered(new)
       /\ \A i \in DOMAIN new : new[i][2] \in Nat /\ depth <= new[i][2] /\ new[i][2] <= depth + 1
  <2>1. \A j \in DOMAIN entries : entries[j][2] = old[1][2] + 1
    BY <1>1, <1>3
  <2>2. /\ Ordered(new)
        /\ \A i \in DOMAIN new :
              new[i][2] \in Nat /\ old[1][2] <= new[i][2] /\ new[i][2] <= old[1][2] + 1
    <3> HIDE DEF old
    <3> QED
      BY <1>4, <1>5, <1>9, <2>1, OrderedMoves
  <2> QED
    BY <1>1, <2>2
<1>11. \A i \in DOMAIN new : new[i] \in Q /\ i \in Nat /\ i >= 1 /\ 1 \in DOMAIN new
  BY <1>5, LenProperties DEF Moved
<1> HIDE DEF old, node, depth, rows
<1>12. Shape'
  BY <1>1, <1>3 DEF SearchIInv, Shape, Scope, InHand
<1>13. Between'
  BY <1>3 DEF SearchIInv, Between, Scope
<1>14. Bounded'
  <2>1. /\ IsFiniteSet(targets) /\ Cardinality(targets) \in Nat
        /\ Cardinality(targets) <= Cardinality(some)
    BY <1>3, TargetsOfRows, FS_CardinalityType
  <2>2. /\ Cardinality(search.visited) \in Nat /\ IsFiniteSet(search.visited)
        /\ Cardinality(search.visited) < 2 * MaxActive
    BY <1>1, SearchSizes DEF SearchIInv, TooManyScored
  <2>3. /\ Cardinality(search'.visited) \in Nat
        /\ Cardinality(search'.visited) <= Cardinality(search.visited) + Cardinality(targets)
    BY <1>3, <2>1, <2>2, UnionBound
  <2>4. Cardinality(search'.visited) < Most(2 * MaxActive, SeedLimit + 1) + FanOut
    BY <1>3, <2>1, <2>2, <2>3 DEF Most
  <2>5. search'.visited = {} => search'.edges = {}
    BY <1>1, <1>3, <1>6 DEF SearchIInv, Bounded
  <2> QED
    BY <1>1, <1>3, <2>4, <2>5 DEF Bounded, Scope
<1>15. Found'
  <2>1. node \in Near(depth)
    BY <1>1 DEF SearchIInv, Found, old
  <2>2. targets \subseteq Near(depth + 1)
    <3>1. SUFFICES ASSUME NEW r \in some PROVE r[1][2] \in Near(depth + 1)
      BY <1>6
    <3>2. r[1] \in EdgesOf(search.kind, search.ever)
      BY <1>1, <1>6, <1>7 DEF EdgesOf, TablesOf, Contained
    <3>3. Follows(search.kind, r[1], {node})
      BY <1>6 DEF Follows
    <3>4. {node} \subseteq Near(depth)
      BY <2>1
    <3> QED
      BY <1>1, <3>2, <3>3, <3>4, NextIsNear DEF Near
  <2>3. Near(depth + 1) \subseteq Near(MaxDepth)
    BY <1>1, NearGrows
  <2>4. search'.visited \subseteq Near(MaxDepth)
    BY <1>1, <1>3, <2>2, <2>3 DEF SearchIInv, Found
  <2>5. ASSUME NEW i \in DOMAIN new PROVE new[i][1] \in Near(new[i][2])
    <3>1. CASE i + 1 \in DOMAIN old /\ new[i] = old[i + 1]
      BY <3>1 DEF SearchIInv, Found, old
    <3>2. ASSUME NEW j \in DOMAIN entries, new[i] = entries[j] PROVE new[i][1] \in Near(new[i][2])
      <4>1. entries[j][1] \in targets /\ entries[j][2] = depth + 1
        BY <1>3
      <4> QED
        BY <2>2, <3>2, <4>1
    <3> QED
      BY <1>5, <3>1, <3>2 DEF Moved
  <2>6. \A i \in DOMAIN new : new[i][1] \in Within(search.kind, search.seeds,
                                                  EdgesOf(search.kind, search.ever), new[i][2])
    BY <2>5 DEF Near
  <2> QED
    BY <1>1, <1>3, <1>5, <2>4, <2>6 DEF SearchIInv, Found, Near, Scope, InHand
<1>16. Complete'
  BY <1>1, <1>3 DEF Complete, Scope
<1>17. Spreading'
  <2>1. \A i \in DOMAIN new : new[i][1] \in search'.visited
    <3>1. \A i \in DOMAIN old : old[i][1] \in search'.visited
      BY <1>3, <1>9
    <3>2. \A j \in DOMAIN entries : entries[j][1] \in search'.visited
      BY <1>3
    <3>3. ASSUME NEW i \in DOMAIN new PROVE new[i][1] \in search'.visited
      <4>1. \/ \E j \in DOMAIN old : new[i] = old[j]
            \/ \E j \in DOMAIN entries : new[i] = entries[j]
        <5>1. Moved(old, entries, new)
          BY <1>5
        <5> HIDE DEF old, Q
        <5> QED
          BY <5>1, MovedEntry
      <4>2. CASE \E j \in DOMAIN old : new[i] = old[j]
        <5>1. PICK j \in DOMAIN old : new[i] = old[j]
          BY <4>2
        <5> QED
          BY <3>1, <5>1
      <4>3. CASE \E j \in DOMAIN entries : new[i] = entries[j]
        <5>1. PICK j \in DOMAIN entries : new[i] = entries[j]
          BY <4>3
        <5> QED
          BY <3>2, <5>1
      <4> QED
        BY <4>1, <4>2, <4>3
    <3> QED
      BY <3>3
  <2> DEFINE After(nodes) == \A e \in Staying : Follows("spread", e, nodes) =>
                                e \in search'.edges /\ e[1] \in search'.visited /\ e[2] \in search'.visited
             due(n) == Within("spread", StayingSeeds, Staying, n)
  <2>2. ASSUME NEW nodes, Followed(nodes) PROVE After(nodes)
    BY <1>1, <1>3, <2>2 DEF Followed
  <2>3. ASSUME NEW nodes PROVE After(nodes) <=> \A n \in nodes : After({n})
    BY DEF Follows
  <2>4. Exhausted => Exhausted'
    <3>1. Exhausted => After(due(MaxDepth - 1)) /\ due(0) \subseteq search'.visited
      BY <1>1, <1>3, <2>2 DEF Exhausted, Due, Staying
    <3> QED
      BY <1>1, <1>3, <3>1 DEF Exhausted, Followed, Due, StayingSeeds, Staying, Scope
  <2>5. ASSUME ~search.cut, some = rows, Pending PROVE Pending'
    <3>1. After({node})
      <4>1. SUFFICES ASSUME NEW e \in Staying, e[1] = node
                     PROVE  e \in search'.edges /\ e[1] \in search'.visited /\ e[2] \in search'.visited
        BY DEF Follows
      <4>2. PICK r \in search.kept.rows : r[2] = "stats" /\ r[1] = e
        BY <1>1 DEF Staying, Stays, EdgesOf, TablesOf
      <4>3. e[2] \in search.kept.index
        BY <1>1 DEF Staying, Stays
      <4>4. r \in rows
        BY <1>7, <4>1, <4>2, <4>3 DEF Contained, rows
      <4> QED
        BY <1>1, <1>3, <1>6, <1>9, <2>5, <4>1, <4>2, <4>4
    <3>2. ASSUME NEW n \in search'.visited
          PROVE  After({n}) \/ \E i \in DOMAIN new : new[i][1] = n
      <4>1. CASE n \in search.visited
        <5>1. Followed({n}) \/ \E i \in DOMAIN old : old[i][1] = n
          BY <2>5, <4>1 DEF Pending, Queued, old
        <5>2. ASSUME NEW i \in DOMAIN old, old[i][1] = n
              PROVE  After({n}) \/ \E j \in DOMAIN new : new[j][1] = n
          <6>1. CASE i = 1
            BY <1>1, <3>1, <5>2, <6>1
          <6>2. CASE i # 1
            BY <1>5, <5>2, <6>2 DEF Moved
          <6> QED
            BY <6>1, <6>2
        <5> QED
          BY <2>2, <5>1, <5>2
      <4>2. CASE n \notin search.visited
        <5>1. PICK j \in DOMAIN entries : entries[j][1] = n
          BY <1>3, <4>2
        <5> QED
          BY <1>5, <5>1 DEF Moved
      <4> QED
        BY <4>1, <4>2
    <3>3. /\ depth > 0 => After(due(depth - 1))
          /\ \A n \in due(depth) : After({n}) \/ \E i \in DOMAIN old : old[i] = <<n, depth>>
      <4>1. /\ depth > 0 => Followed(due(depth - 1))
            /\ \A n \in due(depth) : Followed({n}) \/ \E i \in DOMAIN old : old[i] = <<n, depth>>
        BY <1>1, <2>5 DEF Pending, Due, Staying, old
      <4> HIDE DEF due
      <4> QED
        BY <2>2, <4>1
    <3>4. ASSUME NEW n \in due(depth)
          PROVE  After({n}) \/ \E i \in DOMAIN new : new[i] = <<n, depth>>
      <4>1. ASSUME NEW i \in DOMAIN old, old[i] = <<n, depth>>
            PROVE  After({n}) \/ \E j \in DOMAIN new : new[j] = <<n, depth>>
        <5>1. CASE i = 1
          <6>1. node = n
            BY <1>1, <4>1, <5>1
          <6> QED
            BY <3>1, <6>1
        <5>2. CASE i # 1
          <6>1. i - 1 \in DOMAIN new /\ new[i - 1] = old[i]
            BY <1>5, <5>2 DEF Moved
          <6> QED
            BY <4>1, <6>1
        <5> QED
          BY <5>1, <5>2
      <4> QED
        BY <3>3, <4>1
    <3> DEFINE first == new[1][2]
    <3>5. ASSUME new # <<>>
          PROVE  /\ first > 0 => After(due(first - 1))
                 /\ \A n \in due(first) : After({n}) \/ \E i \in DOMAIN new : new[i] = <<n, first>>
      <4>1. 1 \in DOMAIN new /\ (first = depth \/ first = depth + 1)
        <5>1. 1 \in DOMAIN new
          BY <1>5, <1>11, <3>5, LenProperties, EmptySeq
        <5> QED
          BY <1>1, <1>10, <5>1
      <4>2. CASE first = depth
        BY <3>3, <3>4, <4>2
      <4>3. CASE first = depth + 1
        <5>1. ASSUME NEW n \in due(depth) PROVE After({n})
          <6>1. ASSUME NEW i \in DOMAIN new, new[i] = <<n, depth>> PROVE FALSE
            <7>1. first <= new[i][2]
              BY <1>10, <1>11, <4>1 DEF Ordered
            <7> QED
              BY <1>1, <4>3, <6>1, <7>1
          <6> QED
            BY <3>4, <6>1
        <5>2. After(due(depth))
          BY <2>3, <5>1
        <5>3. due(depth + 1) = Step("spread", Staying, due(depth))
          BY <1>1, WithinNext
        <5> HIDE DEF due
        <5>4. ASSUME NEW n \in due(depth + 1) PROVE n \in due(depth) \/ n \in search'.visited
          <6>1. CASE n \in due(depth)
            BY <6>1
          <6>2. ASSUME NEW e \in Staying, Follows("spread", e, due(depth)), n = e[1] \/ n = e[2]
                PROVE  n \in search'.visited
            BY <5>2, <6>2
          <6> QED
            BY <5>3, <6>1, <6>2, StepMember
        <5>5. ASSUME NEW n, NEW i \in DOMAIN new, new[i][1] = n
              PROVE  new[i] = <<n, depth + 1>>
          <6>1. first <= new[i][2] /\ new[i][2] <= depth + 1 /\ new[i][2] \in Nat
            BY <1>10, <1>11, <4>1 DEF Ordered
          <6>2. new[i][2] = depth + 1
            BY <1>1, <4>3, <6>1
          <6> QED
            BY <1>11, <5>5, <6>2
        <5> HIDE DEF After, first
        <5>6. ASSUME NEW n \in due(depth + 1)
              PROVE  After({n}) \/ \E i \in DOMAIN new : new[i] = <<n, depth + 1>>
          BY <3>2, <5>1, <5>4, <5>5
        <5>7. first - 1 = depth
          BY <1>1, <4>3
        <5> QED
          BY <4>3, <5>2, <5>6, <5>7
      <4> QED
        BY <4>1, <4>2, <4>3
    <3>6. search'.queue = new
      BY <1>5
    <3>7. ASSUME NEW nodes, After(nodes) PROVE Followed(nodes)'
      BY <1>1, <1>3, <3>7 DEF Followed, Staying, Scope
    <3>8. ASSUME NEW n \in search'.visited PROVE Followed({n})' \/ Queued(n)'
      BY <3>2, <3>6, <3>7 DEF Queued
    <3>9. ASSUME NEW n PROVE Due(n)' = due(n)
      BY <1>1, <1>3 DEF Due, StayingSeeds, Staying, Scope
    <3> HIDE DEF After, due
    <3>10. ASSUME new # <<>>, first > 0 PROVE Followed(Due(first - 1))'
      <4>1. After(due(first - 1))
        BY <3>5, <3>10
      <4> QED
        BY <3>6, <3>7, <3>9, <4>1
    <3>11. ASSUME new # <<>>, NEW n, n \in Due(first)'
           PROVE  Followed({n})' \/ \E i \in DOMAIN new : new[i] = <<n, first>>
      BY <3>5, <3>7, <3>9, <3>11
    <3> QED
      BY <3>6, <3>8, <3>10, <3>11 DEF Pending
  <2>6. ASSUME ~search'.cut PROVE search.seeds \subseteq search'.visited /\ (Exhausted' \/ Pending')
    <3>1. ~search.cut /\ some = rows
      BY <1>3, <2>6
    <3>2. search.seeds \subseteq search.visited /\ (Exhausted \/ Pending)
      BY <1>1, <1>8, <3>1 DEF Spreading
    <3> QED
      BY <1>3, <2>4, <2>5, <3>1, <3>2
  <2> QED
    BY <1>1, <1>3, <1>5, <1>10, <2>1, <2>6 DEF Spreading, Scope
<1> QED
  BY <1>12, <1>13, <1>14, <1>15, <1>16, <1>17 DEF SearchIInv

LEMMA EndSpreadKeeps ==
    ASSUME SearchIInv, EndSpread, SearchTypeOK'
    PROVE  SearchIInv'
<1> USE NumbersOK
<1>1. PICK top \in Select(search.visited, MaxActive) :
         search' = [search EXCEPT !.pc = IF top = {} THEN "done" ELSE "active",
                                  !.visited = top, !.cut = @ \/ top # search.visited]
  BY DEF EndSpread
<1>2. /\ search.pc = "spread" /\ search.queue = <<>>
      /\ search'.pc = (IF top = {} THEN "done" ELSE "active")
      /\ search'.visited = top /\ search'.cut = (search.cut \/ top # search.visited)
      /\ UNCHANGED <<db, Scope, search.edges, search.frontier, search.depth, search.queue, InHand>>
  BY <1>1, SearchFields DEF EndSpread, SearchIInv, Searches, Scope, InHand
<1>3. search.kind = "spread"
  BY <1>2 DEF SearchIInv, Shape
<1>4. /\ Cardinality(search.visited) \in Nat /\ IsFiniteSet(search.visited)
      /\ Cardinality(search.edges) \in Nat
  BY SearchSizes DEF SearchIInv
<1>5. /\ top \subseteq search.visited /\ Cardinality(top) \in Nat /\ Cardinality(top) <= MaxActive
  BY <1>1, <1>4, Selected
<1>6. top = {} => search.visited = {} /\ search.edges = {}
  <2>1. Cardinality(top) = Least(MaxActive, Cardinality(search.visited))
    BY <1>1 DEF Select
  <2>2. top = {} => Cardinality(search.visited) = 0
    BY <1>4, <2>1, FS_EmptySet DEF Least
  <2>3. top = {} => search.visited = {}
    BY <1>4, <2>2, FS_EmptySet
  <2> QED
    BY <1>3, <2>3 DEF SearchIInv, Bounded
<1>7. Shape'
  BY <1>2, <1>3 DEF SearchIInv, Shape, Scope, InHand
<1>8. Between'
  BY <1>2 DEF SearchIInv, Between, Scope
<1>9. Bounded'
  <2>1. Cardinality({}) = 0
    BY FS_EmptySet
  <2>2. Cardinality(top) < Most(2 * MaxActive, SeedLimit + 1) + FanOut
    BY <1>5 DEF Most
  <2>3. top = {} => search'.edges = {}
    BY <1>2, <1>6
  <2>4. search'.pc = "done" => Cardinality(search'.edges) <= 2 * MaxActive
    <3>1. 0 <= 2 * MaxActive
      OBVIOUS
    <3> QED
      BY <1>2, <2>1, <2>3, <3>1
  <2> QED
    BY <1>2, <1>3, <1>5, <2>2, <2>3, <2>4 DEF Bounded, Scope
<1>10. Found'
  BY <1>2, <1>3, <1>5 DEF SearchIInv, Found, Near, Scope, InHand
<1>11. Complete'
  BY <1>2, <1>3 DEF Complete, Scope
<1>12. Spreading'
  <2>1. Spreading
    BY DEF SearchIInv
  <2>2. Ordered(search'.queue) /\ \A i \in DOMAIN search'.queue : search'.queue[i][1] \in search'.visited
    BY <1>2, EmptySeq DEF Ordered
  <2>3. ASSUME ~search'.cut PROVE Exhausted /\ search'.visited = search.visited
    <3>1. ~search.cut /\ search'.visited = search.visited
      BY <1>2, <2>3
    <3>2. search.seeds \subseteq search.visited /\ (Exhausted \/ Pending)
      BY <1>2, <1>3, <2>1, <3>1 DEF Spreading
    <3>3. CASE Pending
      <4>1. \A n \in search.visited : Followed({n})
        BY <1>2, <3>3, EmptySeq DEF Pending, Queued
      <4>2. Followed(search.visited)
        BY <1>3, <4>1, FollowedEach
      <4>3. StayingSeeds \subseteq search.visited
        BY <3>2 DEF StayingSeeds
      <4>4. \A n \in Nat : Due(n) \subseteq search.visited
        BY <4>2, <4>3, WithinClosed DEF Due, Staying, Followed
      <4>5. Followed(Due(MaxDepth - 1))
        BY <4>2, <4>4 DEF Followed, Follows
      <4> QED
        BY <3>1, <4>4, <4>5 DEF Exhausted
    <3> QED
      BY <3>1, <3>2, <3>3
  <2>4. ASSUME ~search'.cut
        PROVE  /\ Exhausted'
               /\ Due(MaxDepth)' \subseteq search'.visited
               /\ {e \in Staying : Follows(search.kind, e, Due(MaxDepth - 1))} \subseteq AnswerEdges'
    <3>1. Exhausted'
      BY <1>2, <2>3, <2>4 DEF Exhausted, Followed, Due, StayingSeeds, Staying, Scope
    <3>2. Due(MaxDepth)' \subseteq search'.visited
      BY <1>2, <2>3, <2>4, ExhaustedFinds DEF Due, StayingSeeds, Staying, Scope
    <3> QED
      BY <1>2, <2>3, <2>4, <3>1, <3>2, ExhaustedFinds DEF AnswerEdges
  <2>5. {e \in Staying : Follows(search.kind, e, Due(MaxDepth - 1))}
          = {e \in Staying : Follows(search.kind, e, Due(MaxDepth - 1))}'
    BY <1>2 DEF Due, StayingSeeds, Staying, Scope
  <2> QED
    BY <1>2, <1>3, <2>2, <2>4, <2>5 DEF Spreading, Scope
<1> QED
  BY <1>7, <1>8, <1>9, <1>10, <1>11, <1>12 DEF SearchIInv

LEMMA FetchActiveKeeps ==
    ASSUME SearchIInv, FetchActive, SearchTypeOK'
    PROVE  SearchIInv'
<1> DEFINE known == search.visited \cap db.index
           edges == {e \in search.edges : {e[1], e[2]} \subseteq known}
<1> USE NumbersOK
<1>1. PICK some \in Select(edges, 2 * MaxActive) :
         search' = [search EXCEPT !.pc = "done", !.visited = known, !.edges = some,
                                  !.cut = @ \/ some # edges]
  BY DEF FetchActive
<1>2. /\ search.pc = "active" /\ search'.pc = "done" /\ search'.visited = known
      /\ search'.edges = some /\ search'.cut = (search.cut \/ some # edges)
      /\ UNCHANGED <<db, Scope, search.frontier, search.depth, search.queue, InHand>>
  BY <1>1, SearchFields DEF FetchActive, SearchIInv, Searches, Scope, InHand
<1>3. search.kind = "spread"
  BY <1>2 DEF SearchIInv, Shape
<1>4. /\ Cardinality(search.visited) \in Nat /\ IsFiniteSet(search.visited)
      /\ IsFiniteSet(search.edges)
  BY SearchSizes DEF SearchIInv
<1>5. IsFiniteSet(edges)
  BY <1>4, FS_Subset
<1>6. /\ some \subseteq edges /\ Cardinality(some) \in Nat /\ Cardinality(some) <= 2 * MaxActive
  BY <1>1, <1>5, Selected
<1>7. Cardinality(known) \in Nat /\ Cardinality(known) <= Cardinality(search.visited)
  BY <1>4, FS_Subset, FS_CardinalityType
<1>8. Shape'
  BY <1>2, <1>3, SearchFields DEF SearchIInv, Shape, Scope, InHand
<1>9. Between'
  BY <1>2 DEF SearchIInv, Between, Scope
<1>10. Bounded'
  <2>1. known = {} => some = {}
    BY <1>6
  <2>2. Cardinality(search.visited) <= MaxActive
    BY <1>2, <1>3 DEF SearchIInv, Bounded
  <2> HIDE DEF known, edges
  <2>3. Cardinality(known) <= MaxActive
    BY <1>4, <1>7, <2>2
  <2>4. Cardinality(known) < Most(2 * MaxActive, SeedLimit + 1) + FanOut
    BY <1>7, <2>3 DEF Most
  <2> QED
    BY <1>2, <1>3, <1>6, <2>1, <2>3, <2>4 DEF Bounded, Scope
<1>11. Found'
  BY <1>2, <1>3 DEF SearchIInv, Found, Near, Scope, InHand
<1>12. Complete'
  BY <1>2, <1>3 DEF Complete, Scope
<1>13. Spreading'
  <2>1. Spreading
    BY DEF SearchIInv
  <2>2. /\ Ordered(search'.queue) /\ search'.queue = <<>>
        /\ \A i \in DOMAIN search'.queue : search'.queue[i][1] \in search'.visited
    BY <1>2, <1>3, <2>1, EmptySeq DEF Ordered, Spreading
  <2>3. ASSUME ~search'.cut
        PROVE  /\ Due(MaxDepth) \subseteq known
               /\ {e \in Staying : Follows(search.kind, e, Due(MaxDepth - 1))} \subseteq AnswerEdges'
    <3>1. ~search.cut /\ some = edges
      BY <1>2, <2>3
    <3>2. Exhausted
      BY <1>2, <1>3, <2>1, <3>1 DEF Spreading
    <3>3. StayingSeeds \subseteq db.index
      BY <1>2, <1>3 DEF StayingSeeds, SearchIInv, Between, Contained
    <3>4. \A e \in Staying : e[1] \in db.index /\ e[2] \in db.index
      BY <1>2, <1>3 DEF Staying, Stays, SearchIInv, Between, Contained
    <3>5. Due(MaxDepth) \subseteq db.index
      BY <3>3, <3>4, WithinClosed DEF Due, Staying
    <3>6. Due(MaxDepth) \subseteq known
      BY <3>2, <3>5, ExhaustedFinds
    <3>7. ASSUME NEW e \in Staying, Follows(search.kind, e, Due(MaxDepth - 1))
          PROVE  e \in AnswerEdges'
      BY <1>2, <3>1, <3>2, <3>4, <3>7, ExhaustedFinds DEF AnswerEdges
    <3> QED
      BY <3>6, <3>7
  <2>4. Due(MaxDepth)' = Due(MaxDepth)
    BY <1>2 DEF Due, StayingSeeds, Staying, Scope
  <2>5. {e \in Staying : Follows(search.kind, e, Due(MaxDepth - 1))}
          = {e \in Staying : Follows(search.kind, e, Due(MaxDepth - 1))}'
    BY <1>2 DEF Due, StayingSeeds, Staying, Scope
  <2> QED
    BY <1>2, <1>3, <2>2, <2>3, <2>4, <2>5 DEF Spreading, Scope
<1> QED
  BY <1>8, <1>9, <1>10, <1>11, <1>12, <1>13 DEF SearchIInv

-----------------------------------------------------------------------------
(* The whole search. *)

\* No search, and one that has just begun.
LEMMA FreshKeeps ==
    ASSUME SearchTypeOK, UNCHANGED <<db, writes>>, search' = NoSearch \/ Start \/ StartSpread
    PROVE  SearchIInv'
<1> USE NumbersOK
<1>1. /\ db \in Databases /\ writes \in Nat /\ NoRows \in Databases
  BY DEF SearchTypeOK, NoRows, Databases
<1>2. <<>> \in Seq(Nodes \X (0 .. MaxDepth)) /\ DOMAIN <<>> = {}
  BY EmptySeq
<1>3. NoSearch \in Searches
  BY <1>1, <1>2 DEF NoSearch, Searches, SearchPhases
<1>4. /\ search' \in Searches
      /\ search'.seeds = {} /\ search'.visited = {} /\ search'.frontier = {}
      /\ search'.edges = {} /\ search'.read = {} /\ search'.missing = {}
      /\ search'.queue = <<>> /\ search'.depth = 0
      /\ \/ search'.pc = "idle" /\ search'.kind = "none"
         \/ search'.pc = "check" /\ search'.kind = "none" /\ search'.kept = db /\ search'.ever = db
         \/ search'.pc = "kindle" /\ search'.kind = "spread" /\ search'.kept = db /\ search'.ever = db
  <2>1. CASE search' = NoSearch
    BY <1>3, <2>1 DEF NoSearch
  <2>2. CASE Start
    <3>1. search' = [NoSearch EXCEPT !.pc = "check", !.kept = db, !.ever = db]
      BY <2>2 DEF Start
    <3>2. search' \in Searches
      BY <1>1, <1>3, <3>1 DEF Searches, SearchPhases
    <3> QED
      BY <3>1, <3>2 DEF NoSearch
  <2>3. CASE StartSpread
    <3>1. search' = [NoSearch EXCEPT !.pc = "kindle", !.kind = "spread", !.kept = db, !.ever = db]
      BY <2>3 DEF StartSpread
    <3>2. search' \in Searches
      BY <1>1, <1>3, <3>1 DEF Searches, SearchPhases
    <3> QED
      BY <3>1, <3>2 DEF NoSearch
  <2> QED
    BY <2>1, <2>2, <2>3
<1>5. SearchTypeOK'
  BY <1>1, <1>4 DEF SearchTypeOK
<1>6. Shape'
  BY <1>4 DEF Shape
<1>7. Between'
  BY <1>4 DEF Between, Contained
<1>8. Bounded'
  BY <1>4, FS_EmptySet DEF Bounded, Most
<1>9. Found'
  BY <1>2, <1>4 DEF Found
<1>10. Complete'
  BY <1>4 DEF Complete, Followed, Follows, EndsOf
<1>11. Spreading'
  BY <1>2, <1>4 DEF Spreading, Ordered
<1> QED
  BY <1>5, <1>6, <1>7, <1>8, <1>9, <1>10, <1>11 DEF SearchIInv

LEMMA SearchStepKeeps ==
    ASSUME SearchIInv, SearchStep
    PROVE  SearchIInv'
BY SearchTypeStep, CheckGhostKeeps, SeedsKeeps, ReadRowsKeeps, ReadSynapticKeeps, ExpandKeeps,
   ExpandGhostKeeps, FetchShadesKeeps, EndSearchKeeps, SeedSpreadKeeps, SkipEntryKeeps,
   SpreadEntryKeeps, EndSpreadKeeps, FetchActiveKeeps
DEF SearchStep

LEMMA SearchInvariantBounds ==
    ASSUME SearchIInv
    PROVE  SearchBounded
<1>1. /\ Cardinality(search.visited) \in Nat /\ Cardinality(search.missing) \in Nat
      /\ Cardinality(search.edges) \in Nat /\ Cardinality(search.read) \in Nat
  BY SearchSizes DEF SearchIInv
<1> QED
  BY <1>1, NumbersOK DEF SearchIInv, Bounded, SearchBounded

LEMMA SearchInvariantFinds ==
    ASSUME SearchIInv
    PROVE  FoundNearby
<1>1. search.depth \in Nat /\ MaxDepth \in Nat /\ search.depth <= MaxDepth
  BY SearchFields, NumbersOK DEF SearchIInv
<1>2. Near(search.depth) \subseteq Near(MaxDepth)
  BY <1>1, NearGrows
<1> QED
  BY <1>2 DEF SearchIInv, Found, FoundNearby, Near

LEMMA SearchInvariantCompletes ==
    ASSUME SearchIInv
    PROVE  CompleteUnlessCut
<1> USE NumbersOK
<1> SUFFICES ASSUME search.pc = "done", ~MetLimit
             PROVE  /\ Due(MaxDepth) \subseteq search.visited
                    /\ {e \in Staying : Follows(search.kind, e, Due(MaxDepth - 1))} \subseteq AnswerEdges
  BY DEF CompleteUnlessCut, Staying
<1>1. ~search.cut /\ search.kind # "none"
  BY DEF MetLimit, SearchIInv, Shape
<1>2. CASE search.kind = "spread"
  BY <1>1, <1>2 DEF SearchIInv, Spreading
<1>3. CASE search.kind # "spread"
  <2>1. /\ Followed(search.visited \ search.frontier)
        /\ search.depth = MaxDepth \/ search.frontier = {}
    BY <1>1, <1>3 DEF SearchIInv, Complete
  <2>2. Due(search.depth) \subseteq search.visited
    BY <1>1, <1>3, DueFound
  <2>3. CASE search.depth = MaxDepth
    <3>1. Due(MaxDepth - 1) \subseteq search.visited \ search.frontier
      BY <1>1, <1>3, <2>3 DEF SearchIInv, Complete
    <3> QED
      BY <2>1, <2>2, <2>3, <3>1 DEF Followed, Follows, AnswerEdges
  <2>4. CASE search.frontier = {}
    <3>1. Followed(search.visited)
      BY <2>1, <2>4
    <3>2. search.depth \in Nat
      BY SearchFields DEF SearchIInv
    <3>3. Due(0) = StayingSeeds
      BY WithinZero DEF Due
    <3>4. StayingSeeds \subseteq search.visited
      BY <2>2, <3>2, <3>3, NearGrows
    <3>5. \A n \in Nat : Due(n) \subseteq search.visited
      BY <3>1, <3>4, WithinClosed DEF Due, Staying, Followed
    <3>6. Due(MaxDepth) \subseteq search.visited /\ Due(MaxDepth - 1) \subseteq search.visited
      BY <3>5
    <3> QED
      BY <3>1, <3>6 DEF Followed, Follows, AnswerEdges
  <2> QED
    BY <2>1, <2>3, <2>4
<1> QED
  BY <1>2, <1>3

-----------------------------------------------------------------------------
(* A search ends. *)

LEMMA StageValues ==
    /\ StageOf("check") = 4 /\ StageOf("seeds") = 3 /\ StageOf("kindle") = 3
    /\ StageOf("rows") = 2 /\ StageOf("synaptic") = 2 /\ StageOf("expand") = 2
    /\ StageOf("shades") = 2 /\ StageOf("spread") = 2
    /\ StageOf("nodes") = 1 /\ StageOf("active") = 1
    /\ StageOf("done") = 0
BY DEF StageOf

LEMMA StatementValues ==
    /\ StatementOf("rows") = 4 /\ StatementOf("synaptic") = 3
    /\ StatementOf("expand") = 2 /\ StatementOf("shades") = 1
BY DEF StatementOf

\* The entries of an activation at the depth it is at: the next one leaves, and what comes
\* behind it is deeper.
LEMMA QueueShrinks ==
    ASSUME NEW old \in Seq(Nodes \X (0 .. MaxDepth)), Ordered(old),
           NEW entries \in Seq(Nodes \X (0 .. MaxDepth)),
           \A j \in DOMAIN entries : entries[j][2] = old[1][2] + 1,
           NEW new \in Seq(Nodes \X (0 .. MaxDepth)), Moved(old, entries, new), new # <<>>
    PROVE  \/ new[1][2] = old[1][2] + 1
           \/ /\ new[1][2] = old[1][2]
              /\ Cardinality(AtFirstDepth(new)) < Cardinality(AtFirstDepth(old))
<1> DEFINE depth == old[1][2]
           first == AtFirstDepth(old)
           next == AtFirstDepth(new)
<1>1. 1 \in DOMAIN old /\ depth \in Nat /\ 1 \in DOMAIN new
  <2>1. 1 \in DOMAIN old
    BY DEF Moved
  <2>2. old[1] \in Nodes \X (0 .. MaxDepth)
    BY <2>1
  <2> QED
    BY <2>1, <2>2, NumbersOK, LenProperties, EmptySeq
<1>2. new[1][2] \in {depth, depth + 1}
  <2>1. new[1][2] \in Nat /\ depth <= new[1][2] /\ new[1][2] <= depth + 1
    BY <1>1, OrderedMoves
  <2> QED
    BY <1>1, <2>1
<1> SUFFICES ASSUME new[1][2] = depth PROVE Cardinality(next) < Cardinality(first)
  BY <1>2
<1>3. ASSUME NEW i \in next PROVE i \in Nat /\ i >= 1 /\ i + 1 \in first \ {1}
  <2>1. i \in DOMAIN new /\ new[i][2] = depth
    BY DEF AtFirstDepth
  <2>2. i \in Nat /\ i >= 1
    BY <2>1 DEF Moved
  <2>3. ~ \E j \in DOMAIN entries : new[i] = entries[j]
    BY <1>1, <2>1
  <2>4. i + 1 \in DOMAIN old /\ new[i] = old[i + 1]
    BY <2>1, <2>3 DEF Moved
  <2> QED
    BY <2>1, <2>2, <2>4 DEF AtFirstDepth
<1>4. IsFiniteSet(first) /\ 1 \in first
  <2>1. DOMAIN old = 1 .. Len(old) /\ Len(old) \in Nat
    BY LenProperties
  <2>2. IsFiniteSet(DOMAIN old)
    BY <2>1, FS_Interval
  <2>3. first \in SUBSET DOMAIN old
    BY DEF AtFirstDepth
  <2> QED
    BY <1>1, <2>2, <2>3, FS_Subset DEF AtFirstDepth
<1> DEFINE f == [i \in next |-> i + 1]
<1> HIDE DEF first, next, depth
<1>5. f \in Injection(next, first \ {1})
  <2>1. f \in [next -> first \ {1}]
    BY <1>3
  <2>2. \A i, j \in next : f[i] = f[j] => i = j
    BY <1>3
  <2> QED
    BY <2>1, <2>2 DEF Injection, IsInjective
<1> HIDE DEF f
<1>6. /\ IsFiniteSet(first \ {1}) /\ Cardinality(first) \in Nat
      /\ Cardinality(first \ {1}) = Cardinality(first) - 1
  BY <1>4, FS_RemoveElement, FS_CardinalityType
<1>7. IsFiniteSet(next) /\ Cardinality(next) <= Cardinality(first \ {1})
  BY <1>5, <1>6, FS_Injection
<1>8. Cardinality(next) \in Nat
  BY <1>7, FS_CardinalityType
<1> QED
  BY <1>6, <1>7, <1>8

\* What is ahead of a search is never less than nothing.
LEMMA AheadOK ==
    ASSUME SearchIInv
    PROVE  Ahead \in Nat \X Nat \X Nat /\ Ahead[1] = StageOf(search.pc)
<1> USE NumbersOK
<1>1. /\ search \in Searches /\ search.depth \in 0 .. MaxDepth
      /\ search.queue \in Seq(Nodes \X (0 .. MaxDepth))
  BY SearchFields DEF SearchIInv
<1>2. CASE search.pc = "spread"
  <2>1. CASE search.queue = <<>>
    <3>1. AtFirstDepth(search.queue) = {}
      BY <2>1, EmptySeq DEF AtFirstDepth
    <3>2. Ahead = <<2, 0, 0>>
      BY <1>2, <2>1, <3>1, FS_EmptySet DEF Ahead
    <3> QED
      BY <1>2, <3>2, StageValues
  <2>2. CASE search.queue # <<>>
    <3>1. /\ DOMAIN search.queue = 1 .. Len(search.queue) /\ Len(search.queue) \in Nat
          /\ 1 \in DOMAIN search.queue
      BY <1>1, <2>2, LenProperties, EmptySeq
    <3>2. search.queue[1][2] \in 0 .. MaxDepth
      BY <1>1, <3>1
    <3>3. IsFiniteSet(AtFirstDepth(search.queue))
      <4>1. IsFiniteSet(DOMAIN search.queue)
        BY <3>1, FS_Interval
      <4>2. AtFirstDepth(search.queue) \in SUBSET DOMAIN search.queue
        BY DEF AtFirstDepth
      <4> QED
        BY <4>1, <4>2, FS_Subset
    <3>4. Cardinality(AtFirstDepth(search.queue)) \in Nat
      BY <3>3, FS_CardinalityType
    <3>5. Ahead = <<2, MaxDepth + 1 - search.queue[1][2],
                    Cardinality(AtFirstDepth(search.queue))>>
      BY <1>2, <2>2 DEF Ahead
    <3> QED
      BY <1>2, <3>2, <3>4, <3>5, StageValues
  <2> QED
    BY <2>1, <2>2
<1>3. CASE search.pc # "spread"
  <2>1. Ahead = <<StageOf(search.pc), MaxDepth - search.depth, StatementOf(search.pc)>>
    BY <1>3 DEF Ahead
  <2>2. StageOf(search.pc) \in Nat /\ StatementOf(search.pc) \in Nat
    <3>1. StageOf(search.pc) \in {0, 1, 2, 3, 4}
      BY DEF StageOf
    <3>2. StatementOf(search.pc) \in {1, 2, 3, 4}
      BY DEF StatementOf
    <3> QED
      BY <3>1, <3>2
  <2> QED
    BY <1>1, <2>1, <2>2
<1> QED
  BY <1>2, <1>3

\* The next entry of an activation is passed over or has its relations followed.
LEMMA EntryAdvances ==
    ASSUME SearchIInv, SearchIInv', SkipEntry \/ SpreadEntry
    PROVE  Less(Ahead', Ahead)
<1> USE NumbersOK
<1> DEFINE Q == Nodes \X (0 .. MaxDepth)
           old == search.queue
           new == search'.queue
<1>1. old \in Seq(Q) /\ new \in Seq(Q)
  BY DEF SearchIInv, SearchTypeOK, Searches
<1>2. \E entries \in Seq(Q) :
         /\ search.pc = "spread" /\ search'.pc = "spread" /\ search.kind = "spread" /\ old # <<>>
         /\ new = Tail(old) \o entries
         /\ \A j \in DOMAIN entries : entries[j][2] = old[1][2] + 1
  <2>1. CASE SkipEntry
    <3>1. /\ search.pc = "spread" /\ old # <<>> /\ new = Tail(old) /\ search'.pc = "spread"
      BY <2>1, SearchFields DEF SkipEntry, SearchIInv, Searches
    <3>2. /\ <<>> \in Seq(Q) /\ DOMAIN <<>> = {}
      BY EmptySeq
    <3>3. Tail(old) \o <<>> = Tail(old)
      BY <1>1, <3>1, HeadTailProperties, ConcatEmptySeq
    <3>4. search.kind = "spread"
      BY <3>1 DEF SearchIInv, Shape
    <3> QED
      BY <3>1, <3>2, <3>3, <3>4
  <2>2. CASE SpreadEntry
    <3>1. /\ search.kind = "spread" /\ search.pc = "spread" /\ old # <<>>
          /\ Head(old) = old[1] /\ search'.pc = "spread"
          /\ \E entries \in Seq(Q) :
                /\ \A i \in DOMAIN entries : entries[i][2] = Head(old)[2] + 1
                /\ new = Tail(old) \o entries
      BY <2>2, SpreadEntryDoes
    <3> QED
      BY <3>1
  <2> QED
    BY <2>1, <2>2
<1>3. PICK entries \in Seq(Q) :
         /\ search.pc = "spread" /\ search'.pc = "spread" /\ search.kind = "spread" /\ old # <<>>
         /\ new = Tail(old) \o entries
         /\ \A j \in DOMAIN entries : entries[j][2] = old[1][2] + 1
  BY <1>2
<1>4. Moved(old, entries, new)
  BY <1>1, <1>3, QueueMoves
<1>5. Ordered(old)
  BY <1>3 DEF SearchIInv, Spreading
<1>6. Ahead = <<2, MaxDepth + 1 - old[1][2], Cardinality(AtFirstDepth(old))>>
  BY <1>3 DEF Ahead
<1>7. old[1][2] \in 0 .. MaxDepth
  <2>1. 1 \in DOMAIN old
    BY <1>4 DEF Moved
  <2>2. old[1] \in Q
    BY <1>1, <2>1
  <2> QED
    BY <2>2
<1>8. CASE new = <<>>
  <2>1. Ahead'[1] = 2 /\ Ahead'[2] = 0
    BY <1>3, <1>8 DEF Ahead
  <2> QED
    BY <1>6, <1>7, <2>1 DEF Less
<1>9. CASE new # <<>>
  <2>1. Ahead' = <<2, MaxDepth + 1 - new[1][2], Cardinality(AtFirstDepth(new))>>
    BY <1>3, <1>9 DEF Ahead
  <2>2. \/ new[1][2] = old[1][2] + 1
        \/ /\ new[1][2] = old[1][2]
           /\ Cardinality(AtFirstDepth(new)) < Cardinality(AtFirstDepth(old))
    <3> HIDE DEF old, new
    <3> QED
      BY <1>1, <1>3, <1>4, <1>5, <1>9, QueueShrinks
  <2> HIDE DEF old, new
  <2> QED
    BY <1>6, <1>7, <2>1, <2>2 DEF Less
<1> QED
  BY <1>8, <1>9

\* A statement of the same stage goes on in its depth, or to the next one.
LEMMA StatementAdvances ==
    ASSUME SearchIInv, ReadRows \/ ReadSynaptic \/ Expand \/ ExpandGhost \/ FetchShades
    PROVE  Less(Ahead', Ahead)
<1> USE NumbersOK
<1>1. /\ search \in Searches /\ search.depth \in 0 .. MaxDepth
  BY SearchFields DEF SearchIInv
<1>2. \/ /\ search.pc = "rows" /\ search'.pc \in {"synaptic", "expand"}
         /\ search'.depth = search.depth
      \/ /\ search.pc = "synaptic" /\ search'.pc = "expand" /\ search'.depth = search.depth
      \/ /\ search.pc = "expand" /\ search'.pc = "shades" /\ search'.depth = search.depth
      \/ /\ search.pc \in {"expand", "shades"} /\ search'.pc = "rows"
         /\ search'.depth = search.depth + 1
  <2>1. CASE ReadRows
    BY <1>1, <2>1 DEF ReadRows, Searches
  <2>2. CASE ReadSynaptic
    BY <1>1, <2>2 DEF ReadSynaptic, Searches
  <2>3. CASE Expand
    BY <1>1, <2>3 DEF Expand, Searches
  <2>4. CASE ExpandGhost
    BY <1>1, <2>4 DEF ExpandGhost, Searches
  <2>5. CASE FetchShades
    BY <1>1, <2>5 DEF FetchShades, Searches
  <2> QED
    BY <2>1, <2>2, <2>3, <2>4, <2>5
<1>3. /\ Ahead = <<StageOf(search.pc), MaxDepth - search.depth, StatementOf(search.pc)>>
      /\ Ahead' = <<StageOf(search'.pc), MaxDepth - search'.depth, StatementOf(search'.pc)>>
  BY <1>2 DEF Ahead
<1>4. StageOf(search.pc) = 2 /\ StageOf(search'.pc) = 2
  BY <1>2, StageValues
<1>5. \/ MaxDepth - search'.depth < MaxDepth - search.depth
      \/ /\ MaxDepth - search'.depth = MaxDepth - search.depth
         /\ StatementOf(search'.pc) < StatementOf(search.pc)
  BY <1>1, <1>2, StatementValues
<1> QED
  BY <1>3, <1>4, <1>5 DEF Less

\* The other statements end a stage.
LEMMA StageAdvances ==
    ASSUME SearchIInv,
           \/ CheckGhost \/ Seeds \/ EndSearch \/ FetchNodes
           \/ SeedSpread \/ EndSpread \/ FetchActive
    PROVE  Less(Ahead', Ahead)
<1>1. search \in Searches
  BY SearchFields DEF SearchIInv
<1>2. \/ search.pc = "check" /\ search'.pc = "seeds"
      \/ search.pc = "seeds" /\ search'.pc = "rows"
      \/ search.pc = "rows" /\ search'.pc = "nodes"
      \/ search.pc = "nodes" /\ search'.pc = "done"
      \/ search.pc = "kindle" /\ search'.pc = "spread"
      \/ search.pc = "spread" /\ search'.pc \in {"active", "done"}
      \/ search.pc = "active" /\ search'.pc = "done"
  <2>1. CASE CheckGhost
    BY <1>1, <2>1 DEF CheckGhost, Searches
  <2>2. CASE Seeds
    BY <1>1, <2>2 DEF Seeds, Searches
  <2>3. CASE EndSearch
    BY <1>1, <2>3 DEF EndSearch, Searches
  <2>4. CASE FetchNodes
    BY <1>1, <2>4 DEF FetchNodes, Searches
  <2>5. CASE SeedSpread
    BY <1>1, <2>5 DEF SeedSpread, Searches
  <2>6. CASE EndSpread
    BY <1>1, <2>6 DEF EndSpread, Searches
  <2>7. CASE FetchActive
    BY <1>1, <2>7 DEF FetchActive, Searches
  <2> QED
    BY <2>1, <2>2, <2>3, <2>4, <2>5, <2>6, <2>7
<1>3. StageOf(search'.pc) < StageOf(search.pc)
  BY <1>2, StageValues
<1>4. Ahead[1] = StageOf(search.pc) /\ Ahead'[1] = StageOf(search'.pc)
  BY StageValues DEF Ahead
<1> QED
  BY <1>3, <1>4 DEF Less

LEMMA SearchAdvances ==
    ASSUME SearchIInv, SearchStep
    PROVE  Less(Ahead', Ahead)
BY SearchStepKeeps, EntryAdvances, StatementAdvances, StageAdvances DEF SearchStep

\* Others that commit leave a search where it is.
LEMMA WriterDelaysNobody ==
    ASSUME SearchIInv, NEW new, WriterCommits(new)
    PROVE  Ahead' = Ahead
<1>1. search \in Searches
  BY SearchFields DEF SearchIInv
<1>2. /\ search'.pc = search.pc /\ search'.depth = search.depth
      /\ search'.queue = search.queue
  BY <1>1 DEF WriterCommits, Searches
<1> QED
  BY <1>2 DEF Ahead

LEMMA FoundExactly ==
    ASSUME SearchIInv
    PROVE  ExactWhereUndisturbed
<1> SUFFICES ASSUME search.pc = "done", ~MetLimit,
                    Stays(search.kind, search.kept) = EdgesOf(search.kind, search.ever),
                    StayingSeeds = search.seeds
             PROVE  search.visited = Near(MaxDepth)
  BY DEF ExactWhereUndisturbed, Near
<1>1. Due(MaxDepth) = Near(MaxDepth)
  BY DEF Due, Near
<1>2. search.visited \subseteq Near(MaxDepth)
  BY SearchInvariantFinds DEF FoundNearby, Near
<1>3. Due(MaxDepth) \subseteq search.visited
  BY SearchInvariantCompletes DEF CompleteUnlessCut
<1> QED
  BY <1>1, <1>2, <1>3

-----------------------------------------------------------------------------
(* The requests. *)

\* Where a request is tells what it works on, and that it answers with nothing before it
\* is done; a status that is ready to be published is an end.
OwnWork(r) ==
    /\ work[r].pc # "done" => answer[r] = Idle
    /\ work[r].pc \in {"none", "read", "merge"} => work[r].on = Nobody
    /\ work[r].pc \in (Working \ {"spread"}) \cup {"memory", "publish"} => work[r].on \in Objects
    /\ work[r].pc = "read" => work[r].status \in Counted
    /\ work[r].pc = "memory" => work[r].on = "ontology"
    /\ work[r].pc \in {"memory", "publish"} => work[r].status.state \in {"failed", "completed"}
    /\ asker = r => work[r].pc \in {"search", "spread"}

\* A question at work is the one its object names, so there is one at most, and the
\* status in its hands and its answer are about nothing else.
OwnQuestion(r) ==
    work[r].on = "graphrag" =>
        /\ work[r].pc \notin {"none", "done"} =>
              /\ object["graphrag"].state = "running"
              /\ object["graphrag"].started = r
              /\ object["graphrag"].query = r
        /\ work[r].pc = "publish" => OwnStatus(r, work[r].status)
        /\ answer[r] # Idle => OwnStatus(r, answer[r])

\* An object that has an answer to show has the answer to one question.
ShowsOne ==
    object["graphrag"].state \in {"completed", "failed"} =>
        \E r \in Calls : OwnStatus(r, object["graphrag"])

ServiceIInv ==
    /\ SearchIInv
    /\ ServiceTypeOK
    /\ \A r \in Calls : OwnWork(r) /\ OwnQuestion(r)
    /\ ShowsOne
    /\ RunningIsTrue

\* What a request is: where it is, what on, and a status.
Orders == [pc : Steps, on : Objects \cup {Nobody}, status : Statuses]

LEMMA ServiceFields ==
    ASSUME ServiceTypeOK
    PROVE  /\ object \in [Objects -> Statuses] /\ answer \in [Calls -> Statuses]
           /\ work \in [Calls -> Orders] /\ asker \in Calls \cup {Nobody}
           /\ \A r \in Calls : /\ work[r] \in Orders /\ work[r].pc \in Steps
                               /\ work[r].on \in Objects \cup {Nobody}
                               /\ work[r].status \in Statuses
           /\ \A o \in Objects : object[o] \in Statuses
BY DEF ServiceTypeOK, Orders

LEMMA IdleOK ==
    /\ Idle \in Statuses /\ Counted \subseteq Statuses
    /\ \A made \in Counted : made.state \in {"idle", "completed"} /\ made.result = Nobody
    /\ Idle.state = "idle" /\ Idle.result = Nobody
BY DEF Idle, Statuses, Counted

LEMMA SearchStays ==
    ASSUME SearchIInv, UNCHANGED searchVars
    PROVE  SearchIInv'
<1> USE DEF searchVars
<1>1. SearchTypeOK' /\ Shape' /\ Between'
  BY DEF SearchIInv, SearchTypeOK, Shape, Between
<1>2. Bounded' /\ Found'
  BY DEF SearchIInv, Bounded, Limit, Found, Near
<1>3. Staying' = Staying /\ \A n : Due(n)' = Due(n)
  BY DEF Staying, Due, StayingSeeds
<1>4. Complete'
  BY DEF SearchIInv, Complete, Followed, Staying, Due, StayingSeeds, MetLimit
<1>5. Exhausted' = Exhausted
  BY DEF Exhausted, Followed, Staying, Due, StayingSeeds
<1>6. Pending' = Pending
  BY DEF Pending, Queued, Followed, Staying, Due, StayingSeeds
<1>7. Spreading'
  BY <1>5, <1>6 DEF SearchIInv, Spreading, Staying, Due, StayingSeeds, AnswerEdges
<1> QED
  BY <1>1, <1>2, <1>4, <1>7 DEF SearchIInv

LEMMA LeavesKeeps ==
    ASSUME ServiceIInv, NEW r \in Calls, Leaves(r)
    PROVE  /\ SearchIInv' /\ asker' \in Calls \cup {Nobody} /\ asker' # r
           /\ \A q \in Calls : asker' = q => asker = q
<1>1. SearchIInv /\ SearchTypeOK /\ asker \in Calls \cup {Nobody}
  BY ServiceFields DEF ServiceIInv, SearchIInv
<1>2. /\ UNCHANGED <<db, writes>>
      /\ search' = NoSearch \/ search' = search
      /\ asker' = IF asker = r THEN Nobody ELSE asker
  BY DEF Leaves
<1>3. SearchIInv'
  BY <1>1, <1>2, FreshKeeps, SearchStays DEF searchVars
<1> QED
  BY <1>1, <1>2, <1>3, NobodyAssumption

\* A step of one request leaves the others' work and answers alone, and an object that
\* says it is running has lost nobody; who moves the object of the questions is the one
\* question at work.
LEMMA OneMoves ==
    ASSUME ServiceIInv, NEW r \in Calls, SearchIInv', ServiceTypeOK',
           \A q \in Calls \ {r} : /\ work'[q] = work[q] /\ answer'[q] = answer[q]
                                  /\ asker' = q => asker = q,
           OwnWork(r)',
           OwnQuestion(r)',
           \/ object'["graphrag"] = object["graphrag"]
           \/ AtWork("graphrag") \subseteq {r} /\ ShowsOne',
           \A o \in Objects : object'[o].state = "running" =>
              \/ r \in AtWork(o)'
              \/ object[o].state = "running" /\ r \notin AtWork(o)
    PROVE  ServiceIInv'
<1>1. ASSUME NEW q \in Calls PROVE OwnWork(q)'
  BY DEF ServiceIInv, OwnWork
<1>2. ShowsOne'
  BY DEF ServiceIInv, ShowsOne, OwnStatus
<1>4. ASSUME NEW q \in Calls PROVE OwnQuestion(q)'
  <2>1. CASE q = r
    BY <2>1
  <2>2. CASE q # r
    <3>1. OwnQuestion(q) /\ work'[q] = work[q] /\ answer'[q] = answer[q]
          /\ work[q].pc \in Steps
      BY <2>2, ServiceFields DEF ServiceIInv
    <3>2. CASE object'["graphrag"] = object["graphrag"]
      BY <3>1, <3>2 DEF OwnQuestion, OwnStatus, Idle
    <3>3. CASE AtWork("graphrag") \subseteq {r}
      <4>1. work[q].on = "graphrag" => work[q].pc \in {"none", "done"}
        BY <2>2, <3>1, <3>3 DEF AtWork
      <4> QED
        BY <3>1, <4>1 DEF OwnQuestion, OwnStatus, Idle
    <3> QED
      BY <3>2, <3>3
  <2> QED
    BY <2>1, <2>2
<1>3. RunningIsTrue'
  <2> SUFFICES ASSUME NEW o \in Objects, object'[o].state = "running" PROVE AtWork(o)' # {}
    BY DEF RunningIsTrue
  <2>1. CASE object[o].state = "running" /\ r \notin AtWork(o)
    <3>1. PICK q \in Calls : q \in AtWork(o)
      BY <2>1 DEF ServiceIInv, RunningIsTrue, AtWork
    <3>2. q # r
      BY <2>1, <3>1
    <3>3. q \in AtWork(o)'
      BY <3>1, <3>2 DEF AtWork
    <3> QED
      BY <3>3
  <2> QED
    BY <2>1
<1> QED
  BY <1>1, <1>2, <1>3, <1>4 DEF ServiceIInv

\* A request that has nothing to do with the questions.
LEMMA NoQuestion ==
    ASSUME NEW r \in Calls, work'[r].on # "graphrag"
    PROVE  OwnQuestion(r)'
BY DEF OwnQuestion

\* The one question at work.
LEMMA OneQuestion ==
    ASSUME ServiceIInv, NEW r \in Calls, work[r].on = "graphrag",
           work[r].pc \notin {"none", "done"}
    PROVE  /\ AtWork("graphrag") \subseteq {r}
           /\ object["graphrag"].state = "running"
           /\ object["graphrag"].started = r /\ object["graphrag"].query = r
<1>1. object["graphrag"].state = "running"
      /\ object["graphrag"].started = r /\ object["graphrag"].query = r
  BY DEF ServiceIInv, OwnQuestion
<1>2. ASSUME NEW q \in AtWork("graphrag") PROVE q = r
  BY <1>1 DEF ServiceIInv, OwnQuestion, AtWork
<1> QED
  BY <1>1, <1>2

\* A request that goes on to where it still has all to do.
LEMMA GoesKeeps ==
    ASSUME ServiceIInv, NEW r \in Calls, SearchIInv', UNCHANGED <<object, answer>>,
           NEW pc \in (Working \cup {"merge"}), Goes(r, pc),
           work[r].pc # "done",
           pc = "merge" => work[r].on = Nobody,
           pc \notin {"merge", "spread"} => work[r].on \in Objects,
           asker' \in Calls \cup {Nobody},
           \A q \in Calls \ {r} : asker' = q => asker = q,
           asker' = r => pc \in {"search", "spread"}
    PROVE  ServiceIInv'
<1>1. /\ work' = [work EXCEPT ![r].pc = pc] /\ work \in [Calls -> Orders]
      /\ answer \in [Calls -> Statuses] /\ object \in [Objects -> Statuses]
      /\ pc \in Steps \ {"none", "done", "read", "memory", "publish"}
  BY ServiceFields DEF Goes, ServiceIInv, Working, Steps
<1>2. /\ work' \in [Calls -> Orders]
      /\ work'[r].pc = pc /\ work'[r].on = work[r].on /\ work'[r].status = work[r].status
      /\ \A q \in Calls \ {r} : work'[q] = work[q]
  BY <1>1 DEF Orders
<1>3. ServiceTypeOK'
  BY <1>1, <1>2 DEF ServiceTypeOK, Orders, SearchIInv
<1>4. answer[r] = Idle
  BY DEF ServiceIInv, OwnWork
<1>5. OwnWork(r)'
  BY <1>1, <1>2, <1>4 DEF OwnWork, Working
<1>6. ASSUME NEW o \in Objects, object'[o].state = "running"
      PROVE  r \in AtWork(o)' \/ (object[o].state = "running" /\ r \notin AtWork(o))
  BY <1>1, <1>2, <1>6 DEF AtWork
<1>7. OwnQuestion(r)'
  <2>1. work[r].on = "graphrag" => work[r].pc # "none"
    BY NobodyAssumption DEF ServiceIInv, OwnWork, Objects
  <2> QED
    BY <1>1, <1>2, <1>4, <2>1, OneQuestion DEF OwnQuestion
<1> QED
  BY <1>2, <1>3, <1>5, <1>6, <1>7, OneMoves

\* A search that starts, of either kind, or that its question has done with.
LEMMA StartsKeeps ==
    ASSUME ServiceIInv, Start \/ StartSpread \/ (search' = NoSearch /\ UNCHANGED <<db, writes>>)
    PROVE  SearchIInv'
<1>1. SearchTypeOK
  BY DEF ServiceIInv, SearchIInv
<1>2. CASE search' = NoSearch /\ UNCHANGED <<db, writes>>
  BY <1>1, <1>2, FreshKeeps
<1>3. CASE Start
  <2>1. UNCHANGED <<db, writes>>
    BY <1>3 DEF Start
  <2> QED
    BY <1>1, <1>3, <2>1, FreshKeeps
<1>4. CASE StartSpread
  <2>1. UNCHANGED <<db, writes>>
    BY <1>4 DEF StartSpread
  <2> QED
    BY <1>1, <1>4, <2>1, FreshKeeps
<1> QED
  BY <1>2, <1>3, <1>4

\* The steps of a request on its way from one stage to the next.
LEMMA MovesKeep ==
    ASSUME ServiceIInv, NEW r \in Calls,
           \/ AnswerAtOnce(r) \/ Search(r) \/ Searched(r) \/ ReadChunks(r) \/ Recall(r)
           \/ Route(r) \/ WebAnswers(r) \/ ActivateMemory(r)
    PROVE  ServiceIInv'
<1>1. /\ OwnWork(r) /\ SearchIInv /\ asker \in Calls \cup {Nobody}
      /\ work[r].on \in Objects \cup {Nobody}
  BY ServiceFields DEF ServiceIInv
<1>2. "merge" \in Working \cup {"merge"} /\ Working \subseteq Working \cup {"merge"}
  OBVIOUS
<1>3. CASE AnswerAtOnce(r)
  <2>1. work[r].pc = "ask" /\ Goes(r, "work") /\ UNCHANGED <<searchVars, object, answer, asker>>
    BY <1>3 DEF AnswerAtOnce
  <2>2. SearchIInv'
    BY <1>1, <2>1, SearchStays
  <2>3. work[r].on \in Objects /\ asker # r /\ "work" \in Working \cup {"merge"}
    BY <1>1, <2>1 DEF OwnWork, Working
  <2> QED
    BY <1>1, <2>1, <2>2, <2>3, GoesKeeps
<1>4. CASE Search(r)
  <2>1. /\ work[r].pc = "ask" /\ Goes(r, "search") /\ UNCHANGED <<object, answer>>
        /\ Start /\ asker' = r
    BY <1>4 DEF Search
  <2>2. SearchIInv'
    BY <1>1, <2>1, StartsKeeps
  <2>3. work[r].on \in Objects /\ "search" \in Working \cup {"merge"}
    BY <1>1, <2>1 DEF OwnWork, Working
  <2> QED
    BY <1>1, <2>1, <2>2, <2>3, GoesKeeps
<1>5. CASE Searched(r)
  <2> DEFINE pc == CASE work[r].pc = "search" -> "chunks"
                     [] work[r].on = Nobody -> "merge"
                     [] OTHER -> "route"
  <2>1. /\ asker = r /\ Goes(r, pc) /\ UNCHANGED <<db, writes, object, answer>>
        /\ search' = NoSearch /\ asker' = Nobody
    BY <1>5 DEF Searched
  <2>2. SearchIInv'
    BY <1>1, <2>1, StartsKeeps
  <2>3. work[r].pc \in {"search", "spread"} /\ work[r].pc # "done"
    BY <1>1, <2>1 DEF OwnWork
  <2>4. work[r].pc = "search" => work[r].on \in Objects
    BY <1>1 DEF OwnWork, Working
  <2>5. /\ pc \in Working \cup {"merge"}
        /\ pc = "merge" => work[r].on = Nobody
        /\ pc \notin {"merge", "spread"} => work[r].on \in Objects
    BY <1>1, <2>3, <2>4 DEF Working
  <2>6. \A q \in Calls : asker' # q
    BY <2>1, NobodyAssumption
  <2> HIDE DEF pc
  <2> QED
    BY <1>1, <2>1, <2>2, <2>3, <2>5, <2>6, GoesKeeps
<1>6. CASE ReadChunks(r)
  <2> DEFINE pc == IF work[r].on = "guard" THEN "work" ELSE "recall"
  <2>1. work[r].pc = "chunks" /\ Goes(r, pc) /\ UNCHANGED <<searchVars, object, answer, asker>>
    BY <1>6 DEF ReadChunks
  <2>2. SearchIInv'
    BY <1>1, <2>1, SearchStays
  <2>3. /\ work[r].on \in Objects /\ asker # r
        /\ pc \in Working \cup {"merge"} /\ pc \notin {"merge", "spread"}
    BY <1>1, <2>1 DEF OwnWork, Working
  <2> HIDE DEF pc
  <2> QED
    BY <1>1, <2>1, <2>2, <2>3, GoesKeeps
<1>7. CASE Recall(r)
  <2>1. work[r].pc = "recall" /\ UNCHANGED <<object, answer>>
    BY <1>7 DEF Recall
  <2>2. work[r].on \in Objects /\ asker # r /\ {"spread", "route"} \subseteq Working
    BY <1>1, <2>1 DEF OwnWork, Working
  <2>3. CASE StartSpread /\ asker' = r /\ Goes(r, "spread")
    <3>1. SearchIInv'
      BY <1>1, <2>3, StartsKeeps
    <3>2. "spread" \in Working \cup {"merge"}
      BY <2>2
    <3> QED
      BY <1>1, <2>1, <2>2, <2>3, <3>1, <3>2, GoesKeeps
  <2>4. CASE Goes(r, "route") /\ UNCHANGED <<searchVars, asker>>
    <3>1. SearchIInv'
      BY <1>1, <2>4, SearchStays
    <3>2. "route" \in Working \cup {"merge"}
      BY <2>2
    <3> QED
      BY <1>1, <2>1, <2>2, <2>4, <3>1, <3>2, GoesKeeps
  <2> QED
    BY <1>7, <2>3, <2>4 DEF Recall
<1>8. CASE Route(r)
  <2>1. work[r].pc = "route" /\ UNCHANGED <<searchVars, object, answer, asker>>
    BY <1>8 DEF Route
  <2>2. PICK next \in {"web", "work"} : Goes(r, next)
    BY <1>8 DEF Route
  <2>3. SearchIInv'
    BY <1>1, <2>1, SearchStays
  <2>4. /\ work[r].on \in Objects /\ asker # r
        /\ next \in Working \cup {"merge"} /\ next \notin {"merge", "spread"}
    BY <1>1, <2>1, <2>2 DEF OwnWork, Working
  <2> QED
    BY <1>1, <2>1, <2>2, <2>3, <2>4, GoesKeeps
<1>9. CASE WebAnswers(r)
  <2>1. work[r].pc = "web" /\ Goes(r, "work") /\ UNCHANGED <<searchVars, object, answer, asker>>
    BY <1>9 DEF WebAnswers
  <2>2. SearchIInv'
    BY <1>1, <2>1, SearchStays
  <2>3. work[r].on \in Objects /\ asker # r /\ "work" \in Working \cup {"merge"}
    BY <1>1, <2>1 DEF OwnWork, Working
  <2> QED
    BY <1>1, <2>1, <2>2, <2>3, GoesKeeps
<1>10. CASE ActivateMemory(r)
  <2>1. work[r].pc = "none" /\ UNCHANGED <<object, answer>>
    BY <1>10 DEF ActivateMemory
  <2>2. work[r].on = Nobody /\ asker # r /\ "spread" \in Working
    BY <1>1, <2>1 DEF OwnWork, Working
  <2>3. CASE StartSpread /\ asker' = r /\ Goes(r, "spread")
    <3>1. SearchIInv'
      BY <1>1, <2>3, StartsKeeps
    <3>2. "spread" \in Working \cup {"merge"}
      BY <2>2
    <3> QED
      BY <1>1, <2>1, <2>2, <2>3, <3>1, <3>2, GoesKeeps
  <2>4. CASE Goes(r, "merge") /\ UNCHANGED <<searchVars, asker>>
    <3>1. SearchIInv'
      BY <1>1, <2>4, SearchStays
    <3> QED
      BY <1>1, <1>2, <2>1, <2>2, <2>4, <3>1, GoesKeeps
  <2> QED
    BY <1>10, <2>3, <2>4 DEF ActivateMemory
<1> QED
  BY <1>3, <1>4, <1>5, <1>6, <1>7, <1>8, <1>9, <1>10

\* An operation that begins says so on its object.
LEMMA BeginKeeps ==
    ASSUME ServiceIInv, NEW r \in Calls, NEW o \in Objects, Begin(r, o)
    PROVE  ServiceIInv'
<1> DEFINE pc == IF o \in {"graphrag", "guard"} THEN "ask" ELSE "work"
           made == [object[o] EXCEPT !.state = "running", !.started = r,
                                       !.query = IF o = "graphrag" THEN r ELSE @]
<1>1. /\ OwnWork(r) /\ SearchIInv
      /\ object \in [Objects -> Statuses] /\ answer \in [Calls -> Statuses]
      /\ work \in [Calls -> Orders] /\ asker \in Calls \cup {Nobody}
      /\ object[o] \in Statuses
  BY ServiceFields DEF ServiceIInv
<1>2. /\ work[r].pc = "none" /\ UNCHANGED <<searchVars, answer, asker>>
      /\ work' = [work EXCEPT ![r].pc = pc, ![r].on = o]
      /\ object' = [object EXCEPT ![o] = made]
  BY DEF Begin
<1>3. answer[r] = Idle /\ asker # r
  BY <1>1, <1>2 DEF OwnWork
<1>4. pc \in {"ask", "work"} /\ {"ask", "work"} \subseteq Working
  BY DEF Working
<1>5. made \in Statuses
  BY <1>1 DEF Statuses
<1> HIDE DEF pc, made
<1>6. /\ work' \in [Calls -> Orders] /\ object' \in [Objects -> Statuses]
      /\ work'[r].pc = pc /\ work'[r].on = o /\ work'[r].status = work[r].status
      /\ \A q \in Calls \ {r} : work'[q] = work[q]
      /\ \A p \in Objects \ {o} : object'[p] = object[p]
  BY <1>1, <1>2, <1>4, <1>5 DEF Orders, Working, Steps
<1>7. SearchIInv'
  BY <1>1, <1>2, SearchStays
<1>8. ServiceTypeOK'
  BY <1>1, <1>2, <1>6, <1>7 DEF ServiceTypeOK, SearchIInv, Orders
<1>9. OwnWork(r)'
  BY <1>2, <1>3, <1>4, <1>6 DEF OwnWork
<1>10. ASSUME NEW p \in Objects, object'[p].state = "running"
       PROVE  r \in AtWork(p)' \/ (object[p].state = "running" /\ r \notin AtWork(p))
  BY <1>2, <1>4, <1>6, <1>10 DEF AtWork, Steps
<1>11. \A q \in Calls : asker' = q => asker = q
  BY <1>2
<1>12. /\ OwnQuestion(r)'
       /\ \/ object'["graphrag"] = object["graphrag"]
          \/ AtWork("graphrag") \subseteq {r} /\ ShowsOne'
  <2>1. CASE o = "graphrag"
    <3>1. AtWork("graphrag") = {}
      BY <2>1 DEF Begin
    <3>2. object'["graphrag"] = made
      BY <1>1, <1>2, <2>1
    <3>3. made.state = "running" /\ made.started = r /\ made.query = r
      BY <1>1, <2>1 DEF made, Statuses
    <3> QED
      BY <1>2, <1>3, <1>4, <1>6, <3>1, <3>2, <3>3 DEF OwnQuestion, ShowsOne
  <2>2. CASE o # "graphrag"
    <3>1. "graphrag" \in Objects
      BY DEF Objects
    <3> QED
      BY <1>6, <2>2, <3>1, NoQuestion
  <2> QED
    BY <2>1, <2>2
<1> QED
  BY <1>2, <1>6, <1>7, <1>8, <1>9, <1>10, <1>11, <1>12, OneMoves

\* An operation that succeeds, or fails, has a status to publish and its object unchanged.
LEMMA EndsKeeps ==
    ASSUME ServiceIInv, NEW r \in Calls, work[r].pc \in Working, work[r].on \in Objects,
           SearchIInv', UNCHANGED <<object, answer>>,
           asker' \in Calls \cup {Nobody}, asker' # r,
           \A q \in Calls : asker' = q => asker = q,
           NEW pc \in {"memory", "publish"}, NEW made \in Statuses,
           made.state \in {"failed", "completed"},
           pc = "memory" => work[r].on = "ontology",
           work[r].on = "graphrag" => OwnStatus(r, made),
           work' = [work EXCEPT ![r].pc = pc, ![r].status = made]
    PROVE  ServiceIInv'
<1>1. /\ OwnWork(r) /\ object \in [Objects -> Statuses] /\ answer \in [Calls -> Statuses]
      /\ work \in [Calls -> Orders]
  BY ServiceFields DEF ServiceIInv
<1>2. /\ work' \in [Calls -> Orders] /\ work'[r].status = made
      /\ work'[r].pc = pc /\ work'[r].on = work[r].on
      /\ \A q \in Calls \ {r} : work'[q] = work[q]
  BY <1>1 DEF Orders, Steps
<1>3. answer[r] = Idle /\ answer'[r] = Idle
  BY <1>1 DEF OwnWork, Working
<1>4. ServiceTypeOK'
  BY <1>1, <1>2 DEF ServiceTypeOK, SearchIInv, Orders
<1>5. OwnWork(r)'
  BY <1>2, <1>3 DEF OwnWork, Working
<1>7. OwnQuestion(r)'
  <2> SUFFICES ASSUME work[r].on = "graphrag" PROVE OwnQuestion(r)'
    BY <1>2, NoQuestion
  <2>1. /\ object["graphrag"].state = "running"
        /\ object["graphrag"].started = r /\ object["graphrag"].query = r
    BY OneQuestion DEF Working
  <2> QED
    BY <1>2, <1>3, <2>1 DEF OwnQuestion, OwnStatus
<1>6. ASSUME NEW o \in Objects, object'[o].state = "running"
      PROVE  r \in AtWork(o)' \/ (object[o].state = "running" /\ r \notin AtWork(o))
  BY <1>2, <1>6 DEF AtWork, Steps
<1> QED
  BY <1>2, <1>4, <1>5, <1>6, <1>7, OneMoves

LEMMA SucceedKeeps ==
    ASSUME ServiceIInv, NEW r \in Calls, Succeed(r)
    PROVE  ServiceIInv'
<1> DEFINE o == work[r].on
           pc == IF o = "ontology" THEN "memory" ELSE "publish"
           made == [state |-> "completed", started |-> object[o].started, result |-> r,
                      query |-> IF o = "graphrag" THEN r ELSE Nobody]
<1>1. /\ work[r].pc = "work" /\ UNCHANGED <<searchVars, object, answer, asker>>
      /\ work' = [work EXCEPT ![r].pc = pc, ![r].status = made]
  BY DEF Succeed
<1>2. /\ OwnWork(r) /\ SearchIInv /\ asker \in Calls \cup {Nobody}
      /\ \A p \in Objects : object[p] \in Statuses
  BY ServiceFields DEF ServiceIInv
<1>3. work[r].pc \in Working /\ o \in Objects /\ asker # r
  BY <1>1, <1>2 DEF OwnWork, Working
<1>4. object[o] \in Statuses
  BY <1>2, <1>3
<1>5. made \in Statuses
  BY <1>4 DEF Statuses
<1>6. /\ pc \in {"memory", "publish"} /\ made.state \in {"failed", "completed"}
      /\ pc = "memory" => o = "ontology"
  OBVIOUS
<1>8. o = "graphrag" => OwnStatus(r, made)
  BY <1>1, OneQuestion DEF OwnStatus
<1>7. SearchIInv'
  BY <1>1, <1>2, SearchStays
<1> HIDE DEF pc, made
<1> QED
  BY <1>1, <1>2, <1>3, <1>5, <1>6, <1>7, <1>8, EndsKeeps

LEMMA FailKeeps ==
    ASSUME ServiceIInv, NEW r \in Calls, Fail(r)
    PROVE  ServiceIInv'
<1> DEFINE o == work[r].on
           made == [object[o] EXCEPT !.state = "failed",
                                       !.result = IF o = "graphrag" THEN Nobody ELSE @]
<1>1. /\ work[r].pc \in Working /\ o # Nobody /\ Leaves(r) /\ UNCHANGED <<object, answer>>
      /\ work' = [work EXCEPT ![r].pc = "publish", ![r].status = made]
  BY DEF Fail
<1>2. o \in Objects /\ object[o] \in Statuses
  BY <1>1, ServiceFields DEF ServiceIInv
<1>3. made \in Statuses /\ made.state = "failed"
  BY <1>2 DEF Statuses
<1>4. /\ SearchIInv' /\ asker' \in Calls \cup {Nobody} /\ asker' # r
      /\ \A q \in Calls : asker' = q => asker = q
  BY <1>1, LeavesKeeps
<1>5. "publish" \in {"memory", "publish"}
  OBVIOUS
<1>6. o = "graphrag" => OwnStatus(r, made)
  <2> SUFFICES ASSUME o = "graphrag" PROVE OwnStatus(r, made)
    OBVIOUS
  <2>1. object["graphrag"].started = r /\ object["graphrag"].query = r
    BY <1>1, OneQuestion DEF Working
  <2> QED
    BY <1>2, <2>1 DEF OwnStatus, Statuses
<1> HIDE DEF made
<1> QED
  BY <1>1, <1>2, <1>3, <1>4, <1>5, <1>6, EndsKeeps

LEMMA ShowMemoryKeeps ==
    ASSUME ServiceIInv, NEW r \in Calls, ShowMemory(r)
    PROVE  ServiceIInv'
<1>1. PICK state \in {"idle", "completed"} :
         /\ object' = [object EXCEPT !["memory"] = [Idle EXCEPT !.state = state, !.result = r]]
         /\ work[r].pc = "memory" /\ work' = [work EXCEPT ![r].pc = "publish"]
         /\ UNCHANGED <<searchVars, answer, asker>>
  BY DEF ShowMemory, Goes
<1>2. /\ OwnWork(r) /\ SearchIInv
      /\ object \in [Objects -> Statuses] /\ answer \in [Calls -> Statuses]
      /\ work \in [Calls -> Orders] /\ asker \in Calls \cup {Nobody}
  BY ServiceFields DEF ServiceIInv
<1> DEFINE shown == [Idle EXCEPT !.state = state, !.result = r]
<1>3. shown \in Statuses /\ shown.state # "running" /\ "memory" \in Objects
  BY DEF Idle, Statuses, Objects
<1> HIDE DEF shown
<1>4. object' = [object EXCEPT !["memory"] = shown]
  BY <1>1 DEF shown
<1>5. /\ object' \in [Objects -> Statuses] /\ object'["memory"] = shown
      /\ \A o \in Objects \ {"memory"} : object'[o] = object[o]
  BY <1>2, <1>3, <1>4
<1>6. /\ work' \in [Calls -> Orders] /\ work'[r].pc = "publish"
      /\ work'[r].on = work[r].on /\ work'[r].status = work[r].status
      /\ \A q \in Calls \ {r} : work'[q] = work[q]
  BY <1>1, <1>2 DEF Orders, Steps
<1>7. /\ answer[r] = Idle /\ asker # r
      /\ \A q \in Calls : asker' = q => asker = q
  BY <1>1, <1>2 DEF OwnWork
<1>12. work[r].on = "ontology" /\ object'["graphrag"] = object["graphrag"]
  BY <1>1, <1>2, <1>5 DEF OwnWork, Objects
<1>13. OwnQuestion(r)'
  BY <1>6, <1>12, NoQuestion
<1>8. SearchIInv'
  BY <1>1, <1>2, SearchStays
<1>9. ServiceTypeOK'
  BY <1>1, <1>2, <1>5, <1>6, <1>8 DEF ServiceTypeOK, SearchIInv, Orders
<1>10. OwnWork(r)'
  BY <1>1, <1>2, <1>6, <1>7 DEF OwnWork, Working
<1>11. ASSUME NEW o \in Objects, object'[o].state = "running"
       PROVE  r \in AtWork(o)' \/ (object[o].state = "running" /\ r \notin AtWork(o))
  BY <1>1, <1>3, <1>5, <1>6, <1>11 DEF AtWork, Steps
<1> QED
  BY <1>1, <1>6, <1>7, <1>8, <1>9, <1>10, <1>11, <1>12, <1>13, OneMoves

LEMMA PublishKeeps ==
    ASSUME ServiceIInv, NEW r \in Calls, Publish(r)
    PROVE  ServiceIInv'
<1> DEFINE on == work[r].on
           made == work[r].status
<1>1. /\ work[r].pc = "publish" /\ work' = [work EXCEPT ![r].pc = "done"]
      /\ object' = [object EXCEPT ![on] = made] /\ answer' = [answer EXCEPT ![r] = made]
      /\ UNCHANGED <<searchVars, asker>>
  BY DEF Publish, Goes
<1>2. /\ OwnWork(r) /\ SearchIInv
      /\ object \in [Objects -> Statuses] /\ answer \in [Calls -> Statuses]
      /\ work \in [Calls -> Orders] /\ asker \in Calls \cup {Nobody}
      /\ made \in Statuses
  BY ServiceFields DEF ServiceIInv
<1>3. on \in Objects /\ asker # r /\ made.state \in {"failed", "completed"}
  BY <1>1, <1>2 DEF OwnWork
<1>10. on = "graphrag" => AtWork("graphrag") \subseteq {r} /\ OwnStatus(r, made)
  BY <1>1, OneQuestion DEF ServiceIInv, OwnQuestion
<1>4. /\ work' \in [Calls -> Orders] /\ work'[r].pc = "done"
      /\ work'[r].on = on /\ work'[r].status = made
      /\ \A q \in Calls \ {r} : work'[q] = work[q]
  BY <1>1, <1>2 DEF Orders, Steps
<1> HIDE DEF on, made
<1>5. /\ object' \in [Objects -> Statuses] /\ object'[on] = made
      /\ \A o \in Objects \ {on} : object'[o] = object[o]
      /\ answer' \in [Calls -> Statuses] /\ answer'[r] = made
      /\ \A q \in Calls \ {r} : answer'[q] = answer[q]
  BY <1>1, <1>2, <1>3
<1>6. SearchIInv' /\ \A q \in Calls : asker' = q => asker = q
  BY <1>1, <1>2, SearchStays
<1>7. ServiceTypeOK'
  BY <1>1, <1>2, <1>4, <1>5, <1>6 DEF ServiceTypeOK, SearchIInv, Orders
<1>8. OwnWork(r)'
  BY <1>1, <1>3, <1>4, <1>5 DEF OwnWork, Working
<1>9. ASSUME NEW o \in Objects, object'[o].state = "running"
      PROVE  object[o].state = "running" /\ r \notin AtWork(o)
  BY <1>3, <1>5, <1>9 DEF AtWork, on
<1>11. /\ OwnQuestion(r)'
       /\ \/ object'["graphrag"] = object["graphrag"]
          \/ AtWork("graphrag") \subseteq {r} /\ ShowsOne'
  <2>1. CASE on = "graphrag"
    <3>1. /\ OwnStatus(r, made) /\ object'["graphrag"] = made /\ answer'[r] = made
          /\ AtWork("graphrag") \subseteq {r}
      BY <1>5, <1>10, <2>1
    <3>2. OwnQuestion(r)'
      BY <1>4, <3>1 DEF OwnQuestion, OwnStatus
    <3>3. ShowsOne'
      BY <3>1 DEF ShowsOne, OwnStatus
    <3> QED
      BY <3>1, <3>2, <3>3
  <2>2. CASE on # "graphrag"
    <3>1. "graphrag" \in Objects
      BY DEF Objects
    <3> QED
      BY <1>4, <1>5, <2>2, <3>1, NoQuestion
  <2> QED
    BY <2>1, <2>2
<1> QED
  BY <1>3, <1>4, <1>5, <1>6, <1>7, <1>8, <1>9, <1>11, OneMoves

LEMMA ReadMemoryKeeps ==
    ASSUME ServiceIInv, NEW r \in Calls, ReadMemory(r)
    PROVE  ServiceIInv'
<1>1. PICK made \in Counted :
         /\ work[r].pc = "none" /\ work' = [work EXCEPT ![r].pc = "read", ![r].status = made]
         /\ UNCHANGED <<searchVars, object, answer, asker>>
  BY DEF ReadMemory
<1>2. /\ OwnWork(r) /\ SearchIInv
      /\ object \in [Objects -> Statuses] /\ answer \in [Calls -> Statuses]
      /\ work \in [Calls -> Orders] /\ asker \in Calls \cup {Nobody}
  BY ServiceFields DEF ServiceIInv
<1>3. /\ work' \in [Calls -> Orders] /\ work'[r].pc = "read"
      /\ work'[r].on = work[r].on /\ work'[r].status = made
      /\ \A q \in Calls \ {r} : work'[q] = work[q]
  BY <1>1, <1>2, IdleOK DEF Orders, Steps
<1>4. /\ answer[r] = Idle /\ asker # r
      /\ work[r].on = Nobody /\ \A q \in Calls : asker' = q => asker = q
  BY <1>1, <1>2 DEF OwnWork
<1>9. OwnQuestion(r)'
  BY <1>3, <1>4, NobodyAssumption, NoQuestion DEF Objects
<1>5. SearchIInv'
  BY <1>1, <1>2, SearchStays
<1>6. ServiceTypeOK'
  BY <1>1, <1>2, <1>3, <1>5 DEF ServiceTypeOK, SearchIInv, Orders
<1>7. OwnWork(r)'
  BY <1>1, <1>3, <1>4 DEF OwnWork, Working, Counted
<1>8. ASSUME NEW o \in Objects, object'[o].state = "running"
      PROVE  object[o].state = "running" /\ r \notin AtWork(o)
  BY <1>1, <1>8 DEF AtWork
<1> QED
  BY <1>1, <1>3, <1>4, <1>5, <1>6, <1>7, <1>8, <1>9, OneMoves

\* What the memory's status is brought up to date with.
LEMMA MergedOK ==
    ASSUME ServiceTypeOK, NEW made \in Counted, object' = [object EXCEPT !["memory"] = Merged(made)]
    PROVE  /\ Merged(made) \in Statuses /\ Merged(made).state # "running"
           /\ object' \in [Objects -> Statuses] /\ object'["memory"] = Merged(made)
           /\ object'["graphrag"] = object["graphrag"]
           /\ \A o \in Objects : object'[o].state = "running" => object[o].state = "running"
<1>1. "memory" \in Objects /\ object \in [Objects -> Statuses] /\ object["memory"] \in Statuses
  BY ServiceFields DEF Objects
<1>2. made.state \in {"idle", "completed"}
  BY IdleOK
<1>3. Merged(made) \in Statuses /\ Merged(made).state # "running"
  BY <1>1, <1>2 DEF Merged, Statuses
<1>4. "graphrag" \in Objects
  BY DEF Objects
<1> QED
  BY <1>1, <1>3, <1>4

LEMMA MergeMemoryKeeps ==
    ASSUME ServiceIInv, NEW r \in Calls, MergeMemory(r)
    PROVE  ServiceIInv'
<1> DEFINE merged == Merged(work[r].status)
<1>1. /\ work[r].pc = "read" /\ work' = [work EXCEPT ![r].pc = "done"]
      /\ object' = [object EXCEPT !["memory"] = merged]
      /\ answer' = [answer EXCEPT ![r] = object'["memory"]]
      /\ UNCHANGED <<searchVars, asker>>
  BY DEF MergeMemory, Goes
<1>2. /\ OwnWork(r) /\ SearchIInv /\ ServiceTypeOK
      /\ answer \in [Calls -> Statuses]
      /\ work \in [Calls -> Orders] /\ asker \in Calls \cup {Nobody}
  BY ServiceFields DEF ServiceIInv
<1>3. /\ work[r].on = Nobody /\ work[r].status \in Counted /\ asker # r
  BY <1>1, <1>2 DEF OwnWork
<1>4. /\ merged \in Statuses
      /\ object' \in [Objects -> Statuses] /\ object'["memory"] = merged
      /\ object'["graphrag"] = object["graphrag"]
      /\ \A o \in Objects : object'[o].state = "running" => object[o].state = "running"
  BY <1>1, <1>2, <1>3, MergedOK
<1> HIDE DEF merged
<1>5. /\ work' \in [Calls -> Orders] /\ work'[r].pc = "done"
      /\ work'[r].on = work[r].on /\ work'[r].status = work[r].status
      /\ \A q \in Calls \ {r} : work'[q] = work[q]
      /\ answer' \in [Calls -> Statuses]
      /\ \A q \in Calls \ {r} : answer'[q] = answer[q]
  BY <1>1, <1>2, <1>4 DEF Orders, Steps
<1>6. OwnQuestion(r)'
  BY <1>3, <1>5, NobodyAssumption, NoQuestion DEF Objects
<1>7. SearchIInv' /\ \A q \in Calls : asker' = q => asker = q
  BY <1>1, <1>2, SearchStays
<1>8. ServiceTypeOK'
  BY <1>1, <1>2, <1>4, <1>5, <1>7 DEF ServiceTypeOK, SearchIInv, Orders
<1>9. OwnWork(r)'
  BY <1>1, <1>3, <1>5 DEF OwnWork, Working
<1>10. ASSUME NEW o \in Objects, object'[o].state = "running"
       PROVE  object[o].state = "running" /\ r \notin AtWork(o)
  BY <1>3, <1>4, <1>10, NobodyAssumption DEF AtWork
<1> QED
  BY <1>4, <1>5, <1>6, <1>7, <1>8, <1>9, <1>10, OneMoves

LEMMA ShowActivatedKeeps ==
    ASSUME ServiceIInv, NEW r \in Calls, ShowActivated(r)
    PROVE  ServiceIInv'
<1>1. PICK made \in Counted :
         /\ work[r].pc = "merge" /\ work' = [work EXCEPT ![r].pc = "done"]
         /\ object' = [object EXCEPT !["memory"] = Merged(made)]
         /\ UNCHANGED <<searchVars, answer, asker>>
  BY DEF ShowActivated, Goes
<1>2. /\ OwnWork(r) /\ SearchIInv /\ ServiceTypeOK
      /\ answer \in [Calls -> Statuses]
      /\ work \in [Calls -> Orders] /\ asker \in Calls \cup {Nobody}
  BY ServiceFields DEF ServiceIInv
<1>3. work[r].on = Nobody /\ asker # r /\ answer[r] = Idle
  BY <1>1, <1>2 DEF OwnWork
<1>4. /\ object' \in [Objects -> Statuses] /\ object'["graphrag"] = object["graphrag"]
      /\ \A o \in Objects : object'[o].state = "running" => object[o].state = "running"
  BY <1>1, <1>2, MergedOK
<1>5. /\ work' \in [Calls -> Orders] /\ work'[r].pc = "done"
      /\ work'[r].on = work[r].on /\ work'[r].status = work[r].status
      /\ \A q \in Calls \ {r} : work'[q] = work[q]
  BY <1>1, <1>2 DEF Orders, Steps
<1>6. SearchIInv' /\ \A q \in Calls : asker' = q => asker = q
  BY <1>1, <1>2, SearchStays
<1>7. ServiceTypeOK'
  BY <1>1, <1>2, <1>4, <1>5, <1>6 DEF ServiceTypeOK, SearchIInv, Orders
<1>8. OwnWork(r)'
  BY <1>1, <1>3, <1>5 DEF OwnWork, Working
<1>9. ASSUME NEW o \in Objects, object'[o].state = "running"
      PROVE  object[o].state = "running" /\ r \notin AtWork(o)
  BY <1>3, <1>4, <1>9, NobodyAssumption DEF AtWork
<1>10. OwnQuestion(r)'
  BY <1>3, <1>5, NobodyAssumption, NoQuestion DEF Objects
<1> QED
  BY <1>1, <1>3, <1>4, <1>5, <1>6, <1>7, <1>8, <1>9, <1>10, OneMoves

LEMMA RaisesKeeps ==
    ASSUME ServiceIInv, NEW r \in Calls, Raises(r)
    PROVE  ServiceIInv'
<1>1. /\ work[r].pc \in {"read", "spread", "merge"} /\ work[r].on = Nobody
      /\ Leaves(r) /\ UNCHANGED <<object, answer>>
      /\ work' = [work EXCEPT ![r].pc = "done"]
  BY DEF Raises, Goes
<1>2. /\ OwnWork(r) /\ ServiceTypeOK
      /\ object \in [Objects -> Statuses] /\ answer \in [Calls -> Statuses]
      /\ work \in [Calls -> Orders]
  BY ServiceFields DEF ServiceIInv
<1>3. answer[r] = Idle
  BY <1>1, <1>2 DEF OwnWork
<1>4. /\ SearchIInv' /\ asker' \in Calls \cup {Nobody} /\ asker' # r
      /\ \A q \in Calls : asker' = q => asker = q
  BY <1>1, LeavesKeeps
<1>5. /\ work' \in [Calls -> Orders] /\ work'[r].pc = "done"
      /\ work'[r].on = work[r].on /\ work'[r].status = work[r].status
      /\ \A q \in Calls \ {r} : work'[q] = work[q]
  BY <1>1, <1>2 DEF Orders, Steps
<1>6. ServiceTypeOK'
  BY <1>1, <1>2, <1>4, <1>5 DEF ServiceTypeOK, SearchIInv, Orders
<1>7. OwnWork(r)'
  BY <1>1, <1>4, <1>5 DEF OwnWork, Working
<1>8. ASSUME NEW o \in Objects, object'[o].state = "running"
      PROVE  object[o].state = "running" /\ r \notin AtWork(o)
  BY <1>1, <1>8, NobodyAssumption DEF AtWork
<1>9. OwnQuestion(r)'
  BY <1>1, <1>5, NobodyAssumption, NoQuestion DEF Objects
<1> QED
  BY <1>1, <1>3, <1>4, <1>5, <1>6, <1>7, <1>8, <1>9, OneMoves

\* The search goes on, or others commit, and every request stays where it is.
LEMMA RequestsStay ==
    ASSUME ServiceIInv, SearchIInv', UNCHANGED serviceVars
    PROVE  ServiceIInv'
<1> USE DEF serviceVars
<1>1. ServiceTypeOK'
  BY DEF ServiceIInv, ServiceTypeOK, SearchIInv
<1>2. ASSUME NEW r \in Calls PROVE OwnWork(r)' /\ OwnQuestion(r)'
  BY DEF ServiceIInv, OwnWork, OwnQuestion, OwnStatus
<1>3. ShowsOne' /\ RunningIsTrue'
  BY DEF ServiceIInv, ShowsOne, OwnStatus, RunningIsTrue, AtWork
<1> QED
  BY <1>1, <1>2, <1>3 DEF ServiceIInv

-----------------------------------------------------------------------------
(* Theorems. *)

\* Before anything is asked nothing is searched, running or answered.
LEMMA ServiceStarts ==
    ASSUME ServiceInit
    PROVE  ServiceIInv
<1> USE NumbersOK
<1>1. /\ search = NoSearch /\ db \in Databases /\ writes = 0
      /\ NoRows \in Databases
  BY SearchAssumption DEF ServiceInit, SearchInit, NoRows, Databases
<1>2. <<>> \in Seq(Nodes \X (0 .. MaxDepth)) /\ DOMAIN <<>> = {}
  BY EmptySeq
<1>3. NoSearch \in Searches
  BY <1>1, <1>2 DEF NoSearch, Searches, SearchPhases
<1>4. SearchIInv
  <2>1. /\ search \in Searches
        /\ search.seeds = {} /\ search.visited = {} /\ search.frontier = {}
        /\ search.edges = {} /\ search.read = {} /\ search.missing = {}
        /\ search.queue = <<>> /\ search.depth = 0
        /\ search.pc = "idle" /\ search.kind = "none"
    BY <1>1, <1>3 DEF NoSearch
  <2>2. SearchTypeOK /\ Shape /\ Between
    BY <1>1, <2>1 DEF SearchTypeOK, Shape, Between, Contained
  <2>3. Bounded
    BY <2>1, FS_EmptySet DEF Bounded, Most
  <2>4. Found
    BY <1>2, <2>1 DEF Found
  <2>5. Complete
    BY <2>1 DEF Complete, Followed, Follows, EndsOf
  <2>6. Spreading
    BY <1>2, <2>1 DEF Spreading, Ordered
  <2> QED
    BY <2>2, <2>3, <2>4, <2>5, <2>6 DEF SearchIInv
<1>5. /\ object = [o \in Objects |-> Idle] /\ answer = [r \in Calls |-> Idle] /\ asker = Nobody
      /\ work = [r \in Calls |-> [pc |-> "none", on |-> Nobody, status |-> Idle]]
  BY DEF ServiceInit
<1>6. ServiceTypeOK
  BY <1>4, <1>5, IdleOK DEF ServiceTypeOK, SearchIInv, Steps
<1>7. ASSUME NEW r \in Calls PROVE OwnWork(r) /\ OwnQuestion(r)
  BY <1>5, NobodyAssumption DEF OwnWork, Working, OwnQuestion, Objects
<1>8. ShowsOne /\ RunningIsTrue
  BY <1>5, IdleOK DEF ShowsOne, RunningIsTrue, Objects
<1> QED
  BY <1>4, <1>6, <1>7, <1>8 DEF ServiceIInv

LEMMA ServiceStepKeeps ==
    ASSUME ServiceIInv, [ServiceNext]_alphaVars
    PROVE  ServiceIInv'
<1>1. SearchIInv
  BY DEF ServiceIInv
<1>2. CASE \E r \in Calls, o \in Objects : Begin(r, o)
  BY <1>2, BeginKeeps
<1>3. CASE \E r \in Calls : RequestStep(r) \/ ReadMemory(r) \/ ActivateMemory(r)
  BY <1>3, MovesKeep, SucceedKeeps, FailKeeps, ShowMemoryKeeps, PublishKeeps, MergeMemoryKeeps,
     ShowActivatedKeeps, RaisesKeeps, ReadMemoryKeeps
  DEF RequestStep
<1>4. CASE SearchStep /\ UNCHANGED serviceVars
  BY <1>1, <1>4, SearchStepKeeps, RequestsStay
<1>5. CASE \E new \in Commits : WriterCommits(new) /\ UNCHANGED serviceVars
  <2>1. PICK new \in Commits : WriterCommits(new) /\ UNCHANGED serviceVars
    BY <1>5
  <2> QED
    BY <1>1, <2>1, WriterKeeps, RequestsStay, SearchAssumption
<1>6. CASE UNCHANGED alphaVars
  <2>1. UNCHANGED searchVars /\ UNCHANGED serviceVars
    BY <1>6 DEF alphaVars
  <2> QED
    BY <1>1, <2>1, SearchStays, RequestsStay
<1> QED
  BY <1>2, <1>3, <1>4, <1>5, <1>6 DEF ServiceNext

\* What a search holds follows from what it has read, and a question's status is its own
\* until it is published: the invariant of the questions, the searches they make and the
\* commits of others between two of their statements.
THEOREM ServiceInvariant == ServiceSpec => []ServiceIInv
<1>1. ServiceInit => ServiceIInv
  BY ServiceStarts
<1>2. ServiceIInv /\ [ServiceNext]_alphaVars => ServiceIInv'
  BY ServiceStepKeeps
<1> QED
  BY <1>1, <1>2, PTL DEF ServiceSpec

\* The status object of the questions speaks of one question at a time, though
\* started_at and a failure's status are read back from it without the lock, and each
\* question is answered with its own start, query and result: for any number of
\* requests, any of which may fail at any point.
THEOREM ServiceQuestionsApart == ServiceSpec => []QuestionsApart
<1>1. ServiceIInv => QuestionsApart
  <2> SUFFICES ASSUME ServiceIInv PROVE QuestionsApart
    OBVIOUS
  <2>1. ASSUME NEW r \in AtWork("graphrag")
        PROVE  /\ object["graphrag"].state = "running"
               /\ object["graphrag"].started = r /\ object["graphrag"].query = r
    BY OneQuestion DEF AtWork
  <2>2. ASSUME NEW r \in Calls, work[r].on = "graphrag", answer[r] # Idle
        PROVE  OwnStatus(r, answer[r])
    BY <2>2 DEF ServiceIInv, OwnQuestion
  <2>3. ShowsOne
    BY DEF ServiceIInv
  <2> QED
    BY <2>1, <2>2, <2>3 DEF QuestionsApart, ShowsOne
<1> QED
  BY <1>1, ServiceInvariant, PTL

\* An object that says it is running has a request at work on it, whichever of the
\* operations on it overwrote the other's status, failed or was left by an exception.
THEOREM ServiceRunningTrue == ServiceSpec => []RunningIsTrue
<1>1. ServiceIInv => RunningIsTrue
  BY DEF ServiceIInv
<1> QED
  BY <1>1, ServiceInvariant, PTL

\* A search never holds more nodes and edges than the question allows, for every graph
\* and every bound: what the depths and the two SELECTs of a depth leave of the limits
\* adds up, and an activation exceeds its limit by one node's relations at most.
THEOREM ServiceSearchBounded == ServiceSpec => []SearchBounded
<1>1. ServiceIInv => SearchBounded
  BY SearchInvariantBounds DEF ServiceIInv
<1> QED
  BY <1>1, ServiceInvariant, PTL

\* Every node a search holds is within the depth of its seeds, over edges committed at
\* some time while it ran, although every SELECT sees another state of the tables.
THEOREM ServiceFindsNearby == ServiceSpec => []FoundNearby
<1>1. ServiceIInv => FoundNearby
  BY SearchInvariantFinds DEF ServiceIInv
<1> QED
  BY <1>1, ServiceInvariant, PTL

\* A search that met no limit has every node within the depth over edges that were there
\* all the time, and every edge at those it followed: no commit between two SELECTs and
\* no order in which an activation takes its queue makes it miss one.
THEOREM ServiceFindsAll == ServiceSpec => []CompleteUnlessCut
<1>1. ServiceIInv => CompleteUnlessCut
  BY SearchInvariantCompletes DEF ServiceIInv
<1> QED
  BY <1>1, ServiceInvariant, PTL

\* Where nobody commits while a question is searched for, no limit is met and every edge
\* has its ends, what is found is exactly what the reference definition of the search
\* gives for that graph: query_lazy_subgraph, GhostTopology.query and the queue of
\* activate_memory, which risen nodes enter again, are three ways to the same nodes.
THEOREM ServiceFindsExactly == ServiceSpec => []ExactWhereUndisturbed
<1>1. ServiceIInv => ExactWhereUndisturbed
  BY FoundExactly DEF ServiceIInv
<1> QED
  BY <1>1, ServiceInvariant, PTL

\* No search goes on for ever: every statement of it leaves less ahead, in an order of
\* triples of natural numbers that has no endless descent, and commits of others add
\* nothing to it.  The loop of activate_memory, which queues nodes again as their scores
\* rise, ends because what it queues is deeper.
THEOREM ServiceSearchEnds ==
    ServiceSpec => [](Ahead \in Nat \X Nat \X Nat) /\ SearchEnds
<1>1. ServiceIInv => Ahead \in Nat \X Nat \X Nat
  BY AheadOK DEF ServiceIInv
<1>2. ServiceIInv => /\ SearchStep => Less(Ahead', Ahead)
                     /\ \A new \in Commits : WriterCommits(new) => Ahead' = Ahead
  BY SearchAdvances, WriterDelaysNobody DEF ServiceIInv
<1> QED
  BY <1>1, <1>2, ServiceInvariant, PTL DEF SearchEnds

-----------------------------------------------------------------------------
(* The runs of DataGate. *)


\* A run is the one of the status.
ActiveIsReported ==
    \A r \in Requests : run[r].pc # "none" => status.state = "running" /\ status.by = r

NoRepeat(lines) ==
    \A l, m \in lines : l # m =>
        /\ l.file # m.file
        /\ l.by = "accepted" /\ m.by = "accepted" => Form[l.text] # Form[m.text]

IdsBy(lines, by) == {Id(line) : line \in {l \in lines : l.by \in by}}

\* The configuration that a run reads is the one that its request kept.
Configured(x) ==
    /\ x.pc \in {"none", "accepted", "queued"} => x.config = None
    /\ x.config \in {None, x.asked}
    /\ x.pc = "queued" => pending = x.asked

\* Lines are of files already read, and accepted texts are remembered.
Listed(x) ==
    /\ x.pc \in {"none", "accepted", "queued", "discover"} => x.lines = {}
    /\ \A l \in x.lines : /\ l.file \notin x.todo
                          /\ l.by = "accepted" => l.text \in Texts /\ Form[l.text] \in x.seen
    /\ NoRepeat(x.lines)

\* What is written so far is what the directories hold of DataGate's.
Filed(x) ==
    /\ x.pc \in {"write", "report"} =>
           /\ x.unwritten \subseteq x.lines
           /\ cleaned.gate = IdsBy(x.lines \ x.unwritten, {"accepted"})
           /\ rejected = IdsBy(x.lines \ x.unwritten, Reasons \ {"accepted"})
    /\ x.pc \notin {"write", "report"} => x.unwritten = x.lines
    /\ x.pc = "remove" => cleaned.gate = {}
    /\ x.pc = "report" => x.unwritten = {} /\ jsonl = x.lines

Sound(x) == Configured(x) /\ Listed(x) /\ Filed(x)

\* The inductive invariant.
IInv ==
    /\ TypeOK
    /\ ActiveIsReported
    /\ \A r \in Requests : Sound(run[r])
    /\ ListedIsFiled
    /\ NoRepeat(jsonl)

-----------------------------------------------------------------------------
(* Runs. *)

\* A run that has not begun is sound, whatever is done.
LEMMA NoRunSound == NoRun \in Runs /\ NoRun.pc = "none" /\ NoRun.lines = {} /\ Sound(NoRun)
BY DEF NoRun, Runs, Phases, Sound, Configured, Listed, Filed, NoRepeat

\* While a run is active no other is.
LEMMA Alone ==
    ASSUME IInv, NEW r \in Requests, run[r].pc # "none"
    PROVE  /\ status.state = "running"
           /\ \A q \in Requests \ {r} : run[q].pc = "none"
BY DEF IInv, ActiveIsReported

\* So a step of the active run that leaves the status alone has to keep this run sound.
LEMMA OneRunStep ==
    ASSUME IInv, NEW r \in Requests, run[r].pc # "none",
           NEW x \in Runs, run' = [run EXCEPT ![r] = x],
           x.pc # "none", Sound(x)', status' = status
    PROVE  /\ run' \in [Requests -> Runs]
           /\ ActiveIsReported' /\ \A q \in Requests : Sound(run[q])'
           /\ ListedIsFiled'
<1>1. run \in [Requests -> Runs]
  BY DEF IInv, TypeOK
<1>2. run' \in [Requests -> Runs] /\ run'[r] = x /\ \A q \in Requests \ {r} : run'[q] = run[q]
  BY <1>1
<1>3. ActiveIsReported' /\ ListedIsFiled'
  BY <1>2, Alone DEF IInv, ActiveIsReported, ListedIsFiled
<1>4. ASSUME NEW q \in Requests PROVE Sound(run[q])'
  <2>1. CASE q = r
    BY <2>1, <1>2
  <2>2. CASE q # r
    <3>1. run[q].pc = "none" /\ Sound(run[q]) /\ run'[q] = run[q]
      BY <2>2, <1>2, Alone DEF IInv
    <3> QED
      BY <3>1, <1>2 DEF Sound, Configured, Listed, Filed
  <2> QED
    BY <2>1, <2>2
<1> QED
  BY <1>2, <1>3, <1>4

-----------------------------------------------------------------------------
(* The steps of a run, and what surrounds it. *)

THEOREM InitIInv == Init => IInv
<1> SUFFICES ASSUME Init PROVE IInv
  OBVIOUS
<1>1. TypeOK
  BY NoRunSound DEF Init, TypeOK
<1>2. ActiveIsReported /\ ListedIsFiled /\ NoRepeat(jsonl)
  BY NoRunSound DEF Init, ActiveIsReported, ListedIsFiled, NoRepeat
<1>3. \A r \in Requests : Sound(run[r])
  BY NoRunSound DEF Init
<1> QED
  BY <1>1, <1>2, <1>3 DEF IInv

\* The files and the daemon do not touch what a run has made.
LEMMA OutsideKeeps ==
    ASSUME IInv,
           (\E f \in Files, t \in Texts : Drop(f, t)) \/ (\E f \in Files : DaemonMoves(f))
    PROVE  IInv'
<1>1. /\ cleaned'.gate = cleaned.gate
      /\ UNCHANGED <<rejected, jsonl, status, pending, run>>
  BY DEF Drop, DaemonMoves, IInv, TypeOK
<1>2. TypeOK'
  <2>1. ASSUME NEW f \in Files, NEW t \in Texts, Drop(f, t) PROVE TypeOK'
    BY <2>1 DEF IInv, TypeOK, Drop
  <2>2. ASSUME NEW f \in Files, DaemonMoves(f) PROVE TypeOK'
    <3>1. raw[f] \in Texts
      BY <2>2 DEF IInv, TypeOK, DaemonMoves
    <3> QED
      BY <2>2, <3>1 DEF IInv, TypeOK, DaemonMoves
  <2> QED
    BY <2>1, <2>2
<1>3. \A r \in Requests : Sound(run[r])'
  BY <1>1 DEF IInv, Sound, Configured, Listed, Filed
<1>4. ActiveIsReported' /\ ListedIsFiled' /\ NoRepeat(jsonl)'
  BY <1>1 DEF IInv, ActiveIsReported, ListedIsFiled, NoRepeat
<1> QED
  BY <1>2, <1>3, <1>4 DEF IInv

LEMMA AcceptKeeps ==
    ASSUME IInv, NEW r \in Requests, NEW config \in Configs, Accept(r, config)
    PROVE  IInv'
<1> DEFINE x == [NoRun EXCEPT !.pc = "accepted", !.asked = config]
<1>1. x \in Runs /\ x.pc = "accepted" /\ Sound(x)'
  BY DEF NoRun, Runs, Phases, Sound, Configured, Listed, Filed, NoRepeat
<1>2. run' = [run EXCEPT ![r] = x] /\ status' = [state |-> "running", by |-> r]
  BY DEF Accept
<1> HIDE DEF x
<1>3. UNCHANGED <<raw, cleaned, rejected, jsonl, pending, drops>>
  BY DEF Accept, dirs
<1>4. run'[r] = x /\ \A q \in Requests \ {r} : run'[q] = run[q] /\ run[q].pc = "none"
  BY <1>2 DEF IInv, TypeOK, ActiveIsReported, Accept
<1>5. TypeOK'
  BY <1>1, <1>2, <1>3 DEF IInv, TypeOK
<1>6. ActiveIsReported' /\ ListedIsFiled' /\ NoRepeat(jsonl)'
  BY <1>2, <1>3, <1>4 DEF IInv, ActiveIsReported, ListedIsFiled, NoRepeat
<1>7. ASSUME NEW q \in Requests PROVE Sound(run[q])'
  <2>1. CASE q = r
    BY <2>1, <1>1, <1>4
  <2>2. CASE q # r
    BY <2>2, <1>3, <1>4 DEF IInv, Sound, Configured, Listed, Filed
  <2> QED
    BY <2>1, <2>2
<1> QED
  BY <1>5, <1>6, <1>7 DEF IInv

\* A step of the active run that writes no documents.jsonl.
LEMMA RunKeeps ==
    ASSUME IInv, NEW r \in Requests, run[r].pc # "none",
           NEW x \in Runs, run' = [run EXCEPT ![r] = x],
           x.pc # "none", Sound(x)', UNCHANGED <<raw, status, drops>>,
           pending' \in Configs \cup {None},
           cleaned' \in [gate : SUBSET Forms, moved : SUBSET Texts],
           rejected' \subseteq Forms \cup Files,
           jsonl' \subseteq Lines, NoRepeat(jsonl)'
    PROVE  IInv'
<1>1. /\ run' \in [Requests -> Runs]
      /\ ActiveIsReported' /\ \A q \in Requests : Sound(run[q])'
      /\ ListedIsFiled'
  BY OneRunStep
<1>2. TypeOK'
  BY <1>1 DEF IInv, TypeOK
<1> QED
  BY <1>1, <1>2 DEF IInv

LEMMA Preparing ==
    ASSUME IInv, NEW r \in Requests,
           Keep(r) \/ RunPending(r) \/ Discover(r) \/ EndFilter(r)
    PROVE  IInv'
<1>1. run[r] \in Runs /\ Sound(run[r]) /\ pending \in Configs \cup {None}
  BY DEF IInv, TypeOK
<1>2. CASE Keep(r)
  <2>0. PICK x : x = [run[r] EXCEPT !.pc = "queued"]
    OBVIOUS
  <2>1. x \in Runs /\ x.pc = "queued" /\ run' = [run EXCEPT ![r] = x]
    BY <2>0, <1>1, <1>2 DEF Keep, Runs, Phases
  <2>2. Sound(x)'
    BY <2>0, <1>1, <1>2 DEF Keep, Runs, Sound, Configured, Listed, Filed
  <2>3. run[r].pc # "none" /\ pending' = x.asked /\ UNCHANGED <<dirs, status, drops>>
    BY <2>0, <1>1, <1>2 DEF Keep, Runs
  <2> QED
    BY <2>1, <2>2, <2>3, RunKeeps DEF IInv, TypeOK, NoRepeat, dirs, Runs
<1>3. CASE RunPending(r)
  <2>0. PICK x : x = [run[r] EXCEPT !.pc = "discover", !.config = pending]
    OBVIOUS
  <2>1. x \in Runs /\ x.pc = "discover" /\ run' = [run EXCEPT ![r] = x]
    BY <2>0, <1>1, <1>3 DEF RunPending, Runs, Phases
  <2>2. Sound(x)'
    BY <2>0, <1>1, <1>3 DEF RunPending, Runs, Sound, Configured, Listed, Filed
  <2>3. run[r].pc # "none" /\ UNCHANGED <<dirs, status, pending, drops>>
    BY <1>3 DEF RunPending
  <2> QED
    BY <2>1, <2>2, <2>3, RunKeeps DEF IInv, TypeOK, NoRepeat, dirs
<1>4. CASE Discover(r)
  <2>0. PICK x : x = [run[r] EXCEPT !.pc = "filter", !.todo = {f \in Files : raw[f] # None}]
    OBVIOUS
  <2>1. x \in Runs /\ x.pc = "filter" /\ run' = [run EXCEPT ![r] = x]
    BY <2>0, <1>1, <1>4 DEF Discover, Runs, Phases
  <2>2. Sound(x)'
    BY <2>0, <1>1, <1>4 DEF Discover, Runs, Sound, Configured, Listed, Filed, NoRepeat
  <2>3. run[r].pc # "none" /\ UNCHANGED <<dirs, status, pending, drops>>
    BY <1>4 DEF Discover
  <2> QED
    BY <2>1, <2>2, <2>3, RunKeeps DEF IInv, TypeOK, NoRepeat, dirs
<1>5. CASE EndFilter(r)
  <2>0. PICK x : x = [run[r] EXCEPT !.pc = "clear"]
    OBVIOUS
  <2>1. x \in Runs /\ x.pc = "clear" /\ run' = [run EXCEPT ![r] = x]
    BY <2>0, <1>1, <1>5 DEF EndFilter, Runs, Phases
  <2>2. Sound(x)'
    BY <2>0, <1>1, <1>5 DEF EndFilter, Runs, Sound, Configured, Listed, Filed, NoRepeat
  <2>3. run[r].pc # "none" /\ UNCHANGED <<dirs, status, pending, drops>>
    BY <1>5 DEF EndFilter
  <2> QED
    BY <2>1, <2>2, <2>3, RunKeeps DEF IInv, TypeOK, NoRepeat, dirs
<1> QED
  BY <1>2, <1>3, <1>4, <1>5

\* A document's verdict: an accepted text was not accepted before, and is remembered.
LEMMA VerdictSound ==
    ASSUME NEW config, NEW seen, NEW text \in Texts \cup {None},
           None \notin Texts
    PROVE  /\ Verdict(config, seen, text) \in Reasons
           /\ Verdict(config, seen, text) = "accepted" =>
                  /\ text \in Texts /\ Form[text] \notin seen
                  /\ Form[text] \in Remembered(config, seen, text)
           /\ seen \subseteq Remembered(config, seen, text)
           /\ Remembered(config, seen, text) \subseteq seen \cup Forms
<1>1. CASE text = None
  BY <1>1 DEF Verdict, Remembered, Reasons
<1>2. CASE text # None
  BY <1>2, DataGateAssumption DEF Verdict, Remembered, Reasons, DuplicateHash
<1> QED
  BY <1>1, <1>2

LEMMA Filtering ==
    ASSUME IInv, NEW r \in Requests, Filter(r)
    PROVE  IInv'
<1>1. run[r] \in Runs /\ Sound(run[r]) /\ run[r].pc = "filter" /\ raw \in [Files -> Texts \cup {None}]
  BY DEF IInv, TypeOK, Filter
<1>2. PICK f \in run[r].todo :
         run' = [run EXCEPT ![r].todo = @ \ {f},
                            ![r].seen = Remembered(run[r].config, @, raw[f]),
                            ![r].lines = @ \cup {[file |-> f, text |-> raw[f],
                                by |-> Verdict(run[r].config, run[r].seen, raw[f])]},
                            ![r].unwritten = @ \cup {[file |-> f, text |-> raw[f],
                                by |-> Verdict(run[r].config, run[r].seen, raw[f])]}]
  BY DEF Filter
<1> DEFINE old == run[r]
           seen == Remembered(old.config, old.seen, raw[f])
           by == Verdict(old.config, old.seen, raw[f])
           line == [file |-> f, text |-> raw[f], by |-> by]
<1>0. PICK x : x = [old EXCEPT !.todo = @ \ {f}, !.seen = seen,
                               !.lines = @ \cup {line}, !.unwritten = @ \cup {line}]
  OBVIOUS
<1>3. f \in Files /\ raw[f] \in Texts \cup {None} /\ None \notin Texts
  BY <1>1, DataGateAssumption DEF Runs
<1>4. /\ by \in Reasons
      /\ by = "accepted" =>
            raw[f] \in Texts /\ Form[raw[f]] \notin old.seen /\ Form[raw[f]] \in seen
      /\ old.seen \subseteq seen /\ seen \subseteq old.seen \cup Forms
  BY <1>3, VerdictSound
<1>5. run' = [run EXCEPT ![r] = x]
  BY <1>0, <1>1, <1>2
<1> HIDE DEF seen, by
<1>6. line \in Lines
  BY <1>3, <1>4 DEF Lines
<1>7. /\ x \in Runs /\ x.pc = "filter" /\ x.todo = old.todo \ {f} /\ x.seen = seen
      /\ x.lines = old.lines \cup {line} /\ x.unwritten = old.unwritten \cup {line}
      /\ x.asked = old.asked /\ x.config = old.config
  <2>1. seen \subseteq Forms
    BY <1>1, <1>4 DEF Runs
  <2> QED
    BY <1>0, <1>1, <1>6, <2>1 DEF Runs, Phases
<1>8. line.file = f /\ line.text = raw[f] /\ line.by = by
  OBVIOUS
<1> HIDE DEF line
<1>9. \A l \in old.lines : l.file # f /\ l.file \notin old.todo /\ (l.by = "accepted" => l.text \in Texts /\ Form[l.text] \in old.seen)
  BY <1>1 DEF Sound, Listed
<1>10. NoRepeat(x.lines)
  <2>1. NoRepeat(old.lines)
    BY <1>1 DEF Sound, Listed
  <2>2. \A l \in old.lines : /\ l.file # line.file
                             /\ l.by = "accepted" /\ line.by = "accepted" => Form[l.text] # Form[line.text]
    BY <1>4, <1>8, <1>9
  <2> QED
    BY <1>7, <2>1, <2>2 DEF NoRepeat
<1>11. \A l \in x.lines : l.file \notin x.todo /\ (l.by = "accepted" => l.text \in Texts /\ Form[l.text] \in x.seen)
  BY <1>4, <1>7, <1>8, <1>9
<1>12. UNCHANGED <<dirs, status, pending, drops>>
  BY DEF Filter
<1>13. Sound(x)'
  <2>1. Configured(x)' /\ Filed(x)'
    BY <1>1, <1>7, <1>12 DEF Sound, Configured, Filed
  <2> QED
    BY <2>1, <1>7, <1>10, <1>11 DEF Sound, Listed
<1> QED
  BY <1>1, <1>5, <1>7, <1>12, <1>13, RunKeeps DEF IInv, TypeOK, NoRepeat, dirs

\* rmtree of data/cleaned and of data/rejected.
LEMMA Clearing ==
    ASSUME IInv, NEW r \in Requests, Clear(r) \/ RemoveOutputs(r)
    PROVE  IInv'
<1>1. run[r] \in Runs /\ Sound(run[r])
  BY DEF IInv, TypeOK
<1>2. CASE Clear(r)
  <2>0. PICK x : x = [run[r] EXCEPT !.pc = "remove"]
    OBVIOUS
  <2>1. x \in Runs /\ x.pc = "remove" /\ run' = [run EXCEPT ![r] = x]
    BY <2>0, <1>1, <1>2 DEF Clear, Runs, Phases
  <2>2. /\ run[r].pc # "none" /\ UNCHANGED <<raw, rejected, jsonl, status, pending, drops>>
        /\ cleaned'.gate = {} /\ cleaned' \in [gate : SUBSET Forms, moved : SUBSET Texts]
    BY <1>2 DEF Clear
  <2>3. Sound(x)'
    BY <2>0, <2>1, <2>2, <1>1, <1>2 DEF Clear, Runs, Sound, Configured, Listed, Filed
  <2> QED
    BY <2>1, <2>2, <2>3, RunKeeps DEF IInv, TypeOK, NoRepeat
<1>3. CASE RemoveOutputs(r)
  <2>0. PICK x : x = [run[r] EXCEPT !.pc = "write"]
    OBVIOUS
  <2>1. x \in Runs /\ x.pc = "write" /\ run' = [run EXCEPT ![r] = x]
    BY <2>0, <1>1, <1>3 DEF RemoveOutputs, Runs, Phases
  <2>2. /\ run[r].pc = "remove" /\ UNCHANGED <<raw, cleaned, jsonl, status, pending, drops>>
        /\ rejected' = {}
    BY <1>3 DEF RemoveOutputs
  <2>3. x.lines = run[r].lines /\ x.unwritten = x.lines /\ cleaned'.gate = {}
    BY <2>0, <2>2, <1>1 DEF Runs, Sound, Filed
  <2>4. \A by : IdsBy(x.lines \ x.unwritten, by) = {}
    BY <2>3 DEF IdsBy
  <2>5. Filed(x)'
    BY <2>1, <2>2, <2>3, <2>4 DEF Filed
  <2>6. Configured(x)' /\ Listed(x)
    BY <2>0, <2>1, <2>2, <1>1 DEF Runs, Sound, Configured, Listed, NoRepeat
  <2> QED
    BY <2>1, <2>2, <2>5, <2>6, RunKeeps DEF Sound, Listed, IInv, TypeOK, NoRepeat
<1> QED
  BY <1>2, <1>3

\* One more file is one more written line.
LEMMA Writing ==
    ASSUME IInv, NEW r \in Requests, NEW line \in run[r].unwritten, Write(r, line)
    PROVE  IInv'
<1>1. run[r] \in Runs /\ Sound(run[r]) /\ run[r].pc = "write"
  BY DEF IInv, TypeOK, Write
<1>2. PICK x : x = [run[r] EXCEPT !.unwritten = @ \ {line}]
  OBVIOUS
<1>3. /\ x \in Runs /\ x.pc = "write" /\ x.lines = run[r].lines
      /\ x.unwritten = run[r].unwritten \ {line}
      /\ x.todo = run[r].todo /\ x.seen = run[r].seen
      /\ x.asked = run[r].asked /\ x.config = run[r].config
  BY <1>1, <1>2 DEF Runs
<1>4. run' = [run EXCEPT ![r] = x] /\ UNCHANGED <<raw, jsonl, status, pending, drops>>
  BY <1>2 DEF Write
<1>5. /\ run[r].unwritten \subseteq x.lines /\ line \in x.lines /\ line \in Lines
      /\ cleaned.gate = IdsBy(x.lines \ run[r].unwritten, {"accepted"})
      /\ rejected = IdsBy(x.lines \ run[r].unwritten, Reasons \ {"accepted"})
      /\ line.by = "accepted" => line.text \in Texts
  BY <1>1, <1>3 DEF Sound, Filed, Listed, Runs
<1>6. /\ cleaned'.gate = IdsBy(x.lines \ x.unwritten, {"accepted"})
      /\ rejected' = IdsBy(x.lines \ x.unwritten, Reasons \ {"accepted"})
      /\ cleaned' \in [gate : SUBSET Forms, moved : SUBSET Texts]
      /\ rejected' \subseteq Forms \cup Files
  <2>1. cleaned \in [gate : SUBSET Forms, moved : SUBSET Texts] /\ rejected \subseteq Forms \cup Files
    BY DEF IInv, TypeOK
  <2>5. x.lines \ x.unwritten = (x.lines \ run[r].unwritten) \cup {line}
    BY <1>3, <1>5
  <2>2. CASE line.by = "accepted"
    <3>1. /\ cleaned' = [cleaned EXCEPT !.gate = @ \cup {Id(line)}]
          /\ rejected' = rejected
      BY <2>2 DEF Write
    <3>2. Id(line) \in Forms
      BY <2>2, <1>5, DataGateAssumption DEF Id
    <3>3. /\ IdsBy(x.lines \ x.unwritten, {"accepted"}) = cleaned.gate \cup {Id(line)}
          /\ IdsBy(x.lines \ x.unwritten, Reasons \ {"accepted"}) = rejected
      <4>1. line.by \in {"accepted"} /\ ~(line.by \in Reasons \ {"accepted"})
        BY <2>2
      <4> QED
        <5> DEFINE old == x.lines \ run[r].unwritten
        <5>1. /\ IdsBy(old \cup {line}, {"accepted"}) = IdsBy(old, {"accepted"}) \cup {Id(line)}
              /\ IdsBy(old \cup {line}, Reasons \ {"accepted"}) = IdsBy(old, Reasons \ {"accepted"})
          <6> HIDE DEF old
          <6> QED
            BY <4>1 DEF IdsBy
        <5> QED
          BY <5>1, <2>5, <1>5, Zenon
    <3> QED
      BY <2>1, <3>1, <3>2, <3>3
  <2>3. CASE line.by # "accepted"
    <3>1. /\ cleaned' = cleaned
          /\ rejected' = rejected \cup {Id(line)}
      BY <2>3 DEF Write
    <3>2. Id(line) \in Forms \cup Files /\ line.by \in Reasons \ {"accepted"}
      BY <2>3, <1>5, DataGateAssumption DEF Id, Lines
    <3>3. /\ IdsBy(x.lines \ x.unwritten, {"accepted"}) = cleaned.gate
          /\ IdsBy(x.lines \ x.unwritten, Reasons \ {"accepted"}) = rejected \cup {Id(line)}
      <4>1. ~(line.by \in {"accepted"})
        BY <2>3
      <4> QED
        <5> DEFINE old == x.lines \ run[r].unwritten
        <5>1. /\ IdsBy(old \cup {line}, {"accepted"}) = IdsBy(old, {"accepted"})
              /\ IdsBy(old \cup {line}, Reasons \ {"accepted"})
                     = IdsBy(old, Reasons \ {"accepted"}) \cup {Id(line)}
          <6> HIDE DEF old
          <6> QED
            BY <4>1, <3>2 DEF IdsBy
        <5> QED
          BY <5>1, <2>5, <1>5, Zenon
    <3> QED
      BY <2>1, <3>1, <3>2, <3>3
  <2> QED
    BY <2>2, <2>3
<1>7. Filed(x)'
  BY <1>3, <1>5, <1>6 DEF Filed
<1>8. Configured(x)' /\ Listed(x)
  BY <1>1, <1>3, <1>4 DEF Sound, Configured, Listed
<1> QED
  BY <1>1, <1>3, <1>4, <1>6, <1>7, <1>8, RunKeeps DEF Sound, Listed, IInv, TypeOK, NoRepeat

LEMMA Listing ==
    ASSUME IInv, NEW r \in Requests, List(r)
    PROVE  IInv'
<1>1. run[r] \in Runs /\ Sound(run[r]) /\ run[r].pc = "write" /\ run[r].unwritten = {}
  BY DEF IInv, TypeOK, List
<1>2. PICK x : x = [run[r] EXCEPT !.pc = "report"]
  OBVIOUS
<1>3. /\ x \in Runs /\ x.pc = "report" /\ x.lines = run[r].lines /\ x.unwritten = {}
      /\ x.todo = run[r].todo /\ x.seen = run[r].seen
      /\ x.asked = run[r].asked /\ x.config = run[r].config
  BY <1>1, <1>2 DEF Runs, Phases
<1>4. /\ run' = [run EXCEPT ![r] = x] /\ jsonl' = x.lines
      /\ UNCHANGED <<raw, cleaned, rejected, status, pending, drops>>
  BY <1>2, <1>3 DEF List
<1>5. Filed(x)'
  BY <1>1, <1>3, <1>4 DEF Sound, Filed
<1>6. Configured(x)' /\ Listed(x)
  BY <1>1, <1>3, <1>4 DEF Sound, Configured, Listed
<1>7. jsonl' \subseteq Lines /\ NoRepeat(jsonl)'
  BY <1>3, <1>4, <1>6 DEF Listed, Runs, NoRepeat
<1> QED
  BY <1>1, <1>3, <1>4, <1>5, <1>6, <1>7, RunKeeps DEF Sound, Listed, IInv, TypeOK

\* The end of a run, by whatever status.
LEMMA RunEnds ==
    ASSUME IInv, NEW r \in Requests, run[r].pc # "none", run' = [run EXCEPT ![r] = NoRun],
           UNCHANGED <<raw, cleaned, rejected, pending, drops>>,
           status' \in [state : {"completed", "failed"}, by : {r}],
           jsonl' \subseteq Lines, NoRepeat(jsonl)', ListedIsFiled'
    PROVE  IInv'
<1>1. run \in [Requests -> Runs] /\ run' \in [Requests -> Runs]
  BY NoRunSound DEF IInv, TypeOK
<1>2. \A q \in Requests \ {r} : run'[q] = run[q] /\ run[q].pc = "none"
  BY <1>1, Alone
<1>3. run'[r] = NoRun
  BY <1>1
<1>4. ASSUME NEW q \in Requests PROVE run'[q].pc = "none" /\ Sound(run[q])'
  <2>1. CASE q = r
    BY <2>1, <1>3, NoRunSound DEF NoRun, Sound, Configured, Listed, Filed
  <2>2. CASE q # r
    <3>1. run'[q] = run[q] /\ run[q].pc = "none" /\ Sound(run[q])
      BY <2>2, <1>2 DEF IInv
    <3> QED
      BY <3>1 DEF Sound, Configured, Listed, Filed
  <2> QED
    BY <2>1, <2>2
<1>5. ActiveIsReported'
  BY <1>4 DEF ActiveIsReported
<1>6. TypeOK'
  BY <1>1 DEF IInv, TypeOK
<1> QED
  BY <1>4, <1>5, <1>6 DEF IInv

LEMMA Reporting ==
    ASSUME IInv, NEW r \in Requests, Report(r)
    PROVE  IInv'
<1>1. run[r] \in Runs /\ Sound(run[r]) /\ run[r].pc = "report"
  BY DEF IInv, TypeOK, Report
<1>2. /\ jsonl = run[r].lines
      /\ cleaned.gate = IdsBy(jsonl, {"accepted"})
      /\ rejected = IdsBy(jsonl, Reasons \ {"accepted"})
  <2>1. run[r].lines \ run[r].unwritten = jsonl /\ jsonl = run[r].lines
    BY <1>1 DEF Sound, Filed
  <2> QED
    BY <2>1, <1>1 DEF Sound, Filed
<1>3. \A l \in jsonl : l.by \in Reasons
  BY DEF IInv, TypeOK, Lines
<1>4. /\ {l \in jsonl : l.by \in {"accepted"}} = {l \in jsonl : l.by = "accepted"}
      /\ {l \in jsonl : l.by \in Reasons \ {"accepted"}} = {l \in jsonl : l.by # "accepted"}
  BY <1>3
<1>5. /\ run' = [run EXCEPT ![r] = NoRun] /\ UNCHANGED <<raw, cleaned, rejected, jsonl, pending, drops>>
      /\ status' = [state |-> "completed", by |-> r]
  BY DEF Report, dirs
<1>6. ListedIsFiled'
  BY <1>2, <1>4, <1>5 DEF ListedIsFiled, IdsBy
<1> QED
  BY <1>1, <1>5, <1>6, RunEnds DEF IInv, TypeOK, NoRepeat

\* A torn documents.jsonl holds some of the run's lines.
LEMMA TornIsListed ==
    ASSUME IInv, NEW r \in Requests, NEW lines \in Torn(r)
    PROVE  lines \subseteq Lines /\ NoRepeat(lines)
<1>1. run[r] \in Runs /\ Sound(run[r]) /\ jsonl \subseteq Lines /\ NoRepeat(jsonl)
  BY DEF IInv, TypeOK
<1>2. CASE lines = jsonl
  BY <1>1, <1>2
<1>3. CASE \E f \in Files : lines = {l \in run[r].lines : l.file < f}
  <2>1. run[r].lines \subseteq Lines /\ NoRepeat(run[r].lines)
    BY <1>1 DEF Runs, Sound, Listed
  <2>2. lines \subseteq run[r].lines
    BY <1>3
  <2> QED
    BY <2>1, <2>2 DEF NoRepeat
<1> QED
  BY <1>2, <1>3 DEF Torn

LEMMA Failing ==
    ASSUME IInv, NEW r \in Requests, RunFails(r)
    PROVE  IInv'
<1>1. /\ run[r].pc # "none" /\ run' = [run EXCEPT ![r] = NoRun]
      /\ UNCHANGED <<raw, cleaned, rejected, pending, drops>>
      /\ status' = [state |-> "failed", by |-> r] /\ jsonl' \in Torn(r)
  BY DEF RunFails
<1>2. jsonl' \subseteq Lines /\ NoRepeat(jsonl)'
  <2>1. PICK lines \in Torn(r) : jsonl' = lines
    BY <1>1
  <2> QED
    BY <2>1, TornIsListed DEF NoRepeat
<1>3. ListedIsFiled'
  BY <1>1 DEF ListedIsFiled
<1> QED
  BY <1>1, <1>2, <1>3, RunEnds

LEMMA Crashing ==
    ASSUME IInv, Crash
    PROVE  IInv'
<1>1. PICK r \in Requests : \E lines \in Torn(r) : jsonl' = lines
  BY DEF Crash
<1>2. jsonl' \subseteq Lines /\ NoRepeat(jsonl)'
  BY <1>1, TornIsListed DEF NoRepeat
<1>3. /\ status' = [state |-> "idle", by |-> None] /\ pending' = None
      /\ run' = [q \in Requests |-> NoRun] /\ UNCHANGED <<raw, cleaned, rejected, drops>>
  BY DEF Crash
<1>4. TypeOK'
  BY <1>2, <1>3, NoRunSound DEF IInv, TypeOK
<1>5. ActiveIsReported' /\ ListedIsFiled'
  BY <1>3, NoRunSound DEF ActiveIsReported, ListedIsFiled
<1>6. \A q \in Requests : Sound(run[q])'
  BY <1>3, NoRunSound DEF NoRun, Sound, Configured, Listed, Filed
<1> QED
  BY <1>2, <1>4, <1>5, <1>6 DEF IInv

THEOREM NextIInv == IInv /\ [Next]_vars => IInv'
<1> SUFFICES ASSUME IInv, [Next]_vars PROVE IInv'
  OBVIOUS
<1>1. CASE (\E f \in Files, t \in Texts : Drop(f, t)) \/ (\E f \in Files : DaemonMoves(f))
  BY <1>1, OutsideKeeps
<1>2. ASSUME NEW r \in Requests, NEW config \in Configs, Accept(r, config) PROVE IInv'
  BY <1>2, AcceptKeeps
<1>3. CASE UNCHANGED vars \/ \E r \in Requests, config \in Configs : Refuse(r, config)
  <2>1. UNCHANGED vars
    BY <1>3 DEF Refuse
  <2> QED
    <3>1. UNCHANGED <<raw, cleaned, rejected, jsonl, status, pending, run, drops>>
      BY <2>1 DEF vars, dirs
    <3>2. TypeOK' /\ ActiveIsReported' /\ ListedIsFiled' /\ NoRepeat(jsonl)'
      BY <3>1 DEF IInv, TypeOK, ActiveIsReported, ListedIsFiled, NoRepeat
    <3>3. \A r \in Requests : Sound(run[r])'
      BY <3>1 DEF IInv, Sound, Configured, Listed, Filed
    <3> QED
      BY <3>2, <3>3 DEF IInv
<1>4. ASSUME NEW r \in Requests, RunStep(r) PROVE IInv'
  <2>1. CASE Keep(r) \/ RunPending(r) \/ Discover(r) \/ EndFilter(r)
    BY <2>1, Preparing
  <2>2. CASE Filter(r)
    BY <2>2, Filtering
  <2>3. CASE Clear(r) \/ RemoveOutputs(r)
    BY <2>3, Clearing
  <2>4. ASSUME NEW line \in run[r].unwritten, Write(r, line) PROVE IInv'
    BY <2>4, Writing
  <2>5. CASE List(r)
    BY <2>5, Listing
  <2>6. CASE Report(r)
    BY <2>6, Reporting
  <2> QED
    BY <1>4, <2>1, <2>2, <2>3, <2>4, <2>5, <2>6 DEF RunStep
<1>5. ASSUME NEW r \in Requests, RunFails(r) PROVE IInv'
  BY <1>5, Failing
<1>6. CASE Crash
  BY <1>6, Crashing
<1> QED
  BY <1>1, <1>2, <1>3, <1>4, <1>5, <1>6 DEF Next

\* DataGate's invariant holds of every behaviour.
THEOREM DataGateInvariant == Spec => []IInv
  BY InitIInv, NextIInv, PTL DEF Spec

\* Every run reads the configuration of the request that started it, although
\* _pending_config is shared by all and written after the lock is released.
THEOREM AlwaysRunsAsAsked == Spec => []RunsAsAsked
<1>1. IInv => RunsAsAsked
  BY DEF IInv, Sound, Configured, RunsAsAsked
<1> QED
  BY <1>1, DataGateInvariant, PTL

\* While the last run is a completed one, documents.jsonl, data/cleaned and
\* data/rejected agree.
THEOREM AlwaysListedIsFiled == Spec => []ListedIsFiled
<1>1. IInv => ListedIsFiled
  BY DEF IInv
<1> QED
  BY <1>1, DataGateInvariant, PTL

\* documents.jsonl never accepts a text twice, even one cut off by the end of the process.
THEOREM AlwaysAcceptedOnce == Spec => []AcceptedOnce
<1>1. IInv => AcceptedOnce
  BY DEF IInv, NoRepeat, AcceptedOnce
<1> QED
  BY <1>1, DataGateInvariant, PTL

=============================================================================
