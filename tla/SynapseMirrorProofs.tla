------------------------- MODULE SynapseMirrorProofs -------------------------
(***************************************************************************)
(* Proofs about the synaptic tables, alone and with Neo4j beside them: for  *)
(* every graph, every rate and threshold of decay, every moment at which a  *)
(* transaction is flushed and any number of consolidations and faults.      *)
(***************************************************************************)
EXTENDS SynapseMirror, FiniteSetTheorems, TLAPS

Bracketed(t) ==
    \A n \in Nodes : t.learned[n] <= t.count[n] /\ t.count[n] <= t.ever[n]

Kept(t, n) == t.count[n] > 0 \/ n \in t.swept

EdgesKept(t) ==
    \A r \in Rows : t.weight[r] > 0 => Kept(t, r[1][1]) /\ Kept(t, r[1][2])

\* What holds of the tables at any moment, committed or not.
Good(t) == t \in Tables /\ Bracketed(t) /\ EdgesKept(t)

\* Outside of a transaction the learning connection sees what is committed.
ClosedIsCommitted == ~open => view = durable

\* The nodes of the ontology in hand that are written are there, for the connection
\* that wrote them, and the ends of its edges are among its nodes.
WrittenIsKept ==
    pc = "rows" =>
        /\ todo.edges \subseteq batch.edges
        /\ \A e \in batch.edges : e[1] \in batch.nodes /\ e[2] \in batch.nodes
        /\ \A n \in batch.nodes \ todo.nodes : Kept(view, n)

\* The count in hand may be stale, but only as far as consolidations have added to
\* it or a decay has deleted the row.
SeenIsBracketed ==
    \A n \in Nodes : seen[n] >= 0 => view.learned[n] <= seen[n] /\ seen[n] <= view.ever[n]

\* A decay that was due has not been spent, unless a fault forgot it.
SpentOnce == spent <= faults + (IF due /\ pc # "decayed" THEN 0 ELSE 1)

\* The inductive invariant.
IInv ==
    /\ TypeOK
    /\ Good(durable)
    /\ Good(view)
    /\ ClosedIsCommitted
    /\ WrittenIsKept
    /\ SeenIsBracketed
    /\ SpentOnce

-----------------------------------------------------------------------------
(* What the writers make of the tables. *)

\* Both ends of an edge are nodes.
LEMMA EdgeEnds ==
    ASSUME NEW e \in Edges
    PROVE  e[1] \in Nodes /\ e[2] \in Nodes /\ Ends({e}) = {e[1], e[2]}
BY SynapseAssumption DEF Ends

LEMMA RowEnds ==
    ASSUME NEW r \in Rows
    PROVE  /\ r[1] \in Edges
           /\ r[1][1] \in Nodes /\ r[1][2] \in Nodes
           /\ Ends({r[1]}) = {r[1][1], r[1][2]}
<1>1. r[1] \in Edges
  BY DEF Rows
<1> QED
  BY <1>1, EdgeEnds

\* A node that is written with a count it could have had keeps the tables good, and
\* the others as they are.
LEMMA NodeRowGood ==
    ASSUME NEW t, Good(t), NEW n \in Nodes, NEW c \in Nat,
           t.learned[n] <= c, c <= t.ever[n]
    PROVE  LET u == NodeRow(t, n, c + 1)
           IN /\ Good(u)
              /\ Kept(u, n)
              /\ \A m \in Nodes : Kept(t, m) => Kept(u, m)
<1> DEFINE u == NodeRow(t, n, c + 1)
<1>1. /\ t.count \in [Nodes -> Nat] /\ t.learned \in [Nodes -> Nat]
      /\ t.ever \in [Nodes -> Nat] /\ t.weight \in [Rows -> Nat]
      /\ t.swept \in SUBSET Nodes
  BY DEF Good, Tables, Counts
<1>2. /\ u.count = [t.count EXCEPT ![n] = c + 1]
      /\ u.learned = [t.learned EXCEPT ![n] = @ + 1]
      /\ u.ever = [t.ever EXCEPT ![n] = @ + 1]
      /\ u.weight = t.weight
      /\ u.swept = t.swept \ {n}
  BY DEF Good, Tables, NodeRow
<1>3. u \in Tables
  <2>1. /\ [t.count EXCEPT ![n] = c + 1] \in Counts
        /\ [t.learned EXCEPT ![n] = @ + 1] \in Counts
        /\ [t.ever EXCEPT ![n] = @ + 1] \in Counts
    BY <1>1 DEF Counts
  <2> QED
    BY <1>1, <2>1 DEF Good, Tables, NodeRow
<1>4. Bracketed(u)
  BY <1>1, <1>2 DEF Good, Bracketed
<1>5. Kept(u, n) /\ \A m \in Nodes : Kept(t, m) => Kept(u, m)
  BY <1>1, <1>2 DEF Kept
<1>6. EdgesKept(u)
  BY <1>2, <1>5, RowEnds DEF Good, EdgesKept
<1> QED
  BY <1>3, <1>4, <1>5, <1>6 DEF Good

\* An edge between nodes that are kept may take any weight.
LEMMA WeightGood ==
    ASSUME NEW t, Good(t), NEW r \in Rows, NEW w \in Nat,
           Kept(t, r[1][1]), Kept(t, r[1][2])
    PROVE  LET u == [t EXCEPT !.weight[r] = w]
           IN /\ Good(u)
              /\ u.count = t.count /\ u.learned = t.learned
              /\ u.ever = t.ever /\ u.swept = t.swept
<1> DEFINE u == [t EXCEPT !.weight[r] = w]
<1>1. t.weight \in [Rows -> Nat]
  BY DEF Good, Tables
<1>2. u.weight = [t.weight EXCEPT ![r] = w]
  BY DEF Good, Tables
<1>3. /\ u.count = t.count /\ u.learned = t.learned
      /\ u.ever = t.ever /\ u.swept = t.swept
  BY DEF Good, Tables
<1>4. u \in Tables
  <2>1. [t.weight EXCEPT ![r] = w] \in [Rows -> Nat]
    BY <1>1
  <2> QED
    BY <2>1 DEF Good, Tables
<1>5. Bracketed(u) /\ EdgesKept(u)
  BY <1>1, <1>2, <1>3 DEF Good, Bracketed, EdgesKept, Kept
<1> QED
  BY <1>3, <1>4, <1>5 DEF Good

Rates == [keep : 0 .. 100, threshold : Nat \ {0}]

\* Decay makes no weight out of nothing.
LEMMA ScaledType ==
    ASSUME NEW w \in Nat, NEW decay \in Rates
    PROVE  Scaled(w, decay) \in Nat /\ (w = 0 => Scaled(w, decay) = 0)
<1>1. decay.keep \in Nat /\ decay.threshold \in Nat \ {0}
  BY DEF Rates
<1> DEFINE x == w * decay.keep
<1>2. x \in Nat /\ (w = 0 => x = 0)
  BY <1>1
<1> HIDE DEF x
<1>3. x \div 100 \in Nat /\ (x = 0 => x \div 100 = 0)
  BY <1>2
<1> DEFINE y == x \div 100
<1>4. Scaled(w, decay) = IF y < decay.threshold THEN 0 ELSE y
  BY DEF Scaled, x
<1> HIDE DEF y
<1>5. y \in Nat /\ (x = 0 => y = 0)
  BY <1>3 DEF y
<1> QED
  BY <1>1, <1>2, <1>4, <1>5

\* A decay keeps the tables good; it takes a node that the ontology in hand has
\* written only if it says so, and never adds to what was learned.
LEMMA DecayedGood ==
    ASSUME NEW t, Good(t), NEW decay \in Rates, NEW written,
           NEW u, u = Decayed(t, decay, written)
    PROVE  /\ Good(u)
           /\ u.ever = t.ever
           /\ \A n \in Nodes : u.learned[n] \in Nat /\ u.learned[n] <= t.learned[n]
           /\ \A n \in Nodes : n \in written /\ Kept(t, n) => Kept(u, n)
<1> DEFINE weight == [r \in Rows |-> Scaled(t.weight[r], decay)]
           orphans == {n \in Nodes : t.count[n] > 0} \ Linked(weight)
           count == [n \in Nodes |-> IF n \in orphans THEN 0 ELSE t.count[n]]
           learned == [n \in Nodes |-> IF n \in orphans THEN 0 ELSE t.learned[n]]
           swept == t.swept \cup (orphans \cap written)
<1>1. /\ t.count \in [Nodes -> Nat] /\ t.learned \in [Nodes -> Nat]
      /\ t.ever \in [Nodes -> Nat] /\ t.weight \in [Rows -> Nat]
      /\ t.swept \in SUBSET Nodes
  BY DEF Good, Tables, Counts
<1>2. weight \in [Rows -> Nat] /\ \A r \in Rows : weight[r] > 0 => t.weight[r] > 0
  <2>1. ASSUME NEW r \in Rows
        PROVE  /\ Scaled(t.weight[r], decay) \in Nat
               /\ t.weight[r] = 0 => Scaled(t.weight[r], decay) = 0
               /\ t.weight[r] \in Nat
    BY <1>1, ScaledType
  <2> QED
    BY <2>1
<1>3. orphans \in SUBSET Nodes /\ \A n \in orphans : n \notin Linked(weight)
  OBVIOUS
<1>4. \A r \in Rows : weight[r] > 0 => r[1][1] \notin orphans /\ r[1][2] \notin orphans
  <2> SUFFICES ASSUME NEW r \in Rows, weight[r] > 0
               PROVE  r[1][1] \in Linked(weight) /\ r[1][2] \in Linked(weight)
    BY <1>3
  <2> QED
    BY RowEnds, Zenon DEF Linked
<1> HIDE DEF weight, orphans
<1>5. count \in Counts /\ learned \in Counts /\ swept \in SUBSET Nodes
  BY <1>1, <1>3 DEF Counts
<1>6. u = [t EXCEPT !.weight = weight, !.count = count, !.learned = learned, !.swept = swept]
  BY DEF Decayed, weight, orphans
<1> HIDE DEF count, learned, swept
<1>7. /\ u.weight = weight /\ u.count = count /\ u.learned = learned
      /\ u.swept = swept /\ u.ever = t.ever
  BY <1>6 DEF Good, Tables
<1>8. u \in Tables
  BY <1>2, <1>5, <1>6 DEF Good, Tables
<1>9. \A n \in Nodes : /\ n \in orphans => u.count[n] = 0 /\ u.learned[n] = 0
                       /\ n \notin orphans => u.count[n] = t.count[n] /\ u.learned[n] = t.learned[n]
  BY <1>7 DEF count, learned
<1>10. \A n \in Nodes : /\ t.count[n] \in Nat /\ t.learned[n] \in Nat /\ t.ever[n] \in Nat
                        /\ t.learned[n] <= t.count[n] /\ t.count[n] <= t.ever[n]
  BY <1>1 DEF Good, Bracketed
<1>11. ASSUME NEW n \in Nodes
       PROVE  /\ u.learned[n] \in Nat /\ u.learned[n] <= t.learned[n]
              /\ u.learned[n] <= u.count[n] /\ u.count[n] <= u.ever[n]
  <2>1. CASE n \in orphans
    BY <1>7, <1>9, <1>10, <2>1
  <2>2. CASE n \notin orphans
    BY <1>7, <1>9, <1>10, <2>2
  <2> QED
    BY <2>1, <2>2
<1>12. Bracketed(u)
  BY <1>11 DEF Bracketed
<1>13. \A n \in Nodes : /\ n \in written /\ Kept(t, n) => Kept(u, n)
                        /\ n \notin orphans /\ Kept(t, n) => Kept(u, n)
  BY <1>7, <1>9 DEF swept, Kept
<1>14. EdgesKept(u)
  <2> SUFFICES ASSUME NEW r \in Rows, u.weight[r] > 0
               PROVE  Kept(u, r[1][1]) /\ Kept(u, r[1][2])
    BY DEF EdgesKept
  <2>1. t.weight[r] > 0 /\ r[1][1] \notin orphans /\ r[1][2] \notin orphans
    BY <1>2, <1>4, <1>7
  <2>2. Kept(t, r[1][1]) /\ Kept(t, r[1][2])
    BY <2>1 DEF Good, EdgesKept
  <2> QED
    BY <1>13, <2>1, <2>2, RowEnds
<1> QED
  BY <1>7, <1>8, <1>11, <1>12, <1>13, <1>14 DEF Good

\* So does a merge of a consolidation, which takes nothing.
LEMMA ReplayedGood ==
    ASSUME Good(durable), NEW e \in Edges, Replay(e)
    PROVE  /\ Good(durable')
           /\ \A n \in Nodes : durable'.ever[n] >= durable.ever[n]
           /\ durable'.learned = durable.learned
           /\ \A n \in Nodes : Kept(durable, n) => Kept(durable', n)
<1> DEFINE count == [n \in Nodes |-> IF n \in Ends({e}) THEN durable.count[n] + 1
                                     ELSE durable.count[n]]
           ever == [n \in Nodes |-> IF n \in Ends({e}) THEN durable.ever[n] + 1
                                    ELSE durable.ever[n]]
           r == <<e, "replay">>
           weight == [durable.weight EXCEPT ![r] = Strengthened(durable.weight[r])]
           swept == durable.swept \ Ends({e})
<1>1. /\ durable.count \in [Nodes -> Nat] /\ durable.learned \in [Nodes -> Nat]
      /\ durable.ever \in [Nodes -> Nat] /\ durable.weight \in [Rows -> Nat]
      /\ durable.swept \in SUBSET Nodes
  BY DEF Good, Tables, Counts
<1>2. r \in Rows /\ r[1] = e
  BY DEF Rows
<1>3. Strengthened(durable.weight[r]) \in Nat
  BY <1>1, <1>2, SynapseAssumption DEF Strengthened
<1>4. weight \in [Rows -> Nat] /\ \A s \in Rows : s # r => weight[s] = durable.weight[s]
  BY <1>1, <1>2, <1>3
<1>5. count \in Counts /\ ever \in Counts
  BY <1>1 DEF Counts
<1>6. durable' = [durable EXCEPT !.count = count, !.ever = ever, !.weight = weight,
                                 !.swept = swept]
  BY DEF Replay, Good, Tables
<1>7. /\ durable'.count = count /\ durable'.ever = ever /\ durable'.weight = weight
      /\ durable'.swept = swept /\ durable'.learned = durable.learned
  BY <1>6 DEF Good, Tables
<1>8. durable' \in Tables
  BY <1>1, <1>4, <1>5, <1>6 DEF Good, Tables
<1>9. \A n \in Nodes : /\ durable'.ever[n] >= durable.ever[n]
                       /\ Kept(durable, n) => Kept(durable', n)
                       /\ n \in Ends({e}) => Kept(durable', n)
  BY <1>1, <1>7 DEF Kept
<1>10. Bracketed(durable')
  BY <1>1, <1>7 DEF Good, Bracketed
<1> HIDE DEF count, ever, weight, swept, r
<1>11. EdgesKept(durable')
  <2> SUFFICES ASSUME NEW s \in Rows, durable'.weight[s] > 0
               PROVE  Kept(durable', s[1][1]) /\ Kept(durable', s[1][2])
    BY DEF EdgesKept
  <2>1. CASE s = r
    <3>1. s[1] = e
      BY <1>2, <2>1
    <3> QED
      BY <1>9, <3>1, EdgeEnds
  <2>2. CASE s # r
    <3>1. durable.weight[s] > 0
      BY <1>4, <1>7, <2>2
    <3>2. Kept(durable, s[1][1]) /\ Kept(durable, s[1][2])
      BY <3>1 DEF Good, EdgesKept
    <3> QED
      BY <1>9, <3>2, RowEnds
  <2> QED
    BY <2>1, <2>2
<1> QED
  BY <1>7, <1>8, <1>9, <1>10, <1>11 DEF Good

-----------------------------------------------------------------------------
(* The invariant. *)

\* Empty tables are good.
LEMMA NoRowsGood == Good(NoRows)
<1>1. NoRows \in Tables
  BY DEF NoRows, Tables, Counts
<1>2. /\ \A n \in Nodes : /\ NoRows.count[n] = 0 /\ NoRows.learned[n] = 0
                         /\ NoRows.ever[n] = 0
      /\ \A r \in Rows : NoRows.weight[r] = 0
  BY DEF NoRows
<1> QED
  BY <1>1, <1>2 DEF Good, Bracketed, EdgesKept

\* The invariant holds of an empty database whose first decay is due.
LEMMA InitIInv == Init => IInv
<1> SUFFICES ASSUME Init PROVE IInv
  OBVIOUS
<1>1. Good(durable) /\ Good(view)
  BY NoRowsGood DEF Init
<1>2. TypeOK
  <2>1. durable \in Tables /\ view \in Tables
    BY <1>1 DEF Good
  <2>2. batch \in Parts /\ todo \in Parts
    BY DEF Init, Nothing, Parts
  <2> QED
    BY <2>1, <2>2 DEF Init, TypeOK, Unseen
<1>3. SeenIsBracketed
  BY DEF Init, SeenIsBracketed, Unseen
<1>4. ClosedIsCommitted /\ WrittenIsKept /\ SpentOnce
  BY DEF Init, ClosedIsCommitted, WrittenIsKept, SpentOnce
<1> QED
  BY <1>1, <1>2, <1>3, <1>4 DEF IInv

\* The rates at which anybody decays.
LEMMA RatesAreRates == TickRate \in Rates /\ Requests \subseteq Rates
BY SynapseAssumption DEF TickRate, Rates

\* What a decay makes of the tables that it finds committed.
LEMMA DecayStep ==
    ASSUME IInv, NEW decay \in Rates, NEW written, DecayTables(decay, written)
    PROVE  /\ Good(durable') /\ Good(view') /\ ClosedIsCommitted'
           /\ view'.ever = view.ever
           /\ \A n \in Nodes : view'.learned[n] \in Nat /\ view'.learned[n] <= view.learned[n]
           /\ \A n \in Nodes : n \in written /\ Kept(view, n) => Kept(view', n)
<1>1. durable = view /\ Good(durable)
  BY DEF IInv, ClosedIsCommitted, DecayTables
<1>2. durable' = Decayed(durable, decay, written) /\ view' = durable'
  BY DEF DecayTables
<1> QED
  BY <1>1, <1>2, DecayedGood DEF ClosedIsCommitted

\* The row of a node, flushed or not.
LEMMA UpsertNodeStep ==
    ASSUME IInv, NEW n \in Nodes, NEW flush \in Flush, UpsertNode(n, flush)
    PROVE  /\ Good(durable') /\ Good(view') /\ ClosedIsCommitted'
           /\ Kept(view', n)
           /\ \A m \in Nodes : Kept(view, m) => Kept(view', m)
<1>1. seen[n] \in Nat /\ view.learned[n] <= seen[n] /\ seen[n] <= view.ever[n]
  BY DEF IInv, TypeOK, SeenIsBracketed, UpsertNode
<1>2. Good(view) /\ Good(durable) /\ view' = NodeRow(view, n, seen[n] + 1)
  BY DEF IInv, UpsertNode
<1>3. /\ Good(view')
      /\ Kept(view', n)
      /\ \A m \in Nodes : Kept(view, m) => Kept(view', m)
  BY <1>1, <1>2, NodeRowGood
<1>4. (durable' = view' \/ durable' = durable) /\ ClosedIsCommitted'
  BY DEF UpsertNode, Mark, Flush, ClosedIsCommitted
<1> QED
  BY <1>2, <1>3, <1>4

\* The row of an edge, whose nodes are written.
LEMMA UpsertEdgeStep ==
    ASSUME IInv, NEW e \in Edges, NEW flush \in Flush, UpsertEdge(e, flush)
    PROVE  /\ Good(durable') /\ Good(view') /\ ClosedIsCommitted'
           /\ view'.count = view.count /\ view'.learned = view.learned
           /\ view'.ever = view.ever /\ view'.swept = view.swept
<1> DEFINE r == <<e, "daemon">>
           w == Potentiated(view.weight[r])
<1>1. r \in Rows /\ r[1] = e
  BY DEF Rows
<1>2. w \in Nat
  <2>1. view.weight[r] \in Nat
    BY <1>1 DEF IInv, Good, Tables
  <2> QED
    BY <2>1, SynapseAssumption DEF Potentiated
<1>3. Kept(view, r[1][1]) /\ Kept(view, r[1][2])
  <2>1. e[1] \in batch.nodes \ todo.nodes /\ e[2] \in batch.nodes \ todo.nodes
    BY DEF IInv, WrittenIsKept, UpsertEdge
  <2> QED
    BY <1>1, <2>1 DEF IInv, WrittenIsKept, UpsertEdge
<1>4. view' = [view EXCEPT !.weight[r] = w]
  BY DEF UpsertEdge
<1>5. Good(view) /\ Good(durable)
  BY DEF IInv
<1> HIDE DEF r, w
<1>6. /\ Good(view')
      /\ view'.count = view.count /\ view'.learned = view.learned
      /\ view'.ever = view.ever /\ view'.swept = view.swept
  BY <1>1, <1>2, <1>3, <1>4, <1>5, WeightGood
<1>7. (durable' = view' \/ durable' = durable) /\ ClosedIsCommitted'
  BY DEF UpsertEdge, Mark, Flush, ClosedIsCommitted
<1> QED
  BY <1>5, <1>6, <1>7

\* Every step keeps the tables good, and committed outside of a transaction.
LEMMA GoodStep == IInv /\ Next => Good(durable') /\ Good(view') /\ ClosedIsCommitted'
<1> SUFFICES ASSUME IInv, Next PROVE Good(durable') /\ Good(view') /\ ClosedIsCommitted'
  OBVIOUS
<1>0. Good(durable) /\ Good(view) /\ ClosedIsCommitted
  BY DEF IInv
<1>1. CASE UNCHANGED tables
  BY <1>0, <1>1 DEF tables, ClosedIsCommitted
<1>2. ASSUME NEW n \in Nodes, NEW flush \in Flush, UpsertNode(n, flush)
      PROVE  Good(durable') /\ Good(view') /\ ClosedIsCommitted'
  BY <1>2, UpsertNodeStep
<1>3. ASSUME NEW e \in Edges, NEW flush \in Flush, UpsertEdge(e, flush)
      PROVE  Good(durable') /\ Good(view') /\ ClosedIsCommitted'
  BY <1>3, UpsertEdgeStep
<1>4. CASE FinishUpsert
  BY <1>0, <1>4 DEF FinishUpsert, ClosedIsCommitted
<1>5. ASSUME NEW flush \in Flush, Record(flush)
      PROVE  Good(durable') /\ Good(view') /\ ClosedIsCommitted'
  BY <1>0, <1>5 DEF Record, Flush, ClosedIsCommitted
<1>6. CASE FinishIngest
  BY <1>0, <1>6 DEF FinishIngest, ClosedIsCommitted
<1>7. CASE CutShort
  BY <1>0, <1>7 DEF CutShort, ClosedIsCommitted
<1>8. CASE TickDecay
  BY <1>8, DecayStep, RatesAreRates DEF TickDecay
<1>9. ASSUME NEW decay \in Requests, RequestDecay(decay)
      PROVE  Good(durable') /\ Good(view') /\ ClosedIsCommitted'
  <2>1. decay \in Rates
    BY RatesAreRates
  <2> QED
    BY <1>9, <2>1, DecayStep DEF RequestDecay
<1>10. ASSUME NEW e \in Edges, Replay(e)
       PROVE  Good(durable') /\ Good(view') /\ ClosedIsCommitted'
  <2>1. view' = durable'
    BY <1>10 DEF Replay
  <2> QED
    BY <1>0, <1>10, <2>1, ReplayedGood DEF ClosedIsCommitted
<1>11. \/ \E ontology \in Parts : Learn(ontology)
       \/ \E n \in Nodes : SelectNode(n)
       \/ TickEnds \/ TickNoDecay \/ Interval
       => UNCHANGED tables
  BY DEF Learn, SelectNode, TickEnds, TickNoDecay, Interval
<1> QED
  BY <1>1, <1>2, <1>3, <1>4, <1>5, <1>6, <1>7, <1>8, <1>9, <1>10, <1>11 DEF Next

\* Every step keeps the types.
LEMMA TypeStep == IInv /\ Next => TypeOK'
<1> SUFFICES ASSUME IInv, Next PROVE TypeOK'
  OBVIOUS
<1>1. TypeOK /\ durable' \in Tables /\ view' \in Tables
  BY GoodStep DEF IInv, Good
<1>2. /\ {} \in SUBSET Nodes /\ Nothing \in Parts
      /\ Unseen \in [Nodes -> Nat \cup {-1}]
  BY DEF Nothing, Parts, Unseen
<1> USE DEF TypeOK, tables, local, clock, bounds
<1>3. ASSUME NEW ontology \in Parts, Learn(ontology) PROVE TypeOK'
  BY <1>1, <1>3 DEF Learn
<1>4. ASSUME NEW n \in Nodes, SelectNode(n) PROVE TypeOK'
  <2>1. view.count[n] \in Nat
    BY <1>1 DEF Tables, Counts
  <2> QED
    BY <1>1, <1>4, <2>1 DEF SelectNode
<1>5. ASSUME NEW n \in Nodes, NEW flush \in Flush, UpsertNode(n, flush) PROVE TypeOK'
  <2>1. todo' \in Parts
    BY <1>1, <1>5 DEF UpsertNode, Parts
  <2> QED
    BY <1>1, <1>2, <1>5, <2>1 DEF UpsertNode, Mark, Flush
<1>6. ASSUME NEW e \in Edges, NEW flush \in Flush, UpsertEdge(e, flush) PROVE TypeOK'
  <2>1. todo' \in Parts
    BY <1>1, <1>6 DEF UpsertEdge, Parts
  <2> QED
    BY <1>1, <1>6, <2>1 DEF UpsertEdge, Mark, Flush
<1>7. CASE FinishUpsert
  BY <1>1, <1>7 DEF FinishUpsert
<1>8. ASSUME NEW flush \in Flush, Record(flush) PROVE TypeOK'
  BY <1>1, <1>2, <1>8 DEF Record, Flush
<1>9. CASE FinishIngest
  BY <1>1, <1>9 DEF FinishIngest
<1>10. CASE TickEnds
  BY <1>1, <1>10 DEF TickEnds
<1>11. CASE TickDecay
  BY <1>1, <1>11 DEF TickDecay, DecayTables
<1>12. CASE TickNoDecay
  BY <1>1, <1>12 DEF TickNoDecay
<1>13. CASE CutShort
  <2>1. seen' \in [Nodes -> Nat \cup {-1}] /\ batch' \in Parts /\ todo' \in Parts
    BY <1>2, <1>13 DEF CutShort
  <2>2. /\ open' = FALSE /\ pending' = FALSE /\ pc' = "idle" /\ faults' = faults + 1
        /\ due' = due /\ spent' = spent /\ batches' = batches /\ replays' = replays
    BY <1>13 DEF CutShort
  <2>3. faults' \in Nat /\ pc' \in {"idle", "rows", "record", "between", "decide", "decayed", "build"}
    BY <1>1, <2>2
  <2> QED
    BY <1>1, <2>1, <2>2, <2>3, Zenon
<1>14. CASE Interval
  BY <1>1, <1>14 DEF Interval
<1>15. ASSUME NEW decay \in Requests, RequestDecay(decay) PROVE TypeOK'
  BY <1>1, <1>15 DEF RequestDecay, DecayTables
<1>16. ASSUME NEW e \in Edges, Replay(e) PROVE TypeOK'
  BY <1>1, <1>16 DEF Replay
<1> QED
  BY <1>3, <1>4, <1>5, <1>6, <1>7, <1>8, <1>9, <1>10, <1>11, <1>12, <1>13, <1>14, <1>15,
     <1>16 DEF Next


\* What is written stays written for the ontology in hand: a decay that takes it says
\* so.
LEMMA WrittenStep == IInv /\ Next => WrittenIsKept'
<1> SUFFICES ASSUME IInv, Next, pc' = "rows"
             PROVE  /\ todo'.edges \subseteq batch'.edges
                    /\ \A e \in batch'.edges : e[1] \in batch'.nodes /\ e[2] \in batch'.nodes
                    /\ \A n \in batch'.nodes \ todo'.nodes : Kept(view', n)
  BY DEF WrittenIsKept
<1>1. /\ todo \in Parts /\ batch \in Parts /\ todo' \in Parts /\ batch' \in Parts
      /\ WrittenIsKept /\ ClosedIsCommitted
  BY TypeStep DEF IInv, TypeOK
<1>2. ASSUME NEW ontology \in Parts, Learn(ontology)
      PROVE  /\ batch' = todo'
             /\ \A e \in batch'.edges : e[1] \in batch'.nodes /\ e[2] \in batch'.nodes
  BY <1>2 DEF Learn, Ends
<1>3. ASSUME pc = "rows", batch' = batch, todo' = todo,
             \A n \in batch.nodes \ todo.nodes : Kept(view, n) => Kept(view', n)
      PROVE  /\ todo'.edges \subseteq batch'.edges
             /\ \A e \in batch'.edges : e[1] \in batch'.nodes /\ e[2] \in batch'.nodes
             /\ \A n \in batch'.nodes \ todo'.nodes : Kept(view', n)
  BY <1>1, <1>3 DEF WrittenIsKept
<1>4. ASSUME NEW n \in Nodes, SelectNode(n)
      PROVE  pc = "rows" /\ batch' = batch /\ todo' = todo /\ view' = view
  BY <1>4 DEF SelectNode, tables
<1>5. ASSUME NEW n \in Nodes, NEW flush \in Flush, UpsertNode(n, flush)
      PROVE  /\ todo'.edges \subseteq batch'.edges
             /\ \A e \in batch'.edges : e[1] \in batch'.nodes /\ e[2] \in batch'.nodes
             /\ \A m \in batch'.nodes \ todo'.nodes : Kept(view', m)
  <2>1. /\ pc = "rows" /\ batch' = batch
        /\ todo'.edges = todo.edges /\ todo'.nodes = todo.nodes \ {n}
    BY <1>1, <1>5 DEF UpsertNode, Parts
  <2>2. batch.nodes \subseteq Nodes
    BY <1>1 DEF Parts
  <2>3. Kept(view', n) /\ \A m \in Nodes : Kept(view, m) => Kept(view', m)
    BY <1>5, UpsertNodeStep
  <2> QED
    BY <1>1, <2>1, <2>2, <2>3 DEF WrittenIsKept
<1>6. ASSUME NEW e \in Edges, NEW flush \in Flush, UpsertEdge(e, flush)
      PROVE  /\ todo'.edges \subseteq batch'.edges
             /\ \A f \in batch'.edges : f[1] \in batch'.nodes /\ f[2] \in batch'.nodes
             /\ \A m \in batch'.nodes \ todo'.nodes : Kept(view', m)
  <2>1. /\ pc = "rows" /\ batch' = batch
        /\ todo'.edges \subseteq todo.edges /\ todo'.nodes = todo.nodes
    BY <1>1, <1>6 DEF UpsertEdge, Parts
  <2>2. view'.count = view.count /\ view'.swept = view.swept
    BY <1>6, UpsertEdgeStep
  <2>3. \A m : Kept(view, m) => Kept(view', m)
    BY <2>2 DEF Kept
  <2> QED
    BY <1>1, <2>1, <2>3 DEF WrittenIsKept
<1>7. ASSUME NEW decay \in Requests, RequestDecay(decay)
      PROVE  /\ pc = "rows" /\ batch' = batch /\ todo' = todo
             /\ \A n \in batch.nodes \ todo.nodes : Kept(view, n) => Kept(view', n)
  <2>1. decay \in Rates /\ batch.nodes \subseteq Nodes
    BY <1>1, RatesAreRates DEF Parts
  <2>2. DecayTables(decay, batch.nodes \ todo.nodes)
    BY <1>7 DEF RequestDecay
  <2>3. \A n \in batch.nodes \ todo.nodes : Kept(view, n) => Kept(view', n)
    BY <2>1, <2>2, DecayStep
  <2> QED
    BY <1>7, <2>3 DEF RequestDecay, local
<1>8. ASSUME NEW e \in Edges, Replay(e)
      PROVE  /\ pc = "rows" /\ batch' = batch /\ todo' = todo
             /\ \A n \in batch.nodes \ todo.nodes : Kept(view, n) => Kept(view', n)
  <2>1. view = durable /\ view' = durable' /\ Good(durable) /\ batch.nodes \subseteq Nodes
    BY <1>1, <1>8 DEF Replay, ClosedIsCommitted, IInv, Parts
  <2>2. \A n \in Nodes : Kept(durable, n) => Kept(durable', n)
    BY <1>8, <2>1, ReplayedGood
  <2> QED
    BY <1>8, <2>1, <2>2 DEF Replay, local
<1>9. CASE Interval
  BY <1>3, <1>9 DEF Interval, tables, local
<1>10. FinishUpsert \/ (\E flush \in Flush : Record(flush)) \/ FinishIngest \/ TickEnds
       \/ TickDecay \/ TickNoDecay \/ CutShort => FALSE
  BY DEF FinishUpsert, Record, FinishIngest, TickEnds, TickDecay, TickNoDecay, CutShort
<1>11. ASSUME NEW ontology \in Parts, Learn(ontology)
       PROVE  /\ todo'.edges \subseteq batch'.edges
              /\ \A n \in batch'.nodes \ todo'.nodes : Kept(view', n)
  BY <1>2, <1>11
<1> QED
  BY <1>2, <1>3, <1>4, <1>5, <1>6, <1>7, <1>8, <1>9, <1>10, <1>11 DEF Next

\* The count in hand stays within what was learned and what was ever added.
LEMMA SeenStep == IInv /\ Next => SeenIsBracketed'
<1> SUFFICES ASSUME IInv, Next, NEW n \in Nodes, seen'[n] >= 0
             PROVE  view'.learned[n] <= seen'[n] /\ seen'[n] <= view'.ever[n]
  BY DEF SeenIsBracketed
<1>1. /\ seen \in [Nodes -> Nat \cup {-1}] /\ Good(view) /\ Good(view')
      /\ SeenIsBracketed /\ ClosedIsCommitted
  BY GoodStep DEF IInv, TypeOK
<1>2. /\ view.learned[n] \in Nat /\ view.ever[n] \in Nat
      /\ view'.learned[n] \in Nat /\ view'.ever[n] \in Nat
  BY <1>1 DEF Good, Tables, Counts
<1>3. CASE seen' = seen /\ view'.learned[n] <= view.learned[n] /\ view.ever[n] <= view'.ever[n]
  BY <1>1, <1>2, <1>3 DEF SeenIsBracketed
<1>4. seen' # Unseen
  BY DEF Unseen
<1>5. ASSUME NEW m \in Nodes, SelectNode(m)
      PROVE  view'.learned[n] <= seen'[n] /\ seen'[n] <= view'.ever[n]
  <2>1. n = m /\ seen'[n] = view.count[n] /\ view' = view
    BY <1>1, <1>5 DEF SelectNode, Unseen, tables
  <2> QED
    BY <1>1, <2>1 DEF Good, Bracketed
<1>6. ASSUME NEW e \in Edges, NEW flush \in Flush, UpsertEdge(e, flush)
      PROVE  seen' = seen /\ view'.learned[n] <= view.learned[n] /\ view.ever[n] <= view'.ever[n]
  BY <1>2, <1>6, UpsertEdgeStep DEF UpsertEdge
<1>7. ASSUME NEW decay \in Rates, NEW written, DecayTables(decay, written)
      PROVE  view'.learned[n] <= view.learned[n] /\ view.ever[n] <= view'.ever[n]
  BY <1>2, <1>7, DecayStep
<1>8. ASSUME NEW decay \in Requests, RequestDecay(decay)
      PROVE  seen' = seen /\ view'.learned[n] <= view.learned[n] /\ view.ever[n] <= view'.ever[n]
  BY <1>7, <1>8, RatesAreRates DEF RequestDecay, local
<1>9. CASE TickDecay
  BY <1>3, <1>7, <1>9, RatesAreRates DEF TickDecay, local
<1>10. ASSUME NEW e \in Edges, Replay(e)
       PROVE  seen' = seen /\ view'.learned[n] <= view.learned[n] /\ view.ever[n] <= view'.ever[n]
  <2>1. view = durable /\ view' = durable' /\ Good(durable) /\ seen' = seen
    BY <1>1, <1>10 DEF Replay, ClosedIsCommitted, IInv, local
  <2>2. durable'.learned = durable.learned /\ durable'.ever[n] >= durable.ever[n]
    BY <1>10, <2>1, ReplayedGood
  <2> QED
    BY <1>2, <2>1, <2>2
<1>11. \/ \E ontology \in Parts : Learn(ontology)
       \/ FinishUpsert
       \/ \E flush \in Flush : Record(flush)
       \/ FinishIngest \/ TickEnds \/ TickNoDecay \/ Interval
       => seen' = seen /\ view' = view
  BY DEF Learn, FinishUpsert, Record, FinishIngest, TickEnds, TickNoDecay, Interval, tables, local
<1>12. (\E m \in Nodes, flush \in Flush : UpsertNode(m, flush)) \/ CutShort => seen' = Unseen
  BY DEF UpsertNode, CutShort
<1> QED
  BY <1>2, <1>3, <1>4, <1>5, <1>6, <1>8, <1>9, <1>10, <1>11, <1>12 DEF Next

\* A decay is spent by the tick that writes its date, or by a fault.
LEMMA SpentStep == IInv /\ Next => SpentOnce'
<1> SUFFICES ASSUME IInv, Next PROVE SpentOnce'
  OBVIOUS
<1>1. SpentOnce /\ spent \in Nat /\ faults \in Nat /\ due \in BOOLEAN
  BY DEF IInv, TypeOK
<1>2. CASE TickDecay
  BY <1>1, <1>2 DEF TickDecay, SpentOnce, bounds
<1>3. CASE TickEnds
  BY <1>1, <1>3 DEF TickEnds, SpentOnce, bounds
<1>4. CASE CutShort
  BY <1>1, <1>4 DEF CutShort, SpentOnce, clock
<1>5. CASE Interval
  BY <1>1, <1>5 DEF Interval, SpentOnce, bounds
<1>6. CASE TickNoDecay
  BY <1>1, <1>6 DEF TickNoDecay, SpentOnce, clock, bounds
<1>7. CASE UNCHANGED <<clock, faults>> /\ pc' # "decayed" /\ pc # "decayed"
  BY <1>1, <1>7 DEF SpentOnce, clock
<1>8. CASE UNCHANGED <<clock, faults, pc>>
  BY <1>1, <1>8 DEF SpentOnce, clock
<1>9. \/ \E ontology \in Parts : Learn(ontology)
      \/ FinishUpsert
      \/ \E flush \in Flush : Record(flush)
      \/ FinishIngest
      => UNCHANGED <<clock, faults>> /\ pc' # "decayed" /\ pc # "decayed"
  BY DEF Learn, FinishUpsert, Record, FinishIngest, bounds
<1>10. \/ \E n \in Nodes : SelectNode(n) \/ \E flush \in Flush : UpsertNode(n, flush)
       \/ \E e \in Edges, flush \in Flush : UpsertEdge(e, flush)
       \/ \E decay \in Requests : RequestDecay(decay)
       \/ \E e \in Edges : Replay(e)
       => UNCHANGED <<clock, faults, pc>>
  BY DEF SelectNode, UpsertNode, UpsertEdge, RequestDecay, Replay, bounds
<1> QED
  BY <1>2, <1>3, <1>4, <1>5, <1>6, <1>7, <1>8, <1>9, <1>10 DEF Next

\* The invariant is inductive.
LEMMA NextIInv == IInv /\ [Next]_vars => IInv'
<1> SUFFICES ASSUME IInv, [Next]_vars PROVE IInv'
  OBVIOUS
<1>1. CASE Next
  BY <1>1, TypeStep, GoodStep, WrittenStep, SeenStep, SpentStep DEF IInv
<1>2. CASE UNCHANGED vars
  BY <1>2 DEF vars, tables, local, clock, bounds, IInv, TypeOK, ClosedIsCommitted,
    WrittenIsKept, SeenIsBracketed, SpentOnce
<1> QED
  BY <1>1, <1>2

\* The inductive invariant of the synaptic tables and of the three that write them.
THEOREM SynapseInvariant == Spec => []IInv
<1>1. Init => IInv
  BY InitIInv
<1>2. IInv /\ [Next]_vars => IInv'
  BY NextIInv
<1> QED
  BY <1>1, <1>2, PTL DEF Spec

\* What Neo4j does to the tables: a step of theirs, none, or a fault.
LEMMA MirrorStep ==
    MirrorNext => \/ Next
                  \/ UNCHANGED vars
                  \/ UNCHANGED <<tables, pc, local, clock, batches, replays>> /\ faults' = faults + 1
<1> SUFFICES ASSUME MirrorNext
             PROVE  \/ Next
                    \/ UNCHANGED vars
                    \/ UNCHANGED <<tables, pc, local, clock, batches, replays>> /\ faults' = faults + 1
  OBVIOUS
<1>1. CASE TickStep
  BY <1>1 DEF TickStep, Quietly, Potentiate, SendUpsert, SendDecay, Next
<1>2. ASSUME NEW decay \in Requests, Ask(decay) \/ SendAsked(decay) \/ AskedFails(decay)
      PROVE  \/ Next
             \/ UNCHANGED vars
             \/ UNCHANGED <<tables, pc, local, clock, batches, replays>> /\ faults' = faults + 1
  BY <1>2 DEF Ask, SendAsked, AskedFails, Next
<1> QED
  BY <1>1, <1>2 DEF MirrorNext, Quietly, Decay, SendFails, Interrupted, Next

\* So the invariant holds with Neo4j beside the tables.
LEMMA MirrorIInv == IInv /\ [MirrorNext]_<<vars, neo4j>> => IInv'
<1> SUFFICES ASSUME IInv, [MirrorNext]_<<vars, neo4j>> PROVE IInv'
  OBVIOUS
<1>1. CASE Next \/ UNCHANGED vars
  BY <1>1, NextIInv
<1>2. CASE UNCHANGED <<tables, pc, local, clock, batches, replays>> /\ faults' = faults + 1
  <2>1. TypeOK'
    BY <1>2 DEF IInv, TypeOK, tables, local, clock
  <2>2. SpentOnce'
    BY <1>2 DEF IInv, TypeOK, SpentOnce, clock
  <2> QED
    BY <1>2, <2>1, <2>2 DEF tables, local, IInv, ClosedIsCommitted, WrittenIsKept, SeenIsBracketed
<1> QED
  BY <1>1, <1>2, MirrorStep

\* The same invariant while Neo4j is told of every change, or is not.
THEOREM MirrorInvariant == MirrorSpec => []IInv
<1>1. MirrorInit => IInv
  BY InitIInv DEF MirrorInit
<1>2. IInv /\ [MirrorNext]_<<vars, neo4j>> => IInv'
  BY MirrorIInv
<1> QED
  BY <1>1, <1>2, PTL DEF MirrorSpec

-----------------------------------------------------------------------------
(* The properties. *)

\* However potentiation, decay and consolidation overlap, and wherever they are cut
\* short, a committed edge has both its nodes: only a decay in the middle of an
\* ontology may have taken them.
THEOREM EdgesHaveNodes == MirrorSpec => []EdgesKeepNodes
<1>1. IInv => EdgesKeepNodes
  BY RowEnds DEF IInv, Good, EdgesKept, Kept, EdgesKeepNodes
<1> QED
  BY <1>1, MirrorInvariant, PTL

\* The count of a node has everything that the daemon learned since its row was made,
\* and nothing twice, although consolidations may be lost from it.
THEOREM CountsKeepLearning == MirrorSpec => []CountsBracketed
<1>1. IInv => CountsBracketed
  BY DEF IInv, Good, Bracketed, CountsBracketed
<1> QED
  BY <1>1, MirrorInvariant, PTL

\* Ticks decay once in an interval, and once more for each fault.
THEOREM DecayIsSpentOnce == MirrorSpec => []DecaysOncePerInterval
<1>1. IInv => DecaysOncePerInterval
  BY DEF IInv, TypeOK, SpentOnce, DecaysOncePerInterval
<1> QED
  BY <1>1, MirrorInvariant, PTL

-----------------------------------------------------------------------------
(* Neo4j keeps up. *)

\* While nothing is on its way every row has its relation, which is at least as strong,
\* and every relation its row.
Covers(e) ==
    /\ mirror[e] >= view.weight[<<e, "daemon">>]
    /\ mirror[e] > 0 => view.weight[<<e, "daemon">>] > 0

\* An edge of the ontology in hand that is potentiated here and not there.
Ahead(e) == e \in batch.edges \ todo.edges /\ (pc = "rows" \/ call = "upsert")

AheadByOne(e) ==
    /\ view.weight[<<e, "daemon">>] > 0
    /\ view.weight[<<e, "daemon">>] <= Potentiated(mirror[e])

WeakenedCovers(e, decay) == view.weight[<<e, "daemon">>] <= Scaled(mirror[e], decay)

\* What is on its way is known by where the tick is.
CallsInOrder ==
    /\ pc \in {"rows", "record"} => batch.nodes # {}
    /\ pc # "rows" => todo = Nothing
    /\ call = "upsert" => pc = "record"
    /\ call = "decay" => pc = "decayed"

\* Rows that wait for no flush are committed.
FlushedIsCommitted ==
    /\ ~pending => durable.weight = view.weight
    /\ pc # "rows" => ~pending

Follows ==
    ~apart =>
        /\ owed # {} => call = "none"
        /\ \A d1, d2 \in owed : d1 = d2
        /\ \A e \in Edges :
              /\ owed = {} /\ call # "decay" /\ ~Ahead(e) => Covers(e)
              /\ owed = {} /\ call # "decay" /\ Ahead(e) => AheadByOne(e)
              /\ call = "decay" => WeakenedCovers(e, TickRate)
              /\ pc # "rows" => \A d \in owed : WeakenedCovers(e, d)

\* The inductive invariant of the tables with Neo4j.
MirrorInv ==
    /\ IInv
    /\ MirrorTypeOK
    /\ CallsInOrder
    /\ FlushedIsCommitted
    /\ Follows

\* A decay keeps the order of weights.
LEMMA ScaledMonotone ==
    ASSUME NEW a \in Nat, NEW b \in Nat, a <= b, NEW decay \in Rates
    PROVE  Scaled(a, decay) <= Scaled(b, decay)
<1> DEFINE k == decay.keep
           x == a * k
           y == b * k
<1>1. k \in Nat /\ decay.threshold \in Nat
  BY DEF Rates
<1> HIDE DEF k
<1>2. x \in Nat /\ y \in Nat /\ x <= y
  BY <1>1
<1> HIDE DEF x, y
<1>3. x \div 100 \in Nat /\ y \div 100 \in Nat /\ x \div 100 <= y \div 100
  BY <1>2
<1> DEFINE v == x \div 100
           w == y \div 100
<1>4. /\ Scaled(a, decay) = IF v < decay.threshold THEN 0 ELSE v
      /\ Scaled(b, decay) = IF w < decay.threshold THEN 0 ELSE w
  BY DEF Scaled, x, y, k
<1>5. v \in Nat /\ w \in Nat /\ v <= w
  BY <1>3
<1> HIDE DEF v, w
<1> QED
  BY <1>1, <1>4, <1>5

\* Potentiation keeps the order of weights that are there or not together.
LEMMA PotentiatedMonotone ==
    ASSUME NEW v \in Nat, NEW m \in Nat, v <= m, m > 0 => v > 0
    PROVE  Potentiated(v) \in Nat /\ Potentiated(v) > 0 /\ Potentiated(v) <= Potentiated(m)
BY SynapseAssumption DEF Potentiated

\* Merging an edge several times does at least what potentiating it once does.
LEMMA MirroredCovers ==
    ASSUME NEW weights \in [Edges -> Nat], NEW edges, NEW times \in Nat \ {0}
    PROVE  /\ Mirrored(weights, edges, times) \in [Edges -> Nat]
           /\ \A e \in Edges :
                 /\ e \in edges => Mirrored(weights, edges, times)[e] >= Potentiated(weights[e])
                 /\ e \notin edges => Mirrored(weights, edges, times)[e] = weights[e]
<1>1. ASSUME NEW e \in Edges, weights[e] = 0
      PROVE  Fresh + (times - 1) * Increment \in Nat /\ Fresh + (times - 1) * Increment >= Fresh
  <2> DEFINE more == (times - 1) * Increment
  <2>1. more \in Nat /\ Fresh \in Nat
    BY SynapseAssumption
  <2> HIDE DEF more
  <2>2. Fresh + more \in Nat /\ Fresh + more >= Fresh
    BY <2>1
  <2> QED
    BY <2>2 DEF more
<1>2. ASSUME NEW e \in Edges, weights[e] # 0
      PROVE  /\ weights[e] + times * Increment \in Nat
             /\ weights[e] + times * Increment >= weights[e] + Increment
  <2> DEFINE more == times * Increment
  <2>1. more \in Nat /\ more >= Increment /\ Increment \in Nat /\ weights[e] \in Nat
    BY SynapseAssumption
  <2> HIDE DEF more
  <2>2. weights[e] + more \in Nat /\ weights[e] + more >= weights[e] + Increment
    BY <2>1
  <2> QED
    BY <2>2 DEF more
<1> QED
  BY <1>1, <1>2 DEF Mirrored, Potentiated

LEMMA RowOfEdge == \A e \in Edges : <<e, "daemon">> \in Rows
BY DEF Rows

\* What a decay makes of each weight.
LEMMA DecayWeakens ==
    ASSUME IInv, NEW decay \in Rates, NEW written, DecayTables(decay, written)
    PROVE  /\ durable'.weight = view'.weight
           /\ \A r \in Rows : view'.weight[r] = Scaled(view.weight[r], decay)
<1>1. durable = view /\ view \in Tables
  BY DEF IInv, TypeOK, ClosedIsCommitted, DecayTables
<1>2. view' = Decayed(view, decay, written) /\ durable' = view'
  BY <1>1 DEF DecayTables
<1>3. view'.weight = [r \in Rows |-> Scaled(view.weight[r], decay)]
  BY <1>1, <1>2 DEF Decayed, Tables
<1> QED
  BY <1>2, <1>3

LEMMA InitMirrorInv == MirrorInit => MirrorInv
<1> SUFFICES ASSUME MirrorInit PROVE MirrorInv
  OBVIOUS
<1>1. IInv
  BY InitIInv DEF MirrorInit
<1>2. MirrorTypeOK /\ CallsInOrder /\ FlushedIsCommitted
  BY DEF MirrorInit, Init, MirrorTypeOK, CallsInOrder, FlushedIsCommitted
<1>3. ASSUME NEW e \in Edges PROVE Covers(e) /\ ~Ahead(e)
  <2>1. mirror[e] = 0 /\ pc = "idle" /\ call = "none"
    BY DEF MirrorInit, Init
  <2>2. <<e, "daemon">> \in Rows /\ view.weight = [r \in Rows |-> 0]
    BY RowOfEdge DEF MirrorInit, Init, NoRows
  <2>3. view.weight[<<e, "daemon">>] = 0
    BY <2>2
  <2> QED
    BY <2>1, <2>3 DEF Covers, Ahead
<1> QED
  BY <1>1, <1>2, <1>3 DEF MirrorInv, Follows, MirrorInit

\* The tables' part of the steps.
LEMMA OrderStep ==
    ASSUME IInv, MirrorTypeOK, CallsInOrder, FlushedIsCommitted, MirrorNext
    PROVE  CallsInOrder' /\ FlushedIsCommitted'
<1>1. ASSUME NEW ontology \in Parts, Quietly(Learn(ontology)) PROVE CallsInOrder' /\ FlushedIsCommitted'
  BY <1>1 DEF Quietly, Learn, neo4j, tables, CallsInOrder, FlushedIsCommitted
<1>2. ASSUME NEW n \in Nodes, Quietly(SelectNode(n)) PROVE CallsInOrder' /\ FlushedIsCommitted'
  BY <1>2 DEF Quietly, SelectNode, neo4j, tables, CallsInOrder, FlushedIsCommitted
<1>3. ASSUME NEW n \in Nodes, NEW flush \in Flush, Quietly(UpsertNode(n, flush))
      PROVE  CallsInOrder' /\ FlushedIsCommitted'
  <2>1. view \in Tables /\ view'.weight = view.weight
    BY <1>3 DEF Quietly, UpsertNode, NodeRow, IInv, TypeOK, Tables
  <2> QED
    BY <2>1, <1>3 DEF Quietly, UpsertNode, Mark, Flush, neo4j, CallsInOrder, FlushedIsCommitted
<1>4. ASSUME NEW e \in Edges, NEW flush \in Flush, Quietly(UpsertEdge(e, flush))
      PROVE  CallsInOrder' /\ FlushedIsCommitted'
  BY <1>4 DEF Quietly, UpsertEdge, Mark, Flush, neo4j, CallsInOrder, FlushedIsCommitted
<1>5. CASE Potentiate
  BY <1>5 DEF Potentiate, FinishUpsert, local, CallsInOrder, FlushedIsCommitted
<1>6. ASSUME NEW flush \in Flush, Quietly(Record(flush)) PROVE CallsInOrder' /\ FlushedIsCommitted'
  BY <1>6 DEF Quietly, Record, Flush, neo4j, CallsInOrder, FlushedIsCommitted
<1>7. CASE Quietly(FinishIngest) \/ Quietly(TickEnds) \/ Quietly(TickNoDecay)
  BY <1>7 DEF Quietly, FinishIngest, TickEnds, TickNoDecay, neo4j, tables, local,
              CallsInOrder, FlushedIsCommitted
<1>8. CASE Interval /\ UNCHANGED neo4j
  BY <1>8 DEF Interval, neo4j, tables, local, CallsInOrder, FlushedIsCommitted
<1>9. ASSUME NEW e \in Edges, Replay(e), UNCHANGED neo4j PROVE CallsInOrder' /\ FlushedIsCommitted'
  BY <1>9 DEF Replay, neo4j, local, CallsInOrder, FlushedIsCommitted
<1>10. CASE SendUpsert \/ SendDecay \/ SendFails
  BY <1>10 DEF SendUpsert, SendDecay, SendFails, vars, tables, local, CallsInOrder, FlushedIsCommitted
<1>11. CASE Decay
  BY <1>11 DEF Decay, TickDecay, DecayTables, local, CallsInOrder, FlushedIsCommitted
<1>12. ASSUME NEW decay \in Requests, Ask(decay) PROVE CallsInOrder' /\ FlushedIsCommitted'
  BY <1>12 DEF Ask, RequestDecay, DecayTables, local, CallsInOrder, FlushedIsCommitted
<1>13. ASSUME NEW decay \in Requests, SendAsked(decay) \/ AskedFails(decay)
       PROVE  CallsInOrder' /\ FlushedIsCommitted'
  BY <1>13 DEF SendAsked, AskedFails, vars, tables, local, CallsInOrder, FlushedIsCommitted
<1>14. CASE Interrupted
  BY <1>14 DEF Interrupted, CutShort, CallsInOrder, FlushedIsCommitted
<1> QED
  BY <1>1, <1>2, <1>3, <1>4, <1>5, <1>6, <1>7, <1>8, <1>9, <1>10, <1>11, <1>12, <1>13, <1>14
  DEF MirrorNext, TickStep

\* Steps that change neither a weight of the daemon's nor what is on its way.
LEMMA StaysFollowed ==
    ASSUME Follows, UNCHANGED neo4j,
           \A e \in Edges : view'.weight[<<e, "daemon">>] = view.weight[<<e, "daemon">>],
           \A e \in Edges : Ahead(e)' <=> Ahead(e),
           pc' # "rows" => pc # "rows"
    PROVE  Follows'
BY DEF Follows, neo4j, Covers, AheadByOne, WeakenedCovers

\* Steps of the tick that write no edge, the interval's and a consolidation's.
LEMMA QuietFollows ==
    ASSUME MirrorInv,
           \/ \E ontology \in Parts : Quietly(Learn(ontology))
           \/ \E n \in Nodes : Quietly(SelectNode(n))
           \/ \E n \in Nodes, flush \in Flush : Quietly(UpsertNode(n, flush))
           \/ \E flush \in Flush : Quietly(Record(flush))
           \/ Quietly(FinishIngest) \/ Quietly(TickEnds) \/ Quietly(TickNoDecay)
           \/ Interval /\ UNCHANGED neo4j
           \/ \E e \in Edges : Replay(e) /\ UNCHANGED neo4j
    PROVE  Follows'
<1>1. ASSUME NEW ontology \in Parts, Quietly(Learn(ontology)) PROVE Follows'
  <2>1. UNCHANGED neo4j /\ view' = view /\ pc' = "rows" /\ pc # "rows" /\ call = "none"
        /\ batch' = ontology /\ todo' = ontology
    BY <1>1 DEF Quietly, Learn, tables
  <2>2. \A e \in Edges : ~Ahead(e) /\ ~Ahead(e)'
    BY <2>1 DEF Ahead
  <2> QED
    BY <2>1, <2>2, StaysFollowed DEF MirrorInv
<1>2. ASSUME NEW n \in Nodes, Quietly(SelectNode(n)) PROVE Follows'
  <2>1. UNCHANGED <<neo4j, view, pc, batch, todo>>
    BY <1>2 DEF Quietly, SelectNode, tables
  <2>2. \A e \in Edges : Ahead(e)' <=> Ahead(e)
    BY <2>1 DEF Ahead, neo4j
  <2> QED
    BY <2>1, <2>2, StaysFollowed DEF MirrorInv
<1>3. ASSUME NEW n \in Nodes, NEW flush \in Flush, Quietly(UpsertNode(n, flush)) PROVE Follows'
  <2>1. /\ UNCHANGED <<neo4j, pc, batch>> /\ todo'.edges = todo.edges
        /\ view'.weight = view.weight
    BY <1>3 DEF Quietly, UpsertNode, NodeRow, MirrorInv, IInv, TypeOK, Tables, Parts
  <2>2. \A e \in Edges : Ahead(e)' <=> Ahead(e)
    BY <2>1 DEF Ahead, neo4j
  <2> QED
    BY <2>1, <2>2, StaysFollowed DEF MirrorInv
<1>4. ASSUME NEW flush \in Flush, Quietly(Record(flush)) PROVE Follows'
  <2>1. UNCHANGED <<neo4j, view>> /\ pc # "rows" /\ pc' # "rows" /\ call = "none"
    BY <1>4 DEF Quietly, Record
  <2>2. \A e \in Edges : ~Ahead(e) /\ ~Ahead(e)'
    BY <2>1 DEF Ahead, neo4j
  <2> QED
    BY <2>1, <2>2, StaysFollowed DEF MirrorInv
<1>5. CASE Quietly(FinishIngest) \/ Quietly(TickEnds) \/ Quietly(TickNoDecay)
  <2>1. UNCHANGED <<neo4j, view>> /\ pc # "rows" /\ pc' # "rows" /\ call = "none"
    BY <1>5 DEF Quietly, FinishIngest, TickEnds, TickNoDecay, tables
  <2>2. \A e \in Edges : ~Ahead(e) /\ ~Ahead(e)'
    BY <2>1 DEF Ahead, neo4j
  <2> QED
    BY <2>1, <2>2, StaysFollowed DEF MirrorInv
<1>6. CASE Interval /\ UNCHANGED neo4j
  <2>1. UNCHANGED <<neo4j, view, pc, batch, todo>>
    BY <1>6 DEF Interval, tables, local
  <2>2. \A e \in Edges : Ahead(e)' <=> Ahead(e)
    BY <2>1 DEF Ahead, neo4j
  <2> QED
    BY <2>1, <2>2, StaysFollowed DEF MirrorInv
<1>7. ASSUME NEW e \in Edges, Replay(e), UNCHANGED neo4j PROVE Follows'
  <2>1. durable = view /\ durable \in Tables
    BY <1>7 DEF Replay, MirrorInv, IInv, TypeOK, ClosedIsCommitted
  <2>2. view'.weight = [view.weight EXCEPT ![<<e, "replay">>] = Strengthened(@)]
    BY <1>7, <2>1 DEF Replay, Tables
  <2>3. UNCHANGED <<neo4j, pc, batch, todo>>
    BY <1>7 DEF Replay, local
  <2>4. view.weight \in [Rows -> Nat]
    BY <2>1 DEF Tables
  <2>5. \A f \in Edges : view'.weight[<<f, "daemon">>] = view.weight[<<f, "daemon">>]
    BY <2>2, <2>4, RowOfEdge
  <2>6. \A f \in Edges : Ahead(f)' <=> Ahead(f)
    BY <2>3 DEF Ahead, neo4j
  <2> QED
    BY <2>3, <2>5, <2>6, StaysFollowed DEF MirrorInv
<1> QED
  BY <1>1, <1>2, <1>3, <1>4, <1>5, <1>6, <1>7

\* An ontology that is sent has a node, so its edges are merged at least once.
LEMMA SendsSomething ==
    ASSUME MirrorInv, pc = "record"
    PROVE  Cardinality(batch.nodes) \in Nat \ {0}
<1>1. batch.nodes \in SUBSET Nodes /\ batch.nodes # {}
  BY DEF MirrorInv, IInv, TypeOK, Parts, CallsInOrder
<1>2. IsFiniteSet(batch.nodes)
  BY <1>1, MirrorAssumption, FS_Subset
<1> QED
  BY <1>1, <1>2, FS_CardinalityType, FS_EmptySet

LEMMA WeightsAreNatural ==
    ASSUME MirrorInv, NEW e \in Edges
    PROVE  view.weight[<<e, "daemon">>] \in Nat /\ mirror[e] \in Nat
BY RowOfEdge DEF MirrorInv, IInv, TypeOK, Tables, MirrorTypeOK

\* The step that potentiates an edge puts it one ahead of its relation.
LEMMA UpsertEdgeFollows ==
    ASSUME MirrorInv, NEW e \in Edges, NEW flush \in Flush, Quietly(UpsertEdge(e, flush))
    PROVE  Follows'
<1> DEFINE row(f) == <<f, "daemon">>
<1>1. /\ UNCHANGED <<neo4j, pc, batch>> /\ call = "none" /\ pc = "rows"
      /\ e \in todo.edges /\ todo'.edges = todo.edges \ {e}
  BY DEF Quietly, UpsertEdge, MirrorInv, IInv, TypeOK, Parts
<1>2. view \in Tables /\ view.weight \in [Rows -> Nat]
  BY DEF MirrorInv, IInv, TypeOK, Tables
<1>3. view'.weight = [view.weight EXCEPT ![row(e)] = Potentiated(view.weight[row(e)])]
  BY <1>2 DEF Quietly, UpsertEdge, Tables
<1>4. /\ view'.weight[row(e)] = Potentiated(view.weight[row(e)])
      /\ \A f \in Edges : f # e => view'.weight[row(f)] = view.weight[row(f)]
  BY <1>2, <1>3, RowOfEdge
<1> HIDE DEF row
<1> SUFFICES ASSUME ~apart, owed = {}
             PROVE  \A f \in Edges : /\ ~Ahead(f)' => Covers(f)'
                                     /\ Ahead(f)' => AheadByOne(f)'
  BY <1>1 DEF MirrorInv, Follows, neo4j
<1>5. \A f \in Edges : /\ ~Ahead(f) => Covers(f)
                       /\ Ahead(f) => AheadByOne(f)
  BY <1>1 DEF MirrorInv, Follows
<1>6. Ahead(e)' /\ AheadByOne(e)'
  <2>1. e \in batch.edges /\ ~Ahead(e)
    BY <1>1 DEF MirrorInv, IInv, WrittenIsKept, Ahead
  <2>2. Covers(e)
    BY <1>5, <2>1
  <2>3. /\ Potentiated(view.weight[row(e)]) > 0
        /\ Potentiated(view.weight[row(e)]) <= Potentiated(mirror[e])
    BY <2>2, WeightsAreNatural, PotentiatedMonotone DEF Covers, row
  <2> QED
    BY <1>1, <1>4, <2>1, <2>3 DEF Ahead, AheadByOne, neo4j, row
<1>7. ASSUME NEW f \in Edges, f # e
      PROVE  (~Ahead(f)' => Covers(f)') /\ (Ahead(f)' => AheadByOne(f)')
  <2>1. Ahead(f)' <=> Ahead(f)
    BY <1>1, <1>7 DEF Ahead, neo4j
  <2> QED
    BY <1>1, <1>4, <1>5, <1>7, <2>1 DEF Covers, AheadByOne, neo4j, row
<1> QED
  BY <1>6, <1>7

\* What is sent of a potentiation catches up with it.
LEMMA PotentiateFollows ==
    ASSUME MirrorInv, Potentiate \/ SendUpsert
    PROVE  Follows'
<1>1. CASE Potentiate
  <2>1. /\ UNCHANGED <<owed, mirror, view, batch, todo>> /\ call' = "upsert"
        /\ pc = "rows" /\ apart' = (apart \/ owed # {})
    BY <1>1 DEF Potentiate, FinishUpsert, local
  <2>2. call # "decay"
    BY <2>1 DEF MirrorInv, CallsInOrder
  <2>3. \A e \in Edges : Ahead(e)' <=> Ahead(e)
    BY <2>1 DEF Ahead
  <2> QED
    BY <2>1, <2>2, <2>3 DEF MirrorInv, Follows, Covers, AheadByOne
<1>2. CASE SendUpsert
  <2>1. /\ UNCHANGED <<owed, view, batch, todo, pc>> /\ call = "upsert" /\ call' = "none"
        /\ mirror' = Mirrored(mirror, batch.edges, Cardinality(batch.nodes))
        /\ apart' = (apart \/ owed # {})
    BY <1>2 DEF SendUpsert, vars, tables, local
  <2>2. pc = "record" /\ todo.edges = {}
    BY <2>1 DEF MirrorInv, CallsInOrder, Nothing
  <2>3. \A e \in Edges : ~Ahead(e)' /\ (Ahead(e) <=> e \in batch.edges)
    BY <2>1, <2>2 DEF Ahead
  <2>4. SUFFICES ASSUME ~apart, owed = {}, NEW e \in Edges
                 PROVE  Covers(e)'
    BY <2>1, <2>3 DEF Follows
  <2>5. mirror \in [Edges -> Nat] /\ Cardinality(batch.nodes) \in Nat \ {0}
    BY <2>2, SendsSomething DEF MirrorInv, MirrorTypeOK
  <2>6. /\ mirror'[e] \in Nat
        /\ e \in batch.edges => mirror'[e] >= Potentiated(mirror[e])
        /\ e \notin batch.edges => mirror'[e] = mirror[e]
    BY <2>1, <2>5, MirroredCovers
  <2>7. CASE e \in batch.edges
    <3>1. AheadByOne(e)
      BY <2>1, <2>3, <2>4, <2>7 DEF MirrorInv, Follows
    <3>2. mirror[e] \in Nat /\ view.weight[<<e, "daemon">>] \in Nat
      BY WeightsAreNatural
    <3>3. Potentiated(mirror[e]) \in Nat
      BY <3>2, SynapseAssumption DEF Potentiated
    <3> QED
      BY <2>1, <2>6, <2>7, <3>1, <3>2, <3>3 DEF AheadByOne, Covers
  <2>8. CASE e \notin batch.edges
    <3>1. Covers(e)
      BY <2>1, <2>3, <2>4, <2>8 DEF MirrorInv, Follows
    <3> QED
      BY <2>1, <2>6, <2>8, <3>1 DEF Covers
  <2> QED
    BY <2>7, <2>8
<1> QED
  BY <1>1, <1>2

\* A decay that has still to be sent would weaken no relation below its row.
LEMMA DecayFollows ==
    ASSUME MirrorInv,
           \/ Decay
           \/ \E decay \in Requests : Ask(decay)
    PROVE  Follows'
<1>1. ASSUME NEW decay \in Rates, NEW written, DecayTables(decay, written),
             mirror' = mirror, ~apart, owed = {}, call = "none", pc # "rows",
             NEW e \in Edges
      PROVE  WeakenedCovers(e, decay)'
  <2>1. Covers(e)
    BY <1>1 DEF MirrorInv, Follows, Ahead
  <2>2. view'.weight[<<e, "daemon">>] = Scaled(view.weight[<<e, "daemon">>], decay)
    BY <1>1, DecayWeakens, RowOfEdge DEF MirrorInv
  <2>3. Scaled(view.weight[<<e, "daemon">>], decay) <= Scaled(mirror[e], decay)
    BY <2>1, WeightsAreNatural, ScaledMonotone DEF Covers
  <2> QED
    BY <1>1, <2>2, <2>3 DEF WeakenedCovers
<1>2. CASE Decay
  <2>1. /\ pc = "decide" /\ pc' = "decayed" /\ call' = "decay" /\ mirror' = mirror
        /\ owed' = owed /\ apart' = (apart \/ owed # {}) /\ DecayTables(TickRate, {})
    BY <1>2 DEF Decay, TickDecay
  <2>2. call = "none"
    BY <2>1 DEF MirrorInv, MirrorTypeOK, CallsInOrder
  <2>3. ~apart' => \A e \in Edges : WeakenedCovers(e, TickRate)'
    BY <1>1, <2>1, <2>2, RatesAreRates
  <2> QED
    BY <2>1, <2>3 DEF Follows, WeakenedCovers, TickRate
<1>3. ASSUME NEW decay \in Requests, Ask(decay) PROVE Follows'
  <2>1. /\ pc' = pc /\ call' = call /\ mirror' = mirror /\ owed' = owed \cup {decay}
        /\ apart' = (apart \/ Overtaken \/ pc = "rows")
        /\ DecayTables(decay, batch.nodes \ todo.nodes)
    BY <1>3 DEF Ask, RequestDecay
  <2>2. SUFFICES ASSUME ~apart, owed = {}, call = "none", pc # "rows" PROVE Follows'
    BY <2>1 DEF Follows, Overtaken
  <2>3. \A e \in Edges : WeakenedCovers(e, decay)'
    BY <1>1, <2>1, <2>2, RatesAreRates
  <2>4. owed' = {decay} /\ call' = "none"
    BY <2>1, <2>2
  <2> QED
    BY <2>3, <2>4 DEF Follows, WeakenedCovers
<1> QED
  BY <1>2, <1>3

\* What is sent of a decay makes them cover each other again, or tells that a relation
\* has outlived its row.
LEMMA SentDecayFollows ==
    ASSUME MirrorInv,
           \/ SendDecay
           \/ \E decay \in Requests : SendAsked(decay)
    PROVE  Follows'
<1>1. ASSUME NEW decay \in Rates, mirror' = Weakened(decay), view' = view, ~Outlives(mirror'),
             NEW e \in Edges, WeakenedCovers(e, decay)
      PROVE  Covers(e)'
  <2>1. mirror'[e] = Scaled(mirror[e], decay) /\ Scaled(mirror[e], decay) \in Nat
    BY <1>1, WeightsAreNatural, ScaledType DEF Weakened
  <2>2. mirror'[e] > 0 => view.weight[<<e, "daemon">>] # 0
    BY <1>1 DEF Outlives
  <2> QED
    BY <1>1, <2>1, <2>2, WeightsAreNatural DEF Covers, WeakenedCovers
<1>2. CASE SendDecay
  <2>1. /\ call = "decay" /\ call' = "none" /\ mirror' = Weakened(TickRate)
        /\ apart' = (apart \/ Outlives(mirror')) /\ UNCHANGED <<view, pc, owed>>
    BY <1>2 DEF SendDecay, vars, tables
  <2>2. SUFFICES ASSUME ~apart, ~Outlives(mirror') PROVE Follows'
    BY <2>1 DEF Follows
  <2>3. owed = {} /\ pc = "decayed" /\ \A e \in Edges : WeakenedCovers(e, TickRate)
    BY <2>1, <2>2 DEF MirrorInv, Follows, CallsInOrder
  <2>4. \A e \in Edges : Covers(e)' /\ ~Ahead(e)'
    BY <1>1, <2>1, <2>2, <2>3, RatesAreRates DEF Ahead
  <2> QED
    BY <2>1, <2>3, <2>4 DEF Follows
<1>3. ASSUME NEW decay \in Requests, SendAsked(decay) PROVE Follows'
  <2>1. /\ decay \in owed /\ owed' = owed \ {decay} /\ mirror' = Weakened(decay)
        /\ apart' = (apart \/ pc = "rows" \/ Outlives(mirror')) /\ UNCHANGED <<view, pc, call>>
    BY <1>3 DEF SendAsked, vars, tables
  <2>2. SUFFICES ASSUME ~apart, pc # "rows", ~Outlives(mirror') PROVE Follows'
    BY <2>1 DEF Follows
  <2>3. call = "none" /\ owed' = {} /\ \A e \in Edges : WeakenedCovers(e, decay)
    BY <2>1, <2>2 DEF MirrorInv, Follows
  <2>4. \A e \in Edges : Covers(e)' /\ ~Ahead(e)'
    BY <1>1, <2>1, <2>2, <2>3, RatesAreRates DEF Ahead
  <2> QED
    BY <2>1, <2>3, <2>4 DEF Follows
<1> QED
  BY <1>2, <1>3

\* A tick that is cut short loses no weight, unless an ontology was in hand.
LEMMA InterruptedFollows ==
    ASSUME MirrorInv, Interrupted
    PROVE  Follows'
<1>1. /\ pc' = "idle" /\ call' = "none" /\ view' = durable
      /\ apart' = (apart \/ call # "none" \/ pc = "rows") /\ UNCHANGED <<owed, mirror>>
  BY DEF Interrupted, CutShort
<1>2. SUFFICES ASSUME ~apart, call = "none", pc # "rows" PROVE Follows'
  BY <1>1 DEF Follows
<1>3. view'.weight = view.weight
  BY <1>1, <1>2 DEF MirrorInv, FlushedIsCommitted
<1>4. \A e \in Edges : ~Ahead(e) /\ ~Ahead(e)'
  BY <1>1, <1>2 DEF Ahead
<1> QED
  BY <1>1, <1>2, <1>3, <1>4 DEF MirrorInv, Follows, Covers, WeakenedCovers

\* The relations keep their type.
LEMMA MirrorTypeStep ==
    ASSUME MirrorInv, MirrorNext
    PROVE  MirrorTypeOK'
<1>1. mirror \in [Edges -> Nat] /\ owed \subseteq Requests /\ TickRate \in Rates
      /\ \A decay \in Requests : decay \in Rates
  BY RatesAreRates DEF MirrorInv, MirrorTypeOK
<1>2. \A decay \in Rates : Weakened(decay) \in [Edges -> Nat]
  BY <1>1, ScaledType DEF Weakened
<1>3. CASE UNCHANGED neo4j
  BY <1>3 DEF MirrorInv, MirrorTypeOK, neo4j
<1>4. CASE SendUpsert
  <2>1. Cardinality(batch.nodes) \in Nat \ {0}
    BY <1>4, SendsSomething DEF SendUpsert, MirrorInv, CallsInOrder
  <2>2. mirror' \in [Edges -> Nat]
    BY <1>1, <1>4, <2>1, MirroredCovers DEF SendUpsert
  <2> QED
    BY <1>1, <1>4, <2>2 DEF SendUpsert, MirrorInv, MirrorTypeOK
<1>5. CASE Potentiate \/ Decay \/ SendFails \/ Interrupted
  BY <1>5 DEF Potentiate, Decay, SendFails, Interrupted, MirrorInv, MirrorTypeOK
<1>6. CASE SendDecay
  BY <1>1, <1>2, <1>6 DEF SendDecay, MirrorInv, MirrorTypeOK
<1>7. ASSUME NEW decay \in Requests, Ask(decay) \/ SendAsked(decay) \/ AskedFails(decay)
      PROVE  MirrorTypeOK'
  BY <1>1, <1>2, <1>7 DEF Ask, SendAsked, AskedFails, Overtaken, MirrorInv, MirrorTypeOK
<1> QED
  BY <1>3, <1>4, <1>5, <1>6, <1>7 DEF MirrorNext, TickStep, Quietly

LEMMA MirrorInvStep == MirrorInv /\ [MirrorNext]_<<vars, neo4j>> => MirrorInv'
<1> SUFFICES ASSUME MirrorInv, [MirrorNext]_<<vars, neo4j>> PROVE MirrorInv'
  OBVIOUS
<1>1. IInv'
  BY MirrorIInv DEF MirrorInv
<1>2. CASE UNCHANGED <<vars, neo4j>>
  <2>1. MirrorTypeOK' /\ CallsInOrder' /\ FlushedIsCommitted'
    BY <1>2 DEF MirrorInv, MirrorTypeOK, CallsInOrder, FlushedIsCommitted, vars, tables, local, neo4j
  <2>2. Follows'
    BY <1>2 DEF MirrorInv, Follows, Covers, Ahead, AheadByOne, WeakenedCovers,
                vars, tables, local, neo4j
  <2> QED
    BY <1>1, <2>1, <2>2 DEF MirrorInv
<1>3. CASE MirrorNext
  <2>1. MirrorTypeOK' /\ CallsInOrder' /\ FlushedIsCommitted'
    BY <1>3, MirrorTypeStep, OrderStep DEF MirrorInv
  <2>2. ASSUME \/ SendFails
               \/ \E decay \in Requests : AskedFails(decay)
        PROVE  Follows'
    BY <2>2 DEF SendFails, AskedFails, Follows
  <2>3. Follows'
    BY <1>3, <2>2, QuietFollows, UpsertEdgeFollows, PotentiateFollows, DecayFollows,
       SentDecayFollows, InterruptedFollows DEF MirrorNext, TickStep
  <2> QED
    BY <1>1, <2>1, <2>3 DEF MirrorInv
<1> QED
  BY <1>2, <1>3

THEOREM MirrorIsFollowed == MirrorSpec => []MirrorInv
BY InitMirrorInv, MirrorInvStep, PTL DEF MirrorSpec

\* As long as every call has arrived in the order of the tables' changes, Neo4j has
\* every relation, at least as strong as the daemon's row.
THEOREM Neo4jKeepsUp == MirrorSpec => []MirrorKeepsUp
<1>1. MirrorInv => MirrorKeepsUp
  <2> SUFFICES ASSUME MirrorInv, Settled, ~apart, NEW e \in Edges
               PROVE  mirror[e] >= view.weight[<<e, "daemon">>]
    BY DEF MirrorKeepsUp
  <2>1. ~Ahead(e) /\ call # "decay" /\ owed = {}
    BY DEF Settled, Ahead
  <2> QED
    BY <2>1 DEF MirrorInv, Follows, Covers
<1> QED
  BY <1>1, MirrorIsFollowed, PTL

=============================================================================
