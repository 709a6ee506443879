---------------------------- MODULE SynapseMirror ----------------------------
(***************************************************************************)
(* The relations of the optional Neo4j database beside the synaptic tables  *)
(* (_Neo4jSink of knowledge_bakery/learning_daemon.py): every potentiation  *)
(* and every decay is sent there once it is in SQLite.  A call that fails   *)
(* is reported and never repeated, and a request's decay may arrive after   *)
(* what was learned since.  Neo4j's own nodes are left out.                 *)
(***************************************************************************)
EXTENDS SynapseStore, FiniteSets

ASSUME MirrorAssumption == IsFiniteSet(Nodes)

VARIABLES
    call,    \* what the tick has to send: "none", "upsert" or "decay"
    owed,    \* decays of requests that are not sent yet
    mirror,  \* weights of the relations in Neo4j, 0 for none
    apart    \* history: has a call failed, been overtaken, or been undone?

neo4j == <<call, owed, mirror, apart>>

MirrorTypeOK ==
    /\ call \in {"none", "upsert", "decay"}
    /\ owed \subseteq Requests
    /\ mirror \in [Edges -> Nat]
    /\ apart \in BOOLEAN

MirrorInit ==
    /\ Init
    /\ call = "none"
    /\ owed = {}
    /\ mirror = [e \in Edges |-> 0]
    /\ apart = FALSE

\* Mutant: relations are potentiated before they exist, by the increment alone.
MirroredBare(weights, edges, times) ==
    [e \in Edges |-> IF e \in edges THEN weights[e] + Increment ELSE weights[e]]

\* The Cypher of upsert.  WITH 1 AS ignored leaves one row for each node, so every
\* edge is merged so many times.
Mirrored(weights, edges, times) ==
    [e \in Edges |-> IF e \notin edges THEN weights[e]
                     ELSE IF weights[e] = 0 THEN Fresh + (times - 1) * Increment
                     ELSE weights[e] + times * Increment]

\* Relations that a decay left in Neo4j only.
Outlives(weights) ==
    \E e \in Edges : weights[e] > 0 /\ view.weight[<<e, "daemon">>] = 0

Overtaken == owed # {} \/ call # "none"

\* The steps of the tick that send nothing; its thread has nothing left to send.
Quietly(step) ==
    /\ call = "none"
    /\ step
    /\ UNCHANGED neo4j

Potentiate ==
    /\ FinishUpsert
    /\ call' = "upsert"
    /\ apart' = (apart \/ owed # {})
    /\ UNCHANGED <<owed, mirror>>

SendUpsert ==
    /\ call = "upsert"
    /\ call' = "none"
    /\ mirror' = Mirrored(mirror, batch.edges, Cardinality(batch.nodes))
    /\ apart' = (apart \/ owed # {})
    /\ UNCHANGED <<vars, owed>>

Decay ==
    /\ TickDecay
    /\ call' = "decay"
    /\ apart' = (apart \/ owed # {})
    /\ UNCHANGED <<owed, mirror>>

Weakened(decay) == [e \in Edges |-> Scaled(mirror[e], decay)]

SendDecay ==
    /\ call = "decay"
    /\ call' = "none"
    /\ mirror' = Weakened(TickRate)
    /\ apart' = (apart \/ Outlives(mirror'))
    /\ UNCHANGED <<vars, owed>>

\* A tick whose call fails goes on; only its outcome says so.
SendFails ==
    /\ call # "none"
    /\ faults < MaxFaults
    /\ faults' = faults + 1
    /\ call' = "none"
    /\ apart' = TRUE
    /\ UNCHANGED <<tables, pc, local, clock, batches, replays, owed, mirror>>

\* One decay of a kind at a time has still to be sent.  It is apart from here on if
\* anything else is on its way, or half of an ontology is in the tables.
Ask(decay) ==
    /\ decay \notin owed
    /\ RequestDecay(decay)
    /\ owed' = owed \cup {decay}
    /\ apart' = (apart \/ Overtaken \/ pc = "rows")
    /\ UNCHANGED <<call, mirror>>

\* A row that an ontology in hand has written may hide that a relation outlives its row.
SendAsked(decay) ==
    /\ decay \in owed
    /\ owed' = owed \ {decay}
    /\ mirror' = Weakened(decay)
    /\ apart' = (apart \/ pc = "rows" \/ Outlives(mirror'))
    /\ UNCHANGED <<vars, call>>

AskedFails(decay) ==
    /\ decay \in owed
    /\ faults < MaxFaults
    /\ faults' = faults + 1
    /\ owed' = owed \ {decay}
    /\ apart' = TRUE
    /\ UNCHANGED <<tables, pc, local, clock, batches, replays, call, mirror>>

Interrupted ==
    /\ CutShort
    /\ call' = "none"
    /\ apart' = (apart \/ call # "none" \/ pc = "rows")
    /\ UNCHANGED <<owed, mirror>>

\* What the tick's thread does by itself.
TickStep ==
    \/ \E n \in Nodes : Quietly(SelectNode(n))
    \/ \E n \in Nodes, flush \in Flush : Quietly(UpsertNode(n, flush))
    \/ \E e \in Edges, flush \in Flush : Quietly(UpsertEdge(e, flush))
    \/ Potentiate
    \/ SendUpsert
    \/ \E flush \in Flush : Quietly(Record(flush))
    \/ Quietly(FinishIngest)
    \/ SendDecay
    \/ Quietly(TickEnds)

MirrorNext ==
    \/ \E ontology \in Parts : Quietly(Learn(ontology))
    \/ TickStep
    \/ Decay
    \/ Quietly(TickNoDecay)
    \/ SendFails
    \/ Interrupted
    \/ Interval /\ UNCHANGED neo4j
    \/ \E e \in Edges : Replay(e) /\ UNCHANGED neo4j
    \/ \E decay \in Requests : Ask(decay) \/ SendAsked(decay) \/ AskedFails(decay)

MirrorSpec == MirrorInit /\ [][MirrorNext]_<<vars, neo4j>>

\* The worker's ticks come at an interval and ask for decay (only a request may
\* leave it out), and time passes.
MirrorFairSpec ==
    /\ MirrorSpec
    /\ WF_<<vars, neo4j>>(TickStep)
    /\ WF_<<vars, neo4j>>(Quietly(TickNoDecay))
    /\ SF_<<vars, neo4j>>(Decay)
    /\ WF_<<vars, neo4j>>(Interval /\ UNCHANGED neo4j)

Settled == call = "none" /\ owed = {} /\ pc # "rows"

\* As long as every call has arrived in the order of the tables' changes, and no
\* relation has outlived its row, Neo4j is never behind: it has every relation, at
\* least as strong as the daemon's row.
MirrorKeepsUp ==
    Settled /\ ~apart => \A e \in Edges : mirror[e] >= view.weight[<<e, "daemon">>]

\* PROJECT_STATE.md:94 and 100 say that a repeated relation gains the increment and that
\* Neo4j mirrors it: as long as nothing came between them, the weights are the same.
MirrorAgrees ==
    Settled /\ ~apart => \A e \in Edges : mirror[e] = view.weight[<<e, "daemon">>]

\* What is not learned again is forgotten, its nodes included, however requests, cut
\* ticks and intervals fall: decay is not held off for ever.
Forgets == <>[](/\ \A r \in Rows : durable.weight[r] = 0
                /\ \A n \in Nodes : durable.count[n] = 0)

=============================================================================
