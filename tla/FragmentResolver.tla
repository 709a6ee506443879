--------------------------- MODULE FragmentResolver ---------------------------
(***************************************************************************)
(* services/hybrid_network_manager.py: a request asks the signaling        *)
(* providers who may hold a fragment of the graph, asks the best hints one *)
(* after the other through the transports that can, and verifies what      *)
(* arrives.  Requests run concurrently, and share peer_trust.json, which   *)
(* the verification of a contradiction writes (PeerTrust).                 *)
(*                                                                         *)
(* A hint is the peer and concept it is about (its key), its score, how    *)
(* the peer wants to be asked, and whether it names an endpoint.  `p2p'    *)
(* stands for p2p, libp2p, edge and webrtc.  What a provider answers, what *)
(* arrives and what is found in it are inputs.                             *)
(***************************************************************************)
EXTENDS PeerTrust, FiniteSets

CONSTANTS
    Hints,             \* what a provider may offer
    Offers,            \* what they may offer together
    Transports,        \* payload_transports
    Place,             \* where in that list each of them is
    Http,              \* the ones whose name begins with http
    FallbackToServer,  \* fallback_to_server_payload
    MaxHints,          \* 8
    None               \* no hint

ASSUME FragmentResolverAssumption ==
    /\ IsFiniteSet(Hints)
    /\ \A h \in Hints : /\ h.score \in Nat
                        /\ h.via \in {"p2p", "http", "server"}
                        /\ h.endpoint \in BOOLEAN
    /\ Offers \subseteq SUBSET Hints
    /\ IsFiniteSet(Transports)
    /\ Http \subseteq Transports
    /\ Place \in [Transports -> Nat]
    /\ \A t, u \in Transports : Place[t] = Place[u] => t = u
    /\ FallbackToServer \in BOOLEAN
    /\ MaxHints \in Nat
    /\ None \notin Hints

VARIABLES
    pc,            \* where each request is
    offered,       \* history: the hints that the providers offered it
    pending,       \* the hints it has yet to ask
    current,       \* the hint it asks
    untried,       \* the transports it has not tried for that hint
    tried,         \* history: the hints and transports it has tried
    fragments,     \* the hints that gave it a fragment
    failed         \* the hints that did not

resolver == <<pc, offered, pending, current, untried, tried, fragments, failed>>
vars == <<resolver, trust>>

TypeOK ==
    /\ TrustTypeOK
    /\ pc \in [Requests -> {"idle", "raised", "ready", "asking", "lowering", "answered"}]
    /\ offered \in [Requests -> SUBSET Hints]
    /\ pending \in [Requests -> SUBSET Hints]
    /\ current \in [Requests -> Hints \cup {None}]
    /\ untried \in [Requests -> SUBSET Transports]
    /\ tried \in [Requests -> SUBSET (Hints \X Transports)]
    /\ fragments \in [Requests -> SUBSET Hints]
    /\ failed \in [Requests -> SUBSET Hints]

Init ==
    /\ TrustInit
    /\ pc = [r \in Requests |-> "idle"]
    /\ offered = [r \in Requests |-> {}]
    /\ pending = [r \in Requests |-> {}]
    /\ current = [r \in Requests |-> None]
    /\ untried = [r \in Requests |-> {}]
    /\ tried = [r \in Requests |-> {}]
    /\ fragments = [r \in Requests |-> {}]
    /\ failed = [r \in Requests |-> {}]

-----------------------------------------------------------------------------
(* Which hints are asked, and through which transports. *)

\* Mutant: the hint of a peer that came first is kept.
AnyOfKey(found) ==
    {best \in SUBSET found :
        /\ \A h \in found : \E g \in best : g.key = h.key
        /\ \A g, h \in best : g.key = h.key => g = h}

\* One hint of every peer and concept: none of them has a better one.
Deduped(found) ==
    {best \in SUBSET found :
        /\ \A h \in found : \E g \in best : g.key = h.key
        /\ \A g \in best, h \in found : g.key = h.key => h.score <= g.score
        /\ \A g, h \in best : g.key = h.key => g = h}

\* The best MaxHints of them.
Cut(best) ==
    {some \in SUBSET best :
        /\ \/ some = best /\ Cardinality(best) <= MaxHints
           \/ Cardinality(some) = MaxHints
        /\ \A g \in some, h \in best \ some : h.score <= g.score}

CanHandle(t, h) ==
    IF t \in Http
    THEN h.endpoint /\ (h.via = "server" => FallbackToServer)
    ELSE h.via = "p2p"

Usable(h) == {t \in Transports : CanHandle(t, h)}

\* What the peer asks for comes first.
Preferred(t, h) == (t \in Http) <=> (h.via \in {"http", "server"})

\* sorted() keeps the order of the list among equals.
Before(t, u, h) ==
    \/ Preferred(t, h) /\ ~Preferred(u, h)
    \/ (Preferred(t, h) <=> Preferred(u, h)) /\ Place[t] < Place[u]

Asked(r) == fragments[r] \cup failed[r] \cup ({current[r]} \ {None})

-----------------------------------------------------------------------------
(* resolve_cloud_knowledge. *)

\* discover_peer_hints: what is offered and fresh now, dedupe, and hints[:8].  A
\* provider whose discover_peers raises offers nothing.
Discover(r) ==
    /\ pc[r] = "idle"
    /\ pc' = [pc EXCEPT ![r] = "ready"]
    /\ \E found \in Offers : \E best \in Deduped(found) : \E some \in Cut(best) :
          /\ offered' = [offered EXCEPT ![r] = found]
          /\ pending' = [pending EXCEPT ![r] = some]
    /\ UNCHANGED <<current, untried, tried, fragments, failed, trust>>

\* A provider without discover_peers is asked in the old way inside the handler of
\* the AttributeError, and what that raises nobody catches: no answer.
DiscoverRaises(r) ==
    /\ pc[r] = "idle"
    /\ pc' = [pc EXCEPT ![r] = "raised"]
    /\ UNCHANGED <<offered, pending, current, untried, tried, fragments, failed, trust>>

Ask(r, h) ==
    /\ pc[r] = "ready"
    /\ h \in pending[r]
    /\ \A g \in pending[r] : g.score <= h.score
    /\ pending' = [pending EXCEPT ![r] = @ \ {h}]
    /\ current' = [current EXCEPT ![r] = h]
    /\ untried' = [untried EXCEPT ![r] = Usable(h)]
    /\ pc' = [pc EXCEPT ![r] = "asking"]
    /\ UNCHANGED <<offered, tried, fragments, failed, trust>>

\* The next transport in _ordered_transports is t.
Try(r, t) ==
    /\ pc[r] = "asking"
    /\ t \in untried[r]
    /\ \A u \in untried[r] : ~Before(u, t, current[r])
    /\ tried' = [tried EXCEPT ![r] = @ \cup {<<current[r], t>>}]

\* Mutant: a failure of one transport is the failure of the peer.
FetchFailsPeer(r, t) ==
    /\ Try(r, t)
    /\ untried' = [untried EXCEPT ![r] = {}]
    /\ UNCHANGED <<pc, offered, pending, current, fragments, failed, trust>>

\* Nothing arrives in time, it is not valid, or its verification raises; what the
\* thread of a fetch brings after its time goes nowhere.
FetchFails(r, t) ==
    /\ Try(r, t)
    /\ untried' = [untried EXCEPT ![r] = @ \ {t}]
    /\ UNCHANGED <<pc, offered, pending, current, fragments, failed, trust>>

\* A fragment that contradicts nothing: no other transport is tried.
Accept(r, t) ==
    /\ Try(r, t)
    /\ fragments' = [fragments EXCEPT ![r] = @ \cup {current[r]}]
    /\ current' = [current EXCEPT ![r] = None]
    /\ untried' = [untried EXCEPT ![r] = {}]
    /\ pc' = [pc EXCEPT ![r] = "ready"]
    /\ UNCHANGED <<offered, pending, failed, trust>>

\* A fragment from p that contradicts the graph: its trust is lowered first.
Contradict(r, t, p) ==
    /\ Try(r, t)
    /\ Reject(r, p)
    /\ untried' = [untried EXCEPT ![r] = @ \ {t}]
    /\ pc' = [pc EXCEPT ![r] = "lowering"]
    /\ UNCHANGED <<offered, pending, current, fragments, failed>>

\* The same, but the file of the trusts cannot even be decoded.
ContradictRaises(r, t, p) ==
    /\ Try(r, t)
    /\ RejectRaises(r, p)
    /\ untried' = [untried EXCEPT ![r] = @ \ {t}]
    /\ UNCHANGED <<pc, offered, pending, current, fragments, failed>>

Lowering(r) ==
    /\ Open(r) \/ Write(r)
    /\ UNCHANGED resolver

\* Whether or not that succeeds the fragment is blocked, and the next transport
\* gets its turn.
Block(r) ==
    /\ Replace(r) \/ ReplaceFails(r) \/ DiskFails(r)
    /\ pc' = [pc EXCEPT ![r] = "asking"]
    /\ UNCHANGED <<offered, pending, current, untried, tried, fragments, failed>>

\* Mutant: a peer that failed is asked again in the end.
AskAgain(r) ==
    /\ pc[r] = "asking"
    /\ untried[r] = {}
    /\ pending' = [pending EXCEPT ![r] = @ \cup {current[r]}]
    /\ current' = [current EXCEPT ![r] = None]
    /\ pc' = [pc EXCEPT ![r] = "ready"]
    /\ UNCHANGED <<offered, untried, tried, fragments, failed, trust>>

\* The loop's else: no transport is left.
GiveUp(r) ==
    /\ pc[r] = "asking"
    /\ untried[r] = {}
    /\ failed' = [failed EXCEPT ![r] = @ \cup {current[r]}]
    /\ current' = [current EXCEPT ![r] = None]
    /\ pc' = [pc EXCEPT ![r] = "ready"]
    /\ UNCHANGED <<offered, pending, untried, tried, fragments, trust>>

\* "completed" with a fragment, "degraded" without.
Answer(r) ==
    /\ pc[r] = "ready"
    /\ pending[r] = {}
    /\ pc' = [pc EXCEPT ![r] = "answered"]
    /\ UNCHANGED <<offered, pending, current, untried, tried, fragments, failed, trust>>

Step(r) ==
    \/ \E h \in Hints : Ask(r, h)
    \/ \E t \in Transports : FetchFails(r, t)
    \/ \E t \in Transports : Accept(r, t)
    \/ \E t \in Transports, p \in Peers : Contradict(r, t, p) \/ ContradictRaises(r, t, p)
    \/ Lowering(r)
    \/ Block(r)
    \/ GiveUp(r)
    \/ Answer(r)

Next == \E r \in Requests : Discover(r) \/ DiscoverRaises(r) \/ Step(r)

\* A request that has begun goes on: every wait in it has a time limit.
Spec == Init /\ [][Next]_vars /\ \A r \in Requests : WF_vars(Step(r))

-----------------------------------------------------------------------------
\* The hints that it asks sooner or later.
Kept(r) == Asked(r) \cup pending[r]

KeepsBest(r) ==
    \A h \in offered[r] :
        \/ \E g \in Kept(r) : g.key = h.key /\ h.score <= g.score
        \/ Cardinality(Kept(r)) = MaxHints /\ \A g \in Kept(r) : h.score <= g.score

InOrder(r) ==
    /\ \A g \in Asked(r), h \in pending[r] : h.score <= g.score
    /\ \A g, h \in Kept(r) : g.key = h.key => g = h
    /\ Cardinality(Kept(r)) <= MaxHints

\* Whatever several providers offer about the same peer, its best offer is the one
\* that is asked, unless MaxHints others are at least as good; one for each peer
\* and concept, the better ones first.  No hint gets lost between the transports.
BestFirst == \A r \in Requests : InOrder(r) /\ KeepsBest(r)

AllTried(r) ==
    /\ \A h \in failed[r] : \A t \in Usable(h) : <<h, t>> \in tried[r]
    /\ \A h \in Hints : \A t, u \in Usable(h) :
          <<h, t>> \in tried[r] /\ Before(u, t, h) => <<h, u>> \in tried[r]

\* A peer fails only when every transport that can ask it has been tried, the ones
\* it prefers first (docs/CLOUD_BRAIN_ARCHITECTURE.md:141: a failed P2P transfer
\* falls back to the HTTP endpoint), a contradiction or a full disk on the way
\* there or not.
FallsBack == \A r \in Requests : AllTried(r)

\* Every request whose discovery ended is answered, whatever the peers and the disk
\* do.  One whose discovery raised never is (DiscoverRaises).
Answers ==
    \A r \in Requests : pc[r] = "ready" ~> pc[r] = "answered"
=============================================================================
