-------------------------- MODULE MCFragmentResolver --------------------------
\* Four hints about three peers, one more than MaxHints: the first peer is offered
\* twice, as p2p with an endpoint to fall back to (the one hint that both transports
\* can ask) and, with a lower score, as a server; the third names no endpoint.
EXTENDS FragmentResolverProofs

MCPeers == {"p1", "p2"}

\* Enough that the last contradiction finds what two threads left who were at the
\* file together, and enough for p1 to lose all trust.
MCMaxRejections == [p \in MCPeers |-> IF p = "p1" THEN 2 ELSE 1]

Hint(key, score, via, endpoint) ==
    [key |-> key, score |-> score, via |-> via, endpoint |-> endpoint]

Both == Hint("x", 2, "p2p", TRUE)
Again == Hint("x", 1, "server", TRUE)
Web == Hint("y", 1, "http", TRUE)
Nowhere == Hint("z", 2, "server", FALSE)

MCHints == {Both, Again, Web, Nowhere}

MCOffers == {{}, {Both, Again, Web}, {Again, Nowhere}, MCHints}

MCTransports == {"legacy_p2p_payload", "http_fragment_payload"}

MCPlace == [t \in MCTransports |-> IF t = "legacy_p2p_payload" THEN 1 ELSE 2]

MCHttp == {"http_fragment_payload"}
=============================================================================
