--------------------------- MODULE MCSynapseMirror ---------------------------
EXTENDS SynapseMirrorProofs

MCNodes == {"a", "b"}
MCEdges == {<<"a", "b">>}
MCRequests == {[keep |-> 100, threshold |-> 3]}
=============================================================================
