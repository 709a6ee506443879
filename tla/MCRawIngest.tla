----------------------------- MODULE MCRawIngest -----------------------------
(* Model-checking instances of RawIngest. *)
EXTENDS RawIngestProofs

CONSTANTS d1, d2

OneDoc == {d1}
TwoDocs == {d1, d2}

=============================================================================
