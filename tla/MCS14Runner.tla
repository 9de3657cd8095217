----------------------------- MODULE MCS14Runner -----------------------------
(* Three layers: a first, a middle and a last one.  Three steps of two       *)
(* tokens reach a step after a failed one, on the same provider, and a       *)
(* second token after a first that was committed.                            *)
EXTENDS S14Runner
CONSTANTS t1, t2

MCTokens == {t1, t2}
=============================================================================
