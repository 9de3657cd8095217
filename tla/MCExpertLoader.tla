--------------------------- MODULE MCExpertLoader ---------------------------
(* Three slots behind a ring of two staging buffers: a batch of three pages  *)
(* needs two waves and the whole pool, and one of four pages is refused.     *)
EXTENDS ExpertLoader
CONSTANTS a, b, c, d

MCKey == {a, b, c, d}
MCBatches == {<<a, b, c>>, <<d, a, d>>, <<a, b, c, d>>}
=============================================================================
