----------------------------- MODULE MCRangeCache -----------------------------
(* Two ranges of two bytes and two threads; the second process may have       *)
(* other locks and other rights than the first.                               *)
EXTENDS RangeCache, TLC
CONSTANTS k1, k2, w1, w2

MCKeys == {k1, k2}
MCThreads == {w1, w2}
Symmetry == Permutations(MCKeys) \cup Permutations(MCThreads)
=============================================================================
