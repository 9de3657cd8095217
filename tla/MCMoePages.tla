----------------------------- MODULE MCMoePages -----------------------------
(* Two tickets over two top-2 routes of one layer, which overlap in one      *)
(* routed expert and share the layer's shared expert, and a pool owner that  *)
(* loads a page of the first route and pages of another layer.  A routed     *)
(* pool of three slots and a shared pool of one make any two batches         *)
(* compete, and the other layer's pages and theirs evict each other.         *)
EXTENDS MoePages, TLC
CONSTANTS a, b, c, d, h0, h1, t1, t2

MCKey == {a, b, c, d, h0, h1}
MCTickets == {t1, t2}
MCRoutes ==
  {[experts |-> <<a, b>>, shared |-> h0], [experts |-> <<b, c>>, shared |-> h0]}
MCOwnerKeys == [routed |-> {a, d}, shared |-> {h1}]
MCSymmetry == Permutations(MCTickets)
=============================================================================
