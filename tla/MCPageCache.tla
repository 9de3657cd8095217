----------------------------- MODULE MCPageCache -----------------------------
(* Pages of two, three, four and seven bytes, of two tensors each, in two     *)
(* files, and room for six bytes: two pages at most, one that never fits, and *)
(* a third that needs one victim or two, as the order has it.  The tensors of *)
(* e1 and of e4 lie next to each other, those of e2 in two files where the    *)
(* second begins at the offset at which the first ends, those of e3 around a  *)
(* hole.                                                                      *)
EXTENDS PageCache
CONSTANTS e1, e2, e3, e4, t1, t2

T(pg, c, f, o, n) == [page |-> pg, component |-> c, file |-> f, offset |-> o, length |-> n]
MCTensors ==
  {T(e1, "w1", 1, 0, 1), T(e1, "w2", 1, 1, 1),
   T(e2, "w1", 1, 2, 2), T(e2, "w2", 2, 4, 1),
   T(e3, "w1", 2, 0, 3), T(e3, "w2", 2, 5, 1),
   T(e4, "w1", 2, 6, 3), T(e4, "w2", 2, 9, 4)}
MCFileSize == <<4, 13>>
MCThreads == {t1, t2}
MCPrefetches == {<<e1, e3>>}
=============================================================================
