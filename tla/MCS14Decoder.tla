---------------------------- MODULE MCS14Decoder ----------------------------
(* Two layers of three experts, routes of two, two attempts, a cache that is  *)
(* empty or holds everything but the experts, and budgets that run out in the *)
(* first layer, at an expert of the second, or never.                         *)
EXTENDS S14Decoder
CONSTANTS x1, x2, x3

MCExperts == {x1, x2, x3}
MCNative(h) == (Len(h) + h[Len(h)]) % 3
MCWarm ==
  {{}, {Embedding(t) : t \in Tokens} \cup {Final}
         \cup UNION {{Base(l), Shared(l)} : l \in 1..Layers}}
=============================================================================
