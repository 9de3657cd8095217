--------------------------- MODULE MCExactCascade ---------------------------
(* Two tokens, a prompt of one token, blocks of one and four tokens: drafts  *)
(* agree with the verifier on every possible prefix, and a block that is cut *)
(* short still leaves room for a round of the other size.                    *)
EXTENDS ExactCascade

MCBlockSizes == {1, 4}
MCPrompts == {<<1>>}
(* A model whose next token depends on the whole context, so that a token    *)
(* verified after another draft prefix is a different token.                 *)
MCNative(c) == IF c = <<>> THEN 1 ELSE (c[Len(c)] + Len(c) + c[1]) % VocabSize
Sound == {FALSE}
=============================================================================
