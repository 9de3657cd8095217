--------------------------- MODULE GreedyDecoding ---------------------------
(***************************************************************************)
(* What Exact Cascade promises to its caller, whatever the draft model and *)
(* the transport do: a token log that only ever grows by tokens the        *)
(* FullDepth43 verifier would itself have produced greedily, together with *)
(* a recursive state that always stands for exactly that log.  The log and *)
(* the state move in ONE step: nobody can see one without the other.       *)
(***************************************************************************)
EXTENDS Naturals, Sequences

CONSTANTS
  Native(_),     \* the verifier: its greedy token after a context
  MaxBlock,      \* the longest causal block a round may commit
  MaxSeqLen      \* room for tokens in the recursive state

VARIABLES
  tokens,        \* the tokens shown to the caller
  state          \* the tokens the recursive state has absorbed

gvars == <<tokens, state>>

(* t extends s by at most MaxBlock tokens, each of them the verifier's own. *)
GreedyExtension(s, t) ==
  /\ Len(t) \in (Len(s) + 1)..(Len(s) + MaxBlock)
  /\ Len(t) <= MaxSeqLen
  /\ SubSeq(t, 1, Len(s)) = s
  /\ \A i \in (Len(s) + 1)..Len(t) : t[i] = Native(SubSeq(t, 1, i - 1))

GInit == state = tokens

Commit ==
  /\ GreedyExtension(tokens, tokens')
  /\ state' = tokens'

GSpec == GInit /\ [][Commit]_gvars
=============================================================================
