----------------------------- MODULE S14Profile -----------------------------
(* What the two bridges of the single-token runner have in common: the       *)
(* layers of the profile, numbered 1..Layers in the order of SELECTED_LAYERS *)
(* (scheduler/s14_runner/src/contract.rs), and the token ids.                *)
EXTENDS Naturals

CONSTANTS
  Layers,      \* how many layers SELECTED_LAYERS names
  Tokens,      \* input token ids
  NoToken      \* None of active_token_id

ASSUME ProfileAssumption == Layers \in Nat \ {0} /\ NoToken \notin Tokens
=============================================================================
