------------------------------ MODULE S14Runner ------------------------------
(***************************************************************************)
(* LocalS14Runner (scheduler/s14_runner/src/runner.rs) between the range   *)
(* bridge, which loads pages, and the executor bridge, which computes:     *)
(* step runs one token through the selected layers, two phases per layer,  *)
(* and returns a token only when everything succeeded.  A step that fails  *)
(* anywhere leaves the recursive state poisoned; the caller may take the   *)
(* provider out of the runner and go on with a fresh state and executor.   *)
(***************************************************************************)
EXTENDS RangeBridge, ExecutorBridge

CONSTANTS
  MaxSeqLen,   \* NativeState.max_seq_len
  MaxSteps     \* bound on the calls of step

ASSUME RunnerAssumption == MaxSeqLen \in Nat /\ MaxSteps \in Nat

VARIABLES
  pc,          \* where the runner is in step, or "idle" between calls
  layer,       \* layer being executed
  token,       \* input_token_id
  failed,      \* execute_selected_layer is cleaning up after an error
  state,       \* NativeState, and how much of what is in the executor's
               \* arena belongs to tokens that were committed
  heads,       \* the final artifacts the logits are computed from
  first_id,    \* the bridge's next request id when the step began
  steps

runner == <<pc, layer, token, failed, state, heads, first_id, steps>>
vars   == <<bridge, native, runner>>

FreshState == [position |-> 0, poisoned |-> FALSE, committed |-> 0]

-----------------------------------------------------------------------------
(* Ways out of step *)

(* Mutation: an error does not poison the state. *)
StepErr_Reusable ==
  /\ pc' = "idle"
  /\ failed' = FALSE
  /\ UNCHANGED <<layer, token, state, heads, first_id, steps>>

StepErr ==
  /\ pc' = "idle"
  /\ failed' = FALSE
  /\ state' = [state EXCEPT !.poisoned = TRUE]
  /\ UNCHANGED <<layer, token, heads, first_id, steps>>

GoTo(next) ==
  /\ pc' = next
  /\ UNCHANGED <<layer, token, failed, state, heads, first_id, steps>>

(* An error after the base load began: the layer is released first. *)
CleanUp ==
  /\ pc' = "release"
  /\ failed' = TRUE
  /\ UNCHANGED <<layer, token, state, heads, first_id, steps>>

(* An error of an operation of the executor poisons the state at once. *)
OperatorErr ==
  /\ pc' = "release"
  /\ failed' = TRUE
  /\ state' = [state EXCEPT !.poisoned = TRUE]
  /\ UNCHANGED <<layer, token, heads, first_id, steps>>

-----------------------------------------------------------------------------
(* step *)

StepBegins(t) ==
  /\ pc = "idle"
  /\ steps < MaxSteps
  /\ ~state.poisoned
  /\ state.position < MaxSeqLen
  /\ pc' = "begin_base"
  /\ layer' = 1
  /\ token' = t
  /\ steps' = steps + 1
  /\ first_id' = provider.next_id
  /\ heads' = NoFinals
  /\ UNCHANGED <<bridge, native, failed, state>>

BeginsBase ==
  /\ pc = "begin_base"
  /\ \/ BeginBaseLoad(layer, token) /\ GoTo("wait_base")
     \/ BeginBaseLoadErr(layer, token) /\ StepErr
  /\ UNCHANGED native

WaitsBase ==
  /\ pc = "wait_base"
  /\ \/ WaitBaseReady /\ GoTo(IF layer = 1 THEN "embed" ELSE "attention")
     \/ WaitBaseReadyErr /\ CleanUp
  /\ UNCHANGED native

(* One operation of the executor, begun and awaited. *)
Begins(op, next) ==
  /\ \/ Call(op, layer, token, state.position) /\ GoTo(next)
     \/ CallErr /\ OperatorErr
  /\ UNCHANGED bridge
Ends(op, next) ==
  /\ \/ Return(op, token, state.position) /\ GoTo(next)
     \/ ReturnErr /\ OperatorErr
  /\ UNCHANGED bridge

Embeds        == pc = "embed" /\ Begins("embed_row", "embedding")
Embedded      == pc = "embedding" /\ Ends("embed_row", "attention")
Attends       == pc = "attention" /\ Begins("attention_then_route", "attending")
Attended      == pc = "attending" /\ Ends("attention_then_route", "begin_routed")

BeginsRouted ==
  /\ pc = "begin_routed"
  /\ \/ BeginRoutedLoad(layer) /\ GoTo("wait_routed")
     \/ BeginRoutedLoadErr(layer) /\ CleanUp
  /\ UNCHANGED native

WaitsRouted ==
  /\ pc = "wait_routed"
  /\ \/ WaitRoutedReady /\ GoTo("moe")
     \/ WaitRoutedReadyErr /\ CleanUp
  /\ UNCHANGED native

RunsMoe       == pc = "moe" /\ Begins("moe_then_hc_post", "in_moe")
RanMoe        == pc = "in_moe" /\ Ends("moe_then_hc_post", "release")

Releases ==
  /\ pc = "release"
  /\ \/ ReleaseBegins(layer) /\ GoTo("releasing")
     \/ ReleaseBeginsErr(layer) /\ StepErr
  /\ UNCHANGED native

AfterRelease ==
  IF failed THEN StepErr
  ELSE /\ pc' = IF layer < Layers THEN "begin_base" ELSE "take"
       /\ layer' = IF layer < Layers THEN layer + 1 ELSE layer
       /\ UNCHANGED <<token, failed, state, heads, first_id, steps>>

WaitsReleased ==
  /\ pc = "releasing"
  /\ \/ ReleaseEnds(layer) /\ AfterRelease
     \/ ReleaseEndsErr(layer) /\ StepErr
  /\ UNCHANGED native

Takes ==
  /\ pc = "take"
  /\ \/ /\ TakeFinalArtifacts
        /\ heads' = provider.finals
        /\ pc' = "head"
        /\ UNCHANGED <<layer, token, failed, state, first_id, steps>>
     \/ TakeFinalArtifactsErr /\ StepErr
  /\ UNCHANGED native

CallsHead ==
  /\ pc = "head"
  /\ \/ Call("hc_head", layer, token, state.position) /\ GoTo("in_head")
     \/ CallErr /\ StepErr
  /\ UNCHANGED bridge

(* The head only reads the state; the argmax may still refuse its logits. *)
Commits ==
  /\ pc = "in_head"
  /\ Return("hc_head", token, state.position)
  /\ pc' = "idle"
  /\ state' = [state EXCEPT !.position = @ + 1, !.committed = Len(arena.absorbed)]
  /\ UNCHANGED <<bridge, layer, token, failed, heads, first_id, steps>>

HeadErr ==
  /\ pc = "in_head"
  /\ Return("hc_head", token, state.position) \/ ReturnErr
  /\ StepErr
  /\ UNCHANGED bridge

-----------------------------------------------------------------------------
(* The caller *)

(* into_parts, and a new runner around the same provider.  The executor is
   replaced: its arena is the recursive state, and it keeps no link to the
   NativeState it was used with. *)
Rebuilds ==
  /\ pc = "idle"
  /\ state.poisoned
  /\ state' = FreshState
  /\ Spawn
  /\ UNCHANGED <<bridge, pc, layer, token, failed, heads, first_id, steps>>

Drops ==
  /\ pc = "idle"
  /\ pc' = "dropped"
  /\ DropProvider
  /\ Kill
  /\ UNCHANGED <<layer, token, failed, state, heads, first_id, steps>>

Worker == WorkerNext /\ UNCHANGED <<native, runner>>
Peer   == PeerNext /\ UNCHANGED <<bridge, runner>>

Init ==
  /\ BridgeInit
  /\ ExecutorInit
  /\ pc = "idle"
  /\ layer = 1
  /\ token = NoToken
  /\ failed = FALSE
  /\ state = FreshState
  /\ heads = NoFinals
  /\ first_id = 0
  /\ steps = 0

InStep ==
  \/ BeginsBase
  \/ WaitsBase
  \/ Embeds
  \/ Embedded
  \/ Attends
  \/ Attended
  \/ BeginsRouted
  \/ WaitsRouted
  \/ RunsMoe
  \/ RanMoe
  \/ Releases
  \/ WaitsReleased
  \/ Takes
  \/ CallsHead
  \/ Commits
  \/ HeadErr

Next ==
  \/ \E t \in Tokens : StepBegins(t)
  \/ InStep
  \/ Rebuilds
  \/ Drops
  \/ Worker
  \/ Peer

Spec == Init /\ [][Next]_vars

(* The thread that called step runs it; nothing is asked of the processes. *)
FairSpec == Spec /\ WF_vars(InStep)

-----------------------------------------------------------------------------
(* Correctness *)

TypeOK ==
  /\ provider.base \in 0..Layers
  /\ provider.routed \in 0..Layers
  /\ provider.live \in 0..Layers
  /\ provider.token \in Tokens \cup {NoToken}
  /\ provider.finals \in 0..(provider.next_id - 1)
  /\ session \in Session \cup {NoSession}
  /\ Len(requests) <= 1
  /\ layer \in 1..Layers
  /\ executor.active \in {<< >>} \cup ((0..MaxSeqLen) \X Tokens)
  /\ executor.layer \in 0..Layers
  /\ executor.route \in BOOLEAN /\ executor.poisoned \in BOOLEAN
  /\ Len(calls) <= 1
  /\ state.position \in 0..MaxSeqLen
  /\ state.committed \in 0..Len(arena.absorbed)
  /\ pc = "dropped" => provider.poisoned /\ ~worker.alive /\ ~peer.alive

(* A state that step accepts has absorbed whole tokens only: no step that   *)
(* failed half way, at whatever point, can be continued or retried.         *)
WholeTokens == pc = "idle" /\ ~state.poisoned => Len(arena.absorbed) = state.committed

(* A token is committed only when its embedding, and every layer's attention *)
(* and experts, were done in the arena once each and in order, and its       *)
(* logits come from final artifacts delivered during the same step.          *)
Done(op, l) == [op |-> op, layer |-> l, token |-> token]
LayerOps(l) == <<Done("attention_then_route", l), Done("moe_then_hc_post", l)>>
WholePass ==
  [i \in 1..(2 * Layers + 1) |->
     IF i = 1 THEN Done("embed_row", 1) ELSE LayerOps(i \div 2)[1 + (i % 2)]]
CommitIsWholePass ==
  [][state'.position = state.position + 1 =>
       /\ SubSeq(arena.absorbed, state.committed + 1, Len(arena.absorbed)) = WholePass
       /\ heads >= first_id]_vars

(* A state that step accepts comes with an executor that accepts it: neither *)
(* poisoned nor in the middle of a token, and no process writes its arena.   *)
ReadyForNextToken ==
  pc = "idle" /\ ~state.poisoned =>
    /\ ~executor.poisoned
    /\ InOrder("embed_row", 1, token, state.position)
    /\ calls = << >>

(* Whenever nothing is under way between them, the provider and the worker's *)
(* session agree on the layer that is live and on how far it is loaded.      *)
Quiet == requests = << >> /\ responses = << >> /\ Writable
BridgeAgrees ==
  Quiet /\ pc # "releasing" =>
    IF provider.live # NoLayer
    THEN /\ InPhase({IF provider.ready THEN "layer_ready" ELSE "base_ready"})
         /\ session.layer = provider.live
         /\ session.token = provider.token
    ELSE session = NoSession \/ InPhase({"awaiting_layer", "complete"})

(* When step has returned, the layer is released: a provider that is still   *)
(* usable, with a worker that is still there, holds no layer and no ticket.  *)
LeaseReleasedOrGone == pc = "idle" /\ Writable => Free

(* The same, for every provider that still takes calls: "success, operator   *)
(* failure and transfer failure must all release the current lease".         *)
LeaseReleased == pc = "idle" /\ ~provider.poisoned => Free

(* step returns whatever the two processes do: one that hangs is timed out.  *)
StepReturns == pc \notin {"idle", "dropped"} ~> pc = "idle"
=============================================================================
