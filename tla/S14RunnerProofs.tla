--------------------------- MODULE S14RunnerProofs ---------------------------
(***************************************************************************)
(* Proofs about S14Runner for every number of layers, every set of tokens  *)
(* and every bound: whatever the two processes do, a state that the runner *)
(* goes on with stands for whole tokens, its executor is ready for the     *)
(* next one, and no layer stays leased.                                    *)
(***************************************************************************)
EXTENDS S14Runner, SequenceTheorems, TLAPS

-----------------------------------------------------------------------------
(* Types *)

Locations ==
  {"idle", "begin_base", "wait_base", "embed", "embedding", "attention", "attending",
   "begin_routed", "wait_routed", "moe", "in_moe", "release", "releasing", "take", "head",
   "in_head", "dropped"}

TokenOrNone == Tokens \cup {NoToken}
Op == [op : {"embed_row", "attention_then_route", "moe_then_hc_post", "hc_head"},
       layer : 1..Layers, token : TokenOrNone]

Provider ==
  [base : 0..Layers, routed : 0..Layers, live : 0..Layers, ready : BOOLEAN,
   token : TokenOrNone, finals : Nat, poisoned : BOOLEAN, next_id : Nat \ {0}]
BridgeTypes ==
  /\ provider \in Provider
  /\ worker \in [alive : BOOLEAN, session : Session \cup {NoSession}]

Active == {<< >>} \cup (Nat \X TokenOrNone)
ExecutorTypes ==
  /\ executor \in [active : Active, layer : 0..Layers,
                   route : BOOLEAN, next_id : Nat, poisoned : BOOLEAN]
  /\ arena \in [absorbed : Seq(Op), written : BOOLEAN]

RunnerTypes ==
  /\ pc \in Locations
  /\ layer \in 1..Layers
  /\ token \in TokenOrNone
  /\ failed \in BOOLEAN
  /\ state \in [position : Nat, poisoned : BOOLEAN, committed : Nat]
  /\ heads \in Nat
  /\ first_id \in Nat

(* Where the runner is cleaning up, and where the first and the last layer are. *)
Places ==
  /\ failed => pc \in {"release", "releasing"}
  /\ state.poisoned => failed \/ pc \in {"idle", "dropped"}
  /\ pc \in {"embed", "embedding"} => layer = 1
  /\ pc \in {"take", "head", "in_head"} => layer = Layers

-----------------------------------------------------------------------------
(* The executor's side *)

(* How many operations of WholePass the executor has acknowledged. *)
Acknowledgements ==
  CASE pc \in {"begin_base", "wait_base"}                      -> IF layer = 1 THEN 0 ELSE 2 * layer - 1
    [] pc \in {"attention", "attending"}                       -> 2 * layer - 1
    [] pc \in {"begin_routed", "wait_routed", "moe", "in_moe"} -> 2 * layer
    [] pc \in {"release", "releasing"}                         -> 2 * layer + 1
    [] pc \in {"take", "head", "in_head"}                      -> 2 * Layers + 1
    [] OTHER                                                   -> 0

(* How many its process has done: one that it has not acknowledged yet. *)
Absorbing == {"embedding", "attending", "in_moe"}
Absorptions == IF pc \in Absorbing /\ arena.written THEN Acknowledgements + 1 ELSE Acknowledgements

CallUnderWay ==
  CASE pc = "embedding" -> <<Done("embed_row", layer)>>
    [] pc = "attending" -> <<Done("attention_then_route", layer)>>
    [] pc = "in_moe"    -> <<Done("moe_then_hc_post", layer)>>
    [] pc = "in_head"   -> <<Done("hc_head", layer)>>
    [] OTHER            -> << >>

(* The executor's count of finished layers, and between which operations it
   holds a route. *)
LayersDone ==
  CASE pc \in {"idle", "embed", "embedding"} -> 0
    [] pc \in {"release", "releasing", "take", "head", "in_head"} -> layer
    [] OTHER -> layer - 1
RouteHeld == pc \in {"begin_routed", "wait_routed", "moe", "in_moe"}

ExecutorFollows ==
  /\ ~executor.poisoned
  /\ executor.active = IF Acknowledgements = 0 THEN << >> ELSE <<state.position, token>>
  /\ executor.layer = LayersDone
  /\ executor.route = RouteHeld

ArenaFollows ==
  /\ Len(arena.absorbed) = state.committed + Absorptions
  /\ \A i \in 1..Absorptions : arena.absorbed[state.committed + i] = WholePass[i]

(* As long as nothing has gone wrong, the executor and its arena are where the
   runner takes them to be. *)
InSync ==
  /\ calls = CallUnderWay
  /\ ~failed /\ ~state.poisoned /\ pc # "dropped" => ExecutorFollows /\ ArenaFollows

(* Final artifacts that the runner takes were brought by a request of this step. *)
FinalsAreNew ==
  /\ pc = "begin_base" => first_id <= provider.next_id
  /\ pc \notin {"idle", "dropped", "begin_base"} => first_id < provider.next_id
  /\ pc = "take" => first_id <= provider.finals
  /\ pc \in {"head", "in_head"} => first_id <= heads

-----------------------------------------------------------------------------
(* The bridge's side *)

Loaded == {"embed", "embedding", "attention", "attending", "begin_routed", "wait_routed",
           "moe", "in_moe"}

(* What the provider holds, as long as it is usable. *)
LeaseFollows ==
  /\ provider.base = IF pc = "wait_base" THEN layer ELSE NoLayer
  /\ provider.routed = IF pc = "wait_routed" THEN layer ELSE NoLayer
  /\ provider.live = IF pc \in Loaded \cup {"release", "releasing"} THEN layer ELSE NoLayer
  /\ pc \in Loaded => (provider.ready <=> pc \in {"moe", "in_moe"})
  /\ pc \in Loaded \cup {"wait_base", "release", "releasing"} => provider.token = token

(* What the worker's session must be between two requests. *)
NoLayerHeld ==
  \/ session = NoSession
  \/ session \in Session /\ session.phase \in {"awaiting_layer", "complete"}
SessionFollows ==
  IF provider.live # NoLayer
  THEN /\ session \in Session
       /\ session.phase = IF provider.ready THEN "layer_ready" ELSE "base_ready"
       /\ session.layer = provider.live
       /\ session.token = provider.token
  ELSE NoLayerHeld

(* The request that a waiting runner has written, and what the worker's
   session is once it is handled. *)
Asked ==
  [id |-> provider.next_id - 1, layer |-> layer, token |-> token,
   op |-> CASE pc = "wait_base"   -> "prepare_base"
            [] pc = "wait_routed" -> "prepare_routed"
            [] OTHER              -> ReleaseOp]
SessionReached ==
  CASE pc = "wait_base" -> session = [phase |-> "base_ready", layer |-> layer, token |-> token]
    [] pc = "wait_routed" -> session = [phase |-> "layer_ready", layer |-> layer, token |-> token]
    [] OTHER -> NoLayerHeld

OnlyStray == responses = << >> \/ responses = <<Stray>>

(* The runner waits for one line at a time.  A stray line that is there first
   ends the provider, so that no answer is ever left over. *)
Conversation ==
  IF pc \in {"wait_base", "wait_routed", "releasing"}
  THEN \/ requests = <<Asked>> /\ OnlyStray /\ SessionFollows
       \/ /\ requests = << >> /\ responses # << >>
          /\ Head(responses) = Stray \/ Tail(responses) = << >>
          /\ SessionReached
  ELSE requests = << >> /\ OnlyStray /\ SessionFollows

BridgeFollows == worker.alive => ~provider.poisoned /\ LeaseFollows /\ Conversation

IInv ==
  /\ BridgeTypes /\ ExecutorTypes /\ RunnerTypes
  /\ Places
  /\ InSync
  /\ FinalsAreNew
  /\ BridgeFollows

-----------------------------------------------------------------------------
(* The ways in which an action ends *)

(* Whatever goes wrong, the step is being cleaned up or its state poisoned. *)
LEMMA WaysOut ==
  RunnerTypes /\ (StepErr \/ OperatorErr \/ CleanUp)
    => RunnerTypes' /\ Places' /\ first_id' = first_id /\ (failed' \/ state'.poisoned)
       /\ pc' \in {"idle", "release"}
<1>1. CASE StepErr
  BY <1>1 DEF RunnerTypes, StepErr, Places, Locations
<1>2. CASE OperatorErr \/ CleanUp
  BY <1>2 DEF RunnerTypes, OperatorErr, CleanUp, Places, Locations
<1> QED BY <1>1, <1>2

(* A step of the runner that goes on to the next location changes no other part
   of the runner. *)
LEMMA GoesOn ==
  ASSUME NEW next \in Locations, RunnerTypes, GoTo(next), ~state.poisoned, ~failed,
         next \in {"embed", "embedding"} => layer = 1,
         next \in {"take", "head", "in_head"} => layer = Layers
  PROVE  RunnerTypes' /\ Places' /\ pc' = next /\ UNCHANGED <<layer, token, state, first_id, heads, failed>>
BY DEF RunnerTypes, GoTo, Places

(* Every step keeps the places at which the runner may be. *)
LEMMA RunnerTypesStep ==
  RunnerTypes /\ BridgeTypes /\ ExecutorTypes /\ Places /\ [Next]_vars => RunnerTypes' /\ Places'
<1> SUFFICES ASSUME RunnerTypes, BridgeTypes, ExecutorTypes, Places, [Next]_vars
             PROVE  RunnerTypes' /\ Places'
  OBVIOUS
<1>1. ASSUME NEW t \in Tokens, StepBegins(t)
      PROVE  RunnerTypes' /\ Places'
  BY <1>1, ProfileAssumption
     DEF StepBegins, BridgeTypes, Provider, NoFinals, RunnerTypes, Places, Locations, TokenOrNone
<1>2. CASE BeginsBase
  BY <1>2, WaysOut, GoesOn DEF BeginsBase, Places, Locations
<1>3. CASE WaitsBase
  BY <1>3, WaysOut, GoesOn DEF WaitsBase, Places, Locations
<1>4. ASSUME NEW op, NEW next \in Locations \ {"take", "head", "in_head"},
             Begins(op, next) \/ Ends(op, next),
             ~state.poisoned, ~failed, next = "embedding" => layer = 1, next # "embed"
      PROVE  RunnerTypes' /\ Places'
  BY <1>4, WaysOut, GoesOn DEF Begins, Ends
<1>5. CASE Embeds \/ Embedded \/ Attends \/ Attended \/ RunsMoe \/ RanMoe
  BY <1>4, <1>5 DEF Embeds, Embedded, Attends, Attended, RunsMoe, RanMoe, Places, Locations
<1>6. CASE BeginsRouted
  BY <1>6, WaysOut, GoesOn DEF BeginsRouted, Places, Locations
<1>7. CASE WaitsRouted
  BY <1>7, WaysOut, GoesOn DEF WaitsRouted, Places, Locations
<1>8. CASE Releases
  <2>1. CASE GoTo("releasing")
    BY <1>8, <2>1 DEF Releases, GoTo, RunnerTypes, Places, Locations
  <2> QED BY <1>8, <2>1, WaysOut DEF Releases
<1>9. CASE WaitsReleased
  <2>1. CASE AfterRelease /\ ~failed
    BY <1>9, <2>1, ProfileAssumption
       DEF WaitsReleased, AfterRelease, RunnerTypes, Places, Locations
  <2> QED BY <1>9, <2>1, WaysOut DEF WaitsReleased, AfterRelease
<1>10. CASE Takes
  <2>1. CASE ~StepErr
    BY <1>10, <2>1 DEF Takes, BridgeTypes, Provider, RunnerTypes, Places, Locations
  <2> QED BY <1>10, <2>1, WaysOut
<1>11. CASE CallsHead
  BY <1>11, WaysOut, GoesOn DEF CallsHead, Places, Locations
<1>12. CASE Commits
  <2>1. arena.absorbed \in Seq(Op)
    BY DEF ExecutorTypes
  <2>2. Len(arena.absorbed) \in Nat
    BY <2>1, LenProperties
  <2>3. state' \in [position : Nat, poisoned : BOOLEAN, committed : Nat] /\ ~state'.poisoned
    <3>1. state' = [state EXCEPT !.position = @ + 1, !.committed = Len(arena.absorbed)]
      BY <1>12 DEF Commits
    <3>2. state \in [position : Nat, poisoned : BOOLEAN, committed : Nat] /\ ~state.poisoned
      BY <1>12 DEF Commits, RunnerTypes, Places
    <3>3. state.position + 1 \in Nat
      BY <3>2
    <3> QED BY <2>2, <3>1, <3>2, <3>3
  <2>4. pc' = "idle" /\ UNCHANGED <<layer, token, failed, heads, first_id>> /\ ~failed
    BY <1>12 DEF Commits, Places
  <2> QED BY <2>3, <2>4 DEF RunnerTypes, Places, Locations
<1>13. CASE HeadErr
  BY <1>13, WaysOut DEF HeadErr
<1>14. CASE Rebuilds
  BY <1>14 DEF Rebuilds, FreshState, RunnerTypes, Places
<1>15. CASE Drops
  BY <1>15 DEF Drops, RunnerTypes, Places, Locations
<1>16. CASE Worker \/ Peer \/ UNCHANGED vars
  BY <1>16 DEF Worker, Peer, vars, runner, RunnerTypes, Places
<1> QED
  BY <1>1, <1>2, <1>3, <1>5, <1>6, <1>7, <1>8, <1>9, <1>10, <1>11, <1>12, <1>13, <1>14,
     <1>15, <1>16 DEF Next, InStep

-----------------------------------------------------------------------------
(* The executor and its arena *)

(* The operations of a pass, place by place. *)
LEMMA WholePassAt ==
  /\ Len(WholePass) = 2 * Layers + 1
  /\ WholePass[1] = Done("embed_row", 1)
  /\ \A l \in 1..Layers : /\ WholePass[2 * l] = Done("attention_then_route", l)
                          /\ WholePass[2 * l + 1] = Done("moe_then_hc_post", l)
<1>1. 2 * Layers + 1 \in Nat /\ 1 \in 1..(2 * Layers + 1)
  BY ProfileAssumption
<1>2. Len(WholePass) = 2 * Layers + 1
  <2>1. DOMAIN WholePass = 1..(2 * Layers + 1)
    BY DEF WholePass
  <2> QED BY <1>1, <2>1
<1>3. WholePass[1] = Done("embed_row", 1)
  BY <1>1 DEF WholePass
<1>4. ASSUME NEW l \in 1..Layers
      PROVE  /\ WholePass[2 * l] = Done("attention_then_route", l)
             /\ WholePass[2 * l + 1] = Done("moe_then_hc_post", l)
  <2>1. /\ 2 * l \in 1..(2 * Layers + 1) /\ 2 * l + 1 \in 1..(2 * Layers + 1)
        /\ 2 * l # 1 /\ 2 * l + 1 # 1
    BY ProfileAssumption
  <2>2. /\ (2 * l) \div 2 = l /\ (2 * l) % 2 = 0
        /\ (2 * l + 1) \div 2 = l /\ (2 * l + 1) % 2 = 1
    BY SMT
  <2>3. LayerOps(l)[1] = Done("attention_then_route", l) /\ LayerOps(l)[2] = Done("moe_then_hc_post", l)
    BY DEF LayerOps
  <2> QED BY <2>1, <2>2, <2>3 DEF WholePass
<1> QED BY <1>2, <1>3, <1>4

(* What the arena has absorbed of the token is not touched by a step that
   leaves the token and the arena alone. *)
LEMMA ArenaStays ==
  ASSUME ArenaFollows, arena'.absorbed = arena.absorbed, state'.committed = state.committed,
         token' = token, Absorptions' = Absorptions
  PROVE  ArenaFollows'
BY DEF ArenaFollows, WholePass, LayerOps, Done

(* A step between two operations of the executor. *)
LEMMA ExecutorWaits ==
  ASSUME InSync, UNCHANGED <<native, token, state>>, ~failed, ~state.poisoned, pc # "dropped",
         pc \notin Absorbing, pc' \notin Absorbing,
         Acknowledgements' = Acknowledgements, LayersDone' = LayersDone,
         RouteHeld' = RouteHeld, CallUnderWay' = CallUnderWay
  PROVE  InSync'
<1>1. ExecutorFollows /\ ArenaFollows
  BY DEF InSync
<1>2. ExecutorFollows'
  BY <1>1 DEF ExecutorFollows, native
<1>3. ArenaFollows'
  BY <1>1, ArenaStays DEF native, Absorptions
<1> QED BY <1>2, <1>3 DEF InSync, native

(* Every step keeps the places at which the executor may be. *)
LEMMA ExecutorTypesStep ==
  ExecutorTypes /\ RunnerTypes /\ Places /\ InSync /\ [Next]_vars => ExecutorTypes'
<1> SUFFICES ASSUME ExecutorTypes, RunnerTypes, Places, InSync, [Next]_vars
             PROVE  ExecutorTypes'
  OBVIOUS
<1>1. CASE UNCHANGED native
  BY <1>1 DEF ExecutorTypes, native
<1>2. CASE Kill
  BY <1>2 DEF ExecutorTypes, Kill
<1>3. CASE Spawn
  BY <1>3, ProfileAssumption DEF ExecutorTypes, Spawn, NewExecutor, NewArena, Active
<1>4. ASSUME NEW op, Call(op, layer, token, state.position)
      PROVE  ExecutorTypes'
  <2>1. /\ executor' = [executor EXCEPT !.next_id = @ + 1]
        /\ arena' = [arena EXCEPT !.written = FALSE]
    BY <1>4 DEF Call
  <2>2. executor.next_id + 1 \in Nat
    BY DEF ExecutorTypes
  <2> QED BY <2>1, <2>2 DEF ExecutorTypes
<1>5. ASSUME NEW op \in {"embed_row", "attention_then_route", "hc_head"},
             Return(op, token, state.position)
      PROVE  ExecutorTypes'
  <2>1. <<state.position, token>> \in Active /\ << >> \in Active /\ 0 \in 0..Layers
    BY ProfileAssumption DEF Active, RunnerTypes
  <2> QED BY <1>5, <2>1 DEF ExecutorTypes, Return, Advanced
<1>6. CASE pc = "in_moe" /\ Return("moe_then_hc_post", token, state.position)
  <2>1. executor.layer = layer - 1
    BY <1>6 DEF InSync, Places, ExecutorFollows, LayersDone
  <2>2. executor.layer + 1 \in 0..Layers
    BY <2>1, ProfileAssumption DEF RunnerTypes
  <2> QED BY <1>6, <2>2 DEF ExecutorTypes, Return, Advanced
<1>7. CASE Peer
  <2>1. CASE PeerApplies
    <3>1. Head(calls) \in Op
      BY <2>1 DEF PeerApplies, InSync, CallUnderWay, Done, Op, RunnerTypes
    <3>2. arena.absorbed \in Seq(Op)
      BY DEF ExecutorTypes
    <3>3. Append(arena.absorbed, Head(calls)) \in Seq(Op)
      BY <3>1, <3>2, AppendProperties
    <3> QED BY <2>1, <3>2, <3>3 DEF PeerApplies, ExecutorTypes
  <2> QED BY <1>7, <2>1 DEF Peer, PeerNext, PeerAnswers, PeerDies, ExecutorTypes
<1>8. CASE InStep
  BY <1>1, <1>2, <1>4, <1>5, <1>6, <1>8
     DEF InStep, BeginsBase, WaitsBase, Embeds, Embedded, Attends, Attended, BeginsRouted,
         WaitsRouted, RunsMoe, RanMoe, Releases, WaitsReleased, Takes, CallsHead, Commits,
         HeadErr, Begins, Ends, CallErr, ReturnErr
<1> QED
  BY <1>1, <1>2, <1>3, <1>7, <1>8
     DEF Next, StepBegins, Rebuilds, Drops, Worker, vars

(* An operation is begun: nothing has been absorbed for it yet. *)
LEMMA ExecutorCalls ==
  ASSUME InSync, ExecutorTypes, NEW op, Call(op, layer, token, state.position),
         UNCHANGED <<token, state>>, ~failed, ~state.poisoned, pc # "dropped",
         pc \notin Absorbing,
         Acknowledgements' = Acknowledgements, LayersDone' = LayersDone,
         RouteHeld' = RouteHeld, CallUnderWay' = <<Done(op, layer)>>
  PROVE  InSync'
<1>1. ExecutorFollows /\ ArenaFollows
  BY DEF InSync
<1>2. /\ executor' = [executor EXCEPT !.next_id = @ + 1]
      /\ arena' = [arena EXCEPT !.written = FALSE]
      /\ calls' = <<Done(op, layer)>>
  BY DEF Call, Done
<1>3. ExecutorFollows'
  BY <1>1, <1>2 DEF ExecutorFollows, ExecutorTypes
<1>4. arena'.absorbed = arena.absorbed /\ ~arena'.written
  BY <1>2 DEF ExecutorTypes
<1>5. Absorptions' = Absorptions
  BY <1>4 DEF Absorptions
<1>6. ArenaFollows'
  BY <1>1, <1>4, <1>5, ArenaStays
<1> QED BY <1>2, <1>3, <1>6 DEF InSync

(* An operation is acknowledged: it has been absorbed. *)
LEMMA ExecutorReturns ==
  ASSUME InSync, NEW op, Return(op, token, state.position),
         UNCHANGED <<token, state>>, ~failed, ~state.poisoned, pc # "dropped",
         pc \in Absorbing, pc' \notin Absorbing,
         Acknowledgements' = Acknowledgements + 1, CallUnderWay' = << >>,
         ExecutorFollows'
  PROVE  InSync'
<1>1. ArenaFollows /\ arena.written
  BY DEF InSync, Return, Acknowledged
<1>2. Absorptions' = Absorptions
  BY <1>1 DEF Absorptions
<1>3. ArenaFollows'
  BY <1>1, <1>2, ArenaStays DEF Return
<1> QED BY <1>3 DEF InSync, Return

(* The process does the operation that is under way. *)
LEMMA PeerAbsorbs ==
  ASSUME InSync, ExecutorTypes, RunnerTypes, Places, PeerApplies, UNCHANGED runner
  PROVE  InSync'
<1>1. ~failed /\ ~state.poisoned /\ pc \in Absorbing \cup {"in_head"} /\ UNCHANGED CallUnderWay
  BY DEF InSync, PeerApplies, CallUnderWay, Absorbing, Places, RunnerTypes, Locations, runner, Done
<1>2. ExecutorFollows /\ ArenaFollows /\ calls = CallUnderWay
  BY <1>1 DEF InSync, Absorbing
<1>3. ExecutorFollows' /\ calls' = CallUnderWay'
  BY <1>1, <1>2 DEF ExecutorFollows, PeerApplies, LayersDone, RouteHeld, Acknowledgements, runner
<1>4. CASE pc = "in_head"
  <2>1. arena'.absorbed = arena.absorbed
    BY <1>2, <1>4 DEF PeerApplies, CallUnderWay, Done
  <2>2. Absorptions' = Absorptions
    BY <1>4 DEF Absorptions, Absorbing, Acknowledgements, runner
  <2>3. ArenaFollows'
    BY <1>2, <2>1, <2>2, ArenaStays DEF runner
  <2> QED BY <1>3, <2>3 DEF InSync
<1>5. CASE pc \in Absorbing
  <2>1. PICK call : call = Head(calls)
    OBVIOUS
  <2>2. /\ call \in Op
        /\ call = WholePass[Acknowledgements + 1]
        /\ call.op # "hc_head"
        /\ Acknowledgements \in Nat
    <3>1. CASE pc = "embedding"
      BY <1>2, <2>1, <3>1, WholePassAt
         DEF CallUnderWay, Done, Op, RunnerTypes, Places, Acknowledgements
    <3>2. CASE pc = "attending"
      <4>1. Acknowledgements = 2 * layer - 1 /\ Acknowledgements + 1 = 2 * layer
            /\ Acknowledgements \in Nat
        BY <3>2, ProfileAssumption DEF Acknowledgements, RunnerTypes
      <4>2. call = Done("attention_then_route", layer)
        BY <1>2, <2>1, <3>2 DEF CallUnderWay
      <4>3. WholePass[2 * layer] = Done("attention_then_route", layer)
        BY WholePassAt DEF RunnerTypes
      <4> QED
        BY <4>1, <4>2, <4>3 DEF Done, Op, RunnerTypes
    <3>3. CASE pc = "in_moe"
      <4>1. Acknowledgements = 2 * layer /\ Acknowledgements \in Nat
        BY <3>3, ProfileAssumption DEF Acknowledgements, RunnerTypes
      <4>2. call = Done("moe_then_hc_post", layer)
        BY <1>2, <2>1, <3>3 DEF CallUnderWay
      <4>3. WholePass[2 * layer + 1] = Done("moe_then_hc_post", layer)
        BY WholePassAt DEF RunnerTypes
      <4> QED
        BY <4>1, <4>2, <4>3 DEF Done, Op, RunnerTypes
    <3> QED BY <1>5, <3>1, <3>2, <3>3 DEF Absorbing
  <2>3. /\ arena'.absorbed = Append(arena.absorbed, call)
        /\ arena'.written /\ ~arena.written
    BY <2>1, <2>2 DEF PeerApplies
  <2>4. arena.absorbed \in Seq(Op)
    BY DEF ExecutorTypes
  <2>5. /\ Len(arena'.absorbed) = Len(arena.absorbed) + 1
        /\ arena'.absorbed[Len(arena.absorbed) + 1] = call
        /\ \A i \in 1..Len(arena.absorbed) : arena'.absorbed[i] = arena.absorbed[i]
        /\ Len(arena.absorbed) \in Nat
    BY <2>2, <2>3, <2>4, AppendProperties, LenProperties
  <2>6. /\ Absorptions = Acknowledgements /\ Absorptions' = Acknowledgements + 1
        /\ UNCHANGED <<WholePass, state>>
    BY <1>5, <2>3 DEF Absorptions, Acknowledgements, runner, WholePass, LayerOps, Done
  <2>7. ArenaFollows'
    <3>1. state.committed \in Nat
      BY DEF RunnerTypes
    <3>2. Len(arena.absorbed) = state.committed + Acknowledgements
      BY <1>2, <2>6 DEF ArenaFollows
    <3>3. ASSUME NEW i \in 1..(Acknowledgements + 1)
          PROVE  arena'.absorbed[state.committed + i] = WholePass[i]
      <4>1. CASE i = Acknowledgements + 1
        BY <2>2, <2>5, <3>1, <3>2, <4>1
      <4>2. CASE i # Acknowledgements + 1
        <5>1. i \in 1..Acknowledgements /\ state.committed + i \in 1..Len(arena.absorbed)
          BY <2>2, <3>1, <3>2, <4>2
        <5> QED BY <1>2, <2>5, <2>6, <5>1 DEF ArenaFollows
      <4> QED BY <4>1, <4>2
    <3>4. Len(arena'.absorbed) = state.committed + (Acknowledgements + 1)
      BY <2>2, <2>5, <3>1, <3>2
    <3> QED BY <2>6, <3>3, <3>4 DEF ArenaFollows
  <2> QED BY <1>3, <2>7 DEF InSync
<1> QED BY <1>1, <1>4, <1>5

(* Every step keeps executor and runner in step as long as nothing has gone
   wrong. *)
LEMMA InSyncStep ==
  RunnerTypes /\ ExecutorTypes /\ Places /\ InSync /\ [Next]_vars => InSync'
<1> SUFFICES ASSUME RunnerTypes, ExecutorTypes, Places, InSync, [Next]_vars
             PROVE  InSync'
  OBVIOUS
<1>1. ASSUME NEW t \in Tokens, StepBegins(t)
      PROVE  InSync'
  <2>1. UNCHANGED <<native, failed, state>> /\ pc = "idle" /\ pc' = "begin_base" /\ layer' = 1
        /\ ~state.poisoned /\ ~failed
    BY <1>1 DEF StepBegins, Places
  <2>2. ExecutorFollows /\ ArenaFollows /\ calls = CallUnderWay
    BY <2>1 DEF InSync
  <2>3. /\ Acknowledgements = 0 /\ Acknowledgements' = 0 /\ Absorptions = 0 /\ Absorptions' = 0
        /\ LayersDone = 0 /\ LayersDone' = 0
    BY <2>1 DEF Acknowledgements, Absorptions, Absorbing, LayersDone
  <2>4. ExecutorFollows' /\ calls' = CallUnderWay'
    BY <2>1, <2>2, <2>3 DEF ExecutorFollows, CallUnderWay, RouteHeld, native
  <2>5. ArenaFollows'
    BY <2>1, <2>2, <2>3 DEF ArenaFollows, native
  <2> QED BY <2>4, <2>5 DEF InSync
(* A step that goes wrong leaves nothing to show but an executor without a call. *)
<1>2. ASSUME failed' \/ state'.poisoned, calls' = << >>, pc' \in {"idle", "release"}
      PROVE  InSync'
  BY <1>2 DEF InSync, CallUnderWay
<1>3. ASSUME UNCHANGED native, StepErr \/ OperatorErr \/ CleanUp,
             pc \notin Absorbing \cup {"in_head"}
      PROVE  InSync'
  BY <1>2, <1>3, WaysOut DEF InSync, CallUnderWay, Absorbing, native
<1>4. ASSUME Kill, StepErr \/ OperatorErr \/ CleanUp
      PROVE  InSync'
  BY <1>2, <1>4, WaysOut DEF Kill
<1>5. ASSUME NEW next, GoTo(next), ~failed, ~state.poisoned
      PROVE  UNCHANGED <<token, state, layer, failed>> /\ pc' = next
  BY <1>5 DEF GoTo
<1>6. ASSUME NEW op, NEW next, Begins(op, next), ~GoTo(next) \/ ~Call(op, layer, token, state.position)
       PROVE  InSync'
  BY <1>4, <1>6 DEF Begins, CallErr
<1>7. ASSUME NEW op, NEW next, Ends(op, next), ~GoTo(next) \/ ~Return(op, token, state.position)
       PROVE  InSync'
  BY <1>4, <1>7 DEF Ends, ReturnErr
<1>8. ASSUME CallsHead, ~GoTo("in_head") \/ ~Call("hc_head", layer, token, state.position)
       PROVE  InSync'
  BY <1>4, <1>8 DEF CallsHead, CallErr
<1>9. ASSUME UNCHANGED runner
       PROVE  /\ UNCHANGED <<Acknowledgements, LayersDone, RouteHeld, CallUnderWay, WholePass>>
              /\ UNCHANGED <<pc, state, token, failed>>
  BY <1>9 DEF runner, Acknowledgements, LayersDone, RouteHeld, CallUnderWay, WholePass, LayerOps, Done
<1>10. CASE Peer
  <2>1. CASE PeerApplies
    BY <1>10, <2>1, PeerAbsorbs DEF Peer
  <2>2. CASE PeerAnswers \/ PeerDies
    <3>1. UNCHANGED <<executor, arena, calls>> /\ UNCHANGED runner
      BY <1>10, <2>2 DEF Peer, PeerAnswers, PeerDies
    <3>2. Absorptions' = Absorptions
      BY <1>9, <3>1 DEF Absorptions
    <3> QED BY <1>9, <3>1, <3>2 DEF InSync, ExecutorFollows, ArenaFollows
  <2> QED BY <1>10, <2>1, <2>2 DEF Peer, PeerNext
<1>11. CASE Worker \/ UNCHANGED vars
  <2>1. UNCHANGED <<executor, arena, calls>> /\ UNCHANGED runner
    BY <1>11 DEF Worker, vars, native
  <2>2. Absorptions' = Absorptions
    BY <1>9, <2>1 DEF Absorptions
  <2> QED BY <1>9, <2>1, <2>2 DEF InSync, ExecutorFollows, ArenaFollows
<1> USE DEF Acknowledgements, LayersDone, RouteHeld, CallUnderWay, Absorbing
<1>12. CASE BeginsBase
  <2>1. CASE GoTo("wait_base")
    BY <1>5, <1>12, <2>1, ExecutorWaits DEF BeginsBase, Places
  <2> QED BY <1>3, <1>12, <2>1 DEF BeginsBase
<1>13. CASE WaitsBase
  <2>1. CASE GoTo(IF layer = 1 THEN "embed" ELSE "attention")
    BY <1>5, <1>13, <2>1, ExecutorWaits DEF WaitsBase, Places, RunnerTypes
  <2> QED BY <1>3, <1>13, <2>1 DEF WaitsBase
<1>14. CASE BeginsRouted
  <2>1. CASE GoTo("wait_routed")
    BY <1>5, <1>14, <2>1, ExecutorWaits DEF BeginsRouted, Places
  <2> QED BY <1>3, <1>14, <2>1 DEF BeginsRouted
<1>15. CASE WaitsRouted
  <2>1. CASE GoTo("moe")
    BY <1>5, <1>15, <2>1, ExecutorWaits DEF WaitsRouted, Places
  <2> QED BY <1>3, <1>15, <2>1 DEF WaitsRouted
<1>16. CASE Embeds \/ Attends \/ RunsMoe
  <2>1. ASSUME NEW op, NEW next, Begins(op, next), ~failed, ~state.poisoned, pc # "dropped",
               pc \notin Absorbing, next # pc,
               \/ pc = "embed" /\ op = "embed_row" /\ next = "embedding" /\ layer = 1
               \/ pc = "attention" /\ op = "attention_then_route" /\ next = "attending"
               \/ pc = "moe" /\ op = "moe_then_hc_post" /\ next = "in_moe"
        PROVE  InSync'
    <3>1. CASE Call(op, layer, token, state.position) /\ GoTo(next)
      <4>1. UNCHANGED <<token, state, layer, failed>> /\ pc' = next
        BY <1>5, <2>1, <3>1
      <4>2. /\ Acknowledgements' = Acknowledgements /\ LayersDone' = LayersDone
            /\ RouteHeld' = RouteHeld /\ CallUnderWay' = <<Done(op, layer)>>
        BY <2>1, <4>1 DEF Done
      <4> HIDE DEF Acknowledgements, LayersDone, RouteHeld, CallUnderWay
      <4> QED BY <2>1, <3>1, <4>1, <4>2, ExecutorCalls
    <3> QED BY <1>6, <2>1, <3>1
  <2> QED BY <1>16, <2>1 DEF Embeds, Attends, RunsMoe, Places
<1>17. CASE CallsHead
  <2>1. CASE Call("hc_head", layer, token, state.position) /\ GoTo("in_head")
    <3>1. UNCHANGED <<token, state, layer, failed>> /\ pc' = "in_head" /\ pc = "head"
          /\ ~failed /\ ~state.poisoned
      BY <1>5, <1>17, <2>1 DEF CallsHead, Places
    <3>2. /\ Acknowledgements' = Acknowledgements /\ LayersDone' = LayersDone
          /\ RouteHeld' = RouteHeld /\ CallUnderWay' = <<Done("hc_head", layer)>>
      BY <3>1 DEF Done
    <3>3. pc \notin Absorbing
      BY <3>1
    <3> HIDE DEF Acknowledgements, LayersDone, RouteHeld, CallUnderWay, Absorbing
    <3> QED BY <2>1, <3>1, <3>2, <3>3, ExecutorCalls
  <2> QED BY <1>17, <1>8, <2>1
<1>18. CASE Embedded \/ Attended \/ RanMoe
  <2>1. ASSUME NEW op, NEW next, Ends(op, next), ~failed, ~state.poisoned,
               \/ pc = "embedding" /\ op = "embed_row" /\ next = "attention" /\ layer = 1
               \/ pc = "attending" /\ op = "attention_then_route" /\ next = "begin_routed"
               \/ pc = "in_moe" /\ op = "moe_then_hc_post" /\ next = "release"
        PROVE  InSync'
    <3>1. CASE Return(op, token, state.position) /\ GoTo(next)
      <4>1. /\ ~executor.poisoned
            /\ executor.active = IF Acknowledgements = 0 THEN << >> ELSE <<state.position, token>>
            /\ executor.layer = LayersDone /\ executor.route = RouteHeld
        BY <2>1 DEF InSync, ExecutorFollows
      <4>2. executor' = Advanced(op, token, state.position)
        BY <3>1 DEF Return
      <4>3. UNCHANGED <<token, state, layer, failed>> /\ pc' = next
        BY <1>5, <2>1, <3>1
      <4>4. Acknowledgements' = Acknowledgements + 1 /\ Acknowledgements' # 0
        BY <2>1, <4>3 DEF RunnerTypes
      <4>5. /\ ~executor'.poisoned /\ executor'.layer = LayersDone' /\ executor'.route = RouteHeld'
            /\ executor'.active = <<state.position, token>>
        <5>1. CASE pc = "embedding"
          BY <2>1, <4>1, <4>2, <4>3, <5>1 DEF Advanced, ExecutorTypes
        <5>2. CASE pc = "attending"
          <6>1. layer \in 1..Layers /\ 2 * layer - 1 # 0
            BY DEF RunnerTypes
          <6>2. executor' = [executor EXCEPT !.route = TRUE]
            BY <2>1, <4>2, <5>2 DEF Advanced
          <6>4. LayersDone' = LayersDone /\ RouteHeld' = TRUE
            BY <2>1, <4>3, <5>2
          <6>3. executor.active = <<state.position, token>>
            BY <4>1, <5>2, <6>1
          <6> HIDE DEF Acknowledgements, LayersDone, RouteHeld, CallUnderWay
          <6> QED BY <4>1, <6>2, <6>3, <6>4 DEF ExecutorTypes
        <5>3. CASE pc = "in_moe"
          <6>1. layer \in 1..Layers /\ 2 * layer # 0 /\ (layer - 1) + 1 = layer
            BY DEF RunnerTypes
          <6>2. executor' = [executor EXCEPT !.route = FALSE, !.layer = executor.layer + 1]
            BY <2>1, <4>2, <5>3 DEF Advanced
          <6>3. executor.active = <<state.position, token>> /\ executor.layer = layer - 1
            BY <4>1, <5>3, <6>1
          <6>4. LayersDone' = layer /\ RouteHeld' = FALSE
            BY <2>1, <4>3, <5>3
          <6> HIDE DEF Acknowledgements, LayersDone, RouteHeld, CallUnderWay
          <6> QED BY <4>1, <6>1, <6>2, <6>3, <6>4 DEF ExecutorTypes
        <5> QED BY <2>1, <5>1, <5>2, <5>3
      <4>6. ExecutorFollows'
        BY <4>3, <4>4, <4>5 DEF ExecutorFollows
      <4> QED BY <2>1, <3>1, <4>3, <4>4, <4>6, ExecutorReturns
    <3> QED BY <1>7, <2>1, <3>1
  <2> QED BY <1>18, <2>1 DEF Embedded, Attended, RanMoe, Places
<1>19. CASE Releases
  <2>1. CASE GoTo("releasing")
    <3>1. CASE ~failed /\ ~state.poisoned
      BY <1>5, <1>19, <2>1, <3>1, ExecutorWaits DEF Releases
    <3>2. CASE failed \/ state.poisoned
      BY <1>19, <2>1, <3>2 DEF Releases, GoTo, InSync, native
    <3> QED BY <3>1, <3>2
  <2> QED BY <1>3, <1>19, <2>1 DEF Releases
<1>20. CASE WaitsReleased
  <2>1. CASE AfterRelease /\ ~failed
    <3>1. ~state.poisoned
      BY <1>20, <2>1 DEF WaitsReleased, Places
    <3> QED
      BY <1>20, <2>1, <3>1, ExecutorWaits, ProfileAssumption
         DEF WaitsReleased, AfterRelease, RunnerTypes
  <2> QED BY <1>3, <1>20, <2>1 DEF WaitsReleased, AfterRelease
<1>21. CASE Takes
  <2>1. CASE ~StepErr
    BY <1>21, <2>1, ExecutorWaits DEF Takes, Places
  <2> QED BY <1>3, <1>21, <2>1 DEF Takes
<1>22. CASE Commits
  <2>1. ExecutorFollows /\ ~failed /\ ~state.poisoned /\ layer = Layers
    BY <1>22 DEF Commits, InSync, Places
  <2>2. /\ executor' = [executor EXCEPT !.active = << >>, !.layer = 0]
        /\ calls' = << >> /\ arena' = arena
    BY <1>22 DEF Commits, Return, Advanced
  <2>3. pc' = "idle" /\ state'.committed = Len(arena.absorbed)
    BY <1>22 DEF Commits, RunnerTypes
  <2>9. RouteHeld = FALSE
    BY <1>22 DEF Commits
  <2>6. executor.route = FALSE /\ ~executor.poisoned
    BY <2>1, <2>9 DEF ExecutorFollows
  <2>7. /\ executor'.active = << >> /\ executor'.layer = 0 /\ executor'.route = FALSE
        /\ ~executor'.poisoned
    BY <2>2, <2>6 DEF ExecutorTypes
  <2>8. /\ Acknowledgements' = 0 /\ LayersDone' = 0 /\ RouteHeld' = FALSE
        /\ CallUnderWay' = << >> /\ pc' \notin Absorbing
    BY <2>3
  <2>4. ExecutorFollows'
    BY <2>7, <2>8 DEF ExecutorFollows
  <2>5. ArenaFollows'
    BY <2>2, <2>3, LenProperties DEF ArenaFollows, Absorptions, ExecutorTypes
  <2> QED BY <2>2, <2>3, <2>4, <2>5 DEF InSync
<1>23. CASE HeadErr
  BY <1>2, <1>4, <1>23, WaysOut DEF HeadErr, Return, ReturnErr
<1>24. CASE Rebuilds
  <2>1. pc' = "idle" /\ state' = FreshState /\ Spawn
    BY <1>24 DEF Rebuilds, RunnerTypes
  <2>4. /\ Acknowledgements' = 0 /\ LayersDone' = 0 /\ RouteHeld' = FALSE /\ CallUnderWay' = << >>
    BY <2>1
  <2>2. ExecutorFollows' /\ calls' = CallUnderWay'
    BY <2>1, <2>4 DEF ExecutorFollows, Spawn, NewExecutor
  <2>3. ArenaFollows'
    BY <2>1 DEF ArenaFollows, Absorptions, Spawn, NewArena, FreshState
  <2> QED BY <2>2, <2>3 DEF InSync
<1>25. CASE Drops
  BY <1>25 DEF Drops, Kill, InSync
<1> QED
  BY <1>1, <1>12, <1>13, <1>14, <1>15, <1>16, <1>17, <1>18, <1>19, <1>20, <1>21, <1>22, <1>23,
     <1>24, <1>25, <1>10, <1>11 DEF Next, InStep

-----------------------------------------------------------------------------
(* The bridge *)

(* The queues of the two processes hold a line or two. *)
LEMMA Lines ==
  ASSUME NEW a, NEW b
  PROVE  /\ Append(<< >>, a) = <<a>> /\ Head(<<a>>) = a /\ Tail(<<a>>) = << >> /\ <<a>> # << >>
         /\ Head(Append(<<b>>, a)) = b /\ Append(<<b>>, a) # << >>
OBVIOUS

(* An answer that the provider accepts is no stray line: the worker has handled
   the request, and nothing else has arrived. *)
LEMMA AcceptedAnswer ==
  ASSUME NEW op, Accepted(op), worker.alive, BridgeFollows,
         pc \in {"wait_base", "wait_routed", "releasing"}
  PROVE  requests = << >> /\ Tail(responses) = << >> /\ SessionReached
<1>1. Head(responses) # Stray
  BY DEF Accepted, Stray
<1>2. ~OnlyStray
  BY <1>1, Lines DEF OnlyStray, Accepted
<1> QED BY <1>1, <1>2 DEF BridgeFollows, Conversation

(* Every step keeps the type of the provider, whose request ids never go
   back. *)
LEMMA ProviderTypesStep ==
  RunnerTypes /\ BridgeTypes /\ [Next]_vars =>
    /\ provider' \in Provider
    /\ worker'.alive \in BOOLEAN
    /\ provider'.next_id >= provider.next_id
<1> USE DEF Provider
<1> DEFINE PT == Provider
<1> DEFINE Good == provider' \in PT /\ worker'.alive \in BOOLEAN /\ provider'.next_id >= provider.next_id
<1> SUFFICES ASSUME RunnerTypes, BridgeTypes, [Next]_vars
             PROVE  Good
  OBVIOUS
<1>1. provider \in PT /\ worker.alive \in BOOLEAN /\ provider.next_id \in Nat \ {0}
      /\ provider.next_id + 1 \in Nat \ {0} /\ provider.next_id - 1 \in Nat
  BY DEF BridgeTypes
<1>2. layer \in 0..Layers /\ token \in TokenOrNone /\ NoToken \in TokenOrNone /\ 0 \in 0..Layers
  BY ProfileAssumption DEF RunnerTypes, TokenOrNone
<1>3. CASE UNCHANGED provider /\ worker'.alive \in BOOLEAN
  BY <1>1, <1>3
<1>4. CASE Terminate
  <2>1. provider' = [provider EXCEPT !.poisoned = TRUE]
    BY <1>4 DEF Terminate
  <2>2. worker'.alive \in BOOLEAN
    BY <1>4 DEF Terminate, BridgeTypes
  <2>3. provider' \in PT
    BY <1>1, <2>1
  <2>4. provider'.next_id = provider.next_id
    BY <1>1, <2>1
  <2> QED BY <1>1, <2>2, <2>3, <2>4
<1>5. ASSUME NEW op, NEW l, NEW t, NEW p \in PT, p.next_id = provider.next_id,
             Send(op, l, t, p) \/ SendFails(p)
      PROVE  Good
  <2>1. provider' = [p EXCEPT !.next_id = provider.next_id + 1] /\ worker' = worker
    BY <1>5 DEF Send, SendFails
  <2> QED BY <1>1, <1>5, <2>1
<1>6. ASSUME NEW op, NEW p \in PT, p.next_id = provider.next_id, Receive(op, p)
      PROVE  Good
  BY <1>1, <1>6 DEF Receive
<1>7. CASE BeginsBase
  <2>1. /\ [provider EXCEPT !.token = token, !.base = layer] \in PT
        /\ [provider EXCEPT !.token = token] \in PT
        /\ [provider EXCEPT !.token = token, !.base = layer].next_id = provider.next_id
        /\ [provider EXCEPT !.token = token].next_id = provider.next_id
    BY <1>1, <1>2
  <2> HIDE DEF PT
  <2> QED BY <1>1, <1>3, <1>5, <1>7, <2>1 DEF BeginsBase, BeginBaseLoad, BeginBaseLoadErr, bridge
<1>8. CASE BeginsRouted
  <2>1. /\ [provider EXCEPT !.routed = layer] \in PT
        /\ [provider EXCEPT !.routed = layer].next_id = provider.next_id
    BY <1>1, <1>2
  <2> HIDE DEF PT
  <2> QED BY <1>1, <1>3, <1>5, <1>8, <2>1 DEF BeginsRouted, BeginRoutedLoad, BeginRoutedLoadErr, bridge
<1>9. CASE Releases
  BY <1>1, <1>3, <1>5, <1>9 DEF Releases, ReleaseBegins, ReleaseBeginsErr, bridge
<1>10. CASE WaitsBase
  <2>1. /\ [provider EXCEPT !.base = NoLayer, !.live = provider.base, !.ready = FALSE] \in PT
        /\ [provider EXCEPT !.base = NoLayer, !.live = provider.base, !.ready = FALSE].next_id
             = provider.next_id
    BY <1>1, <1>2 DEF NoLayer
  <2> HIDE DEF PT
  <2> QED
    BY <1>4, <1>6, <1>10, <2>1
       DEF WaitsBase, WaitBaseReady, WaitBaseReadyErr, ReceiveFails, TimesOut
<1>11. CASE WaitsRouted
  <2>1. /\ [provider EXCEPT !.routed = NoLayer, !.ready = TRUE] \in PT
        /\ [provider EXCEPT !.routed = NoLayer, !.ready = TRUE].next_id = provider.next_id
    BY <1>1, <1>2 DEF NoLayer
  <2> HIDE DEF PT
  <2> QED
    BY <1>4, <1>6, <1>11, <2>1
       DEF WaitsRouted, WaitRoutedReady, WaitRoutedReadyErr, ReceiveFails, TimesOut
<1>12. CASE WaitsReleased
  <2>1. Released \in PT /\ Released.next_id = provider.next_id
    BY <1>1, <1>2 DEF NoLayer, Released
  <2>2. ASSUME NEW i \in Nat
        PROVE  /\ [Released EXCEPT !.token = NoToken, !.finals = i] \in PT
               /\ [Released EXCEPT !.token = NoToken, !.finals = i].next_id = provider.next_id
    BY <1>2, <2>1
  <2> HIDE DEF PT
  <2>3. CASE ReleaseEnds(layer)
    <3>1. Head(responses).id \in Nat
      BY <1>1, <2>3 DEF ReleaseEnds, Receive, Accepted
    <3> QED BY <1>6, <2>1, <2>2, <2>3, <3>1 DEF ReleaseEnds
  <2> QED BY <1>4, <1>12, <2>3 DEF WaitsReleased, ReleaseEndsErr, ReceiveFails, TimesOut
<1>13. CASE Takes
  <2>1. CASE TakeFinalArtifacts
    <3>1. provider' = [provider EXCEPT !.token = NoToken, !.finals = 0] /\ worker' = worker
      BY <2>1 DEF TakeFinalArtifacts, NoFinals
    <3>2. provider' \in PT
      BY <1>1, <1>2, <3>1
    <3>3. provider'.next_id = provider.next_id
      BY <1>1, <3>1
    <3> QED BY <1>1, <3>1, <3>2, <3>3
  <2> QED BY <1>1, <1>3, <1>13, <2>1 DEF Takes, TakeFinalArtifactsErr, bridge
<1>14. CASE Worker
  <2>1. UNCHANGED provider
    BY <1>14 DEF Worker, WorkerNext, Handles, Refuses, Crashes, PrintsStray
  <2>2. worker'.alive \in BOOLEAN
    BY <1>14 DEF Worker, WorkerNext, Handles, Refuses, Crashes, PrintsStray, BridgeTypes
  <2> QED BY <1>3, <2>1, <2>2
<1>15. CASE UNCHANGED bridge
  BY <1>1, <1>3, <1>15 DEF bridge
<1>16. CASE Drops
  BY <1>4, <1>16 DEF Drops, DropProvider
<1> HIDE DEF Good
<1>17. CASE InStep
  BY <1>7, <1>8, <1>9, <1>10, <1>11, <1>12, <1>13, <1>15, <1>17
     DEF InStep, Embeds, Embedded, Attends, Attended, RunsMoe, RanMoe, Begins, Ends, CallsHead,
         Commits, HeadErr
<1> QED
  BY <1>14, <1>15, <1>16, <1>17 DEF Next, StepBegins, Rebuilds, Peer, vars

(* Request ids only grow, and the answer that brings the final artifacts is to
   a request of this step. *)
LEMMA FinalsAreNewStep ==
  RunnerTypes /\ BridgeTypes /\ Places /\ FinalsAreNew /\ [Next]_vars => FinalsAreNew'
<1> SUFFICES ASSUME RunnerTypes, BridgeTypes, Places, FinalsAreNew, [Next]_vars
             PROVE  FinalsAreNew'
  OBVIOUS
<1>1. /\ provider.next_id \in Nat \ {0} /\ provider'.next_id \in Nat \ {0}
      /\ provider'.next_id >= provider.next_id /\ first_id \in Nat /\ provider.finals \in Nat
  BY ProviderTypesStep DEF BridgeTypes, Provider, RunnerTypes
<1>2. ASSUME NEW t \in Tokens, StepBegins(t)
      PROVE  FinalsAreNew'
  BY <1>1, <1>2 DEF StepBegins, FinalsAreNew, bridge
<1>3. CASE pc' \in {"idle", "dropped"}
  BY <1>3 DEF FinalsAreNew
<1>4. ASSUME UNCHANGED <<first_id, heads>>, pc \notin {"idle", "dropped", "begin_base"},
             pc' \notin {"take", "head", "in_head"}
      PROVE  FinalsAreNew'
  BY <1>1, <1>4 DEF FinalsAreNew
<1>5. CASE BeginsBase
  <2>1. CASE GoTo("wait_base") /\ BeginBaseLoad(layer, token)
    <3>1. provider' = [provider EXCEPT !.token = token, !.base = layer, !.next_id = provider.next_id + 1]
      BY <2>1 DEF BeginBaseLoad, Send
    <3>2. provider'.next_id = provider.next_id + 1
      BY <3>1 DEF BridgeTypes, Provider
    <3>3. pc' = "wait_base" /\ first_id' = first_id /\ first_id <= provider.next_id
      BY <1>5, <2>1 DEF GoTo, FinalsAreNew, BeginsBase
    <3> QED BY <1>1, <3>2, <3>3 DEF FinalsAreNew
  <2> QED BY <1>3, <1>5, <2>1 DEF BeginsBase, StepErr
<1>6. ASSUME StepErr \/ OperatorErr \/ CleanUp, pc \notin {"idle", "dropped", "begin_base"}
      PROVE  FinalsAreNew'
  BY <1>1, <1>6 DEF StepErr, OperatorErr, CleanUp, FinalsAreNew
<1>7. ASSUME NEW next, GoTo(next), pc \notin {"idle", "dropped", "begin_base"},
             next \notin {"take", "head", "in_head"}
      PROVE  FinalsAreNew'
  BY <1>4, <1>7 DEF GoTo
<1>8. CASE \/ WaitsBase \/ Embeds \/ Embedded \/ Attends \/ Attended \/ BeginsRouted
           \/ WaitsRouted \/ RunsMoe \/ RanMoe \/ Releases
  BY <1>6, <1>7, <1>8
     DEF WaitsBase, Embeds, Embedded, Attends, Attended, BeginsRouted, WaitsRouted, RunsMoe,
         RanMoe, Releases, Begins, Ends
<1>9. CASE WaitsReleased
  <2>1. CASE ~failed /\ ReleaseEnds(layer) /\ AfterRelease
    <3>1. CASE layer < Layers
      BY <1>1, <1>9, <2>1, <3>1 DEF WaitsReleased, AfterRelease, FinalsAreNew
    <3>2. CASE ~(layer < Layers)
      <4>1. provider' = [Released EXCEPT !.token = NoToken, !.finals = Head(responses).id]
            /\ Head(responses).id = provider.next_id - 1
        BY <2>1, <3>2 DEF ReleaseEnds, Receive, Accepted
      <4>2. provider'.finals = provider.next_id - 1
        BY <4>1 DEF Released, BridgeTypes, Provider
      <4>3. first_id < provider.next_id /\ first_id' = first_id /\ pc' = "take"
        BY <1>9, <2>1, <3>2 DEF WaitsReleased, AfterRelease, FinalsAreNew
      <4> QED BY <1>1, <4>2, <4>3 DEF FinalsAreNew
    <3> QED BY <3>1, <3>2
  <2> QED BY <1>6, <1>9, <2>1 DEF WaitsReleased, AfterRelease
<1>10. CASE Takes
  <2>1. CASE ~StepErr
    BY <1>1, <1>10, <2>1 DEF Takes, FinalsAreNew
  <2> QED BY <1>6, <1>10, <2>1 DEF Takes
<1>11. CASE CallsHead
  <2>1. CASE GoTo("in_head")
    BY <1>1, <1>11, <2>1 DEF CallsHead, GoTo, FinalsAreNew
  <2> QED BY <1>6, <1>11, <2>1 DEF CallsHead
<1>12. CASE Commits \/ HeadErr
  BY <1>3, <1>12 DEF Commits, HeadErr, StepErr
<1>13. CASE Rebuilds \/ Drops
  BY <1>3, <1>13 DEF Rebuilds, Drops
<1>14. CASE Worker \/ Peer \/ UNCHANGED vars
  <2>1. UNCHANGED provider /\ UNCHANGED runner
    BY <1>14
       DEF Worker, WorkerNext, Handles, Refuses, Crashes, PrintsStray, Peer, vars, bridge
  <2> QED BY <2>1 DEF FinalsAreNew, runner
<1> QED
  BY <1>2, <1>5, <1>8, <1>9, <1>10, <1>11, <1>12, <1>13, <1>14 DEF Next, InStep

(* The worker handles the request that the runner waits for. *)
LEMMA HandlesFollows ==
  ASSUME BridgeTypes, RunnerTypes, BridgeFollows, Handles, UNCHANGED runner
  PROVE  worker'.session \in Session \cup {NoSession} /\ BridgeFollows'
<1>1. /\ worker.alive /\ ~provider.poisoned /\ LeaseFollows
      /\ pc \in {"wait_base", "wait_routed", "releasing"} /\ requests = <<Asked>> /\ OnlyStray
      /\ SessionFollows
  BY DEF Handles, BridgeFollows, Conversation
<1>2. PICK q : q = Asked
  OBVIOUS
<1>3. Head(requests) = q /\ requests' = << >>
  BY <1>1, <1>2, Lines DEF Handles
<1>4. q.layer = layer /\ q.token = token /\ layer \in 1..Layers /\ token \in TokenOrNone
  BY <1>2 DEF Asked, RunnerTypes
<1>5. worker' = [worker EXCEPT !.session = SessionAfter(q)] /\ UNCHANGED provider
  BY <1>3 DEF Handles
<1>6. session' = SessionAfter(q)
  BY <1>5 DEF session, BridgeTypes
<1>7. LeaseFollows'
  BY <1>1, <1>5 DEF LeaseFollows, runner
<1>8. responses' # << >> /\ (Head(responses') = Stray \/ Tail(responses') = << >>)
  <2>1. PICK a : responses' = Append(responses, a)
    BY DEF Handles
  <2> QED BY <1>1, <2>1, Lines DEF OnlyStray
<1>9. SessionReached' /\ session' \in Session \cup {NoSession}
  <2>1. CASE pc = "wait_base"
    <3>1. session' = [phase |-> "base_ready", layer |-> layer, token |-> token]
      BY <1>2, <1>4, <1>6, <2>1 DEF SessionAfter, Asked
    <3>2. session' \in Session
      BY <1>4, <3>1, ProfileAssumption DEF Session, Phase, TokenOrNone
    <3> QED BY <2>1, <3>1, <3>2 DEF SessionReached, runner
  <2>2. CASE pc = "wait_routed"
    <3>1. session' = [session EXCEPT !.phase = "layer_ready"]
      BY <1>2, <1>6, <2>2 DEF SessionAfter, Asked
    <3>2. session \in Session /\ session.layer = layer /\ session.token = token
      BY <1>1, <1>4, <2>2 DEF SessionFollows, LeaseFollows, Loaded, NoLayer
    <3>3. session' = [phase |-> "layer_ready", layer |-> layer, token |-> token]
      BY <3>1, <3>2 DEF Session
    <3>4. session' \in Session
      BY <1>4, <3>3, ProfileAssumption DEF Session, Phase, TokenOrNone
    <3> QED BY <2>2, <3>3, <3>4 DEF SessionReached, runner
  <2>3. CASE pc = "releasing"
    <3>1. q.op = ReleaseOp
      BY <1>2, <2>3 DEF Asked
    <3>2. CASE provider.ready
      <4>1. session' = [phase |-> IF q.layer = Layers THEN "complete" ELSE "awaiting_layer",
                        layer |-> q.layer + 1, token |-> NoToken]
        BY <1>6, <3>1, <3>2 DEF SessionAfter, ReleaseOp
      <4>2. session' \in Session /\ session'.phase \in {"awaiting_layer", "complete"}
        BY <1>4, <4>1, ProfileAssumption DEF Session, Phase
      <4> QED BY <2>3, <4>2 DEF SessionReached, NoLayerHeld, runner
    <3>3. CASE ~provider.ready
      <4>1. session' = NoSession
        BY <1>6, <3>1, <3>3 DEF SessionAfter, ReleaseOp
      <4>2. NoLayerHeld'
        BY <4>1 DEF NoLayerHeld
      <4>3. SessionReached'
        BY <2>3, <4>2 DEF SessionReached, runner
      <4> QED BY <4>1, <4>3
    <3> QED BY <3>2, <3>3
  <2> QED BY <1>1, <2>1, <2>2, <2>3
<1>10. Conversation'
  BY <1>1, <1>3, <1>8, <1>9 DEF Conversation, runner
<1> QED BY <1>1, <1>5, <1>7, <1>9, <1>10 DEF BridgeFollows, session

(* A step without a request leaves the conversation as it is. *)
LEMMA NoConversation ==
  ASSUME BridgeFollows, UNCHANGED bridge, LeaseFollows => LeaseFollows',
         pc \notin {"wait_base", "wait_routed", "releasing"},
         pc' \notin {"wait_base", "wait_routed", "releasing"}
  PROVE  BridgeFollows'
<1>1. CASE worker.alive
  <2>1. Conversation'
    BY <1>1 DEF BridgeFollows, Conversation, OnlyStray, SessionFollows, NoLayerHeld, session, bridge
  <2> QED BY <1>1, <2>1 DEF BridgeFollows, bridge
<1> QED BY <1>1 DEF BridgeFollows, bridge

(* A request is written: there is no other line. *)
LEMMA RequestSent ==
  ASSUME BridgeTypes, BridgeFollows, NEW op, NEW p, Send(op, layer, token, p),
         UNCHANGED <<layer, token>>,
         pc \notin {"wait_base", "wait_routed", "releasing"},
         pc' \in {"wait_base", "wait_routed", "releasing"},
         op = Asked'.op,
         p \in Provider,
         p.next_id = provider.next_id, p.live = provider.live, p.ready = provider.ready,
         p.poisoned = provider.poisoned,
         p.live # NoLayer => p.token = provider.token,
         LeaseFollows'
  PROVE  BridgeFollows'
<1>1. worker.alive /\ ~provider.poisoned /\ requests = << >> /\ OnlyStray /\ SessionFollows
  BY DEF Send, Writable, BridgeFollows, Conversation
<1>2. /\ provider' = [p EXCEPT !.next_id = provider.next_id + 1]
      /\ requests' = Append(requests, Request(op, layer, token))
      /\ UNCHANGED <<responses, worker>>
  BY DEF Send
<1>3. provider.next_id \in Nat \ {0} /\ (provider.next_id + 1) - 1 = provider.next_id
  BY DEF BridgeTypes, Provider
<1>4. /\ provider'.next_id = provider.next_id + 1 /\ provider'.live = provider.live
      /\ provider'.ready = provider.ready /\ provider'.token = p.token
      /\ provider'.poisoned = provider.poisoned
  BY <1>2 DEF Provider
<1>5. requests' = <<Request(op, layer, token)>>
  BY <1>1, <1>2, Lines
<1>6. Asked' = Request(op, layer, token)
  BY <1>3, <1>4 DEF Asked, Request
<1>7. SessionFollows'
  BY <1>1, <1>2, <1>4 DEF SessionFollows, NoLayerHeld, session
<1>8. OnlyStray'
  BY <1>1, <1>2 DEF OnlyStray
<1> QED BY <1>1, <1>4, <1>5, <1>6, <1>7, <1>8 DEF BridgeFollows, Conversation

(* Every step keeps what is known of the bridge between provider and worker. *)
LEMMA BridgeStep ==
  BridgeTypes /\ RunnerTypes /\ Places /\ BridgeFollows /\ [Next]_vars
    => BridgeTypes' /\ BridgeFollows'
<1> DEFINE WT == [alive : BOOLEAN, session : Session \cup {NoSession}]
           Waiting == {"wait_base", "wait_routed", "releasing"}
<1> SUFFICES ASSUME BridgeTypes, RunnerTypes, Places, BridgeFollows, [Next]_vars
             PROVE  worker' \in WT /\ BridgeFollows'
  BY ProviderTypesStep DEF BridgeTypes
<1>1. /\ worker \in WT /\ provider \in Provider /\ token \in TokenOrNone
      /\ layer \in 1..Layers /\ layer \in 0..Layers /\ 0 \in 0..Layers
  BY ProfileAssumption DEF BridgeTypes, RunnerTypes
<1>2. ASSUME worker' = [worker EXCEPT !.alive = FALSE]
      PROVE  worker' \in WT /\ BridgeFollows'
  <2>1. worker' \in WT
    BY <1>1, <1>2
  <2>2. ~worker'.alive
    BY <1>1, <1>2
  <2> QED BY <2>1, <2>2 DEF BridgeFollows
<1>3. CASE Terminate
  BY <1>2, <1>3 DEF Terminate
<1>4. ASSUME NEW op, ReceiveFails(op) \/ TimesOut
      PROVE  worker' \in WT /\ BridgeFollows'
  BY <1>3, <1>4 DEF ReceiveFails, TimesOut
<1>5. ASSUME NEW op, NEW p, Send(op, layer, token, p) \/ SendFails(p) \/ Receive(op, p)
      PROVE  worker' \in WT /\ worker' = worker
  BY <1>1, <1>5 DEF Send, SendFails, Receive
<1>6. ASSUME NEW p, SendFails(p)
      PROVE  worker' \in WT /\ BridgeFollows'
  BY <1>5, <1>6 DEF SendFails, Writable, BridgeFollows
<1>7. ASSUME UNCHANGED bridge, LeaseFollows => LeaseFollows', pc \notin Waiting, pc' \notin Waiting
      PROVE  worker' \in WT /\ BridgeFollows'
  BY <1>1, <1>7, NoConversation DEF bridge
<1>8. CASE ~worker.alive /\ worker' = worker
  BY <1>1, <1>8 DEF BridgeFollows
<1>9. CASE BeginsBase
  <2>1. CASE BeginBaseLoad(layer, token) /\ GoTo("wait_base")
    <3>1. PICK p : p = [provider EXCEPT !.token = token, !.base = layer]
      OBVIOUS
    <3>2. Send("prepare_base", layer, token, p) /\ worker' \in WT
      BY <1>5, <2>1, <3>1 DEF BeginBaseLoad
    <3>12. p \in Provider
      BY <1>1, <3>1 DEF Provider
    <3>3. /\ p.next_id = provider.next_id /\ p.live = provider.live
          /\ p.ready = provider.ready /\ p.poisoned = provider.poisoned
      BY <1>1, <3>1 DEF Provider
    <3>4. p.base = layer /\ p.token = token /\ p.routed = provider.routed
      BY <1>1, <3>1 DEF Provider
    <3>5. LeaseFollows /\ pc = "begin_base"
      BY <1>9, <3>2 DEF BeginsBase, BridgeFollows, Send, Writable
    <3>6. provider.live = NoLayer /\ provider.routed = NoLayer
      BY <3>5 DEF LeaseFollows, Loaded
    <3>7. pc' = "wait_base" /\ UNCHANGED <<layer, token>>
      BY <2>1 DEF GoTo
    <3>8. provider' = [p EXCEPT !.next_id = provider.next_id + 1]
      BY <3>2, <3>3 DEF Send
    <3>9. /\ provider'.base = layer /\ provider'.routed = NoLayer /\ provider'.live = NoLayer
          /\ provider'.token = token
      BY <3>3, <3>4, <3>6, <3>8, <3>12 DEF Provider
    <3>10. LeaseFollows'
      BY <3>7, <3>9 DEF LeaseFollows, Loaded
    <3>11. "prepare_base" = Asked'.op
      BY <3>7 DEF Asked
    <3> HIDE DEF WT
    <3>13. BridgeFollows'
      BY <3>2, <3>3, <3>5, <3>6, <3>7, <3>10, <3>11, <3>12, RequestSent
    <3> QED BY <3>2, <3>13
  <2>2. CASE BeginBaseLoadErr(layer, token) /\ StepErr
    <3>1. pc = "begin_base" /\ pc' = "idle"
      BY <1>9, <2>2 DEF BeginsBase, StepErr
    <3>2. CASE UNCHANGED bridge
      BY <1>7, <3>1, <3>2 DEF LeaseFollows, Loaded, bridge
    <3> QED BY <1>6, <2>2, <3>2 DEF BeginBaseLoadErr
  <2> QED BY <1>9, <2>1, <2>2 DEF BeginsBase
<1>10. CASE BeginsRouted
  <2>1. CASE BeginRoutedLoad(layer) /\ GoTo("wait_routed")
    <3>1. PICK p : p = [provider EXCEPT !.routed = layer]
      OBVIOUS
    <3>2. Send("prepare_routed", layer, provider.token, p)
      BY <2>1, <3>1 DEF BeginRoutedLoad
    <3>12. p \in Provider
      BY <1>1, <3>1 DEF Provider
    <3>3. /\ p.next_id = provider.next_id /\ p.live = provider.live /\ p.ready = provider.ready
          /\ p.poisoned = provider.poisoned /\ p.base = provider.base /\ p.token = provider.token
          /\ p.routed = layer
      BY <1>1, <3>1 DEF Provider
    <3>4. LeaseFollows /\ pc = "begin_routed"
      BY <1>10, <3>2 DEF BeginsRouted, BridgeFollows, Send, Writable
    <3>5. /\ provider.live = layer /\ provider.base = NoLayer /\ provider.token = token
          /\ ~provider.ready
      BY <3>4 DEF LeaseFollows, Loaded
    <3>6. pc' = "wait_routed" /\ UNCHANGED <<layer, token>>
      BY <2>1 DEF GoTo
    <3>7. provider' = [p EXCEPT !.next_id = provider.next_id + 1]
      BY <3>2, <3>3 DEF Send
    <3>8. /\ provider'.base = NoLayer /\ provider'.routed = layer /\ provider'.live = layer
          /\ provider'.token = token /\ provider'.ready = provider.ready
      BY <3>3, <3>5, <3>7, <3>12 DEF Provider
    <3>9. LeaseFollows'
      BY <3>5, <3>6, <3>8 DEF LeaseFollows, Loaded
    <3>10. "prepare_routed" = Asked'.op
      BY <3>6 DEF Asked
    <3>11. Send("prepare_routed", layer, token, p) /\ worker' \in WT
      BY <1>5, <3>2, <3>5
    <3> HIDE DEF WT
    <3>13. BridgeFollows'
      BY <3>3, <3>4, <3>6, <3>9, <3>10, <3>11, <3>12, RequestSent
    <3> QED BY <3>11, <3>13
  <2>2. CASE BeginRoutedLoadErr(layer) /\ CleanUp
    <3>1. pc = "begin_routed" /\ pc' = "release" /\ UNCHANGED <<layer, token>>
      BY <1>10, <2>2 DEF BeginsRouted, CleanUp
    <3>2. CASE UNCHANGED bridge
      BY <1>7, <3>1, <3>2 DEF LeaseFollows, Loaded, bridge
    <3> QED BY <1>6, <2>2, <3>2 DEF BeginRoutedLoadErr
  <2> QED BY <1>10, <2>1, <2>2 DEF BeginsRouted
<1>11. CASE Releases
  <2>1. CASE ReleaseBegins(layer) /\ GoTo("releasing")
    <3>1. LeaseFollows /\ pc = "release" /\ pc' = "releasing" /\ UNCHANGED <<layer, token>>
      BY <1>11, <2>1 DEF Releases, ReleaseBegins, BridgeFollows, Send, Writable, GoTo
    <3>2. /\ provider.live = layer /\ provider.base = NoLayer /\ provider.routed = NoLayer
          /\ provider.token = token
      BY <3>1 DEF LeaseFollows, Loaded
    <3>3. Send(ReleaseOp, layer, token, provider) /\ worker' \in WT
      BY <1>5, <2>1, <3>2 DEF ReleaseBegins
    <3>4. provider' = [provider EXCEPT !.next_id = provider.next_id + 1]
      BY <3>3 DEF Send
    <3>5. /\ provider'.live = layer /\ provider'.base = NoLayer /\ provider'.routed = NoLayer
          /\ provider'.token = token /\ provider'.ready = provider.ready
      BY <1>1, <3>2, <3>4 DEF Provider
    <3>6. LeaseFollows'
      BY <3>1, <3>5 DEF LeaseFollows, Loaded
    <3>7. ReleaseOp = Asked'.op
      BY <3>1, <3>5 DEF Asked, ReleaseOp
    <3> HIDE DEF WT
    <3>8. BridgeFollows'
      BY <1>1, <3>1, <3>3, <3>6, <3>7, RequestSent
    <3> QED BY <3>3, <3>8
  <2>2. CASE ReleaseBeginsErr(layer) /\ StepErr
    <3>1. pc = "release" /\ pc' = "idle"
      BY <1>11, <2>2 DEF Releases, StepErr
    <3>2. CASE UNCHANGED bridge /\ ~Releasable(layer)
      <4>1. ~worker.alive
        BY <3>1, <3>2 DEF LeaseFollows, Loaded, BridgeFollows, Releasable
      <4> QED BY <1>8, <3>2, <4>1 DEF bridge
    <3> QED BY <1>6, <2>2, <3>2 DEF ReleaseBeginsErr
  <2> QED BY <1>11, <2>1, <2>2 DEF Releases
<1>12. ASSUME worker.alive, NEW op, NEW p, Receive(op, p), pc \in Waiting, pc' \notin Waiting,
              p.poisoned = provider.poisoned, SessionReached => SessionFollows',
              LeaseFollows => LeaseFollows'
       PROVE  worker' \in WT /\ BridgeFollows'
  <2>1. /\ Accepted(op) /\ provider' = p /\ responses' = Tail(responses)
        /\ UNCHANGED <<requests, worker>>
    BY <1>12 DEF Receive
  <2>2. requests = << >> /\ Tail(responses) = << >> /\ SessionReached /\ LeaseFollows
        /\ ~provider.poisoned
    BY <1>12, <2>1, AcceptedAnswer DEF BridgeFollows
  <2>3. Conversation' /\ LeaseFollows' /\ ~provider'.poisoned
    BY <1>12, <2>1, <2>2 DEF Conversation, OnlyStray
  <2> QED BY <1>1, <2>1, <2>3 DEF BridgeFollows
<1>13. CASE WaitsBase
  <2>1. CASE worker.alive /\ WaitBaseReady /\ GoTo(IF layer = 1 THEN "embed" ELSE "attention")
    <3>1. PICK p : p = [provider EXCEPT !.base = NoLayer, !.live = provider.base, !.ready = FALSE]
      OBVIOUS
    <3>2. Receive("prepare_base", p)
      BY <2>1, <3>1 DEF WaitBaseReady
    <3>3. /\ pc = "wait_base" /\ pc' \in {"embed", "attention"} /\ UNCHANGED <<layer, token>>
          /\ provider' = p /\ worker' = worker
      BY <1>13, <2>1, <3>2 DEF WaitsBase, GoTo, Receive
    <3>4. /\ p.base = NoLayer /\ p.live = provider.base /\ ~p.ready /\ p.routed = provider.routed
          /\ p.token = provider.token /\ p.poisoned = provider.poisoned
      BY <1>1, <3>1 DEF Provider
    <3>5. LeaseFollows
      BY <2>1 DEF BridgeFollows
    <3>6. provider.base = layer /\ provider.routed = NoLayer /\ provider.token = token
      BY <3>3, <3>5 DEF LeaseFollows
    <3>7. LeaseFollows'
      BY <3>3, <3>4, <3>6 DEF LeaseFollows, Loaded
    <3>8. ASSUME SessionReached
          PROVE  SessionFollows'
      <4>1. session' = [phase |-> "base_ready", layer |-> layer, token |-> token]
        BY <3>3, <3>8 DEF SessionReached, session
      <4>2. session' \in Session
        BY <1>1, <4>1, ProfileAssumption DEF Session, Phase, TokenOrNone
      <4> QED BY <1>1, <3>3, <3>4, <3>6, <4>1, <4>2 DEF SessionFollows, NoLayer
    <3> QED BY <1>12, <2>1, <3>2, <3>3, <3>4, <3>7, <3>8
  <2>2. CASE ~worker.alive /\ WaitBaseReady
    BY <1>8, <2>2 DEF WaitBaseReady, Receive
  <2> QED BY <1>4, <1>13, <2>1, <2>2 DEF WaitsBase, WaitBaseReadyErr
<1>14. CASE WaitsRouted
  <2>1. CASE worker.alive /\ WaitRoutedReady /\ GoTo("moe")
    <3>1. PICK p : p = [provider EXCEPT !.routed = NoLayer, !.ready = TRUE]
      OBVIOUS
    <3>2. Receive("prepare_routed", p)
      BY <2>1, <3>1 DEF WaitRoutedReady
    <3>3. /\ pc = "wait_routed" /\ pc' = "moe" /\ UNCHANGED <<layer, token>>
          /\ provider' = p /\ worker' = worker
      BY <1>14, <2>1, <3>2 DEF WaitsRouted, GoTo, Receive
    <3>4. /\ p.routed = NoLayer /\ p.live = provider.live /\ p.ready /\ p.base = provider.base
          /\ p.token = provider.token /\ p.poisoned = provider.poisoned
      BY <1>1, <3>1 DEF Provider
    <3>5. LeaseFollows
      BY <2>1 DEF BridgeFollows
    <3>6. provider.live = layer /\ provider.base = NoLayer /\ provider.token = token
      BY <3>3, <3>5 DEF LeaseFollows, Loaded
    <3>7. LeaseFollows'
      BY <3>3, <3>4, <3>6 DEF LeaseFollows, Loaded
    <3>8. ASSUME SessionReached
          PROVE  SessionFollows'
      <4>1. session' = [phase |-> "layer_ready", layer |-> layer, token |-> token]
        BY <3>3, <3>8 DEF SessionReached, session
      <4>2. session' \in Session
        BY <1>1, <4>1, ProfileAssumption DEF Session, Phase, TokenOrNone
      <4> QED BY <1>1, <3>3, <3>4, <3>6, <4>1, <4>2 DEF SessionFollows, NoLayer
    <3> QED BY <1>12, <2>1, <3>2, <3>3, <3>4, <3>7, <3>8
  <2>2. CASE ~worker.alive /\ WaitRoutedReady
    BY <1>8, <2>2 DEF WaitRoutedReady, Receive
  <2> QED BY <1>4, <1>14, <2>1, <2>2 DEF WaitsRouted, WaitRoutedReadyErr
<1>15. CASE WaitsReleased
  <2>1. ASSUME worker.alive, NEW p, Receive(ReleaseOp, p), AfterRelease,
               p.live = NoLayer, p.base = provider.base, p.routed = provider.routed,
               p.poisoned = provider.poisoned
        PROVE  worker' \in WT /\ BridgeFollows'
    <3>1. /\ pc = "releasing" /\ pc' \in {"idle", "begin_base", "take"}
          /\ provider' = p /\ worker' = worker
      BY <1>15, <2>1 DEF WaitsReleased, AfterRelease, StepErr, Receive
    <3>2. ASSUME LeaseFollows
          PROVE  LeaseFollows'
      BY <2>1, <3>1, <3>2 DEF LeaseFollows, Loaded
    <3>3. ASSUME SessionReached
          PROVE  SessionFollows'
      <4>1. NoLayerHeld
        BY <3>1, <3>3 DEF SessionReached
      <4>2. NoLayerHeld'
        BY <3>1, <4>1 DEF NoLayerHeld, session
      <4> QED BY <2>1, <3>1, <4>2 DEF SessionFollows
    <3> QED BY <1>12, <2>1, <3>1, <3>2, <3>3
  <2>2. CASE worker.alive /\ ReleaseEnds(layer) /\ AfterRelease
    <3>1. /\ Released.live = NoLayer /\ Released.base = provider.base
          /\ Released.routed = provider.routed /\ Released.poisoned = provider.poisoned
      BY <1>1 DEF Released, Provider
    <3>5. Released \in Provider
      BY <1>1, ProfileAssumption DEF Released, NoLayer, Provider
    <3>2. PICK p : p = [Released EXCEPT !.token = NoToken, !.finals = Head(responses).id]
      OBVIOUS
    <3>3. /\ p.live = NoLayer /\ p.base = provider.base
          /\ p.routed = provider.routed /\ p.poisoned = provider.poisoned
      BY <3>1, <3>2, <3>5 DEF Provider
    <3>4. Receive(ReleaseOp, Released) \/ Receive(ReleaseOp, p)
      BY <2>2, <3>2 DEF ReleaseEnds
    <3> QED BY <2>1, <2>2, <3>1, <3>3, <3>4
  <2>3. CASE ~worker.alive /\ ReleaseEnds(layer)
    BY <1>8, <2>3 DEF ReleaseEnds, Receive
  <2> QED BY <1>3, <1>4, <1>15, <2>2, <2>3 DEF WaitsReleased, ReleaseEndsErr
<1>16. CASE Takes
  <2>1. CASE TakeFinalArtifacts /\ pc' = "head"
    <3>1. /\ provider' = [provider EXCEPT !.token = NoToken, !.finals = 0] /\ pc = "take"
          /\ UNCHANGED <<requests, responses, worker, layer, token>>
      BY <1>16, <2>1 DEF Takes, TakeFinalArtifacts, NoFinals, StepErr
    <3>2. UNCHANGED <<provider.base, provider.routed, provider.live, provider.ready, provider.poisoned>>
      BY <1>1, <3>1 DEF Provider
    <3>3. ASSUME worker.alive
          PROVE  BridgeFollows'
      <4>1. LeaseFollows /\ requests = << >> /\ OnlyStray /\ SessionFollows /\ ~provider.poisoned
        BY <3>1, <3>3 DEF BridgeFollows, Conversation
      <4>2. LeaseFollows' /\ provider.live = NoLayer
        BY <2>1, <3>1, <3>2, <4>1 DEF LeaseFollows, Loaded
      <4>3. SessionFollows'
        BY <3>1, <3>2, <4>1, <4>2 DEF SessionFollows, NoLayerHeld, session
      <4>4. Conversation'
        BY <2>1, <3>1, <4>1, <4>3 DEF Conversation, OnlyStray
      <4> QED BY <3>2, <4>1, <4>2, <4>4 DEF BridgeFollows
    <3> QED BY <1>1, <1>8, <3>1, <3>3
  <2>2. CASE TakeFinalArtifactsErr /\ StepErr
    <3>1. pc = "take" /\ pc' = "idle" /\ UNCHANGED bridge
      BY <1>16, <2>2 DEF Takes, TakeFinalArtifactsErr, StepErr
    <3> QED BY <1>7, <3>1 DEF LeaseFollows, Loaded, bridge
  <2> QED BY <1>16, <2>1, <2>2 DEF Takes
<1>17. CASE \/ Embeds \/ Embedded \/ Attends \/ Attended \/ RunsMoe \/ RanMoe
            \/ CallsHead \/ Commits \/ HeadErr
  <2>1. /\ UNCHANGED <<bridge, layer, token>> /\ pc \notin Waiting /\ pc' \notin Waiting
        /\ \/ pc \in Loaded \ {"moe", "in_moe"} /\ pc' \in Loaded \ {"moe", "in_moe"}
           \/ pc \in {"moe", "in_moe"} /\ pc' \in {"moe", "in_moe"}
           \/ pc \in Loaded /\ pc' = "release"
           \/ pc \in {"head", "in_head"} /\ pc' \in {"in_head", "idle"}
    BY <1>17
       DEF Embeds, Embedded, Attends, Attended, RunsMoe, RanMoe, CallsHead, Commits, HeadErr,
           Begins, Ends, GoTo, OperatorErr, StepErr, Loaded
  <2>2. UNCHANGED bridge /\ pc \notin Waiting /\ pc' \notin Waiting
    BY <2>1
  <2>3. LeaseFollows => LeaseFollows'
    BY <2>1 DEF LeaseFollows, Loaded, bridge
  <2> HIDE DEF WT, Waiting
  <2> QED BY <1>7, <2>2, <2>3
<1>18. ASSUME NEW t \in Tokens, StepBegins(t)
       PROVE  worker' \in WT /\ BridgeFollows'
  <2>1. UNCHANGED bridge /\ pc = "idle" /\ pc' = "begin_base"
    BY <1>18 DEF StepBegins
  <2> QED BY <1>7, <2>1 DEF LeaseFollows, Loaded, bridge
<1>19. CASE Rebuilds \/ Peer \/ UNCHANGED vars
  <2>1. UNCHANGED <<bridge, pc, layer, token>>
    BY <1>19 DEF Rebuilds, Peer, vars, runner
  <2>2. worker' \in WT
    BY <1>1, <2>1 DEF bridge
  <2> HIDE DEF WT
  <2> QED
    BY <2>1, <2>2
       DEF BridgeFollows, LeaseFollows, Conversation, OnlyStray, SessionFollows, NoLayerHeld,
           SessionReached, Asked, ReleaseOp, session, bridge
<1>20. CASE Drops
  BY <1>3, <1>20 DEF Drops, DropProvider
<1>21. CASE Worker
  <2>1. CASE Handles
    <3>1. worker'.session \in Session \cup {NoSession} /\ BridgeFollows'
      BY <1>21, <2>1, HandlesFollows DEF Worker
    <3>2. worker' = [worker EXCEPT !.session = SessionAfter(Head(requests))]
      BY <2>1 DEF Handles
    <3>3. worker' \in WT
      <4>1. SessionAfter(Head(requests)) = worker'.session
        BY <1>1, <3>2
      <4> QED BY <1>1, <3>1, <3>2, <4>1
    <3> QED BY <3>1, <3>3
  <2>2. CASE Refuses \/ Crashes
    BY <1>2, <2>2 DEF Refuses, Crashes
  <2>3. CASE PrintsStray
    <3>1. /\ responses = << >> /\ responses' = <<Stray>> /\ UNCHANGED <<provider, requests, worker>>
          /\ UNCHANGED runner /\ worker.alive
      BY <1>21, <2>3 DEF Worker, PrintsStray
    <3>2. ~provider.poisoned /\ LeaseFollows /\ Conversation
      BY <3>1 DEF BridgeFollows
    <3>3. LeaseFollows'
      BY <3>1, <3>2 DEF LeaseFollows, runner
    <3>4. Conversation'
      BY <3>1, <3>2
         DEF Conversation, OnlyStray, SessionFollows, NoLayerHeld, Asked, ReleaseOp, session, runner
    <3> QED BY <1>1, <3>1, <3>2, <3>3, <3>4 DEF BridgeFollows
  <2> QED BY <1>21, <2>1, <2>2, <2>3 DEF Worker, WorkerNext
<1> QED
  BY <1>9, <1>10, <1>11, <1>13, <1>14, <1>15, <1>16, <1>17, <1>18, <1>19, <1>20, <1>21
     DEF Next, InStep

-----------------------------------------------------------------------------
(* The theorems *)

(* The runner starts in the invariant. *)
LEMMA InitInvariance == Init => IInv
<1> SUFFICES ASSUME Init
             PROVE  IInv
  OBVIOUS
<1> USE ProfileAssumption DEF Init
<1>1. BridgeTypes
  BY DEF BridgeInit, BridgeTypes, Provider, NoLayer, NoFinals, TokenOrNone
<1>2. ExecutorTypes
  BY DEF ExecutorInit, NewExecutor, NewArena, ExecutorTypes, Active
<1>3. RunnerTypes /\ Places
  <2>1. state \in [position : Nat, poisoned : BOOLEAN, committed : Nat] /\ ~state.poisoned
    BY DEF FreshState
  <2>2. layer \in 1..Layers /\ pc \in Locations /\ token \in TokenOrNone
    BY DEF Locations, TokenOrNone
  <2>3. failed \in BOOLEAN /\ ~failed
    OBVIOUS
  <2> QED BY <2>1, <2>2, <2>3 DEF RunnerTypes, Places, NoFinals
<1>4. InSync
  <2>3. Acknowledgements = 0 /\ LayersDone = 0 /\ RouteHeld = FALSE /\ CallUnderWay = << >>
    BY DEF Acknowledgements, LayersDone, RouteHeld, CallUnderWay
  <2>1. ExecutorFollows /\ calls = CallUnderWay
    BY <2>3 DEF ExecutorInit, NewExecutor, ExecutorFollows
  <2>2. ArenaFollows
    BY DEF ExecutorInit, NewArena, FreshState, ArenaFollows, Absorptions, Absorbing, Acknowledgements
  <2> QED BY <2>1, <2>2 DEF InSync
<1>5. FinalsAreNew
  BY DEF FinalsAreNew
<1>6. BridgeFollows
  BY DEF BridgeInit, BridgeFollows, LeaseFollows, Loaded, Conversation, OnlyStray, SessionFollows,
         NoLayerHeld, session
<1> QED BY <1>1, <1>2, <1>3, <1>4, <1>5, <1>6 DEF IInv

(* In every behaviour, for any number of layers and tokens, the runner, the
   executor with its arena, the provider and the worker are where IInv puts them. *)
THEOREM Invariance == Spec => []IInv
<1>1. IInv /\ [Next]_vars => IInv'
  BY RunnerTypesStep, ExecutorTypesStep, InSyncStep, FinalsAreNewStep, BridgeStep DEF IInv
<1> QED BY InitInvariance, <1>1, PTL DEF Spec

(* A state that step accepts comes with an executor that is neither poisoned nor
   in the middle of a token, and with no call that could still write its arena. *)
THEOREM ExecutorIsReady == Spec => []ReadyForNextToken
<1>1. IInv => ReadyForNextToken
  <2> SUFFICES ASSUME IInv, pc = "idle", ~state.poisoned
               PROVE  ~executor.poisoned /\ InOrder("embed_row", 1, token, state.position) /\ calls = << >>
    BY DEF ReadyForNextToken
  <2>1. ExecutorFollows /\ calls = CallUnderWay
    BY DEF IInv, InSync, Places
  <2>2. Acknowledgements = 0 /\ LayersDone = 0 /\ RouteHeld = FALSE /\ CallUnderWay = << >>
    BY DEF Acknowledgements, LayersDone, RouteHeld, CallUnderWay
  <2> QED BY <2>1, <2>2 DEF ExecutorFollows, InOrder
<1> QED BY Invariance, <1>1, PTL

(* A state that step accepts has absorbed whole tokens only: no step that failed
   half way, at whatever point, can be continued or retried on it. *)
THEOREM OnlyWholeTokens == Spec => []WholeTokens
<1>1. IInv => WholeTokens
  <2> SUFFICES ASSUME IInv, pc = "idle", ~state.poisoned
               PROVE  Len(arena.absorbed) = state.committed
    BY DEF WholeTokens
  <2>1. ArenaFollows /\ state.committed \in Nat
    BY DEF IInv, InSync, Places, RunnerTypes
  <2>2. Absorptions = 0
    BY DEF Absorptions, Absorbing, Acknowledgements
  <2> QED BY <2>1, <2>2 DEF ArenaFollows
<1> QED BY Invariance, <1>1, PTL

(* When step has returned, by whichever way out, a provider that can still write
   to a worker holds no layer and no ticket. *)
THEOREM LeaseIsReleased == Spec => []LeaseReleasedOrGone
<1>1. IInv => LeaseReleasedOrGone
  BY DEF IInv, BridgeFollows, LeaseFollows, Loaded, LeaseReleasedOrGone, Writable, Free
<1> QED BY Invariance, <1>1, PTL

(* Whenever no line is under way, the provider and the worker's session agree on
   the layer that is live and on how far it is loaded. *)
THEOREM BridgeAgreement == Spec => []BridgeAgrees
<1>1. IInv => BridgeAgrees
  <2> SUFFICES ASSUME IInv, Quiet, pc # "releasing"
               PROVE  IF provider.live # NoLayer
                      THEN /\ InPhase({IF provider.ready THEN "layer_ready" ELSE "base_ready"})
                           /\ session.layer = provider.live
                           /\ session.token = provider.token
                      ELSE session = NoSession \/ InPhase({"awaiting_layer", "complete"})
    BY DEF BridgeAgrees
  <2>1. Conversation /\ requests = << >> /\ responses = << >>
    BY DEF IInv, BridgeFollows, Quiet, Writable
  <2>2. SessionFollows
    BY <2>1, Lines DEF Conversation
  <2> QED BY <2>2, SessionAssumption DEF SessionFollows, NoLayerHeld, InPhase
<1> QED BY Invariance, <1>1, PTL

(* A token is committed only when its embedding and every layer's attention and
   experts were done in the arena, once each and in order, and its logits come
   from final artifacts delivered during the same step. *)
THEOREM CommitsWholePasses == Spec => CommitIsWholePass
<1>1. ASSUME IInv, [Next]_vars, state'.position = state.position + 1
      PROVE  /\ SubSeq(arena.absorbed, state.committed + 1, Len(arena.absorbed)) = WholePass
             /\ heads >= first_id
  <2>1. state.position \in Nat /\ state.committed \in Nat
    BY <1>1 DEF IInv, RunnerTypes
  <2>2. Commits
    <3>1. state'.position # state.position /\ state'.position # 0
      BY <1>1, <2>1
    <3>2. state' # state /\ state' # [state EXCEPT !.poisoned = TRUE]
      <4>1. state \in [position : Nat, poisoned : BOOLEAN, committed : Nat]
        BY <1>1 DEF IInv, RunnerTypes
      <4> QED BY <3>1, <4>1
    <3>3. ~Rebuilds
      BY <3>1 DEF Rebuilds, FreshState
    <3>4. ~(\E t \in Tokens : StepBegins(t)) /\ ~Drops /\ ~Worker /\ ~Peer /\ ~UNCHANGED vars
      BY <3>2 DEF StepBegins, Drops, Worker, Peer, vars, runner
    <3>6. ~StepErr /\ ~OperatorErr /\ ~CleanUp
      BY <3>2 DEF StepErr, OperatorErr, CleanUp
    <3>7. ASSUME NEW next
          PROVE  ~GoTo(next)
      BY <3>2 DEF GoTo
    <3>5. InStep
      BY <1>1, <3>3, <3>4 DEF Next
    <3> QED
      BY <3>2, <3>5, <3>6, <3>7
         DEF InStep, BeginsBase, WaitsBase, Embeds, Embedded, Attends, Attended, BeginsRouted,
             WaitsRouted, RunsMoe, RanMoe, Releases, WaitsReleased, AfterRelease, Takes,
             CallsHead, HeadErr, Begins, Ends
  <2>3. pc = "in_head"
    BY <2>2 DEF Commits
  <2>4. heads >= first_id
    BY <1>1, <2>3 DEF IInv, FinalsAreNew, RunnerTypes
  <2>5. ArenaFollows /\ Absorptions = 2 * Layers + 1
    BY <1>1, <2>3 DEF IInv, InSync, Places, Absorptions, Absorbing, Acknowledgements
  <2> DEFINE n == 2 * Layers + 1
             from == state.committed + 1
             last == Len(arena.absorbed)
             suffix == SubSeq(arena.absorbed, from, last)
  <2>6. /\ n \in Nat /\ from \in Int /\ last \in Int /\ last - from + 1 = n /\ from <= last
        /\ \A i \in 1..n : arena.absorbed[from + i - 1] = WholePass[i] /\ from + i - 1 \in 1..last
    <3>1. last = state.committed + n /\ n \in Nat /\ n >= 1
      BY <2>5, ProfileAssumption DEF ArenaFollows
    <3>2. ASSUME NEW i \in 1..n
          PROVE  from + i - 1 = state.committed + i /\ state.committed + i \in 1..last
      BY <2>1, <3>1
    <3>3. \A i \in 1..n : arena.absorbed[state.committed + i] = WholePass[i]
      BY <2>5 DEF ArenaFollows
    <3> HIDE DEF n, from, last
    <3>4. \A i \in 1..n : arena.absorbed[from + i - 1] = WholePass[i] /\ from + i - 1 \in 1..last
      BY <3>2, <3>3
    <3>5. from \in Int /\ last \in Int /\ last - from + 1 = n /\ from <= last
      BY <2>1, <3>1 DEF from
    <3> QED BY <3>1, <3>4, <3>5
  <2>7. arena.absorbed \in Seq(Op)
    BY <1>1 DEF IInv, ExecutorTypes
  <2>8. \A i \in 1..last : arena.absorbed[i] \in Op
    BY <2>7, ElementOfSeq
  <2>9. WholePass \in Seq(Op) /\ Len(WholePass) = n
    <3>1. DOMAIN WholePass = 1..n /\ WholePass = [i \in 1..n |-> WholePass[i]]
      BY DEF WholePass
    <3>2. \A i \in 1..n : WholePass[i] \in Op
      BY <2>6, <2>8
    <3>3. WholePass \in [1..n -> Op]
      BY <3>1, <3>2
    <3> HIDE DEF n
    <3>4. WholePass \in Seq(Op)
      BY <2>6, <3>3, SeqDef
    <3> QED BY <3>4, WholePassAt DEF n
  <2> HIDE DEF n, from, last
  <2>10. /\ suffix \in Seq(Op) /\ Len(suffix) = n
         /\ \A i \in 1..n : suffix[i] = arena.absorbed[from + i - 1]
    <3>1. \A i \in from..last : arena.absorbed[i] \in Op
      BY <2>1, <2>6, <2>8 DEF from
    <3> QED BY <2>6, <3>1, SubSeqProperties
  <2>11. suffix = WholePass
    BY <2>6, <2>9, <2>10, SeqEqual
  <2> QED BY <2>4, <2>11 DEF from, last
<1> QED BY Invariance, <1>1, PTL DEF Spec, CommitIsWholePass
=============================================================================
