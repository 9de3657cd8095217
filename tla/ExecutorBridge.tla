--------------------------- MODULE ExecutorBridge ---------------------------
(***************************************************************************)
(* SubprocessNativeExecutor (scheduler/s14_runner/src/executor_bridge.rs): *)
(* the operators of a token run in a second process.  Requests and answers *)
(* are JSON lines; the recursive state lies in a file, the arena, that     *)
(* both processes map.  The peer first changes the arena and then says so, *)
(* and may die, hang, or say so without having done it in between.         *)
(***************************************************************************)
EXTENDS S14Profile, Sequences

VARIABLES
  executor,    \* the fields of SubprocessNativeExecutor
  arena,       \* what the state in the file went through, and whether the
               \* region that the call under way must fill has changed
  peer,        \* is the process alive
  calls,       \* lines written to its stdin
  lines        \* lines taken from its stdout

native == <<executor, arena, peer, calls, lines>>

(* spawn, after a hello that was confirmed, and ensure_arena. *)
NewExecutor ==
  [active |-> << >>, layer |-> 0, route |-> FALSE, next_id |-> 2, poisoned |-> FALSE]
NewArena == [absorbed |-> << >>, written |-> FALSE]

ExecutorInit ==
  /\ executor = NewExecutor
  /\ arena = NewArena
  /\ peer = [alive |-> TRUE]
  /\ calls = << >>
  /\ lines = << >>

(* Another executor, with a process and an arena of its own. *)
Spawn ==
  /\ executor' = NewExecutor
  /\ arena' = NewArena
  /\ peer' = [alive |-> TRUE]
  /\ calls' = << >>
  /\ lines' = << >>

(* terminate, and Drop *)
Kill ==
  /\ executor' = [executor EXCEPT !.poisoned = TRUE]
  /\ peer' = [alive |-> FALSE]
  /\ calls' = << >>
  /\ UNCHANGED <<arena, lines>>

-----------------------------------------------------------------------------
(* The four operations, each a roundtrip.  active_position and               *)
(* active_token_id are set and cleared together.                             *)

InOrder(op, l, t, position) ==
  CASE op = "embed_row" ->
         l = 1 /\ executor.active = << >> /\ executor.layer = 0 /\ ~executor.route
    [] op = "attention_then_route" ->
         executor.active = <<position, t>> /\ l = executor.layer + 1 /\ ~executor.route
    [] op = "moe_then_hc_post" ->
         executor.active # << >> /\ executor.active[1] = position /\ executor.route
    [] op = "hc_head" ->
         /\ executor.active # << >> /\ executor.active[1] = position
         /\ executor.layer = Layers
         /\ ~executor.route

Reachable == ~executor.poisoned /\ peer.alive

(* The region the operation fills is read, or overwritten with a sentinel. *)
Call(op, l, t, position) ==
  /\ InOrder(op, l, t, position)
  /\ Reachable
  /\ executor' = [executor EXCEPT !.next_id = @ + 1]
  /\ arena' = [arena EXCEPT !.written = FALSE]
  /\ calls' = <<[op |-> op, layer |-> l, token |-> t]>>
  /\ UNCHANGED <<peer, lines>>

(* A call that is out of order or cannot be written; or the arena, the pages
   it is given or the size of the line do not pass. *)
CallErr == Kill

(* Mutation: the region is not looked at. *)
Acknowledged_Unread ==
  /\ lines # << >>
  /\ Head(lines).id = executor.next_id - 1
  /\ Head(lines).status = "ok"

(* "ok" stands for the identity, order and descriptors of the answer, and for
   the values in the region being finite. *)
Acknowledged ==
  /\ lines # << >>
  /\ Head(lines).id = executor.next_id - 1
  /\ Head(lines).status = "ok"
  /\ arena.written

(* Mutation: the head leaves the position active. *)
Advanced_StaysActive(op, t, position) ==
  CASE op = "embed_row"            -> [executor EXCEPT !.active = <<position, t>>]
    [] op = "attention_then_route" -> [executor EXCEPT !.route = TRUE]
    [] op = "moe_then_hc_post"     -> [executor EXCEPT !.route = FALSE, !.layer = @ + 1]
    [] op = "hc_head"              -> [executor EXCEPT !.layer = 0]

Advanced(op, t, position) ==
  CASE op = "embed_row"            -> [executor EXCEPT !.active = <<position, t>>]
    [] op = "attention_then_route" -> [executor EXCEPT !.route = TRUE]
    [] op = "moe_then_hc_post"     -> [executor EXCEPT !.route = FALSE, !.layer = @ + 1]
    [] op = "hc_head"              -> [executor EXCEPT !.active = << >>, !.layer = 0]

Return(op, t, position) ==
  /\ Acknowledged
  /\ executor' = Advanced(op, t, position)
  /\ calls' = << >>
  /\ lines' = Tail(lines)
  /\ UNCHANGED <<arena, peer>>

(* A line that does not pass, the end of the stream, or a timeout. *)
ReturnErr == ~Acknowledged /\ Kill

-----------------------------------------------------------------------------
(* The peer.  The repository has none but the fixtures of its tests: it does *)
(* a call at most once, wholly or in part, and prints any line at any time.  *)

PeerApplies ==
  /\ peer.alive
  /\ calls # << >>
  /\ ~arena.written
  /\ arena' = [absorbed |-> IF Head(calls).op = "hc_head" THEN arena.absorbed
                            ELSE Append(arena.absorbed, Head(calls)),
               written |-> TRUE]
  /\ UNCHANGED <<executor, peer, calls, lines>>

(* The answer to the last call: in time, before the work is done, or once more. *)
PeerAnswers ==
  /\ peer.alive
  /\ lines = << >>
  /\ \E status \in {"ok", "refused"} :
       lines' = <<[id |-> executor.next_id - 1, status |-> status]>>
  /\ UNCHANGED <<executor, arena, peer, calls>>

PeerDies ==
  /\ peer.alive
  /\ peer' = [alive |-> FALSE]
  /\ lines' = Append(lines, [id |-> 0, status |-> "eof"])
  /\ UNCHANGED <<executor, arena, calls>>

PeerNext == PeerApplies \/ PeerAnswers \/ PeerDies
=============================================================================
