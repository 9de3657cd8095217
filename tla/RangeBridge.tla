----------------------------- MODULE RangeBridge -----------------------------
(***************************************************************************)
(* SubprocessRangeProvider (scheduler/s14_runner/src/range_bridge.rs) and  *)
(* the worker process it drives (s14_runner/python/range_worker.py with    *)
(* RouteFirstSession of s14_range_pack/online_range.py).  The provider     *)
(* writes one JSON line per request and waits, for a bounded time, for the *)
(* line that answers it:                                                   *)
(*                                                                         *)
(*   prepare_base -> prepare_routed -> release_layer   (or abort_layer)    *)
(*                                                                         *)
(* for each layer in turn.  The worker may refuse a request and exit, die  *)
(* without a word, hang, print a line that is no answer, or answer with    *)
(* pages that do not pass the provider's checks.                           *)
(***************************************************************************)
EXTENDS S14Profile, Sequences

CONSTANT NoSession   \* None of Worker.session

NoLayer == 0   \* None of pending_base, pending_routed and live_layer
NoFinals == 0  \* final_artifacts is empty

VARIABLES
  provider,    \* the fields of SubprocessRangeProvider
  requests,    \* lines written to the worker's stdin
  responses,   \* lines the reader thread took from its stdout
  worker       \* is the process alive, and its session

bridge == <<provider, requests, responses, worker>>

(* spawn, after a hello that was confirmed.  final_artifacts are identified
   by the request that brought them. *)
BridgeInit ==
  /\ provider = [base |-> NoLayer, routed |-> NoLayer, live |-> NoLayer,
                 ready |-> FALSE, token |-> NoToken, finals |-> NoFinals,
                 poisoned |-> FALSE, next_id |-> 2]
  /\ requests = << >>
  /\ responses = << >>
  /\ worker = [alive |-> TRUE, session |-> NoSession]

-----------------------------------------------------------------------------
(* Lines *)

Request(op, l, t) == [id |-> provider.next_id, op |-> op, layer |-> l, token |-> t]

(* A poisoned provider writes nothing; a write to an exited worker fails. *)
Writable == ~provider.poisoned /\ worker.alive

(* A call that allocates a request id and writes the line. *)
Send(op, l, t, p) ==
  /\ Writable
  /\ provider' = [p EXCEPT !.next_id = @ + 1]
  /\ requests' = Append(requests, Request(op, l, t))
  /\ UNCHANGED <<responses, worker>>

SendFails(p) ==
  /\ ~Writable
  /\ provider' = [p EXCEPT !.next_id = @ + 1]
  /\ UNCHANGED <<requests, responses, worker>>

(* terminate: the worker is killed, the provider never used again. *)
Terminate ==
  /\ provider' = [provider EXCEPT !.poisoned = TRUE]
  /\ worker' = [worker EXCEPT !.alive = FALSE]
  /\ requests' = << >>

(* receive, and the checks of the caller on the answer: "sound" stands for
   its layer, experts and artifacts being the ones asked for. *)
Accepted(op) ==
  /\ responses # << >>
  /\ LET r == Head(responses) IN
     /\ r.line = "answer"
     /\ r.id = provider.next_id - 1
     /\ r.op = op
     /\ r.status = "ok"
     /\ r.sound

(* Mutation: an answer that is refused does not end the worker. *)
ReceiveFails_Survives(op) ==
  /\ responses # << >>
  /\ ~Accepted(op)
  /\ responses' = Tail(responses)
  /\ UNCHANGED <<provider, requests, worker>>

ReceiveFails(op) ==
  /\ responses # << >>
  /\ ~Accepted(op)
  /\ responses' = Tail(responses)
  /\ Terminate

(* Mutation: recv without a timeout. *)
TimesOut_Never == FALSE /\ UNCHANGED bridge

(* recv_timeout elapses. *)
TimesOut ==
  /\ responses = << >>
  /\ Terminate
  /\ UNCHANGED responses

Receive(op, p) ==
  /\ Accepted(op)
  /\ provider' = p
  /\ responses' = Tail(responses)
  /\ UNCHANGED <<requests, worker>>

-----------------------------------------------------------------------------
(* The provider's methods: each has a way to return Ok and a way to return Err. *)

Free == provider.base = NoLayer /\ provider.routed = NoLayer /\ provider.live = NoLayer

BeginBaseLoad(l, t) ==
  /\ Free
  /\ l = 1 \/ provider.token = t
  /\ Send("prepare_base", l, t, [provider EXCEPT !.token = t, !.base = l])

BeginBaseLoadErr(l, t) ==
  \/ /\ ~(Free /\ (l = 1 \/ provider.token = t))
     /\ UNCHANGED bridge
  \/ /\ Free /\ (l = 1 \/ provider.token = t)
     /\ SendFails([provider EXCEPT !.token = t])

WaitBaseReady ==
  Receive("prepare_base",
          [provider EXCEPT !.base = NoLayer, !.live = provider.base, !.ready = FALSE])

WaitBaseReadyErr == ReceiveFails("prepare_base") \/ TimesOut

BeginRoutedLoad(l) ==
  /\ provider.live = l
  /\ provider.routed = NoLayer
  /\ Send("prepare_routed", l, provider.token, [provider EXCEPT !.routed = l])

BeginRoutedLoadErr(l) ==
  \/ /\ ~(provider.live = l /\ provider.routed = NoLayer)
     /\ UNCHANGED bridge
  \/ /\ provider.live = l /\ provider.routed = NoLayer
     /\ SendFails(provider)

WaitRoutedReady ==
  Receive("prepare_routed", [provider EXCEPT !.routed = NoLayer, !.ready = TRUE])

WaitRoutedReadyErr == ReceiveFails("prepare_routed") \/ TimesOut

(* release_layer: one roundtrip, which only an idle live layer begins. *)
ReleaseOp == IF provider.ready THEN "release_layer" ELSE "abort_layer"
Releasable(l) ==
  provider.live = l /\ provider.base = NoLayer /\ provider.routed = NoLayer

ReleaseBegins(l) ==
  /\ Releasable(l)
  /\ Send(ReleaseOp, l, provider.token, provider)

ReleaseBeginsErr(l) ==
  \/ ~Releasable(l) /\ UNCHANGED bridge
  \/ Releasable(l) /\ SendFails(provider)

Released == [provider EXCEPT !.live = NoLayer, !.ready = FALSE]

(* The answer for the last layer carries the final artifacts. *)
ReleaseEnds(l) ==
  IF l < Layers THEN Receive(ReleaseOp, Released)
  ELSE /\ Accepted(ReleaseOp)
       /\ Head(responses).finals
       /\ Receive(ReleaseOp,
            [Released EXCEPT !.token = NoToken, !.finals = Head(responses).id])

ReleaseEndsErr(l) ==
  \/ ReceiveFails(ReleaseOp)
  \/ TimesOut
  \/ /\ l = Layers
     /\ Accepted(ReleaseOp)
     /\ ~Head(responses).finals
     /\ responses' = Tail(responses)
     /\ Terminate

TakeFinalArtifacts ==
  /\ Free
  /\ provider.finals # NoFinals
  /\ provider' = [provider EXCEPT !.token = NoToken, !.finals = NoFinals]
  /\ UNCHANGED <<requests, responses, worker>>

TakeFinalArtifactsErr == ~(Free /\ provider.finals # NoFinals) /\ UNCHANGED bridge

(* Drop: a shutdown line, then terminate without waiting for its answer. *)
DropProvider ==
  /\ Terminate
  /\ UNCHANGED responses

-----------------------------------------------------------------------------
(* The worker.  Between two requests its session is in one of four phases:
   the others are left again, or the process exits, within one request. *)

Phase == {"awaiting_layer", "base_ready", "layer_ready", "complete"}
Session == [phase : Phase, layer : 1..(Layers + 1), token : Tokens \cup {NoToken}]
ASSUME SessionAssumption == NoSession \notin Session

session == worker.session
InPhase(ps) == session # NoSession /\ session.phase \in ps
At(q) == session.layer = q.layer /\ session.token = q.token

(* What RouteFirstSession and Worker.handle demand of a request. *)
Permitted(q) ==
  CASE q.op = "prepare_base" /\ q.layer = 1 -> session = NoSession \/ InPhase({"complete"})
    [] q.op = "prepare_base" /\ q.layer # 1 ->
         InPhase({"awaiting_layer"}) /\ session.layer = q.layer
    [] q.op = "prepare_routed" -> InPhase({"base_ready"}) /\ At(q)
    [] q.op = "release_layer"  -> InPhase({"layer_ready"}) /\ At(q)
    [] q.op = "abort_layer"    -> InPhase({"base_ready", "layer_ready"}) /\ At(q)

(* Mutation: aborting a layer leaves the session where it was. *)
SessionAfter_AbortKept(q) ==
  CASE q.op = "prepare_base"   -> [phase |-> "base_ready", layer |-> q.layer, token |-> q.token]
    [] q.op = "prepare_routed" -> [session EXCEPT !.phase = "layer_ready"]
    [] q.op = "release_layer"  ->
         [phase |-> IF q.layer = Layers THEN "complete" ELSE "awaiting_layer",
          layer |-> q.layer + 1, token |-> NoToken]
    [] q.op = "abort_layer"    -> session

SessionAfter(q) ==
  CASE q.op = "prepare_base"   -> [phase |-> "base_ready", layer |-> q.layer, token |-> q.token]
    [] q.op = "prepare_routed" -> [session EXCEPT !.phase = "layer_ready"]
    [] q.op = "release_layer"  ->
         [phase |-> IF q.layer = Layers THEN "complete" ELSE "awaiting_layer",
          layer |-> q.layer + 1, token |-> NoToken]
    [] q.op = "abort_layer"    -> NoSession

(* Requests that read pages from RangeCache, which may fail. *)
Fetches(q) ==
  \/ q.op \in {"prepare_base", "prepare_routed"}
  \/ q.op = "release_layer" /\ q.layer = Layers

Answer(q, status, sound) ==
  [line |-> "answer", id |-> q.id, op |-> q.op, status |-> status, sound |-> sound,
   finals |-> q.op = "release_layer" /\ q.layer = Layers]
Stray == [line |-> "stray"]
EOF   == [line |-> "eof"]

Handles ==
  /\ worker.alive
  /\ requests # << >>
  /\ Permitted(Head(requests))
  /\ requests' = Tail(requests)
  /\ \E sound \in BOOLEAN :
       responses' = Append(responses, Answer(Head(requests), "ok", sound))
  /\ worker' = [worker EXCEPT !.session = SessionAfter(Head(requests))]
  /\ UNCHANGED provider

(* Any exception: an error line, and exit 1. *)
Refuses ==
  /\ worker.alive
  /\ requests # << >>
  /\ ~Permitted(Head(requests)) \/ Fetches(Head(requests))
  /\ requests' = << >>
  /\ responses' = responses \o <<Answer(Head(requests), "error", FALSE), EOF>>
  /\ worker' = [worker EXCEPT !.alive = FALSE]
  /\ UNCHANGED provider

Crashes ==
  /\ worker.alive
  /\ requests' = << >>
  /\ responses' = Append(responses, EOF)
  /\ worker' = [worker EXCEPT !.alive = FALSE]
  /\ UNCHANGED provider

(* A line on stdout that is not the answer to anything. *)
PrintsStray ==
  /\ worker.alive
  /\ responses = << >>
  /\ responses' = <<Stray>>
  /\ UNCHANGED <<provider, requests, worker>>

WorkerNext == Handles \/ Refuses \/ Crashes \/ PrintsStray
=============================================================================
