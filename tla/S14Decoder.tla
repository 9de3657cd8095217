----------------------------- MODULE S14Decoder -----------------------------
(***************************************************************************)
(* The reference decoder in Python (polaris_meridian_v1/                   *)
(* s14_first_real_token/executor.py): execute decodes one token or two in  *)
(* a row through the registered layers.  For every layer it fetches the    *)
(* base ranges, computes the attention and the route, submits the route to *)
(* the RouteFirstSession, and only then fetches the routed experts,        *)
(* several at a time when the whole layer fits the download budget, and    *)
(* again when the transport failed.  A token is committed by one           *)
(* assignment of DecoderRuntime.snapshot; a JSON report tells how far the  *)
(* run has come.                                                           *)
(*                                                                         *)
(* A range is one byte long: a transfer that breaks off has brought        *)
(* nothing or everything.  The hidden state of a token is what it has been *)
(* computed from: the windows that the layers so far have attended to.     *)
(***************************************************************************)
EXTENDS Naturals, FiniteSetsExt, SequencesExt

CONSTANTS
  Layers,        \* how many layers REGISTERED_LAYERS names
  Experts,       \* experts of a layer
  TopK,          \* experts of a route
  Tokens, BOS,   \* token ids, and the one that decoding starts with
  Native(_),     \* the network: its token after a context
  Stray,         \* a token that no computation should give
  Attempts,      \* range_attempts
  Budgets,       \* values of download_budget_bytes
  MaxWorkers,    \* the largest value of range_workers
  Warm           \* the sets of ranges that the cache directory may hold

ASSUME DecoderAssumption ==
  /\ Layers \in Nat \ {0} /\ TopK \in Nat \ {0} /\ Attempts \in Nat \ {0}
  /\ BOS \in Tokens /\ Stray \in Tokens /\ IsFiniteSet(Experts)
  /\ Budgets \subseteq Nat

(* The argmax of the network is a token id, after any context of a run. *)
Contexts == UNION {[1..n -> Tokens] : n \in 1..2}
ASSUME NativeAssumption == \A c \in Contexts : Native(c) \in Tokens

VARIABLES
  config,      \* the ExecutionConfig
  pc,          \* where execute is
  snapshot,    \* DecoderRuntime.snapshot
  session,     \* the RouteFirstSession: its phase, its layer and its route
  work,        \* the locals of run_token and worker
  attempt,     \* of _fetch_routed_with_retries
  todo,        \* the ranges that fetch_routed has still to fetch
  pool,        \* the futures of _prefetch_submitted_experts, by expert
  cause,       \* the exception that the pool is left with
  cache,       \* RangeCache: what is on disk, and the download budget
  report,      \* the report in memory
  disk         \* the report in its file

routing == <<attempt, todo, pool, cause>>
vars == <<config, pc, snapshot, session, work, routing, cache, report, disk>>

Config ==
  {c \in [allow : BOOLEAN, budget : Budgets \cup {0}, workers : 1..MaxWorkers,
          tokens : 1..2, stop : 0..Layers] :
     /\ c.allow => c.budget > 0
     /\ c.stop # 0 => c.tokens = 1}

-----------------------------------------------------------------------------
(* The range cache, as far as the decoder can tell (the module RangeCache    *)
(* has the whole of it).                                                     *)

Embedding(t) == <<"embedding", t>>
Base(l) == <<"base", l>>            \* non_expert and router
Shared(l) == <<"shared", l>>
Expert(l, e) == <<"expert", l, e>>
Final == <<"final">>

Remaining(r) == IF r \in cache.part THEN 0 ELSE 1
Permitted(r) ==
  /\ config.allow
  /\ cache.used + cache.reserved + Remaining(r) <= config.budget

Answer(kind, received) == [kind |-> kind, received |-> received]

(* What the network makes of a transfer; the last is one byte too many. *)
Transfers ==
  {Answer("ok", 1), Answer("transport", 0), Answer("transport", 1),
   Answer("contract", 0), Answer("contract", 1), Answer("contract", 2)}

(* A file that is there may fail its checks; a .part that is complete needs  *)
(* no transfer.                                                              *)
Answers(r) ==
  CASE r \in cache.have -> {Answer("ok", 0), Answer("contract", 0)}
    [] r \notin cache.have /\ ~Permitted(r) -> {Answer("refused", 0)}
    [] r \notin cache.have /\ Permitted(r) /\ r \in cache.part -> {Answer("ok", 0)}
    [] OTHER -> Transfers

Settled(c, r, a) ==
  [c EXCEPT !.have = IF a.kind = "ok" THEN @ \cup {r} ELSE @,
            !.part = CASE a.kind = "ok" -> @ \ {r}
                       [] a.kind = "transport" /\ a.received = 1 -> @ \cup {r}
                       [] OTHER -> @,
            !.used = @ + a.received]

(* RangeCache.fetch in the main thread, while the pool is not running. *)
Fetches(r, kinds) ==
  \E a \in Answers(r) : a.kind \in kinds /\ cache' = Settled(cache, r, a)

Broken == {"contract", "refused"}
Errors == Broken \cup {"transport"}

-----------------------------------------------------------------------------
(* The report *)

(* _write_json(report_path, report), after which execute goes on at next; or *)
(* the file cannot be written, which raises like anything else.              *)
Saves(r, next) ==
  /\ report' = r
  /\ \/ disk' = r /\ pc' = next
     \/ disk' = disk /\ pc' = "handler"

Raises ==
  /\ pc' = "handler"
  /\ UNCHANGED <<report, disk>>

OfToken(r, f, x) == [r EXCEPT !.tokens[Len(r.tokens)][f] = x]
BaseReport == [status |-> "running", tokens |-> << >>, committed |-> << >>]
TokenReport == [status |-> "running", state_committed |-> FALSE]

(* execute before its try: the first report, or none at all. *)
Begins ==
  /\ pc = "begin"
  /\ \/ report' = BaseReport /\ disk' = BaseReport /\ pc' = "boot"
     \/ report' = BaseReport /\ UNCHANGED disk /\ pc' = "raised"
  /\ UNCHANGED <<config, snapshot, session, work, routing, cache>>

(* The asset root, the catalogue and the cache are there, or they are not. *)
Boots ==
  /\ pc = "boot"
  /\ pc' \in {"token", "handler"}
  /\ UNCHANGED <<config, snapshot, session, work, routing, cache, report, disk>>

-----------------------------------------------------------------------------
(* A token *)

NewSession == [phase |-> "init", layer |-> 1, route |-> {}]
Requested == Len(snapshot.committed) < config.tokens

(* run_token: the layer states are cloned, the session is new. *)
TokenStarts ==
  /\ pc = "token"
  /\ Requested
  /\ session' = NewSession
  /\ work' = [previous |-> snapshot.windows, next |-> << >>, seen |-> {}, planned |-> FALSE]
  /\ Saves([report EXCEPT !.tokens = Append(@, TokenReport)], "embedding")
  /\ UNCHANGED <<config, snapshot, routing, cache>>

(* prepare_embedding_row *)
Embeds ==
  /\ pc = "embedding"
  /\ LET r == Embedding(snapshot.input) IN
     \/ /\ Fetches(r, {"ok"})
        /\ session' = [session EXCEPT !.phase = "awaiting_layer"]
        /\ Saves(report, "base")
     \/ /\ Fetches(r, Errors)
        /\ Raises /\ UNCHANGED session
  /\ UNCHANGED <<config, snapshot, work, routing>>

(* Mutation: the state that is committed is written to. *)
Attended_InPlace(l) ==
  LET window == Append(work.previous[l], snapshot.input) IN
  /\ snapshot' = [snapshot EXCEPT !.windows[l] = window]
  /\ work' = [work EXCEPT !.next = Append(@, window), !.seen = @ \cup {window}, !.planned = FALSE]

(* _advance_window_kv and _advance_compressor_state: the clone of the layer  *)
(* state takes in the current token.                                         *)
Attended(l) ==
  LET window == Append(work.previous[l], snapshot.input) IN
  /\ work' = [work EXCEPT !.next = Append(@, window), !.seen = @ \cup {window}, !.planned = FALSE]
  /\ UNCHANGED snapshot

(* _attention: the state of the layer is that of the token before. *)
Continuous(l) == Len(work.previous[l]) = snapshot.position

(* prepare_layer, prepare_route and submit_top6: only now is the route known. *)
Routes ==
  /\ pc = "base"
  /\ LET l == session.layer IN
     \/ /\ Fetches(Base(l), {"ok"})
        /\ Continuous(l)
        /\ Attended(l)
        /\ \E route \in kSubset(TopK, Experts) :
             session' = [session EXCEPT !.phase = "routed", !.route = route]
        /\ attempt' = 1
        /\ Saves(report, "prefetch")
     \/ /\ \/ Fetches(Base(l), Errors)
           \/ Fetches(Base(l), {"ok"}) /\ ~Continuous(l)
        /\ Raises /\ UNCHANGED <<snapshot, session, work, attempt>>
  /\ UNCHANGED <<config, todo, pool, cause>>

-----------------------------------------------------------------------------
(* _prefetch_submitted_experts *)

NoPool == << >>
Routed == {Expert(session.layer, e) : e \in session.route}
Futures == DOMAIN pool
InPhase(phases) == {r \in Futures : pool[r] \in phases}
Finished == Errors \cup {"ok"}

(* Mutation: the budget is compared with what it was at the start. *)
Affordable_Once == Cardinality(Routed) <= config.budget

(* The bytes of the whole route, those on disk included. *)
Affordable == Cardinality(Routed) + cache.used <= config.budget

Sequential == config.workers = 1 \/ ~config.allow
FetchRouted == <<Shared(session.layer)>> \o SetToSeq(Routed)

(* The plan is reported when the layer is first tried. *)
Plans ==
  /\ pc = "prefetch"
  /\ LET parallel == ~Sequential /\ Affordable
         next == IF parallel THEN "pool" ELSE "routed"
     IN
     /\ todo' = FetchRouted
     /\ IF Sequential \/ work.planned
        THEN pc' = next /\ UNCHANGED <<work, report, disk>>
        ELSE work' = [work EXCEPT !.planned = TRUE] /\ Saves(report, next)
     /\ pool' = IF pc' = "pool" THEN [r \in Routed |-> "queued"] ELSE NoPool
  /\ cause' = "ok"
  /\ UNCHANGED <<config, snapshot, session, attempt, cache>>

(* A worker of the pool enters fetch: a hit or a refusal ends it there, a    *)
(* miss reserves what it is going to read.                                   *)
PoolBegins(r) ==
  /\ pool[r] = "queued"
  /\ Cardinality(InPhase({"running"})) < config.workers
  /\ IF r \notin cache.have /\ Permitted(r)
     THEN /\ pool' = [pool EXCEPT ![r] = "running"]
          /\ cache' = [cache EXCEPT !.reserved = @ + Remaining(r)]
     ELSE \E a \in Answers(r) : pool' = [pool EXCEPT ![r] = a.kind] /\ UNCHANGED cache
  /\ UNCHANGED <<config, pc, snapshot, session, work, attempt, todo, cause, report, disk>>

PoolEnds(r) ==
  /\ pool[r] = "running"
  /\ \E a \in IF r \in cache.part THEN {Answer("ok", 0)} ELSE Transfers :
       /\ pool' = [pool EXCEPT ![r] = a.kind]
       /\ cache' = [Settled(cache, r, a) EXCEPT !.reserved = @ - Remaining(r)]
  /\ UNCHANGED <<config, pc, snapshot, session, work, attempt, todo, cause, report, disk>>

(* as_completed comes to a future that failed, in the order of their ends or, *)
(* of those that ended before it looked, in any: what is still queued is       *)
(* cancelled, and the with block is left with its exception.                 *)
PoolFails(r) ==
  /\ pc = "pool"
  /\ pool[r] \in Errors
  /\ cause' = pool[r]
  /\ pool' = [q \in Futures |-> IF pool[q] = "queued" THEN "cancelled" ELSE pool[q]]
  /\ pc' = "drain"
  /\ UNCHANGED <<config, snapshot, session, work, attempt, todo, cache, report, disk>>

(* Mutation: the pool is left without waiting for its workers. *)
Drained_NoWait == TRUE

Drained == InPhase({"queued", "running"}) = {}

PoolSucceeds ==
  /\ pc = "pool"
  /\ InPhase({"ok"}) = Futures
  /\ pc' = "routed"
  /\ pool' = NoPool
  /\ UNCHANGED <<config, snapshot, session, work, attempt, todo, cause, cache, report, disk>>

(* The end of the with block waits for the workers. *)
PoolRaises ==
  /\ pc = "drain"
  /\ Drained
  /\ cause \in Broken
  /\ Raises
  /\ UNCHANGED <<config, snapshot, session, work, routing, cache>>

-----------------------------------------------------------------------------
(* _fetch_routed_with_retries *)

(* fetch_routed: the shared ranges, then the experts, one after the other. *)
FetchesRouted ==
  /\ pc = "routed"
  /\ Fetches(Head(todo), {"ok"})
  /\ todo' = Tail(todo)
  /\ IF todo' = << >>
     THEN pc' = "finish" /\ session' = [session EXCEPT !.phase = "layer_ready"]
     ELSE UNCHANGED <<pc, session>>
  /\ UNCHANGED <<config, snapshot, work, attempt, pool, cause, report, disk>>

FetchRaises ==
  /\ pc = "routed"
  /\ Fetches(Head(todo), Broken)
  /\ Raises
  /\ UNCHANGED <<config, snapshot, session, work, routing>>

(* Mutation: the attempts are not counted. *)
Retries_Uncounted ==
  /\ Saves(report, "prefetch")
  /\ UNCHANGED attempt

(* The event is reported; the last attempt raises. *)
Retries ==
  IF attempt = Attempts
  THEN Saves(report, "handler") /\ UNCHANGED attempt
  ELSE Saves(report, "prefetch") /\ attempt' = attempt + 1

Retry ==
  /\ \/ pc = "routed" /\ Fetches(Head(todo), {"transport"})
     \/ pc = "drain" /\ Drained /\ cause = "transport" /\ UNCHANGED cache
  /\ Retries
  /\ UNCHANGED <<config, snapshot, session, work, todo, pool, cause>>

-----------------------------------------------------------------------------
(* The end of a layer and of a token *)

(* finish_layer, which may find that the output breaks its contract. *)
FinishesLayer ==
  /\ pc = "finish"
  /\ \/ /\ session' = [phase |-> IF session.layer = Layers THEN "final_pending" ELSE "awaiting_layer",
                       layer |-> session.layer + 1, route |-> {}]
        /\ Saves(report, CASE session.layer = config.stop -> "checkpoint"
                           [] session.layer # config.stop /\ session.layer = Layers -> "final"
                           [] OTHER -> "base")
     \/ Raises /\ UNCHANGED session
  /\ UNCHANGED <<config, snapshot, work, routing, cache>>

Checkpoint ==
  /\ pc = "checkpoint"
  /\ Saves([OfToken(report, "status", "checkpoint_complete") EXCEPT !.status = "checkpoint_complete"],
           "returned")
  /\ UNCHANGED <<config, snapshot, session, work, routing, cache>>

(* The head: the token that the windows all layers agree on lead to. *)
Computed ==
  IF Cardinality(work.seen) = 1 THEN Native(CHOOSE h \in work.seen : TRUE) ELSE Stray

(* Mutation: the report has the token committed before the runtime has. *)
FinalReport_Early(r) ==
  [OfToken(r, "state_committed", TRUE) EXCEPT !.committed = Append(@, Computed)]

FinalReport(r) == OfToken(r, "status", "final_ready_not_committed")

Finals ==
  /\ pc = "final"
  /\ \/ /\ Fetches(Final, {"ok"})
        /\ session' = [session EXCEPT !.phase = "complete"]
        /\ Saves(FinalReport(report), "commit")
     \/ /\ Fetches(Final, Errors)
        /\ Raises /\ UNCHANGED session
  /\ UNCHANGED <<config, snapshot, work, routing>>

Covers == \A l \in 1..Layers : l \in DOMAIN work.next /\ Len(work.next[l]) = snapshot.position + 1

(* run_token: one assignment. *)
Commits ==
  /\ pc = "commit"
  /\ IF Covers
     THEN /\ snapshot' = [position |-> snapshot.position + 1, input |-> Computed,
                          windows |-> work.next, committed |-> Append(snapshot.committed, Computed)]
          /\ pc' = "report"
          /\ UNCHANGED <<report, disk>>
     ELSE Raises /\ UNCHANGED snapshot
  /\ UNCHANGED <<config, session, work, routing, cache>>

Reports ==
  /\ pc = "report"
  /\ Saves([OfToken(OfToken(report, "status", "complete"), "state_committed", TRUE)
              EXCEPT !.committed = snapshot.committed], "token")
  /\ UNCHANGED <<config, snapshot, session, work, routing, cache>>

Completes ==
  /\ pc = "token"
  /\ ~Requested
  /\ Saves([report EXCEPT !.status = "complete"], "returned")
  /\ UNCHANGED <<config, snapshot, session, work, routing, cache>>

(* except Exception of execute: the last token is blocked, whether it was    *)
(* committed or not; what was committed is reported.                         *)
Blocked(r) ==
  [(IF r.tokens = << >> THEN r
    ELSE OfToken(OfToken(r, "status", "blocked"), "state_committed", FALSE))
     EXCEPT !.status = "blocked", !.committed = snapshot.committed]

Handles ==
  /\ pc = "handler"
  /\ report' = Blocked(report)
  /\ \/ disk' = report' /\ pc' = "returned"
     \/ UNCHANGED disk /\ pc' = "raised"
  /\ UNCHANGED <<config, snapshot, session, work, routing, cache>>

-----------------------------------------------------------------------------
Init ==
  /\ config \in Config
  /\ pc = "begin"
  /\ snapshot = [position |-> 0, input |-> BOS, windows |-> [l \in 1..Layers |-> << >>],
                 committed |-> << >>]
  /\ session = NewSession
  /\ work = [previous |-> << >>, next |-> << >>, seen |-> {}, planned |-> FALSE]
  /\ attempt = 1 /\ todo = << >> /\ pool = NoPool /\ cause = "ok"
  /\ \E w \in Warm : cache = [have |-> w, part |-> {}, used |-> 0, reserved |-> 0]
  /\ report = BaseReport
  /\ disk = [status |-> "none", tokens |-> << >>, committed |-> << >>]

Main ==
  \/ Begins \/ Boots
  \/ TokenStarts \/ Embeds \/ Routes
  \/ Plans \/ PoolSucceeds \/ PoolRaises
  \/ (\E r \in Futures : PoolFails(r))
  \/ FetchesRouted \/ FetchRaises \/ Retry
  \/ FinishesLayer \/ Checkpoint
  \/ Finals \/ Commits \/ Reports \/ Completes \/ Handles

Worker(r) == PoolBegins(r) \/ PoolEnds(r)

Next == Main \/ \E r \in Futures : Worker(r)

(* The main thread runs; the transport ends every transfer, as it has a      *)
(* timeout.                                                                  *)
Spec == Init /\ [][Next]_vars /\ WF_vars(Main) /\ WF_vars(\E r \in Futures : Worker(r))

-----------------------------------------------------------------------------
(* Correctness *)

Ranges ==
  {Embedding(t) : t \in Tokens} \cup {Final}
    \cup UNION {{Base(l), Shared(l)} \cup {Expert(l, e) : e \in Experts} : l \in 1..Layers}
Windows == Seq(Tokens)
Report ==
  [status : {"none", "running", "checkpoint_complete", "complete", "blocked"},
   tokens : Seq([status : {"running", "checkpoint_complete", "final_ready_not_committed",
                           "complete", "blocked"}, state_committed : BOOLEAN]),
   committed : Seq(Tokens)]

TypeOK ==
  /\ config \in Config
  /\ pc \in {"begin", "boot", "token", "embedding", "base", "prefetch", "pool", "drain", "routed",
            "finish", "checkpoint", "final", "commit", "report", "handler", "returned", "raised"}
  /\ snapshot \in [position : 0..2, input : Tokens, windows : Seq(Windows), committed : Seq(Tokens)]
  /\ session \in [phase : {"init", "awaiting_layer", "routed", "layer_ready", "final_pending",
                           "complete"}, layer : 1..(Layers + 1), route : SUBSET Experts]
  /\ work \in [previous : Seq(Windows), next : Seq(Windows), seen : SUBSET Windows, planned : BOOLEAN]
  /\ attempt \in 1..Attempts
  /\ todo \in Seq(Ranges)
  /\ Futures \subseteq Ranges
  /\ \A r \in Futures : pool[r] \in Finished \cup {"queued", "running", "cancelled"}
  /\ cause \in Finished
  /\ cache.have \subseteq Ranges /\ cache.part \subseteq Ranges
  /\ cache.used \in Nat /\ cache.reserved \in Nat
  /\ report \in Report /\ disk \in Report

Ended == pc \in {"returned", "raised"}

(* The context that the runtime stands for: what every layer has taken in,   *)
(* and the next input.                                                       *)
Absorbed ==
  LET windows == {snapshot.windows[l] : l \in 1..Layers} IN
  IF Cardinality(windows) = 1 THEN Append(CHOOSE h \in windows : TRUE, snapshot.input) ELSE << >>

(* Whatever fails on the way, at whatever step, the runtime decodes greedily: *)
(* the token log and the states of all the layers move together, by one      *)
(* token that the network gives after exactly that log.                      *)
Greedy == INSTANCE GreedyDecoding WITH
  tokens <- <<BOS>> \o snapshot.committed, state <- Absorbed,
  MaxBlock <- 1, MaxSeqLen <- 3
Decodes == Greedy!GSpec

(* No expert range is ever fetched before its route was submitted, nor after *)
(* the attempt that submitted it is over: through failures, cancellations    *)
(* and retries, what the workers of the pool fetch is the route of the       *)
(* current layer.                                                            *)
PagesOfTheRoute ==
  InPhase({"queued", "running"}) # {} =>
    /\ pc \in {"pool", "drain"}
    /\ session.phase = "routed"
    /\ Futures = Routed

(* Whoever runs beside it, a range that the plan has found affordable is not *)
(* refused for the budget, unless a response was longer than it said.        *)
ParallelIsAffordable ==
  InPhase({"refused"}) # {} => InPhase({"contract"}) # {}

(* Whatever could not be written, and whenever the process ends, the report   *)
(* in the file claims no token that was not committed; one that says that     *)
(* the run is over names all that were.                                      *)
ReportIsHonest ==
  /\ IsPrefix(disk.committed, snapshot.committed)
  /\ disk.status \in {"complete", "blocked"} => disk.committed = snapshot.committed
  /\ disk.status = "complete" => Len(disk.committed) = config.tokens
  /\ \A i \in DOMAIN disk.tokens :
       disk.tokens[i].state_committed => i <= Len(snapshot.committed)

(* Through failed transfers and retries, execute ends. *)
ExecuteEnds == <>Ended

(* Contract, SHA and budget errors stop the run at once: no attempt follows   *)
(* one in which a range broke its contract.                                  *)
ContractErrorStops ==
  [][pc = "drain" /\ pc' = "prefetch" => InPhase(Broken) = {}]_vars
=============================================================================
