# A verification of the Polaris inference runtime

TLA+ modules for the parts of this repository that have a protocol: the exact
cascade session, the single-token runner between the subprocess that loads for
it and the one that computes for it, the range cache behind the first, the
reference decoder in Python, the cache of expert pages, and the VRAM machinery of
the inference engine. TLC checks them on small instances; the TLA+ proof system
proves every safety property that the runs check and find to hold, for every value
of the constants. Liveness is model-checked only.

The repository also holds training scripts, compression experiments, numeric
kernels and launchers. They are listed below and left alone.

1. [Inventory](#1-inventory)
2. [Modules and how they correspond to the code](#2-modules)
3. [Runs, bounds, fairness](#3-runs)
4. [What is proved](#4-what-is-proved)
5. [Disagreements between the code and what it says](#5-disagreements)
6. [Only model-checked, and not modelled](#6-limits)
7. [Plan](#7-plan)

## 1. Inventory

Paths are below `src/`; `S` is `scheduler`, `P` is
`fast16/research/polaris_meridian_v1`, `V0` is
`fast16/research/polaris_meridian_v0/runtime_paging`.

| component | code | state | operations | what is hard | what makes it correct |
|---|---|---|---|---|---|
| Exact cascade session | `S/s14_runner/src/cascade.rs` | token log, native state (position, poison), committed checkpoint, phase, pending round | `begin_round`, `submit_draft`, `make_request`, `finish_response`, `abort_round`, `fail_verification` | replies late, twice, damaged, to abandoned rounds; commit of a prefix | commits what the full model would decode greedily; token log and checkpoint move together |
| S14 runner | `S/s14_runner/src/runner.rs` | recursive state, phase of the layer, events | `step`, `execute_selected_layer`, `into_parts` | a failure at any point of a layer, clean-up that fails as well | a failed step is never continued; layers are released; a token is a whole pass |
| Range bridge | `S/s14_runner/src/range_bridge.rs`, `S/s14_runner/python/range_worker.py`, `RouteFirstSession` | pending base/routed, live layer, final artifacts, poison; pipe; worker session | the provider's six methods, `terminate`, `Drop`; one handler for each op | a worker that refuses, dies, hangs, prints strays or answers wrongly | both ends agree on the live layer; nothing stale is used; no wait without end |
| Range cache | `P/s14_range_pack/online_range.py` (`RangeCache`) | `.bin`, `.part`, `.json`, two budgets, key locks | `fetch`, `_load_hit`, `_reserve`, `_settle`, `__init__` | threads, interrupted and resumed transfers, a process that ends anywhere | official bytes are right, proofs follow payloads, budgets hold |
| VRAM pool | `S/ssd_inference/src/vram_pool.rs` | slot states, generations, pins, access order, key index | reserve, publish, cancel, pin, unpin, lookup, mark ready, withdraw | eviction against use; reservations that outlive their slot | pages in use stay; a reservation owns its slot or nothing |
| MoE page transaction | `S/ssd_inference/src/s14_vulkan.rs` | tickets over two pools | begin, publish, cancel, release | failure in the middle of a list of pages in two pools | all or nothing; pins are exactly the leases |
| Expert loader | `S/ssd_inference/src/expert_loader.rs`, `engine.rs` | staging ring, fences, pending transfers | `enqueue*`, `batch_enqueue`, `wait_all`, `flush`, `destroy` | the GPU copies at any later moment; failed reads and submissions | a visible page holds its data; a batch ends |
| Token loop | `S/ssd_inference/src/forward.rs` | token counter, prefetch list, kernels under way | `step` | prefetch and kernels overlap | picked pages are resident; kernels read what was picked |
| Expert ledger and scheduler | `S/expert_cache/src/cache.rs`, `S/scheduler-core/src/lib.rs` | tier and access order of every expert | `touch`, `request_to_vram`, `on_layer_complete` | drifts from the pool it describes | capacity; agreement with the pool |
| Executor bridge | `S/s14_runner/src/executor_bridge.rs` | active position and token, next layer, pending route, poison; arena file shared with the worker; pipe | `embed_row`, `attention_then_route`, MoE, `hc_head`, `terminate`, `Drop` | the worker says it is done before, without or long after doing it, or dies in between | an acknowledged operation happened once; a sound state comes with an executor between tokens |
| Reference decoder | `P/s14_first_real_token/executor.py` | snapshot (position, input, layer states, tokens), session, retry loop, prefetch pool, report file | `execute`, `run_token`, `_fetch_routed_with_retries`, `_prefetch_submitted_experts`, `_write_json` | transfers that break off or are wrong, several at once, a budget that runs out, a report that cannot be written | decodes greedily; the report claims nothing false; it ends |
| Expert page cache | `V0/page_cache.py`, `V0/page_catalog.py` | LRU table, bytes resident, loads under way, closed; page catalogue | `get`, `prefetch`, `wait`, `close`, `_start`, `_load`, `_complete`; catalogue building | callers, workers and callbacks meet under one lock; reads fail | one load per page, exact eviction, right bytes, quiet shutdown, calls return |
| Contracts, state, gate | `contract.rs`, `state.rs`, `capability.rs`, `abi.rs` | frozen identities, buffer layout | validation | pure, single calls | position, poison and `max_seq_len` are in the runner and the cascade |
| Memory ledger, metrics | `memory.rs`, `metrics.rs` | counters | admit, account | width of the sums | not modelled |
| Predictor, its C interface | `S/predictor`, `S/moe_scheduler_c` | co-occurrence counts | observe, predict | floating-point counts with decay | not modelled |
| Weights, compute, KV cache, GGUF, SSD helper | `S/ssd_inference/src`, `S/gguf_reader`, `S/ssd-helper` | buffers | kernels, parsing, reading | numeric, I/O | not modelled |
| Encoding, launchers, training | `P/s14_chat_encoding`, `fast16`, `colormlm` | — | — | sequential or numeric | not modelled |

How they interact. `LocalS14Runner::step` calls an executor and a provider. The
provider is one end of a JSONL pipe whose other end is `range_worker.py`, which
holds a `RouteFirstSession` over one `RangeCache`; the executor is one end of
another, whose worker changes the recursive state in a file that both map. The
reference decoder runs the same `RouteFirstSession` and `RangeCache` in its own
process, several fetches at a time. A cascade session takes over the same kind of recursive state and
talks to a verifier by request and response only. In the engine, `Forward::step`
is the only caller of the loader, the pool and the scheduler's ledger; the GPU
is a second process that executes submitted copies and kernels when it likes.
The S14 Vulkan pages use two instances of the same pool.

`PROJECT.json` lists the hazards these interactions give rise to, each at its
line with the properties that would catch it.

## 2. Modules

```
GreedyDecoding <-refines- ExactCascade <- MCExactCascade
                                ^-------- ExactCascadeProofs

             RangeBridge <---.
S14Profile <-                 S14Runner <- MCS14Runner
             ExecutorBridge <'    ^------- S14RunnerProofs

GreedyDecoding <-refines- S14Decoder <- MCS14Decoder
                              ^-------- S14DecoderProofs

RangeCache <- MCRangeCache          PageCatalog <- PageCache <- MCPageCache
    ^-------- RangeCacheProofs                         ^------- PageCacheProofs

VramPool <- VramPoolProofs <- MoePagesProofs, ForwardProofs
   ^
   |------- MoePages <- MCMoePages
   |            ^------ MoePagesProofs
   '------- ExpertLoader <- MCExpertLoader
                 ^--------- Forward <- MCForward
            ExpertCache <------'  ^--- ForwardProofs
```

A definition named `X_Something` with the comment "Mutation" is a deliberately
broken variant of `X`; it is used to see that a property notices such a fault,
and appears nowhere in `Next`.

**ExactCascade.** One action for each method of the session; a method that
returns `Err` untouched is a stuttering step. `validate_against` is
`ValidReply`, `validate_and_plan_commit` is `CommitLength`, `CommittedTokens`
and `ClosedPlan`, `rollback_pending` is `RollbackPending`. The verifier is
external: it answers any request that was ever made, as often as it likes, from
the content of that request, and `Delivered` alters an answer by one field
(profile, layer proofs, offset, prediction, position, checkpoint, a missing
position). Two kinds of damage are excluded because no receiver could see
them. One changes a prediction *and* the token it claims to have committed
consistently. The other puts the id of some other checkpoint (of the base, or of
another round) where nothing else in the reply contradicts it: at the last position of
a block, and at any position if the parent that the next one names is changed with it.
`validate_against` compares ids only with those of the same reply and with the parents
(`cascade.rs:209-214`), so it accepts such a reply; that an id stands for the state it
is returned with is the backend's contract (`cascade.rs:92`), which the session takes
on trust. With `AliasedReplies = TRUE` the model delivers replies in which one
position names any checkpoint of the store. The run has `FALSE`; section 4 says which
theorems need it. A checkpoint is represented by the tokens it absorbed, in `store`.
`GreedyDecoding` is the promise to the caller: a log and a state that grow in one
step by greedy tokens.

**RangeBridge** and **S14Runner.** Every method of the provider has an `Ok` and
an `Err` form, so that the runner's step composes them by a disjunction and goes
on to the next phase or cleans up. Requests and answers are two sequences;
`terminate` empties the pipe and kills the worker. The worker's handlers are
`Permitted` (what the session demands), `SessionAfter` (what it does) and
`Handles`/`Refuses`/`Crashes`/`PrintsStray`. Of the session's phases only those
are modelled that it can be in between two requests. `sound` stands for the
checks on content: layer, experts, paths, lengths, hashes. A layer that cannot
be released is aborted; an abort of the last layer is answered without final
artifacts, which the provider takes for a protocol error and terminates — the
model does the same. `Rebuilds` is the
caller that takes the provider out of a failed runner (`into_parts`) and puts it
in a new one with a new executor. After a failed MoE the provider sends `release_layer` all the
same, so that the worker's session advances and the first layer of the next
token is refused; and a MoE failure on the last layer leaves the final artifacts
of that layer in the provider, although `runner.rs:80` says that
`take_final_artifacts` finds them empty at any other time. They are overwritten
before they can be taken, which is what `CommitIsWholePass` checks. Writes to the
pipe do not block, and the `hello` of `spawn` is taken as confirmed.

**ExecutorBridge.** An operation is two steps of the runner, `Call` (checks of
order and artifacts, the sentinel in the region, one line to the worker) and
`Return` (the answer, its identity and epoch, and whether the region changed);
either may fail, which poisons state and bridge and kills the worker. `arena` is
what the shared file went through, one entry for each operation that the worker
did; the worker does an operation at most once, in one piece or not at all, and
independently prints any line at any time. An operation half done before a kill
leaves a poisoned state, as one not done does. The state's epoch advances with
the request id and is checked with it, so one number stands for both. The
repository contains no such worker, only fixtures of its tests; `Peer...` is
therefore external. `ensure_arena` binds the arena to the executor and not to a
`NativeState`: an executor that were kept for a fresh state would keep the old
arena, which is why `Rebuilds` replaces it.

**PageCatalog** and **PageCache.** A tensor is a record of page, component, file,
offset and length; `CoalesceSpans` is the sort and the loop of `_coalesce_spans`,
`Contents` the bytes (identified by their place) that reading a page's spans in
order gives. A step of the cache is what a thread does between taking and
releasing `_lock`, except in `_start`: `StartSubmits` keeps the lock, the worker
may run, and then `Attaches` adds the callback, or `CallsBack` finds the future
finished and runs `_complete` in the thread that holds the lock. A successful read
cannot get there, because `_load` takes the lock for its statistics; a failed one
can. The executor's queue is first in first out. Files do not change.

**S14Decoder.** `execute` step by step, a step ending where a fetch ends, a
worker of the pool could run, or the report is written. `Answers` is what
`RangeCache.fetch` can give for a range: hit, refusal, success, a transport error
that leaves nothing or everything in the `.part` file (a range has one byte), or a
broken contract; `Settled` is what it leaves behind. The two phases of a layer are
`Routes` (base ranges, attention, route) and `Plans`/`Pool...`/`FetchesRouted`
with `Retry` around them. `work` is what `run_token` keeps private; `Commits` is
the one assignment to `snapshot`. The network is a function of the context:
`Attended` appends the current token to what a layer has taken in, and a head
computed from layers that disagree gives `Stray`. `Saves` writes the report or
fails, in which case execution goes to the handler like after any exception.

**RangeCache.** `fetch` in several threads, cut where another thread or the end
of the process can come between: admission (hit, refused hit, miss with
reservation), opening, one step for each byte, the end of the response, hash and
rename, proof. `Restart` ends the process anywhere and starts another, with other
locks and rights, on the files that are left; of a `.part` file that was being
written an unflushed tail may be lost. A byte is right or wrong; the hash of a
range is right exactly when all its bytes are. Files are altered by nobody else,
one process works on a directory at a time (the key locks are local to a
process), and a read returns no more than it was asked for.

**VramPool** defines operators on a pool record, one for each method of
`GenericVramPool`, and has no behaviour of its own. The access clock is a
sequence of slots in access order (two accesses never have the same time); the
64-bit generation and the 32-bit pin count do not wrap. **MoePages** runs two
pools under tickets, with a third party (`Owner...`) that uses the pool's public
methods as the rest of the engine does. The caller publishes only after its
transfer fence, and a page withdrawn from under a ticket was never uploaded.
`release`'s error branch is unreachable, because leased pages stay. A failed
`begin` may already have evicted pages; its rollback does not bring them back,
and neither does the model's. **ExpertLoader** is the ring of staging buffers:
`memory` is what a slot holds, `staging` what a buffer holds, `queue` the
submitted copies; `ExecuteCopy` copies whatever the buffer holds *when the GPU
gets to it*. **Forward** composes loader, pool and ledger; `kernels` are the
page/slot pairs that submitted expert kernels still read. The predictor answers
anything in `Candidates`, the router picks anything in `Picks`. **ExpertCache**
is the ledger, used from one thread: `touch` takes its time before its lock,
which only matters with several; `request_to_vram` skips experts that are
already promoted without touching them; the RAM capacity is not enforced; and
with `vram_capacity = 0` an expert is promoted all the same. The model keeps all
four.

## 3. Runs

| run | question | bounds | result |
|---|---|---|---|
| `exact_cascade` | exactness, checkpoint, rollback, refinement of the greedy decoder | 2 tokens, K in {1, 4}, `max_seq_len` 6, 2 rounds, 9 checkpoints | holds |
| `s14_runner` | failed steps, leases, agreement of both ends, what the executor acknowledged, termination | 3 layers, 2 tokens, 3 steps, 2 positions | holds |
| `bridge_lease` | is a lease released whenever the provider is usable? | the same | violated |
| `range_cache` | proofs, payloads, budgets over threads and restarts | 2 ranges of 2 bytes, 2 threads, budgets 6 and 4, 1 restart | holds |
| `range_proof` | does an official proof name the official hash? | the same | violated |
| `moe_pages` | leases, reservations, all or nothing | 2 tickets, 2 routes that overlap, pools of 3 and 1 slots, 3 reservations by the owner | holds |
| `expert_loader` | visible data, tracked transfers, batches, teardown | 3 slots, ring of 2, batches up to the pool and beyond, 6 loads | holds |
| `forward` | residency, kernels | 2 layers of 3 experts of 2 pages, 2 picks, 1 prediction, 7 slots, 2 tokens | holds |
| `page_cache` | one load per page, eviction, bytes, shutdown, progress | 4 pages of 2, 3, 4 and 7 bytes, capacity 6, 2 threads, 1 worker, 3 calls | holds |
| `page_cache_lock` | does every call return? | the same | violated |
| `s14_decoder` | greedy decoding, prefetch, budget, report, termination | 2 layers of 3 experts, routes of 2, 1 or 2 tokens, 2 attempts, 1 or 2 workers, budgets 0, 3 and 20, cold and warm cache | holds |
| `decoder_contract` | does a contract error stop the run? | the same | violated |

Why the bounds suffice. *Cascade*: the block of four disagrees first, in the
middle, last or nowhere; two rounds are what it takes for a reply of one round to
be about in another; `max_seq_len` 6 is reached by a block that just fits and
refuses one that does not; the model's next token depends on the whole context,
so a token verified behind another prefix is another token. *Runner*: a first, a
middle and a last layer are all the code distinguishes; three steps reach a step
after a failed one on the same provider, and a second committed token.
*RangeCache*: the download budget of six bytes is less than what two ranges need
with one transfer repeated, the cache budget of four is what both ranges need, so
either can refuse; a prefix of one byte is neither empty nor complete. *MoePages*:
two batches do not fit together, and neither do a batch and the owner's pages.
*ExpertLoader*: a batch of three needs two waves and the whole pool, one of four
is refused. *Forward*: two picks are what it
takes for a hit and a miss to meet in one layer; seven of twelve pages is just what a
layer (4), a prefetch (2) and the transfer a failed call leaves behind (1) can occupy.
With six slots `KernelPagesStay` fails, with four `PicksResident` does: the run shows
these two under `RoomForPrefetch` and says nothing of smaller pools (section 5 does).
`Warmup` is 0, so that there is a prefetch after a failed call within two tokens; that
the list grows before `Warmup` is covered by the proof alone. *PageCache*: two pages fit at
most, one page evicts one or two others, one never fits; three calls are a get, a second call that meets it
and a close; one worker leaves loads queued. The pages are a joined pair, two
files that meet at the same offset, a pair around a hole, and one that is too
large. *S14Decoder*: the budget of three runs out in the first layer or, with a
warm cache, at an expert of the second; two attempts are one retry; two tokens are
the code's own limit. Symmetry is used where the
elements are interchangeable in every definition and no liveness is checked:
tickets, keys and threads of the range cache, experts of a layer.

Counters that are bounded only for TLC: `MaxRounds`, `MaxCheckpoints`
(ExactCascade), `MaxSteps` (S14Runner), `MaxRestarts` (RangeCache),
`MaxReserves` (MoePages), `MaxLoads` (ExpertLoader, Forward), `MaxTokens`
(Forward), `MaxCalls` (PageCache). A run whose system stops at such a bound, or after teardown or drop,
says `CHECK_DEADLOCK FALSE`; the range cache never stops and is checked for
deadlock.

Every module has a `TypeOK`. All were checked; only `exact_cascade` still has its
own among the properties. In the other modules with proofs the types are the first
conjuncts of the inductive invariant.

What the properties say:

* `CommittedIsGreedy`, `CheckpointMatchesContext`, `LongestPrefixCommitted`,
  `RefinesGreedyDecoding`: exactness of speculative decoding.
  `RoundShape`: an abandoned round leaves the session as it found it.
* `WholeTokens`: no state that `step` accepts has absorbed part of a token.
  `CommitIsWholePass`: a committed token went through every operator of every
  layer once, in order, and its logits come from pages delivered during the same
  step. `BridgeAgrees`: when nothing is under way, provider and worker session
  agree on layer, token and phase. `LeaseReleasedOrGone`: after `step` a usable
  provider holds nothing. `ReadyForNextToken`: a state that `step` accepts comes
  with an executor that accepts it, and with no operation under way in its arena.
  `StepReturns`: `step` ends, though either process may hang.
* `OfficialIsRight`: what is returned as official is right, whatever was in the
  cache before. `ProofHasPayload`, `PayloadIsFinal`: order of publication, over
  restarts. `DiskWithinBudget`: the disk never holds more than was accounted
  for. `DownloadBounded`: reservations are exactly those of the transfers under
  way, and a process exceeds its download budget at most by the one byte per
  thread with which it detects a response that is too long.
* `IndexExact`, `PinsAreLeases`, `LeasedPagesStay`, `ReservationsOwnSlots`,
  `AllOrNothing`: two pools and their tickets stay consistent.
* `VisiblePagesAreLoaded`, `InFlightTracked`, `ReturnedSlotsHold`,
  `NoCopyAfterDestroy`, `BatchEnds`: the loader.
* `PicksResident`, `KernelPagesStay`: the token loop.
* `SingleFlight`, `ResidentExact`, `PayloadIsPage`, `QuietAfterClose`,
  `InflightIsLive`: the page cache, over every meeting of callers, workers and
  callbacks. `CallReturns`: calls return unless one has locked itself out, which
  `page_cache_lock` shows can happen.
* `Decodes`: the decoder's snapshot refines `GreedyDecoding`, one token at a time,
  whatever fails in between. `PagesOfTheRoute`: no worker fetches before the route
  or after its attempt. `ParallelIsAffordable`: a plan that fits the budget is not
  refused in the middle. `ReportIsHonest`: the report file never claims a token
  that was not committed, and a finished one names all. `ExecuteEnds`.

Fairness. `S14Runner` assumes only that the thread which called `step` goes on
(`WF_vars(InStep)`); nothing is asked of the worker, because every wait in the
provider has a timeout. `ExpertLoader` assumes that the GPU executes submitted
copies, which the Vulkan queue guarantees short of a lost device (an error the
model leaves out), and that the host runs a batch call to its end. `PageCache`
assumes that threads and workers run and that a read ends in success or failure;
that some thread can step suffices, because calls are bounded and the one that is
enabled last must go. `S14Decoder` assumes that its thread runs and that a
transfer ends, which its timeout of 300 seconds sees to. The cascade, the range
cache, the pool's tickets and the token loop have no liveness property.

## 4. What is proved

Every safety property of a passing run, invariants and action properties alike, is a
theorem of its specification, for every value of the constants that the named
assumptions allow; so are the two refinements of `GreedyDecoding`. Four theorems carry a
condition besides, in their statements: `CheckpointExact` and `RefinesGreedy` need
replies that name their own checkpoints, `PicksAreResident` and `KernelsReadTheirPages`
a pool with room for what they are about. No proof rests on
anything that is not itself proved or assumed of a constant.

### The cascade session

`ExactCascadeProofs` proves, for every vocabulary, set of block sizes,
`max_seq_len`, model, prompt set and number of rounds, under the named
assumptions `ConstantsAssumption`, `NativeAssumption` and `NoneAssumption`, and
whether or not replies may name checkpoints of other states. Only the two theorems about
the recursive state have the hypothesis `AliasedReplies = FALSE`, which is an assumption
on the verifier and not a fact of the code (section 5). Without it the tokens are still
exact; the checkpoint need not be theirs.

| theorem | statement |
|---|---|
| `Invariance` | `Spec => []IInv` |
| `TypeCorrect` | `Spec => []TypeOK` |
| `RoundShapeHolds` | `Spec => []RoundShape` |
| `ExactDecoding` | `Spec => []CommittedIsGreedy` |
| `CheckpointExact` | `AliasedReplies = FALSE` implies `Spec => []CheckpointMatchesContext` |
| `LongestPrefix` | `Spec => LongestPrefixCommitted` |
| `RefinesGreedy` | `AliasedReplies = FALSE` implies `Spec => RefinesGreedyDecoding` |

The argument. The invariants are not inductive: from an arbitrary state in
which they hold, a reply to some other round could be accepted. What excludes
that is history, and `IInv` adds it in three parts. `RequestsInv`: request ids
are below `next_request_id` and no two requests share one. `RoundInv`: while a
round waits for its verifier, its request is one of those and is made of the
session's present context, position and checkpoint. `RepliesInv`: every reply was
computed from some request, and its checkpoints hold what it says. Then an
accepted reply (`ValidatedRepliesAreHonest`) carries the id of the open round, so
it comes from the open round's request, and the damage that passes validation
changed nothing that matters, or with `AliasedReplies` a checkpoint id and nothing else; `CommitIsGreedy` shows that prefix and verifier's
token extend the context greedily and that the checkpoint at the first
disagreement absorbed exactly that. The preservation proof has one lemma or step
for each action. The refinement maps the log to `context` and the state to
`store[checkpoint]`; a commit maps to `Commit`, everything else to a stutter.

The rest of the module is lemmas on sequences and on the operators
(`CommitLengthProperties`, `VerifierContexts`, `HonestReplyType`, ...).

### The runner between its bridges

`S14RunnerProofs`, for every number of layers, set of tokens and bound on steps and
positions (`ProfileAssumption`, `SessionAssumption`).

| theorem | statement |
|---|---|
| `Invariance` | `Spec => []IInv` |
| `ExecutorIsReady` | `Spec => []ReadyForNextToken` |
| `OnlyWholeTokens` | `Spec => []WholeTokens` |
| `LeaseIsReleased` | `Spec => []LeaseReleasedOrGone` |
| `BridgeAgreement` | `Spec => []BridgeAgrees` |
| `CommitsWholePasses` | `Spec => CommitIsWholePass` |

The invariant says, for each location of `step`, where everybody else is.
`ExecutorFollows` and `ArenaFollows` hold while nothing has gone wrong (`InSync`):
the executor's next layer and pending route are those of the location, and the
arena is the prefix of a pass that the location has acknowledged, with or without
the operation the worker may have done already. Once something has gone wrong the
state is poisoned, and only the parts that the next runner relies on remain.
`BridgeFollows` holds while the provider is not poisoned and its worker lives: what the
provider believes to be live, what its worker's session holds, and what is in the
pipe belong to one conversation; `OnlyStray` is all the pipe may hold when none is
going on. `LeaseReleasedOrGone` and `BridgeAgrees` are that conversation read at the
locations where `step` has returned. `FinalsAreNew` is what `CommitIsWholePass` needs
beyond the arena: the artifacts left behind by a failed step are gone before the
next step can take them.

### The reference decoder

`S14DecoderProofs`, for every network (`Native` is any function from the contexts of a
run to tokens), any number of layers, experts, attempts and workers, and any set of
budgets (`DecoderAssumption`, `NativeAssumption`). A run has one or two tokens, as in
the code.

| theorem | statement |
|---|---|
| `Invariance` | `Spec => []IInv` |
| `FetchesTheRoute` | `Spec => []PagesOfTheRoute` |
| `NeverRefused` | `Spec => []ParallelIsAffordable` |
| `HonestReport` | `Spec => []ReportIsHonest` |
| `DecodesGreedily` | `Spec => Decodes` |

`Decoding` says what the tokens in hand are: every committed window holds the log, and
in the middle of a token the windows made so far (`LayersAttended` of them) hold the log
with the input; so the head sees one context in all layers, and what `Commits` appends
is the greedy token. `ReportFollows` lets neither the report being made nor the one in
the file claim more than was committed, and says at each location how long they are.
`PoolFollows` says that the pool holds the submitted route and nothing else, and outside
of an attempt nothing unfinished, and that what is reserved is one byte for each running
fetch that found none. `RoomForAll` is what makes `ParallelIsAffordable` inductive: as
long as no response was too long, what is used, what is reserved and one byte for
each queued fetch fit the budget together.

### The range cache

`RangeCacheProofs`, for every finite set of keys and of threads, every size of a
range, every pair of budgets and number of restarts (`RangeCacheAssumption`).

| theorem | statement |
|---|---|
| `Invariance` | `Spec => []IInv` |
| `OfficialBytes` | `Spec => []OfficialIsRight` |
| `ProofsHavePayloads` | `Spec => []ProofHasPayload` |
| `DiskBudget` | `Spec => []DiskWithinBudget` |
| `DownloadBudgeted` | `Spec => []DownloadBounded` |
| `PayloadsAreFinal` | `Spec => PayloadIsFinal` |

`Fetching` is the invariant of the threads: at most one of them works on a key
(`Exclusive`), and what it finds on disk for that key depends only on its location
(`Stage`): no payload and no proof from opening to hashing, a payload with the right
bytes before the proof is written as official. It needs no budget. `Ledgers` is
the invariant of the two budgets: `reserved` is the sum over the threads of
what each may still read; the bytes on disk are at most what is used plus the sum of
what the transfers have written and not yet settled; and the download budget may be
exceeded by one byte for each thread that is not in a transfer, which is the byte
with which a response that is too long was detected. A thread that enters its
transfer takes its byte with it: it is part of its reservation's slack until it
leaves. A restart makes the sums new and may only shorten partial files.

`Summed` is the sum over a finite set, a recursive function on its subsets; that this
function exists, and that a sum does not depend on the order in which elements are
chosen, is proved by induction on cardinality, in the form of the principle of least
elements, and with it what both ledgers need of sums (`SumUpdate`, `SumMonotonic`,
`SumUnion`, ...).

### The page cache

`PageCacheProofs`, for every catalogue that the code accepts (`Buildable`), every
set of threads, number of workers and capacity, and every list of pages a prefetch may
name (`PageCacheAssumption`).

| theorem | statement |
|---|---|
| `Invariance` | `Spec => []IInv` |
| `OneLoadPerPage` | `Spec => []SingleFlight` |
| `NoPageIsWedged` | `Spec => []InflightIsLive` |
| `CloseIsQuiet` | `Spec => []QuietAfterClose` |
| `CapacityHolds` | `Spec => []ResidentExact` |
| `CallersGetTheirPage` | `CatalogIsRight => (Spec => []PayloadIsPage)` |

`Loads` relates futures, `_inflight`, the lock and the callers: until its callback has
run, a future is the one that `_inflight` has for its page, and that page is not resident
(`Tracked`); `_inflight` has no others (`Pending`); between two steps the lock is held by
the thread that has submitted a future and not yet attached the callback (`Locked`,
`Starts`); once closed, nobody submits (`Closing`); and a caller of `get` waits for a
future of its page (`Asking`). `Held` is the table: no page twice, and
`_resident_bytes` the sum of the sizes and within the capacity. The loop that evicts is
modelled by the shortest prefix whose removal makes room, so its effect is proved from
the sum of a prefix and the sum of the rest (`Total`). `CatalogIsRight` says of the
constants only that each page's spans read the page's own bytes; TLC evaluates it for the
catalogue of the run, where `PayloadIsPage` without it is the property checked.

### The VRAM pools and their tickets

`MoePagesProofs`, for pools of any size, any number of tickets, any routes that name
each expert once, any pages the owner of a pool may load by itself and any number of
calls (`MoeAssumption`; `NoLoadAssumption` says that the absence of a reservation is
not one).

| theorem | statement |
|---|---|
| `Invariance` | `Spec => []Inv` |
| `IndexIsExact` | `Spec => []IndexExact` |
| `PinsCountLeases` | `Spec => []PinsAreLeases` |
| `LeasesAreKept` | `Spec => []LeasedPagesStay` |
| `LoadingIsReserved` | `Spec => []ReservationsOwnSlots` |
| `PublishedTogether` | `Spec => AllOrNothing` |
| `TypeCorrect` | `Spec => []TypeOK` |

It rests on `VramPoolProofs`, which knows nothing of tickets. `Sound` is what a pool
is between two calls: the index is the inverse of the Ready slots, a page that is
Loading is so once and is not indexed, the access order lists exactly the Ready slots,
each once, and `n_loaded` counts the slots in use. There is a lemma for each method
(`Reserved`, `PublishedSlot`, `Cancelled`, `Pinned`, `LookedUp`, ...): it keeps the pool
sound and changes one slot, so and so. That the slot that `reserve` picks from the
access order is unpinned, and that no other entry of the index pointed to it, is proved
there. The owner's calls and those of a ticket then use the same lemmas.

The properties the run checks are not inductive: that a pin is a lease says nothing of
what an eviction may take. The invariant is a ledger of *claims*, a claim being a lease
or a reservation with its holder, pool and stamp (page, slot, generation).

* A lease's slot is Ready, with its page and in its generation (`LeasesHold`); the pins
  of a slot are the number of tickets with a lease on it (`PinsCount`). Hence what is
  leased is pinned, and `reserve` takes only what is not.
* A reservation that was not withdrawn still holds its slot, and no two reservations
  ever got the same generation of a slot (`ReservationsHold`). A Loading slot has such a
  reservation (`LoadingOwned`). A reservation that the owner withdrew under a ticket is in
  the past: its slot has a later generation, or is still Empty in its own
  (`WithdrawnPast`). This is what makes the late cancel or publish of a ticket harmless,
  and what fails when generations are not compared.
* A Ready slot, and one whose ticket has been through its transfer fence, hold the bytes
  of their page (`BytesInPlace`).

`begin` takes one page after the other, and may fail after any of them. `Progress` says
that the ledger holds in between, with the pages taken so far as the claims of the
ticket; a rollback is then the same as that of a complete ticket that is cancelled or
refused (`TicketRolledBack`). For `AllOrNothing` the proof
shows of every action but publication that no slot becomes Ready that a ticket's
reservation holds; and publication turns each reservation of the ticket into a lease,
because the preflight of *both* pools has found each of them in place, each page in the
list has a slot of its own, and publishing one leaves the others alone.

The lists of pages are walked by recursive functions (`Acquisition`, `Publication`). That
these exist for every length is proved (`AcquisitionExists`, `PublicationExists`) with the
induction over a *set* of numbers of `VramPoolProofs` (`NaturalInduction`), because the
library's rule of induction takes an operator as a parameter.

### The expert loader

The first part of `ForwardProofs`, for rings of every depth, pools of every size, any
keys and batches and any failures (`LoaderAssumption`; `NoneAssumption` says that the
values for "nothing" are none). The assumptions of the second part are not used.

| theorem | statement |
|---|---|
| `LoaderInvariance` | `Spec => []LoaderInv` |
| `VisiblePagesLoaded` | `Spec => []VisiblePagesAreLoaded` |
| `TransfersTracked` | `Spec => []InFlightTracked` |
| `ReturnedSlotsAreHeld` | `Spec => []ReturnedSlotsHold` |
| `DestroyIsSafe` | `Spec => []NoCopyAfterDestroy` |
| `LoaderTypes` | `Spec => []TypeOK` |

`RingOK` says of every ring slot with a transfer what pool, fence, buffer and memory
are: the transfer's slot is Loading with its page; the fence is signaled exactly when
no copy of it is queued; until then the staging buffer holds the page's bytes, and from
then on the slot does (`Carried`). Transfers and Loading slots correspond one to one,
copies in the queue belong to transfers (`Matched`, `Flying`), and Ready slots hold
their bytes (`Filled`): `mark_ready` comes after the fence, when the slot does.

`ReturnedSlotsHold` is about the pool's eviction, which nothing tells of the batch. What
saves a batch is the order of access: `Guarded` says that its pages that are Ready come
after every other page in that order (`Fresh`), and that no page but its own is Loading
(`Awaited`). An eviction takes the first of the order. By the check on its length a
batch has no more pages than the pool has slots (`Room`), so as long as one page
is missing some slot is Empty or holds a page that is not of the batch, and if none is
Empty the one that is evicted is not of the batch either (`VictimIsOld`). Pins play no part:
the loader uses none, which is part of the invariant.

### The token loop

The second part of `ForwardProofs`, for every number of layers, every set of experts and
list of kinds, every router and predictor that answer within `Picks` and `Candidates`,
and every pool and ring (`ForwardAssumption`, `PagesAssumption`, `LedgerAssumption`). Two
of the theorems are about a pool with room, and say so:

| theorem | statement |
|---|---|
| `ForwardInvariance` | `ForwardSpec => []ForwardInv` |
| `PicksAreResident` | `RoomForPicks => (ForwardSpec => []PicksResident)` |
| `KernelsReadTheirPages` | `RoomForPrefetch => (ForwardSpec => []KernelPagesStay)` |
| `ForwardLoads` | `ForwardSpec => []VisiblePagesAreLoaded` |
| `LedgerIsBounded` | `ForwardSpec => []LedgerWithinCapacity` |
| `ForwardTypes` | `ForwardSpec => []ForwardTypeOK` |

`RoomForPicks`: the pages of a layer's picks and the `Depth - 1` transfers that a failed
call may leave behind fit into the pool together. `RoomForPrefetch`: with the pages of the
next layer's candidates they still do, which is the stronger of the two
(`RoomIncludesPicks`). The code relies on both without saying so or checking it. With the
constants of the engine (8 picks, `prefetch_k_prime` 16, three kinds, a ring of 24) they
ask for 47 and 95 slots. `EngineConfig` gives 256 or 512; `examples/first_token.rs:38`
takes whatever `POOL_SLOTS` says, if it is set. Section 5 says what a smaller pool
does. The other four theorems hold of every pool: in the invariant `Fits`, `KernelsOK`
and `LookingOK` are conditional on room.

Neither hits nor the pages of running kernels are pinned; both survive because they were
accessed last. `Sheltered` generalises `Guarded` to a set of pages besides those
of the batch: together they fit into the pool, those that are Ready come last in the
order, and nothing else is on its way. A prefetch shelters the pages of the running
kernels (`KernelsOK`), whose lookups in `Dispatch` put them last; a load of misses shelters
the picks that were found (`LookingOK`), whose lookups by `all_hit` put them last —
those up to the first miss of an expert are accessed too, which does no harm because that
expert is then loaded whole. `Fits` counts: from `Warmup` on, what is queued are the
candidates of one layer, because the list is flushed before the next layer adds to it.
Before, it grows with every layer of a token, but is not used and ends with the token.

The transfers of a failed call stay in the ring and are nobody's: they too must fit, and
the code bounds them by the ring only. `Leftovers` shows that there are at most
`Depth - 1`: every call drains the ring before its first page and after each wave of
`Depth`, so that after *n* pages it holds at most *n* mod `Depth` transfers or is about to
drain (`InWave`), and the load that fails adds none.

The scheduler's ledger is apart from this. Only the routing of a layer changes it; a
touch permutes its access order, a promotion follows a demotion if the tier is full, and
`LedgerOK` (the order lists the experts in VRAM, each once) with the length of the order
is inductive. `LedgerWithinCapacity` allows the one expert that is promoted although
`vram_capacity` is 0. What the ledger says need not be true of the pool (section 5).

## 5. Disagreements

Each is shown by a run that TLC reports as violated; `PROJECT.json` quotes the
lines.

* `bridge_lease`: a write to a worker that has exited is an error of `send`, which
  unlike `receive` does not poison the provider; the layer stays live and every
  later token is refused, while `is_poisoned()` says no.
* `range_proof`: a proof that was lost in a crash is made again with the
  *expected* hash before that hash is compared with the payload.
* `page_cache_lock`: a read that fails before `_start` has attached its callback
  runs the callback in the requesting thread, which holds the lock it waits for;
  the whole cache stands still.
* `decoder_contract`: of several failed prefetches only the first that
  `as_completed` meets counts; when that is a transport error, a contract, hash or
  budget error of another is lost and the layer is tried again.

Seen on the way, without a run of their own:

* A cascade session can be built around a poisoned recursive state, and its first
  commit declares the state sound (`cascade.rs:483`).
* A reply may name as the checkpoint of its last position that of the base, or of any
  other round: ids are compared only within the reply (`cascade.rs:209-214`; set
  `AliasedReplies` to see it). The tokens committed are right, but the next round starts
  from another recursive state, and `CheckpointMatchesContext` and the refinement fail.
* In a pool of fewer than 72 slots (24 pages of eight picks, 48 of sixteen candidates),
  or of fewer than 95 after a call that failed, the prefetch for the next layer may evict
  and overwrite pages that kernels of this layer still read (`forward.rs:363`). From 48
  slots on nothing refuses that prefetch: the loader checks only that a batch is no
  longer than the pool, and nothing is pinned. In a pool of 24 to 46 slots a transfer
  left by a failed call may become ready between the lookup of a hit and the load of the
  misses, which then evicts the hit, and the `unwrap` for its page panics; in a
  smaller one the first layer of a cold engine is refused. `EngineConfig` stays clear of all this; `POOL_SLOTS`
  (`examples/first_token.rs:38`) is not checked. To see them, lower
  `Slots` of the `forward` run to six, and to four.
* The ledger counts experts as resident whose prefetch was dropped or whose pages were
  evicted.
* `_cache_used` keeps counting a payload that was unlinked because of its hash
  (harmless to the budget, but a leak until the next process).
  `load_authoritative_hash_lock` has no caller, so a worker started with
  `--require-authoritative` refuses every range.
* When the report of a committed token cannot be written, the decoder's handler
  marks that token `state_committed: false`, and lists it as committed in the same
  report; the same for a checkpoint that was complete.
* `HTTPError` is a `URLError`, so a refusal by the server (a 4xx) is retried as a
  transport error. A plan recorded as parallel stays so although a retry, with
  less budget left, goes on in sequence.

## 6. Limits

Liveness is only model-checked (`StepReturns`, `BatchEnds`, `CallReturns`,
`ExecuteEnds`): the prover has no rule for fairness and `ENABLED`. The safety
properties of the passing runs are all proved; those of the four other runs are false.
Two theorems on the token loop are conditional on `RoomForPicks` or `RoomForPrefetch`,
which no line of the code checks, and two on the cascade on `AliasedReplies = FALSE`, which
only the backend can guarantee. That `CoalesceSpans` gives the pages of the catalogue that is checked, and that
these hold the bytes they should (`CatalogIsRight`), is evaluated by TLC: the sort and the
fold are recursions over data. Not claimed: progress of the
cascade session, which has no timeouts of its own.

Not modelled inside the modelled components: the kernels, descriptor bindings and
shape checks of `s14_vulkan.rs`; the CPU expert path, `MOE_OFF`, prefill and
`get_next_token` of `forward.rs`, and errors of its command recording; catalog
building, URL and header parsing and the validation of identities in
`online_range.py`; two processes on one cache directory; `set_tier` and
statistics of the ledger; wrap-around of generations and pin counts; the tensor
arithmetic and the tensor store of the decoder; the statistics of the page cache
and the reading of Safetensors and GGUF headers.

Components without a module are in the inventory with the reason: pure numeric
code, file parsing, sequential launchers and training scripts have no protocol
that these tools would say anything about. The memory ledger is
arithmetic by pure calls. The predictor is statistics with a floating-point decay;
the token loop calls it from one thread. Its counters are lock-free, and the C
interface may be called from several threads: then `decay` (`builder.rs:147`, a
load and then a store) loses increments made in between, and of two concurrent
`promote_snapshot` calls the one with the older matrix may publish last. Both only
make a prediction worse, and `Forward` accepts any prediction.

## 7. Plan

In order of importance.

1. *Two processes on one cache directory*: their `.part` files, without the key
   locks that only one process knows of.
2. *Memory ledger*: the admission arithmetic, checked over bounded inputs with
   the widths of the code.
