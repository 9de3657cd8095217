------------------------------- MODULE Forward -------------------------------
(***************************************************************************)
(* Forward::step (ssd_inference/src/forward.rs): one token through all the  *)
(* layers of the model.  Per layer,                                         *)
(*                                                                         *)
(*   prefetch the experts predicted by the layer before  (batch, flush)     *)
(*     -> attention and router -> scheduler ledger, prediction              *)
(*     -> look the picked experts up, load the missing  (batch, flush)      *)
(*     -> submit the expert kernels, which run while the host goes on.      *)
(*                                                                         *)
(* It composes the loader, the VRAM pool and the scheduler's ledger.  An    *)
(* expert has one page per ExpertKind; the pool counts pages, the ledger    *)
(* counts experts.                                                         *)
(***************************************************************************)
EXTENDS ExpertLoader, ExpertCache

CONSTANTS
  Layers,        \* n_layer
  Experts,       \* the experts of one layer
  Kinds,         \* the ExpertKinds, a sequence: gate, up, down
  Picks,         \* what the router may pick: sequences of top_k experts
  Candidates,    \* what the predictor may answer: sequences of experts
  Warmup,        \* token_counter below which nothing is prefetched (3)
  MaxTokens      \* bound on the calls of step

ASSUME ForwardAssumption ==
  /\ Layers \in Nat \ {0}
  /\ Kinds \in Seq(Range(Kinds))
  /\ Picks \cup Candidates \subseteq Seq(Experts)
  /\ \A p \in Picks : IsInjective(p)
  /\ Warmup \in Nat

LayerExperts(l) == {<<l, x>> : x \in Experts}
AllExperts      == UNION {LayerExperts(l) : l \in 1..Layers}
Pages(e)       == [i \in DOMAIN Kinds |-> <<e, Kinds[i]>>]
AllPages       == {<<e, k>> : e \in AllExperts, k \in Range(Kinds)}
OnLayer(l, xs) == [i \in DOMAIN xs |-> <<l, xs[i]>>]

(* The pages of some experts, expert by expert. *)
Pushed(es) ==
  LET list[i \in 0..Len(es)] == IF i = 0 THEN << >> ELSE list[i - 1] \o Pages(es[i])
  IN  list
PagesOf(es) == Pushed(es)[Len(es)]

(* The pool counts pages and the ledger experts, of the same layers. *)
ASSUME PagesAssumption == AllPages \subseteq Key /\ AllExperts \subseteq ExpertId

VARIABLES
  phase,         \* where the host is in step, or "idle" between calls
  layer,
  token_counter,
  prefetch,      \* prefetch_list
  picks,         \* experts picked for the layer
  misses,        \* miss_load
  cache,         \* the scheduler's ledger
  kernels,       \* <<page, slot>> pairs the submitted expert kernels read
  steps

host  == <<phase, layer, token_counter, prefetch, picks, misses, cache, kernels, steps>>
fvars == <<vars, host>>

loaderUnchanged == UNCHANGED vars

-----------------------------------------------------------------------------
(* The GPU *)

Copy(pip, slot) == ExecuteCopy(pip, slot) /\ UNCHANGED host

KernelsFinish ==
  /\ kernels # {}
  /\ kernels' = {}
  /\ loaderUnchanged
  /\ UNCHANGED <<phase, layer, token_counter, prefetch, picks, misses, cache, steps>>

(* wait_pipe_fence *)
PipeIdle == kernels = {}

-----------------------------------------------------------------------------
(* The host *)

(* The embedding is uploaded after the last token's kernels. *)
StepBegins ==
  /\ phase = "idle"
  /\ steps < MaxTokens
  /\ PipeIdle
  /\ steps' = steps + 1
  /\ layer' = 1
  /\ prefetch' = << >>
  /\ phase' = "prefetch"
  /\ loaderUnchanged
  /\ UNCHANGED <<token_counter, picks, misses, cache, kernels>>

(* A batch_enqueue call of step; its error is the error of step. *)
CallBatch(keys, next) ==
  /\ BeginBatch(keys)
  /\ phase' = IF batch' = NoBatch THEN "idle" ELSE next

PrefetchSkipped ==
  /\ phase = "prefetch"
  /\ token_counter < Warmup \/ prefetch = << >>
  /\ phase' = "attention"
  /\ loaderUnchanged
  /\ UNCHANGED <<layer, token_counter, prefetch, picks, misses, cache, kernels, steps>>

PrefetchBegins ==
  /\ phase = "prefetch"
  /\ token_counter >= Warmup
  /\ prefetch # << >>
  /\ CallBatch(prefetch, "prefetching")
  /\ UNCHANGED <<layer, token_counter, prefetch, picks, misses, cache, kernels, steps>>

InBatch ==
  /\ \/ DrainWave /\ UNCHANGED phase
     \/ BatchNext /\ phase' = IF batch' = NoBatch THEN "idle" ELSE phase
     \/ BatchReturns /\ phase' = IF phase = "prefetching" THEN "flush_prefetch" ELSE "flush"
  /\ UNCHANGED <<layer, token_counter, prefetch, picks, misses, cache, kernels, steps>>

PrefetchFlushed ==
  /\ phase = "flush_prefetch"
  /\ Flush
  /\ phase' = "attention"
  /\ prefetch' = << >>
  /\ UNCHANGED <<layer, token_counter, picks, misses, cache, kernels, steps>>

(* Mutation: attention is submitted without waiting for the experts of the
   layer before. *)
Attention_NoWait ==
  /\ phase = "attention"
  /\ phase' = "route"

(* run_layer_fused waits for the kernels of the layer before, then for its
   own. *)
Attention ==
  /\ phase = "attention"
  /\ PipeIdle
  /\ phase' = "route"

AttentionRuns ==
  /\ Attention
  /\ loaderUnchanged
  /\ UNCHANGED <<layer, token_counter, prefetch, picks, misses, cache, kernels, steps>>

(* The router's picks go to the ledger; the next layer's candidates the
   ledger promotes are queued, on the last layer there are none. *)
Route(xs, ys) ==
  /\ phase = "route"
  /\ picks' = OnLayer(layer, xs)
  /\ LET candidates == IF layer < Layers THEN OnLayer(layer + 1, ys) ELSE << >>
         answer == OnLayerComplete(cache, picks', candidates)
     IN  /\ cache' = answer.cache
         /\ prefetch' = prefetch \o PagesOf(answer.promoted)
  /\ phase' = "lookup"
  /\ loaderUnchanged
  /\ UNCHANGED <<layer, token_counter, misses, kernels, steps>>

(* Pages are looked up one after the other. *)
Lookups(p, ks) ==
  LET after[i \in 0..Len(ks)] == IF i = 0 THEN p ELSE Lookup(after[i - 1], ks[i])
  IN  after
LookAllUp(p, ks) == Lookups(p, ks)[Len(ks)]

(* all_hit stops at the first page that misses: a = [pool, misses so far]. *)
LookupExpert(a, e) ==
  LET ks == Pages(e)
      miss == SelectInSeq(ks, LAMBDA k : ~Visible(a.pool, k))
  IN  IF miss = 0
      THEN [pool |-> LookAllUp(a.pool, ks), misses |-> a.misses]
      ELSE [pool |-> LookAllUp(a.pool, SubSeq(ks, 1, miss - 1)), misses |-> a.misses \o ks]

Looked ==
  LET after[i \in 0..Len(picks)] ==
        IF i = 0 THEN [pool |-> pool, misses |-> << >>]
        ELSE LookupExpert(after[i - 1], picks[i])
  IN  after

LookPicksUp ==
  /\ phase = "lookup"
  /\ LET answer == Looked[Len(picks)]
     IN  pool' = answer.pool /\ misses' = answer.misses
  /\ phase' = IF misses' = << >> THEN "dispatch" ELSE "load"
  /\ UNCHANGED <<memory, ring, batch, returned, open, loads>>
  /\ UNCHANGED <<layer, token_counter, prefetch, picks, cache, kernels, steps>>

MissesBegin ==
  /\ phase = "load"
  /\ CallBatch(misses, "loading")
  /\ UNCHANGED <<layer, token_counter, prefetch, picks, misses, cache, kernels, steps>>

MissesFlushed ==
  /\ phase = "flush"
  /\ Flush
  /\ phase' = "dispatch"
  /\ UNCHANGED <<layer, token_counter, prefetch, picks, misses, cache, kernels, steps>>

(* run_moe_gpu: the slots of the picks are looked up (unwrap) and the kernels
   submitted without waiting for them; after the last layer step returns. *)
PickedPages == Range(PagesOf(picks))
Dispatch ==
  /\ phase = "dispatch"
  /\ PipeIdle
  /\ \A k \in PickedPages : Visible(pool, k)
  /\ pool' = LookAllUp(pool, PagesOf(picks))
  /\ kernels' = {<<k, pool.index[k]>> : k \in PickedPages}
  /\ IF layer < Layers
     THEN layer' = layer + 1 /\ phase' = "prefetch" /\ UNCHANGED token_counter
     ELSE phase' = "idle" /\ token_counter' = token_counter + 1 /\ UNCHANGED layer
  /\ UNCHANGED <<memory, ring, batch, returned, open, loads>>
  /\ UNCHANGED <<prefetch, picks, misses, cache, steps>>

FInit ==
  /\ Init
  /\ phase = "idle"
  /\ layer = 1
  /\ token_counter = 0
  /\ prefetch = << >>
  /\ picks = << >>
  /\ misses = << >>
  /\ cache = NewCache
  /\ kernels = {}
  /\ steps = 0

FNext ==
  \/ \E pip \in Ring, slot \in 1..Slots : Copy(pip, slot)
  \/ KernelsFinish
  \/ StepBegins
  \/ PrefetchSkipped
  \/ PrefetchBegins
  \/ InBatch
  \/ PrefetchFlushed
  \/ AttentionRuns
  \/ \E xs \in Picks, ys \in Candidates : Route(xs, ys)
  \/ LookPicksUp
  \/ MissesBegin
  \/ MissesFlushed
  \/ Dispatch

ForwardSpec == FInit /\ [][FNext]_fvars

-----------------------------------------------------------------------------
(* Correctness *)

(* The pool has room for the pages of a layer's picks, besides the transfers *)
(* that a failed call leaves in the ring; and for those of the next layer's  *)
(* candidates as well.  No line of the code checks either, so they are not   *)
(* assumptions but conditions of what is proved.  8 picks and 16 candidates  *)
(* of 3 pages with a ring of 24 are 47 and 95 pages: EngineConfig gives 256  *)
(* or 512 slots, examples/first_token.rs:38 whatever POOL_SLOTS says.        *)
RoomForPicks ==
  \A xs \in Picks \cup {<< >>} : Len(xs) * Len(Kinds) + Depth - 1 <= Slots
RoomForPrefetch ==
  \A xs \in Picks \cup {<< >>}, ys \in Candidates \cup {<< >>} :
    (Len(xs) + Len(ys)) * Len(Kinds) + Depth - 1 <= Slots

ForwardTypeOK ==
  /\ phase \in {"idle", "prefetch", "prefetching", "flush_prefetch", "attention", "route",
                "lookup", "load", "loading", "flush", "dispatch"}
  /\ layer \in 1..Layers
  /\ Range(prefetch) \cup Range(misses) \subseteq Key
  /\ phase \in {"prefetching", "loading"} <=> batch # NoBatch
  /\ LedgerOK(cache)

(* The ledger believes no more experts in VRAM than it was told fit. *)
LedgerWithinCapacity == WithinCapacity(cache)

(* "Now ALL experts are in VRAM": when the kernels are built, every page of  *)
(* every pick is found, so that no unwrap() fails, although hits are not     *)
(* pinned while the misses and the transfers of a failed call settle after   *)
(* them.  Depends on RoomForPicks.                                           *)
PicksResident == phase = "dispatch" => \A k \in PickedPages : Visible(pool, k)

(* The pages running kernels read are not overwritten: the host prefetches   *)
(* for the next layer while they run, and nothing pins them.  Depends on     *)
(* RoomForPrefetch.                                                          *)
KernelPagesStay == \A r \in kernels : memory[r[2]] = r[1]

=============================================================================
