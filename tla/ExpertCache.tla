----------------------------- MODULE ExpertCache -----------------------------
(***************************************************************************)
(* ExpertCache (expert_cache/src/cache.rs) and Scheduler::on_layer_complete *)
(* (scheduler-core/src/lib.rs): the ledger of the storage tier each expert  *)
(* is believed to be in, and the prefetch commands the ledger gives rise    *)
(* to.  It moves no data; nobody reports a finished or failed transfer.     *)
(*                                                                         *)
(* The ledger is a record.  last_access is only compared between experts of *)
(* tier Vram: it is kept as their sequence, the coldest first.              *)
(***************************************************************************)
EXTENDS Naturals, Sequences, FiniteSets, SequencesExt

CONSTANTS
  ExpertId,       \* layer and number of an expert
  VramCapacity    \* vram_capacity, "in experts"

ASSUME LedgerAssumption == VramCapacity \in Nat

Tier == {"Vram", "Ram", "NotLoaded"}

NewCache == [tier |-> [e \in ExpertId |-> "NotLoaded"], recency |-> << >>]

InVram(c) == {e \in ExpertId : c.tier[e] = "Vram"}

(* touch: only the recency of an expert of tier Vram is ever looked at. *)
TouchExpert(c, e) ==
  IF c.tier[e] = "Vram"
  THEN [c EXCEPT !.recency = Append(RemoveFirst(@, e), e)]
  ELSE c

(* The touches of a layer, one expert after the other. *)
Touches(c, experts) ==
  LET after[i \in 0..Len(experts)] ==
        IF i = 0 THEN c ELSE TouchExpert(after[i - 1], experts[i])
  IN  after
Touched(c, experts) == Touches(c, experts)[Len(experts)]

(* Room for one more: the coldest expert of a full tier is demoted, if there
   is one. *)
Demoted(c) ==
  IF Len(c.recency) >= VramCapacity /\ c.recency # << >>
  THEN [tier |-> [c.tier EXCEPT ![Head(c.recency)] = "Ram"], recency |-> Tail(c.recency)]
  ELSE c

(* One expert of a request: a = [cache, promoted so far].  An expert
   that is in the tier already is skipped, and not touched. *)
Promoted(a, e) ==
  IF a.cache.tier[e] = "Vram" THEN a
  ELSE LET c == Demoted(a.cache) IN
       [cache    |-> [tier    |-> [c.tier EXCEPT ![e] = "Vram"],
                      recency |-> Append(c.recency, e)],
        promoted |-> Append(a.promoted, e)]

(* request_to_vram, one expert after the other. *)
Requests(c, experts) ==
  LET after[i \in 0..Len(experts)] ==
        IF i = 0 THEN [cache |-> c, promoted |-> << >>]
        ELSE Promoted(after[i - 1], experts[i])
  IN  after
RequestToVram(c, experts) == Requests(c, experts)[Len(experts)]

(* on_layer_complete: the experts of the layer are touched, then the
   candidates for the next layer are requested. *)
OnLayerComplete(c, activated, candidates) ==
  RequestToVram(Touched(c, activated), candidates)

-----------------------------------------------------------------------------
(* Correctness *)

(* Every expert of tier Vram is in the access order, once, and no other. *)
LedgerOK(c) ==
  /\ c \in [tier : [ExpertId -> Tier], recency : Seq(ExpertId)]
  /\ IsInjective(c.recency)
  /\ Range(c.recency) = InVram(c)

(* vram_capacity is exceeded by the one expert that is promoted when it is 0. *)
WithinCapacity(c) ==
  Cardinality(InVram(c)) <= IF VramCapacity = 0 THEN 1 ELSE VramCapacity
=============================================================================
