------------------------------ MODULE VramPool ------------------------------
(***************************************************************************)
(* VramPool (scheduler/ssd_inference/src/vram_pool.rs): a fixed set of     *)
(* VRAM slots, each Empty, Loading(key) or Ready(key).  A key is visible   *)
(* to lookups only while Ready; a Ready page is evicted, least recently    *)
(* used first, only while nobody pins it; every reservation stamps its     *)
(* slot with a new generation.                                             *)
(*                                                                         *)
(* A pool is a record and each method an operator on it: the modules that  *)
(* use pools own the variables.  The values of last_access are only ever   *)
(* compared with each other, and only those of Ready slots: they are kept  *)
(* as the sequence of the Ready slots, the least recently accessed first.  *)
(***************************************************************************)
EXTENDS Naturals, SequencesExt

CONSTANT Key   \* ExpertKey: layer, kind and slot of an expert

Empty      == [tag |-> "Empty"]
Loading(k) == [tag |-> "Loading", key |-> k]
Ready(k)   == [tag |-> "Ready", key |-> k]

SlotState == {Empty} \cup {Loading(k) : k \in Key} \cup {Ready(k) : k \in Key}

(* VramPool::new, with n slots *)
NewPool(n) ==
  [state |-> [s \in 1..n |-> Empty], recency |-> << >>,
   pins |-> [s \in 1..n |-> 0], generation |-> [s \in 1..n |-> 0],
   index |-> [k \in {} |-> 0], n_loaded |-> 0]

SlotsOf(p) == DOMAIN p.state

(* What reserve_loading_generation hands out, and what a lease binds: the    *)
(* slot together with the generation it had at that moment.                  *)
Stamp(p, k, s) == [key |-> k, slot |-> s, generation |-> p.generation[s]]

(* A fresh value of the access clock is later than every earlier access. *)
Forgotten(p, s) == RemoveFirst(p.recency, s)
Accessed(p, s)  == Append(Forgotten(p, s), s)

-----------------------------------------------------------------------------
(* Lookups *)

Visible(p, k) == k \in DOMAIN p.index

(* Mutation: a lookup does not refresh the recency. *)
Touch_Stale(p, s) == p

Touch(p, s) == [p EXCEPT !.recency = Accessed(p, s)]

(* lookup: a hit refreshes the recency. *)
Lookup(p, k) == IF Visible(p, k) THEN Touch(p, p.index[k]) ELSE p

(* lookup_and_pin, on a hit *)
Pin(p, k) == [Touch(p, p.index[k]) EXCEPT !.pins[p.index[k]] = @ + 1]

-----------------------------------------------------------------------------
(* Reservations *)

IsLoading(p, k) == \E s \in SlotsOf(p) : p.state[s] = Loading(k)
EmptySlots(p) == {s \in SlotsOf(p) : p.state[s] = Empty}

(* Mutation: a pinned page may be evicted. *)
Evictable_Pinned(p) == {s \in SlotsOf(p) : p.state[s].tag = "Ready"}

Evictable(p) == {s \in SlotsOf(p) : p.state[s].tag = "Ready" /\ p.pins[s] = 0}

(* reserve_loading_generation refuses a key that is Ready or Loading, and a  *)
(* pool whose slots are all Loading or pinned.                               *)
CanReserve(p, k) ==
  /\ ~Visible(p, k)
  /\ ~IsLoading(p, k)
  /\ EmptySlots(p) \cup Evictable(p) # {}

(* The first Empty slot, else the least recently used evictable one. *)
SlotFor(p) ==
  IF EmptySlots(p) # {}
  THEN CHOOSE s \in EmptySlots(p) : \A t \in EmptySlots(p) : s <= t
  ELSE p.recency[SelectInSeq(p.recency, LAMBDA s : s \in Evictable(p))]

(* Mutation: the evicted key stays in the index. *)
Unindexed_Kept(p, s) == p.index

(* The index without the key that slot s makes visible. *)
Unindexed(p, s) == [k \in {x \in DOMAIN p.index : p.index[x] # s} |-> p.index[k]]

Reserve(p, k) ==
  LET s == SlotFor(p) IN
  [p EXCEPT !.state[s] = Loading(k), !.pins[s] = 0,
            !.generation[s] = @ + 1,
            !.index = Unindexed(p, s), !.recency = Forgotten(p, s),
            !.n_loaded = IF p.state[s] = Empty THEN @ + 1 ELSE @]

(* Mutation: the generation is not compared. *)
Holds_AnyGeneration(p, r) == p.state[r.slot] = Loading(r.key)

(* The reservation r still owns its slot. *)
Holds(p, r) == p.state[r.slot] = Loading(r.key) /\ p.generation[r.slot] = r.generation

(* validate_publish_batch, for reservations of different slots and keys. *)
CanPublish(p, rs) ==
  \A r \in rs : Holds(p, r) /\ p.pins[r.slot] = 0 /\ ~Visible(p, r.key)

(* publish_prevalidated_batch_and_pin, one reservation of the batch. *)
Publish(p, r) ==
  [p EXCEPT !.state[r.slot] = Ready(r.key), !.pins[r.slot] = 1,
            !.index = [k \in DOMAIN @ \cup {r.key} |-> IF k = r.key THEN r.slot ELSE @[k]],
            !.recency = Accessed(p, r.slot)]

(* cancel_reservation of a reservation that holds its slot. *)
Cancel(p, s) ==
  [p EXCEPT !.state[s] = Empty, !.pins[s] = 0, !.n_loaded = @ - 1]

(* cancel_loading: nothing happens when the slot is no longer Loading(k). *)
CancelLoading(p, s, k) == IF p.state[s] = Loading(k) THEN Cancel(p, s) ELSE p

-----------------------------------------------------------------------------
(* Leases *)

(* validate_binding *)
Bound(p, b) ==
  /\ p.state[b.slot] = Ready(b.key)
  /\ p.generation[b.slot] = b.generation
  /\ p.pins[b.slot] > 0

(* release_after_compute_fence, of a valid binding. *)
Unpin(p, b) == [p EXCEPT !.pins[b.slot] = @ - 1]

(* mark_ready: published with the slot's current generation, left unpinned. *)
MarkReady(p, s, k) == Unpin(Publish(p, Stamp(p, k, s)), Stamp(p, k, s))
=============================================================================
