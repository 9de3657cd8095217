------------------------------ MODULE MoePages ------------------------------
(***************************************************************************)
(* S14VulkanMoePages and S14VulkanExpertPages (ssd_inference/src/          *)
(* s14_vulkan.rs): a layer's routed expert pages and its shared expert     *)
(* page are brought into two VRAM pools as one transaction,                *)
(*                                                                         *)
(*   begin_after_official_route -> upload -> publish_after_transfer_fence  *)
(*       -> compute -> release_after_compute_fence                         *)
(*                                                                         *)
(* with cancel before publication.  Several tickets are outstanding at a   *)
(* time; between their calls the owner of a pool uses it directly: it      *)
(* looks pages up, withdraws a slot whose upload failed and reloads it.    *)
(***************************************************************************)
EXTENDS VramPool, FiniteSets, SequencesExt

CONSTANTS
  Tickets,        \* callers that can hold a ticket
  Routes,         \* official routes: [experts |-> sequence, shared |-> key]
  OwnerKeys,      \* pages the owner of each pool loads by itself
  RoutedSlots,    \* n_slots of the routed pool
  SharedSlots,    \* n_slots of the shared pool
  MaxReserves,    \* bound on begin and reserve calls
  NoKey,          \* content of a slot nothing was uploaded to
  NoLoad          \* the pool owner has no reservation of its own

ASSUME MoeAssumption ==
  /\ RoutedSlots \in Nat \ {0}
  /\ SharedSlots \in Nat \ {0}
  /\ \A r \in Routes :
       r.experts \in Seq(Key) /\ IsInjective(r.experts) /\ r.shared \in Key
  /\ OwnerKeys \in [{"routed", "shared"} -> SUBSET Key]
  /\ IsFiniteSet(Tickets) /\ MaxReserves \in Nat

PoolName == {"routed", "shared"}

(* LoadingReservation and the binding of a lease *)
PageStamp == [key : Key, slot : Nat, generation : Nat]
ASSUME NoLoadAssumption == NoLoad \notin [pool : PoolName, stamp : PageStamp]

VARIABLES
  pools,          \* the two VramPools
  memory,         \* the expert whose bytes each slot of VRAM holds
  tickets,        \* RouteLoadBatch / S14MoeComputeLeaseBatch held by a caller
  ownLoad,        \* LoadingReservation of the pool owner itself
  withdrawn,      \* reservations the pool owner cancelled behind a ticket
  reserves        \* begin and reserve calls so far

vars == <<pools, memory, tickets, ownLoad, withdrawn, reserves>>

NoTicket == [status |-> "none", pages |-> << >>, uploaded |-> FALSE]

(* PageState: CachedReady(lease) when `hit`, else Loading(reservation). *)
Page(n, hit, stamp) == [pool |-> n, hit |-> hit, stamp |-> stamp]

PagesOf(t)  == Range(tickets[t].pages)
LoadsOf(t)  == {g \in PagesOf(t) : ~g.hit}
Loads(t)    == {<<g.pool, g.stamp>> : g \in LoadsOf(t)}
StampsIn(n, pages) == {g.stamp : g \in {x \in pages : x.pool = n}}

-----------------------------------------------------------------------------
(* acquire_page: pin the page if it is Ready, else reserve a slot for it.   *)
AcquirePage(a, want) ==
  LET p == a.pools[want.pool] IN
  IF ~a.ok THEN a
  ELSE IF Visible(p, want.key)
    THEN [a EXCEPT !.pools[want.pool] = Pin(p, want.key),
                   !.pages = Append(@, Page(want.pool, TRUE,
                                            Stamp(p, want.key, p.index[want.key])))]
  ELSE IF CanReserve(p, want.key)
    THEN LET q == Reserve(p, want.key) IN
         [a EXCEPT !.pools[want.pool] = q,
                   !.pages = Append(@, Page(want.pool, FALSE,
                                            Stamp(q, want.key, SlotFor(p))))]
  ELSE [a EXCEPT !.ok = FALSE]

(* The routed pages in route order, then the layer's shared page; the
   routed-only S14VulkanExpertPages stops before the shared page. *)
Wants(r, whole) ==
  [i \in 1..Len(r.experts) |-> [pool |-> "routed", key |-> r.experts[i]]]
    \o IF whole THEN <<[pool |-> "shared", key |-> r.shared]>> ELSE << >>

(* What has been acquired after each of them. *)
Acquisition(wants) ==
  LET after[i \in 0..Len(wants)] ==
        IF i = 0 THEN [pools |-> pools, pages |-> << >>, ok |-> TRUE]
        ELSE AcquirePage(after[i - 1], wants[i])
  IN  after

Acquired(r, whole) == LET wants == Wants(r, whole) IN Acquisition(wants)[Len(wants)]

(* Mutation: a failed call gives back its reservations but not its pins. *)
RolledBackPool_KeepPins(p, hits, loads) ==
  LET freed == {r \in loads : Holds(p, r)} IN
  [p EXCEPT !.state = [s \in SlotsOf(p) |->
              IF \E r \in freed : r.slot = s THEN Empty ELSE @[s]],
            !.n_loaded = @ - Cardinality(freed)]

(* rollback_pages: every page is given back, and one that is no longer valid
   is skipped without stopping the others. *)
RolledBackPool(p, hits, loads) ==
  LET freed == {r \in loads : Holds(p, r)}
      unpin == {b \in hits : Bound(p, b)}
  IN  [p EXCEPT !.state = [s \in SlotsOf(p) |->
                  IF \E r \in freed : r.slot = s THEN Empty ELSE @[s]],
                !.pins = [s \in SlotsOf(p) |->
                  IF \E r \in freed : r.slot = s THEN 0
                  ELSE IF \E b \in unpin : b.slot = s THEN @[s] - 1 ELSE @[s]],
                !.n_loaded = @ - Cardinality(freed)]

RolledBack(ps, pages) ==
  [n \in PoolName |->
     RolledBackPool(ps[n], StampsIn(n, {g \in pages : g.hit}),
                           StampsIn(n, {g \in pages : ~g.hit}))]

-----------------------------------------------------------------------------
(* begin_after_official_route *)
BeginBatch(t, r, whole) ==
  /\ tickets[t] = NoTicket
  /\ reserves < MaxReserves
  /\ Acquired(r, whole).ok
  /\ pools' = Acquired(r, whole).pools
  /\ tickets' = [tickets EXCEPT ![t] = [status |-> "loading", uploaded |-> FALSE,
                                        pages |-> Acquired(r, whole).pages]]
  /\ reserves' = reserves + 1
  /\ UNCHANGED <<memory, ownLoad, withdrawn>>

BeginFails(t, r, whole) ==
  /\ tickets[t] = NoTicket
  /\ reserves < MaxReserves
  /\ ~Acquired(r, whole).ok
  /\ pools' = RolledBack(Acquired(r, whole).pools, Range(Acquired(r, whole).pages))
  /\ reserves' = reserves + 1
  /\ UNCHANGED <<memory, tickets, ownLoad, withdrawn>>

(* The caller's transfer fence: the bytes of every page still being loaded
   for t are in VRAM (the upload of a withdrawn page failed). *)
TransferFence(t) ==
  /\ tickets[t].status = "loading"
  /\ ~tickets[t].uploaded
  /\ memory' = [n \in PoolName |-> [s \in DOMAIN memory[n] |->
       IF \E g \in LoadsOf(t) : g.pool = n /\ g.stamp.slot = s /\ Holds(pools[n], g.stamp)
       THEN pools[n].state[s].key ELSE memory[n][s]]]
  /\ tickets' = [tickets EXCEPT ![t].uploaded = TRUE]
  /\ UNCHANGED <<pools, ownLoad, withdrawn, reserves>>

(* Mutation: only the pool of the routed pages passes the preflight. *)
Preflight_RoutedOnly(t) ==
  CanPublish(pools["routed"], StampsIn("routed", LoadsOf(t)))

Preflight(t) == \A n \in PoolName : CanPublish(pools[n], StampsIn(n, LoadsOf(t)))

(* publish_prevalidated_batch_and_pin: the pools after each page. *)
Publication(pages) ==
  LET after[i \in 0..Len(pages)] ==
        IF i = 0 THEN pools
        ELSE LET g == pages[i] IN
             IF g.hit THEN after[i - 1]
             ELSE [after[i - 1] EXCEPT ![g.pool] = Publish(@, g.stamp)]
  IN  after

Published(t) == Publication(tickets[t].pages)[Len(tickets[t].pages)]

(* publish_after_transfer_fence: both pools pass the preflight, or nothing is
   published and the ticket is rolled back. *)
PublishBatch(t) ==
  /\ tickets[t].status = "loading"
  /\ tickets[t].uploaded
  /\ Preflight(t)
  /\ pools' = Published(t)
  /\ tickets' = [tickets EXCEPT ![t].status = "leased"]
  /\ UNCHANGED <<memory, ownLoad, withdrawn, reserves>>

PublishFails(t) ==
  /\ tickets[t].status = "loading"
  /\ tickets[t].uploaded
  /\ ~Preflight(t)
  /\ pools' = RolledBack(pools, PagesOf(t))
  /\ tickets' = [tickets EXCEPT ![t] = NoTicket]
  /\ withdrawn' = withdrawn \ Loads(t)
  /\ UNCHANGED <<memory, ownLoad, reserves>>

CancelBatch(t) ==
  /\ tickets[t].status = "loading"
  /\ pools' = RolledBack(pools, PagesOf(t))
  /\ tickets' = [tickets EXCEPT ![t] = NoTicket]
  /\ withdrawn' = withdrawn \ Loads(t)
  /\ UNCHANGED <<memory, ownLoad, reserves>>

(* release_after_compute_fence validates every binding, then unpins. *)
ReleaseBatch(t) ==
  /\ tickets[t].status = "leased"
  /\ \A g \in PagesOf(t) : Bound(pools[g.pool], g.stamp)
  /\ pools' = [n \in PoolName |-> [pools[n] EXCEPT !.pins = [s \in DOMAIN @ |->
       IF \E b \in StampsIn(n, PagesOf(t)) : b.slot = s THEN @[s] - 1 ELSE @[s]]]]
  /\ tickets' = [tickets EXCEPT ![t] = NoTicket]
  /\ withdrawn' = withdrawn \ Loads(t)
  /\ UNCHANGED <<memory, ownLoad, reserves>>

-----------------------------------------------------------------------------
(* The pool owner, through VramPool's public methods. *)

OwnerLookup(n, k) ==
  /\ pools' = [pools EXCEPT ![n] = Lookup(@, k)]
  /\ UNCHANGED <<memory, tickets, ownLoad, withdrawn, reserves>>

(* cancel_loading of a slot some ticket is loading: its upload failed. *)
OwnerWithdraws(t, g) ==
  /\ tickets[t].status = "loading"
  /\ ~tickets[t].uploaded
  /\ Holds(pools[g.pool], g.stamp)
  /\ pools' = [pools EXCEPT ![g.pool] = Cancel(@, g.stamp.slot)]
  /\ withdrawn' = withdrawn \cup {<<g.pool, g.stamp>>}
  /\ UNCHANGED <<memory, tickets, ownLoad, reserves>>

OwnerReserves(n, k) ==
  /\ ownLoad = NoLoad
  /\ reserves < MaxReserves
  /\ CanReserve(pools[n], k)
  /\ pools' = [pools EXCEPT ![n] = Reserve(@, k)]
  /\ ownLoad' = [pool |-> n, stamp |-> Stamp(pools'[n], k, SlotFor(pools[n]))]
  /\ reserves' = reserves + 1
  /\ UNCHANGED <<memory, tickets, withdrawn>>

(* mark_ready after the owner's own fence: published, and not left pinned. *)
OwnerMarksReady ==
  /\ ownLoad # NoLoad
  /\ memory' = [memory EXCEPT ![ownLoad.pool][ownLoad.stamp.slot] = ownLoad.stamp.key]
  /\ pools' = [pools EXCEPT ![ownLoad.pool] =
                 MarkReady(@, ownLoad.stamp.slot, ownLoad.stamp.key)]
  /\ ownLoad' = NoLoad
  /\ UNCHANGED <<tickets, withdrawn, reserves>>

OwnerCancels ==
  /\ ownLoad # NoLoad
  /\ pools' = [pools EXCEPT ![ownLoad.pool] = Cancel(@, ownLoad.stamp.slot)]
  /\ ownLoad' = NoLoad
  /\ UNCHANGED <<memory, tickets, withdrawn, reserves>>

Init ==
  /\ pools = [n \in PoolName |-> NewPool(IF n = "routed" THEN RoutedSlots ELSE SharedSlots)]
  /\ memory = [n \in PoolName |-> [s \in SlotsOf(pools[n]) |-> NoKey]]
  /\ tickets = [t \in Tickets |-> NoTicket]
  /\ ownLoad = NoLoad
  /\ withdrawn = {}
  /\ reserves = 0

Next ==
  \/ \E t \in Tickets :
       \/ \E r \in Routes, whole \in BOOLEAN : BeginBatch(t, r, whole) \/ BeginFails(t, r, whole)
       \/ TransferFence(t)
       \/ PublishBatch(t)
       \/ PublishFails(t)
       \/ CancelBatch(t)
       \/ ReleaseBatch(t)
       \/ \E g \in LoadsOf(t) : OwnerWithdraws(t, g)
  \/ \E n \in PoolName : \E k \in DOMAIN pools[n].index : OwnerLookup(n, k)
  \/ \E n \in PoolName : \E k \in OwnerKeys[n] : OwnerReserves(n, k)
  \/ OwnerMarksReady
  \/ OwnerCancels

Spec == Init /\ [][Next]_vars

-----------------------------------------------------------------------------
(* Correctness *)

TypeOK ==
  /\ \A n \in PoolName :
       /\ pools[n].state \in Seq(SlotState)
       /\ pools[n].pins \in [SlotsOf(pools[n]) -> Nat]
       /\ pools[n].generation \in [SlotsOf(pools[n]) -> Nat]
       /\ IsInjective(pools[n].recency)
       /\ Range(pools[n].recency) =
            {s \in SlotsOf(pools[n]) : pools[n].state[s].tag = "Ready"}
       /\ memory[n] \in [SlotsOf(pools[n]) -> Key \cup {NoKey}]
  /\ \A t \in Tickets :
       /\ tickets[t].status \in {"none", "loading", "leased"}
       /\ \A g \in PagesOf(t) : g.pool \in PoolName /\ g.stamp.key \in Key

(* The index is exactly the inverse of the Ready slots and n_loaded their    *)
(* count with the Loading ones: no page is visible twice, none is orphaned.  *)
IndexExact ==
  \A n \in PoolName :
    LET p == pools[n]
        busy == {s \in SlotsOf(p) : p.state[s] # Empty}
    IN  /\ \A k \in DOMAIN p.index : p.state[p.index[k]] = Ready(k)
        /\ \A s \in busy : p.state[s].tag = "Ready" => p.index[p.state[s].key] = s
        /\ \A s1, s2 \in busy : p.state[s1].key = p.state[s2].key => s1 = s2
        /\ p.n_loaded = Cardinality(busy)

(* Pins are exactly the outstanding leases: a failed begin, a cancelled or a *)
(* refused ticket leaves no page pinned for ever, and no page loses the pin  *)
(* of a computation still reading it.                                        *)
Pinners(n, s) ==
  {t \in Tickets : \E g \in PagesOf(t) :
     g.pool = n /\ g.stamp.slot = s /\ (g.hit \/ tickets[t].status = "leased")}
PinsAreLeases ==
  \A n \in PoolName : \A s \in SlotsOf(pools[n]) :
    pools[n].pins[s] = Cardinality(Pinners(n, s))

(* A binding a ticket holds stays valid, and its slot keeps the bytes of its *)
(* expert, until the compute fence: neither eviction nor another ticket's    *)
(* upload reaches a page in use.                                             *)
LeasedPagesStay ==
  \A t \in Tickets : \A g \in PagesOf(t) :
    g.hit \/ tickets[t].status = "leased" =>
      /\ Bound(pools[g.pool], g.stamp)
      /\ memory[g.pool][g.stamp.slot] = g.stamp.key

(* Every Loading slot is owned by exactly one live reservation, and every    *)
(* reservation owns its slot until its ticket ends or the pool owner         *)
(* withdraws it: a withdrawn ticket cannot cancel or publish its successor.  *)
Reservations ==
  (UNION {Loads(t) : t \in {u \in Tickets : tickets[u].status = "loading"}})
    \cup (IF ownLoad = NoLoad THEN {} ELSE {<<ownLoad.pool, ownLoad.stamp>>})
ReservationsOwnSlots ==
  /\ \A x \in Reservations \ withdrawn : Holds(pools[x[1]], x[2])
  /\ \A n \in PoolName : \A s \in SlotsOf(pools[n]) :
       pools[n].state[s].tag = "Loading" =>
         \E x \in Reservations \ withdrawn : x[1] = n /\ x[2].slot = s

(* "No page is published until both pools pass generation preflight": a      *)
(* ticket's pages become visible all together or not at all.                 *)
BecomesReady(g) ==
  Holds(pools[g.pool], g.stamp) /\ pools'[g.pool].state[g.stamp.slot] = Ready(g.stamp.key)
AllOrNothing ==
  [][\A t \in Tickets :
       (\E g \in LoadsOf(t) : BecomesReady(g)) => \A g \in LoadsOf(t) : BecomesReady(g)]_vars
=============================================================================
