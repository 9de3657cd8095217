---------------------------- MODULE ExpertLoader ----------------------------
(***************************************************************************)
(* ExpertLoader (ssd_inference/src/expert_loader.rs) and the engine calls  *)
(* around it: expert pages go from disk into a ring of staging buffers and *)
(* from there, by DMA on the transfer queue, into slots of the VRAM pool.  *)
(*                                                                         *)
(* The host is one thread.  A submitted copy is executed by the GPU at any *)
(* later moment, and reads the staging buffer at that moment; the host     *)
(* learns of it only through the fence of the ring slot, and the page is   *)
(* hidden from lookups until the host has waited for that fence.           *)
(***************************************************************************)
EXTENDS VramPool, FiniteSets, SequencesExt

CONSTANTS
  Slots,       \* vram_pool_slots
  Depth,       \* pipeline_depth: staging buffers in the ring
  Batches,     \* the sequences of pages batch_enqueue is called with
  MaxLoads,    \* bound on the pages requested
  Garbage,     \* content of a buffer that holds no complete page
  NoTransfer,  \* None of Option<PendingTransfer>
  NoBatch      \* no batch_enqueue call is in progress

ASSUME LoaderAssumption ==
  /\ Slots \in Nat \ {0}
  /\ Depth \in Nat \ {0}
  /\ Batches \subseteq Seq(Key)
  /\ MaxLoads \in Nat

Ring == 1..Depth

(* PendingTransfer, and the plan of a batch_enqueue call *)
Transfer == [key : Key, slot : 1..Slots]
Batch    == [keys : Seq(Key), slots : Seq(1..Slots)]
ASSUME NoneAssumption == NoTransfer \notin Transfer /\ NoBatch \notin Batch

VARIABLES
  pool,        \* VramPool
  memory,      \* the page in each VRAM slot
  staging,     \* the page in each staging buffer
  fence,       \* fences: has the last copy of the ring slot completed?
  pending,     \* Option<PendingTransfer> of each ring slot
  next_pip,
  queue,       \* copies submitted to the GPU and not yet executed
  batch,       \* the batch_enqueue call in progress
  returned,    \* <<page, slot>> pairs the last call returned
  open,        \* destroy has not been called
  loads

ring == <<staging, fence, pending, next_pip, queue>>
vars == <<pool, memory, ring, batch, returned, open, loads>>

-----------------------------------------------------------------------------
(* The transfer queue: copies are executed in any order. *)
ExecuteCopy(pip, slot) ==
  /\ <<pip, slot>> \in queue
  /\ memory' = [memory EXCEPT ![slot] = staging[pip]]
  /\ fence' = [fence EXCEPT ![pip] = TRUE]
  /\ queue' = queue \ {<<pip, slot>>}
  /\ UNCHANGED <<pool, staging, pending, next_pip, batch, returned, open, loads>>

-----------------------------------------------------------------------------
(* complete_pipeline_slot: wait for the fence, then publish. *)
Signaled(pip) == pending[pip] # NoTransfer => fence[pip]

Completed(p, pip) ==
  IF pending[pip] = NoTransfer THEN p
  ELSE MarkReady(p, pending[pip].slot, pending[pip].key)

(* wait_all, and flush of the engine: the ring is drained in ring order. *)
Completion ==
  LET after[pip \in 0..Depth] == IF pip = 0 THEN pool ELSE Completed(after[pip - 1], pip)
  IN  after
Settled == Completion[Depth]
WaitAll ==
  /\ \A pip \in Ring : Signaled(pip)
  /\ pool' = Settled
  /\ pending' = [pip \in Ring |-> NoTransfer]
  /\ UNCHANGED <<memory, staging, fence, next_pip, queue>>

-----------------------------------------------------------------------------
(* enqueue and enqueue_from_buf: what they do for page k, with the slot they
   return. *)
PipsOf(k) == {pip \in Ring : pending[pip] # NoTransfer /\ pending[pip].key = k}

EnqueueHit(k, slot) ==
  /\ Visible(pool, k)
  /\ slot = pool.index[k]
  /\ pool' = Lookup(pool, k)
  /\ UNCHANGED <<memory, ring>>

(* complete_pending_key: the page is already on its way. *)
EnqueuePending(k, slot) ==
  /\ ~Visible(pool, k)
  /\ \E pip \in PipsOf(k) :
       /\ Signaled(pip)
       /\ slot = pending[pip].slot
       /\ pool' = Lookup(Completed(pool, pip), k)
       /\ pending' = [pending EXCEPT ![pip] = NoTransfer]
  /\ UNCHANGED <<memory, staging, fence, next_pip, queue>>

(* The ring slot a load takes, and the pool once it has been completed. *)
Pool1 == Completed(pool, next_pip)

(* Mutation: the ring slot is reused without waiting for its fence. *)
TakeRingSlot_NoWait(k) ==
  /\ ~Visible(pool, k)
  /\ PipsOf(k) = {}
  /\ next_pip' = (next_pip % Depth) + 1

TakeRingSlot(k) ==
  /\ ~Visible(pool, k)
  /\ PipsOf(k) = {}
  /\ Signaled(next_pip)
  /\ next_pip' = (next_pip % Depth) + 1

(* Mutation: the copy is submitted without the fence of its ring slot. *)
EnqueueLoad_NoFence(k, slot) ==
  /\ TakeRingSlot(k)
  /\ CanReserve(Pool1, k)
  /\ slot = SlotFor(Pool1)
  /\ pool' = Reserve(Pool1, k)
  /\ staging' = [staging EXCEPT ![next_pip] = k]
  /\ fence' = [fence EXCEPT ![next_pip] = FALSE]
  /\ memory' = [memory EXCEPT ![slot] = k]
  /\ pending' = [pending EXCEPT ![next_pip] = [key |-> k, slot |-> slot]]
  /\ UNCHANGED queue

EnqueueLoad(k, slot) ==
  /\ TakeRingSlot(k)
  /\ CanReserve(Pool1, k)
  /\ slot = SlotFor(Pool1)
  /\ pool' = Reserve(Pool1, k)
  /\ staging' = [staging EXCEPT ![next_pip] = k]
  /\ fence' = [fence EXCEPT ![next_pip] = FALSE]
  /\ queue' = queue \cup {<<next_pip, slot>>}
  /\ pending' = [pending EXCEPT ![next_pip] = [key |-> k, slot |-> slot]]
  /\ UNCHANGED memory

(* The errors of enqueue.  Nothing has happened yet when the reader does not
   know the page or it does not fit. *)
RefusePage(k) ==
  /\ ~Visible(pool, k)
  /\ PipsOf(k) = {}
  /\ UNCHANGED <<pool, memory, ring>>

RefuseSlot(k) ==
  /\ TakeRingSlot(k)
  /\ ~CanReserve(Pool1, k)
  /\ pool' = Pool1
  /\ pending' = [pending EXCEPT ![next_pip] = NoTransfer]
  /\ UNCHANGED <<memory, staging, fence, queue>>

(* read_into fails: the reservation is cancelled, what it evicted is gone. *)
FailRead(k) ==
  /\ TakeRingSlot(k)
  /\ CanReserve(Pool1, k)
  /\ pool' = CancelLoading(Reserve(Pool1, k), SlotFor(Pool1), k)
  /\ pending' = [pending EXCEPT ![next_pip] = NoTransfer]
  /\ staging' = [staging EXCEPT ![next_pip] = Garbage]
  /\ UNCHANGED <<memory, fence, queue>>

(* Mutation: the transfer is recorded although its submission failed. *)
FailSubmit_Pending(k) ==
  /\ TakeRingSlot(k)
  /\ CanReserve(Pool1, k)
  /\ pool' = Reserve(Pool1, k)
  /\ pending' = [pending EXCEPT ![next_pip] = [key |-> k, slot |-> SlotFor(Pool1)]]
  /\ staging' = [staging EXCEPT ![next_pip] = k]
  /\ fence' \in {fence, [fence EXCEPT ![next_pip] = FALSE]}
  /\ UNCHANGED <<memory, queue>>

(* Recording or submitting the copy fails, before or after reset_fences: the
   fence of the ring slot may stay unsignaled with nothing pending. *)
FailSubmit(k) ==
  /\ TakeRingSlot(k)
  /\ CanReserve(Pool1, k)
  /\ pool' = CancelLoading(Reserve(Pool1, k), SlotFor(Pool1), k)
  /\ pending' = [pending EXCEPT ![next_pip] = NoTransfer]
  /\ staging' = [staging EXCEPT ![next_pip] = k]
  /\ fence' \in {fence, [fence EXCEPT ![next_pip] = FALSE]}
  /\ UNCHANGED <<memory, queue>>

Enqueue(k, slot) == EnqueueHit(k, slot) \/ EnqueuePending(k, slot) \/ EnqueueLoad(k, slot)
EnqueueFails(k) ==
  \/ RefusePage(k)
  \/ RefuseSlot(k)
  \/ FailRead(k)
  \/ FailSubmit(k)

-----------------------------------------------------------------------------
(* The calls of the engine *)
Idle == open /\ batch = NoBatch

EnsureExpert(k) ==
  /\ Idle
  /\ loads < MaxLoads
  /\ loads' = loads + 1
  /\ \/ \E slot \in 1..Slots : Enqueue(k, slot) /\ returned' = {<<k, slot>>}
     \/ EnqueueFails(k) /\ returned' = {}
  /\ UNCHANGED <<batch, open>>

Flush == Idle /\ WaitAll /\ UNCHANGED <<batch, returned, open, loads>>

(* batch_enqueue settles the ring, then plans one load per distinct page; a
   batch of more pages than slots is refused. *)
Planned(keys) ==
  LET plan[i \in 0..Len(keys)] ==
        IF i = 0 THEN << >>
        ELSE IF Contains(plan[i - 1], keys[i]) THEN plan[i - 1]
        ELSE Append(plan[i - 1], keys[i])
  IN  plan
Distinct(keys) == Planned(keys)[Len(keys)]

BeginBatch(keys) ==
  /\ Idle
  /\ keys # << >>
  /\ loads + Len(keys) <= MaxLoads
  /\ loads' = loads + Len(keys)
  /\ WaitAll
  /\ batch' = IF Len(Distinct(keys)) > Slots THEN NoBatch
              ELSE [keys |-> Distinct(keys), slots |-> << >>]
  /\ returned' = {}
  /\ UNCHANGED open

(* Pages are enqueued in waves of Depth: the ring is drained between waves. *)
WaveEnds ==
  /\ Len(batch.slots) \in {n \in 1..(Len(batch.keys) - 1) : n % Depth = 0}
  /\ \E pip \in Ring : pending[pip] # NoTransfer

DrainWave ==
  /\ batch # NoBatch
  /\ WaveEnds
  /\ WaitAll
  /\ UNCHANGED <<batch, returned, open, loads>>

BatchNext ==
  /\ batch # NoBatch
  /\ ~WaveEnds
  /\ Len(batch.slots) < Len(batch.keys)
  /\ LET k == batch.keys[Len(batch.slots) + 1] IN
     \/ \E slot \in 1..Slots :
          Enqueue(k, slot) /\ batch' = [batch EXCEPT !.slots = Append(@, slot)]
     \/ EnqueueFails(k) /\ batch' = NoBatch
  /\ UNCHANGED <<returned, open, loads>>

BatchReturns ==
  /\ batch # NoBatch
  /\ Len(batch.slots) = Len(batch.keys)
  /\ returned' = {<<batch.keys[i], batch.slots[i]>> : i \in DOMAIN batch.keys}
  /\ batch' = NoBatch
  /\ UNCHANGED <<pool, memory, ring, open, loads>>

(* Mutation: destroy does not wait for the copies in flight. *)
Destroy_NoWait ==
  /\ Idle
  /\ open' = FALSE
  /\ UNCHANGED <<pool, memory, ring, batch, returned, loads>>

(* destroy waits for the fences of submitted transfers only. *)
Destroy ==
  /\ Idle
  /\ \A pip \in Ring : Signaled(pip)
  /\ open' = FALSE
  /\ UNCHANGED <<pool, memory, ring, batch, returned, loads>>

Init ==
  /\ pool = NewPool(Slots)
  /\ memory = [s \in 1..Slots |-> Garbage]
  /\ staging = [pip \in Ring |-> Garbage]
  /\ fence = [pip \in Ring |-> TRUE]
  /\ pending = [pip \in Ring |-> NoTransfer]
  /\ next_pip = 1
  /\ queue = {}
  /\ batch = NoBatch
  /\ returned = {}
  /\ open = TRUE
  /\ loads = 0

Next ==
  \/ \E pip \in Ring, slot \in 1..Slots : ExecuteCopy(pip, slot)
  \/ \E k \in Key : EnsureExpert(k)
  \/ Flush
  \/ \E keys \in Batches : BeginBatch(keys)
  \/ DrainWave
  \/ BatchNext
  \/ BatchReturns
  \/ Destroy

Spec == Init /\ [][Next]_vars

(* The GPU executes what was submitted, and the host thread runs a call it is
   in to its end. *)
Fairness ==
  /\ \A pip \in Ring, slot \in 1..Slots : WF_vars(ExecuteCopy(pip, slot))
  /\ WF_vars(DrainWave \/ BatchNext \/ BatchReturns)
FairSpec == Spec /\ Fairness

-----------------------------------------------------------------------------
(* Correctness *)

TypeOK ==
  /\ pool.state \in Seq(SlotState)
  /\ pool.pins \in [1..Slots -> {0}]
  /\ IsInjective(pool.recency)
  /\ \A s \in 1..Slots : s \in Range(pool.recency) <=> pool.state[s].tag = "Ready"
  /\ \A s \in 1..Slots : memory[s] \in Key \cup {Garbage}
  /\ \A pip \in Ring : staging[pip] \in Key \cup {Garbage}
  /\ fence \in [Ring -> BOOLEAN]
  /\ next_pip \in Ring
  /\ queue \subseteq Ring \X (1..Slots)

(* A page that a lookup finds is the page whose bytes are in its slot: no    *)
(* staging buffer is overwritten before the copy that reads it, and no page  *)
(* is shown before its copy.                                                 *)
VisiblePagesAreLoaded == \A k \in DOMAIN pool.index : memory[pool.index[k]] = k

(* The ring, the GPU queue and the Loading slots tell the same story: every  *)
(* copy in flight belongs to the pending transfer of its ring slot, whose    *)
(* fence is unsignaled exactly while it runs, and every Loading slot to one  *)
(* pending transfer.  No failure leaves a slot Loading for ever, no wait is  *)
(* for a fence nobody will signal, and mark_ready is never refused.          *)
InFlightTracked ==
  /\ \A c \in queue : pending[c[1]] # NoTransfer /\ pending[c[1]].slot = c[2]
  /\ \A pip \in Ring : pending[pip] # NoTransfer =>
       /\ pool.state[pending[pip].slot] = Loading(pending[pip].key)
       /\ fence[pip] <=> <<pip, pending[pip].slot>> \notin queue
  /\ \A s \in 1..Slots : pool.state[s].tag = "Loading" =>
       Cardinality({pip \in Ring : pending[pip] # NoTransfer /\ pending[pip].slot = s}) = 1

(* The slots batch_enqueue returns still belong to their pages when it       *)
(* returns and after the flush: a page of the batch is never evicted to make *)
(* room for a later one, although hits are not pinned.                       *)
ReturnedSlotsHold ==
  \A r \in returned : pool.state[r[2]] \in {Loading(r[1]), Ready(r[1])}

(* Teardown never frees a buffer a copy still reads or writes. *)
NoCopyAfterDestroy == ~open => queue = {}

(* A batch ends, with its slots or with an error, whatever fails. *)
BatchEnds == batch # NoBatch ~> batch = NoBatch
=============================================================================
