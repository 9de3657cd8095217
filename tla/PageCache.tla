------------------------------ MODULE PageCache ------------------------------
(***************************************************************************)
(* ExpertPageCache (polaris_meridian_v0/runtime_paging/page_cache.py): a   *)
(* read-only cache of expert pages, least recently used first out, with    *)
(* prefetch and one load under way per page.  Callers run get, prefetch    *)
(* and close in threads of their own; a pool of workers reads the pages.   *)
(*                                                                         *)
(* _lock is not re-entrant.  A call that takes and releases it without     *)
(* calling out is one step.  _start calls out while it holds it: it        *)
(* submits the load and only then attaches the callback that publishes the *)
(* page; between the two the worker may run.                               *)
(***************************************************************************)
EXTENDS Naturals, FiniteSetsExt, PageCatalog

CONSTANTS
  Tensors,        \* the tensors of the routed experts in the weight files
  FileSize,       \* bytes of each file
  Threads,        \* threads that call the cache
  Workers,        \* max_workers of the executor
  Capacity,       \* capacity_bytes
  Prefetches,     \* the keys that a call of prefetch may name, none twice
  MaxCalls,       \* bound on the calls of get, prefetch and close
  None            \* no future, or no thread

ASSUME PageCacheAssumption ==
  /\ Workers \in Nat \ {0} /\ Capacity \in Nat /\ MaxCalls \in Nat
  /\ None \notin Threads /\ None \notin Nat
  /\ Buildable(Tensors, FileSize)
  /\ Prefetches \subseteq Seq(Paged(Tensors)) \ {<< >>}

VARIABLES
  cache,       \* _cache: the resident pages, the least recently used first
  resident,    \* _resident_bytes
  inflight,    \* _inflight: the future of each page, or None
  closed,      \* _closed of the cache
  source,      \* is the PageSource open
  lock,        \* the thread that holds _lock between two steps
  futures,     \* the futures of the executor, in the order of submit
  thread,      \* where each caller is
  answer,      \* what its last call returned
  calls

table == <<cache, resident, inflight>>
state == <<closed, source>>
vars  == <<table, state, lock, futures, thread, answer, calls>>

Pages == Paged(Tensors)

(* self.pages and the files behind it: nbytes of each page, and the bytes     *)
(* that a read of it returns.  A future and an entry of the cache say which   *)
(* page was read.                                                             *)
Entries  == Catalog(Tensors)
Contents == [p \in Pages |-> ReadSpans(Entries[p])]
PageSize == [p \in Pages |-> NBytes(Entries[p])]
Bytes(p) == PageSize[p]

-----------------------------------------------------------------------------
(* Futures.  phase: queued -> reading -> done or failed; the callback is    *)
(* attached when _start gets to it, and run once the future is finished.    *)

Futures == DOMAIN futures
Finished(f) == futures[f].phase \in {"done", "failed"}
Loading(f) == futures[f].phase \in {"queued", "reading"}
CallbackDue(f) == Finished(f) /\ futures[f].callback = "attached"

(* The futures that keep a worker of the pool busy. *)
Occupied == {f \in Futures : futures[f].phase = "reading" \/ CallbackDue(f)}
Idling == Cardinality(Occupied) < Workers
Queue == {f \in Futures : futures[f].phase = "queued"}

-----------------------------------------------------------------------------
(* The cache *)

Resident(p) == Contains(cache, p)
LockFree == lock = None

(* The bytes that some pages take. *)
Size(entries) == Total([i \in DOMAIN entries |-> PageSize[entries[i]]])

MoveToEnd(p) ==
  LET i == CHOOSE i \in DOMAIN cache : cache[i] = p IN Append(RemoveAt(cache, i), p)

(* Mutation: one page makes room for one page. *)
Victims_One(n) == IF resident + n > Capacity THEN Min({1, Len(cache)}) ELSE 0

(* How many pages the loop of _complete takes from the front. *)
Victims(n) ==
  CHOOSE k \in 0..Len(cache) :
    /\ k = Len(cache) \/ resident - Size(SubSeq(cache, 1, k)) + n <= Capacity
    /\ \A j \in 0..(k - 1) : resident - Size(SubSeq(cache, 1, j)) + n > Capacity

Oversize(p) == Bytes(p) > Capacity \/ Capacity = 0

(* Mutation: a load that failed stays in _inflight. *)
Forgets_OnSuccess(f) ==
  LET p == futures[f].page IN
  inflight' = IF inflight[p] = f /\ futures[f].phase = "done"
              THEN [inflight EXCEPT ![p] = None] ELSE inflight

Forgets(f) ==
  LET p == futures[f].page IN
  inflight' = IF inflight[p] = f THEN [inflight EXCEPT ![p] = None] ELSE inflight

(* _complete under the lock. *)
Publishes(f) ==
  LET p == futures[f].page IN
  /\ Forgets(f)
  /\ IF futures[f].phase = "failed" \/ Resident(p) \/ Oversize(p)
     THEN UNCHANGED <<cache, resident>>
     ELSE LET k == Victims(Bytes(p)) IN
          /\ cache' = Append(SubSeq(cache, k + 1, Len(cache)), p)
          /\ resident' = resident - Size(SubSeq(cache, 1, k)) + Bytes(p)

-----------------------------------------------------------------------------
(* Callers *)

Idle == [pc |-> "idle"]
Raised == [kind |-> "error"]
Scheduled == [kind |-> "scheduled"]
(* The caller asked for page p and is given the bytes of page q. *)
Returned(p, q) == [kind |-> "page", page |-> p, payload |-> q]

Ends(t, a) ==
  /\ thread' = [thread EXCEPT ![t] = Idle]
  /\ answer' = [answer EXCEPT ![t] = a]

Begins(t, here) ==
  /\ thread' = [thread EXCEPT ![t] = here]
  /\ answer' = [answer EXCEPT ![t] = Scheduled]

Calls(t) ==
  /\ thread[t] = Idle
  /\ calls < MaxCalls
  /\ calls' = calls + 1

(* _start is about to run for the first page of todo; got holds the futures *)
(* that prefetch has scheduled before.                                      *)
Starting(op, todo, got) == [pc |-> "start", op |-> op, todo |-> todo, got |-> got]
Waiting(op, asked, got) == [pc |-> "wait", op |-> op, asked |-> asked, got |-> got]

GetHit(t, p) ==
  /\ Calls(t) /\ LockFree
  /\ Resident(p)
  /\ cache' = MoveToEnd(p)
  /\ Ends(t, Returned(p, p))
  /\ UNCHANGED <<resident, inflight, state, lock, futures>>

GetMiss(t, p) ==
  /\ Calls(t) /\ LockFree
  /\ ~Resident(p)
  /\ Begins(t, Starting("get", <<p>>, << >>))
  /\ UNCHANGED <<table, state, lock, futures>>

(* prefetch: dict.fromkeys has removed the repetitions. *)
Prefetch(t, keys) ==
  /\ Calls(t) /\ LockFree
  /\ Begins(t, Starting("prefetch", keys, << >>))
  /\ UNCHANGED <<table, state, lock, futures>>

(* _start for one page is over: get waits for its future; prefetch goes on, *)
(* and its caller may wait for all of them.                                 *)
Continues(t, got) ==
  LET here == thread[t] IN
  IF Len(here.todo) > 1
  THEN thread' = [thread EXCEPT ![t] = Starting(here.op, Tail(here.todo), got)] /\ UNCHANGED answer
  ELSE \/ thread' = [thread EXCEPT ![t] = Waiting(here.op, Head(here.todo), got)] /\ UNCHANGED answer
       \/ here.op = "prefetch" /\ Ends(t, Scheduled)

At(t, pc) == thread[t].pc = pc
Wanted(t) == Head(thread[t].todo)

(* Mutation: the refusal leaves without releasing the lock. *)
StartRefused_Locked(t) ==
  /\ At(t, "start") /\ LockFree
  /\ closed
  /\ lock' = t
  /\ Ends(t, Raised)
  /\ UNCHANGED <<table, state, futures, calls>>

StartRefused(t) ==
  /\ At(t, "start") /\ LockFree
  /\ closed
  /\ Ends(t, Raised)
  /\ UNCHANGED <<table, state, lock, futures, calls>>

(* The page arrived in between: a completed future, no move in the order. *)
StartResident(t) ==
  /\ At(t, "start") /\ LockFree
  /\ ~closed /\ Resident(Wanted(t))
  /\ IF thread[t].op = "get" THEN Ends(t, Returned(Wanted(t), Wanted(t)))
     ELSE Continues(t, thread[t].got)
  /\ UNCHANGED <<table, state, lock, futures, calls>>

(* Mutation: only loads that a worker has already taken are joined. *)
Joinable_Reading(p) == inflight[p] # None /\ futures[inflight[p]].phase # "queued"

Joinable(p) == inflight[p] # None

StartJoins(t) ==
  /\ At(t, "start") /\ LockFree
  /\ ~closed /\ ~Resident(Wanted(t)) /\ Joinable(Wanted(t))
  /\ Continues(t, Append(thread[t].got, inflight[Wanted(t)]))
  /\ UNCHANGED <<table, state, lock, futures, calls>>

StartSubmits(t) ==
  /\ At(t, "start") /\ LockFree
  /\ ~closed /\ ~Resident(Wanted(t)) /\ ~Joinable(Wanted(t))
  /\ futures' = Append(futures, [page |-> Wanted(t), phase |-> "queued",
                                 callback |-> "none"])
  /\ inflight' = [inflight EXCEPT ![Wanted(t)] = Len(futures')]
  /\ lock' = t
  /\ thread' = [thread EXCEPT ![t].pc = "attach"]
  /\ UNCHANGED <<cache, resident, state, answer, calls>>

(* add_done_callback, and the lock is released. *)
Attaches(t) ==
  LET f == inflight[Wanted(t)] IN
  /\ At(t, "attach")
  /\ ~Finished(f)
  /\ futures' = [futures EXCEPT ![f].callback = "attached"]
  /\ lock' = None
  /\ Continues(t, Append(thread[t].got, f))
  /\ UNCHANGED <<table, state, calls>>

(* add_done_callback of a finished future calls _complete at once, in this  *)
(* thread, which waits for the lock that it holds itself.                   *)
CallsBack(t) ==
  /\ At(t, "attach")
  /\ Finished(inflight[Wanted(t)])
  /\ thread' = [thread EXCEPT ![t].pc = "stuck"]
  /\ UNCHANGED <<table, state, lock, futures, answer, calls>>

(* future.result() of get, and of each future in wait. *)
Waits(t) ==
  LET f == Head(thread[t].got) IN
  /\ At(t, "wait") /\ thread[t].got # << >>
  /\ Finished(f)
  /\ CASE futures[f].phase = "failed" -> Ends(t, Raised)
       [] thread[t].op = "get" -> Ends(t, Returned(thread[t].asked, futures[f].page))
       [] OTHER -> thread' = [thread EXCEPT ![t].got = Tail(@)] /\ UNCHANGED answer
  /\ UNCHANGED <<table, state, lock, futures, calls>>

WaitEnds(t) ==
  /\ At(t, "wait") /\ thread[t].got = << >>
  /\ Ends(t, Scheduled)
  /\ UNCHANGED <<table, state, lock, futures, calls>>

(* close: _closed, then shutdown(wait=True), then the file handles. *)
Close(t) ==
  /\ Calls(t) /\ LockFree
  /\ closed' = TRUE
  /\ Begins(t, [pc |-> "closing"])
  /\ UNCHANGED <<table, source, lock, futures>>

(* Mutation: shutdown does not wait for the loads that are queued. *)
Drained_Queue == Occupied = {}

Drained == Occupied = {} /\ Queue = {}

CloseEnds(t) ==
  /\ At(t, "closing")
  /\ Drained
  /\ source' = "closed"
  /\ Ends(t, Scheduled)
  /\ UNCHANGED <<table, closed, lock, futures, calls>>

-----------------------------------------------------------------------------
(* Workers *)

Takes(f) ==
  /\ f \in Queue /\ \A g \in Queue : f <= g
  /\ Idling
  /\ futures' = [futures EXCEPT ![f].phase = "reading"]
  /\ UNCHANGED <<table, state, lock, thread, answer, calls>>

(* _load counts its read under the lock, which a future being submitted     *)
(* cannot get past; then the waiters see the result.                        *)
Reads(f) ==
  /\ futures[f].phase = "reading"
  /\ source = "open" /\ LockFree
  /\ futures' = [futures EXCEPT ![f].phase = "done"]
  /\ UNCHANGED <<table, state, lock, thread, answer, calls>>

(* A file that is gone, a short read, a closed source. *)
ReadFails(f) ==
  /\ futures[f].phase = "reading"
  /\ futures' = [futures EXCEPT ![f].phase = "failed"]
  /\ UNCHANGED <<table, state, lock, thread, answer, calls>>

(* The callback, in the worker. *)
Completes(f) ==
  /\ CallbackDue(f) /\ LockFree
  /\ Publishes(f)
  /\ futures' = [futures EXCEPT ![f].callback = "run"]
  /\ UNCHANGED <<state, lock, thread, answer, calls>>

-----------------------------------------------------------------------------
Init ==
  /\ cache = << >> /\ resident = 0
  /\ inflight = [p \in Pages |-> None]
  /\ closed = FALSE /\ source = "open"
  /\ lock = None
  /\ futures = << >>
  /\ thread = [t \in Threads |-> Idle]
  /\ answer = [t \in Threads |-> Scheduled]
  /\ calls = 0

Step(t) ==
  \/ StartRefused(t)
  \/ StartResident(t)
  \/ StartJoins(t)
  \/ StartSubmits(t)
  \/ Attaches(t)
  \/ CallsBack(t)
  \/ Waits(t)
  \/ WaitEnds(t)
  \/ CloseEnds(t)

Load(f) == Takes(f) \/ Reads(f) \/ ReadFails(f) \/ Completes(f)

Next ==
  \/ \E t \in Threads :
       \/ \E p \in Pages : GetHit(t, p) \/ GetMiss(t, p)
       \/ \E keys \in Prefetches : Prefetch(t, keys)
       \/ Close(t)
       \/ Step(t)
  \/ \E f \in Futures : Load(f)

(* Threads run and reads end, one way or the other; nobody has to call.  The *)
(* lock needs no fairness: calls are bounded, so it is free in the end.      *)
Spec ==
  /\ Init /\ [][Next]_vars
  /\ WF_vars(\E t \in Threads : Step(t))
  /\ WF_vars(\E f \in Futures : Load(f))

-----------------------------------------------------------------------------
(* Correctness *)

SelfLocked == \E t \in Threads : At(t, "stuck")

(* What a page is: every byte of every tensor of the expert. *)
Reference == [p \in Pages |-> PageBytes(Tensors, p)]

Callers ==
  [pc : {"idle", "closing"}] \cup
  [pc : {"wait"}, op : {"get", "prefetch"}, asked : Pages, got : Seq(Futures)] \cup
  [pc : {"start", "attach", "stuck"}, op : {"get", "prefetch"}, todo : Seq(Pages),
   got : Seq(Futures)]

TypeOK ==
  /\ cache \in Seq(Pages)
  /\ resident \in Nat
  /\ inflight \in [Pages -> Futures \cup {None}]
  /\ closed \in BOOLEAN /\ source \in {"open", "closed"}
  /\ lock \in Threads \cup {None}
  /\ futures \in Seq([page : Pages, phase : {"queued", "reading", "done", "failed"},
                      callback : {"none", "attached", "run"}])
  /\ thread \in [Threads -> Callers]
  /\ calls \in 0..MaxCalls

(* However gets and prefetches of one page meet, it is read by one worker at *)
(* a time, every later miss joins that read, and a resident page is not      *)
(* read.                                                                     *)
SingleFlight ==
  \A f \in Futures : Loading(f) =>
    /\ inflight[futures[f].page] = f
    /\ ~Resident(futures[f].page)

(* _resident_bytes is what the resident pages take, no page is resident     *)
(* twice, and the capacity holds, whatever the sizes of the pages that come  *)
(* and go.                                                                   *)
ResidentExact ==
  /\ resident = Size(cache)
  /\ resident <= Capacity
  /\ Cardinality(ToSet(cache)) = Len(cache)

(* What get returns is every byte of every tensor of the expert that was     *)
(* asked for, once: neither the joined spans of the catalogue nor a future   *)
(* that was shared gives other bytes.                                        *)
PayloadIsPage ==
  \A t \in Threads : answer[t].kind = "page" =>
    Contents[answer[t].payload] = Reference[answer[t].page]

(* Once close has closed the files, every load that was ever scheduled has   *)
(* ended and been published or forgotten, and none is scheduled again.       *)
QuietAfterClose ==
  source = "closed" =>
    /\ \A f \in Futures : Finished(f) /\ futures[f].callback = "run"
    /\ \A p \in Pages : inflight[p] = None

(* No page is wedged: a future that _inflight hands out is being loaded, or  *)
(* its callback will take it out; one that failed is not joined for ever.    *)
InflightIsLive ==
  \A p \in Pages : inflight[p] # None =>
    \/ Loading(inflight[p]) \/ CallbackDue(inflight[p])
    \/ \E t \in Threads : lock = t /\ Wanted(t) = p

(* Every get, prefetch and close returns, through failures, shared loads and *)
(* the shutdown of the pool; unless a caller has locked itself out.          *)
CallReturns ==
  \A t \in Threads : ~At(t, "idle") ~> (At(t, "idle") \/ SelfLocked)

(* A miss is run by a worker, so that every call returns.                    *)
EveryCallReturns ==
  \A t \in Threads : ~At(t, "idle") ~> At(t, "idle")
=============================================================================
