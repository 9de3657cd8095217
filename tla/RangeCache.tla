------------------------------ MODULE RangeCache ------------------------------
(***************************************************************************)
(* RangeCache (fast16/research/polaris_meridian_v1/s14_range_pack/         *)
(* online_range.py): the cache of byte ranges behind the range worker.     *)
(* fetch runs in several threads under one lock per key, resumes what an   *)
(* earlier fetch left in the .part file, keeps two budgets, and proves     *)
(* what it hands out: "official" when an external lock names the hash,     *)
(* "tofu" when the bytes were taken on first use.                          *)
(*                                                                         *)
(* A byte is TRUE when it is the byte the source has at that place and     *)
(* FALSE when something on the way changed it; the official hash of a      *)
(* range is the hash of right bytes.  The files outlive the process.       *)
(***************************************************************************)
EXTENDS Naturals, Sequences, FiniteSets, Functions

CONSTANTS
  Keys,            \* cache keys, one for each range
  Threads,         \* threads that call fetch
  Size,            \* bytes of a range
  DownloadBudget,  \* download_budget_bytes, of one process
  CacheBudget,     \* cache_budget_bytes
  MaxRestarts      \* bound on the processes after the first

ASSUME RangeCacheAssumption ==
  /\ Size \in Nat \ {0} /\ IsFiniteSet(Keys) /\ IsFiniteSet(Threads)
  /\ DownloadBudget \in Nat /\ CacheBudget \in Nat /\ MaxRestarts \in Nat

VARIABLES
  config,    \* what this process was started with
  payload,   \* <key>.bin, empty when there is no such file
  partial,   \* <key>.bin.part, empty when there is none
  meta,      \* <key>.json: hash_authority of the proof, or "none"
  download,  \* _download_used and _download_reserved
  cache,     \* _cache_used and _cache_reserved
  thread,    \* where each thread is in fetch
  result,    \* what its last fetch returned
  restarts

files  == <<payload, partial, meta>>
ledger == <<download, cache>>
vars   == <<config, files, ledger, thread, result, restarts>>

Config == [locked : SUBSET Keys,     \* the keys of authoritative_hashes
           require : BOOLEAN,        \* require_authoritative
           allow : BOOLEAN]          \* allow_fetch

Bytes == UNION {[1..n -> BOOLEAN] : n \in 0..Size}
Right(bytes) == \A i \in DOMAIN bytes : bytes[i]

Idle == [pc |-> "idle"]
Busy(t) == thread[t] # Idle
Remaining(t) == Size - thread[t].original

(* cache_written, and received until the extra byte *)
Written(t) == Len(partial[thread[t].key]) - thread[t].original

(* The bytes RangeCache.__init__ counts. *)
OnDisk(bin, part) == SumFunction([k \in Keys |-> Len(bin[k]) + Len(part[k])])

Failed == [status |-> "failed"]
Returned(k, proof) == [status |-> "ok", key |-> k, bytes |-> payload'[k], authority |-> proof]

End(t, r) ==
  /\ thread' = [thread EXCEPT ![t] = Idle]
  /\ result' = [result EXCEPT ![t] = r]

Goes(t, pc) ==
  /\ thread' = [thread EXCEPT ![t].pc = pc]
  /\ UNCHANGED result

-----------------------------------------------------------------------------
(* The budgets *)

Reservable(n) ==
  /\ download.used + download.reserved + n <= DownloadBudget
  /\ cache.used + cache.reserved + n <= CacheBudget

Reserve(n) ==
  /\ download' = [download EXCEPT !.reserved = @ + n]
  /\ cache' = [cache EXCEPT !.reserved = @ + n]

(* Mutation: a rejected transfer keeps its reservation. *)
Settle_Keeps(t, received, written) ==
  /\ download' = [used |-> download.used + received,
                  reserved |-> download.reserved - IF written = 0 THEN 0 ELSE Remaining(t)]
  /\ cache' = [used |-> cache.used + written,
               reserved |-> cache.reserved - IF written = 0 THEN 0 ELSE Remaining(t)]

Settle(t, received, written) ==
  /\ download' = [used |-> download.used + received,
                  reserved |-> download.reserved - Remaining(t)]
  /\ cache' = [used |-> cache.used + written,
               reserved |-> cache.reserved - Remaining(t)]

-----------------------------------------------------------------------------
(* fetch, up to the transfer *)

(* The key is locked for the whole of fetch. *)
Enters(t, k) ==
  /\ ~Busy(t)
  /\ config.require => k \in config.locked
  /\ \A u \in Threads : Busy(u) => thread[u].key # k

Present(k) == payload[k] # << >>

(* Mutation: a payload whose proof was not written is fetched again. *)
Missing_Unproved(k) == meta[k] = "none"

Missing(k) == payload[k] = << >> /\ meta[k] = "none"

(* The errors that leave everything as it was. *)
FetchRefused(t, k) ==
  /\ \/ ~Busy(t) /\ config.require /\ k \notin config.locked
     \/ Enters(t, k) /\ ~Present(k) /\ ~Missing(k)
     \/ Enters(t, k) /\ Missing(k) /\ ~config.allow
     \/ /\ Enters(t, k) /\ Missing(k) /\ Len(partial[k]) < Size
        /\ ~Reservable(Size - Len(partial[k]))
  /\ End(t, Failed)
  /\ UNCHANGED <<config, files, ledger, restarts>>

(* _load_hit: a proof that was never written, because the process ended
   before, is made again from the payload. *)
NewProof(k) == IF k \in config.locked THEN "official" ELSE "tofu"
Recovered(k) == IF meta[k] = "none" THEN NewProof(k) ELSE meta[k]

(* Mutation: a payload that a lock names is not compared with it. *)
Acceptable_Unchecked(k) == Present(k)

Acceptable(k) ==
  /\ Present(k)
  /\ Right(payload[k]) \/ (Recovered(k) = "tofu" /\ k \notin config.locked)

FetchHit(t, k) ==
  /\ Enters(t, k)
  /\ Acceptable(k)
  /\ meta' = [meta EXCEPT ![k] = IF k \in config.locked THEN "official" ELSE Recovered(k)]
  /\ UNCHANGED <<config, payload, partial, ledger, restarts>>
  /\ End(t, Returned(k, meta'[k]))

FetchHitRefused(t, k) ==
  /\ Enters(t, k)
  /\ Present(k)
  /\ ~Acceptable(k)
  /\ meta' = [meta EXCEPT ![k] = Recovered(k)]
  /\ End(t, Failed)
  /\ UNCHANGED <<config, payload, partial, ledger, restarts>>

(* A miss: the bytes that are not in .part yet are reserved; a .part that is
   complete goes straight to its hash. *)
FetchMiss(t, k) ==
  LET done == Len(partial[k]) IN
  /\ Enters(t, k)
  /\ Missing(k)
  /\ config.allow
  /\ IF done < Size THEN Reservable(Size - done) /\ Reserve(Size - done)
     ELSE UNCHANGED ledger
  /\ thread' = [thread EXCEPT ![t] =
       [pc |-> IF done < Size THEN "open" ELSE "hash", key |-> k, original |-> done]]
  /\ UNCHANGED <<config, files, result, restarts>>

-----------------------------------------------------------------------------
(* The transfer *)

Opens(t) ==
  /\ thread[t].pc = "open"
  /\ Goes(t, "read")
  /\ UNCHANGED <<config, files, ledger, restarts>>

(* One chunk of the response; what the network made of it is right or wrong. *)
Reads(t) ==
  LET k == thread[t].key IN
  /\ thread[t].pc = "read"
  /\ \E byte \in BOOLEAN : partial' = [partial EXCEPT ![k] = Append(@, byte)]
  /\ Goes(t, IF Len(partial'[k]) = Size THEN "extra" ELSE "read")
  /\ UNCHANGED <<config, payload, meta, ledger, restarts>>

(* The response ends where it should. *)
Completes(t) ==
  /\ thread[t].pc = "extra"
  /\ Settle(t, Written(t), Written(t))
  /\ Goes(t, "hash")
  /\ UNCHANGED <<config, files, restarts>>

Transferring(t) == Busy(t) /\ thread[t].pc \in {"open", "read", "extra"}

(* Mutation: bytes of a response that broke its contract stay in .part. *)
Rejected_Kept(t) == partial

Rejected(t) == [partial EXCEPT ![thread[t].key] = SubSeq(@, 1, thread[t].original)]

(* ContractError: a wrong answer, a response that ends early, or one byte
   that should not be there.  .part goes back to what it was. *)
BreaksContract(t) ==
  /\ Transferring(t)
  /\ partial' = Rejected(t)
  /\ Settle(t, Written(t) + IF thread[t].pc = "extra" THEN 1 ELSE 0, 0)
  /\ End(t, Failed)
  /\ UNCHANGED <<config, payload, meta, restarts>>

(* Any other exception: .part keeps its prefix for the next fetch. *)
Disconnects(t) ==
  /\ Transferring(t)
  /\ Settle(t, Written(t), Written(t))
  /\ End(t, Failed)
  /\ UNCHANGED <<config, files, restarts>>

-----------------------------------------------------------------------------
(* Publication *)

Good(k) == k \in config.locked => Right(partial[k])

(* unlink: _cache_used keeps counting the bytes. *)
Discards(t) ==
  /\ Busy(t) /\ thread[t].pc = "hash"
  /\ ~Good(thread[t].key)
  /\ partial' = [partial EXCEPT ![thread[t].key] = << >>]
  /\ End(t, Failed)
  /\ UNCHANGED <<config, payload, meta, ledger, restarts>>

(* Mutation: the proof is on disk before the payload is. *)
Renames_ProofFirst(t) ==
  LET k == thread[t].key IN
  /\ Busy(t) /\ thread[t].pc = "hash"
  /\ Good(k)
  /\ meta' = [meta EXCEPT ![k] = NewProof(k)]
  /\ Goes(t, "proof")
  /\ UNCHANGED <<config, payload, partial, ledger, restarts>>

Renames(t) ==
  LET k == thread[t].key IN
  /\ Busy(t) /\ thread[t].pc = "hash"
  /\ Good(k)
  /\ payload' = [payload EXCEPT ![k] = partial[k]]
  /\ partial' = [partial EXCEPT ![k] = << >>]
  /\ Goes(t, "proof")
  /\ UNCHANGED <<config, meta, ledger, restarts>>

Proves(t) ==
  LET k == thread[t].key IN
  /\ Busy(t) /\ thread[t].pc = "proof"
  /\ meta' = [meta EXCEPT ![k] = NewProof(k)]
  /\ UNCHANGED <<config, payload, partial, ledger, restarts>>
  /\ End(t, Returned(k, meta'[k]))

-----------------------------------------------------------------------------
(* The process *)

(* What is left of a .part file whose sink was not flushed. *)
Survives(k, bytes) ==
  \/ bytes = partial[k]
  \/ \E t \in Threads : /\ Busy(t) /\ thread[t].key = k /\ Transferring(t)
                        /\ \E n \in thread[t].original..Len(partial[k]) :
                             bytes = SubSeq(partial[k], 1, n)

NoBytes == [used |-> 0, reserved |-> 0]

(* The process ends at any moment and another one starts on its files:
   RangeCache.__init__ counts what it finds. *)
Restart ==
  /\ restarts < MaxRestarts
  /\ restarts' = restarts + 1
  /\ config' \in Config
  /\ partial' \in [Keys -> Bytes]
  /\ \A k \in Keys : Survives(k, partial'[k])
  /\ download' = NoBytes
  /\ cache' = [NoBytes EXCEPT !.used = OnDisk(payload, partial')]
  /\ thread' = [t \in Threads |-> Idle]
  /\ result' = [t \in Threads |-> Failed]
  /\ UNCHANGED <<payload, meta>>

Init ==
  /\ config \in Config
  /\ payload = [k \in Keys |-> << >>]
  /\ partial = [k \in Keys |-> << >>]
  /\ meta = [k \in Keys |-> "none"]
  /\ download = NoBytes
  /\ cache = NoBytes
  /\ thread = [t \in Threads |-> Idle]
  /\ result = [t \in Threads |-> Failed]
  /\ restarts = 0

Next ==
  \/ \E t \in Threads, k \in Keys :
       \/ FetchRefused(t, k)
       \/ FetchHit(t, k)
       \/ FetchHitRefused(t, k)
       \/ FetchMiss(t, k)
  \/ \E t \in Threads :
       \/ Opens(t)
       \/ Reads(t)
       \/ Completes(t)
       \/ BreaksContract(t)
       \/ Disconnects(t)
       \/ Discards(t)
       \/ Renames(t)
       \/ Proves(t)
  \/ Restart

Spec == Init /\ [][Next]_vars

-----------------------------------------------------------------------------
(* Correctness *)

Step == [pc : {"open", "read", "extra", "hash", "proof"}, key : Keys, original : 0..Size]
TypeOK ==
  /\ config \in Config
  /\ payload \in [Keys -> Bytes] /\ partial \in [Keys -> Bytes]
  /\ meta \in [Keys -> {"none", "tofu", "official"}]
  /\ thread \in [Threads -> Step \cup {Idle}]
  /\ \A l \in {download, cache} : l.used \in Nat /\ l.reserved \in Nat

(* What fetch returns as official is right, whatever was in .part before, and *)
(* whoever wrote the proof; and a key with a lock is returned as official.   *)
OfficialIsRight ==
  \A t \in Threads : result[t].status = "ok" =>
    /\ result[t].authority = "official" => Right(result[t].bytes)
    /\ result[t].key \in config.locked => result[t].authority = "official"

(* A proof on disk has its payload, whenever the process ended: the error    *)
(* "metadata exists but the payload is missing" is never met.                *)
ProofHasPayload == \A k \in Keys : meta[k] # "none" => Present(k)

(* The bytes on disk never exceed the cache budget, nor what the process     *)
(* knows of, through interrupted, rejected, resumed and concurrent           *)
(* transfers and over restarts.                                              *)
DiskWithinBudget ==
  /\ OnDisk(payload, partial) <= cache.used + cache.reserved
  /\ cache.used + cache.reserved <= CacheBudget

(* A process reads more than its download budget only by the extra byte      *)
(* with which each of its threads may find out that a response is too long,  *)
(* and reserves exactly what the transfers under way may still read.         *)
DownloadBounded ==
  /\ download.used + download.reserved <= DownloadBudget + Cardinality(Threads)
  /\ download.reserved =
       SumFunction([t \in Threads |-> IF Transferring(t) THEN Remaining(t) ELSE 0])

(* A published payload is final, over restarts too: no later fetch, in        *)
(* whatever thread, replaces or removes it.                                   *)
PayloadIsFinal ==
  [][\A k \in Keys : Present(k) => payload'[k] = payload[k]]_vars

(* A proof that says "official" is one for bytes that have the official hash: *)
(* what the code calls an authoritative proof that contradicts itself is      *)
(* never on disk.                                                             *)
ProofIsTrue ==
  \A k \in Keys : meta[k] = "official" => Right(payload[k])
=============================================================================
