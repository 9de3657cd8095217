--------------------------- MODULE RangeCacheProofs ---------------------------
(***************************************************************************)
(* Proofs about RangeCache for every set of keys and threads, every size   *)
(* of a range and every budget: what fetch returns as official is right, a *)
(* proof on disk has its payload, a published payload is final, and both   *)
(* budgets hold through interrupted, rejected, resumed and concurrent      *)
(* transfers and over restarts.                                            *)
(***************************************************************************)
EXTENDS RangeCache, FiniteSetTheorems, SequenceTheorems, WellFoundedInduction, TLAPS

-----------------------------------------------------------------------------
(* The fetches *)

Types ==
  /\ config \in Config
  /\ payload \in [Keys -> Bytes] /\ partial \in [Keys -> Bytes]
  /\ meta \in [Keys -> {"none", "tofu", "official"}]
  /\ thread \in [Threads -> Step \cup {Idle}]
  /\ result = [t \in Threads |-> result[t]]

(* No two threads work on one key. *)
Exclusive ==
  \A t, u \in Threads : Busy(t) /\ Busy(u) /\ thread[t].key = thread[u].key => t = u

(* What a thread in fetch finds on disk for its key. *)
Stage(t) ==
  LET k == thread[t].key IN
  /\ thread[t].pc \in {"open", "read", "extra", "hash"} =>
       ~Present(k) /\ meta[k] = "none" /\ thread[t].original <= Len(partial[k])
  /\ thread[t].pc \in {"open", "read"} => Len(partial[k]) < Size
  /\ thread[t].pc \in {"extra", "hash"} => Len(partial[k]) = Size
  /\ thread[t].pc = "proof" =>
       Present(k) /\ (k \in config.locked => Right(payload[k]))

Fetching ==
  /\ Types
  /\ Exclusive
  /\ \A t \in Threads : Busy(t) => Stage(t)
  /\ ProofHasPayload
  /\ OfficialIsRight

-----------------------------------------------------------------------------
(* The budgets *)

Reserved == [t \in Threads |-> IF Transferring(t) THEN Remaining(t) ELSE 0]
Unsettled == [t \in Threads |-> IF Transferring(t) THEN Written(t) ELSE 0]
Held(bin, part) == [k \in Keys |-> Len(bin[k]) + Len(part[k])]
Resting == {t \in Threads : ~Transferring(t)}

(* The transfers under way have reserved what they may still read; of that they
   have written what the ledger does not know of yet.  Each of them may exceed
   the download budget by a byte when it ends. *)
Ledgers ==
  /\ download \in [used : Nat, reserved : Nat] /\ cache \in [used : Nat, reserved : Nat]
  /\ download.reserved = SumFunctionOnSet(Reserved, Threads)
  /\ cache.reserved = SumFunctionOnSet(Reserved, Threads)
  /\ download.used + download.reserved <= DownloadBudget + Cardinality(Resting)
  /\ cache.used + cache.reserved <= CacheBudget
  /\ OnDisk(payload, partial) <= cache.used + SumFunctionOnSet(Unsettled, Threads)

IInv == Fetching /\ Ledgers

-----------------------------------------------------------------------------
(* The fetches: proofs *)

(* The contents of a file are the sequences of at most Size bytes. *)
LEMMA BytesAreSequences == Bytes = {b \in Seq(BOOLEAN) : Len(b) <= Size}
<1>1. ASSUME NEW b \in Bytes
      PROVE  b \in Seq(BOOLEAN) /\ Len(b) <= Size
  <2>1. PICK n \in 0..Size : b \in [1..n -> BOOLEAN]
    BY DEF Bytes
  <2>2. n \in Nat /\ b \in Seq(BOOLEAN)
    BY <2>1, SeqDef
  <2>3. DOMAIN b = 1..n /\ DOMAIN b = 1..Len(b) /\ Len(b) \in Nat
    BY <2>1, <2>2, LenProperties
  <2>4. Len(b) = n
    BY <2>2, <2>3
  <2> QED BY <2>2, <2>4
<1>2. ASSUME NEW b \in Seq(BOOLEAN), Len(b) <= Size
      PROVE  b \in Bytes
  <2>1. Len(b) \in 0..Size /\ b \in [1..Len(b) -> BOOLEAN]
    BY <1>2, LenProperties, RangeCacheAssumption
  <2> QED BY <2>1 DEF Bytes
<1> QED BY <1>1, <1>2

(* An empty file is one of them. *)
LEMMA NoBytesOnDisk == << >> \in Bytes /\ Len(<< >>) = 0
BY BytesAreSequences, EmptySeq, RangeCacheAssumption

(* A busy thread is at a step of fetch. *)
LEMMA BusyThreads ==
  ASSUME Types, NEW t \in Threads
  PROVE  Busy(t) <=> thread[t] \in Step
BY DEF Types, Busy, Step, Idle

(* A step of thread t on key k, which no other thread works on. *)
LEMMA StepOfThread ==
  ASSUME Fetching, NEW t \in Threads, NEW k \in Keys, NEW x \in Step \cup {Idle}, NEW r,
         UNCHANGED config,
         \A u \in Threads \ {t} : Busy(u) => thread[u].key # k,
         thread' = [thread EXCEPT ![t] = x], x # Idle => x.key = k /\ Stage(t)',
         payload' \in [Keys -> Bytes], partial' \in [Keys -> Bytes],
         meta' \in [Keys -> {"none", "tofu", "official"}],
         \A q \in Keys \ {k} :
           payload'[q] = payload[q] /\ partial'[q] = partial[q] /\ meta'[q] = meta[q],
         meta'[k] # "none" => payload'[k] # << >>,
         result' = [result EXCEPT ![t] = r],
         r = result[t] \/ r = Failed \/
           /\ r = Returned(k, meta'[k])
           /\ meta'[k] = "official" => Right(payload'[k])
           /\ k \in config.locked => meta'[k] = "official"
  PROVE  Fetching'
<1>1. Types'
  BY DEF Fetching, Types
<1>2. \A u \in Threads \ {t} : thread'[u] = thread[u] /\ result'[u] = result[u]
  BY DEF Fetching, Types
<1>3. thread'[t] = x /\ result'[t] = r
  BY DEF Fetching, Types
<1>4. Exclusive'
  <2> SUFFICES ASSUME NEW u \in Threads, NEW v \in Threads, Busy(u)', Busy(v)',
                      thread'[u].key = thread'[v].key
               PROVE  u = v
    BY DEF Exclusive
  <2>1. CASE u # t /\ v # t
    BY <1>2, <2>1 DEF Fetching, Exclusive, Busy
  <2>2. CASE u = t /\ v # t
    BY <1>2, <1>3, <2>2 DEF Busy
  <2>3. CASE u # t /\ v = t
    BY <1>2, <1>3, <2>3 DEF Busy
  <2> QED BY <2>1, <2>2, <2>3
<1>5. ASSUME NEW u \in Threads, Busy(u)'
      PROVE  Stage(u)'
  <2>1. CASE u = t
    BY <1>3, <1>5, <2>1 DEF Busy
  <2>2. CASE u # t
    <3>1. Busy(u) /\ thread'[u] = thread[u] /\ thread[u].key # k
      BY <1>2, <1>5, <2>2 DEF Busy
    <3>2. thread[u].key \in Keys /\ Stage(u)
      BY <3>1, BusyThreads DEF Fetching, Step
    <3>3. PICK q \in Keys : q = thread[u].key
      BY <3>2
    <3>4. payload'[q] = payload[q] /\ partial'[q] = partial[q] /\ meta'[q] = meta[q]
      BY <3>1, <3>3
    <3> QED BY <3>1, <3>2, <3>3, <3>4 DEF Stage, Present
  <2> QED BY <2>1, <2>2
<1>6. ProofHasPayload'
  <2> SUFFICES ASSUME NEW q \in Keys, meta'[q] # "none" PROVE payload'[q] # << >>
    BY DEF ProofHasPayload, Present
  <2> QED BY DEF Fetching, ProofHasPayload, Present
<1>7. OfficialIsRight'
  <2> SUFFICES ASSUME NEW u \in Threads, result'[u].status = "ok"
               PROVE  /\ result'[u].authority = "official" => Right(result'[u].bytes)
                      /\ result'[u].key \in config.locked => result'[u].authority = "official"
    BY DEF OfficialIsRight
  <2>1. CASE result'[u] = result[u]
    BY <2>1 DEF Fetching, OfficialIsRight
  <2>2. CASE u = t /\ r # result[t]
    BY <1>3, <2>2 DEF Failed, Returned
  <2> QED BY <1>2, <1>3, <2>1, <2>2
<1> QED BY <1>1, <1>4, <1>5, <1>6, <1>7 DEF Fetching

(* A thread in fetch: it works on its key alone. *)
LEMMA InFetch ==
  ASSUME Fetching, NEW t \in Threads, Busy(t) \/ thread[t].pc # "idle"
  PROVE  /\ Busy(t) /\ thread[t] \in Step /\ thread[t].key \in Keys /\ Stage(t)
         /\ thread[t].original \in 0..Size
         /\ \A u \in Threads \ {t} : Busy(u) => thread[u].key # thread[t].key
         /\ partial[thread[t].key] \in Seq(BOOLEAN) /\ Len(partial[thread[t].key]) \in 0..Size
<1>1. Busy(t) /\ thread[t] \in Step
  BY BusyThreads DEF Fetching, Types, Busy, Idle
<1>2. thread[t].key \in Keys /\ Stage(t) /\ thread[t].original \in 0..Size
  BY <1>1 DEF Fetching, Step
<1>3. \A u \in Threads \ {t} : Busy(u) => thread[u].key # thread[t].key
  BY <1>1 DEF Fetching, Exclusive
<1>4. partial[thread[t].key] \in Bytes
  BY <1>2 DEF Fetching, Types
<1>5. partial[thread[t].key] \in Seq(BOOLEAN) /\ Len(partial[thread[t].key]) \in 0..Size
  BY <1>4, BytesAreSequences, LenProperties, RangeCacheAssumption
<1> QED BY <1>1, <1>2, <1>3, <1>5

(* A thread that goes on within fetch keeps its key, its request and its
   result. *)
LEMMA GoesOn ==
  ASSUME Fetching, NEW t \in Threads, Busy(t), Goes(t, "read") \/ Goes(t, "extra")
                                               \/ Goes(t, "hash") \/ Goes(t, "proof")
  PROVE  \E x \in Step :
           /\ thread' = [thread EXCEPT ![t] = x] /\ x # Idle
           /\ x.key = thread[t].key /\ x.original = thread[t].original
           /\ thread'[t] = x
           /\ result' = [result EXCEPT ![t] = result[t]]
           /\ \A p \in {"read", "extra", "hash", "proof"} : Goes(t, p) => x.pc = p
<1>1. PICK p \in {"read", "extra", "hash", "proof"} : Goes(t, p)
  OBVIOUS
<1>2. thread[t] \in Step /\ thread \in [Threads -> Step \cup {Idle}]
  BY InFetch DEF Fetching, Types
<1>3. PICK x : x = [pc |-> p, key |-> thread[t].key, original |-> thread[t].original]
  OBVIOUS
<1>4. x \in Step /\ x # Idle
  BY <1>2, <1>3 DEF Step, Idle
<1>5. x = [thread[t] EXCEPT !.pc = p]
  BY <1>2, <1>3 DEF Step
<1>6. thread' = [thread EXCEPT ![t] = x] /\ thread'[t] = x /\ result' = [result EXCEPT ![t] = result[t]]
  BY <1>1, <1>2, <1>5 DEF Goes, Fetching, Types
<1>7. \A q \in {"read", "extra", "hash", "proof"} : Goes(t, q) => x.pc = q
  <2>1. ASSUME NEW q \in {"read", "extra", "hash", "proof"}, Goes(t, q)
        PROVE  x.pc = q
    <3>1. thread' = [thread EXCEPT ![t].pc = q]
      BY <2>1 DEF Goes
    <3>2. thread'[t].pc = q
      BY <1>2, <3>1 DEF Step
    <3> QED BY <1>6, <3>2
  <2> QED BY <2>1
<1> QED BY <1>3, <1>4, <1>6, <1>7

(* A fetch that left everything on disk as it was. *)
LEMMA NothingOnDisk ==
  ASSUME Fetching, UNCHANGED <<config, payload, partial, meta, thread>>,
         UNCHANGED result \/ \E t \in Threads : result' = [result EXCEPT ![t] = Failed]
  PROVE  Fetching'
<1>1. /\ result' = [t \in Threads |-> result'[t]]
      /\ \A t \in Threads : result'[t] = result[t] \/ result'[t] = Failed
  BY DEF Fetching, Types
<1>2. Types'
  BY <1>1 DEF Fetching, Types
<1>3. Exclusive' /\ (\A t \in Threads : Busy(t) => Stage(t))' /\ ProofHasPayload'
  BY DEF Fetching, Exclusive, Busy, Stage, Present, ProofHasPayload
<1>4. OfficialIsRight'
  BY <1>1 DEF Fetching, OfficialIsRight, Failed
<1> QED BY <1>2, <1>3, <1>4 DEF Fetching

(* A thread that gets the lock of a key is the only one busy with it. *)
LEMMA EntersAlone ==
  ASSUME Fetching, NEW t \in Threads, NEW k \in Keys, Enters(t, k)
  PROVE  /\ thread[t] = Idle /\ thread = [thread EXCEPT ![t] = Idle]
         /\ \A u \in Threads \ {t} : Busy(u) => thread[u].key # k
BY DEF Fetching, Types, Enters, Busy

(* Every step keeps what threads find on disk at each point of fetch. *)
LEMMA FetchingStep == Fetching /\ [Next]_vars => Fetching'
<1> SUFFICES ASSUME Fetching, [Next]_vars PROVE Fetching'
  OBVIOUS
<1>1. /\ config \in Config /\ payload \in [Keys -> Bytes] /\ partial \in [Keys -> Bytes]
      /\ meta \in [Keys -> {"none", "tofu", "official"}]
      /\ thread \in [Threads -> Step \cup {Idle}] /\ result = [t \in Threads |-> result[t]]
      /\ Size \in Nat \ {0}
  BY RangeCacheAssumption DEF Fetching, Types
<1>2. ASSUME NEW t \in Threads, NEW k \in Keys, FetchRefused(t, k)
      PROVE  Fetching'
  <2>1. thread[t] = Idle
    BY <1>2 DEF FetchRefused, Enters, Busy
  <2>2. UNCHANGED <<config, payload, partial, meta>> /\ thread' = [thread EXCEPT ![t] = Idle]
        /\ result' = [result EXCEPT ![t] = Failed]
    BY <1>2 DEF FetchRefused, End, files
  <2>3. thread' = thread
    BY <1>1, <2>1, <2>2
  <2> QED BY <2>2, <2>3, NothingOnDisk
<1>3. ASSUME NEW t \in Threads, NEW k \in Keys, FetchHit(t, k)
      PROVE  Fetching'
  <2>1. /\ UNCHANGED <<config, payload, partial>> /\ Enters(t, k) /\ Acceptable(k)
        /\ meta' = [meta EXCEPT ![k] = IF k \in config.locked THEN "official" ELSE Recovered(k)]
        /\ thread' = [thread EXCEPT ![t] = Idle] /\ result' = [result EXCEPT ![t] = Returned(k, meta'[k])]
    BY <1>3 DEF FetchHit, End
  <2>2. /\ meta' \in [Keys -> {"none", "tofu", "official"}]
        /\ meta'[k] = IF k \in config.locked THEN "official" ELSE Recovered(k)
        /\ \A q \in Keys \ {k} : meta'[q] = meta[q]
    BY <1>1, <2>1 DEF Recovered, NewProof
  <2>3. /\ payload'[k] # << >>
        /\ meta'[k] = "official" => Right(payload'[k])
        /\ k \in config.locked => meta'[k] = "official"
    BY <2>1, <2>2 DEF Acceptable, Present
  <2>4. \A u \in Threads \ {t} : Busy(u) => thread[u].key # k
    BY <2>1, EntersAlone
  <2>5. PICK r : r = Returned(k, meta'[k])
    OBVIOUS
  <2> QED BY <1>1, <2>1, <2>2, <2>3, <2>4, <2>5, StepOfThread
<1>4. ASSUME NEW t \in Threads, NEW k \in Keys, FetchHitRefused(t, k)
      PROVE  Fetching'
  <2>1. /\ UNCHANGED <<config, payload, partial>> /\ Enters(t, k) /\ Present(k)
        /\ meta' = [meta EXCEPT ![k] = Recovered(k)]
        /\ thread' = [thread EXCEPT ![t] = Idle] /\ result' = [result EXCEPT ![t] = Failed]
    BY <1>4 DEF FetchHitRefused, End
  <2>2. /\ meta' \in [Keys -> {"none", "tofu", "official"}]
        /\ \A q \in Keys \ {k} : meta'[q] = meta[q]
        /\ payload'[k] # << >>
    BY <1>1, <2>1 DEF Recovered, NewProof, Present
  <2>3. \A u \in Threads \ {t} : Busy(u) => thread[u].key # k
    BY <2>1, EntersAlone
  <2> QED BY <1>1, <2>1, <2>2, <2>3, StepOfThread
<1>5. ASSUME NEW t \in Threads, NEW k \in Keys, FetchMiss(t, k)
      PROVE  Fetching'
  <2>1. PICK x : x = [pc |-> IF Len(partial[k]) < Size THEN "open" ELSE "hash", key |-> k,
                      original |-> Len(partial[k])]
    OBVIOUS
  <2>2. /\ UNCHANGED <<config, payload, partial, meta, result>> /\ Enters(t, k) /\ Missing(k)
        /\ thread' = [thread EXCEPT ![t] = x]
    BY <1>5, <2>1 DEF FetchMiss, files
  <2>3. Len(partial[k]) \in 0..Size
    <3>1. partial[k] \in Bytes
      BY <1>1
    <3> QED BY <3>1, BytesAreSequences, LenProperties, <1>1
  <2>4. x \in Step /\ x # Idle /\ x.key = k /\ thread'[t] = x
    BY <1>1, <2>1, <2>2, <2>3 DEF Step, Idle
  <2>5. Stage(t)'
    BY <1>1, <2>1, <2>2, <2>3, <2>4 DEF Stage, Missing, Present
  <2>6. \A u \in Threads \ {t} : Busy(u) => thread[u].key # k
    BY <2>2, EntersAlone
  <2>7. result' = [result EXCEPT ![t] = result[t]] /\ meta'[k] = "none"
    BY <1>1, <2>2 DEF Missing
  <2>8. /\ payload' \in [Keys -> Bytes] /\ partial' \in [Keys -> Bytes]
        /\ meta' \in [Keys -> {"none", "tofu", "official"}] /\ UNCHANGED config
        /\ \A q \in Keys \ {k} : payload'[q] = payload[q] /\ partial'[q] = partial[q] /\ meta'[q] = meta[q]
    BY <1>1, <2>2
  <2>9. thread' = [thread EXCEPT ![t] = x] /\ meta'[k] = "none"
    BY <2>2, <2>7
  <2>10. PICK r : r = result[t] /\ result' = [result EXCEPT ![t] = r]
    BY <2>7
  <2>11. x \in Step \cup {Idle} /\ (x # Idle => x.key = k /\ Stage(t)')
         /\ (meta'[k] # "none" => payload'[k] # << >>)
    BY <2>4, <2>5, <2>9
  <2> QED BY <2>6, <2>8, <2>9, <2>10, <2>11, StepOfThread
<1>6. ASSUME NEW t \in Threads, Opens(t)
      PROVE  Fetching'
  <2>1. /\ UNCHANGED <<config, payload, partial, meta>> /\ Goes(t, "read") /\ thread[t].pc = "open"
    BY <1>6 DEF Opens, files
  <2>2. PICK k : k = thread[t].key
    OBVIOUS
  <2>3. /\ Busy(t) /\ k \in Keys /\ Stage(t)
        /\ \A u \in Threads \ {t} : Busy(u) => thread[u].key # k
    BY <2>1, <2>2, InFetch
  <2>4. PICK x \in Step :
          /\ thread' = [thread EXCEPT ![t] = x] /\ x # Idle /\ thread'[t] = x
          /\ x.key = k /\ x.original = thread[t].original /\ x.pc = "read"
          /\ result' = [result EXCEPT ![t] = result[t]]
    BY <2>1, <2>2, <2>3, GoesOn
  <2>5. Stage(t)' /\ (meta'[k] # "none" => payload'[k] # << >>)
    BY <2>1, <2>2, <2>3, <2>4 DEF Stage, Present
  <2> QED BY <1>1, <2>1, <2>3, <2>4, <2>5, StepOfThread
<1>7. ASSUME NEW t \in Threads, Reads(t)
      PROVE  Fetching'
  <2>1. PICK k : k = thread[t].key
    OBVIOUS
  <2>2. PICK byte \in BOOLEAN : partial' = [partial EXCEPT ![k] = Append(partial[k], byte)]
    BY <1>7, <2>1 DEF Reads
  <2>3. /\ UNCHANGED <<config, payload, meta>> /\ thread[t].pc = "read"
        /\ Goes(t, IF Len(partial'[k]) = Size THEN "extra" ELSE "read")
    BY <1>7, <2>1 DEF Reads
  <2>4. /\ Busy(t) /\ k \in Keys /\ Stage(t) /\ thread[t].original \in 0..Size
        /\ \A u \in Threads \ {t} : Busy(u) => thread[u].key # k
        /\ partial[k] \in Seq(BOOLEAN) /\ Len(partial[k]) \in 0..Size
    BY <2>1, <2>3, InFetch
  <2>5. /\ partial'[k] \in Seq(BOOLEAN) /\ Len(partial'[k]) = Len(partial[k]) + 1
        /\ Len(partial[k]) < Size /\ \A q \in Keys \ {k} : partial'[q] = partial[q]
    <3>1. partial'[k] = Append(partial[k], byte) /\ \A q \in Keys \ {k} : partial'[q] = partial[q]
      BY <1>1, <2>2, <2>4
    <3>2. Len(partial[k]) < Size
      BY <2>1, <2>3, <2>4 DEF Stage
    <3>3. /\ Append(partial[k], byte) \in Seq(BOOLEAN)
          /\ Len(Append(partial[k], byte)) = Len(partial[k]) + 1
      BY <2>2, <2>4, AppendProperties
    <3> QED BY <3>1, <3>2, <3>3
  <2>6. partial' \in [Keys -> Bytes]
    <3>1. Append(partial[k], byte) \in Bytes
      BY <1>1, <2>2, <2>4, <2>5, BytesAreSequences
    <3> QED BY <1>1, <2>2, <3>1
  <2>7. PICK p \in {"read", "extra"} : p = IF Len(partial'[k]) = Size THEN "extra" ELSE "read"
    OBVIOUS
  <2>8. PICK x \in Step :
          /\ thread' = [thread EXCEPT ![t] = x] /\ x # Idle /\ thread'[t] = x
          /\ x.key = k /\ x.original = thread[t].original /\ x.pc = p
          /\ result' = [result EXCEPT ![t] = result[t]]
    BY <2>1, <2>3, <2>4, <2>7, GoesOn
  <2>9. Stage(t)' /\ (meta'[k] # "none" => payload'[k] # << >>)
    BY <1>1, <2>1, <2>3, <2>4, <2>5, <2>7, <2>8 DEF Stage, Present
  <2> QED BY <1>1, <2>3, <2>4, <2>5, <2>6, <2>8, <2>9, StepOfThread, ZenonT(60)
<1>8. ASSUME NEW t \in Threads, Completes(t)
      PROVE  Fetching'
  <2>1. /\ UNCHANGED <<config, payload, partial, meta>> /\ Goes(t, "hash") /\ thread[t].pc = "extra"
    BY <1>8 DEF Completes, files
  <2>2. PICK k : k = thread[t].key
    OBVIOUS
  <2>3. /\ Busy(t) /\ k \in Keys /\ Stage(t)
        /\ \A u \in Threads \ {t} : Busy(u) => thread[u].key # k
    BY <2>1, <2>2, InFetch
  <2>4. PICK x \in Step :
          /\ thread' = [thread EXCEPT ![t] = x] /\ x # Idle /\ thread'[t] = x
          /\ x.key = k /\ x.original = thread[t].original /\ x.pc = "hash"
          /\ result' = [result EXCEPT ![t] = result[t]]
    BY <2>1, <2>2, <2>3, GoesOn
  <2>5. Stage(t)' /\ (meta'[k] # "none" => payload'[k] # << >>)
    BY <2>1, <2>2, <2>3, <2>4 DEF Stage, Present
  <2> QED BY <1>1, <2>1, <2>3, <2>4, <2>5, StepOfThread
(* The end of a fetch that leaves the payload and the proof alone. *)
<1>9. ASSUME NEW t \in Threads, Busy(t), UNCHANGED <<config, payload, meta>>,
             partial' \in [Keys -> Bytes],
             \A q \in Keys \ {thread[t].key} : partial'[q] = partial[q],
             End(t, Failed), thread[t].pc # "proof"
      PROVE  Fetching'
  <2>1. PICK k : k = thread[t].key
    OBVIOUS
  <2>2. /\ k \in Keys /\ Stage(t) /\ thread[t] \in Step
        /\ \A u \in Threads \ {t} : Busy(u) => thread[u].key # k
    BY <1>9, <2>1, InFetch
  <2>3. thread' = [thread EXCEPT ![t] = Idle] /\ result' = [result EXCEPT ![t] = Failed]
    BY <1>9 DEF End
  <2>4. meta'[k] = "none"
    BY <1>9, <2>1, <2>2 DEF Stage, Step
  <2>5. \A q \in Keys \ {k} : payload'[q] = payload[q] /\ partial'[q] = partial[q] /\ meta'[q] = meta[q]
    BY <1>9, <2>1
  <2> QED BY <1>1, <1>9, <2>2, <2>3, <2>4, <2>5, StepOfThread
<1>10. ASSUME NEW t \in Threads, BreaksContract(t)
       PROVE  Fetching'
  <2>1. PICK k : k = thread[t].key
    OBVIOUS
  <2>2. /\ Busy(t) /\ thread[t].pc # "proof" /\ UNCHANGED <<config, payload, meta>> /\ End(t, Failed)
        /\ partial' = [partial EXCEPT ![k] = SubSeq(partial[k], 1, thread[t].original)]
        /\ thread[t].pc \in {"open", "read", "extra"}
    BY <1>10, <2>1 DEF BreaksContract, Transferring, Rejected
  <2>3. /\ k \in Keys /\ partial[k] \in Seq(BOOLEAN) /\ Len(partial[k]) \in 0..Size
        /\ thread[t].original \in 0..Size /\ thread[t].original <= Len(partial[k])
    BY <2>1, <2>2, InFetch DEF Stage
  <2>4. SubSeq(partial[k], 1, thread[t].original) \in Bytes
    <3>1. \A i \in 1..thread[t].original : partial[k][i] \in BOOLEAN
      BY <2>3
    <3>2. /\ SubSeq(partial[k], 1, thread[t].original) \in Seq(BOOLEAN)
          /\ Len(SubSeq(partial[k], 1, thread[t].original)) = thread[t].original
      BY <2>3
    <3> QED BY <2>3, <3>2, BytesAreSequences
  <2>5. partial' \in [Keys -> Bytes] /\ \A q \in Keys \ {k} : partial'[q] = partial[q]
    BY <1>1, <2>2, <2>4
  <2> QED BY <1>9, <2>1, <2>2, <2>5
<1>11. ASSUME NEW t \in Threads, Disconnects(t)
       PROVE  Fetching'
  <2>1. /\ Busy(t) /\ thread[t].pc # "proof" /\ UNCHANGED <<config, payload, partial, meta>>
        /\ End(t, Failed)
    BY <1>11 DEF Disconnects, Transferring, files
  <2> QED BY <1>1, <1>9, <2>1
<1>12. ASSUME NEW t \in Threads, Discards(t)
       PROVE  Fetching'
  <2>1. /\ Busy(t) /\ thread[t].pc # "proof" /\ UNCHANGED <<config, payload, meta>> /\ End(t, Failed)
        /\ partial' = [partial EXCEPT ![thread[t].key] = << >>]
    BY <1>12 DEF Discards
  <2>2. partial' \in [Keys -> Bytes] /\ \A q \in Keys \ {thread[t].key} : partial'[q] = partial[q]
    BY <1>1, <2>1, NoBytesOnDisk
  <2> QED BY <1>9, <2>1, <2>2
<1>13. ASSUME NEW t \in Threads, Renames(t)
       PROVE  Fetching'
  <2>1. PICK k : k = thread[t].key
    OBVIOUS
  <2>2. /\ UNCHANGED <<config, meta>> /\ Goes(t, "proof") /\ Busy(t) /\ thread[t].pc = "hash"
        /\ Good(k) /\ payload' = [payload EXCEPT ![k] = partial[k]]
        /\ partial' = [partial EXCEPT ![k] = << >>]
    BY <1>13, <2>1 DEF Renames
  <2>3. /\ k \in Keys /\ Stage(t) /\ partial[k] \in Seq(BOOLEAN) /\ Len(partial[k]) = Size
        /\ \A u \in Threads \ {t} : Busy(u) => thread[u].key # k
    BY <2>1, <2>2, InFetch DEF Stage
  <2>4. /\ payload' \in [Keys -> Bytes] /\ partial' \in [Keys -> Bytes] /\ payload'[k] = partial[k]
        /\ \A q \in Keys \ {k} : payload'[q] = payload[q] /\ partial'[q] = partial[q]
    BY <1>1, <2>2, <2>3, NoBytesOnDisk
  <2>5. payload'[k] # << >>
    BY <1>1, <2>3, <2>4, NoBytesOnDisk
  <2>6. PICK x \in Step :
          /\ thread' = [thread EXCEPT ![t] = x] /\ x # Idle /\ thread'[t] = x
          /\ x.key = k /\ x.original = thread[t].original /\ x.pc = "proof"
          /\ result' = [result EXCEPT ![t] = result[t]]
    BY <2>1, <2>2, GoesOn
  <2>7. Stage(t)'
    BY <2>2, <2>4, <2>5, <2>6 DEF Stage, Present, Good
  <2> QED BY <1>1, <2>2, <2>3, <2>4, <2>5, <2>6, <2>7, StepOfThread, ZenonT(60)
<1>14. ASSUME NEW t \in Threads, Proves(t)
       PROVE  Fetching'
  <2>1. PICK k : k = thread[t].key
    OBVIOUS
  <2>2. /\ UNCHANGED <<config, payload, partial>> /\ Busy(t) /\ thread[t].pc = "proof"
        /\ meta' = [meta EXCEPT ![k] = NewProof(k)]
        /\ thread' = [thread EXCEPT ![t] = Idle] /\ result' = [result EXCEPT ![t] = Returned(k, meta'[k])]
    BY <1>14, <2>1 DEF Proves, End
  <2>3. /\ k \in Keys /\ Present(k) /\ (k \in config.locked => Right(payload[k]))
        /\ \A u \in Threads \ {t} : Busy(u) => thread[u].key # k
    BY <2>1, <2>2, InFetch DEF Stage
  <2>4. /\ meta' \in [Keys -> {"none", "tofu", "official"}] /\ meta'[k] = NewProof(k)
        /\ \A q \in Keys \ {k} : meta'[q] = meta[q]
    BY <1>1, <2>2, <2>3 DEF NewProof
  <2>5. /\ payload'[k] # << >>
        /\ meta'[k] = "official" => Right(payload'[k])
        /\ k \in config.locked => meta'[k] = "official"
    BY <2>2, <2>3, <2>4 DEF NewProof, Present
  <2>6. PICK r : r = Returned(k, meta'[k])
    OBVIOUS
  <2> QED BY <1>1, <2>2, <2>3, <2>4, <2>5, <2>6, StepOfThread
<1>15. CASE Restart
  <2>1. /\ config' \in Config /\ partial' \in [Keys -> Bytes] /\ UNCHANGED <<payload, meta>>
        /\ thread' = [t \in Threads |-> Idle] /\ result' = [t \in Threads |-> Failed]
    BY <1>15 DEF Restart
  <2>2. Types'
    BY <1>1, <2>1 DEF Types
  <2>3. Exclusive' /\ (\A t \in Threads : Busy(t) => Stage(t))' /\ ProofHasPayload'
    BY <2>1 DEF Fetching, Exclusive, Busy, ProofHasPayload, Present
  <2>4. OfficialIsRight'
    BY <2>1 DEF OfficialIsRight, Failed
  <2> QED BY <2>2, <2>3, <2>4 DEF Fetching
<1>16. CASE UNCHANGED vars
  BY <1>16, NothingOnDisk DEF vars, files
<1> QED
  BY <1>2, <1>3, <1>4, <1>5, <1>6, <1>7, <1>8, <1>10, <1>11, <1>12, <1>13, <1>14, <1>15, <1>16
  DEF Next

-----------------------------------------------------------------------------
(* Induction over the natural numbers *)

(* A set of naturals that is not empty has a least element. *)
LEMMA LeastElement ==
  ASSUME NEW T, T \subseteq Nat, T # {}
  PROVE  \E n \in T : \A m \in T : n <= m
<1> DEFINE Less == {ss \in Nat \X Nat : ss[1] < ss[2]}
<1>1. IsWellFoundedOn(Less, Nat)
  BY NatLessThanWellFounded DEF OpToRel
<1> HIDE DEF Less
<1>2. PICK n \in T : \A m \in T : ~(<<m, n>> \in Less)
  BY <1>1, WFMin
<1>3. \A m \in T : ~(m < n)
  BY <1>2 DEF Less
<1> QED BY <1>3

(* Induction: a set of naturals that holds 0, and n + 1 with n, is Nat. *)
LEMMA NaturalInduction ==
  ASSUME NEW T \in SUBSET Nat, 0 \in T, \A n \in T : n + 1 \in T
  PROVE  T = Nat
<1> SUFFICES ASSUME Nat \ T # {} PROVE FALSE
  OBVIOUS
<1>1. PICK n \in Nat \ T : \A m \in Nat \ T : n <= m
  BY LeastElement
<1>2. n # 0 /\ n - 1 \in Nat /\ ~(n <= n - 1)
  BY <1>1
<1>3. n - 1 \in T
  BY <1>1, <1>2
<1>4. n - 1 + 1 \in T /\ n - 1 + 1 = n
  BY <1>2, <1>3
<1> QED BY <1>1, <1>4

-----------------------------------------------------------------------------
(* Sums: the recursive function behind SumFunctionOnSet, which adds f[x] for
   every x of a finite set in whatever order *)

Picked(s) == CHOOSE x \in s : TRUE
Adds(g, f, S) == g = [s \in SUBSET S |-> IF s = {} THEN 0 ELSE f[Picked(s)] + g[s \ {Picked(s)}]]

(* The element the fold picks is in the set. *)
LEMMA PickedIsMember == \A s : s # {} => Picked(s) \in s
BY DEF Picked

(* The sets of at most n elements. *)
UpTo(S, n) == {s \in SUBSET S : Cardinality(s) <= n}

(* A set without one of its elements is smaller. *)
LEMMA SmallerSubset ==
  ASSUME NEW S, IsFiniteSet(S), NEW s \in SUBSET S, NEW x \in s
  PROVE  /\ IsFiniteSet(s) /\ IsFiniteSet(s \ {x}) /\ s \ {x} \in SUBSET S
         /\ Cardinality(s) \in Nat \ {0} /\ Cardinality(s \ {x}) = Cardinality(s) - 1
<1>1. IsFiniteSet(s) /\ IsFiniteSet(s \ {x}) /\ s \ {x} \in SUBSET S
  BY FS_Subset
<1>2. Cardinality(s \ {x}) = Cardinality(s) - 1
  BY <1>1, FS_RemoveElement
<1>3. Cardinality(s) \in Nat /\ Cardinality(s \ {x}) \in Nat
  BY <1>1, FS_CardinalityType
<1> QED BY <1>1, <1>2, <1>3

(* There is a function that adds the terms of every subset. *)
LEMMA SumExists ==
  ASSUME NEW S, IsFiniteSet(S), NEW f, \A x \in S : f[x] \in Nat
  PROVE  \E g : Adds(g, f, S)
<1> DEFINE Body(g, s) == IF s = {} THEN 0 ELSE f[Picked(s)] + g[s \ {Picked(s)}]
           T == {n \in Nat : \E g : \A s \in UpTo(S, n) : g[s] = Body(g, s)}
<1>1. 0 \in T
  <2> DEFINE g == [s \in UpTo(S, 0) |-> 0]
  <2>1. ASSUME NEW s \in UpTo(S, 0)
        PROVE  s = {}
    <3>1. Cardinality(s) \in Nat /\ IsFiniteSet(s)
      BY FS_Subset, FS_CardinalityType DEF UpTo
    <3>2. Cardinality(s) = 0
      BY <3>1 DEF UpTo
    <3> QED BY <3>1, <3>2, FS_EmptySet
  <2>2. \A s \in UpTo(S, 0) : g[s] = Body(g, s)
    BY <2>1
  <2> QED BY <2>2
<1>2. ASSUME NEW n \in T
      PROVE  n + 1 \in T
  <2>1. n \in Nat /\ n + 1 \in Nat
    OBVIOUS
  <2>2. PICK g : \A s \in UpTo(S, n) : g[s] = Body(g, s)
    OBVIOUS
  <2> DEFINE h == [s \in UpTo(S, n + 1) |-> Body(g, s)]
  <2>3. ASSUME NEW s \in UpTo(S, n + 1), s # {}
        PROVE  h[s \ {Picked(s)}] = g[s \ {Picked(s)}]
    <3> DEFINE t == s \ {Picked(s)}
    <3>1. Picked(s) \in s /\ s \in SUBSET S /\ Cardinality(s) <= n + 1
      BY <2>3, PickedIsMember DEF UpTo
    <3>2. t \in SUBSET S /\ Cardinality(t) = Cardinality(s) - 1 /\ Cardinality(s) \in Nat \ {0}
      BY <3>1, SmallerSubset
    <3>3. t \in UpTo(S, n) /\ t \in UpTo(S, n + 1)
      BY <2>1, <3>1, <3>2 DEF UpTo
    <3> HIDE DEF t
    <3>4. h[t] = Body(g, t)
      BY <3>3
    <3>5. g[t] = Body(g, t)
      BY <2>2, <3>3
    <3>6. h[t] = g[t]
      BY <3>4, <3>5
    <3> QED BY <3>6 DEF t
  <2>4. \A s \in UpTo(S, n + 1) : h[s] = Body(h, s)
    <3> SUFFICES ASSUME NEW s \in UpTo(S, n + 1) PROVE h[s] = Body(h, s)
      OBVIOUS
    <3>1. h[s] = Body(g, s)
      OBVIOUS
    <3> HIDE DEF h
    <3> QED BY <2>3, <3>1
  <2> HIDE DEF h
  <2> QED BY <2>1, <2>4
<1>3. T = Nat
  <2> HIDE DEF T
  <2>1. T \in SUBSET Nat
    BY DEF T
  <2> QED BY <1>1, <1>2, <2>1, NaturalInduction
<1>4. Cardinality(S) \in Nat
  BY FS_CardinalityType
<1>5. PICK g : \A s \in UpTo(S, Cardinality(S)) : g[s] = Body(g, s)
  BY <1>3, <1>4, ZenonT(40)
<1>6. UpTo(S, Cardinality(S)) = SUBSET S
  <2>1. ASSUME NEW s \in SUBSET S
        PROVE  Cardinality(s) <= Cardinality(S)
    BY FS_Subset
  <2> QED BY <2>1 DEF UpTo
<1> DEFINE h == [s \in SUBSET S |-> g[s]]
<1>7. \A s \in SUBSET S : h[s] = Body(h, s)
  <2> SUFFICES ASSUME NEW s \in SUBSET S PROVE h[s] = Body(h, s)
    OBVIOUS
  <2>1. h[s] = Body(g, s)
    BY <1>5, <1>6
  <2>2. s # {} => h[s \ {Picked(s)}] = g[s \ {Picked(s)}]
    OBVIOUS
  <2> HIDE DEF h
  <2> QED BY <2>1, <2>2
<1>8. h = [s \in SUBSET S |-> h[s]]
  OBVIOUS
<1>9. Adds(h, f, S)
  <2> HIDE DEF h
  <2> QED BY <1>7, <1>8 DEF Adds
<1> QED BY <1>9

(* The sum of the library is the value of such a function. *)
LEMMA SumIsFunction ==
  ASSUME NEW S, IsFiniteSet(S), NEW f, \A x \in S : f[x] \in Nat
  PROVE  \E g : Adds(g, f, S) /\ SumFunctionOnSet(f, S) = g[S]
<1> DEFINE g == CHOOSE h : Adds(h, f, S)
<1>1. Adds(g, f, S)
  BY SumExists
<1>2. SumFunctionOnSet(f, S) = g[S]
  BY DEF SumFunctionOnSet, FoldFunctionOnSet, MapThenFoldSet, Adds, Picked
<1> QED BY <1>1, <1>2

(* Induction over the subsets of a finite set. *)
LEMMA SubsetInduction ==
  ASSUME NEW S, IsFiniteSet(S), NEW G \in SUBSET (SUBSET S),
         \A s \in SUBSET S : (\A x \in s : s \ {x} \in G) => s \in G
  PROVE  G = SUBSET S
<1> DEFINE T == {n \in Nat : \A s \in SUBSET S : Cardinality(s) = n => s \in G}
<1>1. 0 \in T
  <2>1. ASSUME NEW s \in SUBSET S, Cardinality(s) = 0
        PROVE  s \in G
    <3>1. s = {}
      BY <2>1, FS_Subset, FS_EmptySet
    <3> QED BY <3>1
  <2> QED BY <2>1
<1>2. ASSUME NEW n \in T
      PROVE  n + 1 \in T
  <2>1. n \in Nat /\ n + 1 \in Nat /\ \A s \in SUBSET S : Cardinality(s) = n => s \in G
    OBVIOUS
  <2>2. ASSUME NEW s \in SUBSET S, Cardinality(s) = n + 1, NEW x \in s
        PROVE  s \ {x} \in G
    BY <2>1, <2>2, SmallerSubset, SMTT(30)
  <2>3. \A s \in SUBSET S : Cardinality(s) = n + 1 => s \in G
    BY <2>2
  <2> QED BY <2>1, <2>3
<1>3. T = Nat
  <2> HIDE DEF T
  <2>1. T \in SUBSET Nat
    BY DEF T
  <2> QED BY <1>1, <1>2, <2>1, NaturalInduction
<1>4. \A s \in SUBSET S : Cardinality(s) \in Nat
  BY FS_Subset, FS_CardinalityType
<1> QED BY <1>3, <1>4

(* Such a function adds the picked term to the sum of the rest. *)
LEMMA AddsUnfolds ==
  ASSUME NEW g, NEW f, NEW S, Adds(g, f, S), NEW s \in SUBSET S
  PROVE  /\ s = {} => g[s] = 0
         /\ s # {} => /\ Picked(s) \in s /\ s \ {Picked(s)} \in SUBSET S
                      /\ g[s] = f[Picked(s)] + g[s \ {Picked(s)}]
<1>1. g[s] = IF s = {} THEN 0 ELSE f[Picked(s)] + g[s \ {Picked(s)}]
  BY DEF Adds
<1> QED BY <1>1, PickedIsMember

(* Such a function yields natural numbers. *)
LEMMA AddsType ==
  ASSUME NEW S, IsFiniteSet(S), NEW f, \A x \in S : f[x] \in Nat, NEW g, Adds(g, f, S)
  PROVE  \A s \in SUBSET S : g[s] \in Nat
<1> DEFINE G == {s \in SUBSET S : g[s] \in Nat}
<1>1. ASSUME NEW s \in SUBSET S, \A x \in s : s \ {x} \in G
      PROVE  s \in G
  <2>1. CASE s = {}
    <3>1. g[s] = 0
      BY <2>1, AddsUnfolds
    <3> QED BY <3>1
  <2>2. CASE s # {}
    <3>1. Picked(s) \in s /\ g[s] = f[Picked(s)] + g[s \ {Picked(s)}]
      BY <2>2, AddsUnfolds
    <3>2. f[Picked(s)] \in Nat /\ g[s \ {Picked(s)}] \in Nat
      BY <1>1, <3>1
    <3> QED BY <3>1, <3>2
  <2> QED BY <2>1, <2>2
<1>2. G = SUBSET S
  <2>1. G \in SUBSET (SUBSET S)
    OBVIOUS
  <2> HIDE DEF G
  <2> QED BY <1>1, <2>1, SubsetInduction
<1> QED BY <1>2

(* Sums over the same set of what agrees on it are the same. *)
LEMMA AddsUnique ==
  ASSUME NEW S, NEW T, IsFiniteSet(T), NEW f, NEW e,
         NEW g, NEW h, Adds(g, f, S), Adds(h, e, T), T \subseteq S, \A x \in T : f[x] = e[x]
  PROVE  g[T] = h[T]
<1> DEFINE G == {s \in SUBSET T : g[s] = h[s]}
<1>1. ASSUME NEW s \in SUBSET T, \A x \in s : s \ {x} \in G
      PROVE  s \in G
  <2>1. s \in SUBSET S
    OBVIOUS
  <2>2. CASE s = {}
    <3>1. g[s] = 0 /\ h[s] = 0
      BY <2>1, <2>2, AddsUnfolds
    <3> QED BY <3>1
  <2>3. CASE s # {}
    <3>1. Picked(s) \in s /\ g[s] = f[Picked(s)] + g[s \ {Picked(s)}]
      BY <2>1, <2>3, AddsUnfolds
    <3>2. h[s] = e[Picked(s)] + h[s \ {Picked(s)}]
      BY <2>3, AddsUnfolds
    <3>3. g[s \ {Picked(s)}] = h[s \ {Picked(s)}] /\ f[Picked(s)] = e[Picked(s)]
      BY <1>1, <3>1
    <3> QED BY <3>1, <3>2, <3>3
  <2> QED BY <2>2, <2>3
<1>2. G = SUBSET T
  <2>1. G \in SUBSET (SUBSET T)
    OBVIOUS
  <2> HIDE DEF G
  <2> QED BY <1>1, <2>1, SubsetInduction
<1> QED BY <1>2

(* Any element may be taken first. *)
LEMMA AddsRemove ==
  ASSUME NEW S, IsFiniteSet(S), NEW f, \A x \in S : f[x] \in Nat, NEW g, Adds(g, f, S),
         NEW y \in S
  PROVE  g[S] = f[y] + g[S \ {y}]
<1> DEFINE G == {s \in SUBSET S : \A x \in s : g[s] = f[x] + g[s \ {x}]}
<1>1. \A s \in SUBSET S : g[s] \in Nat
  BY AddsType
<1>2. ASSUME NEW s \in SUBSET S, \A x \in s : s \ {x} \in G
      PROVE  s \in G
  <2> SUFFICES ASSUME NEW x \in s PROVE g[s] = f[x] + g[s \ {x}]
    OBVIOUS
  <2>1. PICK c : c = Picked(s)
    OBVIOUS
  <2>2. c \in s /\ g[s] = f[c] + g[s \ {c}]
    BY <2>1, AddsUnfolds
  <2>3. CASE x # c
    <3>1. PICK rest : rest = g[(s \ {c}) \ {x}]
      OBVIOUS
    <3>2. g[s \ {c}] = f[x] + rest
      BY <1>2, <2>2, <2>3, <3>1
    <3>3. (s \ {x}) \ {c} = (s \ {c}) \ {x}
      OBVIOUS
    <3>4. g[s \ {x}] = f[c] + rest
      BY <1>2, <2>2, <2>3, <3>1, <3>3
    <3>5. f[x] \in Nat /\ f[c] \in Nat /\ rest \in Nat
      BY <1>1, <2>2, <3>1
    <3>6. g[s] = f[c] + (f[x] + rest)
      BY <2>2, <3>2
    <3> HIDE DEF G
    <3> QED BY <3>4, <3>5, <3>6
  <2> QED BY <2>2, <2>3
<1>3. G = SUBSET S
  <2>1. G \in SUBSET (SUBSET S)
    OBVIOUS
  <2> HIDE DEF G
  <2> QED BY <1>2, <2>1, SubsetInduction
<1>4. S \in G
  BY <1>3
<1> QED BY <1>4

-----------------------------------------------------------------------------
(* The sums *)

(* A sum of natural numbers, as the sizes of files are, is one. *)
LEMMA SumType ==
  ASSUME NEW S, IsFiniteSet(S), NEW f, \A x \in S : f[x] \in Nat
  PROVE  SumFunctionOnSet(f, S) \in Nat
<1>1. PICK g : Adds(g, f, S) /\ SumFunctionOnSet(f, S) = g[S]
  BY SumIsFunction
<1> QED BY <1>1, AddsType

(* Equal terms have equal sums. *)
LEMMA SumSame ==
  ASSUME NEW S, IsFiniteSet(S), NEW f, NEW e, \A x \in S : f[x] \in Nat /\ f[x] = e[x]
  PROVE  SumFunctionOnSet(f, S) = SumFunctionOnSet(e, S)
<1>1. PICK g : Adds(g, f, S) /\ SumFunctionOnSet(f, S) = g[S]
  BY SumIsFunction
<1>2. PICK h : Adds(h, e, S) /\ SumFunctionOnSet(e, S) = h[S]
  <2>1. \A x \in S : e[x] \in Nat
    OBVIOUS
  <2> QED BY <2>1, SumIsFunction
<1> QED BY <1>1, <1>2, AddsUnique

(* One term is taken out of the sum. *)
LEMMA SumRemove ==
  ASSUME NEW S, IsFiniteSet(S), NEW f, \A x \in S : f[x] \in Nat, NEW x \in S
  PROVE  /\ SumFunctionOnSet(f, S) = f[x] + SumFunctionOnSet(f, S \ {x})
         /\ SumFunctionOnSet(f, S \ {x}) \in Nat
<1>1. PICK g : Adds(g, f, S) /\ SumFunctionOnSet(f, S) = g[S]
  BY SumIsFunction
<1>2. IsFiniteSet(S \ {x}) /\ S \ {x} \in SUBSET S
  BY FS_Subset
<1>3. PICK h : Adds(h, f, S \ {x}) /\ SumFunctionOnSet(f, S \ {x}) = h[S \ {x}]
  BY <1>2, SumIsFunction
<1>4. g[S \ {x}] = h[S \ {x}]
  BY <1>1, <1>2, <1>3, AddsUnique
<1>5. g[S] = f[x] + g[S \ {x}] /\ g[S \ {x}] \in Nat
  <2>1. S \in SUBSET S
    OBVIOUS
  <2>2. g[S] = f[x] + g[S \ {x}]
    BY <1>1, AddsRemove
  <2>3. \A s \in SUBSET S : g[s] \in Nat
    BY <1>1, AddsType
  <2> QED BY <1>2, <2>1, <2>2, <2>3
<1> QED BY <1>1, <1>3, <1>4, <1>5

(* One term changes, by whatever it changes. *)
LEMMA SumUpdate ==
  ASSUME NEW S, IsFiniteSet(S), NEW x \in S, NEW f, NEW e,
         \A y \in S : f[y] \in Nat /\ e[y] \in Nat,
         \A y \in S \ {x} : e[y] = f[y]
  PROVE  /\ SumFunctionOnSet(f, S) \in Nat /\ SumFunctionOnSet(e, S) \in Nat
         /\ SumFunctionOnSet(e, S) + f[x] = SumFunctionOnSet(f, S) + e[x]
<1>1. /\ SumFunctionOnSet(f, S) = f[x] + SumFunctionOnSet(f, S \ {x})
      /\ SumFunctionOnSet(f, S \ {x}) \in Nat
  BY SumRemove
<1>2. SumFunctionOnSet(e, S) = e[x] + SumFunctionOnSet(e, S \ {x})
  BY SumRemove
<1>3. SumFunctionOnSet(f, S \ {x}) = SumFunctionOnSet(e, S \ {x})
  <2>1. IsFiniteSet(S \ {x}) /\ \A y \in S \ {x} : f[y] \in Nat /\ f[y] = e[y]
    BY FS_Subset
  <2> QED BY <2>1, SumSame
<1> QED BY <1>1, <1>2, <1>3

(* Smaller terms have a smaller sum. *)
LEMMA SumMonotonic ==
  ASSUME NEW S, IsFiniteSet(S), NEW f, NEW e,
         \A x \in S : f[x] \in Nat /\ e[x] \in Nat /\ f[x] <= e[x]
  PROVE  SumFunctionOnSet(f, S) <= SumFunctionOnSet(e, S)
<1>1. PICK g : Adds(g, f, S) /\ SumFunctionOnSet(f, S) = g[S]
  BY SumIsFunction
<1>2. PICK h : Adds(h, e, S) /\ SumFunctionOnSet(e, S) = h[S]
  BY SumIsFunction
<1> DEFINE G == {s \in SUBSET S : g[s] <= h[s]}
<1>3. \A s \in SUBSET S : g[s] \in Nat /\ h[s] \in Nat
  BY <1>1, <1>2, AddsType
<1>4. ASSUME NEW s \in SUBSET S, \A x \in s : s \ {x} \in G
      PROVE  s \in G
  <2>1. CASE s = {}
    <3>1. g[s] = 0 /\ h[s] = 0
      BY <1>1, <1>2, <2>1, AddsUnfolds
    <3> QED BY <3>1
  <2>2. CASE s # {}
    <3>1. Picked(s) \in s /\ g[s] = f[Picked(s)] + g[s \ {Picked(s)}]
      BY <1>1, <2>2, AddsUnfolds
    <3>2. h[s] = e[Picked(s)] + h[s \ {Picked(s)}]
      BY <1>2, <2>2, AddsUnfolds, SMTT(60)
    <3>3. g[s \ {Picked(s)}] <= h[s \ {Picked(s)}] /\ f[Picked(s)] <= e[Picked(s)]
          /\ g[s \ {Picked(s)}] \in Nat /\ h[s \ {Picked(s)}] \in Nat
          /\ f[Picked(s)] \in Nat /\ e[Picked(s)] \in Nat
      BY <1>3, <1>4, <3>1
    <3> QED BY <3>1, <3>2, <3>3
  <2> QED BY <2>1, <2>2
<1>5. G = SUBSET S
  <2>1. G \in SUBSET (SUBSET S)
    OBVIOUS
  <2> HIDE DEF G
  <2> QED BY <1>4, <2>1, SubsetInduction
<1> QED BY <1>1, <1>2, <1>5

(* A sum of zeros is 0: what a ledger has reserved when no transfer is under
   way. *)
LEMMA SumOfZeros ==
  ASSUME NEW S, IsFiniteSet(S), NEW f, \A x \in S : f[x] = 0
  PROVE  SumFunctionOnSet(f, S) = 0
<1>1. PICK g : Adds(g, f, S) /\ SumFunctionOnSet(f, S) = g[S]
  BY SumIsFunction
<1> DEFINE G == {s \in SUBSET S : g[s] = 0}
<1>2. ASSUME NEW s \in SUBSET S, \A x \in s : s \ {x} \in G
      PROVE  s \in G
  <2>1. CASE s = {}
    <3>1. g[s] = 0
      BY <1>1, <2>1, AddsUnfolds
    <3> QED BY <3>1
  <2>2. CASE s # {}
    <3>1. Picked(s) \in s /\ g[s] = f[Picked(s)] + g[s \ {Picked(s)}]
      BY <1>1, <2>2, AddsUnfolds
    <3>2. g[s \ {Picked(s)}] = 0 /\ f[Picked(s)] = 0
      BY <1>2, <3>1
    <3>3. g[s] = 0
      BY <3>1, <3>2
    <3> QED BY <3>3
  <2> QED BY <2>1, <2>2
<1>3. G = SUBSET S
  <2> HIDE DEF G
  <2>1. G \in SUBSET (SUBSET S)
    BY DEF G
  <2> QED BY <1>2, <2>1, SubsetInduction
<1> QED BY <1>1, <1>3

-----------------------------------------------------------------------------
(* The budgets: proofs *)

TransfersTyped ==
  \A t \in Threads :
    /\ Reserved[t] \in Nat /\ Unsettled[t] \in Nat /\ Unsettled[t] <= Reserved[t]
    /\ Transferring(t) => /\ Reserved[t] = Remaining(t) /\ Unsettled[t] = Written(t)
                          /\ Reserved[t] = Size - thread[t].original
                          /\ Unsettled[t] = Len(partial[thread[t].key]) - thread[t].original
    /\ ~Transferring(t) => Reserved[t] = 0 /\ Unsettled[t] = 0

(* Reservations and bytes received are natural numbers. *)
LEMMA TransferTypes == Fetching => TransfersTyped
<1> SUFFICES ASSUME Fetching, NEW t \in Threads
             PROVE  /\ Reserved[t] \in Nat /\ Unsettled[t] \in Nat /\ Unsettled[t] <= Reserved[t]
                    /\ Transferring(t) => /\ Reserved[t] = Remaining(t) /\ Unsettled[t] = Written(t)
                                          /\ Reserved[t] = Size - thread[t].original
                                          /\ Unsettled[t] = Len(partial[thread[t].key]) - thread[t].original
                    /\ ~Transferring(t) => Reserved[t] = 0 /\ Unsettled[t] = 0
  BY DEF TransfersTyped
<1>1. CASE Transferring(t)
  <2>1. /\ thread[t].original \in 0..Size /\ Len(partial[thread[t].key]) \in 0..Size
        /\ thread[t].original <= Len(partial[thread[t].key])
    BY <1>1, InFetch DEF Transferring, Stage
  <2>2. /\ Reserved[t] = Size - thread[t].original
        /\ Unsettled[t] = Len(partial[thread[t].key]) - thread[t].original
    BY <1>1 DEF Reserved, Unsettled, Remaining, Written
  <2>3. PICK a, b : a = thread[t].original /\ b = Len(partial[thread[t].key])
    OBVIOUS
  <2>4. a \in 0..Size /\ b \in 0..Size /\ a <= b /\ Size \in Nat
    BY <2>1, <2>3, RangeCacheAssumption
  <2>5. Size - a \in Nat /\ b - a \in Nat /\ b - a <= Size - a
    BY <2>4
  <2>6. Reserved[t] = Remaining(t) /\ Unsettled[t] = Written(t)
    BY <2>2 DEF Remaining, Written
  <2> QED BY <1>1, <2>2, <2>3, <2>5, <2>6
<1>2. CASE ~Transferring(t)
  BY <1>2 DEF Reserved, Unsettled
<1> QED BY <1>1, <1>2

(* What thread t does changes its own terms of the sums. *)
LEMMA TermsOfThread ==
  ASSUME Fetching, TransfersTyped, TransfersTyped', NEW t \in Threads,
         \A u \in Threads \ {t} :
           /\ thread'[u] = thread[u]
           /\ Busy(u) => partial'[thread[u].key] = partial[thread[u].key]
  PROVE  LET S(f) == SumFunctionOnSet(f, Threads) IN
         /\ S(Reserved) \in Nat /\ S(Unsettled) \in Nat /\ S(Reserved)' \in Nat /\ S(Unsettled)' \in Nat
         /\ S(Unsettled) <= S(Reserved)
         /\ S(Reserved)' + Reserved[t] = S(Reserved) + Reserved'[t]
         /\ S(Unsettled)' + Unsettled[t] = S(Unsettled) + Unsettled'[t]
<1>1. IsFiniteSet(Threads)
  BY RangeCacheAssumption
<1>2. ASSUME NEW u \in Threads \ {t}
      PROVE  Reserved'[u] = Reserved[u] /\ Unsettled'[u] = Unsettled[u]
  <2>1. Busy(u)' <=> Busy(u)
    BY DEF Busy
  <2>2. Transferring(u)' <=> Transferring(u)
    BY <2>1 DEF Transferring
  <2>3. CASE Transferring(u)
    BY <2>2, <2>3 DEF Reserved, Unsettled, Remaining, Written, Transferring
  <2>4. CASE ~Transferring(u)
    BY <2>2, <2>4 DEF Reserved, Unsettled
  <2> QED BY <2>3, <2>4
<1>3. PICK r, s, p, q : r = Reserved /\ s = Reserved' /\ p = Unsettled /\ q = Unsettled'
  OBVIOUS
<1>4. /\ \A u \in Threads : r[u] \in Nat /\ s[u] \in Nat /\ p[u] \in Nat /\ q[u] \in Nat /\ p[u] <= r[u]
      /\ \A u \in Threads \ {t} : s[u] = r[u] /\ q[u] = p[u]
  BY <1>2, <1>3 DEF TransfersTyped
<1>5. /\ SumFunctionOnSet(r, Threads) \in Nat /\ SumFunctionOnSet(s, Threads) \in Nat
      /\ SumFunctionOnSet(s, Threads) + r[t] = SumFunctionOnSet(r, Threads) + s[t]
  BY <1>1, <1>4, SumUpdate
<1>6. /\ SumFunctionOnSet(p, Threads) \in Nat /\ SumFunctionOnSet(q, Threads) \in Nat
      /\ SumFunctionOnSet(q, Threads) + p[t] = SumFunctionOnSet(p, Threads) + q[t]
  BY <1>1, <1>4, SumUpdate
<1>7. SumFunctionOnSet(p, Threads) <= SumFunctionOnSet(r, Threads)
  BY <1>1, <1>4, SumMonotonic
<1> QED BY <1>3, <1>5, <1>6, <1>7

(* The bytes on disk change with those of one key. *)
LEMMA BytesOfKey ==
  ASSUME Fetching, Fetching', NEW k \in Keys,
         \A q \in Keys \ {k} : payload'[q] = payload[q] /\ partial'[q] = partial[q]
  PROVE  /\ OnDisk(payload, partial) \in Nat /\ OnDisk(payload, partial)' \in Nat
         /\ OnDisk(payload, partial)' + Len(payload[k]) + Len(partial[k])
              = OnDisk(payload, partial) + Len(payload'[k]) + Len(partial'[k])
         /\ Len(payload[k]) \in Nat /\ Len(partial[k]) \in Nat
         /\ Len(payload'[k]) \in Nat /\ Len(partial'[k]) \in Nat
<1>1. IsFiniteSet(Keys)
  BY RangeCacheAssumption
<1>2. ASSUME NEW q \in Keys
      PROVE  /\ Len(payload[q]) \in Nat /\ Len(partial[q]) \in Nat
             /\ Len(payload'[q]) \in Nat /\ Len(partial'[q]) \in Nat
  <2>1. payload[q] \in Bytes /\ partial[q] \in Bytes /\ payload'[q] \in Bytes /\ partial'[q] \in Bytes
    BY DEF Fetching, Types
  <2> QED BY <2>1, BytesAreSequences, LenProperties
<1>3. PICK f, e : f = Held(payload, partial) /\ e = Held(payload', partial')
  OBVIOUS
<1>4. \A q \in Keys : /\ f[q] = Len(payload[q]) + Len(partial[q])
                      /\ e[q] = Len(payload'[q]) + Len(partial'[q])
  BY <1>3 DEF Held
<1>5. /\ \A q \in Keys : f[q] \in Nat /\ e[q] \in Nat
      /\ \A q \in Keys \ {k} : e[q] = f[q]
  <2>1. ASSUME NEW q \in Keys
        PROVE  f[q] \in Nat /\ e[q] \in Nat
    <3>1. PICK a, b, c, d : a = Len(payload[q]) /\ b = Len(partial[q])
                           /\ c = Len(payload'[q]) /\ d = Len(partial'[q])
      OBVIOUS
    <3>2. a \in Nat /\ b \in Nat /\ c \in Nat /\ d \in Nat
      BY <1>2, <3>1
    <3>3. f[q] = a + b /\ e[q] = c + d
      BY <1>4, <3>1
    <3> QED BY <3>2, <3>3
  <2>2. \A q \in Keys \ {k} : e[q] = f[q]
    BY <1>4
  <2> QED BY <2>1, <2>2
<1>6. /\ SumFunctionOnSet(f, Keys) \in Nat /\ SumFunctionOnSet(e, Keys) \in Nat
      /\ SumFunctionOnSet(e, Keys) + f[k] = SumFunctionOnSet(f, Keys) + e[k]
  BY <1>1, <1>5, SumUpdate
<1>7. /\ OnDisk(payload, partial) = SumFunctionOnSet(f, Keys)
      /\ OnDisk(payload, partial)' = SumFunctionOnSet(e, Keys)
  BY <1>3 DEF OnDisk, SumFunction, Held
<1>8. PICK a, b, c, d, m, n : /\ a = Len(payload[k]) /\ b = Len(partial[k])
                              /\ c = Len(payload'[k]) /\ d = Len(partial'[k])
                              /\ m = OnDisk(payload, partial) /\ n = OnDisk(payload, partial)'
  OBVIOUS
<1>9. a \in Nat /\ b \in Nat /\ c \in Nat /\ d \in Nat /\ m \in Nat /\ n \in Nat
  BY <1>2, <1>6, <1>7, <1>8
<1>10. n + (a + b) = m + (c + d)
  BY <1>4, <1>6, <1>7, <1>8
<1>11. n + a + b = m + c + d
  BY <1>9, <1>10
<1> QED BY <1>8, <1>9, <1>11

(* Finitely many threads are not transferring. *)
LEMMA RestingIsFinite ==
  IsFiniteSet(Resting) /\ Cardinality(Resting) \in Nat /\ IsFiniteSet(Resting') /\ Cardinality(Resting') \in Nat
BY RangeCacheAssumption, FS_Subset, FS_CardinalityType DEF Resting

(* The ledger stays as it is. *)
LEMMA LedgersKept ==
  ASSUME Fetching, Fetching', TransfersTyped, TransfersTyped', Ledgers, UNCHANGED <<download, cache>>,
         NEW t \in Threads, NEW k \in Keys,
         \A u \in Threads \ {t} :
           thread'[u] = thread[u] /\ (Busy(u) => thread[u].key # k),
         \A q \in Keys \ {k} : payload'[q] = payload[q] /\ partial'[q] = partial[q],
         Transferring(t)' <=> Transferring(t), Reserved'[t] = Reserved[t],
         Len(payload'[k]) + Len(partial'[k]) + Unsettled[t]
           <= Len(payload[k]) + Len(partial[k]) + Unsettled'[t]
  PROVE  Ledgers'
<1>1. \A u \in Threads \ {t} :
        /\ thread'[u] = thread[u]
        /\ Busy(u) => partial'[thread[u].key] = partial[thread[u].key]
  BY InFetch
<1>2. PICK rs, us, rs1, us1 :
        /\ rs = SumFunctionOnSet(Reserved, Threads) /\ rs1 = SumFunctionOnSet(Reserved, Threads)'
        /\ us = SumFunctionOnSet(Unsettled, Threads) /\ us1 = SumFunctionOnSet(Unsettled, Threads)'
  OBVIOUS
<1>3. /\ rs \in Nat /\ us \in Nat /\ rs1 \in Nat /\ us1 \in Nat
      /\ rs1 + Reserved[t] = rs + Reserved'[t] /\ us1 + Unsettled[t] = us + Unsettled'[t]
      /\ Reserved[t] \in Nat /\ Unsettled[t] \in Nat /\ Unsettled'[t] \in Nat
  BY <1>1, <1>2, TermsOfThread DEF TransfersTyped
<1>4. PICK d, d1 : d = OnDisk(payload, partial) /\ d1 = OnDisk(payload, partial)'
  OBVIOUS
<1>5. /\ d \in Nat /\ d1 \in Nat
      /\ d1 + Len(payload[k]) + Len(partial[k]) = d + Len(payload'[k]) + Len(partial'[k])
      /\ Len(payload[k]) \in Nat /\ Len(partial[k]) \in Nat
      /\ Len(payload'[k]) \in Nat /\ Len(partial'[k]) \in Nat
  BY <1>4, BytesOfKey
<1>6. Resting' = Resting
  <2>1. \A u \in Threads : Transferring(u)' <=> Transferring(u)
    BY DEF Transferring, Busy
  <2> QED BY <2>1 DEF Resting
<1>7. rs1 = rs
  BY <1>3
<1>8. d1 <= cache.used + us1
  <2>1. PICK used, a, b, a1, b1, un, un1 :
          /\ used = cache.used /\ un = Unsettled[t] /\ un1 = Unsettled'[t]
          /\ a = Len(payload[k]) /\ b = Len(partial[k])
          /\ a1 = Len(payload'[k]) /\ b1 = Len(partial'[k])
    OBVIOUS
  <2>2. d <= used + us /\ used \in Nat
    BY <1>2, <1>4, <2>1 DEF Ledgers
  <2>3. a \in Nat /\ b \in Nat /\ a1 \in Nat /\ b1 \in Nat /\ un \in Nat /\ un1 \in Nat
    BY <1>3, <1>5, <2>1
  <2>4. d1 + a + b = d + a1 + b1 /\ us1 + un = us + un1 /\ a1 + b1 + un <= a + b + un1
    BY <1>3, <1>5, <2>1
  <2>5. d1 <= used + us1
    BY <1>3, <1>5, <2>2, <2>3, <2>4
  <2> QED BY <2>1, <2>5
<1> QED BY <1>2, <1>4, <1>6, <1>7, <1>8 DEF Ledgers

(* A transfer ends, and is settled. *)
LEMMA TransferEnds ==
  ASSUME Fetching, Fetching', TransfersTyped, TransfersTyped', Ledgers, UNCHANGED payload,
         NEW t \in Threads, NEW k \in Keys, k = thread[t].key,
         \A u \in Threads \ {t} : thread'[u] = thread[u],
         \A q \in Keys \ {k} : partial'[q] = partial[q],
         Transferring(t), ~Transferring(t)',
         NEW received \in Nat, NEW written \in Nat, Settle(t, received, written),
         received <= Remaining(t) + 1, written <= Remaining(t),
         Len(partial'[k]) + Written(t) <= Len(partial[k]) + written
  PROVE  Ledgers'
<1>1. \A u \in Threads \ {t} : Busy(u) => thread[u].key # k /\ thread[u].key \in Keys
  BY InFetch DEF Transferring
<1>2. PICK rs, us, rs1, us1 :
        /\ rs = SumFunctionOnSet(Reserved, Threads) /\ rs1 = SumFunctionOnSet(Reserved, Threads)'
        /\ us = SumFunctionOnSet(Unsettled, Threads) /\ us1 = SumFunctionOnSet(Unsettled, Threads)'
  OBVIOUS
<1>3. /\ rs \in Nat /\ us \in Nat /\ rs1 \in Nat /\ us1 \in Nat
      /\ rs1 + Reserved[t] = rs + Reserved'[t] /\ us1 + Unsettled[t] = us + Unsettled'[t]
  BY <1>1, <1>2, TermsOfThread
<1>4. PICK rem, wr : rem = Remaining(t) /\ wr = Written(t)
  OBVIOUS
<1>5. /\ rem \in Nat /\ wr \in Nat /\ rs1 + rem = rs /\ us1 + wr = us
  <2>1. Reserved[t] = rem /\ Unsettled[t] = wr /\ Reserved'[t] = 0 /\ Unsettled'[t] = 0
        /\ rem \in Nat /\ wr \in Nat
    BY <1>4 DEF TransfersTyped
  <2> QED BY <1>3, <2>1
<1>6. PICK d, d1 : d = OnDisk(payload, partial) /\ d1 = OnDisk(payload, partial)'
  OBVIOUS
<1>7. /\ d \in Nat /\ d1 \in Nat /\ Len(partial[k]) \in Nat /\ Len(partial'[k]) \in Nat
      /\ d1 + Len(partial[k]) = d + Len(partial'[k])
  <2>1. PICK a, b, b1 : a = Len(payload[k]) /\ b = Len(partial[k]) /\ b1 = Len(partial'[k])
    OBVIOUS
  <2>2. /\ d1 + a + b = d + a + b1
        /\ d \in Nat /\ d1 \in Nat /\ a \in Nat /\ b \in Nat /\ b1 \in Nat
    <3>1. k \in Keys /\ \A q \in Keys \ {k} : payload'[q] = payload[q] /\ partial'[q] = partial[q]
      OBVIOUS
    <3> QED BY <1>6, <2>1, <3>1, BytesOfKey
  <2>3. d1 + b = d + b1
    BY <2>2
  <2> QED BY <2>1, <2>2, <2>3
<1>8. PICK c, c1 : c = Cardinality(Resting) /\ c1 = Cardinality(Resting')
  OBVIOUS
<1>9. c \in Nat /\ c1 = c + 1
  <2>1. Resting' = Resting \cup {t} /\ t \notin Resting
    BY DEF Resting, Transferring, Busy
  <2> QED BY <1>8, <2>1, RestingIsFinite, FS_AddElement
<1>10. PICK du, cu : du = download.used /\ cu = cache.used
  OBVIOUS
<1>11. /\ du \in Nat /\ cu \in Nat
       /\ download.reserved = rs /\ cache.reserved = rs
       /\ du + rs <= DownloadBudget + c /\ cu + rs <= CacheBudget /\ d <= cu + us
       /\ DownloadBudget \in Nat /\ CacheBudget \in Nat
  BY <1>2, <1>6, <1>8, <1>10, RangeCacheAssumption DEF Ledgers
<1>12. rs - rem = rs1 /\ du + received \in Nat /\ cu + written \in Nat
  <2>1. rs \in Nat /\ rs1 \in Nat /\ rem \in Nat /\ rs1 + rem = rs
    BY <1>3, <1>5
  <2>2. rs - rem = rs1
    BY <2>1
  <2>3. du \in Nat /\ cu \in Nat
    BY <1>11
  <2> QED BY <2>2, <2>3
<1>13. /\ download' = [used |-> du + received, reserved |-> rs1]
       /\ cache' = [used |-> cu + written, reserved |-> rs1]
  BY <1>4, <1>10, <1>11, <1>12 DEF Settle
<1>14. du + received + rs1 <= DownloadBudget + c1
  <2>1. /\ received <= rem + 1 /\ rs1 + rem = rs /\ du + rs <= DownloadBudget + c
        /\ rs \in Nat /\ rs1 \in Nat /\ rem \in Nat /\ du \in Nat /\ c \in Nat
        /\ DownloadBudget \in Nat /\ c1 = c + 1
    BY <1>3, <1>4, <1>5, <1>9, <1>11
  <2> QED BY <2>1, SMTT(30)
<1>15. cu + written + rs1 <= CacheBudget
  <2>1. /\ written \in Nat /\ rem \in Nat /\ rs \in Nat /\ rs1 \in Nat /\ cu \in Nat
        /\ CacheBudget \in Nat
        /\ written <= rem /\ rs1 + rem = rs /\ cu + rs <= CacheBudget
    BY <1>3, <1>4, <1>5, <1>11
  <2> QED BY <2>1, SMTT(30)
<1>16. d1 <= cu + written + us1
  <2>1. PICK b, b1 : b = Len(partial[k]) /\ b1 = Len(partial'[k])
    OBVIOUS
  <2>2. b1 + wr <= b + written /\ b \in Nat /\ b1 \in Nat /\ d1 + b = d + b1
    BY <1>4, <1>7, <2>1
  <2>3. /\ wr \in Nat /\ us \in Nat /\ us1 \in Nat /\ d \in Nat /\ d1 \in Nat /\ cu \in Nat
        /\ written \in Nat /\ d <= cu + us /\ us1 + wr = us
    BY <1>3, <1>5, <1>7, <1>11
  <2>4. d1 + wr <= d + written
    BY <2>2, <2>3, SMTT(30)
  <2>5. d + written <= cu + written + us1 + wr
    BY <2>3, SMTT(30)
  <2> QED BY <2>3, <2>4, <2>5, SMTT(30)
<1>17. /\ download' \in [used : Nat, reserved : Nat] /\ cache' \in [used : Nat, reserved : Nat]
       /\ download'.used = du + received /\ download'.reserved = rs1
       /\ cache'.used = cu + written /\ cache'.reserved = rs1
  BY <1>3, <1>12, <1>13
<1> QED BY <1>2, <1>6, <1>8, <1>14, <1>15, <1>16, <1>17 DEF Ledgers

(* The files of a key are no longer than its range. *)
LEMMA LengthsOfKey ==
  ASSUME Fetching, NEW k \in Keys
  PROVE  Len(payload[k]) \in 0..Size /\ Len(partial[k]) \in 0..Size /\ partial[k] \in Seq(BOOLEAN)
<1>1. payload[k] \in Bytes /\ partial[k] \in Bytes
  BY DEF Fetching, Types
<1> QED BY <1>1, BytesAreSequences, LenProperties, RangeCacheAssumption

(* A thread outside the transfer leaves no more on disk than it found. *)
LEMMA NoTransfer ==
  ASSUME Fetching, Fetching', TransfersTyped, TransfersTyped', Ledgers, UNCHANGED <<download, cache>>,
         NEW t \in Threads, NEW k \in Keys,
         \A u \in Threads \ {t} :
           thread'[u] = thread[u] /\ (Busy(u) => thread[u].key # k),
         \A q \in Keys \ {k} : payload'[q] = payload[q] /\ partial'[q] = partial[q],
         ~Transferring(t), ~Transferring(t)',
         Len(payload'[k]) + Len(partial'[k]) <= Len(payload[k]) + Len(partial[k])
  PROVE  Ledgers'
<1>1. Reserved'[t] = 0 /\ Reserved[t] = 0 /\ Unsettled'[t] = 0 /\ Unsettled[t] = 0
  BY DEF TransfersTyped
<1>2. PICK a, b, a1, b1 : /\ a = Len(payload[k]) /\ b = Len(partial[k])
                          /\ a1 = Len(payload'[k]) /\ b1 = Len(partial'[k])
  OBVIOUS
<1>3. /\ a \in Nat /\ b \in Nat /\ a1 \in Nat /\ b1 \in Nat
  BY <1>2, BytesOfKey
<1>4. a1 + b1 + 0 <= a + b + 0
  <2>1. a1 + b1 <= a + b
    BY <1>2
  <2> QED BY <1>3, <2>1
<1>5. Len(payload'[k]) + Len(partial'[k]) + Unsettled[t]
        <= Len(payload[k]) + Len(partial[k]) + Unsettled'[t]
  BY <1>1, <1>2, <1>4
<1>6. (Transferring(t)' <=> Transferring(t)) /\ Reserved'[t] = Reserved[t]
  BY <1>1
<1> QED BY <1>5, <1>6, LedgersKept

(* A thread outside the transfer leaves the files as they were. *)
LEMMA NothingWritten ==
  ASSUME Fetching, Fetching', TransfersTyped, TransfersTyped', Ledgers,
         UNCHANGED <<download, cache, payload, partial>>,
         NEW t \in Threads, NEW k \in Keys,
         \A u \in Threads \ {t} :
           thread'[u] = thread[u] /\ (Busy(u) => thread[u].key # k),
         ~Transferring(t), ~Transferring(t)'
  PROVE  Ledgers'
<1>1. \A q \in Keys \ {k} : payload'[q] = payload[q] /\ partial'[q] = partial[q]
  OBVIOUS
<1>2. PICK a, b : a = Len(payload[k]) /\ b = Len(partial[k])
  OBVIOUS
<1>3. a + b <= a + b
  <2>1. a \in Nat /\ b \in Nat
    BY <1>2, LengthsOfKey
  <2> QED BY <2>1
<1>4. Len(payload'[k]) + Len(partial'[k]) <= Len(payload[k]) + Len(partial[k])
  BY <1>2, <1>3
<1> QED BY <1>1, <1>4, NoTransfer

(* A transfer begins, and reserves the bytes that are missing. *)
LEMMA TransferBegins ==
  ASSUME Fetching, Fetching', TransfersTyped, TransfersTyped', Ledgers,
         UNCHANGED <<payload, partial>>, NEW t \in Threads, NEW k \in Keys,
         \A u \in Threads \ {t} : thread'[u] = thread[u],
         ~Transferring(t), Transferring(t)', thread'[t].key = k,
         thread'[t].original = Len(partial[k]),
         NEW n \in Nat, n = Size - Len(partial[k]), Reservable(n), Reserve(n)
  PROVE  Ledgers'
<1>1. \A u \in Threads \ {t} : Busy(u) => partial'[thread[u].key] = partial[thread[u].key]
  OBVIOUS
<1>2. PICK rs, us, rs1, us1 :
        /\ rs = SumFunctionOnSet(Reserved, Threads) /\ rs1 = SumFunctionOnSet(Reserved, Threads)'
        /\ us = SumFunctionOnSet(Unsettled, Threads) /\ us1 = SumFunctionOnSet(Unsettled, Threads)'
  OBVIOUS
<1>3. /\ rs \in Nat /\ us \in Nat /\ rs1 \in Nat /\ us1 \in Nat
      /\ rs1 + Reserved[t] = rs + Reserved'[t] /\ us1 + Unsettled[t] = us + Unsettled'[t]
  BY <1>1, <1>2, TermsOfThread
<1>4. rs1 = rs + n /\ us1 = us
  <2>1. Reserved[t] = 0 /\ Unsettled[t] = 0
    BY DEF TransfersTyped
  <2>2. PICK len : len = Len(partial[k])
    OBVIOUS
  <2>3. len \in Nat
    BY <2>2, LengthsOfKey
  <2>4. Reserved'[t] = Size - len /\ Unsettled'[t] = len - len
    BY <2>2 DEF TransfersTyped
  <2>5. Reserved'[t] = n /\ Unsettled'[t] = 0
    BY <2>2, <2>3, <2>4
  <2>6. rs1 + 0 = rs + n /\ us1 + 0 = us + 0
    BY <1>3, <2>1, <2>5
  <2>7. rs \in Nat /\ us \in Nat /\ rs1 \in Nat /\ us1 \in Nat
    BY <1>3
  <2> QED BY <2>6, <2>7
<1>5. PICK d : d = OnDisk(payload, partial) /\ d = OnDisk(payload, partial)'
  BY DEF OnDisk
<1>6. PICK c, c1 : c = Cardinality(Resting) /\ c1 = Cardinality(Resting')
  OBVIOUS
<1>7. c \in Nat /\ c1 \in Nat /\ c = c1 + 1
  <2>1. Resting = Resting' \cup {t} /\ t \notin Resting'
    BY DEF Resting, Transferring, Busy
  <2> QED BY <1>6, <2>1, RestingIsFinite, FS_AddElement
<1>8. PICK du, cu : du = download.used /\ cu = cache.used
  OBVIOUS
<1>9. /\ du \in Nat /\ cu \in Nat /\ download.reserved = rs /\ cache.reserved = rs
      /\ download = [used |-> du, reserved |-> rs] /\ cache = [used |-> cu, reserved |-> rs]
      /\ d <= cu + us
  BY <1>2, <1>5, <1>8 DEF Ledgers
<1>10. du + rs + n <= DownloadBudget /\ cu + rs + n <= CacheBudget
  BY <1>8, <1>9 DEF Reservable
<1>11. /\ download' = [used |-> du, reserved |-> rs1] /\ cache' = [used |-> cu, reserved |-> rs1]
  BY <1>4, <1>9 DEF Reserve
<1>12. /\ download' \in [used : Nat, reserved : Nat] /\ cache' \in [used : Nat, reserved : Nat]
       /\ download'.used = du /\ download'.reserved = rs1
       /\ cache'.used = cu /\ cache'.reserved = rs1
  BY <1>3, <1>9, <1>11
<1>13. du + rs1 <= DownloadBudget + c1 /\ cu + rs1 <= CacheBudget /\ d <= cu + us1
  <2>1. /\ du \in Nat /\ cu \in Nat /\ rs \in Nat /\ c1 \in Nat /\ rs1 = rs + n /\ us1 = us
        /\ d <= cu + us
    BY <1>3, <1>4, <1>7, <1>9
  <2>2. DownloadBudget \in Nat /\ CacheBudget \in Nat
    BY RangeCacheAssumption
  <2>3. du + rs1 <= DownloadBudget + c1
    BY <1>10, <2>1, <2>2, SMTT(30)
  <2>4. cu + rs1 <= CacheBudget
    BY <1>10, <2>1, <2>2
  <2> QED BY <2>1, <2>3, <2>4
<1> QED BY <1>2, <1>5, <1>6, <1>12, <1>13 DEF Ledgers

(* A process that has just started: no transfer is under way, and the cache
   counts what is on disk. *)
JustStarted ==
  /\ \A t \in Threads : thread[t] = Idle
  /\ download = NoBytes
  /\ cache \in [used : Nat, reserved : {0}]
  /\ cache.used = OnDisk(payload, partial)
  /\ cache.used <= CacheBudget

(* A process that has just started has counted its files and reserved
   nothing. *)
LEMMA LedgersOfAProcess == JustStarted => Ledgers
<1> SUFFICES ASSUME JustStarted PROVE Ledgers
  OBVIOUS
<1>1. \A t \in Threads : ~Transferring(t)
  BY DEF JustStarted, Transferring, Busy
<1>2. PICK r, u : r = Reserved /\ u = Unsettled
  OBVIOUS
<1>3. \A t \in Threads : r[t] = 0 /\ u[t] = 0
  BY <1>1, <1>2 DEF Reserved, Unsettled
<1>4. SumFunctionOnSet(r, Threads) = 0 /\ SumFunctionOnSet(u, Threads) = 0
  BY <1>3, SumOfZeros, RangeCacheAssumption
<1>5. PICK c, cu : c = Cardinality(Resting) /\ cu = cache.used
  OBVIOUS
<1>6. c \in Nat /\ cu \in Nat /\ DownloadBudget \in Nat /\ CacheBudget \in Nat
  BY <1>5, RestingIsFinite, RangeCacheAssumption DEF JustStarted
<1>7. 0 + 0 <= DownloadBudget + c /\ cu + 0 <= CacheBudget /\ cu <= cu + 0
  BY <1>5, <1>6 DEF JustStarted
<1>8. /\ download \in [used : Nat, reserved : Nat] /\ download.used = 0 /\ download.reserved = 0
      /\ cache \in [used : Nat, reserved : Nat] /\ cache.reserved = 0
  BY DEF JustStarted, NoBytes
<1> QED BY <1>2, <1>4, <1>5, <1>7, <1>8 DEF JustStarted, Ledgers

(* What the transfers have not settled yet is within what they reserved. *)
LEMMA UnsettledIsReserved ==
  ASSUME TransfersTyped
  PROVE  /\ SumFunctionOnSet(Unsettled, Threads) \in Nat /\ SumFunctionOnSet(Reserved, Threads) \in Nat
         /\ SumFunctionOnSet(Unsettled, Threads) <= SumFunctionOnSet(Reserved, Threads)
<1>1. PICK r, u : r = Reserved /\ u = Unsettled
  OBVIOUS
<1>2. \A t \in Threads : r[t] \in Nat /\ u[t] \in Nat /\ u[t] <= r[t]
  BY <1>1 DEF TransfersTyped
<1>3. /\ SumFunctionOnSet(u, Threads) \in Nat /\ SumFunctionOnSet(r, Threads) \in Nat
      /\ SumFunctionOnSet(u, Threads) <= SumFunctionOnSet(r, Threads)
  BY <1>2, SumType, SumMonotonic, RangeCacheAssumption
<1> QED BY <1>1, <1>3

(* What the ledger says of the disk. *)
LEMMA BudgetOfDisk ==
  ASSUME Fetching, TransfersTyped, Ledgers
  PROVE  /\ OnDisk(payload, partial) <= cache.used + cache.reserved
         /\ cache.used + cache.reserved <= CacheBudget
         /\ cache.used \in Nat /\ cache.reserved \in Nat
<1>1. PICK d, cu, rs, us : /\ d = OnDisk(payload, partial) /\ cu = cache.used
                           /\ rs = SumFunctionOnSet(Reserved, Threads)
                           /\ us = SumFunctionOnSet(Unsettled, Threads)
  OBVIOUS
<1>2. /\ d <= cu + us /\ cu + rs <= CacheBudget /\ cache.reserved = rs /\ cu \in Nat
  BY <1>1 DEF Ledgers
<1>3. us \in Nat /\ rs \in Nat /\ us <= rs
  BY <1>1, UnsettledIsReserved
<1>4. d \in Nat
  <2>1. PICK f : f = Held(payload, partial)
    OBVIOUS
  <2>2. \A k \in Keys : f[k] \in Nat
    <3>1. ASSUME NEW k \in Keys PROVE f[k] \in Nat
      <4>1. PICK a, b : a = Len(payload[k]) /\ b = Len(partial[k])
        OBVIOUS
      <4>2. a \in Nat /\ b \in Nat /\ f[k] = a + b
        BY <2>1, <4>1, LengthsOfKey DEF Held
      <4> QED BY <4>2
    <3> QED BY <3>1
  <2>3. SumFunctionOnSet(f, Keys) \in Nat
    BY <2>2, SumType, RangeCacheAssumption
  <2> QED BY <1>1, <2>1, <2>3 DEF OnDisk, SumFunction, Held
<1>5. d <= cu + rs
  BY <1>2, <1>3, <1>4
<1> QED BY <1>1, <1>2, <1>3, <1>5

(* Every step keeps the ledgers, or opens those of another process. *)
LEMMA LedgersStep ==
  Fetching /\ Fetching' /\ TransfersTyped /\ TransfersTyped' /\ Ledgers /\ [Next]_vars
    => Ledgers' \/ JustStarted'
<1> SUFFICES ASSUME Fetching, Fetching', TransfersTyped, TransfersTyped', Ledgers, [Next]_vars
             PROVE  Ledgers' \/ JustStarted'
  OBVIOUS
<1>1. /\ payload \in [Keys -> Bytes] /\ partial \in [Keys -> Bytes]
      /\ thread \in [Threads -> Step \cup {Idle}] /\ Size \in Nat \ {0}
  BY RangeCacheAssumption DEF Fetching, Types
<1>2. ASSUME NEW t \in Threads, NEW k \in Keys,
             FetchRefused(t, k) \/ FetchHit(t, k) \/ FetchHitRefused(t, k)
      PROVE  Ledgers'
  <2>1. /\ UNCHANGED <<download, cache, payload, partial>>
        /\ thread' = [thread EXCEPT ![t] = Idle] /\ ~Busy(t)
    BY <1>2 DEF FetchRefused, FetchHit, FetchHitRefused, Enters, End, files, ledger
  <2>2. thread' = thread
    BY <1>1, <2>1 DEF Busy
  <2>3. ~Transferring(t) /\ ~Transferring(t)'
    BY <2>1, <2>2 DEF Transferring, Busy
  <2>4. CASE Enters(t, k)
    BY <2>1, <2>2, <2>3, <2>4, EntersAlone, NothingWritten
  <2>5. CASE ~Enters(t, k)
    BY <2>1, <2>2 DEF Ledgers, OnDisk, Reserved, Unsettled, Resting, Transferring, Remaining,
                      Written, Busy
  <2> QED BY <2>4, <2>5
<1>3. ASSUME NEW t \in Threads, NEW k \in Keys, FetchMiss(t, k)
      PROVE  Ledgers'
  <2>1. PICK done, x : /\ done = Len(partial[k])
                       /\ x = [pc |-> IF done < Size THEN "open" ELSE "hash", key |-> k,
                               original |-> done]
    OBVIOUS
  <2>2. /\ UNCHANGED <<payload, partial>> /\ Enters(t, k) /\ thread' = [thread EXCEPT ![t] = x]
        /\ IF done < Size THEN Reservable(Size - done) /\ Reserve(Size - done)
           ELSE UNCHANGED <<download, cache>>
    BY <1>3, <2>1 DEF FetchMiss, files, ledger
  <2>3. done \in 0..Size
    BY <2>1, LengthsOfKey
  <2>4. /\ thread'[t] = x /\ x # Idle
        /\ \A u \in Threads \ {t} : thread'[u] = thread[u] /\ (Busy(u) => thread[u].key # k)
    <3>1. \A u \in Threads \ {t} : Busy(u) => thread[u].key # k
      BY <2>2, EntersAlone
    <3> QED BY <1>1, <2>1, <2>2, <3>1 DEF Idle
  <2>5. ~Transferring(t)
    BY <2>2 DEF Enters, Transferring
  <2>6. CASE done < Size
    <3>1. PICK n : n = Size - done
      OBVIOUS
    <3>2. n \in Nat /\ Reservable(n) /\ Reserve(n) /\ n = Size - Len(partial[k])
      BY <1>1, <2>1, <2>2, <2>3, <2>6, <3>1
    <3>3. Transferring(t)' /\ thread'[t].key = k /\ thread'[t].original = Len(partial[k])
      BY <2>1, <2>4, <2>6 DEF Transferring, Busy
    <3> QED BY <2>2, <2>4, <2>5, <3>2, <3>3, TransferBegins
  <2>7. CASE ~(done < Size)
    <3>1. ~Transferring(t)'
      BY <2>1, <2>4, <2>7 DEF Transferring
    <3>2. UNCHANGED <<download, cache, payload, partial>>
      BY <2>2, <2>7
    <3> QED BY <2>4, <2>5, <3>1, <3>2, NothingWritten
  <2> QED BY <2>6, <2>7
<1>4. ASSUME NEW t \in Threads, Opens(t)
      PROVE  Ledgers'
  <2>1. PICK k : k = thread[t].key
    OBVIOUS
  <2>2. UNCHANGED <<download, cache, payload, partial>> /\ Goes(t, "read") /\ thread[t].pc = "open"
    BY <1>4 DEF Opens, files, ledger
  <2>3. Busy(t) /\ k \in Keys /\ \A u \in Threads \ {t} : Busy(u) => thread[u].key # k
    BY <2>1, <2>2, InFetch
  <2>4. PICK x \in Step :
          /\ thread' = [thread EXCEPT ![t] = x] /\ x # Idle /\ thread'[t] = x
          /\ x.key = k /\ x.original = thread[t].original /\ x.pc = "read"
    BY <2>1, <2>2, <2>3, GoesOn
  <2>5. Transferring(t) /\ Transferring(t)'
    BY <2>2, <2>3, <2>4 DEF Transferring, Busy
  <2>6. Reserved'[t] = Reserved[t] /\ Unsettled'[t] = Unsettled[t]
    BY <2>1, <2>2, <2>4, <2>5 DEF TransfersTyped
  <2>7. Len(payload'[k]) + Len(partial'[k]) + Unsettled[t]
          <= Len(payload[k]) + Len(partial[k]) + Unsettled'[t]
    <3>1. PICK a, b, n : a = Len(payload[k]) /\ b = Len(partial[k]) /\ n = Unsettled[t]
      OBVIOUS
    <3>2. a \in Nat /\ b \in Nat /\ n \in Nat
      BY <2>3, <3>1, LengthsOfKey DEF TransfersTyped
    <3>3. a + b + n <= a + b + n
      BY <3>2
    <3> QED BY <2>2, <2>6, <3>1, <3>3
  <2>8. \A u \in Threads \ {t} : thread'[u] = thread[u] /\ (Busy(u) => thread[u].key # k)
    BY <1>1, <2>3, <2>4
  <2>9. \A q \in Keys \ {k} : payload'[q] = payload[q] /\ partial'[q] = partial[q]
    BY <2>2
  <2> QED BY <2>2, <2>3, <2>5, <2>6, <2>7, <2>8, <2>9, LedgersKept
<1>5. ASSUME NEW t \in Threads, Reads(t)
      PROVE  Ledgers'
  <2>1. PICK k : k = thread[t].key
    OBVIOUS
  <2>2. PICK byte \in BOOLEAN : partial' = [partial EXCEPT ![k] = Append(partial[k], byte)]
    BY <1>5, <2>1 DEF Reads
  <2>3. PICK p \in {"read", "extra"} : Goes(t, p)
    BY <1>5 DEF Reads
  <2>4. UNCHANGED <<download, cache, payload>> /\ thread[t].pc = "read"
    BY <1>5 DEF Reads, ledger
  <2>5. /\ Busy(t) /\ k \in Keys /\ \A u \in Threads \ {t} : Busy(u) => thread[u].key # k
        /\ partial[k] \in Seq(BOOLEAN) /\ thread[t].original \in 0..Size
    BY <2>1, <2>4, InFetch
  <2>6. PICK x \in Step :
          /\ thread' = [thread EXCEPT ![t] = x] /\ x # Idle /\ thread'[t] = x
          /\ x.key = k /\ x.original = thread[t].original /\ x.pc = p
    BY <2>1, <2>3, <2>5, GoesOn
  <2>7. Transferring(t) /\ Transferring(t)'
    BY <2>3, <2>4, <2>5, <2>6 DEF Transferring, Busy
  <2>8. partial'[k] = Append(partial[k], byte) /\ \A q \in Keys \ {k} : partial'[q] = partial[q]
    BY <1>1, <2>2, <2>5
  <2>9. PICK a, b, b1, o, n, n1 : /\ a = Len(payload[k]) /\ b = Len(partial[k])
                                  /\ b1 = Len(partial'[k]) /\ o = thread[t].original
                                  /\ n = Unsettled[t] /\ n1 = Unsettled'[t]
    OBVIOUS
  <2>10. a \in Nat /\ b \in Nat /\ o \in Nat /\ b1 = b + 1
    <3>1. a \in Nat /\ b \in Nat /\ o \in Nat
      BY <2>5, <2>9, LengthsOfKey
    <3>2. Len(Append(partial[k], byte)) = Len(partial[k]) + 1
      BY <2>2, <2>5, AppendProperties
    <3> QED BY <2>8, <2>9, <3>1, <3>2
  <2>11. n = b - o /\ n1 = b1 - o /\ n \in Nat /\ n1 \in Nat
    BY <2>1, <2>6, <2>7, <2>9 DEF TransfersTyped
  <2>12. a + b1 + n <= a + b + n1
    BY <2>10, <2>11
  <2>13. Reserved'[t] = Reserved[t]
    BY <2>6, <2>7 DEF TransfersTyped
  <2>14. Len(payload'[k]) + Len(partial'[k]) + Unsettled[t]
           <= Len(payload[k]) + Len(partial[k]) + Unsettled'[t]
    BY <2>4, <2>9, <2>12
  <2>15. \A u \in Threads \ {t} : thread'[u] = thread[u] /\ (Busy(u) => thread[u].key # k)
    BY <1>1, <2>5, <2>6
  <2>16. \A q \in Keys \ {k} : payload'[q] = payload[q] /\ partial'[q] = partial[q]
    BY <2>4, <2>8
  <2> QED BY <2>4, <2>5, <2>7, <2>13, <2>14, <2>15, <2>16, LedgersKept
(* A transfer that ends, and how its key is left. *)
<1>6. ASSUME NEW t \in Threads, Transferring(t), UNCHANGED payload, NEW x,
             thread' = [thread EXCEPT ![t] = x], x = Idle \/ x.pc = "hash",
             \A q \in Keys \ {thread[t].key} : partial'[q] = partial[q],
             NEW over \in {0, 1},
             \/ /\ UNCHANGED partial
                /\ Settle(t, Written(t), Written(t))
             \/ /\ Len(partial'[thread[t].key]) = thread[t].original
                /\ Settle(t, Written(t) + over, 0)
      PROVE  Ledgers'
  <2>1. PICK k : k = thread[t].key
    OBVIOUS
  <2>2. PICK wr, rem, b, b1, o : /\ wr = Written(t) /\ rem = Remaining(t) /\ b = Len(partial[k])
                                 /\ b1 = Len(partial'[k]) /\ o = thread[t].original
    OBVIOUS
  <2>3. wr \in Nat /\ rem \in Nat /\ wr <= rem /\ wr = b - o
    <3>1. /\ Reserved[t] \in Nat /\ Unsettled[t] \in Nat /\ Unsettled[t] <= Reserved[t]
          /\ Reserved[t] = Remaining(t) /\ Unsettled[t] = Written(t)
      BY <1>6 DEF TransfersTyped
    <3>2. Written(t) = Len(partial[k]) - thread[t].original
      BY <2>1 DEF Written
    <3> QED BY <2>2, <3>1, <3>2
  <2>4. k \in Keys /\ o \in Nat /\ b \in Nat
    <3>1. k \in Keys /\ thread[t].original \in 0..Size /\ Len(partial[k]) \in 0..Size
      BY <1>6, <2>1, InFetch DEF Transferring
    <3> QED BY <1>1, <2>2, <3>1
  <2>5. thread'[t] = x /\ \A u \in Threads \ {t} : thread'[u] = thread[u]
    BY <1>1, <1>6
  <2>6. ~Transferring(t)'
    BY <1>6, <2>5 DEF Transferring, Busy
  <2>7. \A q \in Keys \ {k} : partial'[q] = partial[q]
    BY <1>6, <2>1
  <2>8. CASE UNCHANGED partial /\ Settle(t, Written(t), Written(t))
    <3>1. Settle(t, wr, wr) /\ b1 = b
      BY <2>2, <2>8
    <3>2. wr <= rem + 1 /\ b1 + wr <= b + wr
      BY <2>3, <2>4, <3>1
    <3>3. /\ wr <= Remaining(t) + 1 /\ wr <= Remaining(t)
          /\ Len(partial'[k]) + Written(t) <= Len(partial[k]) + wr
      BY <2>2, <2>3, <3>2
    <3> QED BY <1>6, <2>1, <2>3, <2>4, <2>5, <2>6, <2>7, <3>1, <3>3, TransferEnds
  <2>9. CASE /\ Len(partial'[thread[t].key]) = thread[t].original
             /\ Settle(t, Written(t) + over, 0)
    <3>1. PICK received : received = wr + over
      OBVIOUS
    <3>2. Settle(t, received, 0) /\ b1 = o
      BY <2>1, <2>2, <2>9, <3>1
    <3>3. received \in Nat /\ received <= rem + 1 /\ 0 \in Nat /\ 0 <= rem /\ b1 + wr <= b + 0
      <4>1. /\ over \in Nat /\ over <= 1 /\ wr \in Nat /\ rem \in Nat /\ wr <= rem
            /\ received = wr + over
        BY <1>6, <2>3, <3>1
      <4>2. received \in Nat /\ received <= rem + 1 /\ 0 \in Nat /\ 0 <= rem
        BY <4>1, SMTT(30)
      <4>3. b \in Nat /\ o \in Nat /\ wr = b - o /\ b1 = o
        BY <2>3, <2>4, <3>2
      <4>4. b1 + wr <= b + 0
        BY <4>3, SMTT(30)
      <4> QED BY <4>2, <4>4
    <3>4. /\ received <= Remaining(t) + 1 /\ 0 <= Remaining(t)
          /\ Len(partial'[k]) + Written(t) <= Len(partial[k]) + 0
      BY <2>2, <3>3
    <3> QED BY <1>6, <2>1, <2>4, <2>5, <2>6, <2>7, <3>2, <3>3, <3>4, TransferEnds
  <2> QED BY <1>6, <2>8, <2>9
<1>7. ASSUME NEW t \in Threads, Completes(t)
      PROVE  Ledgers'
  <2>1. /\ UNCHANGED <<payload, partial>> /\ Goes(t, "hash") /\ thread[t].pc = "extra"
        /\ Settle(t, Written(t), Written(t))
    BY <1>7 DEF Completes, files
  <2>2. Busy(t)
    BY <2>1, InFetch
  <2>3. PICK x \in Step : thread' = [thread EXCEPT ![t] = x] /\ x.pc = "hash"
    BY <2>1, <2>2, GoesOn
  <2>4. Transferring(t) /\ \A q \in Keys \ {thread[t].key} : partial'[q] = partial[q]
    BY <2>1, <2>2 DEF Transferring
  <2>5. 0 \in {0, 1}
    OBVIOUS
  <2> QED BY <1>6, <2>1, <2>3, <2>4, <2>5
<1>8. ASSUME NEW t \in Threads, Disconnects(t)
      PROVE  Ledgers'
  <2>1. /\ UNCHANGED <<payload, partial>> /\ thread' = [thread EXCEPT ![t] = Idle]
        /\ Settle(t, Written(t), Written(t)) /\ Transferring(t)
    BY <1>8 DEF Disconnects, End, files
  <2>2. 0 \in {0, 1} /\ \A q \in Keys \ {thread[t].key} : partial'[q] = partial[q]
    BY <2>1
  <2> QED BY <1>6, <2>1, <2>2
<1>9. ASSUME NEW t \in Threads, BreaksContract(t)
      PROVE  Ledgers'
  <2>1. PICK k, o : k = thread[t].key /\ o = thread[t].original
    OBVIOUS
  <2>2. PICK over \in {0, 1} : over = IF thread[t].pc = "extra" THEN 1 ELSE 0
    OBVIOUS
  <2>3. /\ Transferring(t) /\ UNCHANGED payload /\ thread' = [thread EXCEPT ![t] = Idle]
        /\ partial' = [partial EXCEPT ![k] = SubSeq(partial[k], 1, o)]
        /\ Settle(t, Written(t) + over, 0)
    BY <1>9, <2>1, <2>2 DEF BreaksContract, End, Rejected
  <2>4. /\ k \in Keys /\ partial[k] \in Seq(BOOLEAN) /\ o \in Nat /\ o <= Len(partial[k])
    BY <1>1, <2>1, <2>3, InFetch DEF Transferring, Stage
  <2>5. Len(SubSeq(partial[k], 1, o)) = o
    BY <2>4
  <2>6. Len(partial'[k]) = o /\ \A q \in Keys \ {k} : partial'[q] = partial[q]
    BY <1>1, <2>3, <2>4, <2>5
  <2> QED BY <1>6, <2>1, <2>2, <2>3, <2>6
<1>10. ASSUME NEW t \in Threads, Discards(t)
       PROVE  Ledgers'
  <2>1. PICK k : k = thread[t].key
    OBVIOUS
  <2>2. /\ UNCHANGED <<download, cache, payload>> /\ Busy(t) /\ thread[t].pc = "hash"
        /\ partial' = [partial EXCEPT ![k] = << >>] /\ thread' = [thread EXCEPT ![t] = Idle]
    BY <1>10, <2>1 DEF Discards, End, ledger
  <2>3. k \in Keys /\ \A u \in Threads \ {t} : Busy(u) => thread[u].key # k
    BY <2>1, <2>2, InFetch
  <2>4. /\ partial'[k] = << >> /\ \A q \in Keys \ {k} : payload'[q] = payload[q] /\ partial'[q] = partial[q]
        /\ \A u \in Threads \ {t} : thread'[u] = thread[u]
        /\ thread'[t] = Idle
    BY <1>1, <2>2, <2>3
  <2>5. ~Transferring(t) /\ ~Transferring(t)'
    BY <2>2, <2>4 DEF Transferring, Busy
  <2>6. PICK a, b : a = Len(payload[k]) /\ b = Len(partial[k])
    OBVIOUS
  <2>7. a \in Nat /\ b \in Nat
    BY <2>3, <2>6, LengthsOfKey
  <2>8. a + 0 <= a + b
    BY <2>7
  <2>9. Len(payload'[k]) + Len(partial'[k]) <= Len(payload[k]) + Len(partial[k])
    BY <2>2, <2>4, <2>6, <2>8, NoBytesOnDisk
  <2> QED BY <2>2, <2>3, <2>4, <2>5, <2>9, NoTransfer
<1>11. ASSUME NEW t \in Threads, Renames(t)
       PROVE  Ledgers'
  <2>1. PICK k : k = thread[t].key
    OBVIOUS
  <2>2. /\ UNCHANGED <<download, cache>> /\ Goes(t, "proof") /\ Busy(t) /\ thread[t].pc = "hash"
        /\ payload' = [payload EXCEPT ![k] = partial[k]] /\ partial' = [partial EXCEPT ![k] = << >>]
    BY <1>11, <2>1 DEF Renames, ledger
  <2>3. k \in Keys /\ \A u \in Threads \ {t} : Busy(u) => thread[u].key # k
    BY <2>1, <2>2, InFetch
  <2>4. PICK x \in Step : thread' = [thread EXCEPT ![t] = x] /\ thread'[t] = x /\ x.pc = "proof"
    BY <2>2, GoesOn
  <2>5. /\ payload'[k] = partial[k] /\ partial'[k] = << >>
        /\ \A q \in Keys \ {k} : payload'[q] = payload[q] /\ partial'[q] = partial[q]
        /\ \A u \in Threads \ {t} : thread'[u] = thread[u]
    BY <1>1, <2>2, <2>3, <2>4
  <2>6. ~Transferring(t) /\ ~Transferring(t)'
    BY <2>2, <2>4 DEF Transferring, Busy
  <2>7. PICK a, b : a = Len(payload[k]) /\ b = Len(partial[k])
    OBVIOUS
  <2>8. a \in Nat /\ b \in Nat
    BY <2>3, <2>7, LengthsOfKey
  <2>9. b + 0 <= a + b
    BY <2>8
  <2>10. Len(payload'[k]) + Len(partial'[k]) <= Len(payload[k]) + Len(partial[k])
    BY <2>5, <2>7, <2>9, NoBytesOnDisk
  <2> QED BY <2>2, <2>3, <2>5, <2>6, <2>10, NoTransfer
<1>12. ASSUME NEW t \in Threads, Proves(t)
       PROVE  Ledgers'
  <2>1. PICK k : k = thread[t].key
    OBVIOUS
  <2>2. /\ UNCHANGED <<download, cache, payload, partial>> /\ Busy(t) /\ thread[t].pc = "proof"
        /\ thread' = [thread EXCEPT ![t] = Idle]
    BY <1>12 DEF Proves, End, ledger
  <2>3. k \in Keys /\ \A u \in Threads \ {t} : Busy(u) => thread[u].key # k
    BY <2>1, <2>2, InFetch
  <2>4. thread'[t] = Idle /\ \A u \in Threads \ {t} : thread'[u] = thread[u]
    BY <1>1, <2>2
  <2>5. ~Transferring(t) /\ ~Transferring(t)'
    BY <2>2, <2>4 DEF Transferring, Busy
  <2> QED BY <2>2, <2>3, <2>4, <2>5, NothingWritten
<1>13. CASE Restart
  <2>1. /\ UNCHANGED payload /\ download' = NoBytes /\ \A t \in Threads : thread'[t] = Idle
        /\ cache' = [NoBytes EXCEPT !.used = OnDisk(payload, partial')]
        /\ \A k \in Keys : Survives(k, partial'[k])
    BY <1>13 DEF Restart
  <2>2. PICK d1 : d1 = OnDisk(payload', partial')
    OBVIOUS
  <2>3. d1 \in Nat /\ d1 <= OnDisk(payload, partial)
    <3>1. PICK f, e : f = Held(payload', partial') /\ e = Held(payload, partial)
      OBVIOUS
    <3>2. ASSUME NEW k \in Keys
          PROVE  f[k] \in Nat /\ e[k] \in Nat /\ f[k] <= e[k]
      <4>1. PICK a, b, b1 : a = Len(payload[k]) /\ b = Len(partial[k]) /\ b1 = Len(partial'[k])
        OBVIOUS
      <4>2. a \in Nat /\ b \in Nat /\ partial[k] \in Seq(BOOLEAN)
        BY <4>1, LengthsOfKey
      <4>3. b1 \in Nat /\ b1 <= b
        <5>1. CASE partial'[k] = partial[k]
          BY <4>1, <4>2, <5>1
        <5>2. CASE \E t \in Threads : /\ Busy(t) /\ thread[t].key = k /\ Transferring(t)
                                      /\ \E n \in thread[t].original..Len(partial[k]) :
                                           partial'[k] = SubSeq(partial[k], 1, n)
          <6>1. PICK t \in Threads :
                  /\ Busy(t)
                  /\ \E n \in thread[t].original..Len(partial[k]) :
                       partial'[k] = SubSeq(partial[k], 1, n)
            BY <5>2
          <6>2. PICK n \in thread[t].original..Len(partial[k]) :
                  partial'[k] = SubSeq(partial[k], 1, n)
            BY <6>1
          <6>3. thread[t].original \in Nat
            BY <1>1, <6>1, InFetch
          <6>4. n \in Nat /\ n <= b
            BY <4>1, <4>2, <6>2, <6>3
          <6>5. Len(SubSeq(partial[k], 1, n)) = n
            BY <4>1, <4>2, <6>4
          <6> QED BY <4>1, <6>2, <6>4, <6>5
        <5> QED BY <2>1, <5>1, <5>2 DEF Survives
      <4>4. f[k] = a + b1 /\ e[k] = a + b
        BY <2>1, <3>1, <4>1 DEF Held
      <4> QED BY <4>2, <4>3, <4>4
    <3>3. /\ SumFunctionOnSet(f, Keys) \in Nat
          /\ SumFunctionOnSet(f, Keys) <= SumFunctionOnSet(e, Keys)
      BY <3>2, SumType, SumMonotonic, RangeCacheAssumption
    <3> QED BY <2>2, <3>1, <3>3 DEF OnDisk, SumFunction, Held
  <2>4. d1 <= CacheBudget
    <3>1. PICK d, cu, cr : d = OnDisk(payload, partial) /\ cu = cache.used /\ cr = cache.reserved
      OBVIOUS
    <3>2. d <= cu + cr /\ cu + cr <= CacheBudget /\ cu \in Nat /\ cr \in Nat
      BY <3>1, BudgetOfDisk
    <3>3. d1 <= d /\ d1 \in Nat /\ CacheBudget \in Nat
      BY <2>3, <3>1, RangeCacheAssumption
    <3>4. d \in Nat
      <4>1. PICK f : f = Held(payload, partial)
        OBVIOUS
      <4>2. ASSUME NEW k \in Keys PROVE f[k] \in Nat
        <5>1. PICK a, b : a = Len(payload[k]) /\ b = Len(partial[k])
          OBVIOUS
        <5>2. a \in Nat /\ b \in Nat /\ f[k] = a + b
          BY <4>1, <5>1, LengthsOfKey DEF Held
        <5> QED BY <5>2
      <4>3. SumFunctionOnSet(f, Keys) \in Nat
        BY <4>2, SumType, RangeCacheAssumption
      <4> QED BY <3>1, <4>1, <4>3 DEF OnDisk, SumFunction, Held
    <3> QED BY <3>2, <3>3, <3>4
  <2>5. /\ cache' \in [used : Nat, reserved : {0}] /\ cache'.used = OnDisk(payload', partial')
        /\ cache'.used <= CacheBudget
    <3>1. cache' = [used |-> d1, reserved |-> 0]
      BY <2>1, <2>2 DEF NoBytes
    <3> QED BY <2>2, <2>3, <2>4, <3>1
  <2> QED BY <2>1, <2>5 DEF JustStarted
<1>14. CASE UNCHANGED vars
  BY <1>14 DEF vars, files, ledger, Ledgers, OnDisk, Reserved, Unsettled, Resting, Transferring,
               Remaining, Written, Busy
<1> QED
  BY <1>2, <1>3, <1>4, <1>5, <1>7, <1>8, <1>9, <1>10, <1>11, <1>12, <1>13, <1>14 DEF Next

(* The invariant holds. *)
THEOREM Invariance == Spec => []IInv
<1>1. Init => IInv
  <2> SUFFICES ASSUME Init PROVE IInv
    OBVIOUS
  <2>1. Types
    BY NoBytesOnDisk DEF Init, Types
  <2>2. /\ Exclusive /\ (\A t \in Threads : Busy(t) => Stage(t))
        /\ ProofHasPayload /\ OfficialIsRight
    BY DEF Init, Exclusive, Busy, ProofHasPayload, OfficialIsRight, Failed
  <2>3. PICK f : f = Held(payload, partial)
    OBVIOUS
  <2>4. \A k \in Keys : f[k] = 0
    <3>1. 0 + 0 = 0
      OBVIOUS
    <3> QED BY <2>3, <3>1, NoBytesOnDisk DEF Init, Held
  <2>5. OnDisk(payload, partial) = 0
    BY <2>3, <2>4, SumOfZeros, RangeCacheAssumption DEF OnDisk, SumFunction, Held
  <2>6. Ledgers
    <3>1. \A t \in Threads : thread[t] = Idle
      BY DEF Init
    <3>2. download = NoBytes /\ cache = [used |-> 0, reserved |-> 0]
      BY DEF Init, NoBytes
    <3>3. cache \in [used : Nat, reserved : {0}] /\ cache.used = OnDisk(payload, partial)
          /\ cache.used <= CacheBudget
      BY <2>5, <3>2, RangeCacheAssumption
    <3> QED BY <3>1, <3>2, <3>3, LedgersOfAProcess DEF JustStarted
  <2> QED BY <2>1, <2>2, <2>6 DEF IInv, Fetching
<1>2. IInv /\ TransfersTyped /\ Fetching' /\ TransfersTyped' /\ [Next]_vars => Ledgers' \/ JustStarted'
  BY LedgersStep DEF IInv
<1>3. IInv /\ [Next]_vars => Fetching'
  BY FetchingStep DEF IInv
<1>4. IInv <=> Fetching /\ Ledgers
  BY DEF IInv
<1> QED BY <1>1, <1>2, <1>3, <1>4, TransferTypes, LedgersOfAProcess, PTL DEF Spec

-----------------------------------------------------------------------------
(* What fetch promises *)

(* What fetch returns as official has the official hash, and a range that a
   lock names is returned as official, whatever an earlier process or a wrong
   response left in .part and whoever wrote the proof. *)
THEOREM OfficialBytes == Spec => []OfficialIsRight
<1>1. IInv => OfficialIsRight
  BY DEF IInv, Fetching
<1> QED BY <1>1, Invariance, PTL

(* A proof on disk has its payload, whenever the process ended. *)
THEOREM ProofsHavePayloads == Spec => []ProofHasPayload
<1>1. IInv => ProofHasPayload
  BY DEF IInv, Fetching
<1> QED BY <1>1, Invariance, PTL

(* The bytes on disk stay within the cache budget and within what the process
   counts and has reserved, through every end of a transfer and over restarts. *)
THEOREM DiskBudget == Spec => []DiskWithinBudget
<1>1. IInv /\ TransfersTyped => DiskWithinBudget
  BY BudgetOfDisk DEF IInv, DiskWithinBudget
<1>2. IInv => Fetching
  BY DEF IInv
<1> QED BY <1>1, <1>2, TransferTypes, Invariance, PTL

(* A process exceeds its download budget by at most one byte for each of its
   threads, and has reserved exactly what its transfers may still read. *)
THEOREM DownloadBudgeted == Spec => []DownloadBounded
<1>1. IInv => DownloadBounded
  <2> SUFFICES ASSUME IInv PROVE DownloadBounded
    OBVIOUS
  <2>1. PICK u, r, c, n : /\ u = download.used /\ r = download.reserved
                          /\ c = Cardinality(Resting) /\ n = Cardinality(Threads)
    OBVIOUS
  <2>2. u \in Nat /\ r \in Nat /\ u + r <= DownloadBudget + c
    BY <2>1 DEF IInv, Ledgers
  <2>3. c \in Nat /\ n \in Nat /\ c <= n
    <3>1. Resting \in SUBSET Threads
      BY DEF Resting
    <3> QED BY <2>1, <3>1, FS_Subset, FS_CardinalityType, RangeCacheAssumption
  <2>4. DownloadBudget \in Nat
    BY RangeCacheAssumption
  <2>5. u + r <= DownloadBudget + n
    BY <2>2, <2>3, <2>4
  <2>6. download.reserved = SumFunctionOnSet(Reserved, Threads)
    BY DEF IInv, Ledgers
  <2>7. download.reserved =
          SumFunction([t \in Threads |-> IF Transferring(t) THEN Remaining(t) ELSE 0])
    BY <2>6 DEF SumFunction, Reserved
  <2> QED BY <2>1, <2>5, <2>7 DEF DownloadBounded
<1> QED BY <1>1, Invariance, PTL

(* A published payload is final: only Renames writes one, for a key that has
   none, and no restart removes it. *)
THEOREM PayloadsAreFinal == Spec => PayloadIsFinal
<1>1. IInv /\ [Next]_vars => [\A k \in Keys : Present(k) => payload'[k] = payload[k]]_vars
  <2> SUFFICES ASSUME IInv, Next, NEW k \in Keys, Present(k)
               PROVE  payload'[k] = payload[k]
    OBVIOUS
  <2>1. CASE UNCHANGED payload
    BY <2>1
  <2>2. ASSUME NEW t \in Threads, Renames(t)
        PROVE  payload'[k] = payload[k]
    <3>1. thread[t].pc = "hash" /\ payload' = [payload EXCEPT ![thread[t].key] = partial[thread[t].key]]
      BY <2>2 DEF Renames
    <3>2. ~Present(thread[t].key)
      BY <3>1, InFetch DEF IInv, Stage
    <3>3. thread[t].key # k
      BY <3>2
    <3> QED BY <3>1, <3>3 DEF IInv, Fetching, Types
  <2> QED
    BY <2>1, <2>2
    DEF Next, FetchRefused, FetchHit, FetchHitRefused, FetchMiss, Opens, Reads, Completes,
        BreaksContract, Disconnects, Discards, Proves, Restart, files
<1> QED BY <1>1, Invariance, PTL DEF Spec, PayloadIsFinal
=============================================================================
