---------------------------- MODULE ForwardProofs ----------------------------
(***************************************************************************)
(* Proofs about ExpertLoader and about Forward, which composes it.         *)
(*                                                                         *)
(* The first part is about the loader, for rings of every depth, pools of  *)
(* every size and batches of every length: pages are visible only with     *)
(* their bytes, the ring, the GPU queue and the Loading slots agree, and   *)
(* the slots of a batch are not given away before it returns.  It rests on *)
(* LoaderAssumption and NoneAssumption alone.                              *)
(*                                                                         *)
(* The second part is about Forward::step, for every model and router: the *)
(* pages of the picks are all visible when the kernels are built, and keep *)
(* their bytes while the kernels run, although nothing pins them.          *)
(***************************************************************************)
EXTENDS Forward, VramPoolProofs

-----------------------------------------------------------------------------
(* The inductive invariant *)

(* What a ring slot with a pending transfer says about the pool, the GPU
   queue and the bytes. *)
Carried(p, pend, mem, stg, fen, que) ==
  \A pip \in Ring : pend[pip] # NoTransfer =>
    /\ pend[pip] \in Transfer
    /\ p.state[pend[pip].slot] = Loading(pend[pip].key)
    /\ fen[pip] <=> <<pip, pend[pip].slot>> \notin que
    /\ ~fen[pip] => stg[pip] = pend[pip].key
    /\ fen[pip] => mem[pend[pip].slot] = pend[pip].key

(* Transfers and Loading slots correspond. *)
Matched(p, pend) ==
  /\ \A i, j \in Ring :
       pend[i] # NoTransfer /\ pend[j] # NoTransfer /\ pend[i].slot = pend[j].slot => i = j
  /\ \A s \in 1..Slots, k \in Key : p.state[s] = Loading(k) =>
       \E pip \in Ring : pend[pip] # NoTransfer /\ pend[pip].slot = s

(* Copies in flight belong to pending transfers. *)
Flying(pend, que) ==
  \A c \in que : /\ c \in Ring \X (1..Slots)
                 /\ pend[c[1]] # NoTransfer /\ pend[c[1]].slot = c[2]

(* The bytes of visible pages. *)
Filled(p, mem) == \A s \in 1..Slots, k \in Key : p.state[s] = Ready(k) => mem[s] = k

RingTyped(pend, mem, stg, fen) ==
  /\ pend \in [Ring -> Transfer \cup {NoTransfer}]
  /\ mem \in [1..Slots -> Key \cup {Garbage}]
  /\ stg \in [Ring -> Key \cup {Garbage}]
  /\ fen \in [Ring -> BOOLEAN]

RingOK(p, pend, mem, stg, fen, que) ==
  /\ Sound(p, Slots) /\ \A s \in 1..Slots : p.pins[s] = 0
  /\ RingTyped(pend, mem, stg, fen)
  /\ Carried(p, pend, mem, stg, fen, que)
  /\ Matched(p, pend) /\ Flying(pend, que) /\ Filled(p, mem)

(* The Ready slots of the pages W, and that they are the most recently used
   of all. *)
ReadySlots(p, W) == {s \in 1..Slots : \E k \in W : p.state[s] = Ready(k)}
Ordered(r, F) == \A i, j \in 1..Len(r) : i < j /\ r[i] \in F => r[j] \in F
Fresh(p, W) == Ordered(p.recency, ReadySlots(p, W))

(* No page is on its way but those of W. *)
Awaited(p, W) == \A s \in 1..Slots, k \in Key : p.state[s] = Loading(k) => k \in W

HeldIn(p, s, k) == s \in 1..Slots /\ p.state[s] \in {Loading(k), Ready(k)}

(* The pages of a batch call that have their slots. *)
Prefix(b) == {b.keys[i] : i \in 1..Len(b.slots)}

BatchOK(p, b) ==
  /\ b \in Batch /\ IsInjective(b.keys)
  /\ Len(b.slots) <= Len(b.keys) /\ Len(b.keys) <= Slots
  /\ \A i \in 1..Len(b.slots) : HeldIn(p, b.slots[i], b.keys[i])

Guarded(p, b) == Fresh(p, Prefix(b)) /\ Awaited(p, Prefix(b))

CallsOK ==
  /\ open \in BOOLEAN
  /\ ~open => queue = {} /\ batch = NoBatch
  /\ \A r \in returned : r[1] \in Key /\ HeldIn(pool, r[2], r[1])
  /\ batch # NoBatch => returned = {} /\ BatchOK(pool, batch)

RingInv == RingOK(pool, pending, memory, staging, fence, queue) /\ next_pip \in Ring

LoaderInv == RingInv /\ CallsOK /\ (batch # NoBatch => Guarded(pool, batch))

-----------------------------------------------------------------------------
(* The access order *)

(* Taking an element out of an ordered sequence keeps it ordered. *)
LEMMA RemovedOrder ==
  ASSUME NEW S, NEW s \in Seq(S), NEW i \in 1..Len(s), NEW F, Ordered(s, F)
  PROVE  Ordered(RemoveAt(s, i), F)
<1>1. PICK n : n = Len(s)
  OBVIOUS
<1>2. n \in Nat /\ i \in 1..n /\ \A j \in 1..n : s[j] \in S
  BY <1>1, LenProperties, ElementOfSeq
<1>3. PICK a, b : a = SubSeq(s, 1, i - 1) /\ b = SubSeq(s, i + 1, n)
  OBVIOUS
<1>4. /\ a \in Seq(S) /\ Len(a) = i - 1 /\ \A j \in 1..(i - 1) : a[j] = s[j]
  BY <1>1, <1>2, <1>3
<1>5. /\ b \in Seq(S) /\ Len(b) = n - i /\ \A j \in 1..(n - i) : b[j] = s[i + j]
  BY <1>1, <1>2, <1>3
<1>6. PICK c : c = a \o b
  OBVIOUS
<1>7. /\ Len(c) = n - 1
      /\ \A j \in 1..(n - 1) : c[j] = IF j < i THEN s[j] ELSE s[j + 1]
  <2>1. /\ Len(c) = (i - 1) + (n - i)
        /\ \A j \in 1..((i - 1) + (n - i)) : c[j] = IF j <= i - 1 THEN a[j] ELSE b[j - (i - 1)]
    BY <1>4, <1>5, <1>6, ConcatProperties
  <2>2. (i - 1) + (n - i) = n - 1
    BY <1>2
  <2>3. ASSUME NEW j \in 1..(n - 1) PROVE c[j] = IF j < i THEN s[j] ELSE s[j + 1]
    <3>1. CASE j < i
      BY <1>2, <1>4, <2>1, <2>2, <3>1
    <3>2. CASE ~(j < i)
      <4>1. j - (i - 1) \in 1..(n - i) /\ i + (j - (i - 1)) = j + 1 /\ ~(j <= i - 1)
        BY <1>2, <3>2
      <4> QED BY <1>5, <2>1, <2>2, <3>2, <4>1
    <3> QED BY <3>1, <3>2
  <2> QED BY <2>1, <2>2, <2>3
<1>8. c = RemoveAt(s, i)
  BY <1>1, <1>3, <1>6 DEF RemoveAt
<1>9. PICK f : f = [l \in 1..(n - 1) |-> IF l < i THEN l ELSE l + 1]
  OBVIOUS
<1>10. /\ \A l \in 1..(n - 1) : f[l] \in 1..n /\ c[l] = s[f[l]]
       /\ \A l, m \in 1..(n - 1) : l < m => f[l] < f[m]
  BY <1>2, <1>7, <1>9
<1>11. \A j, k \in 1..n : j < k /\ s[j] \in F => s[k] \in F
  BY <1>1 DEF Ordered
<1>12. \A l, m \in 1..(n - 1) : l < m /\ c[l] \in F => c[m] \in F
  BY <1>10, <1>11
<1> QED BY <1>7, <1>8, <1>12 DEF Ordered

(* Forgetting a slot keeps the order of the others. *)
LEMMA ForgottenOrder ==
  ASSUME NEW n \in Nat, NEW p, p.recency \in Seq(1..n), NEW s, NEW F, Ordered(p.recency, F)
  PROVE  Ordered(Forgotten(p, s), F)
<1>1. PICK q : q = p.recency
  OBVIOUS
<1>2. q \in Seq(1..n) /\ Len(q) \in Nat
  BY <1>1, LenProperties
<1>3. CASE \E i \in 1..Len(q) : q[i] = s
  <2>1. PICK I : I = {i \in 1..Len(q) : q[i] = s}
    OBVIOUS
  <2>2. PICK i : i = Min(I)
    OBVIOUS
  <2>3. I # {} /\ I \in SUBSET Nat
    <3>1. I \subseteq 1..Len(q) /\ 1..Len(q) \subseteq Nat
      BY <1>2, <2>1
    <3>2. PICK j \in 1..Len(q) : q[j] = s
      BY <1>3
    <3>3. j \in I
      BY <2>1, <3>2
    <3> QED BY <3>1, <3>3
  <2>4. i \in 1..Len(q)
    BY <2>1, <2>2, <2>3, LeastIndex
  <2>5. Forgotten(p, s) = RemoveAt(q, i)
    BY <1>1, <1>3, <2>1, <2>2, <2>3 DEF Forgotten, RemoveFirst, SelectInSeq
  <2> QED BY <1>1, <1>2, <2>4, <2>5, RemovedOrder
<1>4. CASE ~\E i \in 1..Len(q) : q[i] = s
  BY <1>1, <1>4 DEF Forgotten, RemoveFirst
<1> QED BY <1>3, <1>4

(* The slot accessed last may join the slots used most recently. *)
LEMMA AccessedOrder ==
  ASSUME NEW n \in Nat, NEW p, p.recency \in Seq(1..n), IsInjective(p.recency),
         NEW s \in 1..n, NEW F, Ordered(p.recency, F)
  PROVE  Ordered(Accessed(p, s), F \cup {s})
<1>1. PICK q : q = Forgotten(p, s)
  OBVIOUS
<1>2. q \in Seq(1..n) /\ Range(q) = Range(p.recency) \ {s} /\ Ordered(q, F)
  BY <1>1, ForgottenSlot, ForgottenOrder
<1>3. PICK m : m = Len(q)
  OBVIOUS
<1>4. m \in Nat /\ DOMAIN q = 1..m
  BY <1>2, <1>3, LenProperties
<1>5. PICK r : r = Append(q, s)
  OBVIOUS
<1>6. Len(r) = m + 1 /\ r[m + 1] = s /\ \A i \in 1..m : r[i] = q[i]
  BY <1>2, <1>3, <1>5, AppendProperties
<1>7. \A i \in 1..m : q[i] # s
  BY <1>2, <1>4 DEF Range
<1>8. \A i, j \in 1..m : i < j /\ q[i] \in F => q[j] \in F
  BY <1>2, <1>3 DEF Ordered
<1>9. \A i, j \in 1..(m + 1) : i < j /\ r[i] \in F \cup {s} => r[j] \in F \cup {s}
  <2> SUFFICES ASSUME NEW i \in 1..(m + 1), NEW j \in 1..(m + 1), i < j, r[i] \in F \cup {s}
               PROVE  r[j] \in F \cup {s}
    OBVIOUS
  <2>1. i \in 1..m
    BY <1>4
  <2>2. r[i] \in F
    BY <1>6, <1>7, <2>1
  <2>3. CASE j = m + 1
    BY <1>6, <2>3
  <2>4. CASE j \in 1..m
    BY <1>6, <1>8, <2>1, <2>2, <2>4
  <2> QED BY <1>4, <2>3, <2>4
<1> QED BY <1>1, <1>5, <1>6, <1>9 DEF Accessed, Ordered

(* Only the listed elements of the set matter. *)
LEMMA SameOrder ==
  ASSUME NEW S, NEW r \in Seq(S), NEW F, NEW G, Ordered(r, F),
         \A s \in Range(r) : s \in F <=> s \in G
  PROVE  Ordered(r, G)
<1>1. DOMAIN r = 1..Len(r) /\ \A i \in 1..Len(r) : r[i] \in Range(r)
  BY LenProperties DEF Range
<1> QED BY <1>1 DEF Ordered

-----------------------------------------------------------------------------
(* The pool under the operations of the loader *)

(* The slots that hold Ready pages of W, when one slot becomes Ready. *)
LEMMA ReadySlotAdded ==
  ASSUME NEW p, NEW q, NEW W, NEW s \in 1..Slots, NEW k,
         q.state[s] = Ready(k),
         \A u \in 1..Slots : u # s => q.state[u] = p.state[u] /\ p.state[u] # Ready(k)
  PROVE  ReadySlots(q, W \cup {k}) = ReadySlots(p, W) \cup {s}
<1>1. \A l \in W \cup {k}, u \in 1..Slots : u # s =>
        (q.state[u] = Ready(l) <=> l \in W /\ p.state[u] = Ready(l))
  OBVIOUS
<1> QED BY <1>1 DEF ReadySlots

(* mark_ready makes a page Ready, and the most recently used one. *)
LEMMA MarkedFresh ==
  ASSUME NEW p, Sound(p, Slots), NEW s \in 1..Slots, NEW k \in Key, p.state[s] = Loading(k),
         NEW q, q = MarkReady(p, s, k)
  PROVE  /\ Sound(q, Slots) /\ OthersKept(p, q, Slots, s)
         /\ q.state[s] = Ready(k) /\ q.pins[s] = 0
         /\ \A W : Fresh(p, W) => Fresh(q, W \cup {k})
<1>1. Slots \in Nat
  BY LoaderAssumption
<1>2. /\ Sound(q, Slots) /\ OthersKept(p, q, Slots, s) /\ q.state[s] = Ready(k) /\ q.pins[s] = 0
  BY <1>1, MarkedReady
<1>3. p = [state |-> p.state, recency |-> p.recency, pins |-> p.pins,
           generation |-> p.generation, index |-> p.index, n_loaded |-> p.n_loaded]
  BY <1>1, SlotsOfPool DEF Sound
<1>4. q.recency = Accessed(p, s)
  <2>1. PICK r, m : r = Stamp(p, k, s) /\ m = Publish(p, r)
    OBVIOUS
  <2>2. r.slot = s
    BY <2>1 DEF Stamp
  <2>3. m.recency = Accessed(p, s) /\ "pins" \in DOMAIN m
    BY <1>3, <2>1, <2>2 DEF Publish
  <2>4. q = [m EXCEPT !.pins[s] = @ - 1]
    BY <2>1, <2>2 DEF MarkReady, Unpin
  <2>5. "recency" \in DOMAIN m
    BY <1>3, <2>1 DEF Publish
  <2>6. q.recency = m.recency
    BY <2>4, <2>5
  <2> QED BY <2>3, <2>6
<1>5. p.recency \in Seq(1..Slots) /\ IsInjective(p.recency)
  BY <1>1, SoundSlots
<1>6. \A u \in 1..Slots : u # s => q.state[u] = p.state[u] /\ p.state[u] # Ready(k)
  <2>1. \A u \in 1..Slots : p.state[u] # Ready(k)
    BY <1>1, SoundSlots
  <2>2. \A u \in 1..Slots : u # s => q.state[u] = p.state[u]
    BY <1>2 DEF OthersKept
  <2> QED BY <2>1, <2>2
<1>7. ASSUME NEW W, Fresh(p, W) PROVE Fresh(q, W \cup {k})
  <2>1. Ordered(q.recency, ReadySlots(p, W) \cup {s})
    <3>1. PICK F : F = ReadySlots(p, W)
      OBVIOUS
    <3>2. Ordered(p.recency, F)
      BY <1>7, <3>1 DEF Fresh
    <3>3. Ordered(Accessed(p, s), F \cup {s})
      BY <1>1, <1>5, <3>2, AccessedOrder
    <3> QED BY <1>4, <3>1, <3>3
  <2>2. ReadySlots(q, W \cup {k}) = ReadySlots(p, W) \cup {s}
    BY <1>2, <1>6, ReadySlotAdded
  <2> QED BY <2>1, <2>2 DEF Fresh
<1> QED BY <1>2, <1>7

(* A lookup makes a page the most recently used one. *)
LEMMA LookedUpFresh ==
  ASSUME NEW p, Sound(p, Slots), NEW k, Visible(p, k), NEW q, q = Lookup(p, k)
  PROVE  /\ Sound(q, Slots) /\ q.state = p.state /\ q.pins = p.pins /\ q.index = p.index
         /\ \A W : Fresh(p, W) => Fresh(q, W \cup {k})
<1>1. Slots \in Nat
  BY LoaderAssumption
<1>2. PICK s : s = p.index[k]
  OBVIOUS
<1>3. q = Touch(p, s)
  BY <1>2 DEF Lookup
<1>4. /\ Sound(q, Slots) /\ q.state = p.state /\ q.index = p.index /\ q.pins = p.pins
  BY <1>1, <1>2, <1>3, TouchedSlot
<1>5. p = [state |-> p.state, recency |-> p.recency, pins |-> p.pins,
           generation |-> p.generation, index |-> p.index, n_loaded |-> p.n_loaded]
  BY <1>1, SlotsOfPool DEF Sound
<1>6. q.recency = Accessed(p, s)
  BY <1>3, <1>5 DEF Touch
<1>7. /\ p.recency \in Seq(1..Slots) /\ IsInjective(p.recency)
      /\ s \in 1..Slots /\ k \in Key /\ p.state[s] = Ready(k)
  BY <1>1, <1>2, SoundSlots
<1>8. \A u \in 1..Slots : u # s => p.state[u] # Ready(k)
  BY <1>1, <1>2, <1>7, SoundSlots
<1>9. ASSUME NEW W, Fresh(p, W) PROVE Fresh(q, W \cup {k})
  <2>1. Ordered(q.recency, ReadySlots(p, W) \cup {s})
    <3>1. PICK F : F = ReadySlots(p, W)
      OBVIOUS
    <3>2. Ordered(p.recency, F)
      BY <1>9, <3>1 DEF Fresh
    <3>3. Ordered(Accessed(p, s), F \cup {s})
      BY <1>1, <1>7, <3>2, AccessedOrder
    <3> QED BY <1>6, <3>1, <3>3
  <2>2. ReadySlots(q, W \cup {k}) = ReadySlots(p, W) \cup {s}
    <3>1. \A u \in 1..Slots : u # s => q.state[u] = p.state[u] /\ p.state[u] # Ready(k)
      BY <1>4, <1>8
    <3>2. q.state[s] = Ready(k)
      BY <1>4, <1>7
    <3>3. s \in 1..Slots
      BY <1>7
    <3> QED BY <3>1, <3>2, <3>3, ReadySlotAdded, SMTT(60)
  <2> QED BY <2>1, <2>2 DEF Fresh
<1> QED BY <1>4, <1>9

(* A reservation takes its slot out of the access order. *)
LEMMA ReservedFresh ==
  ASSUME NEW p, Sound(p, Slots), NEW k \in Key, CanReserve(p, k),
         NEW r, r = Reserve(p, k), NEW t, t = SlotFor(p)
  PROVE  /\ t \in 1..Slots
         /\ p.state[t] = Empty \/ \E l \in Key : p.state[t] = Ready(l)
         /\ Sound(r, Slots) /\ OthersKept(p, r, Slots, t)
         /\ r.state[t] = Loading(k) /\ r.pins[t] = 0
         /\ \A W : Fresh(p, W) => Fresh(r, W \cup {k})
<1>1. Slots \in Nat
  BY LoaderAssumption
<1>2. /\ t \in 1..Slots
      /\ p.state[t] = Empty \/ \E l \in Key : p.state[t] = Ready(l)
      /\ Sound(r, Slots) /\ OthersKept(p, r, Slots, t)
      /\ r.state[t] = Loading(k) /\ r.pins[t] = 0
  BY <1>1, Reserved
<1>3. p = [state |-> p.state, recency |-> p.recency, pins |-> p.pins,
           generation |-> p.generation, index |-> p.index, n_loaded |-> p.n_loaded]
  BY <1>1, SlotsOfPool DEF Sound
<1>4. r.recency = Forgotten(p, t)
  BY <1>3, Zenon DEF Reserve
<1>5. p.recency \in Seq(1..Slots) /\ IsInjective(p.recency)
  BY <1>1, SoundSlots
<1>6. r.recency \in Seq(1..Slots) /\ Range(r.recency) = Range(p.recency) \ {t}
      /\ \A u \in Range(r.recency) : u \in 1..Slots
  BY <1>1, <1>2, <1>4, <1>5, ForgottenSlot, SoundSlots
<1>7. \A u \in 1..Slots : r.state[u] # Ready(k)
  <2>1. \A u \in 1..Slots : p.state[u] # Ready(k)
    BY <1>1, SoundSlots DEF CanReserve
  <2>2. r.state[t] # Ready(k)
    BY <1>2, StatesDiffer
  <2> QED BY <1>2, <2>1, <2>2 DEF OthersKept
<1>8. ASSUME NEW W, Fresh(p, W) PROVE Fresh(r, W \cup {k})
  <2>1. Ordered(r.recency, ReadySlots(p, W))
    BY <1>1, <1>4, <1>5, <1>8, ForgottenOrder DEF Fresh
  <2>2. \A u \in Range(r.recency) : u \in ReadySlots(p, W) <=> u \in ReadySlots(r, W \cup {k})
    <3> SUFFICES ASSUME NEW u \in Range(r.recency)
                 PROVE  u \in ReadySlots(p, W) <=> u \in ReadySlots(r, W \cup {k})
      OBVIOUS
    <3>1. u \in 1..Slots /\ u # t /\ r.state[u] = p.state[u] /\ r.state[u] # Ready(k)
      BY <1>2, <1>6, <1>7 DEF OthersKept
    <3> QED BY <3>1 DEF ReadySlots
  <2> QED BY <1>6, <2>1, <2>2, SameOrder DEF Fresh
<1> QED BY <1>2, <1>8

(* A cancelled reservation leaves its slot Empty and the access order as it
   is. *)
LEMMA CancelledFresh ==
  ASSUME NEW p, Sound(p, Slots), NEW s \in 1..Slots, NEW k \in Key, p.state[s] = Loading(k),
         NEW r, r = CancelLoading(p, s, k)
  PROVE  /\ Sound(r, Slots) /\ OthersKept(p, r, Slots, s)
         /\ r.state[s] = Empty /\ r.pins[s] = 0
         /\ \A W : Fresh(p, W) => Fresh(r, W)
<1>1. Slots \in Nat
  BY LoaderAssumption
<1>2. r = Cancel(p, s)
  BY DEF CancelLoading
<1>3. Sound(r, Slots) /\ OthersKept(p, r, Slots, s) /\ r.state[s] = Empty /\ r.pins[s] = 0
  BY <1>1, <1>2, Cancelled
<1>4. p = [state |-> p.state, recency |-> p.recency, pins |-> p.pins,
           generation |-> p.generation, index |-> p.index, n_loaded |-> p.n_loaded]
  BY <1>1, SlotsOfPool DEF Sound
<1>5. r.recency = p.recency
  BY <1>2, <1>4 DEF Cancel
<1>6. \A W : ReadySlots(r, W) = ReadySlots(p, W)
  <2>1. \A l : r.state[s] # Ready(l) /\ p.state[s] # Ready(l)
    BY <1>3, StatesDiffer
  <2> QED BY <1>3, <2>1 DEF ReadySlots, OthersKept
<1> QED BY <1>3, <1>5, <1>6 DEF Fresh

(* Who holds a page: a page has one slot. *)
LEMMA OneSlotPerPage ==
  ASSUME NEW p, Sound(p, Slots), NEW s \in 1..Slots, NEW u \in 1..Slots, NEW k \in Key,
         p.state[s] \in {Loading(k), Ready(k)}, p.state[u] \in {Loading(k), Ready(k)}
  PROVE  s = u
<1>1. Slots \in Nat
  BY LoaderAssumption
<1>2. CASE p.state[s] = Loading(k)
  <2>1. ~Visible(p, k) /\ \A v \in 1..Slots : p.state[v] = Loading(k) => v = s
    BY <1>1, <1>2, SoundSlots
  <2>2. p.state[u] # Ready(k)
    BY <1>1, <2>1, SoundSlots
  <2> QED BY <2>1, <2>2
<1>3. CASE p.state[s] = Ready(k)
  <2>1. Visible(p, k) /\ p.index[k] = s
    BY <1>1, <1>3, SoundSlots
  <2>2. p.state[u] # Loading(k)
    BY <1>1, <2>1, SoundSlots
  <2>3. p.state[u] = Ready(k)
    BY <2>2
  <2> QED BY <1>1, <2>1, <2>3, SoundSlots
<1> QED BY <1>2, <1>3

(* The pages of W cannot fill the pool when there is room for one more
   page. *)
LEMMA RoomLeft ==
  ASSUME NEW p, Sound(p, Slots), NEW k \in Key, NEW W \in SUBSET Key,
         IsFiniteSet(W \cup {k}), Cardinality(W \cup {k}) <= Slots,
         \A s \in 1..Slots : p.state[s] \notin {Loading(k), Ready(k)}
  PROVE  \E s \in 1..Slots : \A w \in W : p.state[s] \notin {Loading(w), Ready(w)}
<1>1. Slots \in Nat
  BY LoaderAssumption
<1> SUFFICES ASSUME \A s \in 1..Slots : \E w \in W : p.state[s] \in {Loading(w), Ready(w)}
             PROVE  FALSE
  OBVIOUS
<1>2. PICK V : V = W \ {k}
  OBVIOUS
<1>3. \A s \in 1..Slots : \E w \in V : p.state[s] \in {Loading(w), Ready(w)}
  BY <1>2
<1>4. PICK f : f = [s \in 1..Slots |-> CHOOSE w \in V : p.state[s] \in {Loading(w), Ready(w)}]
  OBVIOUS
<1>5. f \in [1..Slots -> V] /\ \A s \in 1..Slots : p.state[s] \in {Loading(f[s]), Ready(f[s])}
  <2>1. \A s \in 1..Slots : f[s] \in V /\ p.state[s] \in {Loading(f[s]), Ready(f[s])}
    BY <1>3, <1>4
  <2> QED BY <1>4, <2>1
<1>6. \A s, u \in 1..Slots : f[s] = f[u] => s = u
  <2> SUFFICES ASSUME NEW s \in 1..Slots, NEW u \in 1..Slots, f[s] = f[u] PROVE s = u
    OBVIOUS
  <2>1. f[s] \in Key
    BY <1>2, <1>5
  <2>2. p.state[s] \in {Loading(f[s]), Ready(f[s])} /\ p.state[u] \in {Loading(f[s]), Ready(f[s])}
    BY <1>5
  <2> QED BY <2>1, <2>2, OneSlotPerPage
<1>7. f \in Injection(1..Slots, V)
  BY <1>5, <1>6 DEF Injection, IsInjective
<1>8. IsFiniteSet(V) /\ Cardinality(V) <= Slots - 1
  <2>1. IsFiniteSet(V)
    BY <1>2, FS_Subset
  <2>2. V \cup {k} = W \cup {k} /\ k \notin V
    BY <1>2
  <2>3. Cardinality(W \cup {k}) = Cardinality(V) + 1
    BY <2>1, <2>2, FS_AddElement
  <2>4. Cardinality(V) \in Nat
    BY <2>1, FS_CardinalityType
  <2> QED BY <1>1, <2>1, <2>3, <2>4
<1>9. Cardinality(1..Slots) = Slots
  <2>1. PICK n : n = Slots
    OBVIOUS
  <2>2. n \in Int /\ 1 \in Int /\ (IF 1 > n THEN 0 ELSE n - 1 + 1) = n
    BY <1>1, <2>1
  <2>3. Cardinality(1..n) = n
    BY <2>2, FS_Interval
  <2> QED BY <2>1, <2>3
<1>10. Cardinality(1..Slots) <= Cardinality(V) /\ Cardinality(V) \in Nat
  BY <1>7, <1>8, FS_Injection, FS_CardinalityType
<1> QED BY <1>1, <1>8, <1>9, <1>10

(* The slot a load takes is not one of the pages W, when those are the most
   recently used ones and leave room for one more. *)
LEMMA VictimIsOld ==
  ASSUME NEW p, Sound(p, Slots), \A s \in 1..Slots : p.pins[s] = 0,
         NEW k \in Key, CanReserve(p, k), NEW W \in SUBSET Key,
         IsFiniteSet(W \cup {k}), Cardinality(W \cup {k}) <= Slots, Fresh(p, W), Awaited(p, W)
  PROVE  \A w \in W : p.state[SlotFor(p)] \notin {Loading(w), Ready(w)}
<1>1. Slots \in Nat /\ SlotsOf(p) = 1..Slots
  BY LoaderAssumption, SlotsOfPool DEF Sound
<1>2. ~Visible(p, k) /\ ~IsLoading(p, k) /\ EmptySlots(p) \cup Evictable(p) # {}
  BY DEF CanReserve
<1>3. PICK t : t = SlotFor(p)
  OBVIOUS
<1>4. CASE EmptySlots(p) # {}
  <2>1. EmptySlots(p) \subseteq 1..Slots /\ \A s \in EmptySlots(p) : p.state[s] = Empty
    BY <1>1 DEF EmptySlots
  <2>2. \E s \in EmptySlots(p) : \A u \in EmptySlots(p) : s <= u
    <3>1. 1..Slots \subseteq Nat
      BY <1>1
    <3> QED BY <1>4, <2>1, <3>1, LeastElement
  <2>3. t \in EmptySlots(p)
    BY <1>3, <1>4, <2>2 DEF SlotFor
  <2> QED BY <1>3, <2>1, <2>3, StatesDiffer
<1>5. CASE EmptySlots(p) = {}
  <2>1. PICK q : q = p.recency
    OBVIOUS
  <2>2. /\ q \in Seq(1..Slots) /\ DOMAIN q = 1..Len(q) /\ Len(q) \in Nat
        /\ \A s : s \in Range(q) <=> s \in 1..Slots /\ \E l \in Key : p.state[s] = Ready(l)
    BY <1>1, <2>1, SoundSlots, LenProperties
  <2>3. \A i \in 1..Len(q) : q[i] \in Range(q) /\ q[i] \in Evictable(p)
    <3>1. \A i \in 1..Len(q) : q[i] \in Range(q)
      BY <2>2 DEF Range
    <3>2. \A s \in Range(q) : s \in SlotsOf(p) /\ p.state[s].tag = "Ready" /\ p.pins[s] = 0
      BY <1>1, <2>2, Tags
    <3> QED BY <3>1, <3>2 DEF Evictable
  <2>4. PICK I : I = {i \in 1..Len(q) : q[i] \in Evictable(p)}
    OBVIOUS
  <2>5. I = 1..Len(q)
    BY <2>3, <2>4
  <2>6. 1 \in 1..Len(q)
    <3>1. PICK s \in Evictable(p) : TRUE
      BY <1>2, <1>5
    <3>2. s \in 1..Slots /\ \E l \in Key : p.state[s] = Ready(l)
      <4>1. s \in 1..Slots /\ p.state[s].tag = "Ready"
        BY <1>1 DEF Evictable
      <4>2. p.state[s] \in SlotState
        BY <1>1, <4>1, SlotsOfPool DEF Sound
      <4> QED BY <4>1, <4>2, Tags
    <3>3. s \in Range(q)
      BY <2>2, <3>2
    <3>4. PICK i \in 1..Len(q) : q[i] = s
      BY <2>2, <3>3 DEF Range
    <3> QED BY <2>2, <3>4
  <2>7. Min(I) = 1
    <3>1. I # {} /\ I \in SUBSET Nat /\ 1 \in I /\ \A i \in I : i >= 1
      BY <2>2, <2>5, <2>6
    <3>2. \E i \in I : \A j \in I : i <= j
      BY <3>1
    <3>3. Min(I) \in I /\ \A j \in I : Min(I) <= j
      BY <3>2 DEF Min
    <3>4. PICK m : m = Min(I)
      OBVIOUS
    <3>5. m \in Nat /\ m <= 1 /\ m >= 1
      BY <3>1, <3>3, <3>4
    <3> QED BY <3>4, <3>5
  <2>8. t = q[1]
    <3>1. t = q[IF I # {} THEN Min(I) ELSE 0]
      BY <1>3, <1>5, <2>1, <2>4, Zenon DEF SlotFor, SelectInSeq
    <3> QED BY <2>5, <2>6, <2>7, <3>1
  <2>9. PICK F : F = ReadySlots(p, W)
    OBVIOUS
  <2>10. \A i, j \in 1..Len(q) : i < j /\ q[i] \in F => q[j] \in F
    BY <2>1, <2>9 DEF Fresh, Ordered
  <2>11. t \notin F
    <3> SUFFICES ASSUME t \in F PROVE FALSE
      OBVIOUS
    <3>1. \A i \in 1..Len(q) : q[i] \in F
      <4> SUFFICES ASSUME NEW i \in 1..Len(q) PROVE q[i] \in F
        OBVIOUS
      <4>1. i = 1 \/ 1 < i
        BY <2>2
      <4> QED BY <2>6, <2>8, <2>10, <4>1
    <3>2. \A s \in 1..Slots : \E w \in W : p.state[s] \in {Loading(w), Ready(w)}
      <4> SUFFICES ASSUME NEW s \in 1..Slots
                   PROVE  \E w \in W : p.state[s] \in {Loading(w), Ready(w)}
        OBVIOUS
      <4>1. p.state[s] \in SlotState /\ p.state[s] # Empty
        BY <1>1, <1>5, SlotsOfPool DEF Sound, EmptySlots
      <4>2. CASE \E l \in Key : p.state[s] = Loading(l)
        BY <4>2 DEF Awaited
      <4>3. CASE \E l \in Key : p.state[s] = Ready(l)
        <5>1. s \in Range(q)
          BY <2>2, <4>3
        <5>2. s \in F
          BY <2>2, <3>1, <5>1 DEF Range
        <5> QED BY <2>9, <5>2 DEF ReadySlots
      <4> QED BY <4>1, <4>2, <4>3, SlotStates
    <3>3. \A s \in 1..Slots : p.state[s] \notin {Loading(k), Ready(k)}
      <4>1. \A s \in 1..Slots : p.state[s] # Ready(k)
        BY <1>1, <1>2, SoundSlots
      <4>2. \A s \in 1..Slots : p.state[s] # Loading(k)
        BY <1>1, <1>2 DEF IsLoading
      <4> QED BY <4>1, <4>2
    <3> QED BY <3>2, <3>3, RoomLeft
  <2>12. t \in 1..Slots /\ \E l \in Key : p.state[t] = Ready(l)
    BY <2>2, <2>3, <2>6, <2>8
  <2> QED BY <1>3, <2>9, <2>11, <2>12, StatesDiffer DEF ReadySlots
<1> QED BY <1>4, <1>5

-----------------------------------------------------------------------------
(* The ring *)

(* A pending transfer names a page and a slot. *)
LEMMA PendingTransfers ==
  ASSUME NEW p, NEW pend, NEW mem, NEW stg, NEW fen, NEW que,
         RingOK(p, pend, mem, stg, fen, que), NEW i \in Ring, pend[i] # NoTransfer
  PROVE  /\ pend[i].key \in Key /\ pend[i].slot \in 1..Slots
         /\ p.state[pend[i].slot] = Loading(pend[i].key)
BY DEF RingOK, Carried, Transfer

(* A copy that the GPU executes fills the slot of its transfer. *)
LEMMA CopyExecuted ==
  ASSUME NEW p, NEW pend, NEW mem, NEW stg, NEW fen, NEW que,
         RingOK(p, pend, mem, stg, fen, que), NEW i, NEW s, <<i, s>> \in que,
         NEW mem2, mem2 = [mem EXCEPT ![s] = stg[i]], NEW fen2, fen2 = [fen EXCEPT ![i] = TRUE],
         NEW que2, que2 = que \ {<<i, s>>}
  PROVE  RingOK(p, pend, mem2, stg, fen2, que2)
<1>1. /\ RingTyped(pend, mem, stg, fen) /\ Carried(p, pend, mem, stg, fen, que)
      /\ Matched(p, pend) /\ Flying(pend, que) /\ Filled(p, mem)
  BY DEF RingOK
<1>2. i \in Ring /\ s \in 1..Slots /\ pend[i] # NoTransfer /\ pend[i].slot = s
  <2>1. PICK c : c = <<i, s>>
    OBVIOUS
  <2>2. c \in Ring \X (1..Slots) /\ pend[c[1]] # NoTransfer /\ pend[c[1]].slot = c[2]
    BY <1>1, <2>1 DEF Flying
  <2> QED BY <2>1, <2>2
<1>3. PICK k : k = pend[i].key
  OBVIOUS
<1>4. k \in Key /\ p.state[s] = Loading(k) /\ stg[i] = k
  BY <1>1, <1>2, <1>3 DEF Carried, Transfer, RingTyped
<1>5. /\ mem2 \in [1..Slots -> Key \cup {Garbage}] /\ mem2[s] = k
      /\ \A u \in 1..Slots : u # s => mem2[u] = mem[u]
      /\ fen2 \in [Ring -> BOOLEAN] /\ fen2[i] /\ \A j \in Ring : j # i => fen2[j] = fen[j]
  BY <1>1, <1>2, <1>4 DEF RingTyped
<1>6. RingTyped(pend, mem2, stg, fen2)
  BY <1>1, <1>5 DEF RingTyped
<1>7. Carried(p, pend, mem2, stg, fen2, que2)
  <2> SUFFICES ASSUME NEW j \in Ring, pend[j] # NoTransfer
               PROVE  /\ pend[j] \in Transfer
                      /\ p.state[pend[j].slot] = Loading(pend[j].key)
                      /\ fen2[j] <=> <<j, pend[j].slot>> \notin que2
                      /\ ~fen2[j] => stg[j] = pend[j].key
                      /\ fen2[j] => mem2[pend[j].slot] = pend[j].key
    BY DEF Carried
  <2>1. /\ pend[j] \in Transfer /\ p.state[pend[j].slot] = Loading(pend[j].key)
        /\ fen[j] <=> <<j, pend[j].slot>> \notin que
        /\ ~fen[j] => stg[j] = pend[j].key
        /\ fen[j] => mem[pend[j].slot] = pend[j].key
    BY <1>1 DEF Carried
  <2>2. CASE j = i
    BY <1>2, <1>3, <1>5, <2>1, <2>2
  <2>3. CASE j # i
    <3>1. pend[j].slot # s
      BY <1>1, <1>2, <2>3 DEF Matched
    <3>2. pend[j].slot \in 1..Slots
      BY <2>1 DEF Transfer
    <3>3. fen2[j] = fen[j] /\ mem2[pend[j].slot] = mem[pend[j].slot]
      BY <1>5, <2>3, <3>1, <3>2
    <3>4. <<j, pend[j].slot>> \in que2 <=> <<j, pend[j].slot>> \in que
      BY <2>3
    <3> QED BY <2>1, <3>3, <3>4
  <2> QED BY <2>2, <2>3
<1>8. Flying(pend, que2)
  BY <1>1 DEF Flying
<1>9. Filled(p, mem2)
  <2>1. \A l : p.state[s] # Ready(l)
    BY <1>4, StatesDiffer
  <2> QED BY <1>1, <1>5, <2>1 DEF Filled
<1> QED BY <1>1, <1>6, <1>7, <1>8, <1>9 DEF RingOK

(* From p to q loads end, and every page stays where it is. *)
Settles(p, q) ==
  \A s \in 1..Slots, k \in Key :
    /\ HeldIn(p, s, k) <=> HeldIn(q, s, k)
    /\ p.state[s] = Ready(k) => q.state[s] = Ready(k)

(* Loads that end let nothing be awaited that was not. *)
LEMMA SettledAwaits ==
  ASSUME NEW p, NEW q, Settles(p, q), NEW W, Awaited(p, W)
  PROVE  Awaited(q, W)
<1> SUFFICES ASSUME NEW s \in 1..Slots, NEW k \in Key, q.state[s] = Loading(k)
             PROVE  k \in W
  BY DEF Awaited
<1>1. HeldIn(q, s, k)
  BY DEF HeldIn
<1>2. HeldIn(p, s, k)
  BY <1>1 DEF Settles
<1>3. p.state[s] # Ready(k)
  BY StatesDiffer DEF Settles
<1> QED BY <1>2, <1>3 DEF HeldIn, Awaited

(* mark_ready ends one load. *)
LEMMA MarkedSettles ==
  ASSUME NEW p, Sound(p, Slots), NEW s \in 1..Slots, NEW k \in Key, p.state[s] = Loading(k)
  PROVE  Settles(p, MarkReady(p, s, k))
<1>1. PICK q : q = MarkReady(p, s, k)
  OBVIOUS
<1>2. OthersKept(p, q, Slots, s) /\ q.state[s] = Ready(k)
  BY <1>1, MarkedFresh
<1>3. Settles(p, q)
  <2> SUFFICES ASSUME NEW u \in 1..Slots, NEW l \in Key
               PROVE  /\ p.state[u] \in {Loading(l), Ready(l)} <=> q.state[u] \in {Loading(l), Ready(l)}
                      /\ p.state[u] = Ready(l) => q.state[u] = Ready(l)
    BY DEF Settles, HeldIn
  <2>1. CASE u = s
    BY <1>2, <2>1, StatesDiffer
  <2>2. CASE u # s
    BY <1>2, <2>2 DEF OthersKept
  <2> QED BY <2>1, <2>2
<1> QED BY <1>1, <1>3

(* complete_pipeline_slot: a transfer whose fence is signaled makes its page
   visible, with its bytes. *)
LEMMA TransferCompleted ==
  ASSUME NEW p, NEW pend, NEW mem, NEW stg, NEW fen, NEW que,
         RingOK(p, pend, mem, stg, fen, que), NEW i \in Ring, pend[i] # NoTransfer, fen[i] = TRUE
  PROVE  LET q == MarkReady(p, pend[i].slot, pend[i].key) IN
         /\ RingOK(q, [pend EXCEPT ![i] = NoTransfer], mem, stg, fen, que)
         /\ \A W : Fresh(p, W) => Fresh(q, W \cup {pend[i].key})
<1>0. PICK q, pend2 : /\ q = MarkReady(p, pend[i].slot, pend[i].key)
                      /\ pend2 = [pend EXCEPT ![i] = NoTransfer]
  OBVIOUS
<1>1. /\ RingTyped(pend, mem, stg, fen) /\ Carried(p, pend, mem, stg, fen, que)
      /\ Matched(p, pend) /\ Flying(pend, que) /\ Filled(p, mem)
      /\ Sound(p, Slots) /\ \A u \in 1..Slots : p.pins[u] = 0
  BY DEF RingOK
<1>2. PICK s, k : s = pend[i].slot /\ k = pend[i].key
  OBVIOUS
<1>3. s \in 1..Slots /\ k \in Key /\ p.state[s] = Loading(k)
  BY <1>2, PendingTransfers
<1>4. mem[s] = k /\ <<i, s>> \notin que
  BY <1>1, <1>2 DEF Carried
<1>5. /\ Sound(q, Slots) /\ OthersKept(p, q, Slots, s) /\ q.state[s] = Ready(k) /\ q.pins[s] = 0
      /\ \A W : Fresh(p, W) => Fresh(q, W \cup {k})
  BY <1>0, <1>1, <1>2, <1>3, MarkedFresh
<1>6. /\ \A u \in 1..Slots : u # s => q.state[u] = p.state[u]
      /\ \A u \in 1..Slots : q.pins[u] = 0
  BY <1>1, <1>5 DEF OthersKept
<1>7. /\ pend2 \in [Ring -> Transfer \cup {NoTransfer}] /\ pend2[i] = NoTransfer
      /\ \A j \in Ring : j # i => pend2[j] = pend[j]
  BY <1>0, <1>1 DEF RingTyped
<1>8. RingTyped(pend2, mem, stg, fen)
  BY <1>1, <1>7 DEF RingTyped
<1>9. Carried(q, pend2, mem, stg, fen, que)
  <2> SUFFICES ASSUME NEW j \in Ring, pend2[j] # NoTransfer
               PROVE  /\ pend2[j] \in Transfer
                      /\ q.state[pend2[j].slot] = Loading(pend2[j].key)
                      /\ fen[j] <=> <<j, pend2[j].slot>> \notin que
                      /\ ~fen[j] => stg[j] = pend2[j].key
                      /\ fen[j] => mem[pend2[j].slot] = pend2[j].key
    BY DEF Carried
  <2>1. j # i /\ pend2[j] = pend[j]
    BY <1>7
  <2>2. pend[j].slot \in 1..Slots /\ pend[j].slot # s
    BY <1>1, <1>2, <2>1, PendingTransfers DEF Matched
  <2>3. q.state[pend[j].slot] = p.state[pend[j].slot]
    BY <1>6, <2>2
  <2> QED BY <1>1, <2>1, <2>3 DEF Carried
<1>10. Matched(q, pend2)
  <2>1. \A j, l \in Ring : pend2[j] # NoTransfer /\ pend2[l] # NoTransfer
                             /\ pend2[j].slot = pend2[l].slot => j = l
    BY <1>1, <1>7 DEF Matched
  <2>2. ASSUME NEW u \in 1..Slots, NEW l \in Key, q.state[u] = Loading(l)
        PROVE  \E j \in Ring : pend2[j] # NoTransfer /\ pend2[j].slot = u
    <3>1. u # s
      BY <1>5, <2>2, StatesDiffer
    <3>2. p.state[u] = Loading(l)
      BY <1>6, <2>2, <3>1
    <3>3. PICK j \in Ring : pend[j] # NoTransfer /\ pend[j].slot = u
      BY <1>1, <3>2 DEF Matched
    <3>4. j # i
      BY <1>2, <3>1, <3>3
    <3> QED BY <1>7, <3>3, <3>4
  <2> QED BY <2>1, <2>2 DEF Matched
<1>11. Flying(pend2, que)
  <2> SUFFICES ASSUME NEW c \in que
               PROVE  c \in Ring \X (1..Slots) /\ pend2[c[1]] # NoTransfer /\ pend2[c[1]].slot = c[2]
    BY DEF Flying
  <2>1. c \in Ring \X (1..Slots) /\ pend[c[1]] # NoTransfer /\ pend[c[1]].slot = c[2]
    BY <1>1 DEF Flying
  <2>2. c = <<c[1], c[2]>> /\ c[1] \in Ring
    BY <2>1
  <2>3. c[1] # i
    BY <1>2, <1>4, <2>1, <2>2
  <2> QED BY <1>7, <2>1, <2>2, <2>3
<1>12. Filled(q, mem)
  <2> SUFFICES ASSUME NEW u \in 1..Slots, NEW l \in Key, q.state[u] = Ready(l) PROVE mem[u] = l
    BY DEF Filled
  <2>1. CASE u = s
    <3>1. l = k
      BY <1>5, <2>1, StatesDiffer
    <3> QED BY <1>4, <2>1, <3>1
  <2>2. CASE u # s
    BY <1>1, <1>6, <2>2 DEF Filled
  <2> QED BY <2>1, <2>2
<1>13. RingOK(q, pend2, mem, stg, fen, que)
  BY <1>5, <1>6, <1>8, <1>9, <1>10, <1>11, <1>12 DEF RingOK
<1> QED BY <1>0, <1>2, <1>5, <1>13

(* A load in a free ring slot: a transfer for the reserved slot, a copy in the
   queue, and a fence that waits for it. *)
LEMMA TransferSubmitted ==
  ASSUME NEW p, NEW pend, NEW mem, NEW stg, NEW fen, NEW que,
         RingOK(p, pend, mem, stg, fen, que), NEW i \in Ring, pend[i] = NoTransfer,
         NEW k \in Key, CanReserve(p, k), NEW r, r = Reserve(p, k), NEW t, t = SlotFor(p),
         NEW pend2, pend2 = [pend EXCEPT ![i] = [key |-> k, slot |-> t]],
         NEW stg2, stg2 = [stg EXCEPT ![i] = k], NEW fen2, fen2 = [fen EXCEPT ![i] = FALSE],
         NEW que2, que2 = que \cup {<<i, t>>}
  PROVE  RingOK(r, pend2, mem, stg2, fen2, que2)
<1>1. /\ RingTyped(pend, mem, stg, fen) /\ Carried(p, pend, mem, stg, fen, que)
      /\ Matched(p, pend) /\ Flying(pend, que) /\ Filled(p, mem)
      /\ Sound(p, Slots) /\ \A u \in 1..Slots : p.pins[u] = 0
  BY DEF RingOK
<1>2. /\ t \in 1..Slots
      /\ p.state[t] = Empty \/ \E l \in Key : p.state[t] = Ready(l)
      /\ Sound(r, Slots) /\ OthersKept(p, r, Slots, t)
      /\ r.state[t] = Loading(k) /\ r.pins[t] = 0
  BY <1>1, ReservedFresh
<1>3. /\ \A u \in 1..Slots : u # t => r.state[u] = p.state[u]
      /\ \A u \in 1..Slots : r.pins[u] = 0
  BY <1>1, <1>2 DEF OthersKept
<1>4. PICK x : x = [key |-> k, slot |-> t]
  OBVIOUS
<1>5. x \in Transfer /\ x.key = k /\ x.slot = t /\ x # NoTransfer
  BY <1>2, <1>4, NoneAssumption DEF Transfer
<1>6. /\ pend2 \in [Ring -> Transfer \cup {NoTransfer}] /\ pend2[i] = x
      /\ \A j \in Ring : j # i => pend2[j] = pend[j]
  BY <1>1, <1>4, <1>5 DEF RingTyped
<1>7. /\ stg2 \in [Ring -> Key \cup {Garbage}] /\ stg2[i] = k
      /\ \A j \in Ring : j # i => stg2[j] = stg[j]
      /\ fen2 \in [Ring -> BOOLEAN] /\ fen2[i] = FALSE
      /\ \A j \in Ring : j # i => fen2[j] = fen[j]
  BY <1>1 DEF RingTyped
<1>8. \A j \in Ring : pend[j] # NoTransfer => pend[j].slot \in 1..Slots /\ pend[j].slot # t
  <2> SUFFICES ASSUME NEW j \in Ring, pend[j] # NoTransfer
               PROVE  pend[j].slot \in 1..Slots /\ pend[j].slot # t
    OBVIOUS
  <2>1. pend[j].slot \in 1..Slots /\ p.state[pend[j].slot] = Loading(pend[j].key)
    BY PendingTransfers
  <2> QED BY <1>2, <2>1, StatesDiffer
<1>9. \A c \in que : c[1] # i
  BY <1>1 DEF Flying
<1>10. RingTyped(pend2, mem, stg2, fen2)
  BY <1>1, <1>6, <1>7 DEF RingTyped
<1>11. Carried(r, pend2, mem, stg2, fen2, que2)
  <2> SUFFICES ASSUME NEW j \in Ring, pend2[j] # NoTransfer
               PROVE  /\ pend2[j] \in Transfer
                      /\ r.state[pend2[j].slot] = Loading(pend2[j].key)
                      /\ fen2[j] <=> <<j, pend2[j].slot>> \notin que2
                      /\ ~fen2[j] => stg2[j] = pend2[j].key
                      /\ fen2[j] => mem[pend2[j].slot] = pend2[j].key
    BY DEF Carried
  <2>1. CASE j = i
    BY <1>2, <1>5, <1>6, <1>7, <2>1
  <2>2. CASE j # i
    <3>1. pend2[j] = pend[j] /\ stg2[j] = stg[j] /\ fen2[j] = fen[j]
      BY <1>6, <1>7, <2>2
    <3>2. r.state[pend[j].slot] = p.state[pend[j].slot]
      BY <1>3, <1>8, <3>1
    <3>3. <<j, pend[j].slot>> \in que2 <=> <<j, pend[j].slot>> \in que
      BY <2>2
    <3> QED BY <1>1, <3>1, <3>2, <3>3 DEF Carried
  <2> QED BY <2>1, <2>2
<1>12. Matched(r, pend2)
  <2>1. ASSUME NEW j \in Ring, NEW l \in Ring, pend2[j] # NoTransfer, pend2[l] # NoTransfer,
               pend2[j].slot = pend2[l].slot
        PROVE  j = l
    <3>1. CASE j = i /\ l # i
      BY <1>5, <1>6, <1>8, <2>1, <3>1
    <3>2. CASE j # i /\ l = i
      BY <1>5, <1>6, <1>8, <2>1, <3>2
    <3>3. CASE j # i /\ l # i
      BY <1>1, <1>6, <2>1, <3>3 DEF Matched
    <3> QED BY <3>1, <3>2, <3>3
  <2>2. ASSUME NEW u \in 1..Slots, NEW l \in Key, r.state[u] = Loading(l)
        PROVE  \E j \in Ring : pend2[j] # NoTransfer /\ pend2[j].slot = u
    <3>1. CASE u = t
      BY <1>5, <1>6, <3>1
    <3>2. CASE u # t
      <4>1. PICK j \in Ring : pend[j] # NoTransfer /\ pend[j].slot = u
        BY <1>1, <1>3, <2>2, <3>2 DEF Matched
      <4>2. j # i
        BY <4>1
      <4> QED BY <1>6, <4>1, <4>2
    <3> QED BY <3>1, <3>2
  <2> QED BY <2>1, <2>2 DEF Matched
<1>13. Flying(pend2, que2)
  <2> SUFFICES ASSUME NEW c \in que2
               PROVE  c \in Ring \X (1..Slots) /\ pend2[c[1]] # NoTransfer /\ pend2[c[1]].slot = c[2]
    BY DEF Flying
  <2>1. CASE c = <<i, t>>
    BY <1>2, <1>5, <1>6, <2>1
  <2>2. CASE c \in que
    <3>1. c \in Ring \X (1..Slots) /\ pend[c[1]] # NoTransfer /\ pend[c[1]].slot = c[2]
      BY <1>1, <2>2 DEF Flying
    <3>2. c[1] \in Ring /\ c[1] # i
      BY <1>9, <2>2, <3>1
    <3> QED BY <1>6, <3>1, <3>2
  <2> QED BY <2>1, <2>2
<1>14. Filled(r, mem)
  <2>1. \A l : r.state[t] # Ready(l)
    BY <1>2, StatesDiffer
  <2> QED BY <1>1, <1>3, <2>1 DEF Filled
<1> QED BY <1>2, <1>3, <1>10, <1>11, <1>12, <1>13, <1>14 DEF RingOK

(* A load that fails in a free ring slot leaves no trace but the eviction it
   made room with, and the contents of the staging buffer and its fence. *)
LEMMA LoadAbandoned ==
  ASSUME NEW p, NEW pend, NEW mem, NEW stg, NEW fen, NEW que,
         RingOK(p, pend, mem, stg, fen, que), NEW i \in Ring, pend[i] = NoTransfer,
         NEW k \in Key, CanReserve(p, k),
         NEW stg2, \E x \in Key \cup {Garbage} : stg2 = [stg EXCEPT ![i] = x],
         NEW fen2, fen2 = fen \/ fen2 = [fen EXCEPT ![i] = FALSE]
  PROVE  LET q == CancelLoading(Reserve(p, k), SlotFor(p), k) IN
         /\ RingOK(q, pend, mem, stg2, fen2, que)
         /\ SlotFor(p) \in 1..Slots
         /\ \A u \in 1..Slots : u # SlotFor(p) => q.state[u] = p.state[u]
<1>0. PICK t, q : t = SlotFor(p) /\ q = CancelLoading(Reserve(p, k), t, k)
  OBVIOUS
<1>1. /\ RingTyped(pend, mem, stg, fen) /\ Carried(p, pend, mem, stg, fen, que)
      /\ Matched(p, pend) /\ Flying(pend, que) /\ Filled(p, mem)
      /\ Sound(p, Slots) /\ \A u \in 1..Slots : p.pins[u] = 0
  BY DEF RingOK
<1>2. PICK r : r = Reserve(p, k)
  OBVIOUS
<1>3. /\ t \in 1..Slots
      /\ p.state[t] = Empty \/ \E l \in Key : p.state[t] = Ready(l)
      /\ Sound(r, Slots) /\ OthersKept(p, r, Slots, t)
      /\ r.state[t] = Loading(k) /\ r.pins[t] = 0
  BY <1>0, <1>1, <1>2, ReservedFresh
<1>4. Sound(q, Slots) /\ OthersKept(r, q, Slots, t) /\ q.state[t] = Empty /\ q.pins[t] = 0
  BY <1>0, <1>2, <1>3, CancelledFresh
<1>5. /\ \A u \in 1..Slots : u # t => q.state[u] = p.state[u]
      /\ \A u \in 1..Slots : q.pins[u] = 0
  BY <1>1, <1>3, <1>4 DEF OthersKept
<1>6. /\ stg2 \in [Ring -> Key \cup {Garbage}] /\ \A j \in Ring : j # i => stg2[j] = stg[j]
      /\ fen2 \in [Ring -> BOOLEAN] /\ \A j \in Ring : j # i => fen2[j] = fen[j]
  BY <1>1 DEF RingTyped
<1>7. RingTyped(pend, mem, stg2, fen2)
  BY <1>1, <1>6 DEF RingTyped
<1>8. \A j \in Ring : pend[j] # NoTransfer => pend[j].slot \in 1..Slots /\ pend[j].slot # t
  <2> SUFFICES ASSUME NEW j \in Ring, pend[j] # NoTransfer
               PROVE  pend[j].slot \in 1..Slots /\ pend[j].slot # t
    OBVIOUS
  <2>1. pend[j].slot \in 1..Slots /\ p.state[pend[j].slot] = Loading(pend[j].key)
    BY PendingTransfers
  <2> QED BY <1>3, <2>1, StatesDiffer
<1>9. Carried(q, pend, mem, stg2, fen2, que)
  <2> SUFFICES ASSUME NEW j \in Ring, pend[j] # NoTransfer
               PROVE  /\ pend[j] \in Transfer
                      /\ q.state[pend[j].slot] = Loading(pend[j].key)
                      /\ fen2[j] <=> <<j, pend[j].slot>> \notin que
                      /\ ~fen2[j] => stg2[j] = pend[j].key
                      /\ fen2[j] => mem[pend[j].slot] = pend[j].key
    BY DEF Carried
  <2>1. j # i
    OBVIOUS
  <2>2. stg2[j] = stg[j] /\ fen2[j] = fen[j]
    BY <1>6, <2>1
  <2>3. q.state[pend[j].slot] = p.state[pend[j].slot]
    BY <1>5, <1>8
  <2> QED BY <1>1, <2>2, <2>3 DEF Carried
<1>10. \A l : q.state[t] # Ready(l) /\ q.state[t] # Loading(l)
  BY <1>4, StatesDiffer
<1>11. Matched(q, pend)
  BY <1>1, <1>5, <1>10 DEF Matched
<1>12. Filled(q, mem)
  BY <1>1, <1>5, <1>10 DEF Filled
<1>13. RingOK(q, pend, mem, stg2, fen2, que)
  BY <1>1, <1>4, <1>5, <1>7, <1>9, <1>11, <1>12 DEF RingOK
<1> QED BY <1>0, <1>3, <1>5, <1>13

-----------------------------------------------------------------------------
(* wait_all *)

(* The recursive function of Completion, over the pool and the transfers the
   ring starts from. *)
CompletedAt(f, p, pend, i) ==
  IF i = 0 THEN p
  ELSE IF pend[i] = NoTransfer THEN f[i - 1] ELSE MarkReady(f[i - 1], pend[i].slot, pend[i].key)
Completes(f, p, pend, n) == f = [i \in 0..n |-> CompletedAt(f, p, pend, i)]

(* It exists, for rings of any depth. *)
LEMMA CompletionExists ==
  ASSUME NEW p, NEW pend, NEW n \in Nat
  PROVE  \E f : Completes(f, p, pend, n)
<1> DEFINE T == {m \in Nat : \E f : \A i \in 0..m : f[i] = CompletedAt(f, p, pend, i)}
<1>1. \A f, g, i : i = 0 \/ f[i - 1] = g[i - 1] => CompletedAt(f, p, pend, i) = CompletedAt(g, p, pend, i)
  BY DEF CompletedAt
<1>2. 0 \in T
  <2> DEFINE g == [i \in 0..0 |-> CompletedAt(<< >>, p, pend, i)]
  <2>1. \A i \in 0..0 : i = 0 /\ g[i] = CompletedAt(<< >>, p, pend, i)
    OBVIOUS
  <2> HIDE DEF g
  <2>2. \A i \in 0..0 : g[i] = CompletedAt(g, p, pend, i)
    BY <1>1, <2>1
  <2> QED BY <2>2
<1>3. ASSUME NEW m \in T PROVE m + 1 \in T
  <2>1. m \in Nat /\ m + 1 \in Nat
    OBVIOUS
  <2>2. PICK f : \A i \in 0..m : f[i] = CompletedAt(f, p, pend, i)
    OBVIOUS
  <2> DEFINE h == [i \in 0..(m + 1) |-> CompletedAt(f, p, pend, i)]
  <2>3. \A i \in 0..(m + 1) : h[i] = CompletedAt(f, p, pend, i)
    OBVIOUS
  <2> HIDE DEF h
  <2>4. ASSUME NEW i \in 0..(m + 1) PROVE h[i] = CompletedAt(h, p, pend, i)
    <3>1. i = 0 \/ (i - 1 \in 0..m /\ i - 1 \in 0..(m + 1))
      BY <2>1
    <3>2. i = 0 \/ h[i - 1] = f[i - 1]
      BY <2>2, <2>3, <3>1
    <3> QED BY <1>1, <2>3, <3>2
  <2> QED BY <2>1, <2>4
<1>4. T = Nat
  <2> HIDE DEF T
  <2>1. T \in SUBSET Nat
    BY DEF T
  <2> QED BY <1>2, <1>3, <2>1, NaturalInduction
<1>5. PICK f : \A i \in 0..n : f[i] = CompletedAt(f, p, pend, i)
  BY <1>4, ZenonT(40)
<1> DEFINE h == [i \in 0..n |-> f[i]]
<1>6. \A i \in 0..n : h[i] = f[i]
  OBVIOUS
<1>7. \A i \in 0..n : f[i] = CompletedAt(h, p, pend, i)
  <2> SUFFICES ASSUME NEW i \in 0..n PROVE f[i] = CompletedAt(h, p, pend, i)
    OBVIOUS
  <2> HIDE DEF h
  <2>1. i = 0 \/ i - 1 \in 0..n
    OBVIOUS
  <2> QED BY <1>1, <1>5, <1>6, <2>1
<1>8. h = [i \in 0..n |-> CompletedAt(h, p, pend, i)]
  <2>1. h = [i \in 0..n |-> f[i]]
    OBVIOUS
  <2> HIDE DEF h
  <2> QED BY <1>7, <2>1
<1> HIDE DEF h
<1> QED BY <1>8 DEF Completes

(* Completion starts from the pool as it is and goes on slot by slot. *)
LEMMA CompletionSteps ==
  ASSUME NEW f0, f0 = Completion
  PROVE  /\ f0[0] = pool
         /\ \A i \in 1..Depth : f0[i] = IF pending[i] = NoTransfer THEN f0[i - 1]
                                    ELSE MarkReady(f0[i - 1], pending[i].slot, pending[i].key)
<1>1. PICK f : f = f0 /\ f = Completion
  OBVIOUS
<1>2. Depth \in Nat
  BY LoaderAssumption
<1>3. f = CHOOSE g : Completes(g, pool, pending, Depth)
  BY <1>1 DEF Completion, Completed, CompletedAt, Completes
<1>4. Completes(f, pool, pending, Depth)
  <2>1. \E g : Completes(g, pool, pending, Depth)
    BY <1>2, CompletionExists
  <2> QED BY <1>3, <2>1, Zenon
<1>5. \A i \in 0..Depth : f[i] = CompletedAt(f, pool, pending, i)
  <2>1. PICK g : g = [i \in 0..Depth |-> CompletedAt(f, pool, pending, i)]
    OBVIOUS
  <2>2. \A i \in 0..Depth : g[i] = CompletedAt(f, pool, pending, i)
    BY <2>1
  <2>3. f = g
    BY <1>4, <2>1 DEF Completes
  <2> QED BY <2>2, <2>3
<1>6. 0 \in 0..Depth /\ \A i \in 1..Depth : i \in 0..Depth /\ i # 0
  BY <1>2
<1>7. f[0] = CompletedAt(f, pool, pending, 0) /\ \A i \in 1..Depth : f[i] = CompletedAt(f, pool, pending, i)
  BY <1>5, <1>6
<1>8. /\ CompletedAt(f, pool, pending, 0) = pool
      /\ \A i : i # 0 => CompletedAt(f, pool, pending, i) = IF pending[i] = NoTransfer THEN f[i - 1]
                                    ELSE MarkReady(f[i - 1], pending[i].slot, pending[i].key)
  BY DEF CompletedAt
<1> QED BY <1>1, <1>6, <1>7, <1>8

(* What the ring has pending once its first i slots are completed, and the
   pages of those. *)
Remaining(pend, i) == [j \in Ring |-> IF j <= i THEN NoTransfer ELSE pend[j]]
Carrying(pend, i) == {pend[j].key : j \in {x \in 1..i : pend[x] # NoTransfer}}

(* The pool when the slots up to i are completed. *)
DrainedTo(p, q, pend, mem, stg, fen, que, i) ==
  /\ RingOK(q, Remaining(pend, i), mem, stg, fen, que)
  /\ Settles(p, q)
  /\ \A W : Fresh(p, W) => Fresh(q, W \cup Carrying(pend, i))

(* One slot of the ring more. *)
LEMMA DrainStep ==
  ASSUME NEW p, NEW q, NEW pend, NEW mem, NEW stg, NEW fen, NEW que, NEW i \in Nat,
         pend \in [Ring -> Transfer \cup {NoTransfer}],
         DrainedTo(p, q, pend, mem, stg, fen, que, i), i + 1 \in Ring,
         pend[i + 1] # NoTransfer => fen[i + 1] = TRUE, NEW r,
         r = IF pend[i + 1] = NoTransfer THEN q
             ELSE MarkReady(q, pend[i + 1].slot, pend[i + 1].key)
  PROVE  DrainedTo(p, r, pend, mem, stg, fen, que, i + 1)
<1>1. PICK a, b : a = Remaining(pend, i) /\ b = Remaining(pend, i + 1)
  OBVIOUS
<1>2. Depth \in Nat /\ Ring = 1..Depth /\ \A j \in Ring : j <= i + 1 <=> j <= i \/ j = i + 1
  BY LoaderAssumption DEF Ring
<1>3. a[i + 1] = pend[i + 1] /\ b = [a EXCEPT ![i + 1] = NoTransfer]
  <2>1. ~(i + 1 <= i)
    OBVIOUS
  <2>2. \A j \in Ring : b[j] = IF j = i + 1 THEN NoTransfer ELSE a[j]
    BY <1>1, <1>2 DEF Remaining
  <2> QED BY <1>1, <2>1, <2>2 DEF Remaining
<1>4. RingOK(q, a, mem, stg, fen, que) /\ Settles(p, q)
      /\ \A W : Fresh(p, W) => Fresh(q, W \cup Carrying(pend, i))
  BY <1>1 DEF DrainedTo
<1>5. CASE pend[i + 1] = NoTransfer
  <2>1. b = a
    BY <1>1, <1>3, <1>5 DEF Remaining
  <2>2. Carrying(pend, i + 1) = Carrying(pend, i)
    <3>1. \A x \in 1..(i + 1) : x \in 1..i \/ x = i + 1
      OBVIOUS
    <3>2. \A x \in 1..i : x \in 1..(i + 1)
      OBVIOUS
    <3>3. {x \in 1..(i + 1) : pend[x] # NoTransfer} = {x \in 1..i : pend[x] # NoTransfer}
      BY <1>5, <3>1, <3>2
    <3> QED BY <3>3 DEF Carrying
  <2> QED BY <1>1, <1>4, <1>5, <2>1, <2>2 DEF DrainedTo
<1>6. CASE pend[i + 1] # NoTransfer
  <2>1. PICK k, s : k = pend[i + 1].key /\ s = pend[i + 1].slot
    OBVIOUS
  <2>2. r = MarkReady(q, a[i + 1].slot, a[i + 1].key) /\ fen[i + 1] = TRUE /\ a[i + 1] # NoTransfer
    BY <1>3, <1>6
  <2>3. /\ RingOK(r, b, mem, stg, fen, que) /\ Settles(q, r)
        /\ \A W : Fresh(q, W) => Fresh(r, W \cup {k})
    <3>1. /\ RingOK(r, b, mem, stg, fen, que) /\ Settles(q, r)
          /\ \A W : Fresh(q, W) => Fresh(r, W \cup {a[i + 1].key})
      <4>1. PICK j : j = i + 1
        OBVIOUS
      <4>2. j \in Ring /\ a[j] # NoTransfer /\ fen[j] = TRUE /\ b = [a EXCEPT ![j] = NoTransfer]
            /\ r = MarkReady(q, a[j].slot, a[j].key)
        BY <1>3, <2>2, <4>1
      <4>3. /\ RingOK(r, b, mem, stg, fen, que) /\ Settles(q, r)
            /\ \A W : Fresh(q, W) => Fresh(r, W \cup {a[j].key})
        <5>1. RingOK(q, a, mem, stg, fen, que)
          BY <1>4
        <5>2. j \in Ring /\ a[j] # NoTransfer /\ fen[j] = TRUE
          BY <4>2
        <5>3. b = [a EXCEPT ![j] = NoTransfer]
          BY <4>2
        <5>4. r = MarkReady(q, a[j].slot, a[j].key)
          BY <4>2
        <5>5. /\ RingOK(r, [a EXCEPT ![j] = NoTransfer], mem, stg, fen, que)
              /\ \A W : Fresh(q, W) => Fresh(r, W \cup {a[j].key})
          <6>1. PICK x : x = MarkReady(q, a[j].slot, a[j].key)
            OBVIOUS
          <6>2. /\ RingOK(x, [a EXCEPT ![j] = NoTransfer], mem, stg, fen, que)
                /\ \A W : Fresh(q, W) => Fresh(x, W \cup {a[j].key})
            BY <5>1, <5>2, <6>1, TransferCompleted
          <6>3. x = r
            BY <5>4, <6>1
          <6> QED BY <6>2, <6>3
        <5>6. Settles(q, r)
          <6>1. /\ a[j].key \in Key /\ a[j].slot \in 1..Slots
                /\ q.state[a[j].slot] = Loading(a[j].key)
            BY <5>1, <5>2, PendingTransfers
          <6>2. Sound(q, Slots)
            BY <5>1 DEF RingOK
          <6> QED BY <5>4, <6>1, <6>2, MarkedSettles
        <5> QED BY <5>3, <5>5, <5>6
      <4> QED BY <4>1, <4>3
    <3> QED BY <1>3, <2>1, <3>1
  <2>4. Carrying(pend, i + 1) = Carrying(pend, i) \cup {k}
    <3>1. \A x : x \in 1..(i + 1) <=> x \in 1..i \/ x = i + 1
      OBVIOUS
    <3>2. {x \in 1..(i + 1) : pend[x] # NoTransfer} = {x \in 1..i : pend[x] # NoTransfer} \cup {i + 1}
      BY <1>6, <3>1
    <3> QED BY <2>1, <3>2 DEF Carrying
  <2>5. Settles(p, r)
    BY <1>4, <2>3 DEF Settles
  <2>6. ASSUME NEW W, Fresh(p, W) PROVE Fresh(r, W \cup Carrying(pend, i + 1))
    <3>1. Fresh(r, (W \cup Carrying(pend, i)) \cup {k})
      BY <1>4, <2>3, <2>6
    <3>2. (W \cup Carrying(pend, i)) \cup {k} = W \cup Carrying(pend, i + 1)
      BY <2>4
    <3> QED BY <3>1, <3>2
  <2> QED BY <1>1, <2>3, <2>5, <2>6 DEF DrainedTo
<1> QED BY <1>5, <1>6

RingNow == RingOK(pool, pending, memory, staging, fence, queue)

(* Every slot of the ring counts. *)
PendingPages == {pending[pip].key : pip \in {x \in Ring : pending[x] # NoTransfer}}
NothingPending == [pip \in Ring |-> NoTransfer]

(* Draining the ring completes every transfer: no copy is left, no slot is
   Loading, and every page keeps its slot. *)
LEMMA RingDrained ==
  ASSUME RingNow, \A pip \in Ring : Signaled(pip)
  PROVE  /\ RingOK(Settled, NothingPending, memory, staging, fence, queue)
         /\ queue = {} /\ Settles(pool, Settled)
         /\ \A s \in 1..Slots, k \in Key : Settled.state[s] # Loading(k)
         /\ \A W : Fresh(pool, W) => Fresh(Settled, W \cup PendingPages)
<1>1. PICK f, p, pend, n : f = Completion /\ p = pool /\ pend = pending /\ n = Depth
  OBVIOUS
<1>2. /\ n \in Nat /\ Ring = 1..n /\ f[0] = p
      /\ \A i \in 1..n : f[i] = IF pend[i] = NoTransfer THEN f[i - 1]
                                ELSE MarkReady(f[i - 1], pend[i].slot, pend[i].key)
  BY <1>1, CompletionSteps, LoaderAssumption DEF Ring
<1>3. PICK mem, stg, fen, que : mem = memory /\ stg = staging /\ fen = fence /\ que = queue
  OBVIOUS
<1>4. /\ RingOK(p, pend, mem, stg, fen, que) /\ pend \in [Ring -> Transfer \cup {NoTransfer}]
      /\ fen \in [Ring -> BOOLEAN]
  BY <1>1, <1>3 DEF RingNow, RingOK, RingTyped
<1>5. \A i \in Ring : pend[i] # NoTransfer => fen[i] = TRUE
  BY <1>1, <1>3, <1>4 DEF Signaled
<1> DEFINE T == {i \in Nat : i <= n => DrainedTo(p, f[i], pend, mem, stg, fen, que, i)}
<1>6. 0 \in T
  <2>1. Remaining(pend, 0) = pend
    <3>1. \A j \in Ring : ~(j <= 0)
      BY <1>2
    <3> QED BY <1>4, <3>1 DEF Remaining
  <2>2. Carrying(pend, 0) = {}
    BY DEF Carrying
  <2>3. Settles(p, p)
    BY DEF Settles
  <2>4. DrainedTo(p, f[0], pend, mem, stg, fen, que, 0)
    <3>1. \A W : W \cup {} = W
      OBVIOUS
    <3> QED BY <1>2, <1>4, <2>1, <2>2, <2>3, <3>1 DEF DrainedTo
  <2> QED BY <2>4
<1>7. ASSUME NEW i \in T PROVE i + 1 \in T
  <2>1. i \in Nat /\ i + 1 \in Nat /\ i + 1 - 1 = i
    OBVIOUS
  <2>2. ASSUME i + 1 <= n PROVE DrainedTo(p, f[i + 1], pend, mem, stg, fen, que, i + 1)
    <3>1. i <= n /\ i + 1 \in 1..n
      BY <1>2, <2>1, <2>2
    <3>2. PICK q, r : q = f[i] /\ r = f[i + 1]
      OBVIOUS
    <3>3. DrainedTo(p, q, pend, mem, stg, fen, que, i)
      BY <3>1, <3>2
    <3>4. r = IF pend[i + 1] = NoTransfer THEN q ELSE MarkReady(q, pend[i + 1].slot, pend[i + 1].key)
      BY <1>2, <2>1, <3>1, <3>2
    <3>5. pend[i + 1] # NoTransfer => fen[i + 1] = TRUE
      BY <1>2, <1>5, <3>1
    <3>6. DrainedTo(p, r, pend, mem, stg, fen, que, i + 1)
      BY <1>2, <1>4, <2>1, <3>1, <3>3, <3>4, <3>5, DrainStep
    <3> QED BY <3>2, <3>6
  <2> QED BY <2>1, <2>2
<1>8. n \in T
  <2>1. T \in SUBSET Nat
    OBVIOUS
  <2> HIDE DEF T
  <2>2. T = Nat
    BY <1>6, <1>7, <2>1, NaturalInduction
  <2> QED BY <1>2, <2>2
<1>9. PICK q : q = Settled
  OBVIOUS
<1>10. DrainedTo(p, q, pend, mem, stg, fen, que, n)
  BY <1>1, <1>2, <1>8, <1>9 DEF Settled
<1>11. Remaining(pend, n) = NothingPending
  <2>1. \A j \in Ring : j <= n
    BY <1>2
  <2> QED BY <2>1 DEF Remaining, NothingPending
<1>12. Carrying(pend, n) = PendingPages
  BY <1>1, <1>2 DEF Carrying, PendingPages
<1>13. /\ RingOK(q, NothingPending, mem, stg, fen, que) /\ Settles(p, q)
       /\ \A W : Fresh(p, W) => Fresh(q, W \cup PendingPages)
  BY <1>10, <1>11, <1>12 DEF DrainedTo
<1>14. que = {}
  <2> SUFFICES ASSUME NEW c \in que PROVE FALSE
    OBVIOUS
  <2>1. c \in Ring \X (1..Slots) /\ NothingPending[c[1]] # NoTransfer
    BY <1>13 DEF RingOK, Flying
  <2> QED BY <2>1 DEF NothingPending
<1>15. \A s \in 1..Slots, k \in Key : q.state[s] # Loading(k)
  BY <1>13 DEF RingOK, Matched, NothingPending
<1> QED BY <1>1, <1>3, <1>9, <1>13, <1>14, <1>15

(* The ring slot of the next load is free once its transfer is completed. *)
LEMMA RingSlotTaken ==
  ASSUME RingNow, next_pip \in Ring, Signaled(next_pip),
         NEW pend2, pend2 = [pending EXCEPT ![next_pip] = NoTransfer]
  PROVE  /\ RingOK(Pool1, pend2, memory, staging, fence, queue) /\ pend2[next_pip] = NoTransfer
         /\ pend2 \in [Ring -> Transfer \cup {NoTransfer}]
         /\ Settles(pool, Pool1)
         /\ \A W : Fresh(pool, W) /\ Awaited(pool, W) => Fresh(Pool1, W)
<1>1. PICK p, pend, mem, stg, fen, que, i, q :
        /\ p = pool /\ pend = pending /\ mem = memory /\ stg = staging
        /\ fen = fence /\ que = queue /\ i = next_pip /\ q = Pool1
  OBVIOUS
<1>2. /\ RingOK(p, pend, mem, stg, fen, que) /\ i \in Ring
      /\ pend \in [Ring -> Transfer \cup {NoTransfer}] /\ fen \in [Ring -> BOOLEAN]
  BY <1>1 DEF RingNow, RingOK, RingTyped
<1>3. pend2 = [pend EXCEPT ![i] = NoTransfer]
  BY <1>1
<1>4. pend2[i] = NoTransfer /\ pend2 \in [Ring -> Transfer \cup {NoTransfer}]
  BY <1>2, <1>3
<1>5. CASE pend[i] = NoTransfer
  <2>1. q = p
    BY <1>1, <1>5 DEF Pool1, Completed
  <2>2. pend2 = pend
    BY <1>2, <1>3, <1>5
  <2>3. Settles(p, p)
    BY DEF Settles
  <2> QED BY <1>1, <1>2, <1>4, <2>1, <2>2, <2>3
<1>6. CASE pend[i] # NoTransfer
  <2>1. q = MarkReady(p, pend[i].slot, pend[i].key) /\ fen[i] = TRUE
    BY <1>1, <1>2, <1>6 DEF Pool1, Completed, Signaled
  <2>2. RingOK(q, pend2, mem, stg, fen, que) /\ \A W : Fresh(p, W) => Fresh(q, W \cup {pend[i].key})
    <3>1. RingOK(p, pend, mem, stg, fen, que)
      BY <1>2
    <3>2. i \in Ring /\ pend[i] # NoTransfer /\ fen[i] = TRUE
      BY <1>2, <1>6, <2>1
    <3>3. q = MarkReady(p, pend[i].slot, pend[i].key)
      BY <2>1
    <3>4. /\ RingOK(q, [pend EXCEPT ![i] = NoTransfer], mem, stg, fen, que)
          /\ \A W : Fresh(p, W) => Fresh(q, W \cup {pend[i].key})
      BY <3>1, <3>2, <3>3, TransferCompleted
    <3> QED BY <1>3, <3>4
  <2>4. /\ pend[i].key \in Key /\ pend[i].slot \in 1..Slots
        /\ p.state[pend[i].slot] = Loading(pend[i].key)
    BY <1>2, <1>6, PendingTransfers
  <2>5. Settles(p, q)
    BY <1>2, <2>1, <2>4, MarkedSettles DEF RingOK
  <2>6. ASSUME NEW W, Fresh(p, W), Awaited(p, W) PROVE Fresh(q, W)
    <3>1. pend[i].key \in W
      BY <2>4, <2>6 DEF Awaited
    <3>2. W \cup {pend[i].key} = W
      BY <3>1
    <3>3. Fresh(q, W \cup {pend[i].key})
      BY <2>2, <2>6
    <3> QED BY <3>2, <3>3
  <2> QED BY <1>1, <1>4, <2>2, <2>5, <2>6
<1> QED BY <1>5, <1>6

(* A lookup changes nothing but the access order. *)
LEMMA SamePages ==
  ASSUME NEW p, NEW pend, NEW mem, NEW stg, NEW fen, NEW que,
         RingOK(p, pend, mem, stg, fen, que), NEW q, Sound(q, Slots),
         q.state = p.state, q.pins = p.pins
  PROVE  RingOK(q, pend, mem, stg, fen, que)
<1>1. Carried(q, pend, mem, stg, fen, que) /\ Matched(q, pend) /\ Filled(q, mem)
  BY DEF RingOK, Carried, Matched, Filled
<1> QED BY <1>1 DEF RingOK

-----------------------------------------------------------------------------
(* enqueue *)

(* The pages W leave room for page k; from p to q they keep their slots. *)
Room(W, k) == IsFiniteSet(W \cup {k}) /\ Cardinality(W \cup {k}) <= Slots
Keeps(p, q, W) ==
  \A s \in 1..Slots, w \in W :
    /\ HeldIn(p, s, w) => HeldIn(q, s, w)
    /\ p.state[s] = Ready(w) => q.state[s] = Ready(w)
Joined(p, q, W, k) == Fresh(q, W \cup {k}) /\ Awaited(q, W \cup {k}) /\ Keeps(p, q, W)

(* A page of W that is held is still held. *)
LEMMA HeldKept ==
  ASSUME NEW p, NEW q, NEW W, Keeps(p, q, W), NEW w \in W, NEW s, HeldIn(p, s, w)
  PROVE  HeldIn(q, s, w)
<1>1. \A u \in 1..Slots, v \in W : HeldIn(p, u, v) => HeldIn(q, u, v)
  BY DEF Keeps
<1>2. s \in 1..Slots
  BY DEF HeldIn
<1> QED BY <1>1, <1>2

(* Two steps that keep the pages W. *)
LEMMA KeptTwice ==
  ASSUME NEW p, NEW q, NEW r, NEW W, Keeps(p, q, W), Keeps(q, r, W)
  PROVE  Keeps(p, r, W)
<1> SUFFICES ASSUME NEW s \in 1..Slots, NEW w \in W
             PROVE  /\ HeldIn(p, s, w) => HeldIn(r, s, w)
                    /\ p.state[s] = Ready(w) => r.state[s] = Ready(w)
  BY DEF Keeps
<1>1. /\ HeldIn(p, s, w) => HeldIn(q, s, w)
      /\ p.state[s] = Ready(w) => q.state[s] = Ready(w)
  BY DEF Keeps
<1>2. /\ HeldIn(q, s, w) => HeldIn(r, s, w)
      /\ q.state[s] = Ready(w) => r.state[s] = Ready(w)
  BY DEF Keeps
<1> QED BY <1>1, <1>2

(* Loads that end move no page. *)
LEMMA SettledKeeps ==
  ASSUME NEW p, NEW q, Settles(p, q), NEW W \in SUBSET Key
  PROVE  Keeps(p, q, W)
BY DEF Settles, Keeps

(* The ring slots are taken in turn. *)
LEMMA NextRingSlot ==
  ASSUME next_pip \in Ring
  PROVE  (next_pip % Depth) + 1 \in Ring
<1>1. PICK i, n : i = next_pip /\ n = Depth
  OBVIOUS
<1>2. n \in Nat \ {0} /\ i \in 1..n
  BY <1>1, LoaderAssumption DEF Ring
<1>3. i % n \in 0..(n - 1)
  BY <1>2
<1>4. (i % n) + 1 \in 1..n
  BY <1>2, <1>3
<1> QED BY <1>1, <1>4 DEF Ring

(* A reservation that leaves room joins the pages W. *)
LEMMA ReservationJoins ==
  ASSUME NEW p, Sound(p, Slots), \A s \in 1..Slots : p.pins[s] = 0,
         NEW k \in Key, CanReserve(p, k), NEW W \in SUBSET Key,
         Room(W, k), Fresh(p, W), Awaited(p, W)
  PROVE  Joined(p, Reserve(p, k), W, k) /\ \A w \in W : ~HeldIn(p, SlotFor(p), w)
<1>1. PICK r, t : r = Reserve(p, k) /\ t = SlotFor(p)
  OBVIOUS
<1>2. /\ t \in 1..Slots /\ OthersKept(p, r, Slots, t) /\ r.state[t] = Loading(k)
      /\ Fresh(r, W \cup {k})
  BY <1>1, ReservedFresh
<1>3. \A w \in W : p.state[t] \notin {Loading(w), Ready(w)}
  BY <1>1, VictimIsOld DEF Room
<1>4. Awaited(r, W \cup {k})
  <2> SUFFICES ASSUME NEW s \in 1..Slots, NEW l \in Key, r.state[s] = Loading(l)
               PROVE  l \in W \cup {k}
    BY DEF Awaited
  <2>1. CASE s = t
    BY <1>2, <2>1, StatesDiffer
  <2>2. CASE s # t
    BY <1>2, <2>2 DEF OthersKept, Awaited
  <2> QED BY <2>1, <2>2
<1>5. Keeps(p, r, W)
  BY <1>2, <1>3 DEF Keeps, HeldIn, OthersKept
<1> QED BY <1>1, <1>2, <1>3, <1>4, <1>5 DEF Joined, HeldIn

(* A page that is found joins the pages W by the access. *)
LEMMA HitJoins ==
  ASSUME RingNow, NEW k \in Key, NEW slot, EnqueueHit(k, slot)
  PROVE  /\ RingNow' /\ HeldIn(pool', slot, k)
         /\ \A W \in SUBSET Key : Fresh(pool, W) /\ Awaited(pool, W) => Joined(pool, pool', W, k)
<1>1. PICK p, q : p = pool /\ q = pool'
  OBVIOUS
<1>2. Visible(p, k) /\ slot = p.index[k] /\ q = Lookup(p, k) /\ UNCHANGED <<memory, ring>>
  BY <1>1 DEF EnqueueHit
<1>3. Sound(p, Slots) /\ Slots \in Nat
  BY <1>1, LoaderAssumption DEF RingNow, RingOK
<1>4. /\ Sound(q, Slots) /\ q.state = p.state /\ q.pins = p.pins
      /\ \A W : Fresh(p, W) => Fresh(q, W \cup {k})
  BY <1>2, <1>3, LookedUpFresh
<1>5. RingNow'
  <2>1. RingOK(p, pending, memory, staging, fence, queue)
    BY <1>1 DEF RingNow
  <2>2. RingOK(q, pending, memory, staging, fence, queue)
    BY <1>4, <2>1, SamePages
  <2> QED BY <1>1, <1>2, <2>2 DEF RingNow, ring
<1>6. HeldIn(q, slot, k)
  BY <1>2, <1>3, <1>4, SoundSlots DEF HeldIn
<1>7. ASSUME NEW W \in SUBSET Key, Fresh(p, W), Awaited(p, W) PROVE Joined(p, q, W, k)
  <2>1. Awaited(q, W \cup {k})
    BY <1>4, <1>7 DEF Awaited
  <2>2. Keeps(p, q, W)
    BY <1>4 DEF Keeps, HeldIn
  <2> QED BY <1>4, <1>7, <2>1, <2>2 DEF Joined
<1> QED BY <1>1, <1>5, <1>6, <1>7

(* A page on its way joins them once its transfer is completed. *)
LEMMA PendingJoins ==
  ASSUME RingNow, NEW k \in Key, NEW slot, EnqueuePending(k, slot)
  PROVE  /\ RingNow' /\ HeldIn(pool', slot, k)
         /\ \A W \in SUBSET Key : Fresh(pool, W) /\ Awaited(pool, W) => Joined(pool, pool', W, k)
<1>1. PICK p, q, pend, mem, stg, fen, que :
        /\ p = pool /\ q = pool' /\ pend = pending /\ mem = memory /\ stg = staging
        /\ fen = fence /\ que = queue
  OBVIOUS
<1>2. PICK i \in Ring : /\ pend[i] # NoTransfer /\ pend[i].key = k /\ Signaled(i)
                        /\ slot = pend[i].slot /\ q = Lookup(Completed(p, i), k)
                        /\ pending' = [pend EXCEPT ![i] = NoTransfer]
  BY <1>1 DEF EnqueuePending, PipsOf
<1>3. UNCHANGED <<memory, staging, fence, queue>>
  BY DEF EnqueuePending
<1>4. RingOK(p, pend, mem, stg, fen, que) /\ fen \in [Ring -> BOOLEAN] /\ Slots \in Nat
  BY <1>1, LoaderAssumption DEF RingNow, RingOK, RingTyped
<1>5. fen[i] = TRUE
  BY <1>1, <1>2, <1>4 DEF Signaled
<1>6. PICK m : m = MarkReady(p, pend[i].slot, pend[i].key)
  OBVIOUS
<1>7. q = Lookup(m, k)
  BY <1>1, <1>2, <1>6 DEF Completed
<1>8. /\ slot \in 1..Slots /\ p.state[slot] = Loading(k) /\ m = MarkReady(p, slot, k)
  BY <1>2, <1>4, <1>6, PendingTransfers
<1>9. /\ RingOK(m, [pend EXCEPT ![i] = NoTransfer], mem, stg, fen, que)
      /\ \A W : Fresh(p, W) => Fresh(m, W \cup {k})
  <2>1. /\ RingOK(m, [pend EXCEPT ![i] = NoTransfer], mem, stg, fen, que)
        /\ \A W : Fresh(p, W) => Fresh(m, W \cup {pend[i].key})
    BY <1>2, <1>4, <1>5, <1>6, TransferCompleted
  <2> QED BY <1>2, <2>1
<1>10. Settles(p, m) /\ m.state[slot] = Ready(k)
  <2>1. Sound(p, Slots)
    BY <1>4 DEF RingOK
  <2> QED BY <1>8, <2>1, MarkedSettles, MarkedFresh
<1>11. Sound(m, Slots)
  BY <1>9 DEF RingOK
<1>12. Visible(m, k)
  BY <1>4, <1>8, <1>10, <1>11, SoundSlots
<1>13. /\ Sound(q, Slots) /\ q.state = m.state /\ q.pins = m.pins
       /\ \A W : Fresh(m, W) => Fresh(q, W \cup {k})
  BY <1>7, <1>11, <1>12, LookedUpFresh
<1>14. RingOK(q, [pend EXCEPT ![i] = NoTransfer], mem, stg, fen, que)
  BY <1>9, <1>13, SamePages
<1>15. RingNow'
  BY <1>1, <1>2, <1>3, <1>14 DEF RingNow
<1>16. HeldIn(q, slot, k)
  BY <1>8, <1>10, <1>13 DEF HeldIn
<1>17. ASSUME NEW W \in SUBSET Key, Fresh(p, W), Awaited(p, W) PROVE Joined(p, q, W, k)
  <2>1. Fresh(q, (W \cup {k}) \cup {k}) /\ (W \cup {k}) \cup {k} = W \cup {k}
    BY <1>9, <1>13, <1>17
  <2>2. Awaited(m, W)
    BY <1>10, <1>17, SettledAwaits
  <2>3. Awaited(q, W \cup {k})
    BY <1>13, <2>2 DEF Awaited
  <2>4. Keeps(p, m, W)
    BY <1>10, SettledKeeps
  <2>5. Keeps(p, q, W)
    BY <1>13, <2>4 DEF Keeps, HeldIn
  <2> QED BY <2>1, <2>3, <2>5 DEF Joined
<1> QED BY <1>1, <1>15, <1>16, <1>17

(* The pool and the ring when enqueue has taken its ring slot. *)
LEMMA RingSlotFree ==
  ASSUME RingNow, next_pip \in Ring, NEW k, TakeRingSlot(k)
  PROVE  /\ RingOK(Pool1, [pending EXCEPT ![next_pip] = NoTransfer], memory, staging, fence, queue)
         /\ Settles(pool, Pool1) /\ Sound(Pool1, Slots) /\ \A s \in 1..Slots : Pool1.pins[s] = 0
         /\ pending \in [Ring -> Transfer \cup {NoTransfer}] /\ next_pip' \in Ring
         /\ \A W : Fresh(pool, W) /\ Awaited(pool, W) => Fresh(Pool1, W) /\ Awaited(Pool1, W)
<1>1. Signaled(next_pip) /\ next_pip' \in Ring
  BY NextRingSlot DEF TakeRingSlot
<1>2. PICK pend2 : pend2 = [pending EXCEPT ![next_pip] = NoTransfer]
  OBVIOUS
<1>3. /\ RingOK(Pool1, pend2, memory, staging, fence, queue)
      /\ Settles(pool, Pool1)
      /\ \A W : Fresh(pool, W) /\ Awaited(pool, W) => Fresh(Pool1, W)
  BY <1>1, <1>2, RingSlotTaken
<1>4. Sound(Pool1, Slots) /\ \A s \in 1..Slots : Pool1.pins[s] = 0
  BY <1>3 DEF RingOK
<1>5. pending \in [Ring -> Transfer \cup {NoTransfer}]
  BY DEF RingNow, RingOK, RingTyped
<1> QED BY <1>1, <1>2, <1>3, <1>4, <1>5, SettledAwaits

(* A page that is loaded joins the pages W as a transfer. *)
LEMMA LoadJoins ==
  ASSUME RingNow, next_pip \in Ring, NEW k \in Key, NEW slot, EnqueueLoad(k, slot)
  PROVE  /\ RingNow' /\ next_pip' \in Ring /\ HeldIn(pool', slot, k)
         /\ \A W \in SUBSET Key : Room(W, k) /\ Fresh(pool, W) /\ Awaited(pool, W) =>
              Joined(pool, pool', W, k)
<1>1. PICK p, q, mem, stg, fen, que, i, pend :
        /\ p = Pool1 /\ q = pool' /\ mem = memory /\ stg = staging
        /\ fen = fence /\ que = queue /\ i = next_pip
        /\ pend = [pending EXCEPT ![i] = NoTransfer]
  OBVIOUS
<1>2. /\ CanReserve(p, k) /\ slot = SlotFor(p) /\ q = Reserve(p, k)
      /\ staging' = [stg EXCEPT ![i] = k] /\ fence' = [fen EXCEPT ![i] = FALSE]
      /\ queue' = que \cup {<<i, slot>>} /\ memory' = mem
      /\ pending' = [pending EXCEPT ![i] = [key |-> k, slot |-> slot]]
  BY <1>1 DEF EnqueueLoad
<1>3. /\ RingOK(p, pend, mem, stg, fen, que) /\ Settles(pool, p)
      /\ Sound(p, Slots) /\ \A s \in 1..Slots : p.pins[s] = 0
      /\ pending \in [Ring -> Transfer \cup {NoTransfer}] /\ next_pip' \in Ring /\ i \in Ring
      /\ \A W : Fresh(pool, W) /\ Awaited(pool, W) => Fresh(p, W) /\ Awaited(p, W)
  BY <1>1, RingSlotFree DEF EnqueueLoad
<1>4. pend[i] = NoTransfer /\ pending' = [pend EXCEPT ![i] = [key |-> k, slot |-> slot]]
  BY <1>1, <1>2, <1>3
<1>5. RingOK(q, pending', mem, staging', fence', queue')
  <2>1. PICK pend2, stg2, fen2, que2 : /\ pend2 = pending' /\ stg2 = staging'
                                       /\ fen2 = fence' /\ que2 = queue'
    OBVIOUS
  <2>2. RingOK(p, pend, mem, stg, fen, que) /\ i \in Ring
    BY <1>3
  <2>3. pend2 = [pend EXCEPT ![i] = [key |-> k, slot |-> slot]] /\ stg2 = [stg EXCEPT ![i] = k]
    BY <1>2, <1>4, <2>1
  <2>4. fen2 = [fen EXCEPT ![i] = FALSE] /\ que2 = que \cup {<<i, slot>>}
    BY <1>2, <2>1
  <2>5. pend[i] = NoTransfer /\ CanReserve(p, k) /\ q = Reserve(p, k) /\ slot = SlotFor(p)
    BY <1>2, <1>4
  <2>6. RingOK(q, pend2, mem, stg2, fen2, que2)
    BY <2>2, <2>3, <2>4, <2>5, TransferSubmitted, ZenonT(60)
  <2> QED BY <2>1, <2>6
<1>6. RingNow'
  BY <1>1, <1>2, <1>5 DEF RingNow
<1>7. HeldIn(q, slot, k)
  BY <1>2, <1>3, ReservedFresh DEF HeldIn
<1>8. ASSUME NEW W \in SUBSET Key, Room(W, k), Fresh(pool, W), Awaited(pool, W)
      PROVE  Joined(pool, q, W, k)
  <2>1. Fresh(p, W) /\ Awaited(p, W)
    BY <1>3, <1>8
  <2>2. Joined(p, q, W, k)
    BY <1>2, <1>3, <1>8, <2>1, ReservationJoins
  <2>3. Keeps(pool, p, W)
    BY <1>3, SettledKeeps
  <2>4. Keeps(pool, q, W)
    BY <2>2, <2>3, KeptTwice DEF Joined
  <2> QED BY <2>2, <2>4 DEF Joined
<1> QED BY <1>1, <1>3, <1>6, <1>7, <1>8

(* enqueue returns a slot that holds its page. *)
LEMMA EnqueueTakes ==
  ASSUME RingNow, next_pip \in Ring, NEW k \in Key, NEW slot, Enqueue(k, slot)
  PROVE  /\ RingNow' /\ next_pip' \in Ring /\ HeldIn(pool', slot, k)
         /\ \A W \in SUBSET Key : Room(W, k) /\ Fresh(pool, W) /\ Awaited(pool, W) =>
              Joined(pool, pool', W, k)
<1>1. CASE EnqueueHit(k, slot)
  <2>1. next_pip' = next_pip
    BY <1>1 DEF EnqueueHit, ring
  <2> QED BY <1>1, <2>1, HitJoins
<1>2. CASE EnqueuePending(k, slot)
  <2>1. next_pip' = next_pip
    BY <1>2 DEF EnqueuePending
  <2> QED BY <1>2, <2>1, PendingJoins
<1>3. CASE EnqueueLoad(k, slot)
  BY <1>3, LoadJoins
<1> QED BY <1>1, <1>2, <1>3 DEF Enqueue

(* An enqueue that fails gives no slot of the pages W away. *)
LEMMA EnqueueFailsSafely ==
  ASSUME RingNow, next_pip \in Ring, NEW k \in Key, EnqueueFails(k)
  PROVE  /\ RingNow' /\ next_pip' \in Ring
         /\ \A W \in SUBSET Key : Room(W, k) /\ Fresh(pool, W) /\ Awaited(pool, W) =>
              Keeps(pool, pool', W)
<1>1. CASE RefusePage(k)
  BY <1>1 DEF RefusePage, RingNow, ring, Keeps
<1>2. PICK p, q, mem, stg, fen, que, i, pend :
        /\ p = Pool1 /\ q = pool' /\ mem = memory /\ stg = staging
        /\ fen = fence /\ que = queue /\ i = next_pip
        /\ pend = [pending EXCEPT ![i] = NoTransfer]
  OBVIOUS
<1>3. CASE RefuseSlot(k)
  <2>1. /\ RingOK(p, pend, mem, stg, fen, que) /\ Settles(pool, p) /\ next_pip' \in Ring
    BY <1>2, <1>3, RingSlotFree DEF RefuseSlot
  <2>2. q = p /\ pending' = pend /\ UNCHANGED <<memory, staging, fence, queue>>
    BY <1>2, <1>3 DEF RefuseSlot
  <2>3. RingNow'
    BY <1>2, <2>1, <2>2 DEF RingNow
  <2> QED BY <1>2, <2>1, <2>2, <2>3, SettledKeeps
<1>4. CASE FailRead(k) \/ FailSubmit(k)
  <2>1. /\ TakeRingSlot(k) /\ CanReserve(p, k)
        /\ q = CancelLoading(Reserve(p, k), SlotFor(p), k)
        /\ pending' = pend /\ memory' = mem /\ queue' = que
    BY <1>2, <1>4 DEF FailRead, FailSubmit
  <2>2. /\ \E x \in Key \cup {Garbage} : staging' = [stg EXCEPT ![i] = x]
        /\ fence' = fen \/ fence' = [fen EXCEPT ![i] = FALSE]
    BY <1>2, <1>4 DEF FailRead, FailSubmit
  <2>3. /\ RingOK(p, pend, mem, stg, fen, que) /\ Settles(pool, p)
        /\ Sound(p, Slots) /\ \A s \in 1..Slots : p.pins[s] = 0
        /\ pending \in [Ring -> Transfer \cup {NoTransfer}] /\ next_pip' \in Ring /\ i \in Ring
        /\ \A W : Fresh(pool, W) /\ Awaited(pool, W) => Fresh(p, W) /\ Awaited(p, W)
    BY <1>2, <2>1, RingSlotFree
  <2>4. pend[i] = NoTransfer
    BY <1>2, <2>3
  <2>5. PICK t, stg2, fen2 : t = SlotFor(p) /\ stg2 = staging' /\ fen2 = fence'
    OBVIOUS
  <2>6. /\ RingOK(q, pend, mem, stg2, fen2, que)
        /\ t \in 1..Slots /\ \A u \in 1..Slots : u # t => q.state[u] = p.state[u]
    <3>1. RingOK(p, pend, mem, stg, fen, que) /\ i \in Ring /\ pend[i] = NoTransfer
      BY <2>3, <2>4
    <3>2. CanReserve(p, k) /\ q = CancelLoading(Reserve(p, k), t, k)
      BY <2>1, <2>5
    <3>3. \E x \in Key \cup {Garbage} : stg2 = [stg EXCEPT ![i] = x]
      BY <2>2, <2>5
    <3>4. fen2 = fen \/ fen2 = [fen EXCEPT ![i] = FALSE]
      BY <2>2, <2>5
    <3>5. PICK y : y = CancelLoading(Reserve(p, k), SlotFor(p), k)
      OBVIOUS
    <3>6. RingOK(y, pend, mem, stg2, fen2, que)
      BY <3>1, <3>2, <3>3, <3>4, <3>5, LoadAbandoned
    <3>7. SlotFor(p) \in 1..Slots /\ \A u \in 1..Slots : u # SlotFor(p) => y.state[u] = p.state[u]
      BY <3>1, <3>2, <3>3, <3>4, <3>5, LoadAbandoned
    <3>8. y = q
      BY <2>1, <3>5
    <3> QED BY <2>5, <3>6, <3>7, <3>8
  <2>7. RingNow'
    BY <1>2, <2>1, <2>5, <2>6 DEF RingNow
  <2>8. ASSUME NEW W \in SUBSET Key, Room(W, k), Fresh(pool, W), Awaited(pool, W)
        PROVE  Keeps(pool, q, W)
    <3>1. Fresh(p, W) /\ Awaited(p, W)
      BY <2>3, <2>8
    <3>2. \A w \in W : ~HeldIn(p, t, w)
      BY <2>1, <2>3, <2>5, <2>8, <3>1, ReservationJoins
    <3>3. Keeps(pool, p, W)
      BY <2>3, SettledKeeps
    <3>4. Keeps(p, q, W)
      <4> SUFFICES ASSUME NEW s \in 1..Slots, NEW w \in W
                   PROVE  /\ HeldIn(p, s, w) => HeldIn(q, s, w)
                          /\ p.state[s] = Ready(w) => q.state[s] = Ready(w)
        BY DEF Keeps
      <4>1. CASE s = t
        BY <3>2, <4>1 DEF HeldIn
      <4>2. CASE s # t
        BY <2>6, <4>2 DEF HeldIn
      <4> QED BY <4>1, <4>2
    <3> QED BY <3>3, <3>4, KeptTwice
  <2> QED BY <1>2, <2>3, <2>7, <2>8
<1> QED BY <1>1, <1>3, <1>4 DEF EnqueueFails

-----------------------------------------------------------------------------
(* The pages of a batch *)

(* A new element at the end of a sequence without repetitions. *)
LEMMA AppendedElement ==
  ASSUME NEW S, NEW q \in Seq(S), IsInjective(q), NEW s \in S, s \notin Range(q)
  PROVE  /\ Append(q, s) \in Seq(S) /\ IsInjective(Append(q, s))
         /\ Range(Append(q, s)) = Range(q) \cup {s}
<1>1. PICK m : m = Len(q)
  OBVIOUS
<1>2. m \in Nat /\ DOMAIN q = 1..m
  BY <1>1, LenProperties
<1>3. PICK r : r = Append(q, s)
  OBVIOUS
<1>4. /\ r \in Seq(S) /\ DOMAIN r = 1..(m + 1) /\ r[m + 1] = s
      /\ \A i \in 1..m : r[i] = q[i]
  <2>1. r \in Seq(S) /\ Len(r) = m + 1 /\ r[m + 1] = s /\ \A i \in 1..m : r[i] = q[i]
    BY <1>1, <1>3, AppendProperties
  <2> QED BY <2>1, LenProperties
<1>5. \A i \in 1..m : q[i] # s /\ \A j \in 1..m : q[i] = q[j] => i = j
  BY <1>2 DEF Range, IsInjective
<1>6. 1..(m + 1) = 1..m \cup {m + 1} /\ m + 1 \notin 1..m
  BY <1>2
<1>7. IsInjective(r)
  BY <1>4, <1>5, <1>6, SMTT(30) DEF IsInjective
<1>8. Range(r) = Range(q) \cup {s}
  BY <1>2, <1>4, <1>6 DEF Range
<1> QED BY <1>3, <1>4, <1>7, <1>8

(* The recursive function of Planned. *)
PlannedAt(f, keys, i) ==
  IF i = 0 THEN << >>
  ELSE IF Contains(f[i - 1], keys[i]) THEN f[i - 1] ELSE Append(f[i - 1], keys[i])
Plans(f, keys, n) == f = [i \in 0..n |-> PlannedAt(f, keys, i)]

(* It exists, for requests of any length. *)
LEMMA PlanExists ==
  ASSUME NEW keys, NEW n \in Nat
  PROVE  \E f : Plans(f, keys, n)
<1> DEFINE T == {m \in Nat : \E f : \A i \in 0..m : f[i] = PlannedAt(f, keys, i)}
<1>1. \A f, g, i : i = 0 \/ f[i - 1] = g[i - 1] => PlannedAt(f, keys, i) = PlannedAt(g, keys, i)
  BY DEF PlannedAt
<1>2. 0 \in T
  <2> DEFINE g == [i \in 0..0 |-> PlannedAt(<< >>, keys, i)]
  <2>1. \A i \in 0..0 : i = 0 /\ g[i] = PlannedAt(<< >>, keys, i)
    OBVIOUS
  <2> HIDE DEF g
  <2>2. \A i \in 0..0 : g[i] = PlannedAt(g, keys, i)
    BY <1>1, <2>1
  <2> QED BY <2>2
<1>3. ASSUME NEW m \in T PROVE m + 1 \in T
  <2>1. m \in Nat /\ m + 1 \in Nat
    OBVIOUS
  <2>2. PICK f : \A i \in 0..m : f[i] = PlannedAt(f, keys, i)
    OBVIOUS
  <2> DEFINE h == [i \in 0..(m + 1) |-> PlannedAt(f, keys, i)]
  <2>3. \A i \in 0..(m + 1) : h[i] = PlannedAt(f, keys, i)
    OBVIOUS
  <2> HIDE DEF h
  <2>4. ASSUME NEW i \in 0..(m + 1) PROVE h[i] = PlannedAt(h, keys, i)
    <3>1. i = 0 \/ (i - 1 \in 0..m /\ i - 1 \in 0..(m + 1))
      BY <2>1
    <3>2. i = 0 \/ h[i - 1] = f[i - 1]
      BY <2>2, <2>3, <3>1
    <3> QED BY <1>1, <2>3, <3>2
  <2> QED BY <2>1, <2>4
<1>4. T = Nat
  <2> HIDE DEF T
  <2>1. T \in SUBSET Nat
    BY DEF T
  <2> QED BY <1>2, <1>3, <2>1, NaturalInduction
<1>5. PICK f : \A i \in 0..n : f[i] = PlannedAt(f, keys, i)
  BY <1>4, ZenonT(40)
<1> DEFINE h == [i \in 0..n |-> f[i]]
<1>6. \A i \in 0..n : h[i] = f[i]
  OBVIOUS
<1>7. \A i \in 0..n : f[i] = PlannedAt(h, keys, i)
  <2> SUFFICES ASSUME NEW i \in 0..n PROVE f[i] = PlannedAt(h, keys, i)
    OBVIOUS
  <2> HIDE DEF h
  <2>1. i = 0 \/ i - 1 \in 0..n
    OBVIOUS
  <2> QED BY <1>1, <1>5, <1>6, <2>1
<1>8. h = [i \in 0..n |-> PlannedAt(h, keys, i)]
  <2>1. h = [i \in 0..n |-> f[i]]
    OBVIOUS
  <2> HIDE DEF h
  <2> QED BY <1>7, <2>1
<1> HIDE DEF h
<1> QED BY <1>8 DEF Plans

(* The plan grows by the pages it does not contain yet. *)
LEMMA PlanSteps ==
  ASSUME NEW keys, Len(keys) \in Nat, NEW f0, f0 = Planned(keys)
  PROVE  /\ f0[0] = << >>
         /\ \A i \in 1..Len(keys) : f0[i] = IF Contains(f0[i - 1], keys[i]) THEN f0[i - 1]
                                        ELSE Append(f0[i - 1], keys[i])
<1>1. PICK f : f = f0 /\ f = Planned(keys)
  OBVIOUS
<1>2. Len(keys) \in Nat
  OBVIOUS
<1>3. f = CHOOSE g : Plans(g, keys, Len(keys))
  BY <1>1 DEF Planned, PlannedAt, Plans
<1>4. Plans(f, keys, Len(keys))
  <2>1. \E g : Plans(g, keys, Len(keys))
    BY <1>2, PlanExists
  <2> QED BY <1>3, <2>1, Zenon
<1>5. \A i \in 0..Len(keys) : f[i] = PlannedAt(f, keys, i)
  <2>1. PICK g : g = [i \in 0..Len(keys) |-> PlannedAt(f, keys, i)]
    OBVIOUS
  <2>2. \A i \in 0..Len(keys) : g[i] = PlannedAt(f, keys, i)
    BY <2>1
  <2>3. f = g
    BY <1>4, <2>1 DEF Plans
  <2> QED BY <2>2, <2>3
<1>6. 0 \in 0..Len(keys) /\ \A i \in 1..Len(keys) : i \in 0..Len(keys) /\ i # 0
  BY <1>2
<1>7. f[0] = PlannedAt(f, keys, 0) /\ \A i \in 1..Len(keys) : f[i] = PlannedAt(f, keys, i)
  BY <1>5, <1>6
<1>8. /\ PlannedAt(f, keys, 0) = << >>
      /\ \A i : i # 0 => PlannedAt(f, keys, i) = IF Contains(f[i - 1], keys[i]) THEN f[i - 1]
                                        ELSE Append(f[i - 1], keys[i])
  BY DEF PlannedAt
<1> QED BY <1>1, <1>6, <1>7, <1>8

(* A plan has the pages of the request, each once. *)
LEMMA DistinctPages ==
  ASSUME NEW keys \in Seq(Key)
  PROVE  /\ Distinct(keys) \in Seq(Key) /\ IsInjective(Distinct(keys))
         /\ Range(Distinct(keys)) = Range(keys)
<1>1. PICK f, n : f = Planned(keys) /\ n = Len(keys)
  OBVIOUS
<1>2. /\ n \in Nat /\ f[0] = << >> /\ DOMAIN keys = 1..n /\ \A i \in 1..n : keys[i] \in Key
      /\ \A i \in 1..n : f[i] = IF Contains(f[i - 1], keys[i]) THEN f[i - 1]
                                ELSE Append(f[i - 1], keys[i])
  BY <1>1, PlanSteps, LenProperties, ElementOfSeq
<1> DEFINE P(i) == /\ f[i] \in Seq(Key) /\ IsInjective(f[i])
                   /\ Range(f[i]) = {keys[j] : j \in 1..i}
           T == {i \in Nat : i <= n => P(i)}
<1>3. 0 \in T
  <2>1. << >> \in Seq(Key) /\ IsInjective(<< >>) /\ Range(<< >>) = {}
    BY DEF IsInjective, Range
  <2>2. {keys[j] : j \in 1..0} = {}
    OBVIOUS
  <2> QED BY <1>2, <2>1, <2>2
<1>4. ASSUME NEW i \in T PROVE i + 1 \in T
  <2>1. i \in Nat /\ i + 1 \in Nat /\ i + 1 - 1 = i
    OBVIOUS
  <2>2. ASSUME i + 1 <= n PROVE P(i + 1)
    <3>1. i <= n /\ i + 1 \in 1..n
      BY <1>2, <2>1, <2>2
    <3>2. PICK q, r, k : q = f[i] /\ r = f[i + 1] /\ k = keys[i + 1]
      OBVIOUS
    <3>3. q \in Seq(Key) /\ IsInjective(q) /\ Range(q) = {keys[j] : j \in 1..i} /\ k \in Key
      BY <1>2, <3>1, <3>2
    <3>4. r = IF Contains(q, k) THEN q ELSE Append(q, k)
      BY <1>2, <2>1, <3>1, <3>2
    <3>5. Contains(q, k) <=> k \in Range(q)
      <4>1. DOMAIN q = 1..Len(q)
        BY <3>3, LenProperties
      <4> QED BY <4>1 DEF Contains, Range
    <3>6. r \in Seq(Key) /\ IsInjective(r) /\ Range(r) = Range(q) \cup {k}
      <4>1. CASE k \in Range(q)
        BY <3>3, <3>4, <3>5, <4>1
      <4>2. CASE k \notin Range(q)
        BY <3>3, <3>4, <3>5, <4>2, AppendedElement
      <4> QED BY <4>1, <4>2
    <3>7. {keys[j] : j \in 1..(i + 1)} = {keys[j] : j \in 1..i} \cup {k}
      <4>1. \A j : j \in 1..(i + 1) <=> j \in 1..i \/ j = i + 1
        BY <2>1
      <4> QED BY <3>2, <4>1
    <3> QED BY <3>2, <3>3, <3>6, <3>7
  <2> QED BY <2>1, <2>2
<1>5. n \in T
  <2>1. T \in SUBSET Nat
    OBVIOUS
  <2> HIDE DEF T
  <2>2. T = Nat
    BY <1>3, <1>4, <2>1, NaturalInduction
  <2> QED BY <1>2, <2>2
<1>6. P(n)
  BY <1>2, <1>5
<1>7. Range(keys) = {keys[j] : j \in 1..n}
  BY <1>2 DEF Range
<1> QED BY <1>1, <1>6, <1>7 DEF Distinct

(* The first pages of a batch are at most as many as their slots. *)
LEMMA FirstPages ==
  ASSUME NEW keys, NEW m \in Nat
  PROVE  LET W == {keys[i] : i \in 1..m} IN IsFiniteSet(W) /\ Cardinality(W) <= m
<1>1. PICK W, f : W = {keys[i] : i \in 1..m} /\ f = [i \in 1..m |-> keys[i]]
  OBVIOUS
<1>2. f \in Surjection(1..m, W)
  <2>1. f \in [1..m -> W]
    BY <1>1
  <2>2. \A w \in W : \E i \in 1..m : f[i] = w
    BY <1>1
  <2> QED BY <2>1, <2>2 DEF Surjection
<1>3. IsFiniteSet(1..m) /\ Cardinality(1..m) = m
  BY FS_Interval
<1> QED BY <1>1, <1>2, <1>3, FS_Surjection

-----------------------------------------------------------------------------
(* The calls *)

(* wait_all *)
LEMMA WaitAllDrains ==
  ASSUME RingNow, WaitAll
  PROVE  /\ RingNow' /\ queue' = {} /\ next_pip' = next_pip /\ pending' = NothingPending
         /\ Settles(pool, pool') /\ \A s \in 1..Slots, k \in Key : pool'.state[s] # Loading(k)
         /\ \A W : Fresh(pool, W) => Fresh(pool', W \cup PendingPages)
<1>1. /\ pool' = Settled /\ pending' = NothingPending
      /\ UNCHANGED <<memory, staging, fence, next_pip, queue>>
  BY DEF WaitAll, NothingPending
<1>2. /\ RingOK(Settled, NothingPending, memory, staging, fence, queue)
      /\ queue = {} /\ Settles(pool, Settled)
      /\ \A s \in 1..Slots, k \in Key : Settled.state[s] # Loading(k)
      /\ \A W : Fresh(pool, W) => Fresh(Settled, W \cup PendingPages)
  BY RingDrained DEF WaitAll
<1>3. RingNow'
  <2>1. PICK p, pend : p = Settled /\ pend = NothingPending
    OBVIOUS
  <2>2. RingOK(p, pend, memory, staging, fence, queue) /\ pool' = p /\ pending' = pend
    BY <1>1, <1>2, <2>1
  <2> QED BY <1>1, <2>2 DEF RingNow
<1> QED BY <1>1, <1>2, <1>3

(* Pages that keep their slots are still held. *)
LEMMA SettledHolds ==
  ASSUME NEW p, NEW q, Settles(p, q), NEW s, NEW k \in Key, HeldIn(p, s, k)
  PROVE  HeldIn(q, s, k)
BY DEF Settles, HeldIn

(* A batch call in progress keeps the slots it has. *)
LEMMA BatchSettles ==
  ASSUME NEW p, NEW q, Settles(p, q), NEW b, BatchOK(p, b)
  PROVE  BatchOK(q, b)
<1>1. \A i \in 1..Len(b.slots) : HeldIn(q, b.slots[i], b.keys[i])
  <2> SUFFICES ASSUME NEW i \in 1..Len(b.slots) PROVE HeldIn(q, b.slots[i], b.keys[i])
    OBVIOUS
  <2>1. b.keys \in Seq(Key) /\ b.slots \in Seq(1..Slots) /\ Len(b.slots) <= Len(b.keys)
    BY DEF BatchOK, Batch
  <2>2. PICK m, n : m = Len(b.slots) /\ n = Len(b.keys)
    OBVIOUS
  <2>3. m \in Nat /\ n \in Nat /\ m <= n /\ i \in 1..m
    BY <2>1, <2>2, LenProperties
  <2>4. i \in 1..n
    BY <2>3
  <2>5. b.keys[i] \in Key
    BY <2>1, <2>2, <2>4, ElementOfSeq
  <2> QED BY <2>5, SettledHolds DEF BatchOK
<1> QED BY <1>1 DEF BatchOK

(* batch_enqueue begins with an empty list of slots and nothing on its way. *)
LEMMA BatchBegins ==
  ASSUME LoaderInv, NEW keys \in Seq(Key), BeginBatch(keys)
  PROVE  /\ LoaderInv' /\ Settles(pool, pool') /\ returned' = {} /\ pending' = NothingPending
         /\ \A W : Fresh(pool, W) => Fresh(pool', W \cup PendingPages)
         /\ \A s \in 1..Slots, k \in Key : pool'.state[s] # Loading(k)
         /\ batch' # NoBatch => /\ batch'.slots = << >> /\ batch'.keys = Distinct(keys)
                                /\ Range(batch'.keys) = Range(keys)
<1>1. /\ RingNow /\ next_pip \in Ring /\ open /\ open \in BOOLEAN /\ WaitAll /\ open' = open
      /\ returned' = {}
      /\ batch' = IF Len(Distinct(keys)) > Slots THEN NoBatch
                  ELSE [keys |-> Distinct(keys), slots |-> << >>]
  BY DEF LoaderInv, RingInv, RingNow, CallsOK, BeginBatch, Idle
<1>2. /\ RingNow' /\ queue' = {} /\ next_pip' = next_pip /\ pending' = NothingPending
      /\ Settles(pool, pool') /\ \A s \in 1..Slots, k \in Key : pool'.state[s] # Loading(k)
      /\ \A W : Fresh(pool, W) => Fresh(pool', W \cup PendingPages)
  BY <1>1, WaitAllDrains
<1>3. PICK ks : ks = Distinct(keys)
  OBVIOUS
<1>4. ks \in Seq(Key) /\ IsInjective(ks) /\ Len(ks) \in Nat /\ Slots \in Nat /\ Range(ks) = Range(keys)
  BY <1>3, DistinctPages, LenProperties, LoaderAssumption
<1>5. PICK b : b = [keys |-> ks, slots |-> << >>]
  OBVIOUS
<1>6. batch' # NoBatch => batch' = b /\ Len(ks) <= Slots
  BY <1>1, <1>3, <1>4, <1>5
<1>7. b \in Batch /\ b.keys = ks /\ b.slots = << >> /\ Len(b.slots) = 0
  BY <1>4, <1>5 DEF Batch
<1>8. ASSUME Len(ks) <= Slots PROVE BatchOK(pool', b) /\ Guarded(pool', b)
  <2>1. BatchOK(pool', b)
    BY <1>4, <1>7, <1>8 DEF BatchOK
  <2>2. Prefix(b) = {}
    BY <1>7 DEF Prefix
  <2>3. Fresh(pool', {})
    BY DEF Fresh, Ordered, ReadySlots
  <2>4. Awaited(pool', {})
    BY <1>2 DEF Awaited
  <2> QED BY <2>1, <2>2, <2>3, <2>4 DEF Guarded
<1>9. CallsOK'
  BY <1>1, <1>6, <1>8 DEF CallsOK
<1>10. RingInv'
  BY <1>1, <1>2 DEF RingInv, RingNow
<1>11. LoaderInv'
  BY <1>6, <1>8, <1>9, <1>10 DEF LoaderInv
<1> QED BY <1>1, <1>2, <1>3, <1>4, <1>6, <1>7, <1>11

(* flush leaves every page in its slot. *)
LEMMA FlushKeeps ==
  ASSUME LoaderInv, Flush
  PROVE  LoaderInv'
<1>1. /\ RingNow /\ next_pip \in Ring /\ open /\ batch = NoBatch /\ WaitAll
      /\ UNCHANGED <<batch, returned, open>> /\ CallsOK
  BY DEF LoaderInv, RingInv, RingNow, Flush, Idle
<1>2. RingNow' /\ next_pip' = next_pip /\ Settles(pool, pool')
  BY <1>1, WaitAllDrains
<1>3. CallsOK'
  BY <1>1, <1>2, SettledHolds DEF CallsOK
<1> QED BY <1>1, <1>2, <1>3 DEF LoaderInv, RingInv, RingNow

(* The drain between two waves. *)
LEMMA DrainKeeps ==
  ASSUME LoaderInv, DrainWave
  PROVE  LoaderInv' /\ Settles(pool, pool')
<1>1. /\ RingNow /\ next_pip \in Ring /\ batch # NoBatch /\ WaitAll
      /\ UNCHANGED <<batch, returned, open>> /\ CallsOK /\ Guarded(pool, batch)
  BY DEF LoaderInv, RingInv, RingNow, DrainWave
<1>2. /\ RingNow' /\ next_pip' = next_pip /\ Settles(pool, pool')
      /\ \A W : Fresh(pool, W) => Fresh(pool', W \cup PendingPages)
  BY <1>1, WaitAllDrains
<1>3. BatchOK(pool', batch')
  BY <1>1, <1>2, BatchSettles DEF CallsOK
<1>4. CallsOK'
  BY <1>1, <1>3 DEF CallsOK
<1>5. PICK W : W = Prefix(batch)
  OBVIOUS
<1>6. Fresh(pool, W) /\ Awaited(pool, W)
  BY <1>1, <1>5 DEF Guarded
<1>7. PendingPages \subseteq W
  <2> SUFFICES ASSUME NEW i \in Ring, pending[i] # NoTransfer PROVE pending[i].key \in W
    BY DEF PendingPages
  <2>1. /\ pending[i].key \in Key /\ pending[i].slot \in 1..Slots
        /\ pool.state[pending[i].slot] = Loading(pending[i].key)
    BY <1>1, PendingTransfers DEF RingNow
  <2> QED BY <1>6, <2>1 DEF Awaited
<1>8. W \cup PendingPages = W
  BY <1>7
<1>9. Fresh(pool', W)
  <2>1. Fresh(pool', W \cup PendingPages)
    BY <1>2, <1>6
  <2> QED BY <1>8, <2>1
<1>10. Awaited(pool', W)
  BY <1>2, <1>6, SettledAwaits
<1>11. Guarded(pool', batch')
  BY <1>1, <1>5, <1>9, <1>10 DEF Guarded
<1> QED BY <1>1, <1>2, <1>4, <1>11 DEF LoaderInv, RingInv, RingNow

(* The page batch_enqueue is at, and the pages it has slots for. *)
LEMMA BatchPage ==
  ASSUME NEW p, NEW b, BatchOK(p, b), NEW n, n = Len(b.slots), n < Len(b.keys)
  PROVE  /\ n \in Nat /\ b.keys[n + 1] \in Key /\ Prefix(b) \in SUBSET Key
         /\ \A i \in 1..n : b.keys[i] \in Prefix(b)
         /\ Prefix(b) \cup {b.keys[n + 1]} = {b.keys[i] : i \in 1..(n + 1)}
         /\ Room(Prefix(b), b.keys[n + 1])
<1>1. PICK ks, m : ks = b.keys /\ m = Len(b.keys)
  OBVIOUS
<1>2. /\ ks \in Seq(Key) /\ m \in Nat /\ n \in Nat /\ m <= Slots /\ Slots \in Nat
      /\ \A i \in 1..m : ks[i] \in Key
  BY <1>1, LenProperties, ElementOfSeq, LoaderAssumption DEF BatchOK, Batch
<1>3. n + 1 \in 1..m /\ \A i \in 1..n : i \in 1..m
  BY <1>1, <1>2
<1>4. Prefix(b) = {ks[i] : i \in 1..n}
  BY <1>1 DEF Prefix
<1>5. {ks[i] : i \in 1..n} \cup {ks[n + 1]} = {ks[i] : i \in 1..(n + 1)}
  <2>1. \A i : i \in 1..(n + 1) <=> i \in 1..n \/ i = n + 1
    BY <1>2
  <2> QED BY <2>1
<1>6. Prefix(b) \in SUBSET Key
  BY <1>2, <1>3, <1>4
<1>7. Room(Prefix(b), ks[n + 1])
  <2>1. PICK W : W = {ks[i] : i \in 1..(n + 1)}
    OBVIOUS
  <2>2. IsFiniteSet(W) /\ Cardinality(W) <= n + 1 /\ n + 1 \in Nat
    <3>1. PICK c : c = n + 1
      OBVIOUS
    <3>2. c \in Nat
      BY <1>2, <3>1
    <3>3. IsFiniteSet({ks[i] : i \in 1..c}) /\ Cardinality({ks[i] : i \in 1..c}) <= c
      BY <3>2, FirstPages
    <3> QED BY <2>1, <3>1, <3>2, <3>3
  <2>3. Cardinality(W) \in Nat
    BY <2>2, FS_CardinalityType
  <2>4. Cardinality(W) <= Slots
    BY <1>1, <1>2, <1>3, <2>2, <2>3
  <2> QED BY <1>4, <1>5, <2>1, <2>2, <2>4 DEF Room
<1>8. \A i \in 1..n : b.keys[i] \in Prefix(b)
  BY <1>1, <1>4
<1>9. Prefix(b) \cup {b.keys[n + 1]} = {b.keys[i] : i \in 1..(n + 1)}
  BY <1>1, <1>4, <1>5
<1>10. n \in Nat /\ b.keys[n + 1] \in Key
  BY <1>1, <1>2, <1>3
<1> QED BY <1>1, <1>6, <1>7, <1>8, <1>9, <1>10

(* One page of a batch: with its slot the batch goes on, with an error it is
   over. *)
LEMMA BatchNextKeeps ==
  ASSUME LoaderInv, BatchNext
  PROVE  LoaderInv'
<1>1. PICK b, n, k : b = batch /\ n = Len(b.slots) /\ k = b.keys[n + 1]
  OBVIOUS
<1>2. /\ RingNow /\ next_pip \in Ring /\ b # NoBatch /\ n < Len(b.keys)
      /\ BatchOK(pool, b) /\ Fresh(pool, Prefix(b)) /\ Awaited(pool, Prefix(b))
      /\ returned = {} /\ open /\ open \in BOOLEAN
      /\ UNCHANGED <<returned, open>>
  BY <1>1 DEF LoaderInv, RingInv, RingNow, BatchNext, CallsOK, Guarded
<1>3. /\ n \in Nat /\ k \in Key /\ Prefix(b) \in SUBSET Key
      /\ \A i \in 1..n : b.keys[i] \in Prefix(b)
      /\ Prefix(b) \cup {k} = {b.keys[i] : i \in 1..(n + 1)}
      /\ Room(Prefix(b), k)
  BY <1>1, <1>2, BatchPage
<1>4. \/ \E slot \in 1..Slots : Enqueue(k, slot) /\ batch' = [b EXCEPT !.slots = Append(@, slot)]
      \/ EnqueueFails(k) /\ batch' = NoBatch
  BY <1>1 DEF BatchNext
<1>5. ASSUME NEW slot \in 1..Slots, Enqueue(k, slot), batch' = [b EXCEPT !.slots = Append(@, slot)]
      PROVE  LoaderInv'
  <2>1. /\ RingNow' /\ next_pip' \in Ring /\ HeldIn(pool', slot, k)
        /\ Joined(pool, pool', Prefix(b), k)
    <3>1. /\ RingNow' /\ next_pip' \in Ring /\ HeldIn(pool', slot, k)
          /\ \A W \in SUBSET Key : Room(W, k) /\ Fresh(pool, W) /\ Awaited(pool, W) =>
               Joined(pool, pool', W, k)
      BY <1>2, <1>3, <1>5, EnqueueTakes
    <3> QED BY <1>2, <1>3, <3>1
  <2>2. PICK c : c = batch'
    OBVIOUS
  <2>3. PICK ks, ss : ks = b.keys /\ ss = b.slots
    OBVIOUS
  <2>4. /\ ks \in Seq(Key) /\ ss \in Seq(1..Slots) /\ b = [keys |-> ks, slots |-> ss]
        /\ IsInjective(ks) /\ Len(ks) \in Nat /\ Len(ks) <= Slots /\ Len(ss) = n
    BY <1>1, <1>2, <2>3, LenProperties DEF BatchOK, Batch
  <2>5. PICK ss2 : ss2 = Append(ss, slot)
    OBVIOUS
  <2>6. /\ ss2 \in Seq(1..Slots) /\ Len(ss2) = n + 1 /\ ss2[n + 1] = slot
        /\ \A i \in 1..n : ss2[i] = ss[i]
    BY <2>4, <2>5, AppendProperties
  <2>7. c = [keys |-> ks, slots |-> ss2]
    BY <1>5, <2>2, <2>3, <2>4, <2>5
  <2>8. c \in Batch /\ c.keys = ks /\ c.slots = ss2 /\ Len(c.slots) = n + 1
    BY <2>4, <2>6, <2>7 DEF Batch
  <2>9. Prefix(c) = Prefix(b) \cup {k}
    BY <1>3, <2>3, <2>8 DEF Prefix
  <2>10. ASSUME NEW i \in 1..(n + 1) PROVE HeldIn(pool', ss2[i], ks[i])
    <3>1. CASE i = n + 1
      BY <1>1, <2>1, <2>3, <2>6, <3>1
    <3>2. CASE i \in 1..n
      <4>1. HeldIn(pool, ss[i], ks[i]) /\ ks[i] \in Prefix(b)
        BY <1>1, <1>2, <1>3, <2>3, <3>2 DEF BatchOK
      <4>2. HeldIn(pool', ss[i], ks[i])
        <5>1. Keeps(pool, pool', Prefix(b))
          BY <2>1 DEF Joined
        <5> QED BY <4>1, <5>1, HeldKept
      <4> QED BY <2>6, <3>2, <4>2
    <3> QED BY <1>3, <3>1, <3>2
  <2>11. BatchOK(pool', c)
    <3>1. n + 1 <= Len(ks)
      BY <1>1, <1>2, <1>3, <2>3, <2>4
    <3> QED BY <2>4, <2>8, <2>10, <3>1 DEF BatchOK
  <2>12. Guarded(pool', c)
    BY <2>1, <2>9 DEF Joined, Guarded
  <2>13. CallsOK'
    BY <1>2, <2>2, <2>11 DEF CallsOK
  <2> QED BY <2>1, <2>2, <2>12, <2>13 DEF LoaderInv, RingInv, RingNow
<1>6. ASSUME EnqueueFails(k), batch' = NoBatch PROVE LoaderInv'
  <2>1. RingNow' /\ next_pip' \in Ring
    BY <1>2, <1>3, <1>6, EnqueueFailsSafely
  <2> QED BY <1>2, <1>6, <2>1 DEF LoaderInv, RingInv, RingNow, CallsOK
<1> QED BY <1>4, <1>5, <1>6

(* batch_enqueue returns the pages with their slots. *)
LEMMA BatchReturnsKeeps ==
  ASSUME LoaderInv, BatchReturns
  PROVE  LoaderInv' /\ \A i \in DOMAIN batch.keys : HeldIn(pool, batch.slots[i], batch.keys[i])
<1>1. PICK b : b = batch
  OBVIOUS
<1>2. /\ RingInv /\ BatchOK(pool, b) /\ open /\ open \in BOOLEAN /\ Len(b.slots) = Len(b.keys)
      /\ returned' = {<<b.keys[i], b.slots[i]>> : i \in DOMAIN b.keys}
      /\ batch' = NoBatch /\ UNCHANGED <<pool, memory, ring, open>>
  BY <1>1 DEF LoaderInv, CallsOK, BatchReturns
<1>3. b.keys \in Seq(Key) /\ DOMAIN b.keys = 1..Len(b.keys) /\ \A i \in DOMAIN b.keys : b.keys[i] \in Key
  BY <1>2, LenProperties, ElementOfSeq DEF BatchOK, Batch
<1>4. \A i \in DOMAIN b.keys : HeldIn(pool, b.slots[i], b.keys[i])
  BY <1>2, <1>3 DEF BatchOK
<1>5. \A r \in returned' : r[1] \in Key /\ HeldIn(pool', r[2], r[1])
  BY <1>2, <1>3, <1>4
<1>6. RingInv'
  BY <1>2 DEF RingInv, ring
<1>7. CallsOK'
  BY <1>2, <1>5 DEF CallsOK
<1> QED BY <1>1, <1>2, <1>4, <1>6, <1>7 DEF LoaderInv

(* One page by itself. *)
LEMMA EnsureExpertKeeps ==
  ASSUME LoaderInv, NEW k \in Key, EnsureExpert(k)
  PROVE  LoaderInv'
<1>1. /\ RingNow /\ next_pip \in Ring /\ batch = NoBatch /\ open /\ open \in BOOLEAN
      /\ batch' = NoBatch /\ open' = open
  BY DEF LoaderInv, RingInv, RingNow, CallsOK, EnsureExpert, Idle
<1>2. ASSUME NEW slot \in 1..Slots, Enqueue(k, slot), returned' = {<<k, slot>>} PROVE LoaderInv'
  <2>1. RingNow' /\ next_pip' \in Ring /\ HeldIn(pool', slot, k)
    BY <1>1, <1>2, EnqueueTakes
  <2>2. CallsOK'
    BY <1>1, <1>2, <2>1 DEF CallsOK
  <2> QED BY <1>1, <2>1, <2>2 DEF LoaderInv, RingInv, RingNow
<1>3. ASSUME EnqueueFails(k), returned' = {} PROVE LoaderInv'
  <2>1. RingNow' /\ next_pip' \in Ring
    BY <1>1, <1>3, EnqueueFailsSafely
  <2>2. CallsOK'
    BY <1>1, <1>3 DEF CallsOK
  <2> QED BY <1>1, <2>1, <2>2 DEF LoaderInv, RingInv, RingNow
<1> QED BY <1>2, <1>3 DEF EnsureExpert

(* The GPU executes a copy whenever it likes. *)
LEMMA CopyKeeps ==
  ASSUME LoaderInv, NEW pip, NEW slot, ExecuteCopy(pip, slot)
  PROVE  LoaderInv'
<1>1. /\ <<pip, slot>> \in queue /\ memory' = [memory EXCEPT ![slot] = staging[pip]]
      /\ fence' = [fence EXCEPT ![pip] = TRUE] /\ queue' = queue \ {<<pip, slot>>}
      /\ UNCHANGED <<pool, staging, pending, next_pip, batch, returned, open>>
  BY DEF ExecuteCopy
<1>2. RingNow'
  <2>1. PICK mem2, fen2, que2 : mem2 = memory' /\ fen2 = fence' /\ que2 = queue'
    OBVIOUS
  <2>2. RingOK(pool, pending, memory, staging, fence, queue)
    BY DEF LoaderInv, RingInv
  <2>3. RingOK(pool, pending, mem2, staging, fen2, que2)
    BY <1>1, <2>1, <2>2, CopyExecuted
  <2> QED BY <1>1, <2>1, <2>3 DEF RingNow
<1>3. CallsOK'
  BY <1>1 DEF LoaderInv, CallsOK
<1> QED BY <1>1, <1>2, <1>3 DEF LoaderInv, RingInv, RingNow

(* After destroy no copy is in flight. *)
LEMMA DestroyKeeps ==
  ASSUME LoaderInv, Destroy
  PROVE  LoaderInv'
<1>1. /\ RingInv /\ CallsOK /\ batch = NoBatch /\ \A pip \in Ring : Signaled(pip)
      /\ open' = FALSE /\ UNCHANGED <<pool, memory, ring, batch, returned>>
  BY DEF LoaderInv, Destroy, Idle
<1>2. queue = {}
  BY <1>1, RingDrained DEF RingInv, RingNow
<1>3. RingInv'
  BY <1>1 DEF RingInv, ring
<1>4. CallsOK'
  <2>1. queue' = {} /\ batch' = NoBatch /\ open' \in BOOLEAN
    BY <1>1, <1>2 DEF ring
  <2> QED BY <1>1, <2>1 DEF CallsOK
<1> QED BY <1>1, <1>3, <1>4 DEF LoaderInv

-----------------------------------------------------------------------------
(* The theorems *)

(* Nothing is loaded at first. *)
LEMMA LoaderInit == Init => LoaderInv
<1> SUFFICES ASSUME Init PROVE LoaderInv
  OBVIOUS
<1>1. PICK p : p = pool
  OBVIOUS
<1>2. p = NewPool(Slots) /\ Slots \in Nat
  BY <1>1, LoaderAssumption DEF Init
<1>3. /\ Sound(p, Slots) /\ \A s \in 1..Slots : p.state[s] = Empty /\ p.pins[s] = 0
  BY <1>2, NewPoolIsSound
<1>4. \A s \in 1..Slots : \A k : p.state[s] # Loading(k) /\ p.state[s] # Ready(k)
  BY <1>3, StatesDiffer
<1>5. /\ RingTyped(pending, memory, staging, fence) /\ queue = {}
      /\ \A pip \in Ring : pending[pip] = NoTransfer
  BY DEF Init, RingTyped
<1>6. /\ Carried(p, pending, memory, staging, fence, queue) /\ Matched(p, pending)
      /\ Flying(pending, queue) /\ Filled(p, memory)
  BY <1>4, <1>5 DEF Carried, Matched, Flying, Filled
<1>7. next_pip \in Ring
  <2>1. 1 \in 1..Depth
    BY LoaderAssumption
  <2> QED BY <2>1 DEF Init, Ring
<1>8. CallsOK /\ batch = NoBatch
  BY DEF Init, CallsOK
<1> QED BY <1>1, <1>3, <1>5, <1>6, <1>7, <1>8 DEF LoaderInv, RingInv, RingOK

(* No step disturbs the invariant. *)
LEMMA LoaderNext == LoaderInv /\ [Next]_vars => LoaderInv'
<1> SUFFICES ASSUME LoaderInv, [Next]_vars PROVE LoaderInv'
  OBVIOUS
<1>1. ASSUME NEW pip \in Ring, NEW slot \in 1..Slots, ExecuteCopy(pip, slot) PROVE LoaderInv'
  BY <1>1, CopyKeeps
<1>2. ASSUME NEW k \in Key, EnsureExpert(k) PROVE LoaderInv'
  BY <1>2, EnsureExpertKeeps
<1>3. CASE Flush
  BY <1>3, FlushKeeps
<1>4. ASSUME NEW keys \in Batches, BeginBatch(keys) PROVE LoaderInv'
  <2>1. keys \in Seq(Key)
    BY LoaderAssumption
  <2> QED BY <1>4, <2>1, BatchBegins
<1>5. CASE DrainWave
  BY <1>5, DrainKeeps
<1>6. CASE BatchNext
  BY <1>6, BatchNextKeeps
<1>7. CASE BatchReturns
  BY <1>7, BatchReturnsKeeps
<1>8. CASE Destroy
  BY <1>8, DestroyKeeps
<1>9. CASE UNCHANGED vars
  BY <1>9 DEF vars, ring, LoaderInv, RingInv, CallsOK
<1> QED BY <1>1, <1>2, <1>3, <1>4, <1>5, <1>6, <1>7, <1>8, <1>9 DEF Next

(* The inductive invariant of the loader: pool, ring, queue and bytes agree,
   and the pages of a batch in progress are the most recently used ones. *)
THEOREM LoaderInvariance == Spec => []LoaderInv
<1>1. Init => LoaderInv
  BY LoaderInit
<1>2. LoaderInv /\ [Next]_vars => LoaderInv'
  BY LoaderNext
<1> QED BY <1>1, <1>2, PTL DEF Spec

(* What the invariant says of the state alone; the forward pass uses it too. *)
LEMMA VisibleLoaded == LoaderInv => VisiblePagesAreLoaded
<1> SUFFICES ASSUME LoaderInv, NEW k \in DOMAIN pool.index PROVE memory[pool.index[k]] = k
  BY DEF VisiblePagesAreLoaded
<1>1. PICK p : p = pool
  OBVIOUS
<1>2. Sound(p, Slots) /\ Filled(p, memory) /\ Slots \in Nat
  BY <1>1, LoaderAssumption DEF LoaderInv, RingInv, RingOK
<1>3. k \in Key /\ p.index[k] \in 1..Slots /\ p.state[p.index[k]] = Ready(k)
  BY <1>1, <1>2, SoundSlots DEF Visible
<1> QED BY <1>1, <1>2, <1>3 DEF Filled

(* A page that a lookup finds is the page whose bytes are in its slot, for
   every depth of the ring: a staging buffer is reused, and a page shown, only
   after the copy. *)
THEOREM VisiblePagesLoaded == Spec => []VisiblePagesAreLoaded
<1>1. LoaderInv => VisiblePagesAreLoaded
  BY VisibleLoaded
<1> QED BY <1>1, LoaderInvariance, PTL

(* The ring, the GPU queue and the Loading slots tell the same story, whatever
   loads fail: every Loading slot belongs to exactly one pending transfer, and
   the fence of a transfer is unsignaled exactly while its copy runs. *)
THEOREM TransfersTracked == Spec => []InFlightTracked
<1>1. LoaderInv => InFlightTracked
  <2> SUFFICES ASSUME LoaderInv PROVE InFlightTracked
    OBVIOUS
  <2>1. /\ Sound(pool, Slots) /\ Carried(pool, pending, memory, staging, fence, queue)
        /\ Matched(pool, pending) /\ Flying(pending, queue) /\ Slots \in Nat
    BY LoaderAssumption DEF LoaderInv, RingInv, RingOK
  <2>2. \A c \in queue : pending[c[1]] # NoTransfer /\ pending[c[1]].slot = c[2]
    BY <2>1 DEF Flying
  <2>3. \A pip \in Ring : pending[pip] # NoTransfer =>
          /\ pool.state[pending[pip].slot] = Loading(pending[pip].key)
          /\ fence[pip] <=> <<pip, pending[pip].slot>> \notin queue
    BY <2>1 DEF Carried
  <2>4. ASSUME NEW s \in 1..Slots, pool.state[s].tag = "Loading"
        PROVE  Cardinality({pip \in Ring : pending[pip] # NoTransfer /\ pending[pip].slot = s}) = 1
    <3>1. pool.state[s] \in SlotState
      BY <2>1, SlotsOfPool DEF Sound
    <3>2. PICK k \in Key : pool.state[s] = Loading(k)
      BY <2>4, <3>1, Tags
    <3>3. PICK i \in Ring : pending[i] # NoTransfer /\ pending[i].slot = s
      BY <2>1, <3>2 DEF Matched
    <3>4. {pip \in Ring : pending[pip] # NoTransfer /\ pending[pip].slot = s} = {i}
      BY <2>1, <3>3 DEF Matched
    <3> QED BY <3>4, FS_Singleton
  <2> QED BY <2>2, <2>3, <2>4 DEF InFlightTracked
<1> QED BY <1>1, LoaderInvariance, PTL

(* The slots a call returned hold their pages until the next call: no page of
   a batch makes room for a later page of the same batch, although nothing
   pins it, because the least recently used page is never one of the batch. *)
THEOREM ReturnedSlotsAreHeld == Spec => []ReturnedSlotsHold
<1>1. LoaderInv => ReturnedSlotsHold
  BY DEF LoaderInv, CallsOK, HeldIn, ReturnedSlotsHold
<1> QED BY <1>1, LoaderInvariance, PTL

(* destroy frees the staging buffers when no copy reads them any more,
   although it waits only for the fences of the pending transfers. *)
THEOREM DestroyIsSafe == Spec => []NoCopyAfterDestroy
<1>1. LoaderInv => NoCopyAfterDestroy
  BY DEF LoaderInv, CallsOK, NoCopyAfterDestroy
<1> QED BY <1>1, LoaderInvariance, PTL

(* The loader never leaves a pin behind, and the access order lists the Ready
   slots, each once. *)
THEOREM LoaderTypes == Spec => []TypeOK
<1>1. LoaderInv => TypeOK
  <2> SUFFICES ASSUME LoaderInv PROVE TypeOK
    OBVIOUS
  <2>1. PICK p : p = pool
    OBVIOUS
  <2>2. /\ Sound(p, Slots) /\ RingTyped(pending, memory, staging, fence) /\ Flying(pending, queue)
        /\ \A s \in 1..Slots : p.pins[s] = 0
        /\ next_pip \in Ring /\ Slots \in Nat
    BY <2>1, LoaderAssumption DEF LoaderInv, RingInv, RingOK
  <2>3. p \in PoolType(Slots) /\ SlotsOf(p) = 1..Slots /\ \A s \in 1..Slots : p.state[s] \in SlotState
    BY <2>2, SlotsOfPool DEF Sound
  <2>4. p.state \in [1..Slots -> SlotState] /\ p.pins \in [1..Slots -> Nat]
    BY <2>3 DEF PoolType
  <2>5. p.state \in Seq(SlotState)
    BY <2>2, <2>4, SeqDef
  <2>6. p.pins \in [1..Slots -> {0}]
    BY <2>2, <2>4
  <2>7. /\ IsInjective(p.recency)
        /\ \A s \in 1..Slots : s \in Range(p.recency) <=> p.state[s].tag = "Ready"
    BY <2>2, <2>3 DEF Sound, Listed
  <2>8. queue \subseteq Ring \X (1..Slots)
    BY <2>2 DEF Flying
  <2>9. /\ \A s \in 1..Slots : memory[s] \in Key \cup {Garbage}
        /\ \A pip \in Ring : staging[pip] \in Key \cup {Garbage}
        /\ fence \in [Ring -> BOOLEAN]
    BY <2>2 DEF RingTyped
  <2> QED BY <2>1, <2>2, <2>5, <2>6, <2>7, <2>8, <2>9 DEF TypeOK
<1> QED BY <1>1, LoaderInvariance, PTL

-----------------------------------------------------------------------------
(* The forward pass: counting pages and transfers *)

(* Two sets of at most m and n elements have at most m + n together. *)
LEMMA UnionBound ==
  ASSUME NEW S, NEW T, NEW m \in Nat, NEW n \in Nat,
         IsFiniteSet(S), Cardinality(S) <= m, IsFiniteSet(T), Cardinality(T) <= n
  PROVE  IsFiniteSet(S \cup T) /\ Cardinality(S \cup T) <= m + n
<1>1. /\ Cardinality(S) \in Nat /\ Cardinality(T) \in Nat
      /\ IsFiniteSet(S \cup T) /\ Cardinality(S \cup T) \in Nat
      /\ Cardinality(S \cup T) = Cardinality(S) + Cardinality(T) - Cardinality(S \cap T)
  BY FS_Union, FS_CardinalityType
<1>2. S \cap T \in SUBSET S
  OBVIOUS
<1>3. Cardinality(S \cap T) \in Nat
  BY <1>2, FS_Subset, FS_CardinalityType
<1> QED BY <1>1, <1>3

(* A sequence has at most as many elements as it is long. *)
LEMMA RangeBound ==
  ASSUME NEW S, NEW q \in Seq(S)
  PROVE  IsFiniteSet(Range(q)) /\ Cardinality(Range(q)) <= Len(q)
<1>1. PICK n : n = Len(q)
  OBVIOUS
<1>2. n \in Nat /\ DOMAIN q = 1..n
  BY <1>1, LenProperties
<1>3. Range(q) = {q[i] : i \in 1..n}
  BY <1>2 DEF Range
<1>4. IsFiniteSet({q[i] : i \in 1..n}) /\ Cardinality({q[i] : i \in 1..n}) <= n
  BY <1>2, FirstPages
<1> QED BY <1>1, <1>3, <1>4

(* The ring slots with a transfer, and how many a call has left in use when
   it gets to page n + 1 of a batch: those of the wave it is in. *)
Taken(pend) == {pip \in Ring : pend[pip] # NoTransfer}
InWave(n, c) == c <= n % Depth \/ (n > 0 /\ n % Depth = 0 /\ c <= Depth)

(* The ring slots taken are finitely many. *)
LEMMA TakenFinite ==
  ASSUME NEW pend
  PROVE  IsFiniteSet(Taken(pend)) /\ Cardinality(Taken(pend)) \in Nat
<1>1. IsFiniteSet(Ring)
  BY FS_Interval, LoaderAssumption DEF Ring
<1>2. Taken(pend) \in SUBSET Ring
  BY DEF Taken
<1> QED BY <1>1, <1>2, FS_Subset, FS_CardinalityType

(* After a drain no ring slot is taken. *)
LEMMA NothingTaken == Cardinality(Taken(NothingPending)) = 0
<1>1. Taken(NothingPending) = {}
  BY DEF Taken, NothingPending
<1> QED BY <1>1, FS_EmptySet

(* The ring slots another state takes too. *)
LEMMA TakenLess ==
  ASSUME NEW pend, NEW pend2, \A i \in Ring : pend2[i] # NoTransfer => pend[i] # NoTransfer
  PROVE  Cardinality(Taken(pend2)) <= Cardinality(Taken(pend))
<1>1. Taken(pend2) \in SUBSET Taken(pend)
  BY DEF Taken
<1> QED BY <1>1, TakenFinite, FS_Subset

(* One more at most. *)
LEMMA TakenMore ==
  ASSUME NEW pend, NEW pend2, NEW j \in Ring,
         \A i \in Ring : i # j /\ pend2[i] # NoTransfer => pend[i] # NoTransfer
  PROVE  Cardinality(Taken(pend2)) <= Cardinality(Taken(pend)) + 1
<1>1. PICK T : T = Taken(pend) \cup {j}
  OBVIOUS
<1>2. IsFiniteSet(T) /\ Cardinality(T) <= Cardinality(Taken(pend)) + 1
  <2>1. IsFiniteSet(Taken(pend)) /\ Cardinality(Taken(pend)) \in Nat
    BY TakenFinite
  <2>2. PICK S, c, d : S = Taken(pend) /\ c = Cardinality(S) /\ d = Cardinality(S \cup {j})
    OBVIOUS
  <2>3. IsFiniteSet(S \cup {j}) /\ d = IF j \in S THEN c ELSE c + 1
    BY <2>1, <2>2, FS_AddElement
  <2>4. c \in Nat /\ d <= c + 1
    BY <2>1, <2>2, <2>3
  <2> QED BY <1>1, <2>2, <2>3, <2>4
<1>3. Taken(pend2) \in SUBSET T
  BY <1>1 DEF Taken
<1>4. Cardinality(Taken(pend2)) <= Cardinality(T)
  BY <1>2, <1>3, FS_Subset
<1>5. /\ Cardinality(T) \in Nat /\ Cardinality(Taken(pend)) \in Nat /\ Cardinality(Taken(pend2)) \in Nat
  BY <1>2, TakenFinite, FS_CardinalityType
<1> QED BY <1>2, <1>4, <1>5

(* A remainder grows by one, or starts again. *)
LEMMA NextRemainder ==
  ASSUME NEW n \in Nat, NEW d \in Nat \ {0}
  PROVE  /\ n % d \in 0..(d - 1)
         /\ (n % d) + 1 < d => (n + 1) % d = (n % d) + 1
         /\ (n % d) + 1 = d => (n + 1) % d = 0
<1>1. PICK r, q : r = n % d /\ q = n \div d
  OBVIOUS
<1>2. r \in 0..(d - 1) /\ q \in Nat /\ n = d * q + r
  BY <1>1
<1>3. ASSUME r + 1 < d PROVE (n + 1) % d = r + 1
  <2>1. n + 1 = d * q + (r + 1) /\ r + 1 \in 0..(d - 1)
    BY <1>2, <1>3
  <2> QED BY <1>2, <2>1
<1>4. ASSUME r + 1 = d PROVE (n + 1) % d = 0
  <2>1. n + 1 = d * (q + 1) + 0
    BY <1>2, <1>4
  <2> QED BY <1>2, <2>1
<1> QED BY <1>1, <1>2, <1>3, <1>4

(* When a call gets to its next page, it is at the start of a drained wave or
   within one. *)
LEMMA WaveGoesOn ==
  ASSUME NEW n \in Nat, NEW c \in Nat, InWave(n, c), n > 0 /\ n % Depth = 0 => c = 0
  PROVE  c <= Depth - 1 /\ \A e \in Nat : e <= c + 1 => InWave(n + 1, e)
<1>1. PICK d, r : d = Depth /\ r = n % d
  OBVIOUS
<1>2. d \in Nat \ {0} /\ r \in 0..(d - 1)
  BY <1>1, NextRemainder, LoaderAssumption
<1>3. c <= r
  BY <1>1, <1>2 DEF InWave
<1>4. ASSUME NEW e \in Nat, e <= c + 1 PROVE InWave(n + 1, e)
  <2>1. e <= r + 1
    BY <1>2, <1>3, <1>4
  <2>2. CASE r + 1 < d
    BY <1>1, <1>2, <2>1, <2>2, NextRemainder DEF InWave
  <2>3. CASE ~(r + 1 < d)
    <3>1. r + 1 = d
      BY <1>2, <2>3
    <3>2. (n + 1) % d = 0
      BY <1>1, <1>2, <3>1, NextRemainder
    <3> QED BY <1>1, <1>2, <2>1, <3>1, <3>2 DEF InWave
  <2> QED BY <2>2, <2>3
<1> QED BY <1>1, <1>2, <1>3, <1>4

-----------------------------------------------------------------------------
(* The pages of experts *)

(* The recursive function of Pushed. *)
PushedAt(f, es, i) == IF i = 0 THEN << >> ELSE f[i - 1] \o Pages(es[i])
Pushes(f, es, n) == f = [i \in 0..n |-> PushedAt(f, es, i)]

(* It exists, for any number of experts. *)
LEMMA PushedExists ==
  ASSUME NEW es, NEW n \in Nat
  PROVE  \E f : Pushes(f, es, n)
<1> DEFINE T == {m \in Nat : \E f : \A i \in 0..m : f[i] = PushedAt(f, es, i)}
<1>1. \A f, g, i : i = 0 \/ f[i - 1] = g[i - 1] => PushedAt(f, es, i) = PushedAt(g, es, i)
  BY DEF PushedAt
<1>2. 0 \in T
  <2> DEFINE g == [i \in 0..0 |-> PushedAt(<< >>, es, i)]
  <2>1. \A i \in 0..0 : i = 0 /\ g[i] = PushedAt(<< >>, es, i)
    OBVIOUS
  <2> HIDE DEF g
  <2>2. \A i \in 0..0 : g[i] = PushedAt(g, es, i)
    BY <1>1, <2>1
  <2> QED BY <2>2
<1>3. ASSUME NEW m \in T PROVE m + 1 \in T
  <2>1. m \in Nat /\ m + 1 \in Nat
    OBVIOUS
  <2>2. PICK f : \A i \in 0..m : f[i] = PushedAt(f, es, i)
    OBVIOUS
  <2> DEFINE h == [i \in 0..(m + 1) |-> PushedAt(f, es, i)]
  <2>3. \A i \in 0..(m + 1) : h[i] = PushedAt(f, es, i)
    OBVIOUS
  <2> HIDE DEF h
  <2>4. ASSUME NEW i \in 0..(m + 1) PROVE h[i] = PushedAt(h, es, i)
    <3>1. i = 0 \/ (i - 1 \in 0..m /\ i - 1 \in 0..(m + 1))
      BY <2>1
    <3>2. i = 0 \/ h[i - 1] = f[i - 1]
      BY <2>2, <2>3, <3>1
    <3> QED BY <1>1, <2>3, <3>2
  <2> QED BY <2>1, <2>4
<1>4. T = Nat
  <2> HIDE DEF T
  <2>1. T \in SUBSET Nat
    BY DEF T
  <2> QED BY <1>2, <1>3, <2>1, NaturalInduction
<1>5. PICK f : \A i \in 0..n : f[i] = PushedAt(f, es, i)
  BY <1>4, ZenonT(40)
<1> DEFINE h == [i \in 0..n |-> f[i]]
<1>6. \A i \in 0..n : h[i] = f[i]
  OBVIOUS
<1>7. \A i \in 0..n : f[i] = PushedAt(h, es, i)
  <2> SUFFICES ASSUME NEW i \in 0..n PROVE f[i] = PushedAt(h, es, i)
    OBVIOUS
  <2> HIDE DEF h
  <2>1. i = 0 \/ i - 1 \in 0..n
    OBVIOUS
  <2> QED BY <1>1, <1>5, <1>6, <2>1
<1>8. h = [i \in 0..n |-> PushedAt(h, es, i)]
  <2>1. h = [i \in 0..n |-> f[i]]
    OBVIOUS
  <2> HIDE DEF h
  <2> QED BY <1>7, <2>1
<1> HIDE DEF h
<1> QED BY <1>8 DEF Pushes

(* The list grows by the pages of one expert after the other. *)
LEMMA PushedSteps ==
  ASSUME NEW es, Len(es) \in Nat, NEW f0, f0 = Pushed(es)
  PROVE  /\ f0[0] = << >>
         /\ \A i \in 1..Len(es) : f0[i] = f0[i - 1] \o Pages(es[i])
<1>0. Len(es) \in Nat
  OBVIOUS
<1>1. PICK f : f = f0 /\ f = Pushed(es)
  OBVIOUS
<1>2. Len(es) \in Nat
  BY <1>0
<1>3. f = CHOOSE g : Pushes(g, es, Len(es))
  BY <1>1 DEF Pushed, PushedAt, Pushes
<1>4. Pushes(f, es, Len(es))
  <2>1. \E g : Pushes(g, es, Len(es))
    BY <1>2, PushedExists
  <2> QED BY <1>3, <2>1, Zenon
<1>5. \A i \in 0..Len(es) : f[i] = PushedAt(f, es, i)
  <2>1. PICK g : g = [i \in 0..Len(es) |-> PushedAt(f, es, i)]
    OBVIOUS
  <2>2. \A i \in 0..Len(es) : g[i] = PushedAt(f, es, i)
    BY <2>1
  <2>3. f = g
    BY <1>4, <2>1 DEF Pushes
  <2> QED BY <2>2, <2>3
<1>6. 0 \in 0..Len(es) /\ \A i \in 1..Len(es) : i \in 0..Len(es) /\ i # 0
  BY <1>2
<1>7. f[0] = PushedAt(f, es, 0) /\ \A i \in 1..Len(es) : f[i] = PushedAt(f, es, i)
  BY <1>5, <1>6
<1>8. /\ PushedAt(f, es, 0) = << >>
      /\ \A i : i # 0 => PushedAt(f, es, i) = f[i - 1] \o Pages(es[i])
  BY DEF PushedAt
<1> QED BY <1>1, <1>6, <1>7, <1>8

(* The pages of one expert. *)
LEMMA PagesOfOne ==
  ASSUME NEW e \in AllExperts
  PROVE  /\ Pages(e) \in Seq(Key) /\ Len(Pages(e)) = Len(Kinds)
         /\ Len(Kinds) \in Nat /\ DOMAIN Pages(e) = 1..Len(Kinds)
<1>1. PICK n : n = Len(Kinds)
  OBVIOUS
<1>2. n \in Nat /\ DOMAIN Kinds = 1..n /\ \A i \in 1..n : Kinds[i] \in Range(Kinds)
  BY <1>1, ForwardAssumption, LenProperties, ElementOfSeq
<1>3. PICK q : q = [i \in 1..n |-> <<e, Kinds[i]>>]
  OBVIOUS
<1>4. q = Pages(e)
  BY <1>2, <1>3 DEF Pages
<1>5. \A i \in 1..n : <<e, Kinds[i]>> \in Key
  BY <1>2, PagesAssumption DEF AllPages
<1>6. q \in [1..n -> Key] /\ DOMAIN q = 1..n
  BY <1>3, <1>5
<1>7. q \in Seq(Key)
  BY <1>2, <1>6, SeqDef
<1>8. Len(q) = n
  <2>1. Len(q) \in Nat /\ DOMAIN q = 1..Len(q)
    BY <1>7, LenProperties
  <2> QED BY <1>2, <1>6, <2>1
<1> QED BY <1>1, <1>2, <1>4, <1>6, <1>7, <1>8

(* A sequence's share in a longer one. *)
LEMMA ConcatRange ==
  ASSUME NEW S, NEW a \in Seq(S), NEW b \in Seq(S)
  PROVE  /\ a \o b \in Seq(S) /\ Len(a \o b) = Len(a) + Len(b)
         /\ Range(a \o b) = Range(a) \cup Range(b)
<1>1. PICK c, m, n : c = a \o b /\ m = Len(a) /\ n = Len(b)
  OBVIOUS
<1>2. m \in Nat /\ n \in Nat /\ DOMAIN a = 1..m /\ DOMAIN b = 1..n
  BY <1>1, LenProperties
<1>3. /\ c \in Seq(S) /\ Len(c) = m + n
      /\ \A i \in 1..(m + n) : c[i] = IF i <= m THEN a[i] ELSE b[i - m]
  BY <1>1, ConcatProperties
<1>4. DOMAIN c = 1..(m + n)
  BY <1>3, LenProperties
<1>5. ASSUME NEW x \in Range(c) PROVE x \in Range(a) \cup Range(b)
  <2>1. PICK i \in 1..(m + n) : x = c[i]
    BY <1>4, <1>5 DEF Range
  <2>2. CASE i <= m
    <3>1. i \in 1..m /\ x = a[i]
      BY <1>2, <1>3, <2>1, <2>2
    <3> QED BY <1>2, <3>1 DEF Range
  <2>3. CASE ~(i <= m)
    <3>1. i - m \in 1..n /\ x = b[i - m]
      BY <1>2, <1>3, <2>1, <2>3
    <3> QED BY <1>2, <3>1 DEF Range
  <2> QED BY <2>2, <2>3
<1>6. ASSUME NEW i \in 1..m PROVE a[i] \in Range(c)
  <2>1. i \in 1..(m + n) /\ c[i] = a[i]
    BY <1>2, <1>3
  <2> QED BY <1>4, <2>1 DEF Range
<1>7. ASSUME NEW i \in 1..n PROVE b[i] \in Range(c)
  <2>1. m + i \in 1..(m + n) /\ ~(m + i <= m) /\ (m + i) - m = i
    BY <1>2
  <2>2. c[m + i] = b[i]
    BY <1>3, <2>1
  <2> QED BY <1>4, <2>1, <2>2 DEF Range
<1>8. Range(a) \cup Range(b) \subseteq Range(c)
  BY <1>2, <1>6, <1>7 DEF Range
<1> QED BY <1>1, <1>3, <1>5, <1>8

(* The first experts of a list, and their pages. *)
PagesUpTo(es, i) == {k \in Key : \E j \in 1..i : k \in Range(Pages(es[j]))}

(* One expert more. *)
LEMMA PagesOfNext ==
  ASSUME NEW es \in Seq(AllExperts), NEW i \in Nat, i + 1 \in 1..Len(es)
  PROVE  /\ PagesUpTo(es, i + 1) = PagesUpTo(es, i) \cup Range(Pages(es[i + 1]))
         /\ es[i + 1] \in AllExperts /\ Range(Pages(es[i + 1])) \subseteq Key
<1>1. es[i + 1] \in AllExperts
  BY ElementOfSeq
<1>2. PICK q : q = Pages(es[i + 1])
  OBVIOUS
<1>3. q \in Seq(Key) /\ Range(q) \subseteq Key
  <2>1. q \in Seq(Key)
    BY <1>1, <1>2, PagesOfOne
  <2> QED BY <2>1, LenProperties, ElementOfSeq DEF Range
<1>4. \A j : j \in 1..(i + 1) <=> j \in 1..i \/ j = i + 1
  OBVIOUS
<1> QED BY <1>1, <1>2, <1>3, <1>4 DEF PagesUpTo

(* A list of pages is as long as its experts have pages. *)
LEMMA PagesOfMany ==
  ASSUME NEW es \in Seq(AllExperts)
  PROVE  /\ PagesOf(es) \in Seq(Key) /\ Len(PagesOf(es)) = Len(es) * Len(Kinds)
         /\ Range(PagesOf(es)) = PagesUpTo(es, Len(es))
<1>1. PICK f, n, m : f = Pushed(es) /\ n = Len(es) /\ m = Len(Kinds)
  OBVIOUS
<1>2. n \in Nat /\ f[0] = << >> /\ \A i \in 1..n : f[i] = f[i - 1] \o Pages(es[i])
  BY <1>1, LenProperties, PushedSteps
<1>3. m \in Nat
  BY <1>1, ForwardAssumption, LenProperties
<1> DEFINE P(i) == /\ f[i] \in Seq(Key) /\ Len(f[i]) = i * m
                   /\ Range(f[i]) = PagesUpTo(es, i)
           T == {i \in Nat : i <= n => P(i)}
<1>4. 0 \in T
  <2>1. << >> \in Seq(Key) /\ Len(<< >>) = 0 /\ Range(<< >>) = {}
    BY EmptySeq DEF Range
  <2>2. PagesUpTo(es, 0) = {}
    BY DEF PagesUpTo
  <2>3. 0 * m = 0
    BY <1>3
  <2> QED BY <1>2, <2>1, <2>2, <2>3
<1>5. ASSUME NEW i \in T PROVE i + 1 \in T
  <2>1. i \in Nat /\ i + 1 \in Nat /\ i + 1 - 1 = i
    OBVIOUS
  <2>2. ASSUME i + 1 <= n PROVE P(i + 1)
    <3>1. i <= n /\ i + 1 \in 1..n
      BY <1>2, <2>1, <2>2
    <3>2. PICK q, r, ks : q = f[i] /\ r = f[i + 1] /\ ks = Pages(es[i + 1])
      OBVIOUS
    <3>3. q \in Seq(Key) /\ Len(q) = i * m /\ Range(q) = PagesUpTo(es, i)
      BY <3>1, <3>2
    <3>4. r = q \o ks
      <4>1. PICK j : j = i + 1
        OBVIOUS
      <4>2. j \in 1..n /\ j - 1 = i
        BY <2>1, <3>1, <4>1
      <4>3. f[j] = f[j - 1] \o Pages(es[j])
        BY <1>2, <4>2
      <4> QED BY <3>2, <4>1, <4>2, <4>3
    <3>5. /\ PagesUpTo(es, i + 1) = PagesUpTo(es, i) \cup Range(ks)
          /\ es[i + 1] \in AllExperts
      BY <1>1, <2>1, <3>1, <3>2, PagesOfNext
    <3>6. ks \in Seq(Key) /\ Len(ks) = m
      BY <1>1, <3>2, <3>5, PagesOfOne
    <3>7. r \in Seq(Key) /\ Len(r) = i * m + m /\ Range(r) = Range(q) \cup Range(ks)
      <4>1. q \in Seq(Key) /\ ks \in Seq(Key)
        BY <3>3, <3>6
      <4>2. /\ q \o ks \in Seq(Key) /\ Len(q \o ks) = Len(q) + Len(ks)
            /\ Range(q \o ks) = Range(q) \cup Range(ks)
        BY <4>1, ConcatRange
      <4> QED BY <3>3, <3>4, <3>6, <4>2
    <3>8. i * m + m = (i + 1) * m
      BY <1>3, <2>1
    <3> QED BY <3>2, <3>3, <3>5, <3>7, <3>8
  <2> QED BY <2>1, <2>2
<1>6. n \in T
  <2>1. T \in SUBSET Nat
    OBVIOUS
  <2> HIDE DEF T
  <2>2. T = Nat
    BY <1>4, <1>5, <2>1, NaturalInduction
  <2> QED BY <1>2, <2>2
<1>7. P(n)
  BY <1>2, <1>6
<1> QED BY <1>1, <1>7 DEF PagesOf

-----------------------------------------------------------------------------
(* Lookups *)

(* The recursive function of Lookups. *)
LookedAt(f, p, ks, i) == IF i = 0 THEN p ELSE Lookup(f[i - 1], ks[i])
Looks(f, p, ks, n) == f = [i \in 0..n |-> LookedAt(f, p, ks, i)]

(* It exists, for any number of pages. *)
LEMMA LookupsExist ==
  ASSUME NEW p, NEW ks, NEW n \in Nat
  PROVE  \E f : Looks(f, p, ks, n)
<1> DEFINE T == {m \in Nat : \E f : \A i \in 0..m : f[i] = LookedAt(f, p, ks, i)}
<1>1. \A f, g, i : i = 0 \/ f[i - 1] = g[i - 1] => LookedAt(f, p, ks, i) = LookedAt(g, p, ks, i)
  BY DEF LookedAt
<1>2. 0 \in T
  <2> DEFINE g == [i \in 0..0 |-> LookedAt(<< >>, p, ks, i)]
  <2>1. \A i \in 0..0 : i = 0 /\ g[i] = LookedAt(<< >>, p, ks, i)
    OBVIOUS
  <2> HIDE DEF g
  <2>2. \A i \in 0..0 : g[i] = LookedAt(g, p, ks, i)
    BY <1>1, <2>1
  <2> QED BY <2>2
<1>3. ASSUME NEW m \in T PROVE m + 1 \in T
  <2>1. m \in Nat /\ m + 1 \in Nat
    OBVIOUS
  <2>2. PICK f : \A i \in 0..m : f[i] = LookedAt(f, p, ks, i)
    OBVIOUS
  <2> DEFINE h == [i \in 0..(m + 1) |-> LookedAt(f, p, ks, i)]
  <2>3. \A i \in 0..(m + 1) : h[i] = LookedAt(f, p, ks, i)
    OBVIOUS
  <2> HIDE DEF h
  <2>4. ASSUME NEW i \in 0..(m + 1) PROVE h[i] = LookedAt(h, p, ks, i)
    <3>1. i = 0 \/ (i - 1 \in 0..m /\ i - 1 \in 0..(m + 1))
      BY <2>1
    <3>2. i = 0 \/ h[i - 1] = f[i - 1]
      BY <2>2, <2>3, <3>1
    <3> QED BY <1>1, <2>3, <3>2
  <2> QED BY <2>1, <2>4
<1>4. T = Nat
  <2> HIDE DEF T
  <2>1. T \in SUBSET Nat
    BY DEF T
  <2> QED BY <1>2, <1>3, <2>1, NaturalInduction
<1>5. PICK f : \A i \in 0..n : f[i] = LookedAt(f, p, ks, i)
  BY <1>4, ZenonT(40)
<1> DEFINE h == [i \in 0..n |-> f[i]]
<1>6. \A i \in 0..n : h[i] = f[i]
  OBVIOUS
<1>7. \A i \in 0..n : f[i] = LookedAt(h, p, ks, i)
  <2> SUFFICES ASSUME NEW i \in 0..n PROVE f[i] = LookedAt(h, p, ks, i)
    OBVIOUS
  <2> HIDE DEF h
  <2>1. i = 0 \/ i - 1 \in 0..n
    OBVIOUS
  <2> QED BY <1>1, <1>5, <1>6, <2>1
<1>8. h = [i \in 0..n |-> LookedAt(h, p, ks, i)]
  <2>1. h = [i \in 0..n |-> f[i]]
    OBVIOUS
  <2> HIDE DEF h
  <2> QED BY <1>7, <2>1
<1> HIDE DEF h
<1> QED BY <1>8 DEF Looks

(* One page is looked up after the other. *)
LEMMA LookupSteps ==
  ASSUME NEW p, NEW ks, Len(ks) \in Nat, NEW f0, f0 = Lookups(p, ks)
  PROVE  /\ f0[0] = p
         /\ \A i \in 1..Len(ks) : f0[i] = Lookup(f0[i - 1], ks[i])
<1>0. Len(ks) \in Nat
  OBVIOUS
<1>1. PICK f : f = f0 /\ f = Lookups(p, ks)
  OBVIOUS
<1>2. Len(ks) \in Nat
  BY <1>0
<1>3. f = CHOOSE g : Looks(g, p, ks, Len(ks))
  BY <1>1 DEF Lookups, LookedAt, Looks
<1>4. Looks(f, p, ks, Len(ks))
  <2>1. \E g : Looks(g, p, ks, Len(ks))
    BY <1>2, LookupsExist
  <2> QED BY <1>3, <2>1, Zenon
<1>5. \A i \in 0..Len(ks) : f[i] = LookedAt(f, p, ks, i)
  <2>1. PICK g : g = [i \in 0..Len(ks) |-> LookedAt(f, p, ks, i)]
    OBVIOUS
  <2>2. \A i \in 0..Len(ks) : g[i] = LookedAt(f, p, ks, i)
    BY <2>1
  <2>3. f = g
    BY <1>4, <2>1 DEF Looks
  <2> QED BY <2>2, <2>3
<1>6. 0 \in 0..Len(ks) /\ \A i \in 1..Len(ks) : i \in 0..Len(ks) /\ i # 0
  BY <1>2
<1>7. f[0] = LookedAt(f, p, ks, 0) /\ \A i \in 1..Len(ks) : f[i] = LookedAt(f, p, ks, i)
  BY <1>5, <1>6
<1>8. /\ LookedAt(f, p, ks, 0) = p
      /\ \A i : i # 0 => LookedAt(f, p, ks, i) = Lookup(f[i - 1], ks[i])
  BY DEF LookedAt
<1> QED BY <1>1, <1>6, <1>7, <1>8

(* From p to q lookups change the access order only. *)
Reordered(p, q) == /\ Sound(q, Slots) /\ q.state = p.state
                   /\ q.pins = p.pins /\ q.index = p.index

(* Pages that are all visible are found, and accessed last. *)
LEMMA AllLookedUp ==
  ASSUME NEW p, Sound(p, Slots), NEW ks \in Seq(Key), \A i \in 1..Len(ks) : Visible(p, ks[i])
  PROVE  /\ Reordered(p, LookAllUp(p, ks))
         /\ \A W : Fresh(p, W) => Fresh(LookAllUp(p, ks), W \cup Range(ks))
<1>1. PICK f, n : f = Lookups(p, ks) /\ n = Len(ks)
  OBVIOUS
<1>2. /\ n \in Nat /\ DOMAIN ks = 1..n /\ f[0] = p
      /\ \A i \in 1..n : f[i] = Lookup(f[i - 1], ks[i])
  BY <1>1, LenProperties, LookupSteps
<1>3. \A i \in 1..n : Visible(p, ks[i])
  BY <1>1
<1> DEFINE First(i) == {ks[j] : j \in 1..i}
           P(i) == Reordered(p, f[i]) /\ \A W : Fresh(p, W) => Fresh(f[i], W \cup First(i))
           T == {i \in Nat : i <= n => P(i)}
<1>4. 0 \in T
  <2>1. Reordered(p, p)
    BY DEF Reordered
  <2>2. First(0) = {} /\ \A W : W \cup {} = W
    OBVIOUS
  <2> QED BY <1>2, <2>1, <2>2
<1>5. ASSUME NEW i \in T PROVE i + 1 \in T
  <2>1. i \in Nat /\ i + 1 \in Nat
    OBVIOUS
  <2>2. ASSUME i + 1 <= n PROVE P(i + 1)
    <3>1. i <= n /\ i + 1 \in 1..n
      BY <1>2, <2>1, <2>2
    <3>2. PICK j, k, q, r : j = i + 1 /\ k = ks[j] /\ q = f[i] /\ r = f[j]
      OBVIOUS
    <3>3. j \in 1..n /\ j - 1 = i
      BY <2>1, <3>1, <3>2
    <3>4. r = Lookup(q, k)
      <4>1. f[j] = Lookup(f[j - 1], ks[j])
        BY <1>2, <3>3
      <4> QED BY <3>2, <3>3, <4>1
    <3>5. Reordered(p, q) /\ \A W : Fresh(p, W) => Fresh(q, W \cup First(i))
      BY <3>1, <3>2
    <3>6. Visible(q, k)
      BY <1>3, <3>2, <3>3, <3>5 DEF Reordered, Visible
    <3>7. /\ Sound(r, Slots) /\ r.state = q.state /\ r.pins = q.pins /\ r.index = q.index
          /\ \A W : Fresh(q, W) => Fresh(r, W \cup {k})
      BY <3>4, <3>5, <3>6, LookedUpFresh DEF Reordered
    <3>8. First(j) = First(i) \cup {k}
      <4>1. \A l : l \in 1..j <=> l \in 1..i \/ l = j
        BY <2>1, <3>2
      <4> QED BY <3>2, <4>1
    <3>9. ASSUME NEW W, Fresh(p, W) PROVE Fresh(r, W \cup First(j))
      <4> HIDE DEF First
      <4>1. Fresh(r, (W \cup First(i)) \cup {k})
        BY <3>5, <3>7, <3>9
      <4>2. (W \cup First(i)) \cup {k} = W \cup First(j)
        BY <3>8
      <4> QED BY <4>1, <4>2
    <3>10. Reordered(p, r)
      BY <3>5, <3>7 DEF Reordered
    <3> HIDE DEF First
    <3> QED BY <3>2, <3>9, <3>10
  <2> QED BY <2>1, <2>2
<1>6. n \in T
  <2>1. T \in SUBSET Nat
    OBVIOUS
  <2> HIDE DEF T
  <2>2. T = Nat
    BY <1>4, <1>5, <2>1, NaturalInduction
  <2> QED BY <1>2, <2>2
<1>7. P(n)
  BY <1>2, <1>6
<1>8. First(n) = Range(ks)
  BY <1>2 DEF Range
<1> HIDE DEF First
<1> QED BY <1>1, <1>7, <1>8 DEF LookAllUp

(* all_hit: the pages up to the first miss are found and accessed last, and
   an expert with a miss is to be loaded as a whole. *)
LEMMA ExpertLookedUp ==
  ASSUME NEW a, Sound(a.pool, Slots), a.misses \in Seq(Key), NEW e \in AllExperts,
         NEW b, b = LookupExpert(a, e)
  PROVE  /\ Reordered(a.pool, b.pool) /\ b.misses \in Seq(Key)
         /\ \E U \in SUBSET Range(Pages(e)) :
              /\ \A k \in U : Visible(a.pool, k)
              /\ \A W : Fresh(a.pool, W) => Fresh(b.pool, W \cup U)
              /\ U \cup Range(b.misses) = Range(a.misses) \cup Range(Pages(e))
<1>1. PICK p, ks, n, I, miss :
        /\ p = a.pool /\ ks = Pages(e) /\ n = Len(ks)
        /\ I = {i \in 1..n : ~Visible(p, ks[i])}
        /\ miss = IF I # {} THEN Min(I) ELSE 0
  OBVIOUS
<1>2. ks \in Seq(Key) /\ n \in Nat /\ DOMAIN ks = 1..n /\ \A i \in 1..n : ks[i] \in Key
  BY <1>1, PagesOfOne, LenProperties, ElementOfSeq
<1>3. b = IF miss = 0
          THEN [pool |-> LookAllUp(p, ks), misses |-> a.misses]
          ELSE [pool |-> LookAllUp(p, SubSeq(ks, 1, miss - 1)), misses |-> a.misses \o ks]
  BY <1>1 DEF LookupExpert, SelectInSeq
<1>4. I \in SUBSET Nat
  <2>1. 1..n \subseteq Nat
    BY <1>2
  <2> QED BY <1>1, <2>1
<1>5. CASE I = {}
  <2>1. b.pool = LookAllUp(p, ks) /\ b.misses = a.misses
    BY <1>1, <1>3, <1>5
  <2>2. \A i \in 1..n : Visible(p, ks[i])
    BY <1>1, <1>5
  <2>3. PICK q : q = b.pool
    OBVIOUS
  <2>4. Reordered(p, q) /\ \A W : Fresh(p, W) => Fresh(q, W \cup Range(ks))
    <3>1. Sound(p, Slots) /\ \A i \in 1..Len(ks) : Visible(p, ks[i])
      BY <1>1, <2>2
    <3>2. /\ Reordered(p, LookAllUp(p, ks))
          /\ \A W : Fresh(p, W) => Fresh(LookAllUp(p, ks), W \cup Range(ks))
      BY <1>2, <3>1, AllLookedUp
    <3> QED BY <2>1, <2>3, <3>2
  <2>5. \A k \in Range(ks) : Visible(p, k)
    BY <1>2, <2>2 DEF Range
  <2>6. Range(ks) \cup Range(b.misses) = Range(a.misses) \cup Range(ks)
    BY <2>1
  <2> QED BY <1>1, <2>1, <2>3, <2>4, <2>5, <2>6
<1>6. CASE I # {}
  <2>1. miss \in I /\ \A i \in I : miss <= i
    <3>1. miss = CHOOSE x \in I : \A y \in I : x <= y
      BY <1>1, <1>6 DEF Min
    <3>2. \E x \in I : \A y \in I : x <= y
      BY <1>4, <1>6, LeastElement
    <3> QED BY <3>1, <3>2
  <2>2. miss \in 1..n /\ miss # 0
    BY <1>1, <1>2, <2>1
  <2>3. PICK m, s, l : m = miss - 1 /\ s = SubSeq(ks, 1, m) /\ l = a.misses
    OBVIOUS
  <2>4. m \in Nat /\ m < n /\ \A i \in 1..m : i \in 1..n /\ i \notin I
    BY <1>2, <1>4, <2>1, <2>2, <2>3
  <2>5. s \in Seq(Key) /\ Len(s) = m /\ DOMAIN s = 1..m /\ \A i \in 1..m : s[i] = ks[i]
    <3>1. \A i \in 1..m : ks[i] \in Key
      BY <1>2, <2>4
    <3>2. 1 \in Int /\ m \in Int
      BY <2>4
    <3>3. /\ SubSeq(ks, 1, m) \in Seq(Key)
          /\ Len(SubSeq(ks, 1, m)) = IF 1 <= m THEN m - 1 + 1 ELSE 0
          /\ \A i \in 1..(m - 1 + 1) : SubSeq(ks, 1, m)[i] = ks[1 + i - 1]
      BY <3>1, <3>2, SubSeqProperties
    <3>4. m - 1 + 1 = m /\ (IF 1 <= m THEN m - 1 + 1 ELSE 0) = m /\ \A i \in 1..m : 1 + i - 1 = i
      BY <2>4
    <3>5. s \in Seq(Key) /\ Len(s) = m /\ \A i \in 1..m : s[i] = ks[i]
      BY <2>3, <3>3, <3>4
    <3> QED BY <3>5, LenProperties
  <2>6. b.pool = LookAllUp(p, s) /\ b.misses = l \o ks
    <3>1. b = [pool |-> LookAllUp(p, SubSeq(ks, 1, miss - 1)), misses |-> a.misses \o ks]
      BY <1>3, <2>2
    <3>2. b = [pool |-> LookAllUp(p, s), misses |-> l \o ks]
      BY <2>3, <3>1
    <3>3. PICK x, y : x = LookAllUp(p, s) /\ y = l \o ks
      OBVIOUS
    <3>4. b = [pool |-> x, misses |-> y]
      BY <3>2, <3>3
    <3> QED BY <3>3, <3>4
  <2>7. \A i \in 1..m : Visible(p, s[i])
    BY <1>1, <2>4, <2>5
  <2>8. PICK q : q = b.pool
    OBVIOUS
  <2>9. Reordered(p, q) /\ \A W : Fresh(p, W) => Fresh(q, W \cup Range(s))
    <3>1. Sound(p, Slots) /\ \A i \in 1..Len(s) : Visible(p, s[i])
      BY <1>1, <2>5, <2>7
    <3>2. /\ Reordered(p, LookAllUp(p, s))
          /\ \A W : Fresh(p, W) => Fresh(LookAllUp(p, s), W \cup Range(s))
      BY <2>5, <3>1, AllLookedUp
    <3> QED BY <2>6, <2>8, <3>2
  <2>10. Range(s) \subseteq Range(ks) /\ \A k \in Range(s) : Visible(p, k)
    BY <1>2, <2>4, <2>5, <2>7 DEF Range
  <2>11. b.misses \in Seq(Key) /\ Range(b.misses) = Range(l) \cup Range(ks)
    <3>1. l \o ks \in Seq(Key) /\ Range(l \o ks) = Range(l) \cup Range(ks)
      BY <1>2, <2>3, ConcatRange
    <3> QED BY <2>6, <3>1
  <2> QED BY <1>1, <2>3, <2>8, <2>9, <2>10, <2>11
<1> QED BY <1>5, <1>6

(* The recursive function of Looked. *)
PickedAt(f, p, es, i) ==
  IF i = 0 THEN [pool |-> p, misses |-> << >>] ELSE LookupExpert(f[i - 1], es[i])
PicksUp(f, p, es, n) == f = [i \in 0..n |-> PickedAt(f, p, es, i)]

(* It exists, for any number of picks. *)
LEMMA PickingExists ==
  ASSUME NEW p, NEW es, NEW n \in Nat
  PROVE  \E f : PicksUp(f, p, es, n)
<1> DEFINE T == {m \in Nat : \E f : \A i \in 0..m : f[i] = PickedAt(f, p, es, i)}
<1>1. \A f, g, i : i = 0 \/ f[i - 1] = g[i - 1] => PickedAt(f, p, es, i) = PickedAt(g, p, es, i)
  BY DEF PickedAt
<1>2. 0 \in T
  <2> DEFINE g == [i \in 0..0 |-> PickedAt(<< >>, p, es, i)]
  <2>1. \A i \in 0..0 : i = 0 /\ g[i] = PickedAt(<< >>, p, es, i)
    OBVIOUS
  <2> HIDE DEF g
  <2>2. \A i \in 0..0 : g[i] = PickedAt(g, p, es, i)
    BY <1>1, <2>1
  <2> QED BY <2>2
<1>3. ASSUME NEW m \in T PROVE m + 1 \in T
  <2>1. m \in Nat /\ m + 1 \in Nat
    OBVIOUS
  <2>2. PICK f : \A i \in 0..m : f[i] = PickedAt(f, p, es, i)
    OBVIOUS
  <2> DEFINE h == [i \in 0..(m + 1) |-> PickedAt(f, p, es, i)]
  <2>3. \A i \in 0..(m + 1) : h[i] = PickedAt(f, p, es, i)
    OBVIOUS
  <2> HIDE DEF h
  <2>4. ASSUME NEW i \in 0..(m + 1) PROVE h[i] = PickedAt(h, p, es, i)
    <3>1. i = 0 \/ (i - 1 \in 0..m /\ i - 1 \in 0..(m + 1))
      BY <2>1
    <3>2. i = 0 \/ h[i - 1] = f[i - 1]
      BY <2>2, <2>3, <3>1
    <3> QED BY <1>1, <2>3, <3>2
  <2> QED BY <2>1, <2>4
<1>4. T = Nat
  <2> HIDE DEF T
  <2>1. T \in SUBSET Nat
    BY DEF T
  <2> QED BY <1>2, <1>3, <2>1, NaturalInduction
<1>5. PICK f : \A i \in 0..n : f[i] = PickedAt(f, p, es, i)
  BY <1>4, ZenonT(40)
<1> DEFINE h == [i \in 0..n |-> f[i]]
<1>6. \A i \in 0..n : h[i] = f[i]
  OBVIOUS
<1>7. \A i \in 0..n : f[i] = PickedAt(h, p, es, i)
  <2> SUFFICES ASSUME NEW i \in 0..n PROVE f[i] = PickedAt(h, p, es, i)
    OBVIOUS
  <2> HIDE DEF h
  <2>1. i = 0 \/ i - 1 \in 0..n
    OBVIOUS
  <2> QED BY <1>1, <1>5, <1>6, <2>1
<1>8. h = [i \in 0..n |-> PickedAt(h, p, es, i)]
  <2>1. h = [i \in 0..n |-> f[i]]
    OBVIOUS
  <2> HIDE DEF h
  <2> QED BY <1>7, <2>1
<1> HIDE DEF h
<1> QED BY <1>8 DEF PicksUp

(* One expert is looked up after the other. *)
LEMMA PickingSteps ==
  ASSUME Len(picks) \in Nat, NEW f0, f0 = Looked
  PROVE  /\ f0[0] = [pool |-> pool, misses |-> << >>]
         /\ \A i \in 1..Len(picks) : f0[i] = LookupExpert(f0[i - 1], picks[i])
<1>0. Len(picks) \in Nat
  OBVIOUS
<1>1. PICK f : f = f0 /\ f = Looked
  OBVIOUS
<1>2. Len(picks) \in Nat
  BY <1>0
<1>3. f = CHOOSE g : PicksUp(g, pool, picks, Len(picks))
  BY <1>1 DEF Looked, PickedAt, PicksUp
<1>4. PicksUp(f, pool, picks, Len(picks))
  <2>1. \E g : PicksUp(g, pool, picks, Len(picks))
    BY <1>2, PickingExists
  <2> QED BY <1>3, <2>1, Zenon
<1>5. \A i \in 0..Len(picks) : f[i] = PickedAt(f, pool, picks, i)
  <2>1. PICK g : g = [i \in 0..Len(picks) |-> PickedAt(f, pool, picks, i)]
    OBVIOUS
  <2>2. \A i \in 0..Len(picks) : g[i] = PickedAt(f, pool, picks, i)
    BY <2>1
  <2>3. f = g
    BY <1>4, <2>1 DEF PicksUp
  <2> QED BY <2>2, <2>3
<1>6. 0 \in 0..Len(picks) /\ \A i \in 1..Len(picks) : i \in 0..Len(picks) /\ i # 0
  BY <1>2
<1>7. f[0] = PickedAt(f, pool, picks, 0) /\ \A i \in 1..Len(picks) : f[i] = PickedAt(f, pool, picks, i)
  BY <1>5, <1>6
<1>8. /\ PickedAt(f, pool, picks, 0) = [pool |-> pool, misses |-> << >>]
      /\ \A i : i # 0 => PickedAt(f, pool, picks, i) = LookupExpert(f[i - 1], picks[i])
  BY DEF PickedAt
<1> QED BY <1>1, <1>6, <1>7, <1>8

(* The pages T of the picks that are found are accessed last, and the others
   are all to be loaded. *)
FoundAndMissed(p, b, ks) ==
  /\ Reordered(p, b.pool) /\ b.misses \in Seq(Key)
  /\ \E T \in SUBSET ks : /\ \A k \in T : Visible(p, k)
                          /\ Fresh(b.pool, T) /\ T \cup Range(b.misses) = ks

(* Before the first lookup nothing is found or missed. *)
LEMMA FirstLookup ==
  ASSUME NEW p, Sound(p, Slots)
  PROVE  FoundAndMissed(p, [pool |-> p, misses |-> << >>], {})
<1>1. PICK b : b = [pool |-> p, misses |-> << >>]
  OBVIOUS
<1>2. b.pool = p /\ b.misses = << >>
  BY <1>1
<1>3. Reordered(p, b.pool)
  BY <1>2 DEF Reordered
<1>4. b.misses \in Seq(Key) /\ Range(b.misses) = {}
  BY <1>2, EmptySeq DEF Range
<1>5. Fresh(b.pool, {})
  BY DEF Fresh, Ordered, ReadySlots
<1> QED BY <1>1, <1>3, <1>4, <1>5 DEF FoundAndMissed

(* One pick more: its pages are found, or it is to be loaded as a whole. *)
LEMMA NextLookup ==
  ASSUME NEW p, NEW a, NEW S, FoundAndMissed(p, a, S), NEW e \in AllExperts
  PROVE  FoundAndMissed(p, LookupExpert(a, e), S \cup Range(Pages(e)))
<1>1. PICK b, R : b = LookupExpert(a, e) /\ R = Range(Pages(e))
  OBVIOUS
<1>2. Reordered(p, a.pool) /\ a.misses \in Seq(Key) /\ Sound(a.pool, Slots)
  BY DEF FoundAndMissed, Reordered
<1>3. PICK T \in SUBSET S : /\ \A k \in T : Visible(p, k)
                            /\ Fresh(a.pool, T) /\ T \cup Range(a.misses) = S
  BY DEF FoundAndMissed
<1>4. /\ Reordered(a.pool, b.pool) /\ b.misses \in Seq(Key)
      /\ \E U \in SUBSET R :
           /\ \A k \in U : Visible(a.pool, k)
           /\ \A W : Fresh(a.pool, W) => Fresh(b.pool, W \cup U)
           /\ U \cup Range(b.misses) = Range(a.misses) \cup R
  BY <1>1, <1>2, ExpertLookedUp
<1>5. PICK U \in SUBSET R : /\ \A k \in U : Visible(a.pool, k)
                            /\ \A W : Fresh(a.pool, W) => Fresh(b.pool, W \cup U)
                            /\ U \cup Range(b.misses) = Range(a.misses) \cup R
  BY <1>4
<1>6. Reordered(p, b.pool)
  BY <1>2, <1>4 DEF Reordered
<1>7. \A k \in T \cup U : Visible(p, k)
  BY <1>2, <1>3, <1>5 DEF Reordered, Visible
<1>8. Fresh(b.pool, T \cup U)
  BY <1>3, <1>5
<1>9. (T \cup U) \cup Range(b.misses) = S \cup R
  BY <1>3, <1>5
<1>10. T \cup U \in SUBSET (S \cup R)
  BY <1>3, <1>5
<1> QED BY <1>1, <1>4, <1>6, <1>7, <1>8, <1>9, <1>10 DEF FoundAndMissed

(* All the picks: their pages are found and accessed last, or to be loaded. *)
LEMMA PicksLookedUp ==
  ASSUME Sound(pool, Slots), picks \in Seq(AllExperts)
  PROVE  FoundAndMissed(pool, Looked[Len(picks)], PickedPages)
<1>1. PICK f, p, es, n : f = Looked /\ p = pool /\ es = picks /\ n = Len(es)
  OBVIOUS
<1>2. /\ n \in Nat /\ f[0] = [pool |-> p, misses |-> << >>]
      /\ \A i \in 1..n : f[i] = LookupExpert(f[i - 1], es[i])
  BY <1>1, LenProperties, PickingSteps
<1>3. Sound(p, Slots) /\ es \in Seq(AllExperts)
  BY <1>1
<1> DEFINE T == {i \in Nat : i <= n => FoundAndMissed(p, f[i], PagesUpTo(es, i))}
<1>4. 0 \in T
  <2>1. PagesUpTo(es, 0) = {}
    BY DEF PagesUpTo
  <2>2. FoundAndMissed(p, f[0], PagesUpTo(es, 0))
    BY <1>2, <1>3, <2>1, FirstLookup
  <2> QED BY <2>2
<1>5. ASSUME NEW i \in T PROVE i + 1 \in T
  <2>1. i \in Nat /\ i + 1 \in Nat
    OBVIOUS
  <2>2. ASSUME i + 1 <= n PROVE FoundAndMissed(p, f[i + 1], PagesUpTo(es, i + 1))
    <3>1. i <= n /\ i + 1 \in 1..n
      BY <1>2, <2>1, <2>2
    <3>2. PICK j : j = i + 1
      OBVIOUS
    <3>3. j \in 1..n /\ j - 1 = i
      BY <2>1, <3>1, <3>2
    <3>4. f[j] = LookupExpert(f[i], es[j])
      BY <1>2, <3>3
    <3>5. FoundAndMissed(p, f[i], PagesUpTo(es, i))
      BY <3>1
    <3>6. es[j] \in AllExperts /\ PagesUpTo(es, j) = PagesUpTo(es, i) \cup Range(Pages(es[j]))
      BY <1>1, <1>3, <2>1, <3>1, <3>2, PagesOfNext
    <3>7. FoundAndMissed(p, LookupExpert(f[i], es[j]), PagesUpTo(es, i) \cup Range(Pages(es[j])))
      BY <3>5, <3>6, NextLookup
    <3> QED BY <3>2, <3>4, <3>6, <3>7
  <2> QED BY <2>1, <2>2
<1>6. n \in T
  <2>1. T \in SUBSET Nat
    OBVIOUS
  <2> HIDE DEF T
  <2>2. T = Nat
    BY <1>4, <1>5, <2>1, NaturalInduction
  <2> QED BY <1>2, <2>2
<1>7. FoundAndMissed(p, f[n], PagesUpTo(es, n))
  BY <1>2, <1>6
<1>8. PickedPages = PagesUpTo(es, n)
  BY <1>1, <1>3, PagesOfMany DEF PickedPages
<1> QED BY <1>1, <1>7, <1>8

-----------------------------------------------------------------------------
(* The commands of the scheduler's ledger *)

(* The recursive function of Requests. *)
RequestedAt(f, c, es, i) ==
  IF i = 0 THEN [cache |-> c, promoted |-> << >>] ELSE Promoted(f[i - 1], es[i])
AreRequests(f, c, es, n) == f = [i \in 0..n |-> RequestedAt(f, c, es, i)]

(* It exists, for any number of candidates. *)
LEMMA RequestsExist ==
  ASSUME NEW c, NEW es, NEW n \in Nat
  PROVE  \E f : AreRequests(f, c, es, n)
<1> DEFINE T == {m \in Nat : \E f : \A i \in 0..m : f[i] = RequestedAt(f, c, es, i)}
<1>1. \A f, g, i : i = 0 \/ f[i - 1] = g[i - 1] => RequestedAt(f, c, es, i) = RequestedAt(g, c, es, i)
  BY DEF RequestedAt
<1>2. 0 \in T
  <2> DEFINE g == [i \in 0..0 |-> RequestedAt(<< >>, c, es, i)]
  <2>1. \A i \in 0..0 : i = 0 /\ g[i] = RequestedAt(<< >>, c, es, i)
    OBVIOUS
  <2> HIDE DEF g
  <2>2. \A i \in 0..0 : g[i] = RequestedAt(g, c, es, i)
    BY <1>1, <2>1
  <2> QED BY <2>2
<1>3. ASSUME NEW m \in T PROVE m + 1 \in T
  <2>1. m \in Nat /\ m + 1 \in Nat
    OBVIOUS
  <2>2. PICK f : \A i \in 0..m : f[i] = RequestedAt(f, c, es, i)
    OBVIOUS
  <2> DEFINE h == [i \in 0..(m + 1) |-> RequestedAt(f, c, es, i)]
  <2>3. \A i \in 0..(m + 1) : h[i] = RequestedAt(f, c, es, i)
    OBVIOUS
  <2> HIDE DEF h
  <2>4. ASSUME NEW i \in 0..(m + 1) PROVE h[i] = RequestedAt(h, c, es, i)
    <3>1. i = 0 \/ (i - 1 \in 0..m /\ i - 1 \in 0..(m + 1))
      BY <2>1
    <3>2. i = 0 \/ h[i - 1] = f[i - 1]
      BY <2>2, <2>3, <3>1
    <3> QED BY <1>1, <2>3, <3>2
  <2> QED BY <2>1, <2>4
<1>4. T = Nat
  <2> HIDE DEF T
  <2>1. T \in SUBSET Nat
    BY DEF T
  <2> QED BY <1>2, <1>3, <2>1, NaturalInduction
<1>5. PICK f : \A i \in 0..n : f[i] = RequestedAt(f, c, es, i)
  BY <1>4, ZenonT(40)
<1> DEFINE h == [i \in 0..n |-> f[i]]
<1>6. \A i \in 0..n : h[i] = f[i]
  OBVIOUS
<1>7. \A i \in 0..n : f[i] = RequestedAt(h, c, es, i)
  <2> SUFFICES ASSUME NEW i \in 0..n PROVE f[i] = RequestedAt(h, c, es, i)
    OBVIOUS
  <2> HIDE DEF h
  <2>1. i = 0 \/ i - 1 \in 0..n
    OBVIOUS
  <2> QED BY <1>1, <1>5, <1>6, <2>1
<1>8. h = [i \in 0..n |-> RequestedAt(h, c, es, i)]
  <2>1. h = [i \in 0..n |-> f[i]]
    OBVIOUS
  <2> HIDE DEF h
  <2> QED BY <1>7, <2>1
<1> HIDE DEF h
<1> QED BY <1>8 DEF AreRequests

(* One candidate is requested after the other. *)
LEMMA RequestSteps ==
  ASSUME NEW c, NEW es, Len(es) \in Nat, NEW f0, f0 = Requests(c, es)
  PROVE  /\ f0[0] = [cache |-> c, promoted |-> << >>]
         /\ \A i \in 1..Len(es) : f0[i] = Promoted(f0[i - 1], es[i])
<1>0. Len(es) \in Nat
  OBVIOUS
<1>1. PICK f : f = f0 /\ f = Requests(c, es)
  OBVIOUS
<1>2. Len(es) \in Nat
  BY <1>0
<1>3. f = CHOOSE g : AreRequests(g, c, es, Len(es))
  BY <1>1 DEF Requests, RequestedAt, AreRequests
<1>4. AreRequests(f, c, es, Len(es))
  <2>1. \E g : AreRequests(g, c, es, Len(es))
    BY <1>2, RequestsExist
  <2> QED BY <1>3, <2>1, Zenon
<1>5. \A i \in 0..Len(es) : f[i] = RequestedAt(f, c, es, i)
  <2>1. PICK g : g = [i \in 0..Len(es) |-> RequestedAt(f, c, es, i)]
    OBVIOUS
  <2>2. \A i \in 0..Len(es) : g[i] = RequestedAt(f, c, es, i)
    BY <2>1
  <2>3. f = g
    BY <1>4, <2>1 DEF AreRequests
  <2> QED BY <2>2, <2>3
<1>6. 0 \in 0..Len(es) /\ \A i \in 1..Len(es) : i \in 0..Len(es) /\ i # 0
  BY <1>2
<1>7. f[0] = RequestedAt(f, c, es, 0) /\ \A i \in 1..Len(es) : f[i] = RequestedAt(f, c, es, i)
  BY <1>5, <1>6
<1>8. /\ RequestedAt(f, c, es, 0) = [cache |-> c, promoted |-> << >>]
      /\ \A i : i # 0 => RequestedAt(f, c, es, i) = Promoted(f[i - 1], es[i])
  BY DEF RequestedAt
<1> QED BY <1>1, <1>6, <1>7, <1>8

(* Only candidates are promoted, each once at most per request. *)
LEMMA OnlyCandidates ==
  ASSUME NEW S, NEW c, NEW es \in Seq(S)
  PROVE  LET q == RequestToVram(c, es).promoted IN q \in Seq(S) /\ Len(q) <= Len(es)
<1>1. PICK f, n : f = Requests(c, es) /\ n = Len(es)
  OBVIOUS
<1>2. /\ n \in Nat /\ f[0] = [cache |-> c, promoted |-> << >>]
      /\ \A i \in 1..n : f[i] = Promoted(f[i - 1], es[i])
  BY <1>1, LenProperties, RequestSteps
<1>3. \A i \in 1..n : es[i] \in S
  BY <1>1, ElementOfSeq
<1> DEFINE P(i) == f[i].promoted \in Seq(S) /\ Len(f[i].promoted) <= i
           T == {i \in Nat : i <= n => P(i)}
<1>4. 0 \in T
  <2>1. << >> \in Seq(S) /\ Len(<< >>) = 0
    BY EmptySeq
  <2>2. PICK a : a = f[0]
    OBVIOUS
  <2>3. PICK q : q = a.promoted
    OBVIOUS
  <2>4. q = << >>
    BY <1>2, <2>2, <2>3
  <2>5. q \in Seq(S) /\ Len(q) <= 0
    BY <2>1, <2>4
  <2> QED BY <2>2, <2>3, <2>5
<1>5. ASSUME NEW i \in T PROVE i + 1 \in T
  <2>1. i \in Nat /\ i + 1 \in Nat
    OBVIOUS
  <2>2. ASSUME i + 1 <= n PROVE P(i + 1)
    <3>1. i <= n /\ i + 1 \in 1..n
      BY <1>2, <2>1, <2>2
    <3>2. PICK j, a, b, e : j = i + 1 /\ a = f[i] /\ b = f[j] /\ e = es[j]
      OBVIOUS
    <3>3. j \in 1..n /\ j - 1 = i
      BY <2>1, <3>1, <3>2
    <3>4. b = Promoted(a, e) /\ e \in S
      BY <1>2, <1>3, <3>2, <3>3
    <3>5. a.promoted \in Seq(S) /\ Len(a.promoted) <= i
      BY <3>1, <3>2
    <3>6. b.promoted = a.promoted \/ b.promoted = Append(a.promoted, e)
      BY <3>4 DEF Promoted
    <3>7. b.promoted \in Seq(S) /\ Len(b.promoted) <= i + 1
      <4>1. Len(a.promoted) \in Nat
        BY <3>5, LenProperties
      <4>2. Append(a.promoted, e) \in Seq(S) /\ Len(Append(a.promoted, e)) = Len(a.promoted) + 1
        BY <3>4, <3>5, AppendProperties
      <4>3. CASE b.promoted = a.promoted
        BY <2>1, <3>5, <4>1, <4>3
      <4>4. CASE b.promoted = Append(a.promoted, e)
        BY <2>1, <3>5, <4>1, <4>2, <4>4
      <4> QED BY <3>6, <4>3, <4>4
    <3> QED BY <3>2, <3>7
  <2> QED BY <2>1, <2>2
<1>6. n \in T
  <2>1. T \in SUBSET Nat
    OBVIOUS
  <2> HIDE DEF T
  <2>2. T = Nat
    BY <1>4, <1>5, <2>1, NaturalInduction
  <2> QED BY <1>2, <2>2
<1>7. P(n)
  BY <1>2, <1>6
<1> QED BY <1>1, <1>7 DEF RequestToVram

-----------------------------------------------------------------------------
(* Batches and the pages that must survive them *)

(* The pages X and those of the batch fit into the pool, and those that have
   their slots are the most recently used. *)
Sheltered(p, b, X) ==
  /\ X \in SUBSET Key
  /\ IsFiniteSet(X \cup Range(b.keys)) /\ Cardinality(X \cup Range(b.keys)) <= Slots
  /\ Fresh(p, X \cup Prefix(b)) /\ Awaited(p, X \cup Prefix(b))

(* The pages on their way are as many as the ring slots taken. *)
LEMMA PendingBound ==
  ASSUME RingNow
  PROVE  /\ PendingPages \in SUBSET Key /\ IsFiniteSet(PendingPages)
         /\ Cardinality(PendingPages) <= Cardinality(Taken(pending))
<1>1. PICK T, P, f : /\ T = Taken(pending) /\ P = PendingPages
                     /\ f = [pip \in T |-> pending[pip].key]
  OBVIOUS
<1>2. P = {pending[pip].key : pip \in T}
  BY <1>1 DEF Taken, PendingPages
<1>3. f \in Surjection(T, P)
  <2>1. f \in [T -> P]
    BY <1>1, <1>2
  <2>2. \A k \in P : \E pip \in T : f[pip] = k
    BY <1>1, <1>2
  <2> QED BY <2>1, <2>2 DEF Surjection
<1>4. IsFiniteSet(P) /\ Cardinality(P) <= Cardinality(T)
  BY <1>1, <1>3, TakenFinite, FS_Surjection
<1>5. P \in SUBSET Key
  <2>1. \A pip \in Ring : pending[pip] # NoTransfer => pending[pip].key \in Key
    BY PendingTransfers DEF RingNow
  <2> QED BY <1>1, <1>2, <2>1 DEF Taken
<1> QED BY <1>1, <1>4, <1>5

(* A batch begins: the pages X, those on their way and those of the batch fit
   into the pool together. *)
LEMMA BeginShelters ==
  ASSUME LoaderInv, NEW keys \in Seq(Key), BeginBatch(keys), batch' # NoBatch,
         NEW X \in SUBSET Key, Fresh(pool, X), NEW m \in Nat, m + Depth - 1 <= Slots,
         IsFiniteSet(X \cup Range(keys)), Cardinality(X \cup Range(keys)) <= m,
         Cardinality(Taken(pending)) <= Depth - 1
  PROVE  Sheltered(pool', batch', X \cup PendingPages)
<1>1. PICK q, b, P, R : q = pool' /\ b = batch' /\ P = PendingPages /\ R = Range(keys)
  OBVIOUS
<1>2. /\ Fresh(q, X \cup P) /\ \A s \in 1..Slots, k \in Key : q.state[s] # Loading(k)
      /\ b.slots = << >> /\ Range(b.keys) = R
  BY <1>1, BatchBegins
<1>3. Prefix(b) = {}
  BY <1>2 DEF Prefix
<1>4. Fresh(q, (X \cup P) \cup Prefix(b)) /\ Awaited(q, (X \cup P) \cup Prefix(b))
  <2>1. (X \cup P) \cup Prefix(b) = X \cup P
    BY <1>3
  <2>2. Awaited(q, X \cup P)
    BY <1>2 DEF Awaited
  <2> QED BY <1>2, <2>1, <2>2
<1>5. P \in SUBSET Key /\ IsFiniteSet(P) /\ Cardinality(P) <= Depth - 1
  <2>1. RingNow
    BY DEF LoaderInv, RingInv, RingNow
  <2>2. /\ P \in SUBSET Key /\ IsFiniteSet(P) /\ Cardinality(P) <= Cardinality(Taken(pending))
    BY <1>1, <2>1, PendingBound
  <2>3. Cardinality(P) \in Nat /\ Cardinality(Taken(pending)) \in Nat
    BY <2>2, TakenFinite, FS_CardinalityType
  <2> QED BY <2>2, <2>3, LoaderAssumption
<1>6. IsFiniteSet((X \cup R) \cup P) /\ Cardinality((X \cup R) \cup P) <= m + (Depth - 1)
  <2>1. PICK d, S : d = Depth - 1 /\ S = X \cup R
    OBVIOUS
  <2>2. d \in Nat /\ Cardinality(P) <= d /\ IsFiniteSet(S) /\ Cardinality(S) <= m
    BY <1>1, <1>5, <2>1, LoaderAssumption
  <2>3. IsFiniteSet(S \cup P) /\ Cardinality(S \cup P) <= m + d
    BY <1>5, <2>2, UnionBound
  <2> QED BY <2>1, <2>3
<1>7. (X \cup R) \cup P = (X \cup P) \cup Range(b.keys)
  BY <1>2
<1>8. PICK S : S = (X \cup P) \cup Range(b.keys)
  OBVIOUS
<1>9. IsFiniteSet(S) /\ Cardinality(S) <= m + (Depth - 1) /\ Cardinality(S) \in Nat
  BY <1>6, <1>7, <1>8, FS_CardinalityType
<1>10. Cardinality(S) <= Slots
  BY <1>9, LoaderAssumption
<1>11. X \cup P \in SUBSET Key
  BY <1>5
<1> QED BY <1>1, <1>4, <1>8, <1>9, <1>10, <1>11 DEF Sheltered

(* The pages on their way are awaited. *)
LEMMA PendingAwaited ==
  ASSUME RingNow, NEW W, Awaited(pool, W)
  PROVE  PendingPages \subseteq W
<1> SUFFICES ASSUME NEW i \in Ring, pending[i] # NoTransfer PROVE pending[i].key \in W
  BY DEF PendingPages
<1>1. /\ pending[i].key \in Key /\ pending[i].slot \in 1..Slots
      /\ pool.state[pending[i].slot] = Loading(pending[i].key)
  BY PendingTransfers DEF RingNow
<1> QED BY <1>1 DEF Awaited

(* A drain between waves: the pages on their way are of the batch or of X. *)
LEMMA DrainShelters ==
  ASSUME LoaderInv, DrainWave, NEW X, Sheltered(pool, batch, X)
  PROVE  Sheltered(pool', batch', X)
<1>1. PICK q, b, W : q = pool' /\ b = batch /\ W = X \cup Prefix(b)
  OBVIOUS
<1>2. RingNow /\ WaitAll /\ batch' = b
  BY <1>1 DEF LoaderInv, RingInv, RingNow, DrainWave
<1>3. /\ \A s \in 1..Slots, k \in Key : q.state[s] # Loading(k)
      /\ \A V : Fresh(pool, V) => Fresh(q, V \cup PendingPages)
  BY <1>1, <1>2, WaitAllDrains
<1>4. Fresh(pool, W) /\ Awaited(pool, W)
  BY <1>1 DEF Sheltered
<1>5. W \cup PendingPages = W
  BY <1>2, <1>4, PendingAwaited
<1>6. Fresh(q, W)
  BY <1>3, <1>4, <1>5
<1>7. Awaited(q, W)
  BY <1>3 DEF Awaited
<1> QED BY <1>1, <1>2, <1>6, <1>7 DEF Sheltered

(* A page of the batch leaves X and the earlier pages where they are, whether
   its load succeeds or not. *)
LEMMA NextShelters ==
  ASSUME LoaderInv, BatchNext, NEW X, Sheltered(pool, batch, X)
  PROVE  /\ Keeps(pool, pool', X)
         /\ batch' # NoBatch => batch'.keys = batch.keys /\ Sheltered(pool', batch', X)
<1>1. PICK q, b, n, k, W : /\ q = pool' /\ b = batch /\ n = Len(b.slots) /\ k = b.keys[n + 1]
                           /\ W = X \cup Prefix(b)
  OBVIOUS
<1>2. /\ RingNow /\ next_pip \in Ring /\ b # NoBatch /\ n < Len(b.keys) /\ BatchOK(pool, b)
  <2>1. RingNow /\ next_pip \in Ring
    BY DEF LoaderInv, RingInv, RingNow
  <2>2. b # NoBatch /\ n < Len(b.keys)
    BY <1>1 DEF BatchNext
  <2> QED BY <1>1, <2>1, <2>2 DEF LoaderInv, CallsOK
<1>3. /\ n \in Nat /\ k \in Key /\ Prefix(b) \in SUBSET Key
      /\ Prefix(b) \cup {k} = {b.keys[i] : i \in 1..(n + 1)}
  <2>1. /\ n \in Nat /\ b.keys[n + 1] \in Key /\ Prefix(b) \in SUBSET Key
        /\ Prefix(b) \cup {b.keys[n + 1]} = {b.keys[i] : i \in 1..(n + 1)}
    <3>1. n = Len(b.slots) /\ n < Len(b.keys) /\ BatchOK(pool, b)
      BY <1>1, <1>2
    <3> QED BY <3>1, BatchPage
  <2> QED BY <1>1, <2>1
<1>4. /\ X \in SUBSET Key /\ IsFiniteSet(X \cup Range(b.keys))
      /\ Cardinality(X \cup Range(b.keys)) <= Slots /\ Fresh(pool, W) /\ Awaited(pool, W)
  BY <1>1 DEF Sheltered
<1>5. W \in SUBSET Key /\ Room(W, k)
  <2>1. b.keys \in Seq(Key)
    BY <1>2 DEF BatchOK, Batch
  <2>2. PICK l : l = Len(b.keys)
    OBVIOUS
  <2>3. l \in Nat /\ DOMAIN b.keys = 1..l /\ n < l
    BY <1>2, <2>1, <2>2, LenProperties
  <2>4. \A i \in 1..(n + 1) : i \in 1..l
    BY <1>3, <2>3
  <2>5. {b.keys[i] : i \in 1..(n + 1)} \subseteq Range(b.keys)
    BY <2>3, <2>4 DEF Range
  <2>6. W \cup {k} \in SUBSET (X \cup Range(b.keys))
    BY <1>1, <1>3, <2>5
  <2>7. PICK S, V : S = X \cup Range(b.keys) /\ V = W \cup {k}
    OBVIOUS
  <2>8. /\ IsFiniteSet(S) /\ Cardinality(S) <= Slots /\ IsFiniteSet(V)
        /\ Cardinality(V) <= Cardinality(S)
    BY <1>4, <2>6, <2>7, FS_Subset
  <2>9. Cardinality(V) <= Slots
    BY <2>8, FS_CardinalityType, LoaderAssumption
  <2> QED BY <1>1, <1>3, <1>4, <2>7, <2>8, <2>9 DEF Room
<1>6. \/ \E slot \in 1..Slots : Enqueue(k, slot) /\ batch' = [b EXCEPT !.slots = Append(@, slot)]
      \/ EnqueueFails(k) /\ batch' = NoBatch
  BY <1>1 DEF BatchNext
<1>7. ASSUME NEW slot \in 1..Slots, Enqueue(k, slot), batch' = [b EXCEPT !.slots = Append(@, slot)]
      PROVE  Keeps(pool, q, W) /\ batch'.keys = b.keys /\ Sheltered(q, batch', X)
  <2>1. Joined(pool, q, W, k)
    <3>1. \A V \in SUBSET Key : Room(V, k) /\ Fresh(pool, V) /\ Awaited(pool, V) =>
            Joined(pool, q, V, k)
      BY <1>1, <1>2, <1>3, <1>7, EnqueueTakes
    <3> QED BY <1>4, <1>5, <3>1
  <2>2. PICK c, ks, ss : c = batch' /\ ks = b.keys /\ ss = b.slots
    OBVIOUS
  <2>3. ks \in Seq(Key) /\ ss \in Seq(1..Slots) /\ b = [keys |-> ks, slots |-> ss] /\ Len(ss) = n
    BY <1>1, <1>2, <2>2 DEF BatchOK, Batch
  <2>4. PICK ss2 : ss2 = Append(ss, slot)
    OBVIOUS
  <2>5. Len(ss2) = n + 1
    BY <2>3, <2>4, AppendProperties
  <2>6. c = [keys |-> ks, slots |-> ss2]
    BY <1>7, <2>2, <2>3, <2>4
  <2>7. c.keys = ks /\ Prefix(c) = Prefix(b) \cup {k}
    <3>1. c.keys = ks /\ c.slots = ss2
      BY <2>6
    <3>2. Prefix(c) = {ks[i] : i \in 1..(n + 1)}
      BY <2>5, <3>1 DEF Prefix
    <3> QED BY <1>3, <2>2, <3>1, <3>2
  <2>8. X \cup Prefix(c) = W \cup {k}
    BY <1>1, <2>7
  <2>9. Fresh(q, X \cup Prefix(c)) /\ Awaited(q, X \cup Prefix(c)) /\ Keeps(pool, q, W)
    BY <2>1, <2>8 DEF Joined
  <2> QED BY <1>4, <2>2, <2>7, <2>9 DEF Sheltered
<1>8. ASSUME EnqueueFails(k), batch' = NoBatch PROVE Keeps(pool, q, W)
  <2>1. \A V \in SUBSET Key : Room(V, k) /\ Fresh(pool, V) /\ Awaited(pool, V) => Keeps(pool, q, V)
    BY <1>1, <1>2, <1>3, <1>8, EnqueueFailsSafely
  <2> QED BY <1>4, <1>5, <2>1
<1>9. ASSUME Keeps(pool, q, W) PROVE Keeps(pool, q, X)
  BY <1>1, <1>9 DEF Keeps
<1> QED BY <1>1, <1>6, <1>7, <1>8, <1>9

(* enqueue takes one ring slot more at most. *)
LEMMA EnqueueCounts ==
  ASSUME RingNow, next_pip \in Ring, NEW k \in Key, NEW slot, Enqueue(k, slot)
  PROVE  Cardinality(Taken(pending')) <= Cardinality(Taken(pending)) + 1
<1>1. pending \in [Ring -> Transfer \cup {NoTransfer}]
  BY DEF RingNow, RingOK, RingTyped
<1>2. \E j \in Ring : \A i \in Ring : i # j /\ pending'[i] # NoTransfer => pending[i] # NoTransfer
  <2>1. CASE EnqueueHit(k, slot)
    BY <2>1 DEF EnqueueHit, ring
  <2>2. CASE EnqueuePending(k, slot)
    <3>1. PICK j \in Ring : pending' = [pending EXCEPT ![j] = NoTransfer]
      BY <2>2 DEF EnqueuePending, PipsOf
    <3> QED BY <1>1, <3>1
  <2>3. CASE EnqueueLoad(k, slot)
    <3>1. pending' = [pending EXCEPT ![next_pip] = [key |-> k, slot |-> slot]]
      BY <2>3 DEF EnqueueLoad
    <3> QED BY <1>1, <3>1
  <2> QED BY <2>1, <2>2, <2>3 DEF Enqueue
<1> QED BY <1>2, TakenMore

(* An enqueue that fails takes none. *)
LEMMA FailureCounts ==
  ASSUME RingNow, next_pip \in Ring, NEW k \in Key, EnqueueFails(k)
  PROVE  Cardinality(Taken(pending')) <= Cardinality(Taken(pending))
<1>1. pending \in [Ring -> Transfer \cup {NoTransfer}]
  BY DEF RingNow, RingOK, RingTyped
<1>2. pending' = pending \/ pending' = [pending EXCEPT ![next_pip] = NoTransfer]
  BY DEF EnqueueFails, RefusePage, RefuseSlot, FailRead, FailSubmit, ring
<1>3. \A i \in Ring : pending'[i] # NoTransfer => pending[i] # NoTransfer
  BY <1>1, <1>2
<1> QED BY <1>3, TakenLess

(* The transfers of a wave, and those that an error leaves behind. *)
LEMMA NextCounts ==
  ASSUME LoaderInv, BatchNext, InWave(Len(batch.slots), Cardinality(Taken(pending)))
  PROVE  /\ batch' # NoBatch => InWave(Len(batch'.slots), Cardinality(Taken(pending')))
         /\ batch' = NoBatch => Cardinality(Taken(pending')) <= Depth - 1
<1>1. PICK b, n, k, c, e : /\ b = batch /\ n = Len(b.slots) /\ k = b.keys[n + 1]
                           /\ c = Cardinality(Taken(pending)) /\ e = Cardinality(Taken(pending'))
  OBVIOUS
<1>2. /\ RingNow /\ next_pip \in Ring /\ n < Len(b.keys) /\ BatchOK(pool, b)
  BY <1>1 DEF LoaderInv, RingInv, RingNow, BatchNext, CallsOK
<1>3. n \in Nat /\ k \in Key /\ Len(b.keys) \in Nat
  <2>1. n \in Nat /\ k \in Key
    BY <1>1, <1>2, BatchPage
  <2>2. Len(b.keys) \in Nat
    BY <1>2, LenProperties DEF BatchOK, Batch
  <2> QED BY <2>1, <2>2
<1>4. c \in Nat /\ e \in Nat /\ InWave(n, c)
  BY <1>1, TakenFinite
<1>5. n > 0 /\ n % Depth = 0 => c = 0
  <2> SUFFICES ASSUME n > 0, n % Depth = 0 PROVE c = 0
    OBVIOUS
  <2>1. n \in 1..(Len(b.keys) - 1)
    BY <1>2, <1>3
  <2>2. \A pip \in Ring : pending[pip] = NoTransfer
    BY <1>1, <2>1 DEF BatchNext, WaveEnds
  <2>3. Taken(pending) = {}
    BY <2>2 DEF Taken
  <2> QED BY <1>1, <2>3, FS_EmptySet
<1>6. c <= Depth - 1 /\ \A x \in Nat : x <= c + 1 => InWave(n + 1, x)
  BY <1>3, <1>4, <1>5, WaveGoesOn
<1>7. \/ \E slot \in 1..Slots : Enqueue(k, slot) /\ batch' = [b EXCEPT !.slots = Append(@, slot)]
      \/ EnqueueFails(k) /\ batch' = NoBatch
  BY <1>1 DEF BatchNext
<1>8. ASSUME NEW slot \in 1..Slots, Enqueue(k, slot), batch' = [b EXCEPT !.slots = Append(@, slot)]
      PROVE  batch' # NoBatch /\ InWave(Len(batch'.slots), e)
  <2>1. e <= c + 1
    BY <1>1, <1>2, <1>3, <1>8, EnqueueCounts
  <2>2. PICK d, ks, ss : d = batch' /\ ks = b.keys /\ ss = b.slots
    OBVIOUS
  <2>3. ks \in Seq(Key) /\ ss \in Seq(1..Slots) /\ b = [keys |-> ks, slots |-> ss] /\ Len(ss) = n
    BY <1>1, <1>2, <2>2 DEF BatchOK, Batch
  <2>4. PICK ss2 : ss2 = Append(ss, slot)
    OBVIOUS
  <2>5. ss2 \in Seq(1..Slots) /\ Len(ss2) = n + 1
    BY <2>3, <2>4, AppendProperties
  <2>6. d = [keys |-> ks, slots |-> ss2]
    BY <1>8, <2>2, <2>3, <2>4
  <2>7. d \in Batch /\ Len(d.slots) = n + 1
    BY <2>3, <2>5, <2>6 DEF Batch
  <2>8. InWave(n + 1, e)
    BY <1>4, <1>6, <2>1
  <2> QED BY <2>2, <2>7, <2>8, NoneAssumption
<1>9. ASSUME EnqueueFails(k), batch' = NoBatch PROVE e <= Depth - 1
  <2>1. e <= c
    BY <1>1, <1>2, <1>3, <1>9, FailureCounts
  <2> QED BY <1>4, <1>6, <2>1, LoaderAssumption
<1> QED BY <1>1, <1>7, <1>8, <1>9

-----------------------------------------------------------------------------
(* The inductive invariant of the forward pass *)

(* The pages the kernels read, and that they are in their slots. *)
PagesRead(ks) == {r[1] : r \in ks}
KernelsHold(p, ks) ==
  \A r \in ks : r[1] \in Key /\ r[2] \in 1..Slots /\ p.state[r[2]] = Ready(r[1])

InPool(p, k) == \E s \in 1..Slots : HeldIn(p, s, k)
Wanted(es) == Len(es) * Len(Kinds)

HostOK ==
  /\ layer \in 1..Layers /\ token_counter \in Nat
  /\ phase \in {"prefetching", "loading"} <=> batch # NoBatch
  /\ picks \in Seq(AllExperts) /\ prefetch \in Seq(Key) /\ misses \in Seq(Key)

(* How many pages the layer needs and how many are to be prefetched: they fit
   if the pool has room for them. *)
Fits ==
  /\ RoomForPicks => Wanted(picks) + Depth - 1 <= Slots
  /\ RoomForPrefetch =>
       (token_counter >= Warmup /\ phase # "idle" =>
          Wanted(picks) + Len(prefetch) + Depth - 1 <= Slots)
  /\ token_counter >= Warmup /\ phase \in {"attention", "route"} => prefetch = << >>

(* The pages of running kernels are accessed last when the prefetch begins,
   and it does not evict them if there is room. *)
KernelsOK == RoomForPrefetch =>
  /\ KernelsHold(pool, kernels)
  /\ kernels # {} => /\ phase \in {"idle", "prefetch", "prefetching", "flush_prefetch", "attention"}
                     /\ PagesRead(kernels) \subseteq PickedPages
  /\ phase = "prefetch" => Fresh(pool, PagesRead(kernels))
  /\ phase = "prefetching" => \E X : Sheltered(pool, batch, X) /\ PagesRead(kernels) \subseteq X

(* The pages that were found stay in the pool until the others are loaded, if
   there is room. *)
LookingOK == RoomForPicks =>
  /\ phase = "load" =>
       \E T \in SUBSET PickedPages :
         Fresh(pool, T) /\ (\A k \in T : InPool(pool, k)) /\ T \cup Range(misses) = PickedPages
  /\ phase = "loading" =>
       \E X : /\ Sheltered(pool, batch, X)
              /\ \A k \in PickedPages : k \in Range(batch.keys) \/ (k \in X /\ InPool(pool, k))
  /\ phase = "flush" => \A k \in PickedPages : InPool(pool, k)
  /\ phase = "dispatch" => \A k \in PickedPages : Visible(pool, k)

(* At most Depth - 1 transfers are left behind by a batch that failed. *)
Leftovers ==
  /\ phase \notin {"prefetching", "flush_prefetch", "loading", "flush"} =>
       Cardinality(Taken(pending)) <= Depth - 1
  /\ batch # NoBatch => InWave(Len(batch.slots), Cardinality(Taken(pending)))

ForwardInv == LoaderInv /\ HostOK /\ Fits /\ KernelsOK /\ LookingOK /\ Leftovers

(* Room for the prefetch is room for the picks. *)
LEMMA RoomIncludesPicks == RoomForPrefetch => RoomForPicks
<1> SUFFICES ASSUME RoomForPrefetch, NEW xs \in Picks \cup {<< >>}
             PROVE  Len(xs) * Len(Kinds) + Depth - 1 <= Slots
  BY DEF RoomForPicks
<1>1. (Len(xs) + Len(<< >>)) * Len(Kinds) + Depth - 1 <= Slots
  BY DEF RoomForPrefetch
<1>2. Len(<< >>) = 0 /\ Len(xs) \in Nat
  BY EmptySeq, ForwardAssumption, LenProperties
<1>3. Len(xs) + Len(<< >>) = Len(xs)
  BY <1>2
<1> QED BY <1>1, <1>3

(* The pages of the picks are few. *)
LEMMA PickedBound ==
  ASSUME picks \in Seq(AllExperts)
  PROVE  /\ PagesOf(picks) \in Seq(Key) /\ PickedPages \in SUBSET Key
         /\ IsFiniteSet(PickedPages) /\ Cardinality(PickedPages) <= Wanted(picks)
         /\ Wanted(picks) \in Nat
<1>1. PICK q, n : q = PagesOf(picks) /\ n = Wanted(picks)
  OBVIOUS
<1>2. q \in Seq(Key) /\ Len(q) = n
  BY <1>1, PagesOfMany DEF Wanted
<1>3. n \in Nat /\ DOMAIN q = 1..n /\ IsFiniteSet(Range(q)) /\ Cardinality(Range(q)) <= n
  BY <1>2, LenProperties, RangeBound
<1>4. Range(q) \in SUBSET Key
  BY <1>2, <1>3, ElementOfSeq DEF Range
<1> QED BY <1>1, <1>2, <1>3, <1>4 DEF PickedPages

(* Any wave begins with an empty ring. *)
LEMMA EmptyWave ==
  ASSUME NEW n \in Nat
  PROVE  InWave(n, 0) /\ 0 <= Depth - 1
<1>1. n % Depth \in 0..(Depth - 1) /\ 0 <= Depth - 1
  BY NextRemainder, LoaderAssumption
<1> QED BY <1>1 DEF InWave

(* Loads that end leave the kernels their pages, and the pool its. *)
LEMMA SettledPages ==
  ASSUME NEW p, NEW q, Settles(p, q)
  PROVE  /\ \A ks : KernelsHold(p, ks) => KernelsHold(q, ks)
         /\ \A k \in Key : InPool(p, k) => InPool(q, k)
<1>1. \A s \in 1..Slots, k \in Key : p.state[s] = Ready(k) => q.state[s] = Ready(k)
  BY DEF Settles
<1>2. \A s \in 1..Slots, k \in Key : HeldIn(p, s, k) => HeldIn(q, s, k)
  BY DEF Settles
<1> QED BY <1>1, <1>2 DEF KernelsHold, InPool

(* So do steps that keep the pages X. *)
LEMMA KeptPages ==
  ASSUME NEW p, NEW q, NEW X, Keeps(p, q, X)
  PROVE  /\ \A ks : KernelsHold(p, ks) /\ PagesRead(ks) \subseteq X => KernelsHold(q, ks)
         /\ \A k \in X : InPool(p, k) => InPool(q, k)
<1>1. \A s \in 1..Slots, k \in X : p.state[s] = Ready(k) => q.state[s] = Ready(k)
  BY DEF Keeps
<1>2. \A s \in 1..Slots, k \in X : HeldIn(p, s, k) => HeldIn(q, s, k)
  BY DEF Keeps
<1>3. ASSUME NEW ks, KernelsHold(p, ks), PagesRead(ks) \subseteq X PROVE KernelsHold(q, ks)
  <2>1. \A r \in ks : r[1] \in X
    BY <1>3 DEF PagesRead
  <2> QED BY <1>1, <1>3, <2>1 DEF KernelsHold
<1>4. ASSUME NEW k \in X, InPool(p, k) PROVE InPool(q, k)
  BY <1>2, <1>4 DEF InPool
<1> QED BY <1>3, <1>4

(* Steps of the GPU and steps of the host that only read. *)
LEMMA CopyForward ==
  ASSUME ForwardInv, NEW pip, NEW slot, Copy(pip, slot)
  PROVE  ForwardInv'
<1>1. /\ LoaderInv' /\ UNCHANGED <<pool, pending, batch>> /\ UNCHANGED host
  BY CopyKeeps DEF Copy, ExecuteCopy, ForwardInv
<1>2. HostOK' /\ Fits' /\ Leftovers'
  BY <1>1 DEF ForwardInv, host, HostOK, Fits, Leftovers
<1>3. KernelsOK' /\ LookingOK'
  BY <1>1 DEF ForwardInv, host, KernelsOK, LookingOK, PickedPages
<1> QED BY <1>1, <1>2, <1>3 DEF ForwardInv

(* The kernels finish: nothing reads the pool any more. *)
LEMMA KernelsFinishForward ==
  ASSUME ForwardInv, KernelsFinish
  PROVE  ForwardInv'
<1>1. /\ kernels' = {} /\ UNCHANGED vars
      /\ UNCHANGED <<phase, layer, token_counter, prefetch, picks, misses, cache, steps>>
  BY DEF KernelsFinish, loaderUnchanged
<1>2. LoaderInv' /\ UNCHANGED <<pool, pending, batch>>
  BY <1>1 DEF ForwardInv, vars, ring, LoaderInv, RingInv, CallsOK
<1>3. HostOK' /\ Fits' /\ Leftovers' /\ LookingOK'
  BY <1>1, <1>2 DEF ForwardInv, HostOK, Fits, Leftovers, LookingOK, PickedPages
<1>4. PagesRead({}) = {} /\ KernelsHold(pool, {}) /\ Fresh(pool, {})
  BY DEF PagesRead, KernelsHold, Fresh, Ordered, ReadySlots
<1>5. RoomForPrefetch /\ phase = "prefetching" => \E X : Sheltered(pool, batch, X)
  BY DEF ForwardInv, KernelsOK
<1>6. KernelsOK'
  BY <1>1, <1>2, <1>4, <1>5 DEF KernelsOK
<1> QED BY <1>2, <1>3, <1>6 DEF ForwardInv

(* Nothing is read when no kernels run. *)
LEMMA NoKernels == \A p : PagesRead({}) = {} /\ KernelsHold(p, {}) /\ Fresh(p, {})
BY DEF PagesRead, KernelsHold, Fresh, Ordered, ReadySlots

(* The loader rests. *)
LEMMA LoaderRests ==
  ASSUME ForwardInv, UNCHANGED vars
  PROVE  LoaderInv' /\ UNCHANGED <<pool, pending, batch>>
BY DEF ForwardInv, vars, ring, LoaderInv, RingInv, CallsOK

(* A call of step begins, after the last token's kernels. *)
LEMMA StepBeginsForward ==
  ASSUME ForwardInv, StepBegins
  PROVE  ForwardInv'
<1>1. /\ phase = "idle" /\ kernels = {} /\ layer' = 1 /\ prefetch' = << >> /\ phase' = "prefetch"
      /\ UNCHANGED vars /\ UNCHANGED <<token_counter, picks, misses, cache, kernels>>
  BY DEF StepBegins, PipeIdle, loaderUnchanged
<1>2. LoaderInv' /\ UNCHANGED <<pool, pending, batch>>
  BY <1>1, LoaderRests
<1>3. HostOK /\ Fits /\ Leftovers
  BY DEF ForwardInv
<1>4. HostOK'
  <2>1. 1 \in 1..Layers /\ << >> \in Seq(Key)
    BY ForwardAssumption, EmptySeq
  <2> QED BY <1>1, <1>2, <1>3, <2>1 DEF HostOK
<1>5. Fits'
  <2>1. Len(<< >>) = 0 /\ Wanted(picks) \in Nat
    BY <1>3, EmptySeq, PickedBound DEF HostOK
  <2>2. Wanted(picks) + Len(prefetch') + Depth - 1 = Wanted(picks) + Depth - 1
    BY <1>1, <2>1, LoaderAssumption
  <2>3. Wanted(picks)' = Wanted(picks)
    BY <1>1 DEF Wanted
  <2> QED BY <1>1, <1>3, <2>2, <2>3, RoomIncludesPicks DEF Fits
<1>6. KernelsOK'
  BY <1>1, NoKernels DEF KernelsOK
<1>7. LookingOK'
  BY <1>1 DEF LookingOK
<1>8. Leftovers'
  BY <1>1, <1>2, <1>3 DEF Leftovers
<1> QED BY <1>2, <1>4, <1>5, <1>6, <1>7, <1>8 DEF ForwardInv

(* Nothing is prefetched; what is queued waits for the next layer. *)
LEMMA PrefetchSkippedForward ==
  ASSUME ForwardInv, PrefetchSkipped
  PROVE  ForwardInv'
<1>1. /\ phase = "prefetch" /\ phase' = "attention"
      /\ token_counter < Warmup \/ prefetch = << >>
      /\ UNCHANGED vars
      /\ UNCHANGED <<layer, token_counter, prefetch, picks, misses, cache, kernels, steps>>
  BY DEF PrefetchSkipped, loaderUnchanged
<1>2. LoaderInv' /\ UNCHANGED <<pool, pending, batch>>
  BY <1>1, LoaderRests
<1>3. HostOK /\ Fits /\ Leftovers /\ KernelsOK
  BY DEF ForwardInv
<1>4. HostOK'
  BY <1>1, <1>2, <1>3 DEF HostOK
<1>5. Fits'
  <2>1. token_counter \in Nat /\ Warmup \in Nat
    BY <1>3, ForwardAssumption DEF HostOK
  <2>2. token_counter >= Warmup => prefetch = << >>
    BY <1>1, <2>1
  <2> QED BY <1>1, <1>3, <2>2 DEF Fits, Wanted
<1>6. KernelsOK'
  BY <1>1, <1>2, <1>3 DEF KernelsOK, PickedPages
<1>7. LookingOK'
  BY <1>1 DEF LookingOK
<1>8. Leftovers'
  BY <1>1, <1>2, <1>3 DEF Leftovers
<1> QED BY <1>2, <1>4, <1>5, <1>6, <1>7, <1>8 DEF ForwardInv

(* Attention waits for the kernels of the layer before. *)
LEMMA AttentionForward ==
  ASSUME ForwardInv, AttentionRuns
  PROVE  ForwardInv'
<1>1. /\ phase = "attention" /\ phase' = "route" /\ kernels = {} /\ UNCHANGED vars
      /\ UNCHANGED <<layer, token_counter, prefetch, picks, misses, cache, kernels, steps>>
  BY DEF AttentionRuns, Attention, PipeIdle, loaderUnchanged
<1>2. LoaderInv' /\ UNCHANGED <<pool, pending, batch>>
  BY <1>1, LoaderRests
<1>3. HostOK /\ Fits /\ Leftovers
  BY DEF ForwardInv
<1>4. HostOK' /\ Fits' /\ Leftovers'
  BY <1>1, <1>2, <1>3 DEF HostOK, Fits, Leftovers, Wanted
<1>5. KernelsOK'
  BY <1>1, NoKernels DEF KernelsOK
<1>6. LookingOK'
  BY <1>1 DEF LookingOK
<1> QED BY <1>2, <1>4, <1>5, <1>6 DEF ForwardInv

(* A flush completes the transfers that are left. *)
LEMMA FlushSettles ==
  ASSUME LoaderInv, Flush
  PROVE  /\ LoaderInv' /\ Settles(pool, pool') /\ batch = NoBatch /\ batch' = NoBatch
         /\ Cardinality(Taken(pending')) = 0
         /\ \A s \in 1..Slots, k \in Key : pool'.state[s] # Loading(k)
<1>1. /\ RingNow /\ batch = NoBatch /\ WaitAll /\ batch' = batch
  BY DEF LoaderInv, RingInv, RingNow, Flush, Idle
<1>2. /\ pending' = NothingPending /\ Settles(pool, pool')
      /\ \A s \in 1..Slots, k \in Key : pool'.state[s] # Loading(k)
  BY <1>1, WaitAllDrains
<1> QED BY <1>1, <1>2, FlushKeeps, NothingTaken

(* The prefetched pages are there, and the kernels still have theirs. *)
LEMMA PrefetchFlushedForward ==
  ASSUME ForwardInv, PrefetchFlushed
  PROVE  ForwardInv'
<1>1. /\ phase = "flush_prefetch" /\ phase' = "attention" /\ prefetch' = << >> /\ Flush
      /\ UNCHANGED <<layer, token_counter, picks, misses, cache, kernels, steps>>
  BY DEF PrefetchFlushed
<1>2. LoaderInv /\ HostOK /\ Fits /\ KernelsOK
  BY DEF ForwardInv
<1>3. /\ LoaderInv' /\ Settles(pool, pool') /\ batch = NoBatch /\ batch' = NoBatch
      /\ Cardinality(Taken(pending')) = 0
  BY <1>1, <1>2, FlushSettles
<1>4. HostOK'
  <2>1. << >> \in Seq(Key)
    BY EmptySeq
  <2> QED BY <1>1, <1>2, <1>3, <2>1 DEF HostOK
<1>5. Fits'
  <2>1. Len(<< >>) = 0 /\ Wanted(picks) \in Nat
    BY <1>2, EmptySeq, PickedBound DEF HostOK
  <2>2. Wanted(picks) + Len(prefetch') + Depth - 1 = Wanted(picks) + Depth - 1
    BY <1>1, <2>1, LoaderAssumption
  <2>3. Wanted(picks)' = Wanted(picks)
    BY <1>1 DEF Wanted
  <2> QED BY <1>1, <1>2, <2>2, <2>3, RoomIncludesPicks DEF Fits
<1>6. KernelsOK'
  <2> SUFFICES ASSUME RoomForPrefetch PROVE KernelsOK'
    BY DEF KernelsOK
  <2>1. KernelsHold(pool', kernels)
    BY <1>2, <1>3, SettledPages DEF KernelsOK
  <2> QED BY <1>1, <1>2, <2>1 DEF KernelsOK, PickedPages
<1>7. LookingOK'
  BY <1>1 DEF LookingOK
<1>8. Leftovers'
  BY <1>3, LoaderAssumption DEF Leftovers
<1> QED BY <1>3, <1>4, <1>5, <1>6, <1>7, <1>8 DEF ForwardInv

(* The missing pages are there, and those that were found still are. *)
LEMMA MissesFlushedForward ==
  ASSUME ForwardInv, MissesFlushed
  PROVE  ForwardInv'
<1>1. /\ phase = "flush" /\ phase' = "dispatch" /\ Flush
      /\ UNCHANGED <<layer, token_counter, prefetch, picks, misses, cache, kernels, steps>>
  BY DEF MissesFlushed
<1>2. LoaderInv /\ HostOK /\ Fits /\ KernelsOK /\ LookingOK
  BY DEF ForwardInv
<1>3. /\ LoaderInv' /\ Settles(pool, pool') /\ batch = NoBatch /\ batch' = NoBatch
      /\ Cardinality(Taken(pending')) = 0
      /\ \A s \in 1..Slots, k \in Key : pool'.state[s] # Loading(k)
  BY <1>1, <1>2, FlushSettles
<1>4. HostOK' /\ Fits'
  BY <1>1, <1>2, <1>3 DEF HostOK, Fits, Wanted
<1>5. KernelsOK'
  <2> SUFFICES ASSUME RoomForPrefetch PROVE KernelsOK'
    BY DEF KernelsOK
  <2>1. kernels' = {}
    BY <1>1, <1>2 DEF KernelsOK
  <2> QED BY <1>1, <2>1, NoKernels DEF KernelsOK
<1>6. LookingOK'
  <2> SUFFICES ASSUME RoomForPicks PROVE LookingOK'
    BY DEF LookingOK
  <2>1. ASSUME NEW k \in PickedPages PROVE Visible(pool', k)
    <3>1. k \in Key
      BY <1>2, PickedBound DEF HostOK
    <3>2. InPool(pool', k)
      BY <1>1, <1>2, <1>3, <3>1, SettledPages DEF LookingOK
    <3>3. PICK s \in 1..Slots : HeldIn(pool', s, k)
      BY <3>2 DEF InPool
    <3>4. PICK q : q = pool'
      OBVIOUS
    <3>5. q.state[s] = Ready(k)
      BY <1>3, <3>1, <3>3, <3>4 DEF HeldIn
    <3>6. Sound(q, Slots) /\ Slots \in Nat
      BY <1>3, <3>4, LoaderAssumption DEF LoaderInv, RingInv, RingOK
    <3>7. Visible(q, k)
      BY <3>1, <3>5, <3>6, SoundSlots
    <3> QED BY <3>4, <3>7
  <2>2. PickedPages' = PickedPages
    BY <1>1 DEF PickedPages
  <2> QED BY <1>1, <2>1, <2>2 DEF LookingOK
<1>7. Leftovers'
  BY <1>3, LoaderAssumption DEF Leftovers
<1> QED BY <1>3, <1>4, <1>5, <1>6, <1>7 DEF ForwardInv

-----------------------------------------------------------------------------
(* The batches of the forward pass *)

(* The prefetch begins: the pages of the running kernels, those left on their
   way and the new ones fit into the pool together. *)
LEMMA PrefetchBeginsForward ==
  ASSUME ForwardInv, PrefetchBegins
  PROVE  ForwardInv'
<1>1. /\ phase = "prefetch" /\ token_counter >= Warmup /\ BeginBatch(prefetch)
      /\ phase' = IF batch' = NoBatch THEN "idle" ELSE "prefetching"
      /\ UNCHANGED <<layer, token_counter, prefetch, picks, misses, cache, kernels, steps>>
  BY DEF PrefetchBegins, CallBatch
<1>2. LoaderInv /\ HostOK /\ Fits /\ KernelsOK /\ Leftovers
  BY DEF ForwardInv
<1>3. prefetch \in Seq(Key) /\ picks \in Seq(AllExperts)
  BY <1>2 DEF HostOK
<1>4. /\ LoaderInv' /\ Settles(pool, pool') /\ pending' = NothingPending
      /\ batch' # NoBatch => batch'.slots = << >>
  BY <1>1, <1>2, <1>3, BatchBegins
<1>5. HostOK' /\ Fits'
  BY <1>1, <1>2 DEF HostOK, Fits, Wanted
<1>6. KernelsOK'
  <2> SUFFICES ASSUME RoomForPrefetch PROVE KernelsOK'
    BY DEF KernelsOK
  <2>1. KernelsHold(pool', kernels)
    BY <1>2, <1>4, SettledPages DEF KernelsOK
  <2>2. PICK X, R : X = PagesRead(kernels) /\ R = Range(prefetch)
    OBVIOUS
  <2>3. X \subseteq PickedPages
    BY <1>2, <2>2, NoKernels DEF KernelsOK
  <2>4. PICK w, l : w = Wanted(picks) /\ l = Len(prefetch)
    OBVIOUS
  <2>5. /\ w \in Nat /\ l \in Nat /\ IsFiniteSet(PickedPages) /\ Cardinality(PickedPages) <= w
        /\ PickedPages \in SUBSET Key /\ IsFiniteSet(R) /\ Cardinality(R) <= l
    BY <1>3, <2>2, <2>4, PickedBound, RangeBound, LenProperties
  <2>6. IsFiniteSet(X) /\ Cardinality(X) <= w
    <3>1. IsFiniteSet(X) /\ Cardinality(X) <= Cardinality(PickedPages)
      BY <2>3, <2>5, FS_Subset
    <3>2. Cardinality(X) \in Nat /\ Cardinality(PickedPages) \in Nat
      BY <2>5, <3>1, FS_CardinalityType
    <3> QED BY <2>5, <3>1, <3>2
  <2>7. PICK m : m = w + l
    OBVIOUS
  <2>8. m \in Nat /\ IsFiniteSet(X \cup R) /\ Cardinality(X \cup R) <= m
    <3>1. IsFiniteSet(X \cup R) /\ Cardinality(X \cup R) <= w + l
      BY <2>5, <2>6, UnionBound
    <3> QED BY <2>5, <2>7, <3>1
  <2>9. m + Depth - 1 <= Slots
    BY <1>1, <1>2, <2>4, <2>7 DEF Fits
  <2>10. Fresh(pool, X) /\ X \in SUBSET Key /\ Cardinality(Taken(pending)) <= Depth - 1
    BY <1>1, <1>2, <2>2, <2>3, <2>5 DEF KernelsOK, Leftovers
  <2>11. ASSUME batch' # NoBatch PROVE Sheltered(pool', batch', X \cup PendingPages)
    BY <1>1, <1>2, <1>3, <2>2, <2>8, <2>9, <2>10, <2>11, BeginShelters
  <2>12. phase' = "prefetching" => \E Y : Sheltered(pool', batch', Y) /\ X \subseteq Y
    <3>1. X \subseteq X \cup PendingPages
      OBVIOUS
    <3> QED BY <1>1, <2>11, <3>1
  <2>13. KernelsHold(pool', kernels') /\ X = PagesRead(kernels')
    BY <1>1, <2>1, <2>2
  <2>14. kernels' # {} => PagesRead(kernels') \subseteq PickedPages'
    BY <1>1, <2>2, <2>3 DEF PickedPages
  <2> QED BY <1>1, <2>12, <2>13, <2>14 DEF KernelsOK
<1>7. LookingOK'
  BY <1>1 DEF LookingOK
<1>8. Leftovers'
  <2>1. Cardinality(Taken(pending')) = 0
    BY <1>4, NothingTaken
  <2>2. batch' # NoBatch => Len(batch'.slots) = 0
    BY <1>4
  <2>3. InWave(0, 0) /\ 0 <= Depth - 1
    BY EmptyWave
  <2> QED BY <2>1, <2>2, <2>3 DEF Leftovers
<1> QED BY <1>4, <1>5, <1>6, <1>7, <1>8 DEF ForwardInv

(* The misses are loaded: the pages that were found, those left on their way
   and the missing ones fit. *)
LEMMA MissesBeginForward ==
  ASSUME ForwardInv, MissesBegin
  PROVE  ForwardInv'
<1>1. /\ phase = "load" /\ BeginBatch(misses)
      /\ phase' = IF batch' = NoBatch THEN "idle" ELSE "loading"
      /\ UNCHANGED <<layer, token_counter, prefetch, picks, misses, cache, kernels, steps>>
  BY DEF MissesBegin, CallBatch
<1>2. LoaderInv /\ HostOK /\ Fits /\ KernelsOK /\ LookingOK /\ Leftovers
  BY DEF ForwardInv
<1>3. misses \in Seq(Key) /\ picks \in Seq(AllExperts)
  BY <1>2 DEF HostOK
<1>4. /\ LoaderInv' /\ Settles(pool, pool') /\ pending' = NothingPending
      /\ batch' # NoBatch => batch'.slots = << >> /\ Range(batch'.keys) = Range(misses)
  BY <1>1, <1>2, <1>3, BatchBegins
<1>5. HostOK' /\ Fits'
  BY <1>1, <1>2 DEF HostOK, Fits, Wanted
<1>6. KernelsOK'
  <2> SUFFICES ASSUME RoomForPrefetch PROVE KernelsOK'
    BY DEF KernelsOK
  <2>1. kernels' = {}
    BY <1>1, <1>2 DEF KernelsOK
  <2> QED BY <1>1, <2>1, NoKernels DEF KernelsOK
<1>7. LookingOK'
  <2> SUFFICES ASSUME RoomForPicks PROVE LookingOK'
    BY DEF LookingOK
  <2>1. PICK T \in SUBSET PickedPages :
          Fresh(pool, T) /\ (\A k \in T : InPool(pool, k)) /\ T \cup Range(misses) = PickedPages
    BY <1>1, <1>2 DEF LookingOK
  <2>2. PICK w : w = Wanted(picks)
    OBVIOUS
  <2>3. /\ w \in Nat /\ IsFiniteSet(PickedPages) /\ Cardinality(PickedPages) <= w
        /\ PickedPages \in SUBSET Key
    BY <1>3, <2>2, PickedBound
  <2>4. w + Depth - 1 <= Slots /\ T \in SUBSET Key
    BY <1>2, <2>2, <2>3 DEF Fits
  <2>5. IsFiniteSet(T \cup Range(misses)) /\ Cardinality(T \cup Range(misses)) <= w
    BY <2>1, <2>3
  <2>6. Cardinality(Taken(pending)) <= Depth - 1
    BY <1>1, <1>2 DEF Leftovers
  <2>7. ASSUME batch' # NoBatch PROVE Sheltered(pool', batch', T \cup PendingPages)
    BY <1>1, <1>2, <1>3, <2>1, <2>3, <2>4, <2>5, <2>6, <2>7, BeginShelters
  <2>8. \A k \in T : InPool(pool', k)
    BY <1>4, <2>1, <2>4, SettledPages
  <2>9. ASSUME batch' # NoBatch
        PROVE  \E X : /\ Sheltered(pool', batch', X)
                      /\ \A k \in PickedPages : k \in Range(batch'.keys) \/ (k \in X /\ InPool(pool', k))
    <3>1. PICK X : X = T \cup PendingPages
      OBVIOUS
    <3>2. Sheltered(pool', batch', X)
      BY <2>7, <2>9, <3>1
    <3>3. \A k \in PickedPages : k \in Range(batch'.keys) \/ (k \in X /\ InPool(pool', k))
      BY <1>4, <2>1, <2>8, <2>9, <3>1
    <3> QED BY <3>2, <3>3
  <2>10. PickedPages' = PickedPages
    BY <1>1 DEF PickedPages
  <2> QED BY <1>1, <2>9, <2>10 DEF LookingOK
<1>8. Leftovers'
  <2>1. Cardinality(Taken(pending')) = 0
    BY <1>4, NothingTaken
  <2>2. batch' # NoBatch => Len(batch'.slots) = 0
    BY <1>4
  <2>3. InWave(0, 0) /\ 0 <= Depth - 1
    BY EmptyWave
  <2> QED BY <2>1, <2>2, <2>3 DEF Leftovers
<1> QED BY <1>4, <1>5, <1>6, <1>7, <1>8 DEF ForwardInv

(* Between two waves of a batch. *)
LEMMA DrainForward ==
  ASSUME ForwardInv, DrainWave, UNCHANGED host
  PROVE  ForwardInv'
<1>1. /\ batch # NoBatch /\ batch' = batch /\ WaitAll
      /\ UNCHANGED <<phase, layer, token_counter, prefetch, picks, misses, cache, kernels, steps>>
  BY DEF DrainWave, host
<1>2. LoaderInv /\ HostOK /\ Fits /\ KernelsOK /\ LookingOK /\ Leftovers
  BY DEF ForwardInv
<1>3. LoaderInv' /\ Settles(pool, pool') /\ pending' = NothingPending
  <2>1. RingNow
    BY <1>2 DEF LoaderInv, RingInv, RingNow
  <2>2. pending' = NothingPending
    BY <1>1, <2>1, WaitAllDrains
  <2>3. LoaderInv' /\ Settles(pool, pool')
    BY <1>2, DrainKeeps
  <2> QED BY <2>2, <2>3
<1>4. HostOK' /\ Fits'
  BY <1>1, <1>2 DEF HostOK, Fits, Wanted
<1>5. phase = "prefetching" \/ phase = "loading"
  BY <1>1, <1>2 DEF HostOK
<1>6. \A X : Sheltered(pool, batch, X) => Sheltered(pool', batch', X)
  BY <1>2, DrainShelters
<1>7. KernelsOK'
  <2> SUFFICES ASSUME RoomForPrefetch PROVE KernelsOK'
    BY DEF KernelsOK
  <2>1. KernelsHold(pool', kernels)
    BY <1>2, <1>3, SettledPages DEF KernelsOK
  <2>2. phase = "prefetching" => \E X : Sheltered(pool', batch', X) /\ PagesRead(kernels) \subseteq X
    BY <1>2, <1>6 DEF KernelsOK
  <2> QED BY <1>1, <1>2, <1>5, <2>1, <2>2 DEF KernelsOK, PickedPages
<1>8. LookingOK'
  <2> SUFFICES ASSUME RoomForPicks PROVE LookingOK'
    BY DEF LookingOK
  <2>1. ASSUME phase = "loading"
        PROVE  \E X : /\ Sheltered(pool', batch', X)
                      /\ \A k \in PickedPages : k \in Range(batch.keys) \/ (k \in X /\ InPool(pool', k))
    <3>1. PICK X : /\ Sheltered(pool, batch, X)
                   /\ \A k \in PickedPages : k \in Range(batch.keys) \/ (k \in X /\ InPool(pool, k))
      BY <1>2, <2>1 DEF LookingOK
    <3>2. \A k \in PickedPages : k \in Key
      BY <1>2, PickedBound DEF HostOK
    <3>3. \A k \in PickedPages : k \in Range(batch.keys) \/ (k \in X /\ InPool(pool', k))
      BY <1>3, <3>1, <3>2, SettledPages
    <3> QED BY <1>6, <3>1, <3>3
  <2> QED BY <1>1, <1>5, <2>1 DEF LookingOK, PickedPages
<1>9. Leftovers'
  <2>1. Cardinality(Taken(pending')) = 0
    BY <1>3, NothingTaken
  <2>2. Len(batch.slots) \in Nat
    BY <1>1, <1>2, LenProperties DEF LoaderInv, CallsOK, BatchOK, Batch
  <2>3. InWave(Len(batch.slots), 0) /\ 0 <= Depth - 1
    BY <2>2, EmptyWave
  <2> QED BY <1>1, <2>1, <2>3 DEF Leftovers
<1> QED BY <1>3, <1>4, <1>7, <1>8, <1>9 DEF ForwardInv

(* One page of a batch, or the error that ends step. *)
LEMMA NextForward ==
  ASSUME ForwardInv, BatchNext, phase' = IF batch' = NoBatch THEN "idle" ELSE phase,
         UNCHANGED <<layer, token_counter, prefetch, picks, misses, cache, kernels, steps>>
  PROVE  ForwardInv'
<1>1. batch # NoBatch
  BY DEF BatchNext
<1>2. LoaderInv /\ HostOK /\ Fits /\ KernelsOK /\ LookingOK /\ Leftovers
  BY DEF ForwardInv
<1>3. LoaderInv'
  BY <1>2, BatchNextKeeps
<1>4. HostOK' /\ Fits'
  BY <1>1, <1>2 DEF HostOK, Fits, Wanted
<1>5. phase = "prefetching" \/ phase = "loading"
  BY <1>1, <1>2 DEF HostOK
<1>6. ASSUME NEW X, Sheltered(pool, batch, X)
      PROVE  /\ Keeps(pool, pool', X)
             /\ batch' # NoBatch => batch'.keys = batch.keys /\ Sheltered(pool', batch', X)
  BY <1>2, <1>6, NextShelters
<1>7. KernelsOK'
  <2> SUFFICES ASSUME RoomForPrefetch PROVE KernelsOK'
    BY DEF KernelsOK
  <2>1. CASE phase = "prefetching"
    <3>1. PICK X : Sheltered(pool, batch, X) /\ PagesRead(kernels) \subseteq X
      BY <1>2, <2>1 DEF KernelsOK
    <3>2. KernelsHold(pool', kernels)
      BY <1>2, <1>6, <3>1, KeptPages DEF KernelsOK
    <3>3. batch' # NoBatch => Sheltered(pool', batch', X)
      BY <1>6, <3>1
    <3>4. KernelsHold(pool', kernels') /\ PagesRead(kernels') \subseteq X
      BY <3>1, <3>2
    <3>5. kernels' # {} => PagesRead(kernels') \subseteq PickedPages'
      BY <1>2 DEF KernelsOK, PickedPages
    <3>6. phase' = "idle" \/ (phase' = "prefetching" /\ batch' # NoBatch)
      BY <2>1
    <3> QED BY <3>3, <3>4, <3>5, <3>6 DEF KernelsOK
  <2>2. CASE phase = "loading"
    <3>1. kernels' = {} /\ phase' # "prefetching"
      BY <1>2, <2>2 DEF KernelsOK
    <3> QED BY <2>2, <3>1, NoKernels DEF KernelsOK
  <2> QED BY <1>5, <2>1, <2>2
<1>8. LookingOK'
  <2> SUFFICES ASSUME RoomForPicks PROVE LookingOK'
    BY DEF LookingOK
  <2>1. ASSUME phase = "loading", batch' # NoBatch
        PROVE  \E X : /\ Sheltered(pool', batch', X)
                      /\ \A k \in PickedPages : k \in Range(batch'.keys) \/ (k \in X /\ InPool(pool', k))
    <3>1. PICK X : /\ Sheltered(pool, batch, X)
                   /\ \A k \in PickedPages : k \in Range(batch.keys) \/ (k \in X /\ InPool(pool, k))
      BY <1>2, <2>1 DEF LookingOK
    <3>2. Keeps(pool, pool', X) /\ batch'.keys = batch.keys /\ Sheltered(pool', batch', X)
      BY <1>6, <2>1, <3>1
    <3>3. \A k \in PickedPages : k \in Range(batch'.keys) \/ (k \in X /\ InPool(pool', k))
      BY <3>1, <3>2, KeptPages
    <3> QED BY <3>2, <3>3
  <2>2. PickedPages' = PickedPages
    BY DEF PickedPages
  <2>3. phase' = "idle" \/ (phase' = phase /\ batch' # NoBatch)
    OBVIOUS
  <2> QED BY <1>5, <2>1, <2>2, <2>3 DEF LookingOK
<1>9. Leftovers'
  <2>1. InWave(Len(batch.slots), Cardinality(Taken(pending)))
    BY <1>1, <1>2 DEF Leftovers
  <2>2. /\ batch' # NoBatch => InWave(Len(batch'.slots), Cardinality(Taken(pending')))
        /\ batch' = NoBatch => Cardinality(Taken(pending')) <= Depth - 1
    BY <1>2, <2>1, NextCounts
  <2>3. phase' \notin {"prefetching", "loading"} => batch' = NoBatch
    BY <1>5
  <2> QED BY <2>2, <2>3 DEF Leftovers
<1> QED BY <1>3, <1>4, <1>7, <1>8, <1>9 DEF ForwardInv

(* batch_enqueue returns: every page has a slot. *)
LEMMA ReturnsForward ==
  ASSUME ForwardInv, BatchReturns,
         phase' = IF phase = "prefetching" THEN "flush_prefetch" ELSE "flush",
         UNCHANGED <<layer, token_counter, prefetch, picks, misses, cache, kernels, steps>>
  PROVE  ForwardInv'
<1>1. batch # NoBatch /\ batch' = NoBatch /\ pool' = pool /\ Len(batch.slots) = Len(batch.keys)
  BY DEF BatchReturns
<1>2. LoaderInv /\ HostOK /\ Fits /\ KernelsOK /\ LookingOK
  BY DEF ForwardInv
<1>3. LoaderInv' /\ \A i \in DOMAIN batch.keys : HeldIn(pool, batch.slots[i], batch.keys[i])
  BY <1>2, BatchReturnsKeeps
<1>4. phase = "prefetching" \/ phase = "loading"
  BY <1>1, <1>2 DEF HostOK
<1>5. HostOK' /\ Fits'
  BY <1>1, <1>2, <1>4 DEF HostOK, Fits, Wanted
<1>6. KernelsOK'
  BY <1>1, <1>2, <1>4 DEF KernelsOK, PickedPages
<1>7. LookingOK'
  <2> SUFFICES ASSUME RoomForPicks PROVE LookingOK'
    BY DEF LookingOK
  <2>1. ASSUME phase = "loading", NEW k \in PickedPages PROVE InPool(pool, k)
    <3>1. k \in Range(batch.keys) \/ InPool(pool, k)
      BY <1>2, <2>1 DEF LookingOK
    <3>2. ASSUME k \in Range(batch.keys) PROVE InPool(pool, k)
      <4>1. PICK i \in DOMAIN batch.keys : k = batch.keys[i]
        BY <3>2 DEF Range
      <4>2. HeldIn(pool, batch.slots[i], k)
        BY <1>3, <4>1
      <4> QED BY <4>2 DEF InPool, HeldIn
    <3> QED BY <3>1, <3>2
  <2>2. PickedPages' = PickedPages
    BY DEF PickedPages
  <2> QED BY <1>1, <1>4, <2>1, <2>2 DEF LookingOK
<1>8. Leftovers'
  BY <1>1 DEF Leftovers
<1> QED BY <1>3, <1>5, <1>6, <1>7, <1>8 DEF ForwardInv

(* Any step of a batch. *)
LEMMA InBatchForward ==
  ASSUME ForwardInv, InBatch
  PROVE  ForwardInv'
<1>1. UNCHANGED <<layer, token_counter, prefetch, picks, misses, cache, kernels, steps>>
  BY DEF InBatch
<1>2. CASE DrainWave /\ UNCHANGED phase
  BY <1>1, <1>2, DrainForward DEF host
<1>3. CASE BatchNext /\ phase' = IF batch' = NoBatch THEN "idle" ELSE phase
  BY <1>1, <1>3, NextForward
<1>4. CASE BatchReturns /\ phase' = IF phase = "prefetching" THEN "flush_prefetch" ELSE "flush"
  BY <1>1, <1>4, ReturnsForward
<1> QED BY <1>2, <1>3, <1>4 DEF InBatch

-----------------------------------------------------------------------------
(* Routing, lookups and the kernels *)

(* Experts of a layer. *)
LEMMA ExpertsOfLayer ==
  ASSUME NEW l \in 1..Layers, NEW xs \in Seq(Experts)
  PROVE  OnLayer(l, xs) \in Seq(AllExperts) /\ Len(OnLayer(l, xs)) = Len(xs)
<1>1. PICK n, q : n = Len(xs) /\ q = OnLayer(l, xs)
  OBVIOUS
<1>2. n \in Nat /\ DOMAIN xs = 1..n /\ \A i \in 1..n : xs[i] \in Experts
  BY <1>1, LenProperties, ElementOfSeq
<1>3. q = [i \in 1..n |-> <<l, xs[i]>>]
  BY <1>1, <1>2 DEF OnLayer
<1>4. \A i \in 1..n : <<l, xs[i]>> \in AllExperts
  BY <1>2 DEF AllExperts, LayerExperts
<1>5. q \in [1..n -> AllExperts] /\ DOMAIN q = 1..n
  BY <1>3, <1>4
<1>6. q \in Seq(AllExperts)
  BY <1>2, <1>5, SeqDef
<1>7. Len(q) = n
  <2>1. Len(q) \in Nat /\ DOMAIN q = 1..Len(q)
    BY <1>6, LenProperties
  <2> QED BY <1>2, <1>5, <2>1
<1> QED BY <1>1, <1>6, <1>7

(* Products of counts. *)
LEMMA Products ==
  ASSUME NEW a \in Nat, NEW b \in Nat, NEW c \in Nat, NEW m \in Nat, c <= b
  PROVE  a * m + c * m <= (a + b) * m /\ a * m <= (a + b) * m /\ c * m \in Nat
<1>1. PICK d : d = b - c
  OBVIOUS
<1>2. d \in Nat /\ b = c + d
  BY <1>1
<1>3. (a + (c + d)) * m = a * m + c * m + d * m
  BY <1>2
<1>4. a * m \in Nat /\ c * m \in Nat /\ d * m \in Nat
  BY <1>2
<1>5. (a + b) * m = a * m + c * m + d * m
  BY <1>2, <1>3
<1> QED BY <1>4, <1>5

(* The picks and the promoted candidates are as many as the pool has room for. *)
LEMMA RouteForward ==
  ASSUME ForwardInv, NEW xs \in Picks, NEW ys \in Candidates, Route(xs, ys)
  PROVE  ForwardInv'
<1>1. PICK cs, ps : /\ cs = IF layer < Layers THEN OnLayer(layer + 1, ys) ELSE << >>
                    /\ ps = OnLayerComplete(cache, picks', cs).promoted
  OBVIOUS
<1>2. /\ phase = "route" /\ phase' = "lookup" /\ picks' = OnLayer(layer, xs)
      /\ prefetch' = prefetch \o PagesOf(ps)
      /\ UNCHANGED vars /\ UNCHANGED <<layer, token_counter, misses, kernels, steps>>
  BY <1>1 DEF Route, loaderUnchanged
<1>3. HostOK /\ Fits /\ KernelsOK /\ Leftovers
  BY DEF ForwardInv
<1>4. LoaderInv' /\ UNCHANGED <<pool, pending, batch>>
  BY <1>2, LoaderRests
<1>5. /\ layer \in 1..Layers /\ xs \in Seq(Experts) /\ ys \in Seq(Experts)
      /\ Len(xs) \in Nat /\ Len(ys) \in Nat
  BY <1>3, ForwardAssumption, LenProperties DEF HostOK
<1>6. picks' \in Seq(AllExperts) /\ Len(picks') = Len(xs)
  BY <1>2, <1>5, ExpertsOfLayer
<1>7. cs \in Seq(AllExperts) /\ Len(cs) <= Len(ys)
  <2>1. CASE layer < Layers
    <3>1. layer + 1 \in 1..Layers
      BY <1>5, <2>1, ForwardAssumption
    <3>2. cs = OnLayer(layer + 1, ys)
      BY <1>1, <2>1
    <3>3. OnLayer(layer + 1, ys) \in Seq(AllExperts) /\ Len(OnLayer(layer + 1, ys)) = Len(ys)
      BY <1>5, <3>1, ExpertsOfLayer
    <3> QED BY <1>5, <3>2, <3>3
  <2>2. CASE ~(layer < Layers)
    <3>1. cs = << >>
      BY <1>1, <2>2
    <3> QED BY <1>5, <3>1, EmptySeq
  <2> QED BY <2>1, <2>2
<1>8. ps \in Seq(AllExperts) /\ Len(ps) <= Len(cs)
  <2>1. PICK c : c = Touched(cache, picks')
    OBVIOUS
  <2>2. ps = RequestToVram(c, cs).promoted
    BY <1>1, <2>1 DEF OnLayerComplete
  <2> QED BY <1>7, <2>2, OnlyCandidates
<1>9. PICK m, gs : m = Len(Kinds) /\ gs = PagesOf(ps)
  OBVIOUS
<1>10. m \in Nat
  BY <1>9, ForwardAssumption, LenProperties
<1>11. gs \in Seq(Key) /\ Len(gs) = Len(ps) * m
  BY <1>8, <1>9, PagesOfMany
<1>12. /\ prefetch' \in Seq(Key)
       /\ prefetch = << >> => Len(prefetch') = Len(gs)
  <2>1. prefetch \in Seq(Key)
    BY <1>3 DEF HostOK
  <2>2. prefetch \o gs \in Seq(Key) /\ Len(prefetch \o gs) = Len(prefetch) + Len(gs)
    BY <1>11, <2>1, ConcatProperties
  <2>3. prefetch' = prefetch \o gs
    BY <1>2, <1>9
  <2>4. prefetch = << >> => Len(prefetch) = 0
    BY EmptySeq
  <2>5. Len(gs) \in Nat
    BY <1>11, LenProperties
  <2> QED BY <2>2, <2>3, <2>4, <2>5
<1>13. HostOK'
  BY <1>2, <1>3, <1>4, <1>6, <1>12 DEF HostOK
<1>14. Fits'
  <2>1. PICK a, b, c : a = Len(xs) /\ b = Len(ys) /\ c = Len(ps)
    OBVIOUS
  <2>2. a \in Nat /\ b \in Nat /\ c \in Nat /\ c <= b
    <3>1. Len(ps) \in Nat /\ Len(cs) \in Nat
      BY <1>7, <1>8, LenProperties
    <3> QED BY <1>5, <1>7, <1>8, <2>1, <3>1
  <2>3. a * m + c * m <= (a + b) * m /\ a * m <= (a + b) * m /\ c * m \in Nat
    BY <1>10, <2>2, Products
  <2>4. /\ RoomForPicks => a * m + Depth - 1 <= Slots
        /\ RoomForPrefetch => (a + b) * m + Depth - 1 <= Slots
    BY <1>9, <2>1 DEF RoomForPicks, RoomForPrefetch
  <2>5. PICK u, v, w : u = a * m /\ v = c * m /\ w = (a + b) * m
    OBVIOUS
  <2>6. u \in Nat /\ v \in Nat /\ w \in Nat
    BY <1>10, <2>2, <2>5
  <2>7. /\ RoomForPicks => u + Depth - 1 <= Slots
        /\ RoomForPrefetch => u + v + Depth - 1 <= Slots
    <3>1. PICK d : d = Depth
      OBVIOUS
    <3>2. /\ d \in Nat /\ Slots \in Nat /\ u + v <= w
          /\ RoomForPicks => u + d - 1 <= Slots
          /\ RoomForPrefetch => w + d - 1 <= Slots
      BY <2>3, <2>4, <2>5, <3>1, LoaderAssumption
    <3>3. RoomForPrefetch => u + v + d - 1 <= Slots
      BY <2>6, <3>2
    <3> QED BY <3>1, <3>2, <3>3
  <2>8. Wanted(picks)' = u
    BY <1>6, <1>9, <2>1, <2>5 DEF Wanted
  <2>9. token_counter >= Warmup => Len(prefetch') = v
    BY <1>2, <1>3, <1>11, <1>12, <2>1, <2>5 DEF Fits
  <2>10. phase' = "lookup" /\ token_counter' = token_counter
    BY <1>2
  <2>11. Wanted(picks') = u
    BY <2>8 DEF Wanted
  <2> QED BY <2>7, <2>8, <2>9, <2>10, <2>11 DEF Fits
<1>15. KernelsOK'
  <2> SUFFICES ASSUME RoomForPrefetch PROVE KernelsOK'
    BY DEF KernelsOK
  <2>1. kernels' = {}
    BY <1>2, <1>3 DEF KernelsOK
  <2> QED BY <1>2, <2>1, NoKernels DEF KernelsOK
<1>16. LookingOK'
  BY <1>2 DEF LookingOK
<1>17. Leftovers'
  BY <1>2, <1>3, <1>4 DEF Leftovers
<1> QED BY <1>4, <1>13, <1>14, <1>15, <1>16, <1>17 DEF ForwardInv

(* Lookups move no page: the loader's invariant survives them. *)
LEMMA LookupsKeepLoader ==
  ASSUME LoaderInv, batch = NoBatch, Reordered(pool, pool'),
         UNCHANGED <<memory, ring, batch, returned, open, loads>>
  PROVE  LoaderInv'
<1>1. PICK p, q : p = pool /\ q = pool'
  OBVIOUS
<1>2. Sound(q, Slots) /\ q.state = p.state /\ q.pins = p.pins
  BY <1>1 DEF Reordered
<1>3. RingInv'
  <2>1. RingOK(p, pending, memory, staging, fence, queue)
    BY <1>1 DEF LoaderInv, RingInv
  <2>2. RingOK(q, pending, memory, staging, fence, queue)
    BY <1>2, <2>1, SamePages
  <2> QED BY <1>1, <2>2 DEF LoaderInv, RingInv, ring
<1>4. CallsOK'
  <2>1. \A s, k : HeldIn(p, s, k) => HeldIn(q, s, k)
    BY <1>2 DEF HeldIn
  <2> QED BY <1>1, <2>1 DEF LoaderInv, CallsOK, ring
<1> QED BY <1>3, <1>4 DEF LoaderInv

(* A page that a lookup finds is in the pool. *)
LEMMA VisibleInPool ==
  ASSUME NEW p, Sound(p, Slots), NEW k, Visible(p, k)
  PROVE  k \in Key /\ p.index[k] \in 1..Slots /\ p.state[p.index[k]] = Ready(k) /\ InPool(p, k)
<1>1. k \in Key /\ p.index[k] \in 1..Slots /\ p.state[p.index[k]] = Ready(k)
  BY SoundSlots, LoaderAssumption
<1> QED BY <1>1 DEF InPool, HeldIn

(* The picks are looked up: the pages found are accessed last of all. *)
LEMMA LookPicksUpForward ==
  ASSUME ForwardInv, LookPicksUp
  PROVE  ForwardInv'
<1>1. PICK b, K : b = Looked[Len(picks)] /\ K = PickedPages
  OBVIOUS
<1>2. /\ phase = "lookup" /\ pool' = b.pool /\ misses' = b.misses
      /\ phase' = IF misses' = << >> THEN "dispatch" ELSE "load"
      /\ UNCHANGED <<memory, ring, batch, returned, open, loads>>
      /\ UNCHANGED <<layer, token_counter, prefetch, picks, cache, kernels, steps>>
  BY <1>1 DEF LookPicksUp
<1>3. LoaderInv /\ HostOK /\ Fits /\ KernelsOK /\ Leftovers
  BY DEF ForwardInv
<1>4. Sound(pool, Slots) /\ batch = NoBatch /\ picks \in Seq(AllExperts)
  BY <1>2, <1>3 DEF LoaderInv, RingInv, RingOK, HostOK
<1>5. FoundAndMissed(pool, b, K)
  BY <1>1, <1>4, PicksLookedUp
<1>6. PICK T \in SUBSET K : /\ \A k \in T : Visible(pool, k)
                            /\ Fresh(pool', T) /\ T \cup Range(misses') = K
  BY <1>2, <1>5 DEF FoundAndMissed
<1>7. Reordered(pool, pool') /\ misses' \in Seq(Key)
  BY <1>2, <1>5 DEF FoundAndMissed
<1>8. LoaderInv'
  BY <1>2, <1>3, <1>4, <1>7, LookupsKeepLoader
<1>9. HostOK' /\ Fits'
  BY <1>2, <1>3, <1>7 DEF HostOK, Fits, Wanted
<1>10. KernelsOK'
  <2> SUFFICES ASSUME RoomForPrefetch PROVE KernelsOK'
    BY DEF KernelsOK
  <2>1. kernels' = {}
    BY <1>2, <1>3 DEF KernelsOK
  <2> QED BY <1>2, <2>1, NoKernels DEF KernelsOK
<1>11. LookingOK'
  <2> SUFFICES ASSUME RoomForPicks PROVE LookingOK'
    BY DEF LookingOK
  <2>1. PICK q : q = pool'
    OBVIOUS
  <2>2. Sound(q, Slots) /\ \A k \in T : Visible(q, k)
    BY <1>6, <1>7, <2>1 DEF Reordered, Visible
  <2>3. \A k \in T : InPool(q, k)
    BY <2>2, VisibleInPool
  <2>4. misses' = << >> => K = T
    <3>1. Range(<< >>) = {}
      BY EmptySeq DEF Range
    <3> QED BY <1>6, <3>1
  <2>5. PickedPages' = K
    BY <1>1, <1>2 DEF PickedPages
  <2>6. CASE misses' = << >>
    <3>1. phase' = "dispatch" /\ \A k \in PickedPages' : Visible(pool', k)
      BY <1>2, <2>1, <2>2, <2>4, <2>5, <2>6
    <3> QED BY <3>1 DEF LookingOK
  <2>7. CASE misses' # << >>
    <3>1. phase' = "load"
      BY <1>2, <2>7
    <3>2. /\ T \in SUBSET PickedPages' /\ Fresh(pool', T) /\ \A k \in T : InPool(pool', k)
          /\ T \cup Range(misses') = PickedPages'
      BY <1>6, <2>1, <2>3, <2>5
    <3> QED BY <3>1, <3>2 DEF LookingOK
  <2> QED BY <2>6, <2>7
<1>12. Leftovers'
  <2>1. pending' = pending /\ batch' = batch
    BY <1>2 DEF ring
  <2> QED BY <1>2, <1>3, <2>1 DEF Leftovers
<1> QED BY <1>8, <1>9, <1>10, <1>11, <1>12 DEF ForwardInv

(* The kernels are given the slots of their pages, which the lookups of these
   slots have made the most recently used of all. *)
LEMMA DispatchForward ==
  ASSUME ForwardInv, Dispatch
  PROVE  ForwardInv'
<1>1. PICK ks, K, p, q : ks = PagesOf(picks) /\ K = PickedPages /\ p = pool /\ q = pool'
  OBVIOUS
<1>2. /\ phase = "dispatch" /\ kernels = {} /\ \A k \in K : Visible(p, k)
      /\ q = LookAllUp(p, ks) /\ kernels' = {<<k, p.index[k]>> : k \in K}
      /\ UNCHANGED <<memory, ring, batch, returned, open, loads>>
      /\ UNCHANGED <<prefetch, picks, misses, cache, steps>>
  BY <1>1 DEF Dispatch, PipeIdle
<1>3. \/ layer < Layers /\ layer' = layer + 1 /\ phase' = "prefetch" /\ token_counter' = token_counter
      \/ phase' = "idle" /\ token_counter' = token_counter + 1 /\ layer' = layer
  BY DEF Dispatch
<1>4. LoaderInv /\ HostOK /\ Fits /\ Leftovers
  BY DEF ForwardInv
<1>5. Sound(p, Slots) /\ batch = NoBatch /\ picks \in Seq(AllExperts)
  BY <1>1, <1>2, <1>4 DEF LoaderInv, RingInv, RingOK, HostOK
<1>6. ks \in Seq(Key) /\ K \in SUBSET Key /\ K = Range(ks)
  BY <1>1, <1>5, PickedBound DEF PickedPages
<1>7. Reordered(p, q) /\ Fresh(q, K)
  <2>1. \A i \in 1..Len(ks) : Visible(p, ks[i])
    <3>1. \A i \in 1..Len(ks) : ks[i] \in Range(ks)
      BY <1>6, LenProperties DEF Range
    <3> QED BY <1>2, <1>6, <3>1
  <2>2. /\ Reordered(p, LookAllUp(p, ks))
        /\ \A W : Fresh(p, W) => Fresh(LookAllUp(p, ks), W \cup Range(ks))
    BY <1>5, <1>6, <2>1, AllLookedUp
  <2>3. Fresh(p, {}) /\ {} \cup Range(ks) = K
    BY <1>6, NoKernels
  <2> QED BY <1>2, <2>2, <2>3
<1>8. LoaderInv'
  BY <1>1, <1>2, <1>4, <1>5, <1>7, LookupsKeepLoader
<1>9. HostOK'
  <2>1. layer' \in 1..Layers /\ token_counter' \in Nat
    BY <1>3, <1>4, ForwardAssumption DEF HostOK
  <2>2. phase' \notin {"prefetching", "loading"} /\ batch' = NoBatch
    BY <1>2, <1>3, <1>5
  <2> QED BY <1>2, <1>4, <2>1, <2>2 DEF HostOK
<1>10. Fits'
  <2>1. phase' # "attention" /\ phase' # "route" /\ (phase' # "idle" => token_counter' = token_counter)
    BY <1>3
  <2> QED BY <1>2, <1>4, <2>1 DEF Fits, Wanted
<1>11. KernelsOK'
  <2> SUFFICES ASSUME RoomForPrefetch PROVE KernelsOK'
    BY DEF KernelsOK
  <2>1. PagesRead(kernels') = K
    <3>1. PICK f : f = p.index
      OBVIOUS
    <3>2. kernels' = {<<k, f[k]>> : k \in K}
      BY <1>2, <3>1
    <3>3. \A k \in K : <<k, f[k]>>[1] = k
      OBVIOUS
    <3>4. {r[1] : r \in {<<k, f[k]>> : k \in K}} = K
      BY <3>3
    <3> QED BY <3>2, <3>4 DEF PagesRead
  <2>2. KernelsHold(q, kernels')
    <3> SUFFICES ASSUME NEW k \in K
                 PROVE  k \in Key /\ p.index[k] \in 1..Slots /\ q.state[p.index[k]] = Ready(k)
      BY <1>2 DEF KernelsHold
    <3>1. Visible(p, k)
      BY <1>2
    <3>2. k \in Key /\ p.index[k] \in 1..Slots /\ p.state[p.index[k]] = Ready(k)
      BY <1>5, <3>1, VisibleInPool
    <3> QED BY <1>7, <3>2 DEF Reordered
  <2>3. PickedPages' = K
    BY <1>1, <1>2 DEF PickedPages
  <2>4. Fresh(q, PagesRead(kernels'))
    BY <1>7, <2>1
  <2>5. phase' = "prefetch" \/ phase' = "idle"
    BY <1>3
  <2> QED BY <1>1, <2>1, <2>2, <2>3, <2>4, <2>5 DEF KernelsOK
<1>12. LookingOK'
  BY <1>3 DEF LookingOK
<1>13. Leftovers'
  <2>1. pending' = pending /\ batch' = batch
    BY <1>2 DEF ring
  <2> QED BY <1>2, <1>4, <1>5, <2>1 DEF Leftovers
<1> QED BY <1>8, <1>9, <1>10, <1>11, <1>12, <1>13 DEF ForwardInv

-----------------------------------------------------------------------------
(* The theorems about the forward pass *)

(* Nothing is picked, prefetched or running at first. *)
LEMMA ForwardInit == FInit => ForwardInv
<1> SUFFICES ASSUME FInit PROVE ForwardInv
  OBVIOUS
<1>1. /\ Init /\ phase = "idle" /\ layer = 1 /\ token_counter = 0 /\ prefetch = << >>
      /\ picks = << >> /\ misses = << >> /\ kernels = {}
  BY DEF FInit
<1>2. LoaderInv
  BY <1>1, LoaderInit
<1>3. batch = NoBatch /\ \A pip \in Ring : pending[pip] = NoTransfer
  BY <1>1 DEF Init
<1>4. HostOK
  <2>1. << >> \in Seq(Key) /\ << >> \in Seq(AllExperts)
    BY EmptySeq
  <2>2. 1 \in 1..Layers /\ 0 \in Nat
    BY ForwardAssumption
  <2> QED BY <1>1, <1>3, <2>1, <2>2 DEF HostOK
<1>5. Fits
  <2>1. PICK m : m = Len(Kinds)
    OBVIOUS
  <2>2. m \in Nat
    BY <2>1, ForwardAssumption, LenProperties
  <2>3. Len(<< >>) = 0
    BY EmptySeq
  <2>4. RoomForPicks => Len(<< >>) * m + Depth - 1 <= Slots
    BY <2>1 DEF RoomForPicks
  <2>5. 0 * m = 0
    BY <2>2
  <2>6. RoomForPicks => 0 + Depth - 1 <= Slots
    BY <2>3, <2>4, <2>5
  <2>7. Wanted(picks) = 0
    BY <1>1, <2>1, <2>3, <2>5 DEF Wanted
  <2> QED BY <1>1, <2>6, <2>7 DEF Fits
<1>6. KernelsOK
  BY <1>1, NoKernels DEF KernelsOK
<1>7. LookingOK
  BY <1>1 DEF LookingOK
<1>8. Leftovers
  <2>1. Taken(pending) = {}
    BY <1>3 DEF Taken
  <2> QED BY <1>3, <2>1, FS_EmptySet, LoaderAssumption DEF Leftovers
<1> QED BY <1>2, <1>4, <1>5, <1>6, <1>7, <1>8 DEF ForwardInv

(* No step disturbs the invariant. *)
LEMMA ForwardNext == ForwardInv /\ [FNext]_fvars => ForwardInv'
<1> SUFFICES ASSUME ForwardInv, [FNext]_fvars PROVE ForwardInv'
  OBVIOUS
<1>1. ASSUME NEW pip \in Ring, NEW slot \in 1..Slots, Copy(pip, slot) PROVE ForwardInv'
  BY <1>1, CopyForward
<1>2. CASE KernelsFinish
  BY <1>2, KernelsFinishForward
<1>3. CASE StepBegins
  BY <1>3, StepBeginsForward
<1>4. CASE PrefetchSkipped
  BY <1>4, PrefetchSkippedForward
<1>5. CASE PrefetchBegins
  BY <1>5, PrefetchBeginsForward
<1>6. CASE InBatch
  BY <1>6, InBatchForward
<1>7. CASE PrefetchFlushed
  BY <1>7, PrefetchFlushedForward
<1>8. CASE AttentionRuns
  BY <1>8, AttentionForward
<1>9. ASSUME NEW xs \in Picks, NEW ys \in Candidates, Route(xs, ys) PROVE ForwardInv'
  BY <1>9, RouteForward
<1>10. CASE LookPicksUp
  BY <1>10, LookPicksUpForward
<1>11. CASE MissesBegin
  BY <1>11, MissesBeginForward
<1>12. CASE MissesFlushed
  BY <1>12, MissesFlushedForward
<1>13. CASE Dispatch
  BY <1>13, DispatchForward
<1>14. CASE UNCHANGED fvars
  <2>1. UNCHANGED vars /\ UNCHANGED host
    BY <1>14 DEF fvars
  <2>2. LoaderInv' /\ UNCHANGED <<pool, pending, batch>>
    BY <2>1, LoaderRests
  <2>3. HostOK' /\ Fits' /\ Leftovers'
    BY <2>1, <2>2 DEF ForwardInv, host, HostOK, Fits, Leftovers, Wanted
  <2>4. KernelsOK' /\ LookingOK'
    BY <2>1, <2>2 DEF ForwardInv, host, KernelsOK, LookingOK, PickedPages
  <2> QED BY <2>2, <2>3, <2>4 DEF ForwardInv
<1> QED BY <1>1, <1>2, <1>3, <1>4, <1>5, <1>6, <1>7, <1>8, <1>9, <1>10, <1>11, <1>12, <1>13, <1>14
        DEF FNext

(* The inductive invariant of the forward pass, for every number of layers,
   experts, kinds, slots and ring slots; what it says of the pages found and of
   those of running kernels it says of pools with room for them. *)
THEOREM ForwardInvariance == ForwardSpec => []ForwardInv
<1>1. FInit => ForwardInv
  BY ForwardInit
<1>2. ForwardInv /\ [FNext]_fvars => ForwardInv'
  BY ForwardNext
<1> QED BY <1>1, <1>2, PTL DEF ForwardSpec

(* If a layer's pages fit into the pool beside the transfers of a failed call,
   every page of every pick is visible when the kernels are built: a page that
   was found is not evicted while the misses are loaded, although nothing pins
   it, because it was accessed last. *)
THEOREM PicksAreResident == RoomForPicks => (ForwardSpec => []PicksResident)
<1> SUFFICES ASSUME RoomForPicks PROVE ForwardSpec => []PicksResident
  OBVIOUS
<1>1. ForwardInv => PicksResident
  BY DEF ForwardInv, LookingOK, PicksResident
<1> QED BY <1>1, ForwardInvariance, PTL

(* If the prefetch for the next layer fits into the pool as well, the bytes that
   a running kernel reads are those of its page, whatever the host prefetches
   meanwhile and whatever loads fail.  Without that room they need not be. *)
THEOREM KernelsReadTheirPages == RoomForPrefetch => (ForwardSpec => []KernelPagesStay)
<1> SUFFICES ASSUME RoomForPrefetch PROVE ForwardSpec => []KernelPagesStay
  OBVIOUS
<1>1. ForwardInv => KernelPagesStay
  <2> SUFFICES ASSUME ForwardInv, NEW r \in kernels PROVE memory[r[2]] = r[1]
    BY DEF KernelPagesStay
  <2>1. r[1] \in Key /\ r[2] \in 1..Slots /\ pool.state[r[2]] = Ready(r[1])
    BY DEF ForwardInv, KernelsOK, KernelsHold
  <2>2. Filled(pool, memory)
    BY DEF ForwardInv, LoaderInv, RingInv, RingOK
  <2> QED BY <2>1, <2>2 DEF Filled
<1> QED BY <1>1, ForwardInvariance, PTL

(* In the forward pass too, a lookup finds only pages whose bytes are there,
   whatever the size of the pool. *)
THEOREM ForwardLoads == ForwardSpec => []VisiblePagesAreLoaded
<1>1. ForwardInv => VisiblePagesAreLoaded
  BY VisibleLoaded DEF ForwardInv
<1> QED BY <1>1, ForwardInvariance, PTL

-----------------------------------------------------------------------------
(* The ledger *)

(* The recursive function of Touches. *)
TouchedAt(f, c, es, i) == IF i = 0 THEN c ELSE TouchExpert(f[i - 1], es[i])
AreTouches(f, c, es, n) == f = [i \in 0..n |-> TouchedAt(f, c, es, i)]

(* It exists, for any number of experts. *)
LEMMA TouchesExist ==
  ASSUME NEW c, NEW es, NEW n \in Nat
  PROVE  \E f : AreTouches(f, c, es, n)
<1> DEFINE T == {m \in Nat : \E f : \A i \in 0..m : f[i] = TouchedAt(f, c, es, i)}
<1>1. \A f, g, i : i = 0 \/ f[i - 1] = g[i - 1] => TouchedAt(f, c, es, i) = TouchedAt(g, c, es, i)
  BY DEF TouchedAt
<1>2. 0 \in T
  <2> DEFINE g == [i \in 0..0 |-> TouchedAt(<< >>, c, es, i)]
  <2>1. \A i \in 0..0 : i = 0 /\ g[i] = TouchedAt(<< >>, c, es, i)
    OBVIOUS
  <2> HIDE DEF g
  <2>2. \A i \in 0..0 : g[i] = TouchedAt(g, c, es, i)
    BY <1>1, <2>1
  <2> QED BY <2>2
<1>3. ASSUME NEW m \in T PROVE m + 1 \in T
  <2>1. m \in Nat /\ m + 1 \in Nat
    OBVIOUS
  <2>2. PICK f : \A i \in 0..m : f[i] = TouchedAt(f, c, es, i)
    OBVIOUS
  <2> DEFINE h == [i \in 0..(m + 1) |-> TouchedAt(f, c, es, i)]
  <2>3. \A i \in 0..(m + 1) : h[i] = TouchedAt(f, c, es, i)
    OBVIOUS
  <2> HIDE DEF h
  <2>4. ASSUME NEW i \in 0..(m + 1) PROVE h[i] = TouchedAt(h, c, es, i)
    <3>1. i = 0 \/ (i - 1 \in 0..m /\ i - 1 \in 0..(m + 1))
      BY <2>1
    <3>2. i = 0 \/ h[i - 1] = f[i - 1]
      BY <2>2, <2>3, <3>1
    <3> QED BY <1>1, <2>3, <3>2
  <2> QED BY <2>1, <2>4
<1>4. T = Nat
  <2> HIDE DEF T
  <2>1. T \in SUBSET Nat
    BY DEF T
  <2> QED BY <1>2, <1>3, <2>1, NaturalInduction
<1>5. PICK f : \A i \in 0..n : f[i] = TouchedAt(f, c, es, i)
  BY <1>4, ZenonT(40)
<1> DEFINE h == [i \in 0..n |-> f[i]]
<1>6. \A i \in 0..n : h[i] = f[i]
  OBVIOUS
<1>7. \A i \in 0..n : f[i] = TouchedAt(h, c, es, i)
  <2> SUFFICES ASSUME NEW i \in 0..n PROVE f[i] = TouchedAt(h, c, es, i)
    OBVIOUS
  <2> HIDE DEF h
  <2>1. i = 0 \/ i - 1 \in 0..n
    OBVIOUS
  <2> QED BY <1>1, <1>5, <1>6, <2>1
<1>8. h = [i \in 0..n |-> TouchedAt(h, c, es, i)]
  <2>1. h = [i \in 0..n |-> f[i]]
    OBVIOUS
  <2> HIDE DEF h
  <2> QED BY <1>7, <2>1
<1> HIDE DEF h
<1> QED BY <1>8 DEF AreTouches

(* One expert is touched after the other. *)
LEMMA TouchSteps ==
  ASSUME NEW c, NEW es, Len(es) \in Nat, NEW f0, f0 = Touches(c, es)
  PROVE  /\ f0[0] = c
         /\ \A i \in 1..Len(es) : f0[i] = TouchExpert(f0[i - 1], es[i])
<1>0. Len(es) \in Nat
  OBVIOUS
<1>1. PICK f : f = f0 /\ f = Touches(c, es)
  OBVIOUS
<1>2. Len(es) \in Nat
  BY <1>0
<1>3. f = CHOOSE g : AreTouches(g, c, es, Len(es))
  BY <1>1 DEF Touches, TouchedAt, AreTouches
<1>4. AreTouches(f, c, es, Len(es))
  <2>1. \E g : AreTouches(g, c, es, Len(es))
    BY <1>2, TouchesExist
  <2> QED BY <1>3, <2>1, Zenon
<1>5. \A i \in 0..Len(es) : f[i] = TouchedAt(f, c, es, i)
  <2>1. PICK g : g = [i \in 0..Len(es) |-> TouchedAt(f, c, es, i)]
    OBVIOUS
  <2>2. \A i \in 0..Len(es) : g[i] = TouchedAt(f, c, es, i)
    BY <2>1
  <2>3. f = g
    BY <1>4, <2>1 DEF AreTouches
  <2> QED BY <2>2, <2>3
<1>6. 0 \in 0..Len(es) /\ \A i \in 1..Len(es) : i \in 0..Len(es) /\ i # 0
  BY <1>2
<1>7. f[0] = TouchedAt(f, c, es, 0) /\ \A i \in 1..Len(es) : f[i] = TouchedAt(f, c, es, i)
  BY <1>5, <1>6
<1>8. /\ TouchedAt(f, c, es, 0) = c
      /\ \A i : i # 0 => TouchedAt(f, c, es, i) = TouchExpert(f[i - 1], es[i])
  BY DEF TouchedAt
<1> QED BY <1>1, <1>6, <1>7, <1>8

(* What the ledger keeps: the access order is the experts in VRAM, and they
   are not too many. *)
Capacity == IF VramCapacity = 0 THEN 1 ELSE VramCapacity
LedgerInv(c) == LedgerOK(c) /\ Len(c.recency) <= Capacity

(* The ledger of a typed tier and an access order. *)
LEMMA LedgerOfFields ==
  ASSUME NEW t \in [ExpertId -> Tier], NEW r \in Seq(ExpertId), IsInjective(r),
         \A e \in ExpertId : e \in Range(r) <=> t[e] = "Vram",
         Len(r) <= Capacity
  PROVE  LedgerInv([tier |-> t, recency |-> r])
<1>1. PICK c : c = [tier |-> t, recency |-> r]
  OBVIOUS
<1>2. c.tier = t /\ c.recency = r /\ c \in [tier : [ExpertId -> Tier], recency : Seq(ExpertId)]
  BY <1>1
<1>3. Range(r) \subseteq ExpertId
  BY LenProperties, ElementOfSeq DEF Range
<1>4. Range(c.recency) = InVram(c)
  BY <1>2, <1>3 DEF InVram
<1> QED BY <1>1, <1>2, <1>4 DEF LedgerInv, LedgerOK

(* The parts of a ledger. *)
LEMMA LedgerFields ==
  ASSUME NEW c, LedgerInv(c)
  PROVE  /\ c.tier \in [ExpertId -> Tier] /\ c.recency \in Seq(ExpertId) /\ IsInjective(c.recency)
         /\ \A e \in ExpertId : e \in Range(c.recency) <=> c.tier[e] = "Vram"
         /\ Range(c.recency) \subseteq ExpertId
         /\ Len(c.recency) \in Nat /\ Len(c.recency) <= Capacity
         /\ c = [tier |-> c.tier, recency |-> c.recency]
<1>1. /\ c \in [tier : [ExpertId -> Tier], recency : Seq(ExpertId)] /\ IsInjective(c.recency)
      /\ Range(c.recency) = InVram(c) /\ Len(c.recency) <= Capacity
  BY DEF LedgerInv, LedgerOK
<1>2. /\ c.tier \in [ExpertId -> Tier] /\ c.recency \in Seq(ExpertId)
      /\ c = [tier |-> c.tier, recency |-> c.recency]
  BY <1>1
<1>3. Len(c.recency) \in Nat
  BY <1>2, LenProperties
<1>4. /\ \A e \in ExpertId : e \in Range(c.recency) <=> c.tier[e] = "Vram"
      /\ Range(c.recency) \subseteq ExpertId
  BY <1>1 DEF InVram
<1> QED BY <1>1, <1>2, <1>3, <1>4

(* A touch moves an expert in VRAM to the end of the order, and no other. *)
LEMMA TouchKeepsLedger ==
  ASSUME NEW c, LedgerInv(c), NEW e \in ExpertId
  PROVE  LedgerInv(TouchExpert(c, e))
<1>1. CASE c.tier[e] # "Vram"
  BY <1>1 DEF TouchExpert
<1>2. CASE c.tier[e] = "Vram"
  <2>1. PICK t, r, q : t = c.tier /\ r = c.recency /\ q = RemoveFirst(r, e)
    OBVIOUS
  <2>2. /\ t \in [ExpertId -> Tier] /\ r \in Seq(ExpertId) /\ IsInjective(r)
        /\ \A x \in ExpertId : x \in Range(r) <=> t[x] = "Vram"
        /\ Len(r) \in Nat /\ Len(r) <= Capacity
        /\ c = [tier |-> t, recency |-> r]
    BY <2>1, LedgerFields
  <2>3. e \in Range(r)
    BY <1>2, <2>1, <2>2
  <2>4. /\ q \in Seq(ExpertId) /\ IsInjective(q) /\ Range(q) = Range(r) \ {e}
        /\ Len(q) = Len(r) - 1
    BY <2>1, <2>2, <2>3, FirstRemoved
  <2>5. e \notin Range(q)
    BY <2>4
  <2>6. PICK a : a = Append(q, e)
    OBVIOUS
  <2>7. /\ a \in Seq(ExpertId) /\ IsInjective(a) /\ Range(a) = Range(q) \cup {e}
        /\ Len(a) = Len(q) + 1
    BY <2>4, <2>5, <2>6, AppendedLast
  <2>8. Range(a) = Range(r) /\ Len(a) <= Capacity
    BY <2>2, <2>3, <2>4, <2>7
  <2>9. LedgerInv([tier |-> t, recency |-> a])
    <3>1. \A x \in ExpertId : x \in Range(a) <=> t[x] = "Vram"
      BY <2>2, <2>8
    <3> QED BY <2>2, <2>7, <2>8, <3>1, LedgerOfFields
  <2>10. TouchExpert(c, e) = [tier |-> t, recency |-> a]
    <3>1. TouchExpert(c, e) = [c EXCEPT !.recency = Append(RemoveFirst(@, e), e)]
      BY <1>2 DEF TouchExpert
    <3> QED BY <2>1, <2>2, <2>6, <3>1
  <2> QED BY <2>9, <2>10
<1> QED BY <1>1, <1>2

(* The rest of an access order. *)
LEMMA RestOfOrder ==
  ASSUME NEW S, NEW r \in Seq(S), r # << >>, IsInjective(r)
  PROVE  /\ Head(r) \in S /\ Head(r) \in Range(r) /\ Tail(r) \in Seq(S) /\ IsInjective(Tail(r))
         /\ Range(Tail(r)) = Range(r) \ {Head(r)} /\ Len(Tail(r)) = Len(r) - 1
<1>1. PICK n, h, t : n = Len(r) /\ h = Head(r) /\ t = Tail(r)
  OBVIOUS
<1>2. n \in Nat /\ n >= 1 /\ DOMAIN r = 1..n /\ \A i \in 1..n : r[i] \in S
  <2>1. n \in Nat /\ DOMAIN r = 1..n /\ \A i \in 1..n : r[i] \in S
    BY <1>1, LenProperties, ElementOfSeq
  <2>2. n # 0
    BY <1>1, EmptySeq
  <2> QED BY <2>1, <2>2
<1>3. h = r[1] /\ t \in Seq(S) /\ Len(t) = n - 1 /\ \A i \in 1..(n - 1) : t[i] = r[i + 1]
  BY <1>1, <1>2, HeadTailProperties
<1>4. DOMAIN t = 1..(n - 1)
  BY <1>3, LenProperties
<1>5. 1 \in 1..n /\ h \in S /\ h \in Range(r)
  BY <1>2, <1>3 DEF Range
<1>6. \A i, j \in 1..n : r[i] = r[j] => i = j
  BY <1>2 DEF IsInjective
<1>7. IsInjective(t)
  <2>1. ASSUME NEW i \in 1..(n - 1), NEW j \in 1..(n - 1), t[i] = t[j] PROVE i = j
    <3>1. i + 1 \in 1..n /\ j + 1 \in 1..n /\ r[i + 1] = r[j + 1]
      BY <1>2, <1>3, <2>1
    <3>2. i + 1 = j + 1
      BY <1>6, <3>1
    <3> QED BY <3>2
  <2> QED BY <1>4, <2>1 DEF IsInjective
<1>8. Range(t) = Range(r) \ {h}
  <2>1. \A i \in 1..(n - 1) : i + 1 \in 1..n /\ i + 1 # 1
    BY <1>2
  <2>2. \A i \in 1..(n - 1) : t[i] \in Range(r) /\ t[i] # h
    <3> SUFFICES ASSUME NEW i \in 1..(n - 1) PROVE t[i] \in Range(r) /\ t[i] # h
      OBVIOUS
    <3>1. PICK j : j = i + 1
      OBVIOUS
    <3>2. j \in 1..n /\ j # 1 /\ 1 \in 1..n /\ t[i] = r[j]
      BY <1>3, <1>5, <2>1, <3>1
    <3>3. r[j] # r[1]
      BY <1>6, <3>2
    <3>4. r[j] \in Range(r)
      BY <1>2, <3>2 DEF Range
    <3> QED BY <1>3, <3>2, <3>3, <3>4
  <2>3. ASSUME NEW i \in 1..n, r[i] # h PROVE r[i] \in Range(t)
    <3>1. PICK j : j = i - 1
      OBVIOUS
    <3>2. j \in 1..(n - 1) /\ j + 1 = i
      BY <1>2, <1>3, <2>3, <3>1
    <3>3. r[i] = t[j]
      BY <1>3, <3>2
    <3> QED BY <1>4, <3>2, <3>3 DEF Range
  <2>4. Range(t) = {t[i] : i \in 1..(n - 1)} /\ Range(r) = {r[i] : i \in 1..n}
    BY <1>2, <1>4 DEF Range
  <2> QED BY <2>2, <2>3, <2>4
<1> QED BY <1>1, <1>3, <1>5, <1>7, <1>8

(* After the demotion there is room for one more. *)
LEMMA DemotionKeepsLedger ==
  ASSUME NEW c, LedgerInv(c), NEW d, d = Demoted(c)
  PROVE  /\ LedgerInv(d) /\ Len(d.recency) + 1 <= Capacity
         /\ \A e \in ExpertId : d.tier[e] = "Vram" => c.tier[e] = "Vram"
<1>1. PICK t, r : t = c.tier /\ r = c.recency
  OBVIOUS
<1>2. /\ t \in [ExpertId -> Tier] /\ r \in Seq(ExpertId) /\ IsInjective(r)
      /\ \A x \in ExpertId : x \in Range(r) <=> t[x] = "Vram"
      /\ Len(r) \in Nat /\ Len(r) <= Capacity
  BY <1>1, LedgerFields
<1>3. VramCapacity \in Nat /\ Capacity \in Nat /\ Capacity >= 1
  BY LedgerAssumption DEF Capacity
<1>4. CASE Len(r) >= VramCapacity /\ r # << >>
  <2>1. PICK h, q, u : h = Head(r) /\ q = Tail(r) /\ u = [t EXCEPT ![h] = "Ram"]
    OBVIOUS
  <2>2. /\ h \in ExpertId /\ h \in Range(r) /\ q \in Seq(ExpertId) /\ IsInjective(q)
        /\ Range(q) = Range(r) \ {h} /\ Len(q) = Len(r) - 1
    BY <1>2, <1>4, <2>1, RestOfOrder
  <2>3. d = [tier |-> u, recency |-> q]
    BY <1>1, <1>4, <2>1 DEF Demoted
  <2>4. u \in [ExpertId -> Tier] /\ \A x \in ExpertId : u[x] = IF x = h THEN "Ram" ELSE t[x]
    BY <1>2, <2>1, <2>2 DEF Tier
  <2>5. \A x \in ExpertId : x \in Range(q) <=> u[x] = "Vram"
    BY <1>2, <2>2, <2>4
  <2>6. Len(q) <= Capacity /\ Len(q) + 1 <= Capacity
    BY <1>2, <1>3, <2>2
  <2>7. LedgerInv(d)
    BY <2>2, <2>3, <2>4, <2>5, <2>6, LedgerOfFields
  <2> QED BY <1>1, <2>3, <2>4, <2>6, <2>7
<1>5. CASE ~(Len(r) >= VramCapacity /\ r # << >>)
  <2>1. d = c
    BY <1>1, <1>5 DEF Demoted
  <2>2. r = << >> => Len(r) = 0
    BY EmptySeq
  <2>3. Len(r) + 1 <= Capacity
    <3>1. CASE r = << >>
      BY <1>3, <2>2, <3>1
    <3>2. CASE r # << >>
      <4>1. ~(Len(r) >= VramCapacity)
        BY <1>5, <3>2
      <4> QED BY <1>2, <1>3, <4>1 DEF Capacity
    <3> QED BY <3>1, <3>2
  <2> QED BY <1>1, <2>1, <2>3
<1> QED BY <1>4, <1>5

(* A promotion keeps the ledger. *)
LEMMA PromotionKeepsLedger ==
  ASSUME NEW a, LedgerInv(a.cache), NEW e \in ExpertId
  PROVE  LedgerInv(Promoted(a, e).cache)
<1>1. CASE a.cache.tier[e] = "Vram"
  BY <1>1 DEF Promoted
<1>2. CASE a.cache.tier[e] # "Vram"
  <2>1. PICK d, t, r : d = Demoted(a.cache) /\ t = d.tier /\ r = d.recency
    OBVIOUS
  <2>2. LedgerInv(d) /\ Len(r) + 1 <= Capacity /\ t[e] # "Vram"
    BY <1>2, <2>1, DemotionKeepsLedger
  <2>3. /\ t \in [ExpertId -> Tier] /\ r \in Seq(ExpertId) /\ IsInjective(r)
        /\ \A x \in ExpertId : x \in Range(r) <=> t[x] = "Vram"
        /\ Len(r) \in Nat
    BY <2>1, <2>2, LedgerFields
  <2>4. PICK u, q : u = [t EXCEPT ![e] = "Vram"] /\ q = Append(r, e)
    OBVIOUS
  <2>5. u \in [ExpertId -> Tier] /\ \A x \in ExpertId : u[x] = IF x = e THEN "Vram" ELSE t[x]
    BY <2>3, <2>4 DEF Tier
  <2>6. e \notin Range(r)
    BY <2>2, <2>3
  <2>7. /\ q \in Seq(ExpertId) /\ IsInjective(q) /\ Range(q) = Range(r) \cup {e}
        /\ Len(q) = Len(r) + 1
    BY <2>3, <2>4, <2>6, AppendedLast
  <2>8. \A x \in ExpertId : x \in Range(q) <=> u[x] = "Vram"
    BY <2>3, <2>5, <2>7
  <2>9. LedgerInv([tier |-> u, recency |-> q])
    BY <2>2, <2>5, <2>7, <2>8, LedgerOfFields
  <2>10. Promoted(a, e).cache = [tier |-> u, recency |-> q]
    BY <1>2, <2>1, <2>4 DEF Promoted
  <2> QED BY <2>9, <2>10
<1> QED BY <1>1, <1>2

(* So do the touches of a layer. *)
LEMMA TouchesKeepLedger ==
  ASSUME NEW c, LedgerInv(c), NEW es \in Seq(ExpertId)
  PROVE  LedgerInv(Touched(c, es))
<1>1. PICK f, n : f = Touches(c, es) /\ n = Len(es)
  OBVIOUS
<1>2. n \in Nat /\ f[0] = c /\ \A i \in 1..n : f[i] = TouchExpert(f[i - 1], es[i])
  BY <1>1, LenProperties, TouchSteps
<1>3. \A i \in 1..n : es[i] \in ExpertId
  BY <1>1, ElementOfSeq
<1> DEFINE T == {i \in Nat : i <= n => LedgerInv(f[i])}
<1>4. 0 \in T
  BY <1>2
<1>5. ASSUME NEW i \in T PROVE i + 1 \in T
  <2>1. i \in Nat /\ i + 1 \in Nat
    OBVIOUS
  <2>2. ASSUME i + 1 <= n PROVE LedgerInv(f[i + 1])
    <3>1. PICK j : j = i + 1
      OBVIOUS
    <3>2. i <= n /\ j \in 1..n /\ j - 1 = i
      BY <1>2, <2>1, <2>2, <3>1
    <3>3. LedgerInv(f[i]) /\ es[j] \in ExpertId /\ f[j] = TouchExpert(f[i], es[j])
      BY <1>2, <1>3, <3>2
    <3> QED BY <3>1, <3>3, TouchKeepsLedger
  <2> QED BY <2>1, <2>2
<1>6. n \in T
  <2> HIDE DEF T
  <2>1. T \in SUBSET Nat
    BY DEF T
  <2>2. T = Nat
    BY <1>4, <1>5, <2>1, NaturalInduction
  <2> QED BY <1>2, <2>2
<1>7. LedgerInv(f[n])
  BY <1>2, <1>6
<1> QED BY <1>1, <1>7 DEF Touched

(* And the requests for the next one. *)
LEMMA RequestsKeepLedger ==
  ASSUME NEW c, LedgerInv(c), NEW es \in Seq(ExpertId)
  PROVE  LedgerInv(RequestToVram(c, es).cache)
<1>1. PICK f, n : f = Requests(c, es) /\ n = Len(es)
  OBVIOUS
<1>2. /\ n \in Nat /\ f[0] = [cache |-> c, promoted |-> << >>]
      /\ \A i \in 1..n : f[i] = Promoted(f[i - 1], es[i])
  BY <1>1, LenProperties, RequestSteps
<1>3. \A i \in 1..n : es[i] \in ExpertId
  BY <1>1, ElementOfSeq
<1> DEFINE T == {i \in Nat : i <= n => LedgerInv(f[i].cache)}
<1>4. 0 \in T
  <2>1. f[0].cache = c
    BY <1>2
  <2> QED BY <2>1
<1>5. ASSUME NEW i \in T PROVE i + 1 \in T
  <2>1. i \in Nat /\ i + 1 \in Nat
    OBVIOUS
  <2>2. ASSUME i + 1 <= n PROVE LedgerInv(f[i + 1].cache)
    <3>1. PICK j : j = i + 1
      OBVIOUS
    <3>2. i <= n /\ j \in 1..n /\ j - 1 = i
      BY <1>2, <2>1, <2>2, <3>1
    <3>3. LedgerInv(f[i].cache) /\ es[j] \in ExpertId /\ f[j] = Promoted(f[i], es[j])
      BY <1>2, <1>3, <3>2
    <3> QED BY <3>1, <3>3, PromotionKeepsLedger
  <2> QED BY <2>1, <2>2
<1>6. n \in T
  <2> HIDE DEF T
  <2>1. T \in SUBSET Nat
    BY DEF T
  <2>2. T = Nat
    BY <1>4, <1>5, <2>1, NaturalInduction
  <2> QED BY <1>2, <2>2
<1>7. LedgerInv(f[n].cache)
  BY <1>2, <1>6
<1> QED BY <1>1, <1>7 DEF RequestToVram

(* At first no expert is in VRAM. *)
LEMMA NewLedger == LedgerInv(NewCache)
<1>1. PICK t : t = [e \in ExpertId |-> "NotLoaded"]
  OBVIOUS
<1>2. t \in [ExpertId -> Tier] /\ \A e \in ExpertId : t[e] # "Vram"
  BY <1>1 DEF Tier
<1>3. << >> \in Seq(ExpertId) /\ Len(<< >>) = 0 /\ Range(<< >>) = {} /\ IsInjective(<< >>)
  BY EmptySeq DEF Range, IsInjective
<1>4. 0 <= Capacity
  BY LedgerAssumption DEF Capacity
<1>5. LedgerInv([tier |-> t, recency |-> << >>])
  BY <1>2, <1>3, <1>4, LedgerOfFields
<1> QED BY <1>1, <1>5 DEF NewCache

(* Only the routing of a layer changes the ledger. *)
LEMMA RouteKeepsLedger ==
  ASSUME ForwardInv, LedgerInv(cache), NEW xs \in Picks, NEW ys \in Candidates, Route(xs, ys)
  PROVE  LedgerInv(cache')
<1>1. PICK cs, ps, c : /\ cs = IF layer < Layers THEN OnLayer(layer + 1, ys) ELSE << >>
                       /\ ps = picks' /\ c = Touched(cache, ps)
  OBVIOUS
<1>2. ps = OnLayer(layer, xs) /\ cache' = RequestToVram(c, cs).cache
  BY <1>1 DEF Route, OnLayerComplete
<1>3. layer \in 1..Layers /\ Layers \in Nat /\ xs \in Seq(Experts) /\ ys \in Seq(Experts)
  BY ForwardAssumption DEF ForwardInv, HostOK
<1>4. ps \in Seq(AllExperts)
  BY <1>2, <1>3, ExpertsOfLayer
<1>5. cs \in Seq(AllExperts)
  <2>1. CASE layer < Layers
    <3>1. layer + 1 \in 1..Layers
      BY <1>3, <2>1
    <3>2. OnLayer(layer + 1, ys) \in Seq(AllExperts)
      BY <1>3, <3>1, ExpertsOfLayer
    <3> QED BY <1>1, <2>1, <3>2
  <2>2. CASE ~(layer < Layers)
    BY <1>1, <2>2, EmptySeq
  <2> QED BY <2>1, <2>2
<1>6. ps \in Seq(ExpertId) /\ cs \in Seq(ExpertId)
  <2>1. \A q \in Seq(AllExperts) : q \in Seq(ExpertId)
    <3> SUFFICES ASSUME NEW q \in Seq(AllExperts) PROVE q \in Seq(ExpertId)
      OBVIOUS
    <3>1. Len(q) \in Nat /\ q \in [1..Len(q) -> AllExperts]
      BY LenProperties, ElementOfSeq
    <3>2. q \in [1..Len(q) -> ExpertId]
      BY <3>1, PagesAssumption
    <3> QED BY <3>1, <3>2, SeqDef
  <2> QED BY <1>4, <1>5, <2>1
<1>7. LedgerInv(c)
  BY <1>1, <1>6, TouchesKeepLedger
<1> QED BY <1>2, <1>6, <1>7, RequestsKeepLedger

(* The phases of step. *)
PhaseOK == phase \in {"idle", "prefetch", "prefetching", "flush_prefetch", "attention", "route",
                      "lookup", "load", "loading", "flush", "dispatch"}

(* Every step keeps the ledger and is in some phase. *)
LEMMA LedgerNext ==
  ForwardInv /\ LedgerInv(cache) /\ PhaseOK /\ [FNext]_fvars => LedgerInv(cache') /\ PhaseOK'
<1> SUFFICES ASSUME ForwardInv, LedgerInv(cache), PhaseOK, [FNext]_fvars
             PROVE  LedgerInv(cache') /\ PhaseOK'
  OBVIOUS
<1>1. ASSUME NEW pip \in Ring, NEW slot \in 1..Slots, Copy(pip, slot)
      PROVE  LedgerInv(cache') /\ PhaseOK'
  BY <1>1 DEF Copy, host, PhaseOK
<1>2. CASE KernelsFinish
  BY <1>2 DEF KernelsFinish, PhaseOK
<1>3. CASE StepBegins
  BY <1>3 DEF StepBegins, PhaseOK
<1>4. CASE PrefetchSkipped
  BY <1>4 DEF PrefetchSkipped, PhaseOK
<1>5. CASE PrefetchBegins
  BY <1>5 DEF PrefetchBegins, CallBatch, PhaseOK
<1>6. CASE InBatch
  <2>1. cache' = cache
    BY <1>6 DEF InBatch
  <2>2. phase' \in {phase, "idle", "flush_prefetch", "flush"}
    BY <1>6 DEF InBatch
  <2> QED BY <2>1, <2>2 DEF PhaseOK
<1>7. CASE PrefetchFlushed
  BY <1>7 DEF PrefetchFlushed, PhaseOK
<1>8. CASE AttentionRuns
  BY <1>8 DEF AttentionRuns, Attention, PhaseOK
<1>9. ASSUME NEW xs \in Picks, NEW ys \in Candidates, Route(xs, ys)
      PROVE  LedgerInv(cache') /\ PhaseOK'
  <2>1. PhaseOK'
    BY <1>9 DEF Route, PhaseOK
  <2> QED BY <1>9, <2>1, RouteKeepsLedger
<1>10. CASE LookPicksUp
  BY <1>10 DEF LookPicksUp, PhaseOK
<1>11. CASE MissesBegin
  BY <1>11 DEF MissesBegin, CallBatch, PhaseOK
<1>12. CASE MissesFlushed
  BY <1>12 DEF MissesFlushed, PhaseOK
<1>13. CASE Dispatch
  <2>1. cache' = cache /\ phase' \in {"prefetch", "idle"}
    BY <1>13 DEF Dispatch
  <2> QED BY <2>1 DEF PhaseOK
<1>14. CASE UNCHANGED fvars
  BY <1>14 DEF fvars, host, PhaseOK
<1> QED BY <1>1, <1>2, <1>3, <1>4, <1>5, <1>6, <1>7, <1>8, <1>9, <1>10, <1>11, <1>12, <1>13, <1>14
        DEF FNext

(* As many experts are in VRAM as the access order is long. *)
LEMMA LedgerCount ==
  ASSUME NEW c, LedgerInv(c)
  PROVE  WithinCapacity(c)
<1>1. PICK r : r = c.recency
  OBVIOUS
<1>2. r \in Seq(ExpertId) /\ Len(r) \in Nat /\ Len(r) <= Capacity
  BY <1>1, LedgerFields
<1>3. IsFiniteSet(Range(r)) /\ Cardinality(Range(r)) <= Len(r)
  BY <1>2, RangeBound
<1>4. Cardinality(Range(r)) \in Nat /\ Capacity \in Nat
  BY <1>3, FS_CardinalityType, LedgerAssumption DEF Capacity
<1>5. Range(r) = InVram(c)
  BY <1>1 DEF LedgerInv, LedgerOK
<1>6. Cardinality(InVram(c)) <= Capacity
  BY <1>2, <1>3, <1>4, <1>5
<1> QED BY <1>6 DEF WithinCapacity, Capacity

(* The ledger and the phases, whatever the router picks and the predictor
   proposes. *)
LEMMA LedgerInvariance == ForwardSpec => [](ForwardInv /\ LedgerInv(cache) /\ PhaseOK)
<1>1. FInit => LedgerInv(cache) /\ PhaseOK
  BY NewLedger DEF FInit, PhaseOK
<1>2. ForwardInv /\ LedgerInv(cache) /\ PhaseOK /\ [FNext]_fvars => (LedgerInv(cache) /\ PhaseOK)'
  BY LedgerNext
<1> QED BY <1>1, <1>2, ForwardInvariance, PTL DEF ForwardSpec

(* The scheduler's ledger never believes more experts in VRAM than
   vram_capacity (or the one it promotes although that is 0). *)
THEOREM LedgerIsBounded == ForwardSpec => []LedgerWithinCapacity
<1>1. LedgerInv(cache) => LedgerWithinCapacity
  BY LedgerCount DEF LedgerWithinCapacity
<1> QED BY <1>1, LedgerInvariance, PTL

(* Every variable of the forward pass keeps its type, a batch is under way in
   the two phases that load, and the access order of the ledger is exactly
   the experts in VRAM. *)
THEOREM ForwardTypes == ForwardSpec => []ForwardTypeOK
<1>1. ForwardInv /\ LedgerInv(cache) /\ PhaseOK => ForwardTypeOK
  <2> SUFFICES ASSUME ForwardInv, LedgerInv(cache), PhaseOK PROVE ForwardTypeOK
    OBVIOUS
  <2>1. /\ layer \in 1..Layers
        /\ phase \in {"prefetching", "loading"} <=> batch # NoBatch
        /\ prefetch \in Seq(Key) /\ misses \in Seq(Key)
    BY DEF ForwardInv, HostOK
  <2>2. \A q \in Seq(Key) : Range(q) \subseteq Key
    BY LenProperties, ElementOfSeq DEF Range
  <2>3. LedgerOK(cache)
    BY DEF LedgerInv
  <2> QED BY <2>1, <2>2, <2>3 DEF ForwardTypeOK, PhaseOK
<1> QED BY <1>1, LedgerInvariance, PTL

=============================================================================
