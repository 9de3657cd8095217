---------------------------- MODULE VramPoolProofs ----------------------------
(***************************************************************************)
(* Lemmas about the operators of VramPool, for pools of any size: what     *)
(* each method does to the slots, and that it keeps a pool sound.          *)
(***************************************************************************)
EXTENDS VramPool, FiniteSetTheorems, SequenceTheorems, WellFoundedInduction, TLAPS

-----------------------------------------------------------------------------
(* Induction over the natural numbers *)

(* A set of naturals that is not empty has a least element. *)
LEMMA LeastElement ==
  ASSUME NEW T, T \subseteq Nat, T # {}
  PROVE  \E n \in T : \A m \in T : n <= m
<1> DEFINE Less == {ss \in Nat \X Nat : ss[1] < ss[2]}
<1>1. IsWellFoundedOn(Less, Nat)
  BY NatLessThanWellFounded DEF OpToRel
<1> HIDE DEF Less
<1>2. PICK n \in T : \A m \in T : ~(<<m, n>> \in Less)
  BY <1>1, WFMin
<1>3. \A m \in T : ~(m < n)
  BY <1>2 DEF Less
<1> QED BY <1>3

(* Induction: a set of naturals that holds 0, and n + 1 with n, is Nat. *)
LEMMA NaturalInduction ==
  ASSUME NEW T \in SUBSET Nat, 0 \in T, \A n \in T : n + 1 \in T
  PROVE  T = Nat
<1> SUFFICES ASSUME Nat \ T # {} PROVE FALSE
  OBVIOUS
<1>1. PICK n \in Nat \ T : \A m \in Nat \ T : n <= m
  BY LeastElement
<1>2. n # 0 /\ n - 1 \in Nat /\ ~(n <= n - 1)
  BY <1>1
<1>3. n - 1 \in T
  BY <1>1, <1>2
<1>4. n - 1 + 1 \in T /\ n - 1 + 1 = n
  BY <1>2, <1>3
<1> QED BY <1>1, <1>4

-----------------------------------------------------------------------------
(* What a pool is *)

Indexes(n) == UNION {[K -> 1..n] : K \in SUBSET Key}
PoolType(n) ==
  [state : [1..n -> SlotState], recency : Seq(1..n),
   pins : [1..n -> Nat], generation : [1..n -> Nat],
   index : Indexes(n), n_loaded : Nat]

(* The index is the inverse of the Ready slots. *)
Indexed(p) ==
  /\ \A k \in DOMAIN p.index : p.state[p.index[k]] = Ready(k)
  /\ \A s \in SlotsOf(p), k \in Key : p.state[s] = Ready(k) => Visible(p, k) /\ p.index[k] = s

(* A key that is being loaded is loaded once, and is not Ready. *)
Alone(p) ==
  \A s \in SlotsOf(p), k \in Key : p.state[s] = Loading(k) =>
    ~Visible(p, k) /\ \A u \in SlotsOf(p) : p.state[u] = Loading(k) => u = s

(* The access order lists the Ready slots, each once. *)
Listed(p) ==
  /\ IsInjective(p.recency)
  /\ Range(p.recency) = {s \in SlotsOf(p) : p.state[s].tag = "Ready"}

Busy(p) == {s \in SlotsOf(p) : p.state[s] # Empty}

Sound(p, n) ==
  /\ p \in PoolType(n)
  /\ Indexed(p) /\ Alone(p) /\ Listed(p)
  /\ p.n_loaded = Cardinality(Busy(p))

(* From p to q only slot s changes. *)
OthersKept(p, q, n, s) ==
  \A u \in 1..n : u # s => /\ q.state[u] = p.state[u] /\ q.pins[u] = p.pins[u]
                           /\ q.generation[u] = p.generation[u]

-----------------------------------------------------------------------------
(* The states of a slot *)

(* The three kinds of slot states. *)
LEMMA SlotStates ==
  /\ Empty \in SlotState
  /\ \A k \in Key : Loading(k) \in SlotState /\ Ready(k) \in SlotState
  /\ \A x \in SlotState :
       x = Empty \/ \E k \in Key : x = Loading(k) \/ x = Ready(k)
BY DEF SlotState

(* Different kinds of slot states differ, and so do those of different
   pages. *)
LEMMA StatesDiffer ==
  /\ \A k : Loading(k) # Empty /\ Ready(k) # Empty
  /\ \A k, l : Loading(k) # Ready(l)
  /\ \A k, l : (Loading(k) = Loading(l) => k = l) /\ (Ready(k) = Ready(l) => k = l)
BY DEF Empty, Loading, Ready

(* The tag and the page of a slot state. *)
LEMMA Tags ==
  /\ \A x \in SlotState :
       /\ x.tag = "Ready" <=> \E k \in Key : x = Ready(k)
       /\ x.tag = "Loading" <=> \E k \in Key : x = Loading(k)
  /\ \A k : Ready(k).key = k /\ Loading(k).key = k
  /\ \A k : Ready(k).tag = "Ready" /\ Loading(k).tag = "Loading"
  /\ Empty.tag = "Empty"
BY DEF Empty, Loading, Ready, SlotState
-----------------------------------------------------------------------------
(* The access order *)

(* One element of a sequence taken out. *)
LEMMA Removed ==
  ASSUME NEW S, NEW s \in Seq(S), NEW i \in 1..Len(s), IsInjective(s)
  PROVE  /\ RemoveAt(s, i) \in Seq(S) /\ IsInjective(RemoveAt(s, i))
         /\ Range(RemoveAt(s, i)) = Range(s) \ {s[i]} /\ Len(RemoveAt(s, i)) = Len(s) - 1
<1>1. PICK n : n = Len(s)
  OBVIOUS
<1>2. n \in Nat /\ i \in 1..n /\ DOMAIN s = 1..n /\ \A j \in 1..n : s[j] \in S
  BY <1>1, LenProperties, ElementOfSeq
<1>3. PICK a, b : a = SubSeq(s, 1, i - 1) /\ b = SubSeq(s, i + 1, n)
  OBVIOUS
<1>4. /\ a \in Seq(S) /\ Len(a) = i - 1 /\ \A j \in 1..(i - 1) : a[j] = s[j]
  BY <1>1, <1>2, <1>3
<1>5. /\ b \in Seq(S) /\ Len(b) = n - i /\ \A j \in 1..(n - i) : b[j] = s[i + j]
  BY <1>1, <1>2, <1>3
<1>6. PICK c : c = a \o b
  OBVIOUS
<1>7. /\ c \in Seq(S) /\ Len(c) = n - 1
      /\ \A j \in 1..(n - 1) : c[j] = IF j < i THEN s[j] ELSE s[j + 1]
  BY <1>2, <1>4, <1>5, <1>6, SMTT(30)
<1>8. DOMAIN c = 1..(n - 1) /\ c = RemoveAt(s, i)
  BY <1>1, <1>2, <1>3, <1>6, <1>7, LenProperties DEF RemoveAt
<1>9. \A j, k \in 1..n : s[j] = s[k] => j = k
  BY <1>2 DEF IsInjective
<1>10. IsInjective(c)
  <2> SUFFICES ASSUME NEW j \in 1..(n - 1), NEW k \in 1..(n - 1), c[j] = c[k]
               PROVE  j = k
    BY <1>8 DEF IsInjective
  <2>1. PICK f : f = [l \in 1..(n - 1) |-> IF l < i THEN l ELSE l + 1]
    OBVIOUS
  <2>2. \A l \in 1..(n - 1) : f[l] \in 1..n /\ c[l] = s[f[l]]
    BY <1>2, <1>7, <2>1
  <2>3. f[j] = f[k]
    BY <1>9, <2>2
  <2> QED BY <1>2, <2>1, <2>3
<1>11. Range(c) = Range(s) \ {s[i]}
  <2>1. \A j \in 1..(n - 1) : \E k \in 1..n : k # i /\ c[j] = s[k]
    <3> SUFFICES ASSUME NEW j \in 1..(n - 1) PROVE \E k \in 1..n : k # i /\ c[j] = s[k]
      OBVIOUS
    <3>1. CASE j < i
      <4>1. j \in 1..n /\ j # i
        BY <1>2, <3>1
      <4> QED BY <1>7, <3>1, <4>1
    <3>2. CASE ~(j < i)
      <4>1. j + 1 \in 1..n /\ j + 1 # i
        BY <1>2, <3>2
      <4> QED BY <1>7, <3>2, <4>1
    <3> QED BY <3>1, <3>2
  <2>2. \A k \in 1..n : k # i => \E j \in 1..(n - 1) : c[j] = s[k]
    <3> SUFFICES ASSUME NEW k \in 1..n, k # i PROVE \E j \in 1..(n - 1) : c[j] = s[k]
      OBVIOUS
    <3>1. CASE k < i
      <4>1. k \in 1..(n - 1)
        BY <1>2, <3>1
      <4> QED BY <1>7, <3>1, <4>1
    <3>2. CASE k > i
      <4>1. k - 1 \in 1..(n - 1) /\ ~(k - 1 < i) /\ (k - 1) + 1 = k
        BY <1>2, <3>2
      <4>2. c[k - 1] = s[k]
        BY <1>7, <4>1
      <4> QED BY <4>1, <4>2
    <3> QED BY <1>2, <3>1, <3>2
  <2>3. Range(c) = {c[j] : j \in 1..(n - 1)} /\ Range(s) = {s[k] : k \in 1..n}
    BY <1>2, <1>8 DEF Range
  <2>4. \A k \in 1..n : k # i <=> s[k] # s[i]
    BY <1>2, <1>9
  <2>5. \A x \in Range(c) : x \in Range(s) /\ x # s[i]
    BY <2>1, <2>3, <2>4
  <2>6. \A x \in Range(s) : x # s[i] => x \in Range(c)
    BY <2>2, <2>3, <2>4
  <2> QED BY <2>5, <2>6
<1> QED BY <1>1, <1>7, <1>8, <1>10, <1>11

(* The least element of a nonempty set of numbers is one of its elements. *)
LEMMA LeastIndex ==
  ASSUME NEW I \in SUBSET Nat, I # {}
  PROVE  Min(I) \in I
<1>1. \E i \in I : \A j \in I : i <= j
  BY LeastElement
<1> QED BY <1>1 DEF Min

(* An element taken out by value: the order of the rest stays. *)
LEMMA FirstRemoved ==
  ASSUME NEW S, NEW q \in Seq(S), IsInjective(q), NEW s
  PROVE  /\ RemoveFirst(q, s) \in Seq(S) /\ IsInjective(RemoveFirst(q, s))
         /\ Range(RemoveFirst(q, s)) = Range(q) \ {s}
         /\ Len(RemoveFirst(q, s)) = IF s \in Range(q) THEN Len(q) - 1 ELSE Len(q)
<1>1. DOMAIN q = 1..Len(q) /\ Len(q) \in Nat
  BY LenProperties
<1>2. CASE \E i \in 1..Len(q) : q[i] = s
  <2>1. PICK I : I = {i \in 1..Len(q) : q[i] = s}
    OBVIOUS
  <2>2. PICK i : i = Min(I)
    OBVIOUS
  <2>3. I # {} /\ I \in SUBSET Nat
    <3>1. I \subseteq 1..Len(q) /\ 1..Len(q) \subseteq Nat
      BY <1>1, <2>1
    <3>2. PICK j \in 1..Len(q) : q[j] = s
      BY <1>2
    <3>3. j \in I
      BY <2>1, <3>2
    <3> QED BY <3>1, <3>3
  <2>4. i \in 1..Len(q) /\ q[i] = s
    BY <2>1, <2>2, <2>3, LeastIndex
  <2>5. RemoveFirst(q, s) = RemoveAt(q, i)
    BY <1>2, <2>1, <2>2, <2>3 DEF RemoveFirst, SelectInSeq
  <2>6. s \in Range(q)
    BY <1>1, <2>4 DEF Range
  <2>7. /\ RemoveAt(q, i) \in Seq(S) /\ IsInjective(RemoveAt(q, i))
        /\ Range(RemoveAt(q, i)) = Range(q) \ {s} /\ Len(RemoveAt(q, i)) = Len(q) - 1
    BY <2>4, Removed
  <2> QED BY <2>5, <2>6, <2>7
<1>3. CASE ~\E i \in 1..Len(q) : q[i] = s
  <2>1. RemoveFirst(q, s) = q
    BY <1>3 DEF RemoveFirst
  <2>2. s \notin Range(q)
    BY <1>1, <1>3 DEF Range
  <2> QED BY <2>1, <2>2
<1> QED BY <1>2, <1>3

(* A new element at the end of a sequence. *)
LEMMA AppendedLast ==
  ASSUME NEW S, NEW q \in Seq(S), IsInjective(q), NEW s \in S, s \notin Range(q)
  PROVE  /\ Append(q, s) \in Seq(S) /\ IsInjective(Append(q, s))
         /\ Range(Append(q, s)) = Range(q) \cup {s} /\ Len(Append(q, s)) = Len(q) + 1
<1>1. PICK m : m = Len(q)
  OBVIOUS
<1>2. m \in Nat /\ DOMAIN q = 1..m
  BY <1>1, LenProperties
<1>3. PICK r : r = Append(q, s)
  OBVIOUS
<1>4. /\ r \in Seq(S) /\ DOMAIN r = 1..(m + 1) /\ r[m + 1] = s /\ Len(r) = m + 1
      /\ \A i \in 1..m : r[i] = q[i]
  <2>1. r \in Seq(S) /\ Len(r) = m + 1 /\ r[m + 1] = s /\ \A i \in 1..m : r[i] = q[i]
    BY <1>1, <1>3, AppendProperties
  <2> QED BY <2>1, LenProperties
<1>5. \A i \in 1..m : q[i] # s /\ \A j \in 1..m : q[i] = q[j] => i = j
  BY <1>2 DEF Range, IsInjective
<1>6. 1..(m + 1) = 1..m \cup {m + 1} /\ m + 1 \notin 1..m
  BY <1>2
<1>7. IsInjective(r)
  BY <1>4, <1>5, <1>6, SMTT(30) DEF IsInjective
<1>8. Range(r) = Range(q) \cup {s}
  BY <1>2, <1>4, <1>6 DEF Range
<1> QED BY <1>1, <1>3, <1>4, <1>7, <1>8

(* Forgetting a slot removes it from the recency and keeps the order of the
   rest. *)
LEMMA ForgottenSlot ==
  ASSUME NEW n \in Nat, NEW p, p.recency \in Seq(1..n), IsInjective(p.recency), NEW s
  PROVE  /\ Forgotten(p, s) \in Seq(1..n) /\ IsInjective(Forgotten(p, s))
         /\ Range(Forgotten(p, s)) = Range(p.recency) \ {s}
BY FirstRemoved DEF Forgotten

(* An access makes a slot the most recent one, without a second entry for
   it. *)
LEMMA AccessedSlot ==
  ASSUME NEW n \in Nat, NEW p, p.recency \in Seq(1..n), IsInjective(p.recency), NEW s \in 1..n
  PROVE  /\ Accessed(p, s) \in Seq(1..n) /\ IsInjective(Accessed(p, s))
         /\ Range(Accessed(p, s)) = Range(p.recency) \cup {s}
<1>1. PICK q : q = Forgotten(p, s)
  OBVIOUS
<1>2. q \in Seq(1..n) /\ IsInjective(q) /\ Range(q) = Range(p.recency) \ {s}
  BY <1>1, ForgottenSlot
<1>3. PICK S : S = 1..n
  OBVIOUS
<1>4. /\ Append(q, s) \in Seq(S) /\ IsInjective(Append(q, s))
      /\ Range(Append(q, s)) = Range(q) \cup {s}
  <2>1. q \in Seq(S) /\ IsInjective(q) /\ s \in S /\ s \notin Range(q)
    BY <1>2, <1>3
  <2> QED BY <2>1, AppendedLast
<1> QED BY <1>1, <1>2, <1>3, <1>4 DEF Accessed

-----------------------------------------------------------------------------
(* The slots *)

(* What a typed pool is made of. *)
LEMMA SlotsOfPool ==
  ASSUME NEW n \in Nat, NEW p, p \in PoolType(n)
  PROVE  /\ SlotsOf(p) = 1..n /\ DOMAIN p.pins = 1..n /\ DOMAIN p.generation = 1..n
         /\ \A s \in 1..n : p.state[s] \in SlotState /\ p.pins[s] \in Nat /\ p.generation[s] \in Nat
         /\ p = [state |-> p.state, recency |-> p.recency, pins |-> p.pins,
                 generation |-> p.generation, index |-> p.index, n_loaded |-> p.n_loaded]
         /\ IsFiniteSet(Busy(p)) /\ Busy(p) \subseteq 1..n /\ Cardinality(Busy(p)) \in Nat
<1>1. SlotsOf(p) = 1..n /\ DOMAIN p.pins = 1..n /\ DOMAIN p.generation = 1..n
  BY DEF PoolType, SlotsOf
<1>2. \A s \in 1..n : p.state[s] \in SlotState /\ p.pins[s] \in Nat /\ p.generation[s] \in Nat
  BY DEF PoolType
<1>3. p = [state |-> p.state, recency |-> p.recency, pins |-> p.pins,
           generation |-> p.generation, index |-> p.index, n_loaded |-> p.n_loaded]
  BY DEF PoolType
<1>4. Busy(p) \subseteq 1..n
  BY <1>1 DEF Busy
<1>5. IsFiniteSet(Busy(p)) /\ Cardinality(Busy(p)) \in Nat
  <2>1. IsFiniteSet(1..n)
    BY FS_Interval
  <2>2. IsFiniteSet(Busy(p))
    BY <1>4, <2>1, FS_Subset
  <2> QED BY <2>2, FS_CardinalityType
<1> QED BY <1>1, <1>2, <1>3, <1>4, <1>5

(* Changing one entry of a field that has one for each slot. *)
LEMMA EntrySet ==
  ASSUME NEW n, NEW S, NEW f \in [1..n -> S], NEW s, NEW x \in S
  PROVE  [f EXCEPT ![s] = x] \in [1..n -> S]
OBVIOUS

(* A record with typed fields is a typed pool. *)
LEMMA PoolOfFields ==
  ASSUME NEW n, NEW p,
         p = [state |-> p.state, recency |-> p.recency, pins |-> p.pins,
              generation |-> p.generation, index |-> p.index, n_loaded |-> p.n_loaded],
         p.state \in [1..n -> SlotState], p.recency \in Seq(1..n), p.pins \in [1..n -> Nat],
         p.generation \in [1..n -> Nat], p.index \in Indexes(n), p.n_loaded \in Nat
  PROVE  p \in PoolType(n)
<1>1. [state |-> p.state, recency |-> p.recency, pins |-> p.pins,
       generation |-> p.generation, index |-> p.index, n_loaded |-> p.n_loaded] \in PoolType(n)
  BY DEF PoolType
<1> QED BY <1>1

(* Slots of a sound pool by their states. *)
LEMMA SoundSlots ==
  ASSUME NEW n \in Nat, NEW p, Sound(p, n)
  PROVE  /\ \A s \in 1..n, k \in Key : p.state[s] = Ready(k) => Visible(p, k) /\ p.index[k] = s
         /\ \A k : Visible(p, k) => k \in Key /\ p.index[k] \in 1..n /\ p.state[p.index[k]] = Ready(k)
         /\ \A s \in 1..n, k \in Key : p.state[s] = Loading(k) =>
              ~Visible(p, k) /\ \A u \in 1..n : p.state[u] = Loading(k) => u = s
         /\ IsInjective(p.recency) /\ p.recency \in Seq(1..n)
         /\ \A s : s \in Range(p.recency) <=> s \in 1..n /\ \E k \in Key : p.state[s] = Ready(k)
<1>1. SlotsOf(p) = 1..n /\ \A s \in 1..n : p.state[s] \in SlotState
  BY SlotsOfPool DEF Sound
<1>2. p.index \in Indexes(n) /\ p.recency \in Seq(1..n)
  BY DEF Sound, PoolType
<1>3. \A k : Visible(p, k) => k \in Key /\ p.index[k] \in 1..n
  BY <1>2 DEF Visible, Indexes
<1>4. \A k : Visible(p, k) => p.state[p.index[k]] = Ready(k)
  BY DEF Sound, Indexed, Visible
<1>5. \A s \in 1..n, k \in Key : p.state[s] = Ready(k) => Visible(p, k) /\ p.index[k] = s
  BY <1>1 DEF Sound, Indexed
<1>6. \A s \in 1..n, k \in Key : p.state[s] = Loading(k) =>
        ~Visible(p, k) /\ \A u \in 1..n : p.state[u] = Loading(k) => u = s
  BY <1>1 DEF Sound, Alone
<1>7. \A s : s \in Range(p.recency) <=> s \in 1..n /\ \E k \in Key : p.state[s] = Ready(k)
  BY <1>1, Tags DEF Sound, Listed
<1> QED BY <1>2, <1>3, <1>4, <1>5, <1>6, <1>7 DEF Sound, Listed

(* The same, as a way to show that a pool is sound. *)
LEMMA SoundPool ==
  ASSUME NEW n \in Nat, NEW p, p \in PoolType(n),
         \A s \in 1..n, k \in Key : p.state[s] = Ready(k) => Visible(p, k) /\ p.index[k] = s,
         \A k : Visible(p, k) => p.state[p.index[k]] = Ready(k),
         \A s \in 1..n, k \in Key : p.state[s] = Loading(k) =>
           ~Visible(p, k) /\ \A u \in 1..n : p.state[u] = Loading(k) => u = s,
         IsInjective(p.recency),
         \A s : s \in Range(p.recency) <=> s \in 1..n /\ \E k \in Key : p.state[s] = Ready(k),
         p.n_loaded = Cardinality(Busy(p))
  PROVE  Sound(p, n)
<1>1. SlotsOf(p) = 1..n /\ \A s \in 1..n : p.state[s] \in SlotState
  BY SlotsOfPool
<1>2. Indexed(p)
  BY <1>1 DEF Indexed, Visible
<1>3. Alone(p)
  BY <1>1 DEF Alone
<1>4. Range(p.recency) = {s \in SlotsOf(p) : p.state[s].tag = "Ready"}
  BY <1>1, Tags
<1> QED BY <1>2, <1>3, <1>4 DEF Sound, Listed

(* VramPool::new: a pool of empty slots is sound. *)
LEMMA NewPoolIsSound ==
  ASSUME NEW n \in Nat
  PROVE  /\ Sound(NewPool(n), n)
         /\ \A s \in 1..n : /\ NewPool(n).state[s] = Empty /\ NewPool(n).pins[s] = 0
                            /\ NewPool(n).generation[s] = 0
<1>1. PICK p : p = NewPool(n)
  OBVIOUS
<1>2. p.index = [k \in {} |-> 0] /\ p.index \in Indexes(n)
  <2>1. p.index = [k \in {} |-> 0]
    BY <1>1 DEF NewPool
  <2>2. {} \in SUBSET Key /\ [k \in {} |-> 0] \in [{} -> 1..n]
    OBVIOUS
  <2> QED BY <2>1, <2>2 DEF Indexes
<1>3. /\ p.state = [s \in 1..n |-> Empty] /\ p.recency = << >> /\ p.pins = [s \in 1..n |-> 0]
      /\ p.generation = [s \in 1..n |-> 0] /\ p.n_loaded = 0
      /\ p = [state |-> p.state, recency |-> p.recency, pins |-> p.pins,
              generation |-> p.generation, index |-> p.index, n_loaded |-> p.n_loaded]
  BY <1>1 DEF NewPool
<1>4. p \in PoolType(n)
  <2>1. p.state \in [1..n -> SlotState]
    BY <1>3, SlotStates
  <2>2. p.recency \in Seq(1..n) /\ p.pins \in [1..n -> Nat] /\ p.generation \in [1..n -> Nat]
    BY <1>3
  <2>3. p.n_loaded \in Nat
    BY <1>3
  <2>4. p = [state |-> p.state, recency |-> p.recency, pins |-> p.pins,
             generation |-> p.generation, index |-> p.index, n_loaded |-> p.n_loaded]
    BY <1>3
  <2> QED BY <1>2, <2>1, <2>2, <2>3, <2>4, PoolOfFields
<1>5. /\ \A s \in 1..n : p.state[s] = Empty
      /\ \A k : ~Visible(p, k)
  BY <1>2, <1>3 DEF Visible
<1>6. IsInjective(p.recency) /\ Range(p.recency) = {}
  <2>1. DOMAIN p.recency = {}
    BY <1>3
  <2> QED BY <2>1 DEF IsInjective, Range
<1>7. Busy(p) = {} /\ p.n_loaded = Cardinality(Busy(p))
  <2>1. Busy(p) = {}
    BY <1>4, <1>5, SlotsOfPool DEF Busy
  <2> QED BY <1>3, <2>1, FS_EmptySet
<1>8. Sound(p, n)
  BY <1>4, <1>5, <1>6, <1>7, SoundPool, StatesDiffer
<1> QED BY <1>1, <1>3, <1>8

-----------------------------------------------------------------------------
(* Lookups and leases change neither the state of a slot nor the index. *)

(* A change of pins and of the order of recency alone keeps a pool sound. *)
LEMMA SameSlots ==
  ASSUME NEW n \in Nat, NEW p, Sound(p, n), NEW q,
         q = [state |-> q.state, recency |-> q.recency, pins |-> q.pins,
              generation |-> q.generation, index |-> q.index, n_loaded |-> q.n_loaded],
         q.state = p.state, q.index = p.index, q.n_loaded = p.n_loaded,
         q.generation = p.generation, q.pins \in [1..n -> Nat],
         q.recency \in Seq(1..n), IsInjective(q.recency), Range(q.recency) = Range(p.recency)
  PROVE  Sound(q, n)
<1>1. p \in PoolType(n) /\ p.n_loaded = Cardinality(Busy(p))
  BY DEF Sound
<1>2. q \in PoolType(n)
  <2>1. /\ p.state \in [1..n -> SlotState] /\ p.generation \in [1..n -> Nat]
        /\ p.index \in Indexes(n) /\ p.n_loaded \in Nat
    BY <1>1 DEF PoolType
  <2> QED BY <2>1, PoolOfFields
<1>3. Busy(q) = Busy(p) /\ \A k : Visible(q, k) <=> Visible(p, k)
  BY DEF Busy, SlotsOf, Visible
<1>4. q.n_loaded = Cardinality(Busy(q))
  BY <1>1, <1>3
<1>5. /\ \A s \in 1..n, k \in Key : q.state[s] = Ready(k) => Visible(q, k) /\ q.index[k] = s
      /\ \A k : Visible(q, k) => q.state[q.index[k]] = Ready(k)
      /\ \A s \in 1..n, k \in Key : q.state[s] = Loading(k) =>
           ~Visible(q, k) /\ \A u \in 1..n : q.state[u] = Loading(k) => u = s
      /\ \A s : s \in Range(q.recency) <=> s \in 1..n /\ \E k \in Key : q.state[s] = Ready(k)
  BY <1>3, SoundSlots, SMTT(30)
<1> QED BY <1>2, <1>4, <1>5, SoundPool

(* The access that a lookup records changes the recency only. *)
LEMMA TouchedSlot ==
  ASSUME NEW n \in Nat, NEW p, Sound(p, n), NEW k, Visible(p, k)
  PROVE  LET q == Touch(p, p.index[k]) IN
         /\ Sound(q, n) /\ q.state = p.state /\ q.index = p.index
         /\ q.pins = p.pins /\ q.generation = p.generation
<1>1. PICK s, q : s = p.index[k] /\ q = Touch(p, s)
  OBVIOUS
<1>2. s \in 1..n /\ k \in Key /\ p.state[s] = Ready(k)
  BY <1>1, SoundSlots
<1>3. p = [state |-> p.state, recency |-> p.recency, pins |-> p.pins,
           generation |-> p.generation, index |-> p.index, n_loaded |-> p.n_loaded]
  BY SlotsOfPool DEF Sound
<1>4. /\ q.state = p.state /\ q.recency = Accessed(p, s) /\ q.pins = p.pins
      /\ q.generation = p.generation /\ q.index = p.index /\ q.n_loaded = p.n_loaded
      /\ q = [state |-> q.state, recency |-> q.recency, pins |-> q.pins,
              generation |-> q.generation, index |-> q.index, n_loaded |-> q.n_loaded]
  BY <1>1, <1>3 DEF Touch
<1>5. /\ IsInjective(p.recency) /\ p.recency \in Seq(1..n) /\ s \in Range(p.recency)
  BY <1>2, SoundSlots
<1>6. /\ q.recency \in Seq(1..n) /\ IsInjective(q.recency) /\ Range(q.recency) = Range(p.recency)
  <2>1. /\ Accessed(p, s) \in Seq(1..n) /\ IsInjective(Accessed(p, s))
        /\ Range(Accessed(p, s)) = Range(p.recency) \cup {s}
    BY <1>2, <1>5, AccessedSlot
  <2> QED BY <1>4, <1>5, <2>1
<1>7. q.pins \in [1..n -> Nat]
  BY <1>4 DEF Sound, PoolType
<1>8. Sound(q, n)
  BY <1>4, <1>6, <1>7, SameSlots
<1> QED BY <1>1, <1>4, <1>8

(* lookup keeps the pool sound and moves no page. *)
LEMMA LookedUp ==
  ASSUME NEW n \in Nat, NEW p, Sound(p, n), NEW k
  PROVE  LET q == Lookup(p, k) IN
         /\ Sound(q, n) /\ q.state = p.state /\ q.pins = p.pins /\ q.generation = p.generation
BY TouchedSlot DEF Lookup

(* Pins may change in any way. *)
LEMMA PinsChanged ==
  ASSUME NEW n \in Nat, NEW p, Sound(p, n), NEW f \in [1..n -> Nat]
  PROVE  LET q == [p EXCEPT !.pins = f] IN
         /\ Sound(q, n) /\ q.state = p.state /\ q.pins = f /\ q.generation = p.generation
<1>1. PICK q : q = [p EXCEPT !.pins = f]
  OBVIOUS
<1>2. p = [state |-> p.state, recency |-> p.recency, pins |-> p.pins,
           generation |-> p.generation, index |-> p.index, n_loaded |-> p.n_loaded]
  BY SlotsOfPool DEF Sound
<1>3. /\ q.state = p.state /\ q.recency = p.recency /\ q.pins = f
      /\ q.generation = p.generation /\ q.index = p.index /\ q.n_loaded = p.n_loaded
      /\ q = [state |-> q.state, recency |-> q.recency, pins |-> q.pins,
              generation |-> q.generation, index |-> q.index, n_loaded |-> q.n_loaded]
  BY <1>1, <1>2
<1>4. p.recency \in Seq(1..n) /\ IsInjective(p.recency)
  BY SoundSlots
<1>5. Sound(q, n)
  BY <1>3, <1>4, SameSlots
<1> QED BY <1>1, <1>3, <1>5

(* lookup_and_pin of a visible page: its slot is pinned once more, and no other
   slot changes. *)
LEMMA Pinned ==
  ASSUME NEW n \in Nat, NEW p, Sound(p, n), NEW k, Visible(p, k),
         NEW q, q = Pin(p, k), NEW s, s = p.index[k]
  PROVE  /\ s \in 1..n /\ k \in Key /\ p.state[s] = Ready(k)
         /\ Sound(q, n) /\ OthersKept(p, q, n, s) /\ q.state[s] = p.state[s]
         /\ q.pins[s] = p.pins[s] + 1 /\ q.generation[s] = p.generation[s]
<1>1. s = p.index[k]
  OBVIOUS
<1>2. s \in 1..n /\ k \in Key /\ p.state[s] = Ready(k)
  BY <1>1, SoundSlots
<1>3. PICK r : r = Touch(p, s)
  OBVIOUS
<1>4. Sound(r, n) /\ r.state = p.state /\ r.pins = p.pins /\ r.generation = p.generation
  BY <1>1, <1>3, TouchedSlot
<1>5. PICK f : f = [p.pins EXCEPT ![s] = @ + 1]
  OBVIOUS
<1>6. f \in [1..n -> Nat]
  <2>1. p.pins \in [1..n -> Nat]
    BY DEF Sound, PoolType
  <2> QED BY <1>2, <1>5, <2>1
<1>7. Pin(p, k) = [r EXCEPT !.pins = f]
  <2>1. r = [state |-> r.state, recency |-> r.recency, pins |-> r.pins,
             generation |-> r.generation, index |-> r.index, n_loaded |-> r.n_loaded]
    BY <1>4, SlotsOfPool DEF Sound
  <2>2. Pin(p, k) = [r EXCEPT !.pins = [r.pins EXCEPT ![s] = r.pins[s] + 1]]
    BY <1>1, <1>3, <2>1 DEF Pin
  <2> QED BY <1>4, <1>5, <2>2
<1>8. Sound(q, n) /\ q.state = r.state /\ q.pins = f /\ q.generation = r.generation
  <2>1. LET m == [r EXCEPT !.pins = f] IN
        Sound(m, n) /\ m.state = r.state /\ m.pins = f /\ m.generation = r.generation
    BY <1>4, <1>6, PinsChanged
  <2> QED BY <1>7, <2>1
<1>9. /\ f[s] = p.pins[s] + 1 /\ \A u \in 1..n : u # s => f[u] = p.pins[u]
  <2>1. p.pins \in [1..n -> Nat]
    BY DEF Sound, PoolType
  <2> QED BY <1>2, <1>5, <2>1
<1> QED BY <1>2, <1>4, <1>8, <1>9 DEF OthersKept

-----------------------------------------------------------------------------
(* Reservations *)

(* The slot that reserve_loading_generation takes. *)
LEMMA SlotTaken ==
  ASSUME NEW n \in Nat, NEW p, Sound(p, n), EmptySlots(p) \cup Evictable(p) # {}
  PROVE  /\ SlotFor(p) \in 1..n
         /\ p.state[SlotFor(p)] = Empty
              \/ (p.pins[SlotFor(p)] = 0 /\ \E k \in Key : p.state[SlotFor(p)] = Ready(k))
<1>1. SlotsOf(p) = 1..n /\ \A s \in 1..n : p.state[s] \in SlotState
  BY SlotsOfPool DEF Sound
<1>2. CASE EmptySlots(p) # {}
  <2>1. EmptySlots(p) \subseteq Nat
    BY <1>1 DEF EmptySlots
  <2>2. \E s \in EmptySlots(p) : \A t \in EmptySlots(p) : s <= t
    BY <1>2, <2>1, LeastElement
  <2>3. SlotFor(p) \in EmptySlots(p)
    BY <1>2, <2>2 DEF SlotFor
  <2>4. SlotFor(p) \in SlotsOf(p) /\ p.state[SlotFor(p)] = Empty
    BY <2>3 DEF EmptySlots
  <2>5. SlotFor(p) \in 1..n
    BY <1>1, <2>4
  <2> QED BY <2>4, <2>5
<1>3. CASE EmptySlots(p) = {}
  <2>1. PICK q : q = p.recency
    OBVIOUS
  <2>2. /\ DOMAIN q = 1..Len(q) /\ Len(q) \in Nat
        /\ \A s : s \in Range(q) <=> s \in 1..n /\ \E k \in Key : p.state[s] = Ready(k)
    BY <2>1, SoundSlots, LenProperties
  <2>3. PICK I : I = {i \in 1..Len(q) : q[i] \in Evictable(p)}
    OBVIOUS
  <2>4. I # {}
    <3>1. PICK s \in Evictable(p) : TRUE
      BY <1>3
    <3>2. s \in 1..n /\ \E k \in Key : p.state[s] = Ready(k)
      BY <1>1, <3>1, Tags DEF Evictable
    <3>3. PICK i \in 1..Len(q) : q[i] = s
      BY <2>2, <3>2 DEF Range
    <3> QED BY <2>3, <3>1, <3>3
  <2>5. Min(I) \in I
    <3>1. I \subseteq 1..Len(q) /\ 1..Len(q) \subseteq Nat
      BY <2>2, <2>3
    <3> QED BY <2>4, <3>1, LeastIndex
  <2>6. SlotFor(p) = q[Min(I)]
    BY <1>3, <2>1, <2>3, <2>4 DEF SlotFor, SelectInSeq
  <2>7. SlotFor(p) \in Evictable(p)
    BY <2>3, <2>5, <2>6
  <2> QED BY <1>1, <2>7, Tags DEF Evictable
<1> QED BY <1>2, <1>3

(* reserve_loading_generation that succeeds takes a slot that was Empty or
   Ready and unpinned, gives it the next generation, and leaves the other slots
   alone. *)
LEMMA Reserved ==
  ASSUME NEW n \in Nat, NEW p, Sound(p, n), NEW k \in Key, CanReserve(p, k),
         NEW r, r = Reserve(p, k), NEW t, t = SlotFor(p)
  PROVE  /\ t \in 1..n
         /\ p.state[t] = Empty \/ (p.pins[t] = 0 /\ \E l \in Key : p.state[t] = Ready(l))
         /\ Sound(r, n) /\ OthersKept(p, r, n, t)
         /\ r.state[t] = Loading(k) /\ r.pins[t] = 0 /\ r.generation[t] = p.generation[t] + 1
<1>1. PICK s, q : s = t /\ q = r /\ s = SlotFor(p) /\ q = Reserve(p, k)
  OBVIOUS
<1>2. ~Visible(p, k) /\ ~IsLoading(p, k) /\ EmptySlots(p) \cup Evictable(p) # {}
  BY DEF CanReserve
<1>3. s \in 1..n /\ (p.state[s] = Empty \/ (p.pins[s] = 0 /\ \E l \in Key : p.state[s] = Ready(l)))
  BY <1>1, <1>2, SlotTaken
<1>4. p = [state |-> p.state, recency |-> p.recency, pins |-> p.pins,
           generation |-> p.generation, index |-> p.index, n_loaded |-> p.n_loaded]
  BY SlotsOfPool DEF Sound
<1>5. PICK m : m = IF p.state[s] = Empty THEN p.n_loaded + 1 ELSE p.n_loaded
  OBVIOUS
<1>6. /\ q.state = [p.state EXCEPT ![s] = Loading(k)] /\ q.pins = [p.pins EXCEPT ![s] = 0]
      /\ q.generation = [p.generation EXCEPT ![s] = @ + 1]
      /\ q.index = Unindexed(p, s) /\ q.recency = Forgotten(p, s) /\ q.n_loaded = m
      /\ q = [state |-> q.state, recency |-> q.recency, pins |-> q.pins,
              generation |-> q.generation, index |-> q.index, n_loaded |-> q.n_loaded]
  <2> HIDE DEF SlotFor, Unindexed, Forgotten, Loading, Empty
  <2>1. q = [p EXCEPT !.state[s] = Loading(k), !.pins[s] = 0, !.generation[s] = @ + 1,
                      !.index = Unindexed(p, s), !.recency = Forgotten(p, s), !.n_loaded = m]
    BY <1>1, <1>4, <1>5 DEF Reserve
  <2> QED BY <1>4, <2>1
<1>7. /\ p.state \in [1..n -> SlotState] /\ p.pins \in [1..n -> Nat]
      /\ p.generation \in [1..n -> Nat] /\ p.index \in Indexes(n) /\ p.n_loaded \in Nat
      /\ p.n_loaded = Cardinality(Busy(p)) /\ SlotsOf(p) = 1..n
  BY SlotsOfPool DEF Sound, PoolType
<1>8. q.state[s] = Loading(k) /\ \A u \in 1..n : u # s => q.state[u] = p.state[u]
  BY <1>3, <1>6, <1>7
<1>9. /\ \A l : Visible(q, l) <=> Visible(p, l) /\ p.index[l] # s
      /\ \A l : Visible(q, l) => q.index[l] = p.index[l]
  BY <1>6 DEF Unindexed, Visible
<1>10. /\ q.recency \in Seq(1..n) /\ IsInjective(q.recency)
       /\ Range(q.recency) = Range(p.recency) \ {s}
  BY <1>6, SoundSlots, ForgottenSlot
<1>11. Busy(q) = Busy(p) \cup {s} /\ (s \in Busy(p) <=> p.state[s] # Empty)
  <2>1. SlotsOf(q) = 1..n
    BY <1>6, <1>7 DEF SlotsOf
  <2>2. Loading(k) # Empty
    BY StatesDiffer
  <2> QED BY <1>3, <1>7, <1>8, <2>1, <2>2 DEF Busy
<1>12. q.n_loaded = Cardinality(Busy(q)) /\ q.n_loaded \in Nat
  <2>1. IsFiniteSet(Busy(p))
    BY SlotsOfPool DEF Sound
  <2>2. Cardinality(Busy(q)) = IF s \in Busy(p) THEN Cardinality(Busy(p)) ELSE Cardinality(Busy(p)) + 1
    BY <1>11, <2>1, FS_AddElement
  <2> QED BY <1>5, <1>6, <1>7, <1>11, <2>2
<1>13. q \in PoolType(n)
  <2>1. q.state \in [1..n -> SlotState]
    <3>1. Loading(k) \in SlotState
      BY SlotStates
    <3>2. [p.state EXCEPT ![s] = Loading(k)] \in [1..n -> SlotState]
      BY <1>7, <3>1, EntrySet
    <3>3. q.state = [p.state EXCEPT ![s] = Loading(k)]
      BY <1>6
    <3> QED BY <3>2, <3>3
  <2>2. q.pins \in [1..n -> Nat]
    <3>1. q.pins = [p.pins EXCEPT ![s] = 0] /\ p.pins \in [1..n -> Nat]
      BY <1>6, <1>7
    <3>2. [p.pins EXCEPT ![s] = 0] \in [1..n -> Nat]
      BY <3>1, EntrySet
    <3> QED BY <3>1, <3>2
  <2>4. q.generation \in [1..n -> Nat]
    <3>1. p.generation[s] + 1 \in Nat
      BY <1>3, <1>7
    <3>2. [p.generation EXCEPT ![s] = p.generation[s] + 1] \in [1..n -> Nat]
      BY <1>7, <3>1, EntrySet
    <3>3. q.generation = [p.generation EXCEPT ![s] = p.generation[s] + 1]
      BY <1>6
    <3> QED BY <3>2, <3>3
  <2>3. q.index \in Indexes(n)
    <3>1. PICK D : D = {x \in DOMAIN p.index : p.index[x] # s}
      OBVIOUS
    <3>2. D \in SUBSET Key /\ \A l \in D : p.index[l] \in 1..n
      BY <1>7, <3>1 DEF Indexes
    <3>3. q.index = [l \in D |-> p.index[l]]
      BY <1>6, <3>1 DEF Unindexed
    <3>4. q.index \in [D -> 1..n]
      BY <3>2, <3>3
    <3> QED BY <3>2, <3>4 DEF Indexes
  <2> QED BY <1>6, <1>10, <1>12, <2>1, <2>2, <2>3, <2>4, PoolOfFields
<1>14. \A u \in 1..n, l \in Key : q.state[u] = Ready(l) => Visible(q, l) /\ q.index[l] = u
  <2> SUFFICES ASSUME NEW u \in 1..n, NEW l \in Key, q.state[u] = Ready(l)
               PROVE  Visible(q, l) /\ q.index[l] = u
    OBVIOUS
  <2>1. u # s /\ p.state[u] = Ready(l)
    BY <1>8, StatesDiffer
  <2>2. Visible(p, l) /\ p.index[l] = u
    BY <2>1, SoundSlots
  <2> QED BY <1>9, <2>1, <2>2
<1>15. \A l : Visible(q, l) => q.state[q.index[l]] = Ready(l)
  <2> SUFFICES ASSUME NEW l, Visible(q, l) PROVE q.state[q.index[l]] = Ready(l)
    OBVIOUS
  <2>1. Visible(p, l) /\ p.index[l] # s /\ q.index[l] = p.index[l]
    BY <1>9
  <2>2. p.index[l] \in 1..n /\ p.state[p.index[l]] = Ready(l)
    BY <2>1, SoundSlots
  <2> QED BY <1>8, <2>1, <2>2
<1>16. \A u \in 1..n, l \in Key : q.state[u] = Loading(l) =>
         ~Visible(q, l) /\ \A v \in 1..n : q.state[v] = Loading(l) => v = u
  <2> SUFFICES ASSUME NEW u \in 1..n, NEW l \in Key, q.state[u] = Loading(l)
               PROVE  ~Visible(q, l) /\ \A v \in 1..n : q.state[v] = Loading(l) => v = u
    OBVIOUS
  <2>1. \A v \in 1..n : p.state[v] # Loading(k)
    BY <1>2, <1>7 DEF IsLoading
  <2>2. CASE u = s
    <3>1. l = k
      BY <1>8, <2>2, StatesDiffer
    <3> QED BY <1>2, <1>8, <1>9, <2>1, <2>2, <3>1
  <2>3. CASE u # s
    <3>1. p.state[u] = Loading(l) /\ l # k
      BY <1>8, <2>1, <2>3
    <3>2. ~Visible(p, l) /\ \A v \in 1..n : p.state[v] = Loading(l) => v = u
      BY <3>1, SoundSlots
    <3>3. q.state[s] # Loading(l)
      BY <1>8, <3>1, StatesDiffer
    <3> QED BY <1>8, <1>9, <3>2, <3>3
  <2> QED BY <2>2, <2>3
<1>17. \A u : u \in Range(q.recency) <=> u \in 1..n /\ \E l \in Key : q.state[u] = Ready(l)
  <2>1. \A u : u \in Range(p.recency) <=> u \in 1..n /\ \E l \in Key : p.state[u] = Ready(l)
    BY SoundSlots
  <2>2. \A l : q.state[s] # Ready(l)
    BY <1>8, StatesDiffer
  <2> QED BY <1>8, <1>10, <2>1, <2>2
<1>18. Sound(q, n)
  BY <1>10, <1>12, <1>13, <1>14, <1>15, <1>16, <1>17, SoundPool
<1>19. OthersKept(p, q, n, s) /\ q.pins[s] = 0 /\ q.generation[s] = p.generation[s] + 1
  BY <1>3, <1>6, <1>7, <1>8 DEF OthersKept
<1> QED BY <1>1, <1>3, <1>8, <1>18, <1>19

-----------------------------------------------------------------------------
(* Cancelled reservations: the slots of F become Empty. *)

(* Giving up any Loading slots keeps the pool sound: none of them was
   indexed. *)
LEMMA Emptied ==
  ASSUME NEW n \in Nat, NEW p, Sound(p, n), NEW F, F \subseteq 1..n,
         \A s \in F : \E k \in Key : p.state[s] = Loading(k), NEW q,
         q = [state |-> q.state, recency |-> q.recency, pins |-> q.pins,
              generation |-> q.generation, index |-> q.index, n_loaded |-> q.n_loaded],
         q.state = [s \in 1..n |-> IF s \in F THEN Empty ELSE p.state[s]],
         q.index = p.index, q.recency = p.recency, q.generation = p.generation,
         q.pins \in [1..n -> Nat], q.n_loaded = p.n_loaded - Cardinality(F)
  PROVE  Sound(q, n)
<1>1. /\ p.state \in [1..n -> SlotState] /\ p.recency \in Seq(1..n)
      /\ p.generation \in [1..n -> Nat] /\ p.index \in Indexes(n) /\ p.n_loaded \in Nat
      /\ p.n_loaded = Cardinality(Busy(p)) /\ SlotsOf(p) = 1..n /\ IsFiniteSet(Busy(p))
  BY SlotsOfPool DEF Sound, PoolType
<1>2. /\ \A s \in F : s \in 1..n /\ q.state[s] = Empty
      /\ \A s \in 1..n : s \notin F => q.state[s] = p.state[s]
  OBVIOUS
<1>3. \A k : (Visible(q, k) <=> Visible(p, k)) /\ q.index[k] = p.index[k]
  BY DEF Visible
<1>4. F \subseteq Busy(p) /\ Busy(q) = Busy(p) \ F
  <2>1. SlotsOf(q) = 1..n
    BY DEF SlotsOf
  <2>2. \A s \in F : p.state[s] # Empty
    BY StatesDiffer
  <2> QED BY <1>1, <1>2, <2>1, <2>2 DEF Busy
<1>5. q.n_loaded = Cardinality(Busy(q)) /\ q.n_loaded \in Nat
  <2>1. Cardinality(Busy(p) \ F) = Cardinality(Busy(p)) - Cardinality(Busy(p) \cap F)
    BY <1>1, FS_Difference
  <2>2. Busy(p) \cap F = F
    BY <1>4
  <2>3. Cardinality(Busy(q)) \in Nat
    BY <1>1, <1>4, FS_Subset, FS_CardinalityType
  <2> QED BY <1>1, <1>4, <2>1, <2>2, <2>3
<1>6. q \in PoolType(n)
  <2>1. q.state \in [1..n -> SlotState]
    BY <1>1, SlotStates
  <2> QED BY <1>1, <1>5, <2>1, PoolOfFields
<1>7. \A s \in F : \A k \in Key : p.state[s] # Ready(k)
  BY StatesDiffer
<1>8. \A s \in 1..n, k \in Key : q.state[s] = Ready(k) => Visible(q, k) /\ q.index[k] = s
  <2> SUFFICES ASSUME NEW s \in 1..n, NEW k \in Key, q.state[s] = Ready(k)
               PROVE  Visible(q, k) /\ q.index[k] = s
    OBVIOUS
  <2>1. p.state[s] = Ready(k)
    BY <1>2, StatesDiffer
  <2> QED BY <1>3, <2>1, SoundSlots
<1>9. \A k : Visible(q, k) => q.state[q.index[k]] = Ready(k)
  <2> SUFFICES ASSUME NEW k, Visible(q, k) PROVE q.state[q.index[k]] = Ready(k)
    OBVIOUS
  <2>1. k \in Key /\ p.index[k] \in 1..n /\ p.state[p.index[k]] = Ready(k)
    BY <1>3, SoundSlots
  <2> QED BY <1>2, <1>3, <1>7, <2>1
<1>10. \A s \in 1..n, k \in Key : q.state[s] = Loading(k) =>
         ~Visible(q, k) /\ \A u \in 1..n : q.state[u] = Loading(k) => u = s
  <2> SUFFICES ASSUME NEW s \in 1..n, NEW k \in Key, q.state[s] = Loading(k)
               PROVE  ~Visible(q, k) /\ \A u \in 1..n : q.state[u] = Loading(k) => u = s
    OBVIOUS
  <2>1. \A u \in 1..n : q.state[u] = Loading(k) => p.state[u] = Loading(k)
    BY <1>2, StatesDiffer
  <2>2. ~Visible(p, k) /\ \A u \in 1..n : p.state[u] = Loading(k) => u = s
    BY <2>1, SoundSlots
  <2> QED BY <1>3, <2>1, <2>2
<1>11. IsInjective(q.recency)
       /\ \A s : s \in Range(q.recency) <=> s \in 1..n /\ \E k \in Key : q.state[s] = Ready(k)
  <2>1. \A s : s \in Range(p.recency) <=> s \in 1..n /\ \E k \in Key : p.state[s] = Ready(k)
    BY SoundSlots
  <2>2. \A s \in 1..n, k \in Key : q.state[s] = Ready(k) <=> p.state[s] = Ready(k)
    BY <1>2, <1>7, StatesDiffer
  <2>3. IsInjective(p.recency)
    BY SoundSlots
  <2> QED BY <2>1, <2>2, <2>3
<1> QED BY <1>5, <1>6, <1>8, <1>9, <1>10, <1>11, SoundPool

(* cancel_loading of a Loading slot empties it in the same generation. *)
LEMMA Cancelled ==
  ASSUME NEW n \in Nat, NEW p, Sound(p, n), NEW s \in 1..n, NEW k \in Key, p.state[s] = Loading(k),
         NEW r, r = Cancel(p, s)
  PROVE  /\ Sound(r, n) /\ OthersKept(p, r, n, s)
         /\ r.state[s] = Empty /\ r.pins[s] = 0 /\ r.generation[s] = p.generation[s]
<1>1. PICK q : q = r /\ q = Cancel(p, s)
  OBVIOUS
<1>2. p = [state |-> p.state, recency |-> p.recency, pins |-> p.pins,
           generation |-> p.generation, index |-> p.index, n_loaded |-> p.n_loaded]
  BY SlotsOfPool DEF Sound
<1>3. /\ q.state = [p.state EXCEPT ![s] = Empty] /\ q.pins = [p.pins EXCEPT ![s] = 0]
      /\ q.generation = p.generation /\ q.index = p.index /\ q.recency = p.recency
      /\ q.n_loaded = p.n_loaded - 1
      /\ q = [state |-> q.state, recency |-> q.recency, pins |-> q.pins,
              generation |-> q.generation, index |-> q.index, n_loaded |-> q.n_loaded]
  <2> HIDE DEF Empty
  <2> QED BY <1>1, <1>2 DEF Cancel
<1>4. p.state \in [1..n -> SlotState] /\ p.pins \in [1..n -> Nat]
  BY DEF Sound, PoolType
<1>5. q.state = [u \in 1..n |-> IF u \in {s} THEN Empty ELSE p.state[u]]
  BY <1>3, <1>4
<1>6. q.pins \in [1..n -> Nat]
  <2>1. q.pins = [p.pins EXCEPT ![s] = 0]
    BY <1>3
  <2> QED BY <1>4, <2>1
<1>7. Cardinality({s}) = 1
  BY FS_Singleton
<1>8. Sound(q, n)
  <2>1. {s} \subseteq 1..n /\ \A u \in {s} : \E l \in Key : p.state[u] = Loading(l)
    OBVIOUS
  <2>2. q.n_loaded = p.n_loaded - Cardinality({s})
    BY <1>3, <1>7
  <2> QED BY <1>3, <1>5, <1>6, <2>1, <2>2, Emptied, SMTT(30)
<1> QED BY <1>1, <1>3, <1>4, <1>8 DEF OthersKept

-----------------------------------------------------------------------------
(* Publication *)

(* publish_prevalidated_batch_and_pin for one reservation that holds: the page
   is Ready, indexed and pinned once, in the same generation. *)
LEMMA PublishedSlot ==
  ASSUME NEW n \in Nat, NEW p, Sound(p, n), NEW r, r.slot \in 1..n, r.key \in Key,
         p.state[r.slot] = Loading(r.key), NEW q, q = Publish(p, r)
  PROVE  /\ Sound(q, n) /\ OthersKept(p, q, n, r.slot)
         /\ q.state[r.slot] = Ready(r.key) /\ q.pins[r.slot] = 1
         /\ q.generation[r.slot] = p.generation[r.slot]
<1>1. PICK s, k : s = r.slot /\ k = r.key /\ q = Publish(p, r)
  OBVIOUS
<1>2. s \in 1..n /\ k \in Key /\ p.state[s] = Loading(k)
  BY <1>1
<1>3. p = [state |-> p.state, recency |-> p.recency, pins |-> p.pins,
           generation |-> p.generation, index |-> p.index, n_loaded |-> p.n_loaded]
  BY SlotsOfPool DEF Sound
<1>4. PICK f : f = [l \in DOMAIN p.index \cup {k} |-> IF l = k THEN s ELSE p.index[l]]
  OBVIOUS
<1>5. /\ q.state = [p.state EXCEPT ![s] = Ready(k)] /\ q.pins = [p.pins EXCEPT ![s] = 1]
      /\ q.generation = p.generation /\ q.index = f
      /\ q.recency = Accessed(p, s) /\ q.n_loaded = p.n_loaded
      /\ q = [state |-> q.state, recency |-> q.recency, pins |-> q.pins,
              generation |-> q.generation, index |-> q.index, n_loaded |-> q.n_loaded]
  <2> HIDE DEF Ready, Accessed
  <2>1. q = [p EXCEPT !.state[s] = Ready(k), !.pins[s] = 1, !.index = f, !.recency = Accessed(p, s)]
    BY <1>1, <1>3, <1>4 DEF Publish
  <2> QED BY <1>3, <2>1
<1>6. /\ p.state \in [1..n -> SlotState] /\ p.pins \in [1..n -> Nat]
      /\ p.generation \in [1..n -> Nat] /\ p.index \in Indexes(n) /\ p.n_loaded \in Nat
      /\ p.n_loaded = Cardinality(Busy(p)) /\ SlotsOf(p) = 1..n
  BY SlotsOfPool DEF Sound, PoolType
<1>7. q.state[s] = Ready(k) /\ \A u \in 1..n : u # s => q.state[u] = p.state[u]
  BY <1>2, <1>5, <1>6
<1>8. ~Visible(p, k) /\ \A u \in 1..n : p.state[u] = Loading(k) => u = s
  BY <1>2, SoundSlots
<1>9. /\ \A l : Visible(q, l) <=> Visible(p, l) \/ l = k
      /\ q.index[k] = s /\ \A l : Visible(p, l) => q.index[l] = p.index[l]
  BY <1>4, <1>5, <1>8 DEF Visible
<1>10. /\ q.recency \in Seq(1..n) /\ IsInjective(q.recency)
       /\ Range(q.recency) = Range(p.recency) \cup {s}
  <2>1. p.recency \in Seq(1..n) /\ IsInjective(p.recency)
    BY SoundSlots
  <2> QED BY <1>2, <1>5, <2>1, AccessedSlot
<1>11. q.n_loaded = Cardinality(Busy(q))
  <2>1. SlotsOf(q) = 1..n
    BY <1>5, <1>6 DEF SlotsOf
  <2>2. Loading(k) # Empty /\ Ready(k) # Empty
    BY StatesDiffer
  <2>3. Busy(q) = Busy(p)
    BY <1>2, <1>6, <1>7, <2>1, <2>2 DEF Busy
  <2> QED BY <1>5, <1>6, <2>3
<1>12. q \in PoolType(n)
  <2>1. q.state \in [1..n -> SlotState]
    <3>1. Ready(k) \in SlotState
      BY <1>2, SlotStates
    <3> QED BY <1>5, <1>6, <3>1
  <2>2. q.pins \in [1..n -> Nat]
    <3>1. q.pins = [p.pins EXCEPT ![s] = 1] /\ p.pins \in [1..n -> Nat]
      BY <1>5, <1>6
    <3>2. [p.pins EXCEPT ![s] = 1] \in [1..n -> Nat]
      BY <3>1, EntrySet
    <3> QED BY <3>1, <3>2
  <2>3. q.index \in Indexes(n)
    <3>1. PICK D : D = DOMAIN p.index
      OBVIOUS
    <3>2. D \in SUBSET Key /\ \A l \in D : p.index[l] \in 1..n
      BY <1>6, <3>1 DEF Indexes
    <3>3. D \cup {k} \in SUBSET Key
      BY <1>2, <3>2
    <3>4. q.index \in [D \cup {k} -> 1..n]
      BY <1>2, <1>4, <1>5, <3>1, <3>2
    <3> QED BY <3>3, <3>4 DEF Indexes
  <2>4. q.generation \in [1..n -> Nat] /\ q.n_loaded \in Nat
    BY <1>5, <1>6
  <2> QED BY <1>5, <1>10, <2>1, <2>2, <2>3, <2>4, PoolOfFields
<1>13. \A u \in 1..n, l \in Key : q.state[u] = Ready(l) => Visible(q, l) /\ q.index[l] = u
  <2> SUFFICES ASSUME NEW u \in 1..n, NEW l \in Key, q.state[u] = Ready(l)
               PROVE  Visible(q, l) /\ q.index[l] = u
    OBVIOUS
  <2>1. CASE u = s
    <3>1. l = k
      BY <1>7, <2>1, StatesDiffer
    <3> QED BY <1>9, <2>1, <3>1
  <2>2. CASE u # s
    <3>1. p.state[u] = Ready(l)
      BY <1>7, <2>2
    <3>2. Visible(p, l) /\ p.index[l] = u
      BY <3>1, SoundSlots
    <3> QED BY <1>9, <3>2
  <2> QED BY <2>1, <2>2
<1>14. \A l : Visible(q, l) => q.state[q.index[l]] = Ready(l)
  <2> SUFFICES ASSUME NEW l, Visible(q, l) PROVE q.state[q.index[l]] = Ready(l)
    OBVIOUS
  <2>1. CASE l = k
    BY <1>7, <1>9, <2>1
  <2>2. CASE l # k
    <3>1. Visible(p, l) /\ q.index[l] = p.index[l]
      BY <1>9, <2>2
    <3>2. p.index[l] \in 1..n /\ p.state[p.index[l]] = Ready(l)
      BY <3>1, SoundSlots
    <3>3. p.index[l] # s
      BY <1>2, <3>2, StatesDiffer
    <3> QED BY <1>7, <3>1, <3>2, <3>3
  <2> QED BY <2>1, <2>2
<1>15. \A u \in 1..n, l \in Key : q.state[u] = Loading(l) =>
         ~Visible(q, l) /\ \A v \in 1..n : q.state[v] = Loading(l) => v = u
  <2> SUFFICES ASSUME NEW u \in 1..n, NEW l \in Key, q.state[u] = Loading(l)
               PROVE  ~Visible(q, l) /\ \A v \in 1..n : q.state[v] = Loading(l) => v = u
    OBVIOUS
  <2>1. \A v \in 1..n : q.state[v] = Loading(l) => v # s /\ p.state[v] = Loading(l)
    BY <1>7, StatesDiffer
  <2>2. ~Visible(p, l) /\ \A v \in 1..n : p.state[v] = Loading(l) => v = u
    BY <2>1, SoundSlots
  <2>3. l # k
    BY <1>2, <2>1, <2>2
  <2> QED BY <1>9, <2>1, <2>2, <2>3
<1>16. \A u : u \in Range(q.recency) <=> u \in 1..n /\ \E l \in Key : q.state[u] = Ready(l)
  <2>1. \A u : u \in Range(p.recency) <=> u \in 1..n /\ \E l \in Key : p.state[u] = Ready(l)
    BY SoundSlots
  <2> QED BY <1>2, <1>7, <1>10, <2>1
<1>17. Sound(q, n)
  BY <1>10, <1>11, <1>12, <1>13, <1>14, <1>15, <1>16, SoundPool
<1>18. OthersKept(p, q, n, s) /\ q.pins[s] = 1 /\ q.generation[s] = p.generation[s]
  BY <1>2, <1>5, <1>6, <1>7 DEF OthersKept
<1> QED BY <1>1, <1>7, <1>17, <1>18

(* mark_ready: the slot is left unpinned. *)
LEMMA MarkedReady ==
  ASSUME NEW n \in Nat, NEW p, Sound(p, n), NEW s \in 1..n, NEW k \in Key, p.state[s] = Loading(k),
         NEW q, q = MarkReady(p, s, k)
  PROVE  /\ Sound(q, n) /\ OthersKept(p, q, n, s)
         /\ q.state[s] = Ready(k) /\ q.pins[s] = 0 /\ q.generation[s] = p.generation[s]
<1>1. PICK r, m : r = Stamp(p, k, s) /\ m = Publish(p, r)
  OBVIOUS
<1>2. r.slot = s /\ r.key = k
  BY <1>1 DEF Stamp
<1>3. /\ Sound(m, n) /\ OthersKept(p, m, n, s)
      /\ m.state[s] = Ready(k) /\ m.pins[s] = 1 /\ m.generation[s] = p.generation[s]
  BY <1>1, <1>2, PublishedSlot
<1>4. PICK f : f = [m.pins EXCEPT ![s] = 0]
  OBVIOUS
<1>5. m.pins \in [1..n -> Nat]
  BY <1>3 DEF Sound, PoolType
<1>6. f \in [1..n -> Nat] /\ f[s] = 0 /\ \A u \in 1..n : u # s => f[u] = m.pins[u]
  <2>1. f \in [1..n -> Nat]
    BY <1>4, <1>5, EntrySet
  <2> QED BY <1>4, <1>5, <2>1
<1>7. q = [m EXCEPT !.pins = f]
  <2>1. q = Unpin(m, r)
    BY <1>1 DEF MarkReady
  <2>2. Unpin(m, r) = [m EXCEPT !.pins = [m.pins EXCEPT ![s] = m.pins[s] - 1]]
    BY <1>2 DEF Unpin
  <2>3. m.pins[s] - 1 = 0
    BY <1>3
  <2> QED BY <1>4, <2>1, <2>2, <2>3
<1>8. Sound(q, n) /\ q.state = m.state /\ q.pins = f /\ q.generation = m.generation
  <2>1. LET x == [m EXCEPT !.pins = f] IN
        Sound(x, n) /\ x.state = m.state /\ x.pins = f /\ x.generation = m.generation
    BY <1>3, <1>6, PinsChanged
  <2> QED BY <1>7, <2>1
<1> QED BY <1>3, <1>6, <1>8 DEF OthersKept

-----------------------------------------------------------------------------
(* rollback_pages: no two reservations own the same slot, so as many slots
   become Empty as reservations are given back. *)
LEMMA FreedSlots ==
  ASSUME NEW n \in Nat, NEW p, NEW G,
         \A r \in G : /\ Holds(p, r) /\ r.slot \in 1..n
                      /\ r = [key |-> r.key, slot |-> r.slot, generation |-> r.generation]
  PROVE  Cardinality({s \in 1..n : \E r \in G : r.slot = s}) = Cardinality(G)
<1>1. PICK F : F = {s \in 1..n : \E r \in G : r.slot = s}
  OBVIOUS
<1>2. IsFiniteSet(F)
  <2>1. IsFiniteSet(1..n) /\ F \subseteq 1..n
    BY <1>1, FS_Interval
  <2> QED BY <2>1, FS_Subset
<1>3. \A r, u \in G : r.slot = u.slot => r = u
  <2> SUFFICES ASSUME NEW r \in G, NEW u \in G, r.slot = u.slot PROVE r = u
    OBVIOUS
  <2>1. Loading(r.key) = Loading(u.key) /\ r.generation = u.generation
    BY DEF Holds
  <2>2. r.key = u.key
    BY <2>1, StatesDiffer
  <2> QED BY <2>1, <2>2
<1>4. PICK f : f = [s \in F |-> CHOOSE r \in G : r.slot = s]
  OBVIOUS
<1>5. \A s \in F : f[s] \in G /\ f[s].slot = s
  <2> SUFFICES ASSUME NEW s \in F PROVE f[s] \in G /\ f[s].slot = s
    OBVIOUS
  <2>1. \E r \in G : r.slot = s
    BY <1>1
  <2> QED BY <1>4, <2>1
<1>6. \A r \in G : r.slot \in F /\ f[r.slot] = r
  BY <1>1, <1>3, <1>5
<1>7. f \in Surjection(F, G) /\ f \in Injection(F, G)
  <2>1. f \in [F -> G]
    BY <1>4, <1>5
  <2>2. \A r \in G : \E s \in F : f[s] = r
    BY <1>6
  <2>3. \A s, u \in F : f[s] = f[u] => s = u
    BY <1>5
  <2>4. IsInjective(f)
    BY <1>4, <2>3 DEF IsInjective
  <2> QED BY <2>1, <2>2, <2>4 DEF Surjection, Injection
<1>8. Cardinality(G) = Cardinality(F)
  BY <1>2, <1>7, FS_Surjection
<1> QED BY <1>1, <1>8
=============================================================================
