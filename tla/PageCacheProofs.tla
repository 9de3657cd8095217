---------------------------- MODULE PageCacheProofs ----------------------------
(***************************************************************************)
(* Proofs about PageCache for every catalogue it accepts, every capacity,  *)
(* any number of callers and workers: one page is read by one worker at a  *)
(* time, no page is wedged in _inflight, close leaves no load behind, the  *)
(* bytes that are counted are those of the resident pages and stay within  *)
(* the capacity, and every caller is given the page it asked for.          *)
(***************************************************************************)
EXTENDS PageCache, FiniteSetTheorems, SequenceTheorems, WellFoundedInduction, TLAPS

Future == [page : Pages, phase : {"queued", "reading", "done", "failed"},
           callback : {"none", "attached", "run"}]

Types ==
  /\ cache \in Seq(Pages)
  /\ inflight \in [Pages -> Futures \cup {None}]
  /\ futures \in Seq(Future)
  /\ lock \in Threads \cup {None}
  /\ closed \in BOOLEAN /\ source \in {"open", "closed"}
  /\ thread = [t \in Threads |-> thread[t]]
  /\ answer = [t \in Threads |-> answer[t]]

InStart(t) == thread[t].pc \in {"start", "attach", "stuck"}

(* What a call in _start is about. *)
Starts ==
  \A t \in Threads : InStart(t) =>
    /\ thread[t].op \in {"get", "prefetch"}
    /\ thread[t].todo \in Seq(Pages) /\ thread[t].todo # << >>

(* Until its callback has run, a future is the one that _inflight has for its
   page, and the page is not resident. *)
Tracked ==
  \A f \in Futures :
    /\ Loading(f) => futures[f].callback # "run"
    /\ futures[f].callback # "run" =>
         inflight[futures[f].page] = f /\ ~Resident(futures[f].page)

(* _inflight has only such futures. *)
Pending ==
  \A p \in Pages : inflight[p] # None =>
    futures[inflight[p]].page = p /\ futures[inflight[p]].callback # "run"

(* _lock is held, between two steps, by the thread that submits, for the one
   future without a callback. *)
Locked ==
  /\ \A t \in Threads : lock = t <=> thread[t].pc \in {"attach", "stuck"}
  /\ \A t \in Threads : lock = t => inflight[Wanted(t)] # None
  /\ \A f \in Futures : futures[f].callback = "none" =>
       \E t \in Threads : lock = t /\ inflight[Wanted(t)] = f

(* close has begun: nobody submits any more. *)
Closing ==
  /\ closed => LockFree
  /\ \A t \in Threads : At(t, "closing") => closed
  /\ source = "closed" =>
       closed /\ \A f \in Futures : Finished(f) /\ futures[f].callback = "run"

(* The callers of get: the future a call waits for reads the page it wants. *)
Asking ==
  \A t \in Threads :
    /\ InStart(t) /\ thread[t].op = "get" => Len(thread[t].todo) = 1 /\ thread[t].got = << >>
    /\ At(t, "wait") /\ thread[t].op = "get" /\ thread[t].got # << >> =>
         /\ Head(thread[t].got) \in Futures
         /\ futures[Head(thread[t].got)].page = thread[t].asked
    /\ answer[t].kind = "page" => answer[t].payload = answer[t].page /\ answer[t].page \in Pages

Loads == Types /\ Starts /\ Tracked /\ Pending /\ Locked /\ Closing /\ Asking

(* The resident pages and their bytes. *)
Held ==
  /\ IsInjective(cache)
  /\ resident = Size(cache)
  /\ resident <= Capacity

IInv == Loads /\ Held
-----------------------------------------------------------------------------
(* Induction over the natural numbers *)

(* A set of naturals that is not empty has a least element. *)
LEMMA LeastElement ==
  ASSUME NEW T, T \subseteq Nat, T # {}
  PROVE  \E n \in T : \A m \in T : n <= m
<1> DEFINE Less == {ss \in Nat \X Nat : ss[1] < ss[2]}
<1>1. IsWellFoundedOn(Less, Nat)
  BY NatLessThanWellFounded DEF OpToRel
<1> HIDE DEF Less
<1>2. PICK n \in T : \A m \in T : ~(<<m, n>> \in Less)
  BY <1>1, WFMin
<1>3. \A m \in T : ~(m < n)
  BY <1>2 DEF Less
<1> QED BY <1>3

(* Induction: a set of naturals that holds 0, and n + 1 with n, is Nat. *)
LEMMA NaturalInduction ==
  ASSUME NEW T \in SUBSET Nat, 0 \in T, \A n \in T : n + 1 \in T
  PROVE  T = Nat
<1> SUFFICES ASSUME Nat \ T # {} PROVE FALSE
  OBVIOUS
<1>1. PICK n \in Nat \ T : \A m \in Nat \ T : n <= m
  BY LeastElement
<1>2. n # 0 /\ n - 1 \in Nat /\ ~(n <= n - 1)
  BY <1>1
<1>3. n - 1 \in T
  BY <1>1, <1>2
<1>4. n - 1 + 1 \in T /\ n - 1 + 1 = n
  BY <1>2, <1>3
<1> QED BY <1>1, <1>4

-----------------------------------------------------------------------------
(* The bytes of a sequence of entries *)

SumAt(f, ns, i) == IF i = 0 THEN 0 ELSE f[i - 1] + ns[i]
SumDef(f, ns, n) == f = [i \in 0..n |-> SumAt(f, ns, i)]

(* The recursive function of Summed exists. *)
LEMMA SumExists ==
  ASSUME NEW ns, NEW n \in Nat
  PROVE  \E f : SumDef(f, ns, n)
<1> DEFINE T == {m \in Nat : \E f : \A i \in 0..m : f[i] = SumAt(f, ns, i)}
<1>1. \A f, g, i : i = 0 \/ f[i - 1] = g[i - 1] => SumAt(f, ns, i) = SumAt(g, ns, i)
  BY DEF SumAt
<1>2. 0 \in T
  <2> DEFINE g == [i \in 0..0 |-> SumAt(<< >>, ns, i)]
  <2>1. \A i \in 0..0 : i = 0 /\ g[i] = SumAt(<< >>, ns, i)
    OBVIOUS
  <2> HIDE DEF g
  <2>2. \A i \in 0..0 : g[i] = SumAt(g, ns, i)
    BY <1>1, <2>1
  <2> QED BY <2>2
<1>3. ASSUME NEW m \in T PROVE m + 1 \in T
  <2>1. m \in Nat /\ m + 1 \in Nat
    OBVIOUS
  <2>2. PICK f : \A i \in 0..m : f[i] = SumAt(f, ns, i)
    OBVIOUS
  <2> DEFINE h == [i \in 0..(m + 1) |-> SumAt(f, ns, i)]
  <2>3. \A i \in 0..(m + 1) : h[i] = SumAt(f, ns, i)
    OBVIOUS
  <2> HIDE DEF h
  <2>4. ASSUME NEW i \in 0..(m + 1) PROVE h[i] = SumAt(h, ns, i)
    <3>1. i = 0 \/ (i - 1 \in 0..m /\ i - 1 \in 0..(m + 1))
      BY <2>1
    <3>2. i = 0 \/ h[i - 1] = f[i - 1]
      BY <2>2, <2>3, <3>1
    <3> QED BY <1>1, <2>3, <3>2
  <2> QED BY <2>1, <2>4
<1>4. T = Nat
  <2> HIDE DEF T
  <2>1. T \in SUBSET Nat
    BY DEF T
  <2> QED BY <1>2, <1>3, <2>1, NaturalInduction
<1>5. PICK f : \A i \in 0..n : f[i] = SumAt(f, ns, i)
  BY <1>4, ZenonT(40)
<1> DEFINE h == [i \in 0..n |-> f[i]]
<1>6. \A i \in 0..n : h[i] = f[i]
  OBVIOUS
<1>7. \A i \in 0..n : f[i] = SumAt(h, ns, i)
  <2> SUFFICES ASSUME NEW i \in 0..n PROVE f[i] = SumAt(h, ns, i)
    OBVIOUS
  <2> HIDE DEF h
  <2>1. i = 0 \/ i - 1 \in 0..n
    OBVIOUS
  <2> QED BY <1>1, <1>5, <1>6, <2>1
<1>8. h = [i \in 0..n |-> SumAt(h, ns, i)]
  <2>1. h = [i \in 0..n |-> f[i]]
    OBVIOUS
  <2> HIDE DEF h
  <2> QED BY <1>7, <2>1
<1> HIDE DEF h
<1> QED BY <1>8 DEF SumDef

(* It adds one entry after the other. *)
LEMMA SumSteps ==
  ASSUME NEW M, NEW ns \in Seq(M), NEW f0, f0 = Summed(ns)
  PROVE  /\ f0[0] = 0
         /\ \A i \in 1..Len(ns) : f0[i] = f0[i - 1] + ns[i]
<1>1. PICK f : f = f0 /\ f = Summed(ns)
  OBVIOUS
<1>2. Len(ns) \in Nat
  BY LenProperties
<1>3. f = CHOOSE g : SumDef(g, ns, Len(ns))
  BY <1>1 DEF Summed, SumAt, SumDef
<1>4. SumDef(f, ns, Len(ns))
  <2>1. \E g : SumDef(g, ns, Len(ns))
    BY <1>2, SumExists
  <2> QED BY <1>3, <2>1, Zenon
<1>5. \A i \in 0..Len(ns) : f[i] = SumAt(f, ns, i)
  <2>1. PICK g : g = [i \in 0..Len(ns) |-> SumAt(f, ns, i)]
    OBVIOUS
  <2>2. \A i \in 0..Len(ns) : g[i] = SumAt(f, ns, i)
    BY <2>1
  <2>3. f = g
    BY <1>4, <2>1 DEF SumDef
  <2> QED BY <2>2, <2>3
<1>6. 0 \in 0..Len(ns) /\ \A i \in 1..Len(ns) : i \in 0..Len(ns) /\ i # 0
  BY <1>2
<1>7. f[0] = SumAt(f, ns, 0) /\ \A i \in 1..Len(ns) : f[i] = SumAt(f, ns, i)
  BY <1>5, <1>6
<1>8. /\ SumAt(f, ns, 0) = 0
      /\ \A i : i # 0 => SumAt(f, ns, i) = f[i - 1] + ns[i]
  BY DEF SumAt
<1> QED BY <1>1, <1>6, <1>7, <1>8

(* The sums of the first entries are natural numbers. *)
LEMMA SumsAreNatural ==
  ASSUME NEW ns \in Seq(Nat), NEW f, f = Summed(ns)
  PROVE  \A i \in 0..Len(ns) : f[i] \in Nat
<1> DEFINE T == {m \in Nat : m <= Len(ns) => f[m] \in Nat}
<1>1. f[0] = 0 /\ \A i \in 1..Len(ns) : f[i] = f[i - 1] + ns[i]
  BY SumSteps
<1>2. Len(ns) \in Nat /\ \A i \in 1..Len(ns) : ns[i] \in Nat
  BY LenProperties, ElementOfSeq
<1>3. ASSUME NEW m \in T PROVE m + 1 \in T
  <2> SUFFICES ASSUME m + 1 <= Len(ns) PROVE f[m + 1] \in Nat
    OBVIOUS
  <2>1. m + 1 \in 1..Len(ns) /\ m + 1 - 1 = m /\ f[m] \in Nat
    BY <1>2
  <2> QED BY <1>1, <1>2, <2>1
<1>4. T = Nat
  <2>1. 0 \in T /\ T \in SUBSET Nat
    BY <1>1
  <2> HIDE DEF T
  <2> QED BY <1>3, <2>1, NaturalInduction
<1> QED BY <1>2, <1>4

(* The total of two sequences, one after the other, is the sum of theirs. *)
LEMMA TotalOfParts ==
  ASSUME NEW s \in Seq(Nat), NEW a \in Seq(Nat), NEW b \in Seq(Nat),
         Len(s) = Len(a) + Len(b),
         \A i \in 1..Len(a) : s[i] = a[i],
         \A i \in 1..Len(b) : s[Len(a) + i] = b[i]
  PROVE  /\ Total(s) = Total(a) + Total(b)
         /\ Total(s) \in Nat /\ Total(a) \in Nat /\ Total(b) \in Nat
<1>1. PICK f, g, h, m, n : f = Summed(s) /\ g = Summed(a) /\ h = Summed(b)
                           /\ m = Len(a) /\ n = Len(b)
  OBVIOUS
<1>2. m \in Nat /\ n \in Nat /\ Len(s) = m + n
  BY <1>1, LenProperties
<1>3. /\ f[0] = 0 /\ \A i \in 1..(m + n) : f[i] = f[i - 1] + s[i]
      /\ \A i \in 0..(m + n) : f[i] \in Nat
  <2>1. f[0] = 0 /\ \A i \in 1..Len(s) : f[i] = f[i - 1] + s[i]
    BY <1>1, SumSteps
  <2>2. \A i \in 0..Len(s) : f[i] \in Nat
    BY <1>1, SumsAreNatural
  <2> QED BY <1>2, <2>1, <2>2
<1>4. /\ g[0] = 0 /\ \A i \in 1..m : g[i] = g[i - 1] + a[i]
      /\ \A i \in 0..m : g[i] \in Nat
  <2>1. g[0] = 0 /\ \A i \in 1..Len(a) : g[i] = g[i - 1] + a[i]
    BY <1>1, SumSteps
  <2>2. \A i \in 0..Len(a) : g[i] \in Nat
    BY <1>1, SumsAreNatural
  <2> QED BY <1>1, <2>1, <2>2
<1>5. /\ h[0] = 0 /\ \A i \in 1..n : h[i] = h[i - 1] + b[i]
      /\ \A i \in 0..n : h[i] \in Nat
  <2>1. h[0] = 0 /\ \A i \in 1..Len(b) : h[i] = h[i - 1] + b[i]
    BY <1>1, SumSteps
  <2>2. \A i \in 0..Len(b) : h[i] \in Nat
    BY <1>1, SumsAreNatural
  <2> QED BY <1>1, <2>1, <2>2
<1>6. f[m] = g[m]
  <2> DEFINE T == {i \in Nat : i <= m => f[i] = g[i]}
  <2>1. ASSUME NEW i \in T PROVE i + 1 \in T
    <3> SUFFICES ASSUME i + 1 <= m PROVE f[i + 1] = g[i + 1]
      OBVIOUS
    <3>1. i + 1 \in 1..m /\ i + 1 \in 1..(m + n) /\ i + 1 - 1 = i /\ f[i] = g[i]
      BY <1>2
    <3>2. s[i + 1] = a[i + 1]
      BY <1>1, <3>1
    <3> QED BY <1>3, <1>4, <3>1, <3>2
  <2>2. 0 \in T /\ T \in SUBSET Nat
    BY <1>3, <1>4
  <2>3. T = Nat
    <3> HIDE DEF T
    <3> QED BY <2>1, <2>2, NaturalInduction
  <2>4. m \in T
    BY <1>2, <2>3
  <2> QED BY <2>4
<1>7. f[m + n] = f[m] + h[n]
  <2> DEFINE T == {i \in Nat : i <= n => f[m + i] = f[m] + h[i]}
  <2>1. ASSUME NEW i \in T PROVE i + 1 \in T
    <3> SUFFICES ASSUME i + 1 <= n PROVE f[m + (i + 1)] = f[m] + h[i + 1]
      OBVIOUS
    <3>1. i \in Nat /\ f[m + i] = f[m] + h[i]
      BY <1>2
    <3>2. PICK j, k : j = i + 1 /\ k = m + j
      OBVIOUS
    <3>3. /\ j \in 1..n /\ j - 1 = i /\ i \in 0..n
          /\ k \in 1..(m + n) /\ k - 1 = m + i /\ m \in 0..(m + n)
      BY <1>2, <3>1, <3>2
    <3>4. s[k] = b[j]
      BY <1>1, <3>2, <3>3
    <3>5. f[k] = f[m + i] + b[j]
      BY <1>3, <3>3, <3>4
    <3>6. h[j] = h[i] + b[j]
      BY <1>5, <3>3
    <3>7. f[m] \in Nat /\ h[i] \in Nat
      BY <1>3, <1>5, <3>3
    <3>8. b[j] \in Nat
      BY <1>1, <3>3, ElementOfSeq
    <3>9. PICK u, v, w : u = f[m] /\ v = h[i] /\ w = b[j]
      OBVIOUS
    <3>10. (u + v) + w = u + (v + w)
      <4>1. u \in Nat /\ v \in Nat /\ w \in Nat
        BY <3>7, <3>8, <3>9
      <4> QED BY <4>1
    <3>11. f[k] = (u + v) + w /\ h[j] = v + w
      BY <3>1, <3>5, <3>6, <3>9
    <3> QED BY <3>2, <3>9, <3>10, <3>11
  <2>2. 0 \in T /\ T \in SUBSET Nat
    <3>1. m \in 0..(m + n) /\ m + 0 = m
      BY <1>2
    <3> QED BY <1>3, <1>5, <3>1
  <2>3. T = Nat
    <3> HIDE DEF T
    <3> QED BY <2>1, <2>2, NaturalInduction
  <2>4. n \in T
    BY <1>2, <2>3
  <2> QED BY <2>4
<1>8. /\ Total(s) = f[m + n] /\ Total(a) = g[m] /\ Total(b) = h[n]
  BY <1>1, <1>2 DEF Total
<1>9. f[m + n] \in Nat /\ g[m] \in Nat /\ h[n] \in Nat
  <2>1. m + n \in 0..(m + n) /\ m \in 0..m /\ n \in 0..n
    BY <1>2
  <2> QED BY <1>3, <1>4, <1>5, <2>1
<1> QED BY <1>6, <1>7, <1>8, <1>9

(* The total of one entry, and of none. *)
LEMMA TotalOfFew ==
  /\ Total(<< >>) = 0
  /\ \A x \in Nat : Total(<<x>>) = x
<1>1. Total(<< >>) = 0
  <2>1. PICK e : e = << >>
    OBVIOUS
  <2>2. e \in Seq(Nat) /\ Len(e) = 0
    BY <2>1
  <2>3. PICK f : f = Summed(e)
    OBVIOUS
  <2>4. f[0] = 0
    BY <2>2, <2>3, SumSteps
  <2> QED BY <2>1, <2>2, <2>3, <2>4 DEF Total
<1>2. ASSUME NEW x \in Nat PROVE Total(<<x>>) = x
  <2>1. PICK e : e = <<x>>
    OBVIOUS
  <2>2. e \in Seq(Nat) /\ Len(e) = 1 /\ e[1] = x
    BY <2>1
  <2>3. PICK f : f = Summed(e)
    OBVIOUS
  <2>4. f[0] = 0 /\ \A i \in 1..Len(e) : f[i] = f[i - 1] + e[i]
    BY <2>2, <2>3, SumSteps
  <2>5. 1 \in 1..Len(e) /\ 1 - 1 = 0
    BY <2>2
  <2>6. f[1] = 0 + x
    BY <2>2, <2>4, <2>5
  <2> QED BY <2>1, <2>2, <2>3, <2>6 DEF Total
<1> QED BY <1>1, <1>2


-----------------------------------------------------------------------------
(* The callers *)

(* None is neither a thread nor a future. *)
LEMMA NotAThread == None \notin Threads /\ None \notin Nat
BY PageCacheAssumption

(* The futures of a typed state are numbered from 1. *)
LEMMA FuturesOfCache ==
  ASSUME Types
  PROVE  /\ Futures = 1..Len(futures) /\ Len(futures) \in Nat
         /\ \A f \in Futures : futures[f] \in Future /\ f \in Nat
  BY LenProperties, ElementOfSeq DEF Types, Futures

(* A caller that does not hold the lock goes on: the table is as it was, but
   for the order of the resident pages. *)
LEMMA CallerMoves ==
  ASSUME Loads, NEW t \in Threads, NEW x, NEW a,
         UNCHANGED <<inflight, futures, lock>>,
         closed' \in BOOLEAN, source' \in {"open", "closed"}, closed => closed',
         closed' => LockFree,
         source' = "closed" =>
           closed' /\ \A f \in Futures : Finished(f) /\ futures[f].callback = "run",
         cache' \in Seq(Pages), \A p \in Pages : Resident(p)' <=> Resident(p),
         lock # t,
         thread' = [thread EXCEPT ![t] = x], answer' = [answer EXCEPT ![t] = a],
         x.pc \in {"idle", "start", "wait", "closing"},
         x.pc = "start" =>
           /\ x.op \in {"get", "prefetch"} /\ x.todo \in Seq(Pages) /\ x.todo # << >>
           /\ x.op = "get" => Len(x.todo) = 1 /\ x.got = << >>,
         x.pc = "closing" => closed',
         x.pc = "wait" /\ x.op = "get" /\ x.got # << >> =>
           Head(x.got) \in Futures /\ futures[Head(x.got)].page = x.asked,
         a.kind = "page" => a.payload = a.page /\ a.page \in Pages
  PROVE  Loads'
<1>1. Types'
  BY DEF Loads, Types, Futures
<1>2. /\ thread'[t] = x /\ answer'[t] = a
      /\ \A u \in Threads \ {t} : thread'[u] = thread[u] /\ answer'[u] = answer[u]
  BY DEF Loads, Types
<1>3. Starts'
  BY <1>2 DEF Loads, Starts, InStart
<1>4. Tracked'
  <2>1. \A f \in Futures : futures[f].page \in Pages
    BY FuturesOfCache DEF Loads, Future
  <2> QED BY <2>1 DEF Loads, Tracked, Futures, Loading
<1>5. Pending'
  BY DEF Loads, Pending
<1>6. Locked'
  <2>1. \A u \in Threads : lock = u => thread'[u] = thread[u]
    BY <1>2
  <2>2. \A u \in Threads : lock' = u <=> thread'[u].pc \in {"attach", "stuck"}
    BY <1>2 DEF Loads, Locked
  <2> QED BY <2>1, <2>2 DEF Loads, Locked, Futures, Wanted
<1>7. Closing'
  BY <1>2 DEF Loads, Closing, LockFree, At, Finished, Futures
<1>8. Asking'
  <2> SUFFICES ASSUME NEW u \in Threads
               PROVE  /\ InStart(u)' /\ thread'[u].op = "get" =>
                           Len(thread'[u].todo) = 1 /\ thread'[u].got = << >>
                      /\ At(u, "wait")' /\ thread'[u].op = "get" /\ thread'[u].got # << >> =>
                           /\ Head(thread'[u].got) \in Futures'
                           /\ futures'[Head(thread'[u].got)].page = thread'[u].asked
                      /\ answer'[u].kind = "page" =>
                           answer'[u].payload = answer'[u].page /\ answer'[u].page \in Pages
    BY DEF Asking
  <2>1. CASE u = t
    BY <1>2, <2>1 DEF InStart, At, Futures
  <2>2. CASE u # t
    BY <1>2, <2>2 DEF Loads, Asking, InStart, At, Futures
  <2> QED BY <2>1, <2>2
<1> QED BY <1>1, <1>3, <1>4, <1>5, <1>6, <1>7, <1>8 DEF Loads

(* Where a call goes after _start has dealt with one page. *)
LEMMA ContinuesTo ==
  ASSUME Loads, NEW t \in Threads, InStart(t), NEW got, Continues(t, got)
  PROVE  \E x, a :
           /\ thread' = [thread EXCEPT ![t] = x] /\ answer' = [answer EXCEPT ![t] = a]
           /\ x.pc \in {"idle", "start", "wait"}
           /\ x.pc = "start" => /\ x.op = "prefetch" /\ x.todo \in Seq(Pages) /\ x.todo # << >>
           /\ x.pc = "wait" => /\ x.op = thread[t].op /\ x.got = got /\ x.asked = Wanted(t)
           /\ a = answer[t] \/ a = Scheduled
<1>1. PICK here, p : here = thread[t] /\ p = Head(here.todo)
  OBVIOUS
<1>2. /\ here.op \in {"get", "prefetch"} /\ here.todo \in Seq(Pages) /\ here.todo # << >>
      /\ here.op = "get" => Len(here.todo) = 1
  BY <1>1 DEF Loads, Starts, Asking
<1>3. answer = [answer EXCEPT ![t] = answer[t]]
  BY DEF Loads, Types
<1>4. CASE Len(here.todo) > 1
  <2>1. PICK x : x = Starting(here.op, Tail(here.todo), got)
    OBVIOUS
  <2>2. thread' = [thread EXCEPT ![t] = x] /\ answer' = answer
    BY <1>1, <1>4, <2>1 DEF Continues
  <2>3. Tail(here.todo) \in Seq(Pages) /\ Tail(here.todo) # << >>
    <3>1. Tail(here.todo) \in Seq(Pages) /\ Len(Tail(here.todo)) = Len(here.todo) - 1
      BY <1>2, HeadTailProperties
    <3>2. Len(here.todo) \in Nat
      BY <1>2, LenProperties
    <3>3. Len(Tail(here.todo)) # 0
      <4>1. PICK n, m : n = Len(here.todo) /\ m = Len(Tail(here.todo))
        OBVIOUS
      <4>2. n \in Nat /\ n > 1 /\ m = n - 1
        BY <1>4, <3>1, <3>2, <4>1
      <4>3. m # 0
        BY <4>2
      <4> QED BY <4>1, <4>3
    <3> QED BY <3>1, <3>3, EmptySeq
  <2>4. x.pc = "start" /\ x.op = "prefetch" /\ x.todo \in Seq(Pages) /\ x.todo # << >>
    BY <1>2, <1>4, <2>1, <2>3 DEF Starting
  <2> QED BY <1>3, <2>2, <2>4
<1>5. CASE ~(Len(here.todo) > 1)
  <2>1. \/ thread' = [thread EXCEPT ![t] = Waiting(here.op, p, got)] /\ answer' = answer
        \/ Ends(t, Scheduled)
    BY <1>1, <1>5 DEF Continues
  <2>2. CASE thread' = [thread EXCEPT ![t] = Waiting(here.op, p, got)] /\ answer' = answer
    <3>1. PICK x : x = Waiting(here.op, p, got)
      OBVIOUS
    <3>2. x.pc = "wait" /\ x.op = here.op /\ x.got = got /\ x.asked = p
      BY <3>1 DEF Waiting
    <3> QED BY <1>1, <1>3, <2>2, <3>1, <3>2 DEF Wanted
  <2>3. CASE Ends(t, Scheduled)
    <3>1. PICK x, a : x = Idle /\ a = Scheduled
      OBVIOUS
    <3>2. thread' = [thread EXCEPT ![t] = x] /\ answer' = [answer EXCEPT ![t] = a] /\ x.pc = "idle"
      BY <2>3, <3>1 DEF Ends, Idle
    <3> QED BY <3>1, <3>2
  <2> QED BY <2>1, <2>2, <2>3
<1> QED BY <1>4, <1>5

(* What a call that leaves _start or wait has to show for itself. *)
LEMMA StepOfCaller ==
  ASSUME Loads, NEW t \in Threads, UNCHANGED <<table, state, lock, futures>>,
         NEW x, NEW a, lock # t,
         thread' = [thread EXCEPT ![t] = x], answer' = [answer EXCEPT ![t] = a],
         x.pc \in {"idle", "start", "wait"},
         x.pc = "start" =>
           /\ x.op \in {"get", "prefetch"} /\ x.todo \in Seq(Pages) /\ x.todo # << >>
           /\ x.op = "get" => Len(x.todo) = 1 /\ x.got = << >>,
         x.pc = "wait" /\ x.op = "get" /\ x.got # << >> =>
           Head(x.got) \in Futures /\ futures[Head(x.got)].page = x.asked,
         a.kind = "page" => a.payload = a.page /\ a.page \in Pages
  PROVE  Loads'
<1>1. /\ UNCHANGED <<cache, inflight, closed, source>>
      /\ cache' \in Seq(Pages) /\ \A p \in Pages : Resident(p)' <=> Resident(p)
  BY DEF Loads, Types, table, state, Resident
<1>2. /\ closed' \in BOOLEAN /\ source' \in {"open", "closed"} /\ (closed => closed')
      /\ closed' => LockFree
      /\ source' = "closed" =>
           closed' /\ \A f \in Futures : Finished(f) /\ futures[f].callback = "run"
  BY <1>1 DEF Loads, Types, Closing
<1>3. UNCHANGED <<inflight, futures, lock>>
  BY <1>1
<1> QED BY <1>1, <1>2, <1>3, CallerMoves

(* A page is resident when it is an entry of the cache. *)
LEMMA ResidentPages ==
  ASSUME Types, NEW p
  PROVE  /\ Resident(p) <=> \E i \in DOMAIN cache : cache[i] = p
         /\ DOMAIN cache = 1..Len(cache) /\ Len(cache) \in Nat
         /\ Resident(p) <=> p \in ToSet(cache)
<1>1. DOMAIN cache = 1..Len(cache) /\ Len(cache) \in Nat
  BY LenProperties DEF Types
<1> QED BY <1>1 DEF Resident, Contains, ToSet

(* move_to_end changes the order of the pages only. *)
LEMMA MovedToEnd ==
  ASSUME Types, NEW p \in Pages, Resident(p)
  PROVE  /\ MoveToEnd(p) \in Seq(Pages)
         /\ ToSet(MoveToEnd(p)) = ToSet(cache)
         /\ IsInjective(cache) => IsInjective(MoveToEnd(p))
<1>1. PICK i : i = CHOOSE j \in DOMAIN cache : cache[j] = p
  OBVIOUS
<1>2. PICK n : n = Len(cache)
  OBVIOUS
<1>3. /\ i \in 1..n /\ cache[i] = p /\ DOMAIN cache = 1..n /\ n \in Nat
      /\ cache \in Seq(Pages) /\ \A j \in 1..n : cache[j] \in Pages
  BY <1>1, <1>2, ResidentPages, ElementOfSeq DEF Types
<1>4. PICK a, b : a = SubSeq(cache, 1, i - 1) /\ b = SubSeq(cache, i + 1, n)
  OBVIOUS
<1>5. /\ a \in Seq(Pages) /\ Len(a) = i - 1 /\ \A j \in 1..(i - 1) : a[j] = cache[j]
  BY <1>2, <1>3, <1>4
<1>6. /\ b \in Seq(Pages) /\ Len(b) = n - i /\ \A j \in 1..(n - i) : b[j] = cache[i + j]
  BY <1>2, <1>3, <1>4
<1>7. PICK c : c = a \o b
  OBVIOUS
<1>8. /\ c \in Seq(Pages) /\ Len(c) = n - 1
      /\ \A j \in 1..(n - 1) : c[j] = IF j < i THEN cache[j] ELSE cache[j + 1]
  BY <1>3, <1>5, <1>6, <1>7, SMTT(30)
<1>9. PICK m : m = Append(c, p)
  OBVIOUS
<1>10. /\ m \in Seq(Pages) /\ Len(m) = n /\ m[n] = p
       /\ \A j \in 1..(n - 1) : m[j] = IF j < i THEN cache[j] ELSE cache[j + 1]
  BY <1>3, <1>8, <1>9
<1>11. m = MoveToEnd(p)
  BY <1>1, <1>2, <1>4, <1>7, <1>9 DEF MoveToEnd, RemoveAt
<1>12. DOMAIN m = 1..n
  BY <1>10, LenProperties
<1>13. ToSet(m) = ToSet(cache)
  <2>1. \A j \in 1..n : \E k \in 1..n : m[j] = cache[k]
    BY <1>3, <1>10
  <2>2. \A k \in 1..n : \E j \in 1..n : m[j] = cache[k]
    <3> SUFFICES ASSUME NEW k \in 1..n PROVE \E j \in 1..n : m[j] = cache[k]
      OBVIOUS
    <3>1. CASE k < i
      <4>1. k \in 1..(n - 1) /\ k \in 1..n
        BY <1>3, <3>1
      <4>2. m[k] = cache[k]
        BY <1>10, <3>1, <4>1
      <4> QED BY <4>1, <4>2
    <3>2. CASE k = i
      <4>1. n \in 1..n
        BY <1>3
      <4> QED BY <1>3, <1>10, <3>2, <4>1
    <3>3. CASE k > i
      <4>1. k - 1 \in 1..(n - 1) /\ k - 1 \in 1..n /\ ~(k - 1 < i) /\ (k - 1) + 1 = k
        BY <1>3, <3>3
      <4>2. m[k - 1] = cache[k]
        BY <1>10, <4>1
      <4> QED BY <4>1, <4>2
    <3> QED BY <1>3, <3>1, <3>2, <3>3
  <2>3. ToSet(m) = {m[j] : j \in 1..n} /\ ToSet(cache) = {cache[k] : k \in 1..n}
    BY <1>3, <1>12 DEF ToSet
  <2> QED BY <2>1, <2>2, <2>3
<1>14. ASSUME IsInjective(cache)
       PROVE  IsInjective(m)
  <2>1. \A j, k \in 1..n : cache[j] = cache[k] => j = k
    BY <1>3, <1>14 DEF IsInjective
  <2> SUFFICES ASSUME NEW j \in 1..n, NEW k \in 1..n, m[j] = m[k]
               PROVE  j = k
    BY <1>12 DEF IsInjective
  <2>2. PICK f : f = [l \in 1..n |-> IF l = n THEN i ELSE IF l < i THEN l ELSE l + 1]
    OBVIOUS
  <2>3. \A l \in 1..n : f[l] \in 1..n /\ m[l] = cache[f[l]]
    <3> SUFFICES ASSUME NEW l \in 1..n PROVE f[l] \in 1..n /\ m[l] = cache[f[l]]
      OBVIOUS
    <3>1. CASE l = n
      BY <1>3, <1>10, <2>2, <3>1
    <3>2. CASE l # n
      <4>1. l \in 1..(n - 1)
        BY <1>3, <3>2
      <4> QED BY <1>3, <1>10, <2>2, <3>2, <4>1
    <3> QED BY <3>1, <3>2
  <2>4. f[j] = f[k]
    BY <2>1, <2>3
  <2> QED BY <1>3, <2>2, <2>4
<1> QED BY <1>10, <1>11, <1>13, <1>14

(* Looking a page up or prefetching pages disturbs no load that is under
   way. *)
LEMMA CallsKeepLoads ==
  ASSUME Loads, NEW t \in Threads,
         (\E p \in Pages : GetHit(t, p) \/ GetMiss(t, p)) \/ \E keys \in Prefetches : Prefetch(t, keys)
  PROVE  Loads'
<1>1. lock # t
  BY NotAThread DEF GetHit, GetMiss, Prefetch, LockFree
<1>2. ASSUME NEW p \in Pages, GetHit(t, p)
      PROVE  Loads'
  <2>1. /\ UNCHANGED <<inflight, futures, lock, closed, source>> /\ Resident(p)
        /\ cache' = MoveToEnd(p) /\ Ends(t, Returned(p, p))
    BY <1>2 DEF GetHit, state
  <2>2. PICK x, a : x = Idle /\ a = Returned(p, p)
    OBVIOUS
  <2>3. /\ thread' = [thread EXCEPT ![t] = x] /\ answer' = [answer EXCEPT ![t] = a]
        /\ x.pc = "idle" /\ a.payload = a.page /\ a.page \in Pages
    BY <2>1, <2>2 DEF Ends, Idle, Returned
  <2>4. cache' \in Seq(Pages) /\ ToSet(cache') = ToSet(cache)
    BY <2>1, MovedToEnd DEF Loads
  <2>5. \A q \in Pages : Resident(q)' <=> Resident(q)
    <3>1. DOMAIN cache' = 1..Len(cache')
      BY <2>4, LenProperties
    <3> QED BY <2>4, <3>1, ResidentPages DEF Loads, Resident, Contains, ToSet
  <2>6. /\ closed' \in BOOLEAN /\ source' \in {"open", "closed"} /\ (closed => closed')
        /\ closed' => LockFree
        /\ source' = "closed" =>
             closed' /\ \A f \in Futures : Finished(f) /\ futures[f].callback = "run"
    BY <2>1 DEF Loads, Types, Closing
  <2>7. UNCHANGED <<inflight, futures, lock>>
    BY <2>1
  <2> QED BY <1>1, <2>3, <2>4, <2>5, <2>6, <2>7, CallerMoves
<1>3. ASSUME NEW keys \in Seq(Pages) \ {<< >>}, NEW op \in {"get", "prefetch"},
             op = "get" => Len(keys) = 1,
             Begins(t, Starting(op, keys, << >>)), UNCHANGED <<table, state, lock, futures>>
      PROVE  Loads'
  <2>1. PICK x, a : x = Starting(op, keys, << >>) /\ a = Scheduled
    OBVIOUS
  <2>2. /\ thread' = [thread EXCEPT ![t] = x] /\ answer' = [answer EXCEPT ![t] = a]
        /\ x.pc = "start" /\ x.op = op /\ x.todo = keys /\ x.got = << >> /\ a.kind # "page"
    BY <1>3, <2>1 DEF Begins, Starting, Scheduled
  <2> QED BY <1>1, <1>3, <2>2, StepOfCaller
<1>4. ASSUME NEW p \in Pages, GetMiss(t, p)
      PROVE  Loads'
  <2>1. PICK keys : keys = <<p>>
    OBVIOUS
  <2>2. keys \in Seq(Pages) \ {<< >>} /\ Len(keys) = 1
    BY <2>1
  <2> QED BY <1>3, <1>4, <2>1, <2>2 DEF GetMiss
<1>5. ASSUME NEW keys \in Prefetches, Prefetch(t, keys)
      PROVE  Loads'
  <2>1. keys \in Seq(Pages) \ {<< >>}
    BY PageCacheAssumption DEF Pages
  <2> QED BY <1>3, <1>5, <2>1 DEF Prefetch
<1> QED BY <1>2, <1>4, <1>5

(* The steps of a caller that neither submits nor closes. *)
LEMMA CallerKeepsLoads ==
  ASSUME Loads, NEW t \in Threads,
         StartRefused(t) \/ StartResident(t) \/ StartJoins(t) \/ Waits(t) \/ WaitEnds(t)
  PROVE  Loads'
<1>1. lock # t /\ UNCHANGED <<table, state, lock, futures>>
  BY NotAThread
  DEF StartRefused, StartResident, StartJoins, Waits, WaitEnds, LockFree, At, Loads, Locked
<1>2. ASSUME NEW a, Ends(t, a), a.kind = "page" => a.payload = a.page /\ a.page \in Pages
      PROVE  Loads'
  <2>1. PICK x : x = Idle
    OBVIOUS
  <2>2. thread' = [thread EXCEPT ![t] = x] /\ answer' = [answer EXCEPT ![t] = a] /\ x.pc = "idle"
    BY <1>2, <2>1 DEF Ends, Idle
  <2> QED BY <1>1, <1>2, <2>2, StepOfCaller
<1>3. ASSUME Ends(t, Raised) \/ Ends(t, Scheduled)
      PROVE  Loads'
  <2>1. Raised.kind # "page" /\ Scheduled.kind # "page"
    BY DEF Raised, Scheduled
  <2> QED BY <1>2, <1>3, <2>1
<1>4. ASSUME NEW p \in Pages, NEW q, Ends(t, Returned(p, q)), p = q
      PROVE  Loads'
  <2>1. PICK a : a = Returned(p, q)
    OBVIOUS
  <2>2. a.payload = a.page /\ a.page \in Pages
    BY <1>4, <2>1 DEF Returned
  <2> QED BY <1>2, <1>4, <2>1, <2>2
<1>5. ASSUME NEW got, At(t, "start"), Continues(t, got),
             thread[t].op = "get" /\ got # << >> =>
               Head(got) \in Futures /\ futures[Head(got)].page = Wanted(t)
      PROVE  Loads'
  <2>1. InStart(t)
    BY <1>5 DEF InStart, At
  <2>2. PICK x, a :
          /\ thread' = [thread EXCEPT ![t] = x] /\ answer' = [answer EXCEPT ![t] = a]
          /\ x.pc \in {"idle", "start", "wait"}
          /\ x.pc = "start" => /\ x.op = "prefetch" /\ x.todo \in Seq(Pages) /\ x.todo # << >>
          /\ x.pc = "wait" => /\ x.op = thread[t].op /\ x.got = got /\ x.asked = Wanted(t)
          /\ a = answer[t] \/ a = Scheduled
    BY <1>5, <2>1, ContinuesTo
  <2>3. a.kind = "page" => a.payload = a.page /\ a.page \in Pages
    BY <2>2 DEF Loads, Asking, Scheduled
  <2>4. x.pc = "wait" /\ x.op = "get" /\ x.got # << >> =>
          Head(x.got) \in Futures /\ futures[Head(x.got)].page = x.asked
    BY <1>5, <2>2
  <2> QED BY <1>1, <2>2, <2>3, <2>4, StepOfCaller
<1>6. CASE StartRefused(t)
  BY <1>3, <1>6 DEF StartRefused
<1>7. CASE StartResident(t)
  <2>1. CASE thread[t].op = "get"
    <3>1. PICK p : p = Wanted(t)
      OBVIOUS
    <3>2. p \in Pages
      <4>1. thread[t].todo \in Seq(Pages) /\ thread[t].todo # << >>
        BY <1>7 DEF Loads, Starts, InStart, At, StartResident
      <4> QED BY <3>1, <4>1, HeadTailProperties DEF Wanted
    <3> QED BY <1>4, <1>7, <2>1, <3>1, <3>2 DEF StartResident
  <2>2. CASE thread[t].op # "get"
    BY <1>5, <1>7, <2>2 DEF StartResident
  <2> QED BY <2>1, <2>2
<1>8. CASE StartJoins(t)
  <2>1. PICK f, got : f = inflight[Wanted(t)] /\ got = Append(thread[t].got, f)
    OBVIOUS
  <2>2. At(t, "start") /\ Continues(t, got) /\ f # None
    BY <1>8, <2>1 DEF StartJoins, Joinable
  <2>3. Wanted(t) \in Pages
    <3>1. thread[t].todo \in Seq(Pages) /\ thread[t].todo # << >>
      BY <2>2 DEF Loads, Starts, InStart, At
    <3> QED BY <3>1, HeadTailProperties DEF Wanted
  <2>4. f \in Futures /\ futures[f].page = Wanted(t)
    BY <2>1, <2>2, <2>3 DEF Loads, Types, Pending
  <2>5. thread[t].op = "get" => Head(got) = f
    <3>1. ASSUME thread[t].op = "get" PROVE Head(got) = f
      <4>1. thread[t].got = << >>
        BY <2>2, <3>1 DEF Loads, Asking, InStart, At
      <4> QED BY <2>1, <4>1
    <3> QED BY <3>1
  <2> QED BY <1>5, <2>2, <2>4, <2>5
<1>9. CASE Waits(t)
  <2>1. PICK f, here : here = thread[t] /\ f = Head(here.got)
    OBVIOUS
  <2>2. /\ here.pc = "wait" /\ here.got # << >>
        /\ CASE futures[f].phase = "failed" -> Ends(t, Raised)
             [] here.op = "get" -> Ends(t, Returned(here.asked, futures[f].page))
             [] OTHER -> thread' = [thread EXCEPT ![t].got = Tail(@)] /\ UNCHANGED answer
    BY <1>9, <2>1 DEF Waits, At
  <2>3. CASE Ends(t, Raised)
    BY <1>3, <2>3
  <2>4. CASE here.op = "get" /\ Ends(t, Returned(here.asked, futures[f].page))
    <3>1. here.asked = futures[f].page /\ f \in Futures
      BY <2>1, <2>2, <2>4 DEF Loads, Asking, At
    <3>2. here.asked \in Pages
      BY <3>1, FuturesOfCache DEF Loads, Future
    <3> QED BY <1>4, <2>4, <3>1, <3>2
  <2>5. CASE /\ here.op # "get"
             /\ thread' = [thread EXCEPT ![t].got = Tail(@)] /\ UNCHANGED answer
    <3>1. PICK x, a : x = [here EXCEPT !.got = Tail(@)] /\ a = answer[t]
      OBVIOUS
    <3>2. /\ thread' = [thread EXCEPT ![t] = x] /\ answer' = [answer EXCEPT ![t] = a]
          /\ x.pc = "wait" /\ x.op # "get" /\ (a.kind = "page" => a.payload = a.page /\ a.page \in Pages)
      BY <2>1, <2>2, <2>5, <3>1 DEF Loads, Types, Asking
    <3> QED BY <1>1, <3>2, StepOfCaller
  <2> QED BY <2>2, <2>3, <2>4, <2>5
<1>10. CASE WaitEnds(t)
  BY <1>3, <1>10 DEF WaitEnds
<1> QED BY <1>6, <1>7, <1>8, <1>9, <1>10

-----------------------------------------------------------------------------
(* The resident pages *)

(* The sizes of pages are natural numbers. *)
LEMMA PageSizes == \A p \in Pages : PageSize[p] \in Nat /\ Bytes(p) \in Nat
<1> SUFFICES ASSUME NEW p \in Pages PROVE PageSize[p] \in Nat
  BY DEF Bytes
<1>1. PICK spans : spans = Entries[p]
  OBVIOUS
<1>2. spans \in Seq(ValidSpan(FileSize))
  BY <1>1, PageCacheAssumption DEF Buildable, Entries, Pages
<1>3. DOMAIN spans = 1..Len(spans) /\ Len(spans) \in Nat
      /\ \A i \in DOMAIN spans : spans[i] \in ValidSpan(FileSize)
  BY <1>2, LenProperties, ElementOfSeq
<1>4. PICK ns : ns = [i \in DOMAIN spans |-> spans[i].length]
  OBVIOUS
<1>5. ns \in Seq(Nat)
  BY <1>3, <1>4 DEF ValidSpan
<1>6. Total(ns) \in Nat
  <2>1. PICK f : f = Summed(ns)
    OBVIOUS
  <2>2. Len(ns) \in 0..Len(ns)
    BY <1>5, LenProperties
  <2> QED BY <1>5, <2>1, <2>2, SumsAreNatural DEF Total
<1> QED BY <1>1, <1>4, <1>6 DEF PageSize, NBytes

(* The sizes of the pages of a sequence. *)
Sizes(s) == [i \in DOMAIN s |-> PageSize[s[i]]]
LEMMA SizesOf ==
  ASSUME NEW s \in Seq(Pages)
  PROVE  /\ Sizes(s) \in Seq(Nat) /\ Len(Sizes(s)) = Len(s)
         /\ \A i \in 1..Len(s) : Sizes(s)[i] = PageSize[s[i]]
         /\ Size(s) = Total(Sizes(s))
<1>1. DOMAIN s = 1..Len(s) /\ Len(s) \in Nat /\ \A i \in 1..Len(s) : s[i] \in Pages
  BY LenProperties, ElementOfSeq
<1>2. \A i \in 1..Len(s) : PageSize[s[i]] \in Nat
  BY <1>1, PageSizes
<1>3. Sizes(s) = [i \in 1..Len(s) |-> PageSize[s[i]]]
  BY <1>1 DEF Sizes
<1> QED BY <1>1, <1>2, <1>3 DEF Size, Sizes

(* The bytes of two sequences of pages, one after the other. *)
LEMMA SizeOfTwo ==
  ASSUME NEW s \in Seq(Pages), NEW a \in Seq(Pages), NEW b \in Seq(Pages),
         Len(s) = Len(a) + Len(b),
         \A i \in 1..Len(a) : s[i] = a[i],
         \A i \in 1..Len(b) : s[Len(a) + i] = b[i]
  PROVE  Size(s) = Size(a) + Size(b) /\ Size(s) \in Nat /\ Size(a) \in Nat /\ Size(b) \in Nat
<1>1. PICK x, y, z : x = Sizes(s) /\ y = Sizes(a) /\ z = Sizes(b)
  OBVIOUS
<1>2. /\ x \in Seq(Nat) /\ y \in Seq(Nat) /\ z \in Seq(Nat)
      /\ Len(x) = Len(s) /\ Len(y) = Len(a) /\ Len(z) = Len(b)
      /\ Size(s) = Total(x) /\ Size(a) = Total(y) /\ Size(b) = Total(z)
  BY <1>1, SizesOf
<1>3. /\ \A i \in 1..Len(s) : x[i] = PageSize[s[i]]
      /\ \A i \in 1..Len(a) : y[i] = PageSize[a[i]]
      /\ \A i \in 1..Len(b) : z[i] = PageSize[b[i]]
  BY <1>1, SizesOf
<1>4. Len(s) \in Nat /\ Len(a) \in Nat /\ Len(b) \in Nat
  BY LenProperties
<1>5. Len(x) = Len(y) + Len(z)
  BY <1>2
<1>6. \A i \in 1..Len(y) : x[i] = y[i]
  <2> SUFFICES ASSUME NEW i \in 1..Len(y) PROVE x[i] = y[i]
    OBVIOUS
  <2>1. i \in 1..Len(a) /\ i \in 1..Len(s)
    BY <1>2, <1>4
  <2>2. s[i] = a[i]
    BY <2>1
  <2>3. x[i] = PageSize[s[i]] /\ y[i] = PageSize[a[i]]
    BY <1>3, <2>1
  <2> QED BY <2>2, <2>3
<1>7. \A i \in 1..Len(z) : x[Len(y) + i] = z[i]
  <2> SUFFICES ASSUME NEW i \in 1..Len(z) PROVE x[Len(y) + i] = z[i]
    OBVIOUS
  <2>1. i \in 1..Len(b) /\ Len(y) + i = Len(a) + i /\ Len(a) + i \in 1..Len(s)
    BY <1>2, <1>4
  <2>2. x[Len(a) + i] = PageSize[s[Len(a) + i]] /\ s[Len(a) + i] = b[i] /\ z[i] = PageSize[b[i]]
    BY <1>3, <2>1
  <2> QED BY <2>1, <2>2
<1>8. Total(x) = Total(y) + Total(z) /\ Total(x) \in Nat /\ Total(y) \in Nat /\ Total(z) \in Nat
  BY <1>2, <1>5, <1>6, <1>7, TotalOfParts
<1> QED BY <1>2, <1>8

(* No pages take no bytes, and one page takes its own. *)
LEMMA SizeOfFew == Size(<< >>) = 0 /\ \A p \in Pages : Size(<<p>>) = Bytes(p)
<1>1. Size(<< >>) = 0
  <2>1. [i \in DOMAIN << >> |-> PageSize[<< >>[i]]] = << >>
    OBVIOUS
  <2> QED BY <2>1, TotalOfFew DEF Size
<1>2. ASSUME NEW p \in Pages PROVE Size(<<p>>) = Bytes(p)
  <2>1. [i \in DOMAIN <<p>> |-> PageSize[<<p>>[i]]] = <<PageSize[p]>>
    OBVIOUS
  <2> QED BY <2>1, PageSizes, TotalOfFew DEF Size, Bytes
<1> QED BY <1>1, <1>2

(* A catalogue has finitely many pages. *)
LEMMA PagesAreFinite == IsFiniteSet(Pages)
<1>1. PICK f : f = [t \in Tensors |-> t.page]
  OBVIOUS
<1>2. f \in Surjection(Tensors, Pages)
  BY <1>1 DEF Surjection, Pages, Paged
<1>3. IsFiniteSet(Tensors)
  BY PageCacheAssumption DEF Buildable
<1> QED BY <1>2, <1>3, FS_Surjection

(* The pages of a sequence, and of a sequence with one more. *)
LEMMA PagesOf ==
  ASSUME NEW s \in Seq(Pages)
  PROVE  /\ ToSet(s) = {s[i] : i \in 1..Len(s)} /\ ToSet(s) \subseteq Pages /\ IsFiniteSet(ToSet(s))
         /\ Size(s) \in Nat
         /\ DOMAIN s = 1..Len(s) /\ Len(s) \in Nat
<1>1. DOMAIN s = 1..Len(s) /\ Len(s) \in Nat /\ \A i \in 1..Len(s) : s[i] \in Pages
  BY LenProperties, ElementOfSeq
<1>2. ToSet(s) = {s[i] : i \in 1..Len(s)} /\ ToSet(s) \subseteq Pages
  BY <1>1 DEF ToSet
<1>3. IsFiniteSet(ToSet(s))
  BY <1>2, PagesAreFinite, FS_Subset
<1>5. Size(s) \in Nat
  <2> DEFINE e == << >>
  <2>1. e \in Seq(Pages) /\ Len(e) = 0
    OBVIOUS
  <2>2. Len(s) = Len(s) + Len(e) /\ \A i \in 1..Len(e) : s[Len(s) + i] = e[i]
    BY <1>1, <2>1
  <2> QED BY <2>1, <2>2, SizeOfTwo
<1> QED BY <1>1, <1>2, <1>3, <1>5

(* Inserting a page that is not resident adds its size. *)
LEMMA SizeOfAppend ==
  ASSUME NEW s \in Seq(Pages), IsInjective(s), NEW p \in Pages, p \notin ToSet(s)
  PROVE  /\ Append(s, p) \in Seq(Pages) /\ IsInjective(Append(s, p))
         /\ ToSet(Append(s, p)) = ToSet(s) \cup {p}
         /\ Size(Append(s, p)) = Size(s) + Bytes(p)
<1>1. PICK m, n : m = Append(s, p) /\ n = Len(s)
  OBVIOUS
<1>2. /\ m \in Seq(Pages) /\ Len(m) = n + 1 /\ m[n + 1] = p /\ \A i \in 1..n : m[i] = s[i]
      /\ n \in Nat
  BY <1>1, AppendProperties, LenProperties
<1>3. /\ DOMAIN m = 1..(n + 1) /\ DOMAIN s = 1..n
      /\ ToSet(m) = {m[i] : i \in 1..(n + 1)} /\ ToSet(s) = {s[i] : i \in 1..n}
  BY <1>1, <1>2, PagesOf
<1>4. 1..(n + 1) = (1..n) \cup {n + 1}
  BY <1>2
<1>5. ToSet(m) = ToSet(s) \cup {p}
  BY <1>2, <1>3, <1>4
<1>6. IsInjective(m)
  <2> SUFFICES ASSUME NEW i \in 1..(n + 1), NEW j \in 1..(n + 1), m[i] = m[j]
               PROVE  i = j
    BY <1>3 DEF IsInjective
  <2>1. \A k \in 1..n : m[k] = s[k] /\ m[k] # p
    BY <1>2, <1>3
  <2>2. \A k, l \in 1..n : s[k] = s[l] => k = l
    BY <1>3 DEF IsInjective
  <2> QED BY <1>2, <1>4, <2>1, <2>2
<1>7. Size(m) = Size(s) + Bytes(p)
  <2>1. PICK e : e = <<p>>
    OBVIOUS
  <2>2. e \in Seq(Pages) /\ Len(e) = 1 /\ e[1] = p
    BY <2>1
  <2>3. Len(m) = Len(s) + Len(e) /\ \A i \in 1..Len(e) : m[Len(s) + i] = e[i]
    BY <1>1, <1>2, <2>2
  <2>4. \A i \in 1..Len(s) : m[i] = s[i]
    BY <1>1, <1>2
  <2>5. Size(m) = Size(s) + Size(e)
    BY <1>2, <2>2, <2>3, <2>4, SizeOfTwo
  <2> QED BY <2>1, <2>5, SizeOfFew
<1> QED BY <1>1, <1>2, <1>5, <1>6, <1>7

(* What is taken from the front, and what is left. *)
LEMMA SizeOfParts ==
  ASSUME NEW s \in Seq(Pages), IsInjective(s), NEW k \in 0..Len(s)
  PROVE  LET a == SubSeq(s, 1, k)
             b == SubSeq(s, k + 1, Len(s))
         IN  /\ a \in Seq(Pages) /\ b \in Seq(Pages) /\ IsInjective(b)
             /\ ToSet(b) \subseteq ToSet(s)
             /\ Size(s) = Size(a) + Size(b)
<1>1. PICK a, b, n : a = SubSeq(s, 1, k) /\ b = SubSeq(s, k + 1, Len(s)) /\ n = Len(s)
  OBVIOUS
<1>2. /\ n \in Nat /\ k \in Nat /\ k <= n /\ DOMAIN s = 1..n
      /\ \A i \in 1..n : s[i] \in Pages
      /\ ToSet(s) = {s[i] : i \in 1..n} /\ \A i, j \in 1..n : s[i] = s[j] => i = j
  <2>1. n \in Nat /\ DOMAIN s = 1..n /\ ToSet(s) = {s[i] : i \in 1..n} /\ \A i \in 1..n : s[i] \in Pages
    BY <1>1, PagesOf, ElementOfSeq
  <2>2. \A i, j \in 1..n : s[i] = s[j] => i = j
    BY <2>1 DEF IsInjective
  <2>3. k \in Nat /\ k <= n
    BY <1>1, <2>1
  <2> QED BY <2>1, <2>2, <2>3
<1>3. a \in Seq(Pages) /\ Len(a) = k /\ \A i \in 1..k : a[i] = s[i]
  BY <1>1, <1>2
<1>4. b \in Seq(Pages) /\ Len(b) = n - k /\ \A i \in 1..(n - k) : b[i] = s[k + i]
  BY <1>1, <1>2
<1>5. /\ ToSet(a) = {a[i] : i \in 1..k} /\ ToSet(b) = {b[i] : i \in 1..(n - k)}
      /\ DOMAIN b = 1..(n - k)
  BY <1>3, <1>4, PagesOf
<1>6. IsInjective(b)
  <2> SUFFICES ASSUME NEW i \in 1..(n - k), NEW j \in 1..(n - k), b[i] = b[j]
               PROVE  i = j
    BY <1>5 DEF IsInjective
  <2>1. k + i \in 1..n /\ k + j \in 1..n
    BY <1>2
  <2>2. k + i = k + j
    BY <1>2, <1>4, <2>1
  <2> QED BY <1>2, <2>2
<1>7. ToSet(b) \subseteq ToSet(s)
  <2>1. \A i \in 1..(n - k) : k + i \in 1..n /\ b[i] = s[k + i]
    BY <1>2, <1>4
  <2> QED BY <1>2, <1>5, <2>1
<1>8. Size(s) = Size(a) + Size(b)
  <2>1. Len(s) = Len(a) + Len(b)
    <3>1. k + (n - k) = n
      BY <1>2
    <3> QED BY <1>1, <1>3, <1>4, <3>1
  <2>2. \A i \in 1..Len(a) : s[i] = a[i]
    BY <1>3
  <2>3. \A i \in 1..Len(b) : s[Len(a) + i] = b[i]
    BY <1>3, <1>4
  <2> QED BY <1>3, <1>4, <2>1, <2>2, <2>3, SizeOfTwo
<1> QED BY <1>1, <1>3, <1>4, <1>6, <1>7, <1>8

(* The order of the pages has no say in their bytes: a hit, which moves a
   page to the end, leaves the sum alone. *)
LEMMA SizeOfMoved ==
  ASSUME Types, NEW p \in Pages, Resident(p)
  PROVE  Size(MoveToEnd(p)) = Size(cache)
<1>1. PICK i : i = CHOOSE j \in DOMAIN cache : cache[j] = p
  OBVIOUS
<1>2. PICK n : n = Len(cache)
  OBVIOUS
<1>3. /\ i \in 1..n /\ cache[i] = p /\ n \in Nat
      /\ cache \in Seq(Pages) /\ \A j \in 1..n : cache[j] \in Pages
  BY <1>1, <1>2, ResidentPages, ElementOfSeq DEF Types
<1>4. PICK a, b, r : a = SubSeq(cache, 1, i - 1) /\ b = SubSeq(cache, i + 1, n)
                     /\ r = SubSeq(cache, i, n)
  OBVIOUS
<1>5. /\ a \in Seq(Pages) /\ Len(a) = i - 1 /\ \A j \in 1..(i - 1) : a[j] = cache[j]
  BY <1>2, <1>3, <1>4
<1>6. /\ b \in Seq(Pages) /\ Len(b) = n - i /\ \A j \in 1..(n - i) : b[j] = cache[i + j]
  BY <1>2, <1>3, <1>4
<1>7. /\ r \in Seq(Pages) /\ Len(r) = n - i + 1 /\ \A j \in 1..(n - i + 1) : r[j] = cache[i + j - 1]
  BY <1>2, <1>3, <1>4
<1>8. PICK e : e = <<p>>
  OBVIOUS
<1>9. e \in Seq(Pages) /\ Len(e) = 1 /\ e[1] = p
  BY <1>8
<1>10. Size(cache) = Size(a) + Size(r) /\ Size(a) \in Nat
  <2>1. Len(cache) = Len(a) + Len(r)
    <3>1. n = (i - 1) + (n - i + 1)
      BY <1>3
    <3> QED BY <1>2, <1>5, <1>7, <3>1
  <2>2. \A j \in 1..Len(a) : cache[j] = a[j]
    BY <1>5
  <2>3. \A j \in 1..Len(r) : cache[Len(a) + j] = r[j]
    <3> SUFFICES ASSUME NEW j \in 1..Len(r) PROVE cache[Len(a) + j] = r[j]
      OBVIOUS
    <3>1. j \in 1..(n - i + 1) /\ (i - 1) + j = i + j - 1
      BY <1>3, <1>7
    <3> QED BY <1>5, <1>7, <3>1
  <2> QED BY <1>3, <1>5, <1>7, <2>1, <2>2, <2>3, SizeOfTwo
<1>11. Size(r) = Size(e) + Size(b) /\ Size(e) \in Nat /\ Size(b) \in Nat
  <2>1. Len(r) = Len(e) + Len(b)
    <3>1. n - i + 1 = 1 + (n - i)
      BY <1>3
    <3> QED BY <1>6, <1>7, <1>9, <3>1
  <2>2. \A j \in 1..Len(e) : r[j] = e[j]
    <3>1. 1 \in 1..(n - i + 1) /\ i + 1 - 1 = i
      BY <1>3
    <3>2. r[1] = cache[i]
      BY <1>7, <3>1
    <3>3. \A j \in 1..1 : j = 1
      OBVIOUS
    <3> QED BY <1>3, <1>9, <3>2, <3>3
  <2>3. \A j \in 1..Len(b) : r[Len(e) + j] = b[j]
    <3> SUFFICES ASSUME NEW j \in 1..Len(b) PROVE r[Len(e) + j] = b[j]
      OBVIOUS
    <3>1. j \in 1..(n - i) /\ 1 + j \in 1..(n - i + 1) /\ i + (1 + j) - 1 = i + j
      BY <1>3, <1>6
    <3> QED BY <1>6, <1>7, <1>9, <3>1
  <2> QED BY <1>6, <1>7, <1>9, <2>1, <2>2, <2>3, SizeOfTwo
<1>12. PICK c : c = a \o b
  OBVIOUS
<1>13. /\ c \in Seq(Pages) /\ Len(c) = Len(a) + Len(b)
       /\ \A j \in 1..Len(a) : c[j] = a[j]
       /\ \A j \in 1..Len(b) : c[Len(a) + j] = b[j]
  <2>1. c \in Seq(Pages) /\ Len(c) = Len(a) + Len(b)
    BY <1>5, <1>6, <1>12, ConcatProperties
  <2>2. \A j \in 1..Len(c) : c[j] = IF j <= Len(a) THEN a[j] ELSE b[j - Len(a)]
    BY <1>5, <1>6, <1>12, ConcatProperties
  <2>3. Len(a) \in Nat /\ Len(b) \in Nat
    BY <1>5, <1>6, LenProperties
  <2>4. ASSUME NEW j \in 1..Len(b) PROVE c[Len(a) + j] = b[j]
    <3>1. Len(a) + j \in 1..Len(c) /\ ~(Len(a) + j <= Len(a)) /\ Len(a) + j - Len(a) = j
      BY <2>1, <2>3
    <3> QED BY <2>2, <3>1
  <2>5. ASSUME NEW j \in 1..Len(a) PROVE c[j] = a[j]
    <3>1. j \in 1..Len(c) /\ j <= Len(a)
      BY <2>1, <2>3
    <3> QED BY <2>2, <3>1
  <2> QED BY <2>1, <2>4, <2>5
<1>14. Size(c) = Size(a) + Size(b) /\ Size(c) \in Nat
  BY <1>5, <1>6, <1>13, SizeOfTwo
<1>15. PICK m : m = Append(c, p)
  OBVIOUS
<1>16. Size(m) = Size(c) + Size(e)
  <2>1. m \in Seq(Pages) /\ Len(m) = Len(c) + 1 /\ m[Len(c) + 1] = p
        /\ \A j \in 1..Len(c) : m[j] = c[j]
    BY <1>13, <1>15, AppendProperties
  <2>2. Len(m) = Len(c) + Len(e) /\ \A j \in 1..Len(e) : m[Len(c) + j] = e[j]
    BY <1>9, <2>1
  <2> QED BY <1>9, <1>13, <2>1, <2>2, SizeOfTwo
<1>17. m = MoveToEnd(p)
  BY <1>1, <1>2, <1>4, <1>12, <1>15 DEF MoveToEnd, RemoveAt
<1>18. PICK x, y, z : x = Size(a) /\ y = Size(b) /\ z = Size(e)
  OBVIOUS
<1>19. x + (z + y) = (x + y) + z
  BY <1>10, <1>11, <1>18
<1> QED BY <1>10, <1>11, <1>14, <1>16, <1>17, <1>18, <1>19

(* The loop of _complete ends: once every page is taken there is nothing left
   to take. *)
LEMMA VictimsChosen ==
  ASSUME Types, Held, NEW n \in Nat
  PROVE  /\ Victims(n) \in 0..Len(cache)
         /\ \/ Victims(n) = Len(cache)
            \/ resident - Size(SubSeq(cache, 1, Victims(n))) + n <= Capacity
<1>1. PICK m : m = Len(cache)
  OBVIOUS
<1>2. m \in Nat
  BY <1>1, LenProperties DEF Types
<1> DEFINE Enough(k) == k = m \/ resident - Size(SubSeq(cache, 1, k)) + n <= Capacity
<1> DEFINE T == {k \in 0..m : Enough(k)}
<1>3. m \in T
  BY <1>2
<1>4. T \subseteq Nat /\ T # {}
  BY <1>2, <1>3
<1>5. PICK k \in T : \A j \in T : k <= j
  BY <1>4, LeastElement
<1>6. /\ k \in 0..m /\ Enough(k)
      /\ \A j \in 0..(k - 1) : resident - Size(SubSeq(cache, 1, j)) + n > Capacity
  <2>1. k \in 0..m /\ Enough(k)
    BY <1>5
  <2>2. ASSUME NEW j \in 0..(k - 1)
        PROVE  resident - Size(SubSeq(cache, 1, j)) + n > Capacity
    <3>1. j \in 0..m /\ ~(k <= j) /\ j \in Nat
      BY <1>2, <2>1
    <3>2. j \notin T
      BY <1>5, <3>1
    <3>3. ~Enough(j)
      BY <3>1, <3>2
    <3>4. SubSeq(cache, 1, j) \in Seq(Pages)
      BY <1>1, <3>1, SizeOfParts DEF Types, Held
    <3>5. PICK r, z : r = resident /\ z = Size(SubSeq(cache, 1, j))
      OBVIOUS
    <3>6. r \in Nat /\ z \in Nat /\ Capacity \in Nat
      BY <3>4, <3>5, PagesOf, PageCacheAssumption DEF Held, Types
    <3>7. ~(r - z + n <= Capacity)
      BY <3>3, <3>5
    <3>8. r - z + n > Capacity
      BY <3>6, <3>7
    <3> QED BY <3>5, <3>8
  <2> QED BY <2>1, <2>2
<1> HIDE DEF T
<1>7. Victims(n) \in 0..m /\ Enough(Victims(n))
  BY <1>1, <1>6 DEF Victims
<1> QED BY <1>1, <1>7

(* A page is published: its victims make room for it. *)
LEMMA Published ==
  ASSUME Types, Held, NEW p \in Pages, ~Resident(p), ~Oversize(p), NEW k, k = Victims(Bytes(p)),
         NEW c, c = Append(SubSeq(cache, k + 1, Len(cache)), p)
  PROVE  /\ c \in Seq(Pages) /\ IsInjective(c) /\ ToSet(c) \subseteq ToSet(cache) \cup {p}
         /\ resident - Size(SubSeq(cache, 1, k)) + Bytes(p) = Size(c)
         /\ Size(c) <= Capacity
<1>1. PICK a, b : a = SubSeq(cache, 1, k) /\ b = SubSeq(cache, k + 1, Len(cache))
  OBVIOUS
<1>2. Bytes(p) \in Nat /\ Bytes(p) <= Capacity
  BY PageSizes, PageCacheAssumption DEF Oversize
<1>3. /\ k \in 0..Len(cache)
      /\ k = Len(cache) \/ resident - Size(a) + Bytes(p) <= Capacity
  BY <1>1, <1>2, VictimsChosen
<1>4. /\ cache \in Seq(Pages) /\ IsInjective(cache) /\ resident = Size(cache)
  BY DEF Types, Held
<1>5. /\ a \in Seq(Pages) /\ b \in Seq(Pages) /\ IsInjective(b) /\ ToSet(b) \subseteq ToSet(cache)
      /\ Size(cache) = Size(a) + Size(b)
  BY <1>1, <1>3, <1>4, SizeOfParts
<1>6. p \notin ToSet(b)
  BY <1>5, ResidentPages
<1>7. /\ c \in Seq(Pages) /\ IsInjective(c) /\ ToSet(c) = ToSet(b) \cup {p}
      /\ Size(c) = Size(b) + Bytes(p)
  BY <1>1, <1>5, <1>6, SizeOfAppend
<1>8. PICK x, y, z, r : x = Size(a) /\ y = Size(b) /\ z = Bytes(p) /\ r = resident
  OBVIOUS
<1>9. /\ x \in Nat /\ y \in Nat /\ z \in Nat /\ r = x + y /\ Capacity \in Nat /\ z <= Capacity
  BY <1>2, <1>4, <1>5, <1>8, PagesOf, PageCacheAssumption
<1>10. r - x + z = y + z
  BY <1>9
<1>11. y + z <= Capacity
  <2>1. CASE k = Len(cache)
    <3>1. b = << >>
      <4>1. Len(cache) \in Nat /\ k + 1 > Len(cache)
        BY <1>4, <2>1, LenProperties
      <4> QED BY <1>1, <2>1, <4>1, SubSeqEmpty
    <3>3. y = 0
      BY <1>8, <3>1, SizeOfFew
    <3>4. 0 + z <= Capacity
      BY <1>9
    <3> QED BY <3>3, <3>4
  <2>2. CASE r - x + z <= Capacity
    BY <1>10, <2>2
  <2> QED BY <1>3, <1>8, <2>1, <2>2
<1> QED BY <1>1, <1>5, <1>7, <1>8, <1>10, <1>11

-----------------------------------------------------------------------------
(* The futures *)

(* What a change of one future leaves of the others. *)
LEMMA FutureChanges ==
  ASSUME Types, NEW f \in Futures, NEW r \in Future, NEW s, s = [futures EXCEPT ![f] = r]
  PROVE  /\ s \in Seq(Future) /\ DOMAIN s = Futures
         /\ s[f] = r /\ \A g \in Futures \ {f} : s[g] = futures[g]
<1>1. futures \in Seq(Future) /\ f \in 1..Len(futures) /\ DOMAIN futures = 1..Len(futures)
  BY FuturesOfCache DEF Types, Futures
<1>2. s \in Seq(Future)
  BY <1>1, ExceptSeq
<1> QED BY <1>1, <1>2 DEF Futures

(* A future that is being loaded goes on. *)
LEMMA FutureMoves ==
  ASSUME Loads, NEW f \in Futures, Loading(f), NEW ph \in {"reading", "done", "failed"},
         UNCHANGED <<cache, inflight, lock, closed, source, thread, answer>>,
         futures' = [futures EXCEPT ![f].phase = ph]
  PROVE  Loads'
<1>1. PICK r : r = [futures[f] EXCEPT !.phase = ph]
  OBVIOUS
<1>2. futures[f] \in Future
  BY FuturesOfCache DEF Loads
<1>3. r \in Future /\ r.page = futures[f].page /\ r.callback = futures[f].callback /\ r.phase = ph
  BY <1>1, <1>2 DEF Future
<1>4. futures' = [futures EXCEPT ![f] = r]
  BY <1>1
<1>5. /\ futures' \in Seq(Future) /\ Futures' = Futures
      /\ futures'[f] = r /\ \A g \in Futures \ {f} : futures'[g] = futures[g]
  BY <1>3, <1>4, FutureChanges DEF Loads, Futures
<1>6. \A g \in Futures : /\ futures'[g].page = futures[g].page
                         /\ futures'[g].callback = futures[g].callback
                         /\ Loading(g)' => Loading(g)
  BY <1>3, <1>5 DEF Loading
<1>7. Types' /\ Starts'
  BY <1>5 DEF Loads, Types, Starts, InStart
<1>8. Tracked'
  BY <1>5, <1>6 DEF Loads, Tracked, Resident
<1>9. Pending'
  BY <1>6 DEF Loads, Pending, Types
<1>10. Locked'
  BY <1>5, <1>6 DEF Loads, Locked, Wanted
<1>11. Closing'
  <2>1. source # "closed"
    BY DEF Loads, Closing, Loading, Finished
  <2> QED BY <2>1 DEF Loads, Closing, LockFree, At
<1>12. Asking'
  BY <1>5, <1>6 DEF Loads, Asking, InStart, At
<1> QED BY <1>7, <1>8, <1>9, <1>10, <1>11, <1>12 DEF Loads

(* _start submits: the new future is in _inflight, and holds the lock. *)
LEMMA SubmitsKeepsLoads ==
  ASSUME Loads, NEW t \in Threads, StartSubmits(t)
  PROVE  Loads'
<1>1. PICK p, n, r : /\ p = Wanted(t) /\ n = Len(futures) + 1
                     /\ r = [page |-> p, phase |-> "queued", callback |-> "none"]
  OBVIOUS
<1>2. p \in Pages
  <2>1. thread[t].todo \in Seq(Pages) /\ thread[t].todo # << >>
    BY DEF Loads, Starts, InStart, At, StartSubmits
  <2> QED BY <1>1, <2>1, HeadTailProperties DEF Wanted
<1>3. r \in Future /\ r.page = p /\ r.callback = "none" /\ r.phase = "queued"
  BY <1>1, <1>2 DEF Future
<1>4. /\ At(t, "start") /\ lock = None /\ ~closed /\ ~Resident(p) /\ inflight[p] = None
      /\ futures' = Append(futures, r) /\ inflight' = [inflight EXCEPT ![p] = Len(futures')]
      /\ lock' = t /\ thread' = [thread EXCEPT ![t].pc = "attach"]
      /\ UNCHANGED <<cache, closed, source, answer>>
  BY <1>1 DEF StartSubmits, LockFree, Joinable, state
<1>5. /\ futures' \in Seq(Future) /\ Len(futures') = n /\ futures'[n] = r
      /\ \A g \in Futures : futures'[g] = futures[g]
  BY <1>1, <1>3, <1>4, AppendProperties, FuturesOfCache DEF Loads, Types
<1>6. /\ Futures' = Futures \cup {n} /\ n \notin Futures /\ n # None
      /\ \A g \in Futures : g # None
  <2>1. PICK m : m = Len(futures)
    OBVIOUS
  <2>2. m \in Nat /\ Futures = 1..m /\ n = m + 1
    BY <1>1, <2>1, FuturesOfCache DEF Loads
  <2>3. Futures' = 1..n
    BY <1>5, LenProperties DEF Futures
  <2>4. 1..n = (1..m) \cup {n} /\ n \notin 1..m /\ n \in Nat /\ \A g \in 1..m : g \in Nat
    BY <2>2
  <2> QED BY <2>2, <2>3, <2>4, NotAThread
<1>7. inflight'[p] = n /\ \A q \in Pages \ {p} : inflight'[q] = inflight[q]
  BY <1>2, <1>4, <1>5 DEF Loads, Types
<1>8. /\ \A u \in Threads \ {t} : thread'[u] = thread[u]
      /\ thread'[t].pc = "attach" /\ thread'[t].op = thread[t].op
      /\ thread'[t].todo = thread[t].todo /\ thread'[t].got = thread[t].got
  <2>1. PICK x : x = [thread[t] EXCEPT !.pc = "attach"]
    OBVIOUS
  <2>2. thread' = [thread EXCEPT ![t] = x]
    BY <1>4, <2>1
  <2>3. thread'[t] = x /\ \A u \in Threads \ {t} : thread'[u] = thread[u]
    BY <2>2 DEF Loads, Types
  <2> QED BY <2>1, <2>3
<1>9. Types'
  <2>1. inflight' \in [Pages -> Futures' \cup {None}]
    BY <1>4, <1>5, <1>6 DEF Loads, Types
  <2> QED BY <1>4, <1>5, <2>1 DEF Loads, Types
<1>10. Starts'
  BY <1>4, <1>8 DEF Loads, Starts, InStart, At
<1>11. Tracked'
  <2> SUFFICES ASSUME NEW g \in Futures'
               PROVE  /\ Loading(g)' => futures'[g].callback # "run"
                      /\ futures'[g].callback # "run" =>
                           inflight'[futures'[g].page] = g /\ ~Resident(futures[g].page)'
    BY DEF Tracked
  <2>1. CASE g = n
    BY <1>3, <1>4, <1>5, <1>7, <2>1 DEF Resident
  <2>2. CASE g # n
    <3>1. g \in Futures /\ futures'[g] = futures[g] /\ futures[g].page \in Pages
      BY <1>5, <1>6, <2>2, FuturesOfCache DEF Loads, Future
    <3>2. futures[g].callback # "run" => futures[g].page # p
      BY <1>4, <1>6, <3>1 DEF Loads, Tracked
    <3> QED BY <1>4, <1>7, <3>1, <3>2 DEF Loads, Tracked, Loading, Resident
  <2> QED BY <2>1, <2>2
<1>12. Pending'
  <2> SUFFICES ASSUME NEW q \in Pages, inflight'[q] # None
               PROVE  futures'[inflight'[q]].page = q /\ futures'[inflight'[q]].callback # "run"
    BY DEF Pending
  <2>1. CASE q = p
    BY <1>3, <1>5, <1>7, <2>1
  <2>2. CASE q # p
    <3>1. inflight'[q] = inflight[q] /\ inflight[q] \in Futures
      BY <1>7, <2>2 DEF Loads, Types
    <3> QED BY <1>5, <3>1 DEF Loads, Pending
  <2> QED BY <2>1, <2>2
<1>13. Locked'
  <2>1. \A u \in Threads : lock' = u <=> thread'[u].pc \in {"attach", "stuck"}
    BY <1>4, <1>8, NotAThread DEF Loads, Locked
  <2>2. Wanted(t)' = p
    BY <1>1, <1>8 DEF Wanted
  <2>3. \A g \in Futures : futures[g].callback # "none"
    BY <1>4, NotAThread DEF Loads, Locked
  <2> QED BY <1>4, <1>5, <1>6, <1>7, <2>1, <2>2, <2>3 DEF Locked
<1>14. Closing'
  BY <1>4, <1>8 DEF Loads, Closing, At
<1>15. Asking'
  <2> SUFFICES ASSUME NEW u \in Threads
               PROVE  /\ InStart(u)' /\ thread'[u].op = "get" =>
                           Len(thread'[u].todo) = 1 /\ thread'[u].got = << >>
                      /\ At(u, "wait")' /\ thread'[u].op = "get" /\ thread'[u].got # << >> =>
                           /\ Head(thread'[u].got) \in Futures'
                           /\ futures'[Head(thread'[u].got)].page = thread'[u].asked
                      /\ answer'[u].kind = "page" =>
                           answer'[u].payload = answer'[u].page /\ answer'[u].page \in Pages
    BY DEF Asking
  <2>1. CASE u = t
    BY <1>4, <1>8, <2>1 DEF Loads, Asking, InStart, At
  <2>2. CASE u # t
    <3>1. thread'[u] = thread[u] /\ answer'[u] = answer[u]
      BY <1>4, <1>8, <2>2
    <3> QED BY <1>5, <1>6, <3>1 DEF Loads, Asking, InStart, At
  <2> QED BY <2>1, <2>2
<1> QED BY <1>9, <1>10, <1>11, <1>12, <1>13, <1>14, <1>15 DEF Loads

(* The callback is attached and the lock released. *)
LEMMA AttachesKeepsLoads ==
  ASSUME Loads, NEW t \in Threads, Attaches(t)
  PROVE  Loads'
<1>1. PICK p, f : p = Wanted(t) /\ f = inflight[p]
  OBVIOUS
<1>2. InStart(t) /\ lock = t /\ lock # None
  BY NotAThread DEF Attaches, At, InStart, Loads, Locked
<1>3. p \in Pages
  <2>1. thread[t].todo \in Seq(Pages) /\ thread[t].todo # << >>
    BY <1>2 DEF Loads, Starts
  <2> QED BY <1>1, <2>1, HeadTailProperties DEF Wanted
<1>4. /\ f \in Futures /\ f # None /\ futures[f] \in Future
      /\ futures[f].page = p /\ futures[f].callback # "run"
  <2>1. f # None
    BY <1>1, <1>2 DEF Loads, Locked
  <2>2. f \in Futures
    BY <1>1, <1>3, <2>1 DEF Loads, Types
  <2> QED BY <1>1, <1>3, <2>1, <2>2, FuturesOfCache DEF Loads, Pending
<1>5. PICK r, got : r = [futures[f] EXCEPT !.callback = "attached"] /\ got = Append(thread[t].got, f)
  OBVIOUS
<1>6. r \in Future /\ r.page = p /\ r.phase = futures[f].phase /\ r.callback = "attached"
  BY <1>4, <1>5 DEF Future
<1>7. /\ futures' = [futures EXCEPT ![f] = r] /\ lock' = None /\ Continues(t, got)
      /\ UNCHANGED <<cache, inflight, closed, source>>
  BY <1>1, <1>5 DEF Attaches, table, state
<1>8. /\ futures' \in Seq(Future) /\ Futures' = Futures
      /\ futures'[f] = r /\ \A g \in Futures \ {f} : futures'[g] = futures[g]
  BY <1>4, <1>6, <1>7, FutureChanges DEF Loads, Futures
<1>9. \A g \in Futures : /\ futures'[g].page = futures[g].page /\ futures'[g].phase = futures[g].phase
                         /\ futures'[g].callback = "run" <=> futures[g].callback = "run"
  BY <1>4, <1>6, <1>8
<1>10. \A g \in Futures : futures'[g].callback # "none"
  <2>1. \A g \in Futures \ {f} : futures[g].callback # "none"
    BY <1>1, <1>2 DEF Loads, Locked
  <2> QED BY <1>6, <1>8, <2>1
<1>11. PICK x, a :
         /\ thread' = [thread EXCEPT ![t] = x] /\ answer' = [answer EXCEPT ![t] = a]
         /\ x.pc \in {"idle", "start", "wait"}
         /\ x.pc = "start" => /\ x.op = "prefetch" /\ x.todo \in Seq(Pages) /\ x.todo # << >>
         /\ x.pc = "wait" => /\ x.op = thread[t].op /\ x.got = got /\ x.asked = Wanted(t)
         /\ a = answer[t] \/ a = Scheduled
  BY <1>2, <1>7, ContinuesTo
<1>12. /\ thread'[t] = x /\ answer'[t] = a
       /\ \A u \in Threads \ {t} : thread'[u] = thread[u] /\ answer'[u] = answer[u]
  BY <1>11 DEF Loads, Types
<1>13. a.kind = "page" => a.payload = a.page /\ a.page \in Pages
  BY <1>11 DEF Loads, Asking, Scheduled
<1>14. thread[t].op = "get" => Head(got) = f
  <2>1. ASSUME thread[t].op = "get" PROVE Head(got) = f
    <3>1. thread[t].got = << >>
      BY <1>2, <2>1 DEF Loads, Asking
    <3> QED BY <1>5, <3>1
  <2> QED BY <2>1
<1>15. Types'
  BY <1>7, <1>8, <1>11 DEF Loads, Types
<1>16. Starts'
  BY <1>11, <1>12 DEF Loads, Starts, InStart
<1>17. Tracked'
  BY <1>7, <1>8, <1>9 DEF Loads, Tracked, Loading, Resident
<1>18. Pending'
  BY <1>7, <1>8, <1>9 DEF Loads, Pending, Types
<1>19. Locked'
  <2>1. \A u \in Threads : thread'[u].pc \notin {"attach", "stuck"}
    BY <1>2, <1>11, <1>12 DEF Loads, Locked
  <2> QED BY <1>7, <1>8, <1>10, <2>1, NotAThread DEF Locked
<1>20. Closing'
  BY <1>2, <1>7, <1>11, <1>12 DEF Loads, Closing, LockFree, At
<1>21. Asking'
  <2> SUFFICES ASSUME NEW u \in Threads
               PROVE  /\ InStart(u)' /\ thread'[u].op = "get" =>
                           Len(thread'[u].todo) = 1 /\ thread'[u].got = << >>
                      /\ At(u, "wait")' /\ thread'[u].op = "get" /\ thread'[u].got # << >> =>
                           /\ Head(thread'[u].got) \in Futures'
                           /\ futures'[Head(thread'[u].got)].page = thread'[u].asked
                      /\ answer'[u].kind = "page" =>
                           answer'[u].payload = answer'[u].page /\ answer'[u].page \in Pages
    BY DEF Asking
  <2>1. CASE u = t
    <3>1. ~(InStart(u)' /\ thread'[u].op = "get")
      BY <1>11, <1>12, <2>1 DEF InStart
    <3>2. At(u, "wait")' /\ thread'[u].op = "get" =>
            thread'[u].got = got /\ Head(got) = f /\ thread'[u].asked = p
      BY <1>1, <1>11, <1>12, <1>14, <2>1 DEF At
    <3> QED BY <1>4, <1>8, <1>9, <1>12, <1>13, <2>1, <3>1, <3>2
  <2>2. CASE u # t
    <3>1. thread'[u] = thread[u] /\ answer'[u] = answer[u]
      BY <1>12, <2>2
    <3> QED BY <1>8, <1>9, <3>1 DEF Loads, Asking, InStart, At
  <2> QED BY <2>1, <2>2
<1> QED BY <1>15, <1>16, <1>17, <1>18, <1>19, <1>20, <1>21 DEF Loads

(* _complete: the future leaves _inflight, and its page is in the cache or
   dropped. *)
LEMMA CompletesKeepsLoads ==
  ASSUME Loads, Held, NEW f \in Futures, Completes(f)
  PROVE  Loads' /\ Held'
<1>1. PICK p, r : p = futures[f].page /\ r = [futures[f] EXCEPT !.callback = "run"]
  OBVIOUS
<1>2. /\ futures[f] \in Future /\ p \in Pages
      /\ r \in Future /\ r.page = p /\ r.phase = futures[f].phase /\ r.callback = "run"
  <2>1. futures[f] \in Future
    BY FuturesOfCache DEF Loads
  <2> QED BY <1>1, <2>1 DEF Future
<1>3. /\ futures[f].callback = "attached" /\ Finished(f) /\ lock = None
      /\ futures' = [futures EXCEPT ![f] = r] /\ Publishes(f)
      /\ UNCHANGED <<lock, closed, source, thread, answer>>
  BY <1>1 DEF Completes, CallbackDue, LockFree, state
<1>4. /\ futures' \in Seq(Future) /\ Futures' = Futures
      /\ futures'[f] = r /\ \A g \in Futures \ {f} : futures'[g] = futures[g]
  BY <1>2, <1>3, FutureChanges DEF Loads, Futures
<1>5. inflight[p] = f /\ ~Resident(p)
  BY <1>1, <1>3 DEF Loads, Tracked
<1>6. inflight' = [inflight EXCEPT ![p] = None]
  BY <1>1, <1>3, <1>5 DEF Publishes, Forgets
<1>7. inflight'[p] = None /\ \A q \in Pages \ {p} : inflight'[q] = inflight[q]
  BY <1>2, <1>6 DEF Loads, Types
<1>8. /\ cache' \in Seq(Pages) /\ ToSet(cache') \subseteq ToSet(cache) \cup {p}
      /\ Held'
  <2>1. CASE futures[f].phase = "failed" \/ Resident(p) \/ Oversize(p)
    <3>1. cache' = cache /\ resident' = resident
      BY <1>1, <1>3, <2>1 DEF Publishes
    <3> QED BY <3>1 DEF Loads, Types, Held
  <2>2. CASE ~(futures[f].phase = "failed" \/ Resident(p) \/ Oversize(p))
    <3>1. PICK k, c : k = Victims(Bytes(p)) /\ c = Append(SubSeq(cache, k + 1, Len(cache)), p)
      OBVIOUS
    <3>2. cache' = c /\ resident' = resident - Size(SubSeq(cache, 1, k)) + Bytes(p)
      BY <1>1, <1>3, <2>2, <3>1 DEF Publishes
    <3>3. /\ c \in Seq(Pages) /\ IsInjective(c) /\ ToSet(c) \subseteq ToSet(cache) \cup {p}
          /\ resident - Size(SubSeq(cache, 1, k)) + Bytes(p) = Size(c)
          /\ Size(c) <= Capacity
      <4>1. Types /\ Held /\ p \in Pages /\ ~Resident(p) /\ ~Oversize(p)
        BY <1>2, <1>5, <2>2 DEF Loads
      <4>2. \A kk, cc :
              kk = Victims(Bytes(p)) /\ cc = Append(SubSeq(cache, kk + 1, Len(cache)), p) =>
                /\ cc \in Seq(Pages) /\ IsInjective(cc) /\ ToSet(cc) \subseteq ToSet(cache) \cup {p}
                /\ resident - Size(SubSeq(cache, 1, kk)) + Bytes(p) = Size(cc)
                /\ Size(cc) <= Capacity
        BY <4>1, Published
      <4> QED BY <3>1, <4>2
    <3> QED BY <3>2, <3>3 DEF Held
  <2> QED BY <2>1, <2>2
<1>9. \A q \in Pages \ {p} : Resident(q)' => Resident(q)
  <2>1. DOMAIN cache' = 1..Len(cache')
    BY <1>8, LenProperties
  <2>2. \A q : Resident(q)' => q \in ToSet(cache')
    BY <2>1 DEF Resident, Contains, ToSet
  <2> QED BY <1>8, <2>2, ResidentPages DEF Loads
<1>10. \A g \in Futures \ {f} : futures[g].callback # "run" => futures[g].page # p
  BY <1>5 DEF Loads, Tracked
<1>11. Types' /\ Starts'
  <2>1. inflight' \in [Pages -> Futures' \cup {None}]
    BY <1>4, <1>6 DEF Loads, Types
  <2> QED BY <1>3, <1>4, <1>8, <2>1 DEF Loads, Types, Starts, InStart
<1>12. Tracked'
  <2> SUFFICES ASSUME NEW g \in Futures
               PROVE  /\ Loading(g)' => futures'[g].callback # "run"
                      /\ futures'[g].callback # "run" =>
                           inflight'[futures'[g].page] = g /\ ~Resident(futures[g].page)'
    BY <1>4 DEF Tracked
  <2>1. CASE g = f
    BY <1>2, <1>3, <1>4, <2>1 DEF Loading, Finished
  <2>2. CASE g # f
    <3>1. futures'[g] = futures[g] /\ futures[g].page \in Pages
      BY <1>4, <2>2, FuturesOfCache DEF Loads, Future
    <3> QED BY <1>7, <1>9, <1>10, <2>2, <3>1 DEF Loads, Tracked, Loading
  <2> QED BY <2>1, <2>2
<1>13. Pending'
  <2> SUFFICES ASSUME NEW q \in Pages, inflight'[q] # None
               PROVE  futures'[inflight'[q]].page = q /\ futures'[inflight'[q]].callback # "run"
    BY DEF Pending
  <2>1. q # p /\ inflight'[q] = inflight[q] /\ inflight[q] \in Futures
    BY <1>7 DEF Loads, Types
  <2>2. futures[inflight[q]].page = q /\ futures[inflight[q]].callback # "run"
    BY <2>1 DEF Loads, Pending
  <2> QED BY <1>1, <1>4, <2>1, <2>2
<1>14. Locked'
  <2>1. \A u \in Threads : lock # u
    BY <1>3, NotAThread
  <2>2. \A g \in Futures : futures[g].callback # "none"
    BY <2>1 DEF Loads, Locked
  <2> QED BY <1>2, <1>3, <1>4, <2>1, <2>2 DEF Loads, Locked
<1>15. Closing'
  <2>1. source # "closed"
    BY <1>3 DEF Loads, Closing
  <2> QED BY <1>3, <2>1 DEF Loads, Closing, LockFree, At
<1>16. Asking'
  <2>1. \A g \in Futures : futures'[g].page = futures[g].page
    BY <1>1, <1>2, <1>4
  <2> QED BY <1>3, <1>4, <2>1 DEF Loads, Asking, InStart, At
<1> QED BY <1>8, <1>11, <1>12, <1>13, <1>14, <1>15, <1>16 DEF Loads

(* close: nobody holds the lock when it begins; when the pool is drained every
   future has been published or forgotten. *)
LEMMA CloseKeepsLoads ==
  ASSUME Loads, NEW t \in Threads, Close(t) \/ CloseEnds(t)
  PROVE  Loads'
<1>1. UNCHANGED <<inflight, futures, lock, cache>>
  BY DEF Close, CloseEnds, table
<1>2. cache' \in Seq(Pages) /\ \A p \in Pages : Resident(p)' <=> Resident(p)
  BY <1>1 DEF Loads, Types, Resident
<1>3. CASE Close(t)
  <2>1. PICK x, a : x = [pc |-> "closing"] /\ a = Scheduled
    OBVIOUS
  <2>2. /\ thread' = [thread EXCEPT ![t] = x] /\ answer' = [answer EXCEPT ![t] = a]
        /\ x.pc = "closing" /\ a.kind # "page"
        /\ lock = None /\ closed' = TRUE /\ source' = source
    BY <1>3, <2>1 DEF Close, Begins, LockFree, Scheduled
  <2>3. /\ closed' \in BOOLEAN /\ source' \in {"open", "closed"} /\ (closed => closed')
        /\ closed' => LockFree
        /\ source' = "closed" =>
             closed' /\ \A f \in Futures : Finished(f) /\ futures[f].callback = "run"
    BY <2>2 DEF Loads, Types, Closing, LockFree
  <2>4. lock # t
    BY <2>2, NotAThread
  <2> QED BY <1>1, <1>2, <2>2, <2>3, <2>4, CallerMoves
<1>4. CASE CloseEnds(t)
  <2>1. PICK x, a : x = Idle /\ a = Scheduled
    OBVIOUS
  <2>2. /\ thread' = [thread EXCEPT ![t] = x] /\ answer' = [answer EXCEPT ![t] = a]
        /\ x.pc = "idle" /\ a.kind # "page"
        /\ At(t, "closing") /\ Drained /\ closed' = closed /\ source' = "closed"
    BY <1>4, <2>1 DEF CloseEnds, Ends, Idle, Scheduled
  <2>3. closed /\ lock = None
    BY <2>2 DEF Loads, Closing, LockFree
  <2>4. \A f \in Futures : Finished(f) /\ futures[f].callback = "run"
    <3> SUFFICES ASSUME NEW f \in Futures PROVE Finished(f) /\ futures[f].callback = "run"
      OBVIOUS
    <3>1. f \notin Occupied /\ f \notin Queue
      BY <2>2 DEF Drained
    <3>2. futures[f] \in Future
      BY FuturesOfCache DEF Loads
    <3>3. Finished(f)
      BY <3>1, <3>2 DEF Occupied, Queue, Finished, Future
    <3>4. futures[f].callback # "attached"
      BY <3>1, <3>3 DEF Occupied, CallbackDue
    <3>5. futures[f].callback # "none"
      BY <2>3, NotAThread DEF Loads, Locked
    <3> QED BY <3>2, <3>3, <3>4, <3>5 DEF Future
  <2>5. /\ closed' \in BOOLEAN /\ source' \in {"open", "closed"} /\ (closed => closed')
        /\ closed' => LockFree
        /\ source' = "closed" =>
             closed' /\ \A f \in Futures : Finished(f) /\ futures[f].callback = "run"
    BY <2>2, <2>3, <2>4 DEF Loads, Types, LockFree
  <2>6. lock # t
    BY <2>3, NotAThread
  <2> QED BY <1>1, <1>2, <2>2, <2>5, <2>6, CallerMoves
<1> QED BY <1>3, <1>4

(* A thread that calls _complete under its own lock stays where it is. *)
LEMMA CallsBackKeepsLoads ==
  ASSUME Loads, NEW t \in Threads, CallsBack(t)
  PROVE  Loads'
<1>1. PICK x : x = [thread[t] EXCEPT !.pc = "stuck"]
  OBVIOUS
<1>2. /\ thread' = [thread EXCEPT ![t] = x] /\ thread[t].pc = "attach"
      /\ UNCHANGED <<cache, inflight, futures, lock, closed, source, answer>>
  BY <1>1 DEF CallsBack, At, table, state
<1>3. /\ \A u \in Threads \ {t} : thread'[u] = thread[u]
      /\ thread'[t].pc = "stuck" /\ thread'[t].op = thread[t].op
      /\ thread'[t].todo = thread[t].todo /\ thread'[t].got = thread[t].got
  <2>1. thread'[t] = x /\ \A u \in Threads \ {t} : thread'[u] = thread[u]
    BY <1>2 DEF Loads, Types
  <2> QED BY <1>1, <2>1
<1>4. Types'
  BY <1>2 DEF Loads, Types, Futures
<1>5. Starts'
  BY <1>2, <1>3 DEF Loads, Starts, InStart
<1>6. Tracked'
  BY <1>2 DEF Loads, Tracked, Futures, Loading, Resident
<1>7. Pending'
  BY <1>2 DEF Loads, Pending
<1>8. Locked'
  <2>1. \A u \in Threads : thread'[u].pc \in {"attach", "stuck"}
                             <=> thread[u].pc \in {"attach", "stuck"}
    BY <1>2, <1>3
  <2>2. \A u \in Threads : Wanted(u)' = Wanted(u)
    BY <1>3 DEF Wanted
  <2> QED BY <1>2, <2>1, <2>2 DEF Loads, Locked, Futures
<1>9. Closing'
  BY <1>2, <1>3 DEF Loads, Closing, LockFree, At, Finished, Futures
<1>10. Asking'
  BY <1>2, <1>3 DEF Loads, Asking, InStart, At, Futures
<1> QED BY <1>4, <1>5, <1>6, <1>7, <1>8, <1>9, <1>10 DEF Loads

-----------------------------------------------------------------------------
(* A new cache satisfies the invariant. *)
LEMMA InitInvariant == Init => IInv
<1> SUFFICES ASSUME Init PROVE IInv
  OBVIOUS
<1>1. /\ cache = << >> /\ resident = 0 /\ futures = << >>
      /\ inflight = [p \in Pages |-> None] /\ closed = FALSE /\ source = "open" /\ lock = None
      /\ thread = [t \in Threads |-> Idle] /\ answer = [t \in Threads |-> Scheduled]
  BY DEF Init
<1>2. /\ cache \in Seq(Pages) /\ futures \in Seq(Future) /\ DOMAIN cache = {} /\ Futures = {}
  BY <1>1 DEF Futures
<1>3. \A t \in Threads : thread[t].pc = "idle" /\ answer[t].kind = "scheduled"
  BY <1>1 DEF Idle, Scheduled
<1>4. Types
  BY <1>1, <1>2 DEF Types
<1>5. Starts /\ Tracked /\ Pending
  BY <1>1, <1>2, <1>3 DEF Starts, InStart, Tracked, Pending
<1>6. Locked /\ Closing
  BY <1>1, <1>2, <1>3, NotAThread DEF Locked, Closing, LockFree, At
<1>7. Asking
  BY <1>3 DEF Asking, InStart, At
<1>8. Held
  <2>2. Size(cache) = 0
    BY <1>2, SizeOfFew
  <2>3. IsInjective(cache)
    BY <1>2 DEF IsInjective
  <2>4. 0 <= Capacity
    BY PageCacheAssumption
  <2> QED BY <1>1, <2>2, <2>3, <2>4 DEF Held
<1> QED BY <1>4, <1>5, <1>6, <1>7, <1>8 DEF Loads, IInv

(* Only a hit and a publication touch the resident pages. *)
LEMMA NextKeepsInvariant == IInv /\ [Next]_vars => IInv'
<1> SUFFICES ASSUME IInv, [Next]_vars PROVE IInv'
  OBVIOUS
<1>1. Loads /\ Held
  BY DEF IInv
<1>2. ASSUME UNCHANGED <<cache, resident>> PROVE Held'
  BY <1>1, <1>2 DEF Held
<1>3. CASE UNCHANGED vars
  <2>1. UNCHANGED <<cache, resident, inflight, futures, lock, closed, source, thread, answer>>
    BY <1>3 DEF vars, table, state
  <2>2. Types' /\ Starts' /\ Tracked'
    BY <1>1, <2>1 DEF Loads, Types, Starts, InStart, Tracked, Futures, Loading, Resident
  <2>3. Pending' /\ Locked'
    BY <1>1, <2>1 DEF Loads, Pending, Locked, Wanted, Futures
  <2>4. Closing' /\ Asking'
    BY <1>1, <2>1 DEF Loads, Closing, Asking, LockFree, At, Finished, Futures, InStart
  <2> QED BY <1>2, <2>1, <2>2, <2>3, <2>4 DEF Loads, IInv
<1>4. ASSUME NEW t \in Threads, NEW p \in Pages, GetHit(t, p)
      PROVE  IInv'
  <2>1. Resident(p) /\ cache' = MoveToEnd(p) /\ resident' = resident
    BY <1>4 DEF GetHit
  <2>2. /\ ToSet(cache') = ToSet(cache) /\ (IsInjective(cache) => IsInjective(cache'))
    BY <1>1, <2>1, MovedToEnd DEF Loads
  <2>3. Held'
    BY <1>1, <2>1, <2>2, SizeOfMoved DEF Held, Loads
  <2>4. Loads'
    BY <1>1, <1>4, CallsKeepLoads
  <2> QED BY <2>3, <2>4 DEF IInv
<1>5. ASSUME NEW t \in Threads,
             (\E p \in Pages : GetMiss(t, p)) \/ \E keys \in Prefetches : Prefetch(t, keys)
      PROVE  IInv'
  <2>1. UNCHANGED <<cache, resident>>
    BY <1>5 DEF GetMiss, Prefetch, table
  <2>2. Loads'
    BY <1>1, <1>5, CallsKeepLoads
  <2> QED BY <1>2, <2>1, <2>2 DEF IInv
<1>6. ASSUME NEW t \in Threads, Close(t)
      PROVE  IInv'
  <2>1. UNCHANGED <<cache, resident>>
    BY <1>6 DEF Close, table
  <2> QED BY <1>1, <1>2, <1>6, <2>1, CloseKeepsLoads DEF IInv
<1>7. ASSUME NEW t \in Threads, Step(t)
      PROVE  IInv'
  <2>1. UNCHANGED <<cache, resident>>
    BY <1>7
    DEF Step, StartRefused, StartResident, StartJoins, StartSubmits, Attaches, CallsBack, Waits,
        WaitEnds, CloseEnds, table
  <2>2. Loads'
    BY <1>1, <1>7, CallerKeepsLoads, SubmitsKeepsLoads, AttachesKeepsLoads, CallsBackKeepsLoads,
       CloseKeepsLoads
    DEF Step
  <2> QED BY <1>2, <2>1, <2>2 DEF IInv
<1>8. ASSUME NEW f \in Futures, Load(f)
      PROVE  IInv'
  <2>1. ASSUME NEW ph \in {"reading", "done", "failed"}, Loading(f),
               futures' = [futures EXCEPT ![f].phase = ph],
               UNCHANGED <<table, state, lock, thread, answer>>
        PROVE  IInv'
    <3>1. UNCHANGED <<cache, resident, inflight, lock, closed, source, thread, answer>>
      BY <2>1 DEF table, state
    <3>2. Loads'
      BY <1>1, <2>1, <3>1, FutureMoves
    <3> QED BY <1>2, <3>1, <3>2 DEF IInv
  <2>2. CASE Takes(f)
    <3>1. /\ Loading(f) /\ futures' = [futures EXCEPT ![f].phase = "reading"]
          /\ UNCHANGED <<table, state, lock, thread, answer>>
      BY <2>2 DEF Takes, Queue, Loading
    <3> QED BY <2>1, <3>1
  <2>3. CASE Reads(f)
    <3>1. /\ Loading(f) /\ futures' = [futures EXCEPT ![f].phase = "done"]
          /\ UNCHANGED <<table, state, lock, thread, answer>>
      BY <2>3 DEF Reads, Loading
    <3> QED BY <2>1, <3>1
  <2>4. CASE ReadFails(f)
    <3>1. /\ Loading(f) /\ futures' = [futures EXCEPT ![f].phase = "failed"]
          /\ UNCHANGED <<table, state, lock, thread, answer>>
      BY <2>4 DEF ReadFails, Loading
    <3> QED BY <2>1, <3>1
  <2>5. CASE Completes(f)
    BY <1>1, <2>5, CompletesKeepsLoads DEF IInv
  <2> QED BY <1>8, <2>2, <2>3, <2>4, <2>5 DEF Load
<1> QED BY <1>3, <1>4, <1>5, <1>6, <1>7, <1>8 DEF Next

(* The table of loads and that of the resident pages agree in every state:
   every future is either the one load of its page or published. *)
THEOREM Invariance == Spec => []IInv
<1>1. Init => IInv
  BY InitInvariant
<1>2. IInv /\ [Next]_vars => IInv'
  BY NextKeepsInvariant
<1> QED BY <1>1, <1>2, PTL DEF Spec

-----------------------------------------------------------------------------
(* What a caller and a reviewer rely on *)

(* One load of a page at a time, whoever asks for it: _start and _complete. *)
THEOREM OneLoadPerPage == Spec => []SingleFlight
<1>1. IInv => SingleFlight
  BY DEF IInv, Loads, Tracked, SingleFlight
<1> QED BY <1>1, Invariance, PTL

(* A future that _inflight hands out ends and leaves it: no page is wedged. *)
THEOREM NoPageIsWedged == Spec => []InflightIsLive
<1>1. IInv => InflightIsLive
  <2> SUFFICES ASSUME IInv, NEW p \in Pages, inflight[p] # None
               PROVE  \/ Loading(inflight[p]) \/ CallbackDue(inflight[p])
                      \/ \E t \in Threads : lock = t /\ Wanted(t) = p
    BY DEF InflightIsLive
  <2>1. PICK f : f = inflight[p]
    OBVIOUS
  <2>2. f \in Futures /\ futures[f] \in Future /\ futures[f].page = p /\ futures[f].callback # "run"
    BY <2>1, FuturesOfCache DEF IInv, Loads, Types, Pending
  <2>3. Loading(f) \/ Finished(f)
    BY <2>2 DEF Loading, Finished, Future
  <2>4. CASE futures[f].callback = "attached"
    BY <2>1, <2>3, <2>4 DEF CallbackDue
  <2>5. CASE futures[f].callback = "none"
    <3>1. PICK t \in Threads : lock = t /\ inflight[Wanted(t)] = f
      BY <2>2, <2>5 DEF IInv, Loads, Locked
    <3>2. thread[t].todo \in Seq(Pages) /\ thread[t].todo # << >>
      BY <3>1 DEF IInv, Loads, Locked, Starts, InStart
    <3>3. Wanted(t) \in Pages
      BY <3>2, HeadTailProperties DEF Wanted
    <3>4. Wanted(t) = p
      BY <2>2, <3>1, <3>3, FuturesOfCache, NotAThread DEF IInv, Loads, Pending
    <3> QED BY <3>1, <3>4
  <2>6. futures[f].callback \in {"none", "attached"}
    BY <2>2 DEF Future
  <2> QED BY <2>4, <2>5, <2>6
<1> QED BY <1>1, Invariance, PTL

(* Once close has returned, nothing is read and nothing is in _inflight. *)
THEOREM CloseIsQuiet == Spec => []QuietAfterClose
<1>1. IInv => QuietAfterClose
  <2> SUFFICES ASSUME IInv, source = "closed"
               PROVE  /\ \A f \in Futures : Finished(f) /\ futures[f].callback = "run"
                      /\ \A p \in Pages : inflight[p] = None
    BY DEF QuietAfterClose
  <2>1. \A f \in Futures : Finished(f) /\ futures[f].callback = "run"
    BY DEF IInv, Loads, Closing
  <2> QED BY <2>1 DEF IInv, Loads, Types, Pending
<1> QED BY <1>1, Invariance, PTL

(* _resident_bytes is exact and within capacity_bytes, and a page is counted
   once. *)
THEOREM CapacityHolds == Spec => []ResidentExact
<1>1. IInv => ResidentExact
  <2> SUFFICES ASSUME IInv PROVE ResidentExact
    OBVIOUS
  <2>1. /\ cache \in Seq(Pages) /\ IsInjective(cache)
        /\ resident = Size(cache) /\ resident <= Capacity
    BY DEF IInv, Loads, Types, Held
  <2>2. PICK n : n = Len(cache)
    OBVIOUS
  <2>3. /\ DOMAIN cache = 1..n /\ n \in Nat /\ ToSet(cache) = {cache[i] : i \in 1..n}
    BY <2>1, <2>2, PagesOf
  <2>4. IsFiniteSet(1..n) /\ Cardinality(1..n) = n
    BY <2>3, FS_Interval
  <2>5. PICK f : f = [i \in 1..n |-> cache[i]]
    OBVIOUS
  <2>6. f \in Bijection(1..n, ToSet(cache))
    <3>1. f \in [1..n -> ToSet(cache)]
      BY <2>3, <2>5
    <3>2. \A i, j \in 1..n : f[i] = f[j] => i = j
      BY <2>1, <2>3, <2>5 DEF IsInjective
    <3>3. \A q \in ToSet(cache) : \E i \in 1..n : f[i] = q
      BY <2>3, <2>5
    <3>4. IsInjective(f)
      BY <2>5, <3>2 DEF IsInjective
    <3> QED BY <3>1, <3>3, <3>4 DEF Bijection, Injection, Surjection
  <2>7. Cardinality(ToSet(cache)) = n
    <3>1. ExistsBijection(1..n, ToSet(cache))
      BY <2>6 DEF ExistsBijection
    <3> QED BY <2>4, <3>1, FS_Bijection
  <2> QED BY <2>1, <2>2, <2>7 DEF ResidentExact
<1> QED BY <1>1, Invariance, PTL

(* The catalogue of these tensors reads every byte of a page once.  It is about
   the constants alone, and the run evaluates it with PayloadIsPage. *)
CatalogIsRight == \A p \in Pages : Contents[p] = Reference[p]

(* get never gives a caller the future, or the bytes, of another page: with a
   catalogue that is right the payload is the page. *)
THEOREM CallersGetTheirPage == CatalogIsRight => (Spec => []PayloadIsPage)
<1> SUFFICES ASSUME CatalogIsRight PROVE Spec => []PayloadIsPage
  OBVIOUS
<1>1. IInv => PayloadIsPage
  BY DEF IInv, Loads, Asking, PayloadIsPage, CatalogIsRight
<1> QED BY <1>1, Invariance, PTL
=============================================================================
