---------------------------- MODULE MoePagesProofs ----------------------------
(***************************************************************************)
(* Proofs about MoePages for every number of tickets, any routes and pools *)
(* of any size: index, pins and reservations of both pools are exactly     *)
(* what the tickets and the pool owner hold, a page in use stays where it  *)
(* is with its bytes, and a ticket's pages become visible all together.    *)
(***************************************************************************)
EXTENDS MoePages, VramPoolProofs

Slots(n) == IF n = "routed" THEN RoutedSlots ELSE SharedSlots

-----------------------------------------------------------------------------
(* Claims *)

(* A claim is what somebody holds on a slot: a lease, or a reservation. *)
Owner == CHOOSE x : x \notin Tickets
Claim == [who : Tickets \cup {Owner}, pool : PoolName, stamp : PageStamp]
ClaimOf(w, n, stamp) == [who |-> w, pool |-> n, stamp |-> stamp]

At(c, n, s) == c.pool = n /\ c.stamp.slot = s
Holders(L, n, s) == {t \in Tickets : \E c \in L : c.who = t /\ At(c, n, s)}
Live(c, W) == <<c.pool, c.stamp>> \notin W

ByPool(f) == f = [n \in PoolName |-> f[n]]
PoolsSound(ps, mem) ==
  /\ ByPool(ps) /\ \A n \in PoolName : Sound(ps[n], Slots(n))
  /\ ByPool(mem)
  /\ \A n \in PoolName : DOMAIN mem[n] = 1..Slots(n)

(* A leased page is Ready, in the generation it was leased in. *)
LeasesHold(ps, L) ==
  \A c \in L :
    /\ c \in Claim /\ c.who \in Tickets /\ c.stamp.slot \in 1..Slots(c.pool)
    /\ ps[c.pool].state[c.stamp.slot] = Ready(c.stamp.key)
    /\ ps[c.pool].generation[c.stamp.slot] = c.stamp.generation

PinsCount(ps, L) ==
  \A n \in PoolName : \A s \in 1..Slots(n) : ps[n].pins[s] = Cardinality(Holders(L, n, s))

(* A reservation owns its slot unless it was withdrawn, and no two of them were
   ever given the same generation of a slot. *)
ReservationsHold(ps, R, W) ==
  \A c \in R :
    /\ c \in Claim /\ c.stamp.slot \in 1..Slots(c.pool)
    /\ c.stamp.generation <= ps[c.pool].generation[c.stamp.slot]
    /\ Live(c, W) => Holds(ps[c.pool], c.stamp)
    /\ \A d \in R : d.pool = c.pool /\ d.stamp.slot = c.stamp.slot
                      /\ d.stamp.generation = c.stamp.generation => d = c

LoadingOwned(ps, R, W) ==
  \A n \in PoolName : \A s \in 1..Slots(n) : \A k \in Key :
    ps[n].state[s] = Loading(k) => \E c \in R : At(c, n, s) /\ Live(c, W)

(* A withdrawn reservation left its slot Empty, and the slot has moved on since. *)
Past(ps, w) ==
  /\ w[1] \in PoolName /\ w[2].slot \in 1..Slots(w[1])
  /\ w[2].generation \in Nat /\ w[2].generation <= ps[w[1]].generation[w[2].slot]
  /\ w[2].generation = ps[w[1]].generation[w[2].slot] => ps[w[1]].state[w[2].slot] = Empty
WithdrawnPast(ps, W) == \A w \in W : Past(ps, w)

(* A Ready slot, and one whose upload is complete, hold the bytes of their key. *)
BytesInPlace(ps, mem, R, U) ==
  /\ \A n \in PoolName : \A s \in 1..Slots(n) : \A k \in Key :
       ps[n].state[s] = Ready(k) => mem[n][s] = k
  /\ \A c \in R : c.who \in U /\ Holds(ps[c.pool], c.stamp) =>
       mem[c.pool][c.stamp.slot] = c.stamp.key

(* The pools `ps` with the bytes `mem` are what the leases L and the reservations
   R make of them, when W were withdrawn and those of U are uploaded. *)
Ledger(ps, mem, L, R, W, U) ==
  /\ PoolsSound(ps, mem) /\ LeasesHold(ps, L) /\ PinsCount(ps, L)
  /\ ReservationsHold(ps, R, W) /\ LoadingOwned(ps, R, W) /\ WithdrawnPast(ps, W)
  /\ BytesInPlace(ps, mem, R, U)

-----------------------------------------------------------------------------
(* The claims of the tickets *)

PageType == [pool : PoolName, hit : BOOLEAN, stamp : PageStamp]
Ticket == [status : {"none", "loading", "leased"}, pages : Seq(PageType), uploaded : BOOLEAN]
Load == [pool : PoolName, stamp : PageStamp]

Held(t, c) == \E g \in Range(t.pages) :
                g.pool = c.pool /\ g.stamp = c.stamp /\ (g.hit \/ t.status = "leased")
Awaited(t, c) == \E g \in Range(t.pages) :
                   g.pool = c.pool /\ g.stamp = c.stamp /\ ~g.hit /\ t.status = "loading"

LeasesIn(tk) == {c \in Claim : c.who \in Tickets /\ Held(tk[c.who], c)}
ReservationsIn(tk, own) ==
  {c \in Claim : IF c.who \in Tickets THEN Awaited(tk[c.who], c)
                 ELSE own # NoLoad /\ c.pool = own.pool /\ c.stamp = own.stamp}
UploadedIn(tk) == {t \in Tickets : tk[t].uploaded}

(* A ticket asks for each page once. *)
SamePage(g, h) == g.pool = h.pool /\ g.stamp.key = h.stamp.key
TicketsTyped(tk) ==
  /\ tk \in [Tickets -> Ticket]
  /\ \A t \in Tickets :
       /\ tk[t].status = "none" => tk[t] = NoTicket
       /\ \A i, j \in DOMAIN tk[t].pages : SamePage(tk[t].pages[i], tk[t].pages[j]) => i = j

Consistent(ps, mem, tk, own, wd) ==
  /\ TicketsTyped(tk) /\ own \in Load \cup {NoLoad}
  /\ Ledger(ps, mem, LeasesIn(tk), ReservationsIn(tk, own), wd, UploadedIn(tk))

IInv == Consistent(pools, memory, tickets, ownLoad, withdrawn)

-----------------------------------------------------------------------------
(* Facts of a ledger *)

(* The owner of a pool is told apart from every ticket. *)
LEMMA OwnerIsNoTicket == Owner \notin Tickets
<1>1. \E x : x \notin Tickets
  BY NoSetContainsEverything
<1> QED BY <1>1 DEF Owner

(* Both pools have at least one slot. *)
LEMMA SlotsType == \A n \in PoolName : Slots(n) \in Nat \ {0}
BY MoeAssumption DEF Slots

(* Finitely many tickets hold a slot, so its pins can be their number. *)
LEMMA HoldersFinite ==
  ASSUME NEW L, NEW n, NEW s
  PROVE  /\ IsFiniteSet(Holders(L, n, s)) /\ Cardinality(Holders(L, n, s)) \in Nat
         /\ Cardinality(Holders(L, n, s)) = 0 <=> Holders(L, n, s) = {}
<1>1. Holders(L, n, s) \subseteq Tickets
  BY DEF Holders
<1>2. IsFiniteSet(Holders(L, n, s))
  BY <1>1, MoeAssumption, FS_Subset
<1> QED BY <1>2, FS_CardinalityType, FS_EmptySet

(* The fields of a pool. *)
LEMMA PoolFields ==
  ASSUME NEW ps, NEW mem, PoolsSound(ps, mem), NEW n \in PoolName
  PROVE  /\ SlotsOf(ps[n]) = 1..Slots(n) /\ Slots(n) \in Nat
         /\ ps[n].state \in [1..Slots(n) -> SlotState] /\ ps[n].pins \in [1..Slots(n) -> Nat]
         /\ ps[n].generation \in [1..Slots(n) -> Nat]
<1>1. Slots(n) \in Nat /\ Sound(ps[n], Slots(n))
  BY SlotsType DEF PoolsSound
<1> QED BY <1>1, SlotsOfPool DEF Sound, PoolType

(* Nobody pins a slot that is not Ready, or whose count is 0. *)
LEMMA Unpinned ==
  ASSUME NEW ps, NEW mem, NEW L, PoolsSound(ps, mem), LeasesHold(ps, L), PinsCount(ps, L),
         NEW n \in PoolName, NEW s \in 1..Slots(n),
         ps[n].pins[s] = 0 \/ \A k \in Key : ps[n].state[s] # Ready(k)
  PROVE  /\ Holders(L, n, s) = {} /\ ps[n].pins[s] = 0
         /\ \A c \in L : ~At(c, n, s)
<1>1. ASSUME NEW c \in L, At(c, n, s)
      PROVE  c.who \in Holders(L, n, s) /\ \E k \in Key : ps[n].state[s] = Ready(k)
  <2>1. c.who \in Tickets /\ c.pool = n /\ c.stamp.slot = s /\ ps[n].state[s] = Ready(c.stamp.key)
    BY <1>1 DEF LeasesHold, At
  <2>2. c.stamp.key \in Key
    BY <1>1 DEF LeasesHold, Claim, PageStamp
  <2> QED BY <1>1, <2>1, <2>2 DEF Holders
<1>2. Holders(L, n, s) = {}
  <2>1. CASE ps[n].pins[s] = 0
    BY <2>1, HoldersFinite DEF PinsCount
  <2>2. CASE \A k \in Key : ps[n].state[s] # Ready(k)
    BY <1>1, <2>2 DEF Holders
  <2> QED BY <2>1, <2>2
<1>3. ps[n].pins[s] = 0
  BY <1>2, HoldersFinite DEF PinsCount
<1> QED BY <1>1, <1>2, <1>3

(* A slot whose reservation holds is Loading. *)
LEMMA HoldsSlot ==
  ASSUME NEW p, NEW r, Holds(p, r)
  PROVE  /\ p.state[r.slot] = Loading(r.key) /\ p.generation[r.slot] = r.generation
         /\ p.state[r.slot].key = r.key /\ \A k : p.state[r.slot] # Ready(k)
         /\ p.state[r.slot] # Empty
BY StatesDiffer, Tags DEF Holds

-----------------------------------------------------------------------------
(* Steps of a ledger *)

(* Leases and reservations are given up, or change hands, and some of the slots
   that were Loading become Empty. *)
LEMMA GivenUp ==
  ASSUME NEW ps, NEW mem, NEW L, NEW R, NEW W, NEW U, Ledger(ps, mem, L, R, W, U),
         NEW ps2, NEW L2, NEW R2, NEW W2, NEW U2, PoolsSound(ps2, mem),
         R2 \subseteq R, U2 \subseteq U,
         \A n \in PoolName : \A s \in 1..Slots(n) :
           /\ ps2[n].generation[s] = ps[n].generation[s]
           /\ ps2[n].state[s] = ps[n].state[s]
                \/ (ps2[n].state[s] = Empty /\ \E k \in Key : ps[n].state[s] = Loading(k)),
         LeasesHold(ps2, L2), PinsCount(ps2, L2),
         \A c \in R2 : Live(c, W2) =>
           Live(c, W) /\ ps2[c.pool].state[c.stamp.slot] = ps[c.pool].state[c.stamp.slot],
         \A c \in R : Live(c, W) /\ ps2[c.pool].state[c.stamp.slot] # Empty =>
           c \in R2 /\ Live(c, W2),
         \A w \in W2 : w \in W \/ \E c \in R : /\ w = <<c.pool, c.stamp>>
                                              /\ ps2[c.pool].state[c.stamp.slot] = Empty
  PROVE  Ledger(ps2, mem, L2, R2, W2, U2)
<1>1. ReservationsHold(ps2, R2, W2)
  <2> SUFFICES ASSUME NEW c \in R2
               PROVE  /\ c \in Claim /\ c.stamp.slot \in 1..Slots(c.pool)
                      /\ c.stamp.generation <= ps2[c.pool].generation[c.stamp.slot]
                      /\ Live(c, W2) => Holds(ps2[c.pool], c.stamp)
                      /\ \A d \in R2 : d.pool = c.pool /\ d.stamp.slot = c.stamp.slot
                           /\ d.stamp.generation = c.stamp.generation => d = c
    BY DEF ReservationsHold
  <2>1. /\ c \in Claim /\ c.stamp.slot \in 1..Slots(c.pool)
        /\ c.stamp.generation <= ps[c.pool].generation[c.stamp.slot]
        /\ Live(c, W) => Holds(ps[c.pool], c.stamp)
        /\ \A d \in R2 : d.pool = c.pool /\ d.stamp.slot = c.stamp.slot
             /\ d.stamp.generation = c.stamp.generation => d = c
    BY DEF Ledger, ReservationsHold
  <2>2. c.pool \in PoolName
    BY <2>1 DEF Claim
  <2>3. ps2[c.pool].generation[c.stamp.slot] = ps[c.pool].generation[c.stamp.slot]
    BY <2>1, <2>2
  <2>4. Live(c, W2) => Holds(ps2[c.pool], c.stamp)
    BY <2>1, <2>3 DEF Holds
  <2> QED BY <2>1, <2>3, <2>4
<1>2. LoadingOwned(ps2, R2, W2)
  <2> SUFFICES ASSUME NEW n \in PoolName, NEW s \in 1..Slots(n), NEW k \in Key,
                      ps2[n].state[s] = Loading(k)
               PROVE  \E c \in R2 : At(c, n, s) /\ Live(c, W2)
    BY DEF LoadingOwned
  <2>1. ps2[n].state[s] # Empty /\ ps[n].state[s] = Loading(k)
    BY StatesDiffer
  <2>2. PICK c \in R : At(c, n, s) /\ Live(c, W)
    BY <2>1 DEF Ledger, LoadingOwned
  <2>3. c \in R2 /\ Live(c, W2)
    BY <2>1, <2>2 DEF At
  <2> QED BY <2>2, <2>3
<1>3. WithdrawnPast(ps2, W2)
  <2> SUFFICES ASSUME NEW w \in W2 PROVE Past(ps2, w)
    BY DEF WithdrawnPast
  <2>1. CASE w \in W
    <3>1. Past(ps, w)
      BY <2>1 DEF Ledger, WithdrawnPast
    <3>2. /\ ps2[w[1]].generation[w[2].slot] = ps[w[1]].generation[w[2].slot]
          /\ ps2[w[1]].state[w[2].slot] = ps[w[1]].state[w[2].slot]
               \/ ps2[w[1]].state[w[2].slot] = Empty
      BY <3>1 DEF Past
    <3> QED BY <3>1, <3>2 DEF Past
  <2>2. CASE \E c \in R : w = <<c.pool, c.stamp>> /\ ps2[c.pool].state[c.stamp.slot] = Empty
    <3>1. PICK c \in R : w = <<c.pool, c.stamp>> /\ ps2[c.pool].state[c.stamp.slot] = Empty
      BY <2>2
    <3>2. /\ c \in Claim /\ c.stamp.slot \in 1..Slots(c.pool)
          /\ c.stamp.generation <= ps[c.pool].generation[c.stamp.slot]
      BY DEF Ledger, ReservationsHold
    <3>3. c.pool \in PoolName /\ w[1] = c.pool /\ w[2] = c.stamp /\ c.stamp.generation \in Nat
      BY <3>1, <3>2 DEF Claim, PageStamp
    <3>4. ps2[c.pool].generation[c.stamp.slot] = ps[c.pool].generation[c.stamp.slot]
      BY <3>2, <3>3
    <3> QED BY <3>1, <3>2, <3>3, <3>4 DEF Past
  <2> QED BY <2>1, <2>2
<1>4. BytesInPlace(ps2, mem, R2, U2)
  <2>1. ASSUME NEW n \in PoolName, NEW s \in 1..Slots(n), NEW k \in Key, ps2[n].state[s] = Ready(k)
        PROVE  mem[n][s] = k
    <3>1. ps[n].state[s] = Ready(k)
      BY <2>1, StatesDiffer
    <3> QED BY <3>1 DEF Ledger, BytesInPlace
  <2>2. ASSUME NEW c \in R2, c.who \in U2, Holds(ps2[c.pool], c.stamp)
        PROVE  mem[c.pool][c.stamp.slot] = c.stamp.key
    <3>1. c \in R /\ c \in Claim /\ c.stamp.slot \in 1..Slots(c.pool)
      BY DEF Ledger, ReservationsHold
    <3>2. c.pool \in PoolName
      BY <3>1 DEF Claim
    <3>3. Holds(ps[c.pool], c.stamp)
      <4>1. ps2[c.pool].state[c.stamp.slot] # Empty
        BY <2>2, HoldsSlot
      <4> QED BY <2>2, <3>1, <3>2, <4>1 DEF Holds
    <3> QED BY <2>2, <3>1, <3>3 DEF Ledger, BytesInPlace
  <2> QED BY <2>1, <2>2 DEF BytesInPlace
<1> QED BY <1>1, <1>2, <1>3, <1>4 DEF Ledger

(* No slot of q is Ready that was not so before. *)
NoneReady(p, q, n) == \A s \in 1..n, k \in Key : q.state[s] = Ready(k) => p.state[s] = Ready(k)

(* A slot that was Empty, or Ready and unpinned, is reserved. *)
LEMMA SlotReserved ==
  ASSUME NEW ps, NEW mem, NEW L, NEW R, NEW W, NEW U, Ledger(ps, mem, L, R, W, U),
         NEW n \in PoolName, NEW k \in Key, CanReserve(ps[n], k),
         NEW w \in Tickets \cup {Owner}, w \notin U, NEW q, q = Reserve(ps[n], k),
         NEW c, c = ClaimOf(w, n, Stamp(q, k, SlotFor(ps[n])))
  PROVE  /\ Ledger([ps EXCEPT ![n] = q], mem, L, R \cup {c}, W, U)
         /\ c \in Claim /\ c.stamp.slot \in 1..Slots(n)
         /\ NoneReady(ps[n], q, Slots(n)) /\ Live(c, W)
<1>1. PICK s, p, ps2 : s = SlotFor(ps[n]) /\ p = ps[n] /\ ps2 = [ps EXCEPT ![n] = q]
  OBVIOUS
<1>2. /\ PoolsSound(ps, mem) /\ LeasesHold(ps, L) /\ PinsCount(ps, L)
      /\ ReservationsHold(ps, R, W) /\ LoadingOwned(ps, R, W) /\ WithdrawnPast(ps, W)
      /\ BytesInPlace(ps, mem, R, U)
  BY DEF Ledger
<1>3. /\ p.state \in [1..Slots(n) -> SlotState] /\ p.pins \in [1..Slots(n) -> Nat]
      /\ p.generation \in [1..Slots(n) -> Nat] /\ Slots(n) \in Nat /\ Sound(p, Slots(n))
  <2>1. Sound(p, Slots(n))
    BY <1>1, <1>2 DEF PoolsSound
  <2> QED BY <1>1, <1>2, <2>1, PoolFields
<1>4. /\ s \in 1..Slots(n)
      /\ p.state[s] = Empty \/ (p.pins[s] = 0 /\ \E l \in Key : p.state[s] = Ready(l))
      /\ Sound(q, Slots(n)) /\ OthersKept(p, q, Slots(n), s)
      /\ q.state[s] = Loading(k) /\ q.pins[s] = 0 /\ q.generation[s] = p.generation[s] + 1
  <2>1. /\ Sound(p, Slots(n)) /\ CanReserve(p, k) /\ Slots(n) \in Nat
        /\ q = Reserve(p, k) /\ s = SlotFor(p)
    BY <1>1, <1>3
  <2> QED BY <2>1, Reserved
<1>5. /\ q.state[s] = Loading(k) /\ q.pins[s] = 0 /\ q.generation[s] = p.generation[s] + 1
      /\ \A u \in 1..Slots(n) : u # s =>
           /\ q.state[u] = p.state[u] /\ q.pins[u] = p.pins[u]
           /\ q.generation[u] = p.generation[u]
      /\ p.generation[s] \in Nat /\ q.generation[s] \in Nat
  BY <1>3, <1>4 DEF OthersKept
<1>6. DOMAIN ps = PoolName /\ ps2[n] = q /\ \A m \in PoolName : m # n => ps2[m] = ps[m]
  <2>1. DOMAIN ps = PoolName
    BY <1>2 DEF PoolsSound, ByPool
  <2> QED BY <1>1, <2>1
<1>7. PoolsSound(ps2, mem)
  <2>1. ByPool(ps2)
    BY <1>1, <1>6 DEF ByPool
  <2>2. \A m \in PoolName : Sound(ps2[m], Slots(m))
    BY <1>2, <1>4, <1>6 DEF PoolsSound
  <2> QED BY <1>2, <2>1, <2>2 DEF PoolsSound
<1>8. /\ c.who = w /\ c.pool = n /\ c.stamp.slot = s /\ c.stamp.key = k
      /\ c.stamp.generation = q.generation[s] /\ c \in Claim
  <2>1. /\ c.who = w /\ c.pool = n /\ c.stamp = [key |-> k, slot |-> s, generation |-> q.generation[s]]
        /\ c = [who |-> w, pool |-> n, stamp |-> [key |-> k, slot |-> s, generation |-> q.generation[s]]]
    BY <1>1 DEF ClaimOf, Stamp
  <2>2. s \in Nat
    BY <1>3, <1>4
  <2> QED BY <1>5, <2>1, <2>2 DEF Claim, PageStamp
<1>9. Holders(L, n, s) = {} /\ \A d \in L : ~At(d, n, s)
  <2>1. p.pins[s] = 0 \/ \A l \in Key : p.state[s] # Ready(l)
    BY <1>4, StatesDiffer
  <2> QED BY <1>1, <1>2, <1>4, <2>1, Unpinned
<1>10. LeasesHold(ps2, L)
  <2> SUFFICES ASSUME NEW d \in L
               PROVE  /\ d \in Claim /\ d.who \in Tickets /\ d.stamp.slot \in 1..Slots(d.pool)
                      /\ ps2[d.pool].state[d.stamp.slot] = Ready(d.stamp.key)
                      /\ ps2[d.pool].generation[d.stamp.slot] = d.stamp.generation
    BY DEF LeasesHold
  <2>1. /\ d \in Claim /\ d.who \in Tickets /\ d.stamp.slot \in 1..Slots(d.pool)
        /\ ps[d.pool].state[d.stamp.slot] = Ready(d.stamp.key)
        /\ ps[d.pool].generation[d.stamp.slot] = d.stamp.generation
    BY <1>2 DEF LeasesHold
  <2>2. d.pool \in PoolName
    BY <2>1 DEF Claim
  <2>3. d.pool = n => d.stamp.slot # s
    BY <1>9 DEF At
  <2> QED BY <1>1, <1>5, <1>6, <2>1, <2>2, <2>3
<1>11. PinsCount(ps2, L)
  <2> SUFFICES ASSUME NEW m \in PoolName, NEW u \in 1..Slots(m)
               PROVE  ps2[m].pins[u] = Cardinality(Holders(L, m, u))
    BY DEF PinsCount
  <2>1. ps[m].pins[u] = Cardinality(Holders(L, m, u))
    BY <1>2 DEF PinsCount
  <2>2. CASE m = n /\ u = s
    BY <1>5, <1>6, <1>9, <2>2, FS_EmptySet
  <2>3. CASE ~(m = n /\ u = s)
    BY <1>1, <1>5, <1>6, <2>1, <2>3
  <2> QED BY <2>2, <2>3
<1>12. \A d \in R : /\ d \in Claim /\ d.pool \in PoolName /\ d.stamp.slot \in 1..Slots(d.pool)
                    /\ d.stamp.generation <= ps[d.pool].generation[d.stamp.slot]
                    /\ d.stamp.generation \in Nat
                    /\ Live(d, W) => Holds(ps[d.pool], d.stamp)
  BY <1>2 DEF ReservationsHold, Claim, PageStamp
<1>13. \A d \in R : At(d, n, s) => /\ ~Live(d, W)
                                   /\ d.stamp.generation < q.generation[s]
  <2> SUFFICES ASSUME NEW d \in R, At(d, n, s)
               PROVE  ~Live(d, W) /\ d.stamp.generation < q.generation[s]
    OBVIOUS
  <2>1. d.pool = n /\ d.stamp.slot = s
    BY DEF At
  <2>2. ~Holds(ps[n], d.stamp)
    BY <1>1, <1>4, <2>1, HoldsSlot
  <2>3. d.stamp.generation <= p.generation[s] /\ d.stamp.generation \in Nat
    BY <1>1, <1>12, <2>1
  <2>4. d.stamp.generation < q.generation[s]
    BY <1>5, <2>3
  <2> QED BY <1>12, <2>1, <2>2, <2>4
<1>14. Live(c, W)
  <2>1. ASSUME <<c.pool, c.stamp>> \in W PROVE FALSE
    <3>1. c.stamp.generation <= ps[c.pool].generation[c.stamp.slot]
      BY <1>2, <2>1 DEF WithdrawnPast, Past
    <3>2. p.generation[s] + 1 <= p.generation[s]
      BY <1>1, <1>5, <1>8, <3>1
    <3> QED BY <1>5, <3>2
  <2> QED BY <2>1 DEF Live
<1>15. ReservationsHold(ps2, R \cup {c}, W)
  <2>1. \A d \in R : d # c /\ ~(/\ d.pool = c.pool /\ d.stamp.slot = c.stamp.slot
                                /\ d.stamp.generation = c.stamp.generation)
    <3> SUFFICES ASSUME NEW d \in R, d.pool = c.pool, d.stamp.slot = c.stamp.slot,
                        d.stamp.generation = c.stamp.generation
                 PROVE  FALSE
      OBVIOUS
    <3>1. d.stamp.generation < q.generation[s] /\ d.stamp.generation = q.generation[s]
      BY <1>8, <1>13 DEF At
    <3> QED BY <1>5, <3>1
  <2>2. ASSUME NEW d \in R
        PROVE  /\ d.stamp.generation <= ps2[d.pool].generation[d.stamp.slot]
               /\ Live(d, W) => Holds(ps2[d.pool], d.stamp)
    <3>1. CASE At(d, n, s)
      <4>1. d.stamp.generation < q.generation[s] /\ ~Live(d, W)
        BY <1>13, <3>1
      <4>2. ps2[d.pool].generation[d.stamp.slot] = q.generation[s]
        BY <1>6, <3>1 DEF At
      <4>3. d.stamp.generation <= q.generation[s]
        BY <1>5, <1>12, <4>1
      <4> QED BY <4>1, <4>2, <4>3
    <3>2. CASE ~At(d, n, s)
      <4>1. /\ ps2[d.pool].generation[d.stamp.slot] = ps[d.pool].generation[d.stamp.slot]
            /\ ps2[d.pool].state[d.stamp.slot] = ps[d.pool].state[d.stamp.slot]
        <5>1. d.pool \in PoolName /\ d.stamp.slot \in 1..Slots(d.pool) /\ (d.pool = n => d.stamp.slot # s)
          BY <1>12, <3>2 DEF At
        <5> QED BY <1>1, <1>5, <1>6, <5>1
      <4> QED BY <1>12, <4>1 DEF Holds
    <3> QED BY <3>1, <3>2
  <2>3. /\ c.stamp.slot \in 1..Slots(c.pool)
        /\ c.stamp.generation <= ps2[c.pool].generation[c.stamp.slot]
        /\ Holds(ps2[c.pool], c.stamp)
    <3>1. c.stamp.slot \in 1..Slots(c.pool) /\ ps2[c.pool] = q
      BY <1>4, <1>6, <1>8
    <3>2. q.generation[s] <= q.generation[s]
      BY <1>5
    <3> QED BY <1>5, <1>8, <3>1, <3>2 DEF Holds
  <2>4. \A d, e \in R : e.pool = d.pool /\ e.stamp.slot = d.stamp.slot
                          /\ e.stamp.generation = d.stamp.generation => e = d
    BY <1>2 DEF ReservationsHold
  <2> SUFFICES ASSUME NEW d \in R \cup {c}
               PROVE  /\ d \in Claim /\ d.stamp.slot \in 1..Slots(d.pool)
                      /\ d.stamp.generation <= ps2[d.pool].generation[d.stamp.slot]
                      /\ Live(d, W) => Holds(ps2[d.pool], d.stamp)
                      /\ \A e \in R \cup {c} : e.pool = d.pool /\ e.stamp.slot = d.stamp.slot
                           /\ e.stamp.generation = d.stamp.generation => e = d
    BY DEF ReservationsHold
  <2>5. CASE d \in R
    <3>1. \A e \in R \cup {c} : e.pool = d.pool /\ e.stamp.slot = d.stamp.slot
            /\ e.stamp.generation = d.stamp.generation => e = d
      BY <2>1, <2>4, <2>5
    <3> QED BY <1>12, <2>2, <2>5, <3>1
  <2>6. CASE d = c
    <3>1. \A e \in R \cup {c} : e.pool = d.pool /\ e.stamp.slot = d.stamp.slot
            /\ e.stamp.generation = d.stamp.generation => e = d
      BY <2>1, <2>6
    <3> QED BY <1>8, <2>3, <2>6, <3>1
  <2> QED BY <2>5, <2>6
<1>16. LoadingOwned(ps2, R \cup {c}, W)
  <2> SUFFICES ASSUME NEW m \in PoolName, NEW u \in 1..Slots(m), NEW l \in Key,
                      ps2[m].state[u] = Loading(l)
               PROVE  \E d \in R \cup {c} : At(d, m, u) /\ Live(d, W)
    BY DEF LoadingOwned
  <2>1. CASE m = n /\ u = s
    BY <1>8, <1>14, <2>1 DEF At
  <2>2. CASE ~(m = n /\ u = s)
    <3>1. ps[m].state[u] = Loading(l)
      BY <1>1, <1>5, <1>6, <2>2
    <3> QED BY <1>2, <3>1 DEF LoadingOwned
  <2> QED BY <2>1, <2>2
<1>17. WithdrawnPast(ps2, W)
  <2> SUFFICES ASSUME NEW x \in W PROVE Past(ps2, x)
    BY DEF WithdrawnPast
  <2>1. PICK m, u, g : m = x[1] /\ u = x[2].slot /\ g = x[2].generation
    OBVIOUS
  <2>2. /\ m \in PoolName /\ u \in 1..Slots(m) /\ g \in Nat /\ g <= ps[m].generation[u]
        /\ g = ps[m].generation[u] => ps[m].state[u] = Empty
    BY <1>2, <2>1 DEF WithdrawnPast, Past
  <2>3. CASE m = n /\ u = s
    <3>1. ps2[m].generation[u] = p.generation[s] + 1 /\ g <= p.generation[s]
      BY <1>1, <1>5, <1>6, <2>2, <2>3
    <3>2. g <= p.generation[s] + 1 /\ g # p.generation[s] + 1
      BY <1>5, <2>2, <3>1
    <3> QED BY <2>1, <2>2, <3>1, <3>2 DEF Past
  <2>4. CASE ~(m = n /\ u = s)
    <3>1. ps2[m].generation[u] = ps[m].generation[u] /\ ps2[m].state[u] = ps[m].state[u]
      BY <1>1, <1>5, <1>6, <2>2, <2>4
    <3> QED BY <2>1, <2>2, <3>1 DEF Past
  <2> QED BY <2>3, <2>4
<1>18. BytesInPlace(ps2, mem, R \cup {c}, U)
  <2>1. ASSUME NEW m \in PoolName, NEW u \in 1..Slots(m), NEW l \in Key, ps2[m].state[u] = Ready(l)
        PROVE  mem[m][u] = l
    <3>1. ps[m].state[u] = Ready(l)
      <4>1. ~(m = n /\ u = s)
        BY <1>5, <1>6, <2>1, StatesDiffer
      <4> QED BY <1>1, <1>5, <1>6, <2>1, <4>1
    <3> QED BY <1>2, <3>1 DEF BytesInPlace
  <2>2. ASSUME NEW d \in R \cup {c}, d.who \in U, Holds(ps2[d.pool], d.stamp)
        PROVE  mem[d.pool][d.stamp.slot] = d.stamp.key
    <3>1. d \in R
      BY <1>8, <2>2
    <3>2. d.stamp.generation = ps2[d.pool].generation[d.stamp.slot]
      BY <2>2 DEF Holds
    <3>3. ~At(d, n, s)
      <4> SUFFICES ASSUME At(d, n, s) PROVE FALSE
        OBVIOUS
      <4>1. d.stamp.generation < q.generation[s] /\ d.stamp.generation = q.generation[s]
        BY <1>6, <1>13, <3>1, <3>2 DEF At
      <4> QED BY <1>5, <4>1
    <3>4. d.pool \in PoolName /\ d.stamp.slot \in 1..Slots(d.pool) /\ (d.pool = n => d.stamp.slot # s)
      BY <1>12, <3>1, <3>3 DEF At
    <3>5. /\ ps2[d.pool].generation[d.stamp.slot] = ps[d.pool].generation[d.stamp.slot]
          /\ ps2[d.pool].state[d.stamp.slot] = ps[d.pool].state[d.stamp.slot]
      BY <1>1, <1>5, <1>6, <3>4
    <3>6. Holds(ps[d.pool], d.stamp)
      BY <2>2, <3>5 DEF Holds
    <3> QED BY <1>2, <2>2, <3>1, <3>6 DEF BytesInPlace
  <2> QED BY <2>1, <2>2 DEF BytesInPlace
<1>19. Ledger(ps2, mem, L, R \cup {c}, W, U)
  BY <1>7, <1>10, <1>11, <1>15, <1>16, <1>17, <1>18 DEF Ledger
<1>20. NoneReady(p, q, Slots(n))
  BY <1>5, StatesDiffer DEF NoneReady
<1> QED BY <1>1, <1>4, <1>8, <1>14, <1>19, <1>20

(* A reservation that holds its slot was not withdrawn, and nobody else holds it. *)
LEMMA HoldsAlone ==
  ASSUME NEW ps, NEW mem, NEW L, NEW R, NEW W, NEW U, Ledger(ps, mem, L, R, W, U),
         NEW c \in R, Holds(ps[c.pool], c.stamp)
  PROVE  /\ Live(c, W)
         /\ \A d \in R : At(d, c.pool, c.stamp.slot) /\ Holds(ps[c.pool], d.stamp) => d = c
         /\ \A d \in R : At(d, c.pool, c.stamp.slot) /\ Live(d, W) => d = c
<1>1. /\ PoolsSound(ps, mem) /\ ReservationsHold(ps, R, W) /\ WithdrawnPast(ps, W)
  BY DEF Ledger
<1>2. /\ c \in Claim /\ c.stamp.slot \in 1..Slots(c.pool) /\ c.pool \in PoolName
      /\ c.stamp.key \in Key
  BY <1>1 DEF ReservationsHold, Claim, PageStamp
<1>3. ps[c.pool].state[c.stamp.slot] # Empty /\ ps[c.pool].generation[c.stamp.slot] = c.stamp.generation
  BY HoldsSlot
<1>4. Live(c, W)
  <2>1. ASSUME <<c.pool, c.stamp>> \in W PROVE FALSE
    <3>1. Past(ps, <<c.pool, c.stamp>>)
      BY <1>1, <2>1 DEF WithdrawnPast
    <3> QED BY <1>3, <3>1 DEF Past
  <2> QED BY <2>1 DEF Live
<1>5. \A d \in R : At(d, c.pool, c.stamp.slot) /\ Holds(ps[c.pool], d.stamp) => d = c
  BY <1>1, <1>3, HoldsSlot DEF ReservationsHold, At
<1>6. \A d \in R : At(d, c.pool, c.stamp.slot) /\ Live(d, W) => d = c
  BY <1>1, <1>5 DEF ReservationsHold, At
<1> QED BY <1>4, <1>5, <1>6

(* A claim of L2 beside those of L. *)
LEMMA HolderAdded ==
  ASSUME NEW L, NEW c, c.who \in Tickets, NEW n, NEW s
  PROVE  /\ At(c, n, s) => Holders(L \cup {c}, n, s) = Holders(L, n, s) \cup {c.who}
         /\ ~At(c, n, s) => Holders(L \cup {c}, n, s) = Holders(L, n, s)
<1>1. CASE At(c, n, s)
  <2>1. \A t \in Tickets : (\E d \in L \cup {c} : d.who = t /\ At(d, n, s))
                             <=> (\E d \in L : d.who = t /\ At(d, n, s)) \/ t = c.who
    BY <1>1
  <2> QED BY <1>1, <2>1 DEF Holders
<1>2. CASE ~At(c, n, s)
  <2>1. \A t \in Tickets : (\E d \in L \cup {c} : d.who = t /\ At(d, n, s))
                             <=> (\E d \in L : d.who = t /\ At(d, n, s))
    BY <1>2
  <2> QED BY <1>2, <2>1 DEF Holders
<1> QED BY <1>1, <1>2

(* The bytes change in at most one slot. *)
Stored(mem, mem2, n, s) ==
  \A m \in PoolName : /\ DOMAIN mem2[m] = 1..Slots(m)
                      /\ \A u \in 1..Slots(m) : mem2[m][u] = mem[m][u] \/ (m = n /\ u = s)
(* The claim c becomes a lease, and so the only pin, or nobody's. *)
LeasedAs(L, L2, c, pins) == \/ L2 = L /\ pins = 0
                            \/ L2 = L \cup {c} /\ c.who \in Tickets /\ pins = 1

(* A reserved slot becomes Ready: leased by its ticket, or left unpinned. *)
LEMMA SlotVisible ==
  ASSUME NEW ps, NEW mem, NEW L, NEW R, NEW W, NEW U, Ledger(ps, mem, L, R, W, U),
         NEW c \in R, NEW n, NEW s, n = c.pool, s = c.stamp.slot, Holds(ps[n], c.stamp),
         NEW q, Sound(q, Slots(n)), OthersKept(ps[n], q, Slots(n), s),
         q.state[s] = Ready(c.stamp.key), q.generation[s] = ps[n].generation[s],
         NEW mem2, ByPool(mem2), mem2[n][s] = c.stamp.key,
         Stored(mem, mem2, n, s), NEW L2, LeasedAs(L, L2, c, q.pins[s])
  PROVE  Ledger([ps EXCEPT ![n] = q], mem2, L2, R \ {c}, W, U)
<1> USE DEF Stored, LeasedAs
<1>1. PICK p, ps2 : p = ps[n] /\ ps2 = [ps EXCEPT ![n] = q]
  OBVIOUS
<1>2. /\ PoolsSound(ps, mem) /\ LeasesHold(ps, L) /\ PinsCount(ps, L)
      /\ ReservationsHold(ps, R, W) /\ LoadingOwned(ps, R, W) /\ WithdrawnPast(ps, W)
      /\ BytesInPlace(ps, mem, R, U)
  BY DEF Ledger
<1>3. /\ c \in Claim /\ n \in PoolName /\ s \in 1..Slots(n) /\ c.stamp.key \in Key
  BY <1>2 DEF ReservationsHold, Claim, PageStamp
<1>4. /\ p.state[s] = Loading(c.stamp.key) /\ p.generation[s] = c.stamp.generation
      /\ \A k : p.state[s] # Ready(k)
  BY <1>1, HoldsSlot, SMTT(30)
<1>5. /\ q.state[s] = Ready(c.stamp.key) /\ q.generation[s] = p.generation[s]
      /\ \A u \in 1..Slots(n) : u # s =>
           /\ q.state[u] = p.state[u] /\ q.pins[u] = p.pins[u]
           /\ q.generation[u] = p.generation[u]
  BY <1>1 DEF OthersKept
<1>6. DOMAIN ps = PoolName /\ ps2[n] = q /\ \A m \in PoolName : m # n => ps2[m] = ps[m]
  <2>1. DOMAIN ps = PoolName
    BY <1>2 DEF PoolsSound, ByPool
  <2> QED BY <1>1, <1>3, <2>1
<1>7. \A m \in PoolName : \A u \in 1..Slots(m) :
        /\ ps2[m].generation[u] = ps[m].generation[u]
        /\ (m = n /\ u = s) \/ (/\ ps2[m].state[u] = ps[m].state[u]
                                /\ ps2[m].pins[u] = ps[m].pins[u] /\ mem2[m][u] = mem[m][u])
  BY <1>1, <1>5, <1>6
<1>8. PoolsSound(ps2, mem2)
  <2>1. ByPool(ps2)
    BY <1>1, <1>6 DEF ByPool
  <2>2. \A m \in PoolName : Sound(ps2[m], Slots(m))
    BY <1>2, <1>6 DEF PoolsSound
  <2> QED BY <2>1, <2>2 DEF PoolsSound
<1>9. Holders(L, n, s) = {} /\ \A d \in L : ~At(d, n, s)
  BY <1>1, <1>2, <1>3, <1>4, Unpinned
<1>10. LeasesHold(ps2, L2)
  <2> SUFFICES ASSUME NEW d \in L2
               PROVE  /\ d \in Claim /\ d.who \in Tickets /\ d.stamp.slot \in 1..Slots(d.pool)
                      /\ ps2[d.pool].state[d.stamp.slot] = Ready(d.stamp.key)
                      /\ ps2[d.pool].generation[d.stamp.slot] = d.stamp.generation
    BY DEF LeasesHold
  <2>1. CASE d \in L
    <3>1. /\ d \in Claim /\ d.who \in Tickets /\ d.stamp.slot \in 1..Slots(d.pool)
          /\ ps[d.pool].state[d.stamp.slot] = Ready(d.stamp.key)
          /\ ps[d.pool].generation[d.stamp.slot] = d.stamp.generation
      BY <1>2, <2>1 DEF LeasesHold
    <3>2. d.pool \in PoolName
      BY <3>1 DEF Claim
    <3>3. ~(d.pool = n /\ d.stamp.slot = s)
      BY <1>9, <2>1 DEF At
    <3> QED BY <1>7, <3>1, <3>2, <3>3
  <2>2. CASE d = c /\ c.who \in Tickets
    BY <1>1, <1>3, <1>4, <1>5, <1>6, <2>2
  <2> QED BY <2>1, <2>2
<1>11. PinsCount(ps2, L2)
  <2> SUFFICES ASSUME NEW m \in PoolName, NEW u \in 1..Slots(m)
               PROVE  ps2[m].pins[u] = Cardinality(Holders(L2, m, u))
    BY DEF PinsCount
  <2>1. ps[m].pins[u] = Cardinality(Holders(L, m, u))
    BY <1>2 DEF PinsCount
  <2>2. CASE L2 = L /\ q.pins[s] = 0
    <3>1. m = n /\ u = s => Cardinality(Holders(L, m, u)) = 0
      BY <1>9, FS_EmptySet
    <3> QED BY <1>6, <1>7, <2>1, <2>2, <3>1
  <2>3. CASE L2 = L \cup {c} /\ c.who \in Tickets /\ q.pins[s] = 1
    <3>1. /\ At(c, m, u) => Holders(L2, m, u) = Holders(L, m, u) \cup {c.who}
          /\ ~At(c, m, u) => Holders(L2, m, u) = Holders(L, m, u)
      <4>1. c.who \in Tickets
        BY <2>3
      <4>2. /\ At(c, m, u) => Holders(L \cup {c}, m, u) = Holders(L, m, u) \cup {c.who}
            /\ ~At(c, m, u) => Holders(L \cup {c}, m, u) = Holders(L, m, u)
        BY <4>1, HolderAdded
      <4> QED BY <2>3, <4>2
    <3>2. CASE m = n /\ u = s
      <4>1. Holders(L2, m, u) = {c.who}
        BY <1>9, <3>1, <3>2 DEF At
      <4>2. Cardinality({c.who}) = 1
        BY FS_Singleton
      <4> QED BY <1>6, <2>3, <3>2, <4>1, <4>2
    <3>3. CASE ~(m = n /\ u = s)
      <4>1. Holders(L2, m, u) = Holders(L, m, u)
        BY <3>1, <3>3 DEF At
      <4> QED BY <1>7, <2>1, <3>3, <4>1
    <3> QED BY <3>2, <3>3
  <2> QED BY <2>2, <2>3
<1>12. \A d \in R \ {c} : /\ d \in Claim /\ d.pool \in PoolName /\ d.stamp.slot \in 1..Slots(d.pool)
                          /\ d.stamp.generation <= ps[d.pool].generation[d.stamp.slot]
                          /\ Live(d, W) => /\ Holds(ps[d.pool], d.stamp)
                                           /\ ~(d.pool = n /\ d.stamp.slot = s)
  <2>1. \A d \in R : At(d, c.pool, c.stamp.slot) /\ Live(d, W) => d = c
    BY HoldsAlone
  <2> QED BY <1>2, <2>1 DEF ReservationsHold, Claim, At
<1>13. ReservationsHold(ps2, R \ {c}, W)
  <2>1. \A d, e \in R \ {c} : e.pool = d.pool /\ e.stamp.slot = d.stamp.slot
                                /\ e.stamp.generation = d.stamp.generation => e = d
    BY <1>2 DEF ReservationsHold
  <2>2. \A d \in R \ {c} : /\ d.stamp.generation <= ps2[d.pool].generation[d.stamp.slot]
                           /\ Live(d, W) => Holds(ps2[d.pool], d.stamp)
    <3> SUFFICES ASSUME NEW d \in R \ {c}
                 PROVE  /\ d.stamp.generation <= ps2[d.pool].generation[d.stamp.slot]
                        /\ Live(d, W) => Holds(ps2[d.pool], d.stamp)
      OBVIOUS
    <3>1. ps2[d.pool].generation[d.stamp.slot] = ps[d.pool].generation[d.stamp.slot]
      BY <1>7, <1>12
    <3>2. Live(d, W) => ps2[d.pool].state[d.stamp.slot] = ps[d.pool].state[d.stamp.slot]
      BY <1>7, <1>12
    <3> QED BY <1>12, <3>1, <3>2 DEF Holds
  <2> QED BY <1>12, <2>1, <2>2 DEF ReservationsHold
<1>14. LoadingOwned(ps2, R \ {c}, W)
  <2> SUFFICES ASSUME NEW m \in PoolName, NEW u \in 1..Slots(m), NEW l \in Key,
                      ps2[m].state[u] = Loading(l)
               PROVE  \E d \in R \ {c} : At(d, m, u) /\ Live(d, W)
    BY DEF LoadingOwned
  <2>1. ~(m = n /\ u = s)
    BY <1>5, <1>6, StatesDiffer
  <2>2. ps[m].state[u] = Loading(l)
    BY <1>7, <2>1
  <2>3. PICK d \in R : At(d, m, u) /\ Live(d, W)
    BY <1>2, <2>2 DEF LoadingOwned
  <2>4. d # c
    BY <2>1, <2>3 DEF At
  <2> QED BY <2>3, <2>4
<1>15. WithdrawnPast(ps2, W)
  <2> SUFFICES ASSUME NEW x \in W PROVE Past(ps2, x)
    BY DEF WithdrawnPast
  <2>1. PICK m, u, g : m = x[1] /\ u = x[2].slot /\ g = x[2].generation
    OBVIOUS
  <2>2. /\ m \in PoolName /\ u \in 1..Slots(m) /\ g \in Nat /\ g <= ps[m].generation[u]
        /\ g = ps[m].generation[u] => ps[m].state[u] = Empty
    BY <1>2, <2>1 DEF WithdrawnPast, Past
  <2>3. m = n /\ u = s => ps[m].state[u] # Empty
    BY <1>1, <1>4, StatesDiffer
  <2> QED BY <1>7, <2>1, <2>2, <2>3 DEF Past
<1>16. BytesInPlace(ps2, mem2, R \ {c}, U)
  <2>1. ASSUME NEW m \in PoolName, NEW u \in 1..Slots(m), NEW l \in Key, ps2[m].state[u] = Ready(l)
        PROVE  mem2[m][u] = l
    <3>1. CASE m = n /\ u = s
      <4>1. l = c.stamp.key
        BY <1>5, <1>6, <2>1, <3>1, StatesDiffer
      <4> QED BY <3>1, <4>1
    <3>2. CASE ~(m = n /\ u = s)
      <4>1. ps[m].state[u] = Ready(l) /\ mem2[m][u] = mem[m][u]
        BY <1>7, <2>1, <3>2
      <4> QED BY <1>2, <4>1 DEF BytesInPlace
    <3> QED BY <3>1, <3>2
  <2>2. ASSUME NEW d \in R \ {c}, d.who \in U, Holds(ps2[d.pool], d.stamp)
        PROVE  mem2[d.pool][d.stamp.slot] = d.stamp.key
    <3>1. ~(d.pool = n /\ d.stamp.slot = s)
      BY <1>5, <1>6, <2>2, HoldsSlot
    <3>2. /\ ps2[d.pool].generation[d.stamp.slot] = ps[d.pool].generation[d.stamp.slot]
          /\ ps2[d.pool].state[d.stamp.slot] = ps[d.pool].state[d.stamp.slot]
          /\ mem2[d.pool][d.stamp.slot] = mem[d.pool][d.stamp.slot]
      BY <1>7, <1>12, <3>1
    <3>3. Holds(ps[d.pool], d.stamp)
      BY <2>2, <3>2 DEF Holds
    <3> QED BY <1>2, <2>2, <3>2, <3>3 DEF BytesInPlace
  <2> QED BY <2>1, <2>2 DEF BytesInPlace
<1>17. Ledger(ps2, mem2, L2, R \ {c}, W, U)
  BY <1>8, <1>10, <1>11, <1>13, <1>14, <1>15, <1>16 DEF Ledger
<1> QED BY <1>1, <1>17

(* A Ready slot is pinned for a ticket that does not lease it yet. *)
LEMMA SlotPinned ==
  ASSUME NEW ps, NEW mem, NEW L, NEW R, NEW W, NEW U, Ledger(ps, mem, L, R, W, U),
         NEW n \in PoolName, NEW k, Visible(ps[n], k), NEW t \in Tickets,
         NEW q, q = Pin(ps[n], k), NEW c, c = ClaimOf(t, n, Stamp(ps[n], k, ps[n].index[k])),
         t \notin Holders(L, n, ps[n].index[k])
  PROVE  /\ Ledger([ps EXCEPT ![n] = q], mem, L \cup {c}, R, W, U) /\ c \in Claim
         /\ NoneReady(ps[n], q, Slots(n))
<1>1. PICK s, p, ps2 : s = ps[n].index[k] /\ p = ps[n] /\ ps2 = [ps EXCEPT ![n] = q]
  OBVIOUS
<1>2. /\ PoolsSound(ps, mem) /\ LeasesHold(ps, L) /\ PinsCount(ps, L)
      /\ ReservationsHold(ps, R, W)
  BY DEF Ledger
<1>3. Sound(p, Slots(n)) /\ Slots(n) \in Nat /\ p.generation \in [1..Slots(n) -> Nat]
  <2>1. Sound(p, Slots(n))
    BY <1>1, <1>2 DEF PoolsSound
  <2> QED BY <1>1, <1>2, <2>1, PoolFields
<1>4. /\ s \in 1..Slots(n) /\ k \in Key /\ p.state[s] = Ready(k)
      /\ Sound(q, Slots(n)) /\ OthersKept(p, q, Slots(n), s) /\ q.state[s] = p.state[s]
      /\ q.pins[s] = p.pins[s] + 1 /\ q.generation[s] = p.generation[s]
  <2>1. Sound(p, Slots(n)) /\ Slots(n) \in Nat /\ Visible(p, k) /\ q = Pin(p, k) /\ s = p.index[k]
    BY <1>1, <1>3
  <2> QED BY <2>1, Pinned
<1>5. \A u \in 1..Slots(n) : /\ q.state[u] = p.state[u] /\ q.generation[u] = p.generation[u]
                             /\ u # s => q.pins[u] = p.pins[u]
  BY <1>4 DEF OthersKept
<1>6. DOMAIN ps = PoolName /\ ps2[n] = q /\ \A m \in PoolName : m # n => ps2[m] = ps[m]
  <2>1. DOMAIN ps = PoolName
    BY <1>2 DEF PoolsSound, ByPool
  <2> QED BY <1>1, <2>1
<1>7. PoolsSound(ps2, mem)
  <2>1. ByPool(ps2)
    BY <1>1, <1>6 DEF ByPool
  <2>2. \A m \in PoolName : Sound(ps2[m], Slots(m))
    BY <1>2, <1>4, <1>6 DEF PoolsSound
  <2> QED BY <1>2, <2>1, <2>2 DEF PoolsSound
<1>8. \A m \in PoolName : \A u \in 1..Slots(m) :
        /\ ps2[m].generation[u] = ps[m].generation[u] /\ ps2[m].state[u] = ps[m].state[u]
        /\ ~(m = n /\ u = s) => ps2[m].pins[u] = ps[m].pins[u]
  BY <1>1, <1>5, <1>6
<1>9. /\ c.who = t /\ c.pool = n /\ c.stamp.slot = s /\ c.stamp.key = k
      /\ c.stamp.generation = p.generation[s] /\ c \in Claim
  <2>1. /\ c.who = t /\ c.pool = n /\ c.stamp = [key |-> k, slot |-> s, generation |-> p.generation[s]]
        /\ c = [who |-> t, pool |-> n, stamp |-> [key |-> k, slot |-> s, generation |-> p.generation[s]]]
    BY <1>1 DEF ClaimOf, Stamp
  <2>2. s \in Nat /\ p.generation[s] \in Nat
    BY <1>3, <1>4
  <2> QED BY <1>4, <2>1, <2>2 DEF Claim, PageStamp
<1>10. LeasesHold(ps2, L \cup {c})
  <2> SUFFICES ASSUME NEW d \in L \cup {c}
               PROVE  /\ d \in Claim /\ d.who \in Tickets /\ d.stamp.slot \in 1..Slots(d.pool)
                      /\ ps2[d.pool].state[d.stamp.slot] = Ready(d.stamp.key)
                      /\ ps2[d.pool].generation[d.stamp.slot] = d.stamp.generation
    BY DEF LeasesHold
  <2>1. CASE d \in L
    <3>1. /\ d \in Claim /\ d.who \in Tickets /\ d.stamp.slot \in 1..Slots(d.pool)
          /\ ps[d.pool].state[d.stamp.slot] = Ready(d.stamp.key)
          /\ ps[d.pool].generation[d.stamp.slot] = d.stamp.generation
      BY <1>2, <2>1 DEF LeasesHold
    <3>2. d.pool \in PoolName
      BY <3>1 DEF Claim
    <3> QED BY <1>8, <3>1, <3>2
  <2>2. CASE d = c
    BY <1>4, <1>6, <1>9, <2>2
  <2> QED BY <2>1, <2>2
<1>11. PinsCount(ps2, L \cup {c})
  <2> SUFFICES ASSUME NEW m \in PoolName, NEW u \in 1..Slots(m)
               PROVE  ps2[m].pins[u] = Cardinality(Holders(L \cup {c}, m, u))
    BY DEF PinsCount
  <2>1. ps[m].pins[u] = Cardinality(Holders(L, m, u))
    BY <1>2 DEF PinsCount
  <2>2. /\ At(c, m, u) => Holders(L \cup {c}, m, u) = Holders(L, m, u) \cup {c.who}
        /\ ~At(c, m, u) => Holders(L \cup {c}, m, u) = Holders(L, m, u)
    BY <1>9, HolderAdded
  <2>3. CASE m = n /\ u = s
    <3>1. Holders(L \cup {c}, m, u) = Holders(L, m, u) \cup {t} /\ t \notin Holders(L, m, u)
      BY <1>1, <1>9, <2>2, <2>3 DEF At
    <3>2. Cardinality(Holders(L, m, u) \cup {t}) = Cardinality(Holders(L, m, u)) + 1
      BY <3>1, HoldersFinite, FS_AddElement
    <3> QED BY <1>1, <1>4, <1>6, <2>1, <2>3, <3>1, <3>2
  <2>4. CASE ~(m = n /\ u = s)
    <3>1. Holders(L \cup {c}, m, u) = Holders(L, m, u)
      BY <1>9, <2>2, <2>4 DEF At
    <3> QED BY <1>8, <2>1, <2>4, <3>1
  <2> QED BY <2>3, <2>4
<1>12. Ledger(ps2, mem, L \cup {c}, R, W, U)
  <2>1. \A d \in R : d.pool \in PoolName /\ d.stamp.slot \in 1..Slots(d.pool)
    BY <1>2 DEF ReservationsHold, Claim
  <2>2. \A d \in R : ps2[d.pool].state[d.stamp.slot] = ps[d.pool].state[d.stamp.slot]
    BY <1>8, <2>1
  <2>3. \A d \in R : Live(d, W) /\ ps2[d.pool].state[d.stamp.slot] # Empty => d \in R /\ Live(d, W)
    OBVIOUS
  <2>4. \A m \in PoolName : \A u \in 1..Slots(m) :
          /\ ps2[m].generation[u] = ps[m].generation[u]
          /\ ps2[m].state[u] = ps[m].state[u]
               \/ (ps2[m].state[u] = Empty /\ \E l \in Key : ps[m].state[u] = Loading(l))
    BY <1>8
  <2>5. \A d \in R : Live(d, W) =>
          Live(d, W) /\ ps2[d.pool].state[d.stamp.slot] = ps[d.pool].state[d.stamp.slot]
    BY <2>2
  <2>6. \A w \in W : w \in W \/ \E d \in R : /\ w = <<d.pool, d.stamp>>
                                             /\ ps2[d.pool].state[d.stamp.slot] = Empty
    OBVIOUS
  <2>7. R \subseteq R /\ U \subseteq U
    OBVIOUS
  <2>8. PICK L2 : L2 = L \cup {c}
    OBVIOUS
  <2>9. LeasesHold(ps2, L2) /\ PinsCount(ps2, L2)
    BY <1>10, <1>11, <2>8
  <2>10. Ledger(ps2, mem, L2, R, W, U)
    BY <1>7, <2>3, <2>4, <2>5, <2>6, <2>7, <2>9, GivenUp, SMTT(30)
  <2> QED BY <2>8, <2>10
<1>13. NoneReady(p, q, Slots(n))
  BY <1>5 DEF NoneReady
<1> QED BY <1>1, <1>9, <1>12, <1>13

(* The transfer fence of ticket t: its reservations that still hold their slot
   have their bytes there. *)
LEMMA Fenced ==
  ASSUME NEW ps, NEW mem, NEW L, NEW R, NEW W, NEW U, Ledger(ps, mem, L, R, W, U), NEW t,
         NEW mem2, ByPool(mem2),
         \A n \in PoolName :
           /\ DOMAIN mem2[n] = 1..Slots(n)
           /\ \A s \in 1..Slots(n) : mem2[n][s] =
                IF \E c \in R : c.who = t /\ At(c, n, s) /\ Holds(ps[n], c.stamp)
                THEN ps[n].state[s].key ELSE mem[n][s]
  PROVE  Ledger(ps, mem2, L, R, W, U \cup {t})
<1>1. /\ PoolsSound(ps, mem) /\ LeasesHold(ps, L) /\ PinsCount(ps, L)
      /\ ReservationsHold(ps, R, W) /\ LoadingOwned(ps, R, W) /\ WithdrawnPast(ps, W)
      /\ BytesInPlace(ps, mem, R, U)
  BY DEF Ledger
<1>2. PoolsSound(ps, mem2)
  BY <1>1 DEF PoolsSound
<1>3. ASSUME NEW n \in PoolName, NEW s \in 1..Slots(n), NEW k \in Key, ps[n].state[s] = Ready(k)
      PROVE  mem2[n][s] = k
  <2>1. ~\E c \in R : c.who = t /\ At(c, n, s) /\ Holds(ps[n], c.stamp)
    BY <1>3, HoldsSlot DEF At
  <2>2. mem2[n][s] = mem[n][s]
    BY <2>1
  <2> QED BY <1>1, <1>3, <2>2 DEF BytesInPlace
<1>4. ASSUME NEW c \in R, c.who \in U \cup {t}, Holds(ps[c.pool], c.stamp)
      PROVE  mem2[c.pool][c.stamp.slot] = c.stamp.key
  <2>1. c.pool \in PoolName /\ c.stamp.slot \in 1..Slots(c.pool)
    BY <1>1 DEF ReservationsHold, Claim
  <2>2. ps[c.pool].state[c.stamp.slot].key = c.stamp.key
    BY <1>4, HoldsSlot
  <2>3. CASE \E d \in R : d.who = t /\ At(d, c.pool, c.stamp.slot) /\ Holds(ps[c.pool], d.stamp)
    BY <2>1, <2>2, <2>3
  <2>4. CASE ~\E d \in R : d.who = t /\ At(d, c.pool, c.stamp.slot) /\ Holds(ps[c.pool], d.stamp)
    <3>1. c.who # t
      BY <1>4, <2>4 DEF At
    <3>2. mem2[c.pool][c.stamp.slot] = mem[c.pool][c.stamp.slot]
      BY <2>1, <2>4
    <3> QED BY <1>1, <1>4, <3>1, <3>2 DEF BytesInPlace
  <2> QED BY <2>3, <2>4
<1>5. BytesInPlace(ps, mem2, R, U \cup {t})
  BY <1>3, <1>4 DEF BytesInPlace
<1> QED BY <1>1, <1>2, <1>5 DEF Ledger

-----------------------------------------------------------------------------
(* A ticket ends: its leases are unpinned, and the slots its reservations still
   own become Empty. *)
LEMMA TicketEnds ==
  ASSUME NEW ps, NEW mem, NEW L, NEW R, NEW W, NEW U, Ledger(ps, mem, L, R, W, U),
         NEW t \in Tickets, NEW ps2, PoolsSound(ps2, mem),
         \A n \in PoolName : \A s \in 1..Slots(n) :
           /\ ps2[n].generation[s] = ps[n].generation[s]
           /\ ps2[n].state[s] = IF \E c \in R : c.who = t /\ At(c, n, s) /\ Holds(ps[n], c.stamp)
                                THEN Empty ELSE ps[n].state[s]
           /\ ps2[n].pins[s] = IF t \in Holders(L, n, s) THEN ps[n].pins[s] - 1
                               ELSE ps[n].pins[s],
         NEW L2, L2 = {c \in L : c.who # t}, NEW R2, R2 = {c \in R : c.who # t},
         NEW W2, W2 \subseteq W, \A c \in R2 : Live(c, W2) => Live(c, W),
         NEW U2, U2 \subseteq U
  PROVE  Ledger(ps2, mem, L2, R2, W2, U2)
<1>1. /\ PoolsSound(ps, mem) /\ LeasesHold(ps, L) /\ PinsCount(ps, L) /\ ReservationsHold(ps, R, W)
  BY DEF Ledger
<1>2. \A n \in PoolName : \A s \in 1..Slots(n) :
        /\ ps2[n].generation[s] = ps[n].generation[s]
        /\ ps2[n].state[s] = ps[n].state[s]
             \/ (ps2[n].state[s] = Empty /\ \E k \in Key : ps[n].state[s] = Loading(k))
  <2> SUFFICES ASSUME NEW n \in PoolName, NEW s \in 1..Slots(n)
               PROVE  ps2[n].state[s] = ps[n].state[s]
                        \/ (ps2[n].state[s] = Empty /\ \E k \in Key : ps[n].state[s] = Loading(k))
    OBVIOUS
  <2>1. CASE \E c \in R : c.who = t /\ At(c, n, s) /\ Holds(ps[n], c.stamp)
    <3>1. PICK c \in R : c.who = t /\ At(c, n, s) /\ Holds(ps[n], c.stamp)
      BY <2>1
    <3>2. c.stamp.key \in Key
      BY <1>1 DEF ReservationsHold, Claim, PageStamp
    <3>3. ps[n].state[s] = Loading(c.stamp.key)
      BY <3>1, HoldsSlot DEF At
    <3> QED BY <2>1, <3>2, <3>3
  <2>2. CASE ~\E c \in R : c.who = t /\ At(c, n, s) /\ Holds(ps[n], c.stamp)
    BY <2>2
  <2> QED BY <2>1, <2>2
<1>3. LeasesHold(ps2, L2)
  <2> SUFFICES ASSUME NEW d \in L2
               PROVE  /\ d \in Claim /\ d.who \in Tickets /\ d.stamp.slot \in 1..Slots(d.pool)
                      /\ ps2[d.pool].state[d.stamp.slot] = Ready(d.stamp.key)
                      /\ ps2[d.pool].generation[d.stamp.slot] = d.stamp.generation
    BY DEF LeasesHold
  <2>1. /\ d \in Claim /\ d.who \in Tickets /\ d.stamp.slot \in 1..Slots(d.pool)
        /\ ps[d.pool].state[d.stamp.slot] = Ready(d.stamp.key)
        /\ ps[d.pool].generation[d.stamp.slot] = d.stamp.generation
    BY <1>1 DEF LeasesHold
  <2>2. d.pool \in PoolName
    BY <2>1 DEF Claim
  <2>3. ps2[d.pool].state[d.stamp.slot] = ps[d.pool].state[d.stamp.slot]
    BY <1>2, <2>1, <2>2, StatesDiffer
  <2> QED BY <1>2, <2>1, <2>2, <2>3
<1>4. PinsCount(ps2, L2)
  <2> SUFFICES ASSUME NEW n \in PoolName, NEW s \in 1..Slots(n)
               PROVE  ps2[n].pins[s] = Cardinality(Holders(L2, n, s))
    BY DEF PinsCount
  <2>1. ps[n].pins[s] = Cardinality(Holders(L, n, s))
    BY <1>1 DEF PinsCount
  <2>2. Holders(L2, n, s) = Holders(L, n, s) \ {t}
    <3>1. \A u \in Tickets : (\E c \in L2 : c.who = u /\ At(c, n, s))
                               <=> (\E c \in L : c.who = u /\ At(c, n, s)) /\ u # t
      OBVIOUS
    <3> QED BY <3>1 DEF Holders
  <2>3. Cardinality(Holders(L, n, s) \ {t}) =
          IF t \in Holders(L, n, s) THEN Cardinality(Holders(L, n, s)) - 1
          ELSE Cardinality(Holders(L, n, s))
    BY HoldersFinite, FS_RemoveElement
  <2> QED BY <2>1, <2>2, <2>3
<1>5. \A c \in R2 : Live(c, W2) =>
        Live(c, W) /\ ps2[c.pool].state[c.stamp.slot] = ps[c.pool].state[c.stamp.slot]
  <2> SUFFICES ASSUME NEW c \in R2, Live(c, W)
               PROVE  ps2[c.pool].state[c.stamp.slot] = ps[c.pool].state[c.stamp.slot]
    OBVIOUS
  <2>1. c \in R /\ c.pool \in PoolName /\ c.stamp.slot \in 1..Slots(c.pool) /\ Holds(ps[c.pool], c.stamp)
    BY <1>1 DEF ReservationsHold, Claim
  <2>2. ~\E d \in R : d.who = t /\ At(d, c.pool, c.stamp.slot) /\ Holds(ps[c.pool], d.stamp)
    <3>1. \A d \in R : At(d, c.pool, c.stamp.slot) /\ Holds(ps[c.pool], d.stamp) => d = c
      BY <2>1, HoldsAlone
    <3> QED BY <3>1
  <2> QED BY <2>1, <2>2
<1>6. \A c \in R : Live(c, W) /\ ps2[c.pool].state[c.stamp.slot] # Empty => c \in R2 /\ Live(c, W2)
  <2> SUFFICES ASSUME NEW c \in R, Live(c, W), ps2[c.pool].state[c.stamp.slot] # Empty
               PROVE  c.who # t /\ Live(c, W2)
    OBVIOUS
  <2>1. c.pool \in PoolName /\ c.stamp.slot \in 1..Slots(c.pool) /\ Holds(ps[c.pool], c.stamp)
    BY <1>1 DEF ReservationsHold, Claim
  <2>2. c.who # t
    BY <2>1 DEF At
  <2>3. Live(c, W2)
    BY DEF Live
  <2> QED BY <2>2, <2>3
<1>7. \A w \in W2 : w \in W \/ \E c \in R : /\ w = <<c.pool, c.stamp>>
                                            /\ ps2[c.pool].state[c.stamp.slot] = Empty
  OBVIOUS
<1>8. R2 \subseteq R
  OBVIOUS
<1> QED BY <1>2, <1>3, <1>4, <1>5, <1>6, <1>7, <1>8, GivenUp

(* rollback_pages on one pool: exactly the slots whose reservation still holds
   become Empty and unpinned, a valid lease gives back one pin, and the pool
   stays sound. *)
LEMMA PoolRolledBack ==
  ASSUME NEW n \in Nat, NEW p, Sound(p, n), NEW hits,
         NEW loads, \A r \in loads : r \in PageStamp /\ r.slot \in 1..n,
         NEW q, q = RolledBackPool(p, hits, loads)
  PROVE  /\ Sound(q, n)
         /\ \A s \in 1..n :
              /\ q.generation[s] = p.generation[s]
              /\ q.state[s] = IF \E r \in loads : r.slot = s /\ Holds(p, r)
                              THEN Empty ELSE p.state[s]
              /\ q.pins[s] = IF \E r \in loads : r.slot = s /\ Holds(p, r) THEN 0
                             ELSE IF \E b \in hits : b.slot = s /\ Bound(p, b)
                             THEN p.pins[s] - 1 ELSE p.pins[s]
<1>1. PICK G, V, F, m :
        /\ G = {r \in loads : Holds(p, r)}
        /\ V = {s \in 1..n : \E b \in hits : b.slot = s /\ Bound(p, b)}
        /\ F = {s \in 1..n : \E r \in G : r.slot = s}
        /\ m = Cardinality(G)
  OBVIOUS
<1>2. SlotsOf(p) = 1..n
  BY SlotsOfPool DEF Sound
<1>3. \A s \in 1..n : /\ s \in F <=> \E r \in G : r.slot = s
                      /\ s \in V <=> \E b \in {x \in hits : Bound(p, x)} : b.slot = s
                      /\ s \in F <=> \E r \in loads : r.slot = s /\ Holds(p, r)
                      /\ s \in V <=> \E b \in hits : b.slot = s /\ Bound(p, b)
  BY <1>1
<1>4. \A s \in F : \E k \in Key : p.state[s] = Loading(k)
  <2> SUFFICES ASSUME NEW s \in F PROVE \E k \in Key : p.state[s] = Loading(k)
    OBVIOUS
  <2>1. PICK r \in loads : r.slot = s /\ Holds(p, r)
    BY <1>1
  <2>2. r.key \in Key
    BY DEF PageStamp
  <2> QED BY <2>1, <2>2 DEF Holds
<1>5. \A s \in V : p.pins[s] > 0
  BY <1>1 DEF Bound
<1>6. m = Cardinality(F)
  <2>1. \A r \in G : /\ Holds(p, r) /\ r.slot \in 1..n
                     /\ r = [key |-> r.key, slot |-> r.slot, generation |-> r.generation]
    BY <1>1 DEF PageStamp
  <2>2. Cardinality({s \in 1..n : \E r \in G : r.slot = s}) = Cardinality(G)
    BY <2>1, FreedSlots
  <2> QED BY <1>1, <2>2
<1>7. PICK st, pi, nl :
        /\ st = [s \in 1..n |-> IF s \in F THEN Empty ELSE p.state[s]]
        /\ pi = [s \in 1..n |-> IF s \in F THEN 0
                                ELSE IF s \in V THEN p.pins[s] - 1 ELSE p.pins[s]]
        /\ nl = p.n_loaded - m
  OBVIOUS
<1>8. q = [p EXCEPT !.state = st, !.pins = pi, !.n_loaded = nl]
  <2>1. PICK st2, pi2 :
          /\ st2 = [s \in SlotsOf(p) |-> IF \E r \in G : r.slot = s THEN Empty ELSE p.state[s]]
          /\ pi2 = [s \in SlotsOf(p) |->
                IF \E r \in G : r.slot = s THEN 0
                ELSE IF \E b \in {y \in hits : Bound(p, y)} : b.slot = s THEN p.pins[s] - 1
                ELSE p.pins[s]]
    OBVIOUS
  <2>2. st = st2 /\ pi = pi2
    BY <1>2, <1>3, <1>7, <2>1
  <2>3. q = [p EXCEPT !.state = st2, !.pins = pi2, !.n_loaded = nl]
    BY <1>1, <1>7, <2>1 DEF RolledBackPool
  <2> QED BY <2>2, <2>3
<1>9. /\ \A s \in 1..n : /\ st[s] = IF s \in F THEN Empty ELSE p.state[s]
                         /\ pi[s] = IF s \in F THEN 0
                                    ELSE IF s \in V THEN p.pins[s] - 1 ELSE p.pins[s]
  BY <1>7
<1>10. st \in [1..n -> SlotState] /\ pi \in [1..n -> Nat]
  <2>1. \A s \in 1..n : p.state[s] \in SlotState /\ p.pins[s] \in Nat
    BY SlotsOfPool DEF Sound
  <2>2. \A s \in 1..n : st[s] \in SlotState
    BY <1>9, <2>1, SlotStates
  <2>3. \A s \in 1..n : pi[s] \in Nat
    BY <1>5, <1>9, <2>1
  <2> QED BY <1>7, <2>2, <2>3
<1>11. PICK y : y = q /\ y = [p EXCEPT !.state = st, !.pins = pi, !.n_loaded = nl]
  BY <1>8
<1>12. /\ y.state = st /\ y.pins = pi /\ y.n_loaded = nl /\ y.index = p.index
       /\ y.recency = p.recency /\ y.generation = p.generation
       /\ y = [state |-> y.state, recency |-> y.recency, pins |-> y.pins,
               generation |-> y.generation, index |-> y.index, n_loaded |-> y.n_loaded]
  <2>1. p = [state |-> p.state, recency |-> p.recency, pins |-> p.pins,
             generation |-> p.generation, index |-> p.index, n_loaded |-> p.n_loaded]
    BY SlotsOfPool DEF Sound
  <2> QED BY <1>11, <2>1
<1>13. Sound(y, n)
  <2>1. F \subseteq 1..n
    BY <1>1
  <2>2. y.n_loaded = p.n_loaded - Cardinality(F)
    BY <1>6, <1>7, <1>12
  <2>3. y.state = [s \in 1..n |-> IF s \in F THEN Empty ELSE p.state[s]]
    BY <1>7, <1>12
  <2>4. y.pins \in [1..n -> Nat]
    BY <1>10, <1>12
  <2> QED BY <1>4, <1>12, <2>1, <2>2, <2>3, <2>4, Emptied
<1> QED BY <1>3, <1>9, <1>11, <1>12, <1>13

(* The claims of ticket t are those of its pages. *)
Covers(L, R, t, pages) ==
  /\ \A g \in pages : /\ g \in PageType
                      /\ ClaimOf(t, g.pool, g.stamp) \in (IF g.hit THEN L ELSE R)
  /\ \A c \in L : c.who = t => \E g \in pages : g.hit /\ c = ClaimOf(t, g.pool, g.stamp)
  /\ \A c \in R : c.who = t => \E g \in pages : ~g.hit /\ c = ClaimOf(t, g.pool, g.stamp)

(* A claim is its holder, its pool and its stamp. *)
LEMMA ClaimFields ==
  /\ \A w, n, r : /\ ClaimOf(w, n, r).who = w /\ ClaimOf(w, n, r).pool = n
                  /\ ClaimOf(w, n, r).stamp = r
  /\ \A c \in Claim : c = ClaimOf(c.who, c.pool, c.stamp) /\ c.pool \in PoolName /\ c.stamp \in PageStamp
BY DEF ClaimOf, Claim

(* The claims of t, and those of the others. *)
ClaimsBy(C, t) == {c \in C : c.who = t}
ClaimsNotBy(C, t) == {c \in C : c.who # t}
AllClaims(C, D) == C \cup D
(* Forgetting some of the withdrawals brings no reservation of R back to life. *)
StayLive(R, W2, W) == \A c \in R : Live(c, W2) => Live(c, W)

(* rollback_pages over both pools: the ledger goes on without the claims of the
   ticket, and no slot changes except to Empty. *)
LEMMA TicketRolledBack ==
  ASSUME NEW ps, NEW mem, NEW L, NEW R, NEW W, NEW U, Ledger(ps, mem, L, R, W, U),
         NEW t \in Tickets, NEW pages, Covers(L, R, t, pages),
         NEW L3, L3 = ClaimsNotBy(L, t), NEW R3, R3 = ClaimsNotBy(R, t),
         NEW W2, W2 \subseteq W, StayLive(R3, W2, W), NEW U2, U2 \subseteq U
  PROVE  /\ Ledger(RolledBack(ps, pages), mem, L3, R3, W2, U2)
         /\ \A n \in PoolName : \A s \in 1..Slots(n) :
              RolledBack(ps, pages)[n].state[s] \in {Empty, ps[n].state[s]}
<1>1. PICK ps2 : ps2 = RolledBack(ps, pages)
  OBVIOUS
<1>0. PICK L2, R2 : /\ L2 = L3 /\ R2 = R3
                    /\ L2 = {c \in L : c.who # t} /\ R2 = {c \in R : c.who # t}
  BY DEF ClaimsNotBy
<1>2. /\ PoolsSound(ps, mem) /\ LeasesHold(ps, L) /\ PinsCount(ps, L) /\ ReservationsHold(ps, R, W)
  BY DEF Ledger
<1>3. ASSUME NEW n \in PoolName
      PROVE  /\ Sound(ps2[n], Slots(n))
             /\ \A s \in 1..Slots(n) :
                  /\ ps2[n].generation[s] = ps[n].generation[s]
                  /\ ps2[n].state[s] = IF \E c \in R : c.who = t /\ At(c, n, s) /\ Holds(ps[n], c.stamp)
                                       THEN Empty ELSE ps[n].state[s]
                  /\ ps2[n].pins[s] = IF t \in Holders(L, n, s) THEN ps[n].pins[s] - 1
                                      ELSE ps[n].pins[s]
  <2>1. PICK p, q, hits, loads :
          /\ p = ps[n] /\ q = ps2[n]
          /\ hits = StampsIn(n, {g \in pages : g.hit}) /\ loads = StampsIn(n, {g \in pages : ~g.hit})
    OBVIOUS
  <2>2. q = RolledBackPool(p, hits, loads)
    BY <1>1, <2>1 DEF RolledBack
  <2>3. /\ Sound(p, Slots(n)) /\ Slots(n) \in Nat /\ \A s \in 1..Slots(n) : p.pins[s] \in Nat
    <3>1. Sound(p, Slots(n))
      BY <1>2, <2>1 DEF PoolsSound
    <3> QED BY <1>2, <2>1, <3>1, PoolFields
  <2>4. /\ \A r \in hits : ClaimOf(t, n, r) \in L
        /\ \A r \in loads : ClaimOf(t, n, r) \in R
    BY <2>1 DEF Covers, StampsIn
  <2>5. /\ \A c \in L : c.who = t /\ c.pool = n => c.stamp \in hits
        /\ \A c \in R : c.who = t /\ c.pool = n => c.stamp \in loads
    BY <2>1, ClaimFields DEF Covers, StampsIn
  <2>6. \A r \in loads : r \in PageStamp /\ r.slot \in 1..Slots(n)
    <3> SUFFICES ASSUME NEW r \in loads PROVE r \in PageStamp /\ r.slot \in 1..Slots(n)
      OBVIOUS
    <3>1. PICK c \in R : c = ClaimOf(t, n, r)
      BY <2>4
    <3>2. c \in Claim /\ c.stamp.slot \in 1..Slots(c.pool)
      BY <1>2 DEF ReservationsHold
    <3> QED BY <3>1, <3>2, ClaimFields
  <2>7. /\ Sound(q, Slots(n))
        /\ \A s \in 1..Slots(n) :
              /\ q.generation[s] = p.generation[s]
              /\ q.state[s] = IF \E r \in loads : r.slot = s /\ Holds(p, r)
                              THEN Empty ELSE p.state[s]
              /\ q.pins[s] = IF \E r \in loads : r.slot = s /\ Holds(p, r) THEN 0
                             ELSE IF \E b \in hits : b.slot = s /\ Bound(p, b)
                             THEN p.pins[s] - 1 ELSE p.pins[s]
    BY <2>2, <2>3, <2>6, PoolRolledBack
  <2>8. \A s \in 1..Slots(n) : (\E r \in loads : r.slot = s /\ Holds(p, r))
          <=> \E c \in R : c.who = t /\ At(c, n, s) /\ Holds(ps[n], c.stamp)
    <3> SUFFICES ASSUME NEW s \in 1..Slots(n)
                 PROVE  (\E r \in loads : r.slot = s /\ Holds(p, r))
                          <=> \E c \in R : c.who = t /\ At(c, n, s) /\ Holds(ps[n], c.stamp)
      OBVIOUS
    <3>1. ASSUME NEW r \in loads, r.slot = s, Holds(p, r)
          PROVE  \E c \in R : c.who = t /\ At(c, n, s) /\ Holds(ps[n], c.stamp)
      <4>1. PICK c \in R : c = ClaimOf(t, n, r)
        BY <2>4
      <4>2. c.who = t /\ c.pool = n /\ c.stamp = r
        BY <4>1, ClaimFields
      <4> QED BY <2>1, <3>1, <4>2 DEF At
    <3>2. ASSUME NEW c \in R, c.who = t, At(c, n, s), Holds(ps[n], c.stamp)
          PROVE  \E r \in loads : r.slot = s /\ Holds(p, r)
      <4>1. c.stamp \in loads
        BY <2>5, <3>2 DEF At
      <4> QED BY <2>1, <3>2, <4>1 DEF At
    <3> QED BY <3>1, <3>2
  <2>9. \A s \in 1..Slots(n) : t \in Holders(L, n, s) <=> \E b \in hits : b.slot = s /\ Bound(p, b)
    <3> SUFFICES ASSUME NEW s \in 1..Slots(n)
                 PROVE  t \in Holders(L, n, s) <=> \E b \in hits : b.slot = s /\ Bound(p, b)
      OBVIOUS
    <3>1. ASSUME NEW b \in hits, b.slot = s PROVE t \in Holders(L, n, s)
      <4>1. PICK c \in L : c = ClaimOf(t, n, b)
        BY <2>4
      <4>2. c.who = t /\ c.pool = n /\ c.stamp = b
        BY <4>1, ClaimFields
      <4> QED BY <3>1, <4>2 DEF Holders, At
    <3>2. ASSUME t \in Holders(L, n, s) PROVE \E b \in hits : b.slot = s /\ Bound(p, b)
      <4>1. PICK c \in L : c.who = t /\ At(c, n, s)
        BY <3>2 DEF Holders
      <4>2. c.stamp \in hits /\ c.pool = n /\ c.stamp.slot = s
        BY <2>5, <4>1 DEF At
      <4>3. p.state[s] = Ready(c.stamp.key) /\ p.generation[s] = c.stamp.generation
        BY <1>2, <2>1, <4>2 DEF LeasesHold
      <4>4. Cardinality(Holders(L, n, s)) # 0 /\ p.pins[s] = Cardinality(Holders(L, n, s))
        BY <1>2, <2>1, <3>2, HoldersFinite DEF PinsCount
      <4>5. p.pins[s] > 0
        BY <2>3, <4>4
      <4> QED BY <4>2, <4>3, <4>5 DEF Bound
    <3> QED BY <3>1, <3>2
  <2>10. ASSUME NEW s \in 1..Slots(n), NEW c \in R, At(c, n, s), Holds(ps[n], c.stamp)
         PROVE  t \notin Holders(L, n, s) /\ p.pins[s] = 0
    <3>1. \A k \in Key : ps[n].state[s] # Ready(k)
      BY <2>10, HoldsSlot DEF At
    <3>2. Holders(L, n, s) = {} /\ ps[n].pins[s] = 0
      BY <1>2, <3>1, Unpinned
    <3> QED BY <2>1, <3>2
  <2>11. \A s \in 1..Slots(n) :
           q.pins[s] = IF t \in Holders(L, n, s) THEN p.pins[s] - 1 ELSE p.pins[s]
    BY <2>7, <2>8, <2>9, <2>10
  <2>12. \A s \in 1..Slots(n) :
           q.state[s] = IF \E c \in R : c.who = t /\ At(c, n, s) /\ Holds(ps[n], c.stamp)
                        THEN Empty ELSE p.state[s]
    BY <2>7, <2>8
  <2> QED BY <2>1, <2>7, <2>11, <2>12
<1>4. PoolsSound(ps2, mem)
  <2>1. ByPool(ps2)
    BY <1>1 DEF RolledBack, ByPool
  <2> QED BY <1>2, <1>3, <2>1 DEF PoolsSound
<1>5. Ledger(ps2, mem, L2, R2, W2, U2)
  <2>1. /\ L2 = {c \in L : c.who # t} /\ R2 = {c \in R : c.who # t}
        /\ \A c \in R2 : Live(c, W2) => Live(c, W)
    BY <1>0 DEF StayLive
  <2> QED BY <1>3, <1>4, <2>1, TicketEnds
<1>6. \A n \in PoolName : \A s \in 1..Slots(n) : ps2[n].state[s] \in {Empty, ps[n].state[s]}
  BY <1>3
<1> QED BY <1>0, <1>1, <1>5, <1>6

(* Ticket t leases all its pages, and reserves none. *)
AllLeased(L, R, t, pages) ==
  /\ \A g \in pages : ClaimOf(t, g.pool, g.stamp) \in L
  /\ \A c \in L : c.who = t => \E g \in pages : c = ClaimOf(t, g.pool, g.stamp)
  /\ \A c \in R : c.who # t
Released(ps, pages) ==
  [n \in PoolName |-> [ps[n] EXCEPT !.pins = [s \in DOMAIN @ |->
     IF \E b \in StampsIn(n, pages) : b.slot = s THEN @[s] - 1 ELSE @[s]]]]

(* release_after_compute_fence over both pools: the ledger goes on without the
   leases of the ticket, and no slot changes its content. *)
LEMMA TicketReleased ==
  ASSUME NEW ps, NEW mem, NEW L, NEW R, NEW W, NEW U, Ledger(ps, mem, L, R, W, U),
         NEW t \in Tickets, NEW pages, AllLeased(L, R, t, pages),
         NEW ps3, ps3 = Released(ps, pages),
         NEW L3, L3 = ClaimsNotBy(L, t), NEW U2, U2 \subseteq U
  PROVE  /\ Ledger(ps3, mem, L3, R, W, U2)
         /\ \A n \in PoolName : \A s \in 1..Slots(n) : ps3[n].state[s] = ps[n].state[s]
<1>1. PICK ps2 : /\ ps2 = ps3
                 /\ ps2 = [n \in PoolName |-> [ps[n] EXCEPT !.pins = [s \in DOMAIN @ |->
                      IF \E b \in StampsIn(n, pages) : b.slot = s THEN @[s] - 1 ELSE @[s]]]]
  BY DEF Released
<1>0. /\ \A g \in pages : ClaimOf(t, g.pool, g.stamp) \in L
      /\ \A c \in L : c.who = t => \E g \in pages : c = ClaimOf(t, g.pool, g.stamp)
      /\ \A c \in R : c.who # t
  BY DEF AllLeased
<1>2. /\ PoolsSound(ps, mem) /\ LeasesHold(ps, L) /\ PinsCount(ps, L) /\ ReservationsHold(ps, R, W)
  BY DEF Ledger
<1>3. ASSUME NEW n \in PoolName
      PROVE  /\ Sound(ps2[n], Slots(n)) /\ ps2[n].state = ps[n].state
             /\ ps2[n].generation = ps[n].generation
             /\ \A s \in 1..Slots(n) :
                  ps2[n].pins[s] = IF t \in Holders(L, n, s) THEN ps[n].pins[s] - 1
                                   ELSE ps[n].pins[s]
  <2>1. PICK p, f, q : /\ p = ps[n]
                       /\ f = [s \in DOMAIN p.pins |->
                           IF \E b \in StampsIn(n, pages) : b.slot = s THEN p.pins[s] - 1 ELSE p.pins[s]]
                       /\ q = ps2[n] /\ q = [p EXCEPT !.pins = f]
    BY <1>1
  <2>2. /\ Sound(p, Slots(n)) /\ Slots(n) \in Nat /\ p.pins \in [1..Slots(n) -> Nat]
    <3>1. Sound(p, Slots(n))
      BY <1>2, <2>1 DEF PoolsSound
    <3> QED BY <1>2, <2>1, <3>1, PoolFields
  <2>3. \A s \in 1..Slots(n) : (\E b \in StampsIn(n, pages) : b.slot = s) <=> t \in Holders(L, n, s)
    <3> SUFFICES ASSUME NEW s \in 1..Slots(n)
                 PROVE  (\E b \in StampsIn(n, pages) : b.slot = s) <=> t \in Holders(L, n, s)
      OBVIOUS
    <3>1. ASSUME NEW b \in StampsIn(n, pages), b.slot = s PROVE t \in Holders(L, n, s)
      <4>1. PICK g \in pages : g.pool = n /\ g.stamp = b
        BY DEF StampsIn
      <4>2. PICK c \in L : c = ClaimOf(t, n, b)
        BY <1>0, <4>1
      <4>3. c.who = t /\ c.pool = n /\ c.stamp = b
        BY <4>2, ClaimFields
      <4> QED BY <3>1, <4>3 DEF Holders, At
    <3>2. ASSUME t \in Holders(L, n, s) PROVE \E b \in StampsIn(n, pages) : b.slot = s
      <4>1. PICK c \in L : c.who = t /\ At(c, n, s)
        BY <3>2 DEF Holders
      <4>2. PICK g \in pages : c = ClaimOf(t, g.pool, g.stamp)
        BY <1>0, <4>1
      <4>3. g.pool = n /\ g.stamp.slot = s
        BY <4>1, <4>2, ClaimFields DEF At
      <4> QED BY <4>3 DEF StampsIn
    <3> QED BY <3>1, <3>2
  <2>4. \A s \in 1..Slots(n) : t \in Holders(L, n, s) => p.pins[s] - 1 \in Nat
    <3> SUFFICES ASSUME NEW s \in 1..Slots(n), t \in Holders(L, n, s) PROVE p.pins[s] - 1 \in Nat
      OBVIOUS
    <3>1. p.pins[s] # 0
      BY <1>2, <2>1, HoldersFinite DEF PinsCount
    <3> QED BY <2>2, <3>1
  <2>5. \A s \in 1..Slots(n) : f[s] = IF t \in Holders(L, n, s) THEN p.pins[s] - 1 ELSE p.pins[s]
    BY <2>1, <2>2, <2>3
  <2>6. f \in [1..Slots(n) -> Nat]
    BY <2>1, <2>2, <2>4, <2>5
  <2>7. Sound(q, Slots(n)) /\ q.state = p.state /\ q.pins = f /\ q.generation = p.generation
    <3>1. LET r == [p EXCEPT !.pins = f] IN
          Sound(r, Slots(n)) /\ r.state = p.state /\ r.pins = f /\ r.generation = p.generation
      BY <2>2, <2>6, PinsChanged
    <3> QED BY <2>1, <3>1
  <2>8. q = ps2[n] /\ p = ps[n]
    BY <2>1
  <2> QED BY <2>5, <2>7, <2>8
<1>4. PoolsSound(ps2, mem)
  <2>1. ByPool(ps2)
    BY <1>1 DEF ByPool
  <2> QED BY <1>2, <1>3, <2>1 DEF PoolsSound
<1>5. \A n \in PoolName : \A s \in 1..Slots(n) :
        /\ ps2[n].generation[s] = ps[n].generation[s]
        /\ ps2[n].state[s] = IF \E c \in R : c.who = t /\ At(c, n, s) /\ Holds(ps[n], c.stamp)
                             THEN Empty ELSE ps[n].state[s]
        /\ ps2[n].pins[s] = IF t \in Holders(L, n, s) THEN ps[n].pins[s] - 1
                            ELSE ps[n].pins[s]
  BY <1>0, <1>3
<1>6. R = {c \in R : c.who # t} /\ W \subseteq W /\ \A c \in R : Live(c, W) => Live(c, W)
  BY <1>0
<1>7. Ledger(ps2, mem, L3, R, W, U2)
  <2>1. L3 = {c \in L : c.who # t}
    BY DEF ClaimsNotBy
  <2> QED BY <1>4, <1>5, <1>6, <2>1, TicketEnds
<1> QED BY <1>3, <1>7, <1>1

-----------------------------------------------------------------------------
(* The claims of the tickets when one ticket changes *)

(* From tk to tk2 only ticket t changes. *)
OthersWait(tk, tk2, t) ==
  tk2 \in [Tickets -> Ticket] /\ \A u \in Tickets : u # t => tk2[u] = tk[u]


(* Changing one ticket leaves the claims of the others as they are. *)
LEMMA OtherClaims ==
  ASSUME NEW tk, NEW own, NEW tk2, NEW t, OthersWait(tk, tk2, t)
  PROVE  /\ \A c \in Claim : c.who # t =>
              /\ c \in LeasesIn(tk2) <=> c \in LeasesIn(tk)
              /\ c \in ReservationsIn(tk2, own) <=> c \in ReservationsIn(tk, own)
         /\ \A u \in Tickets : u # t => (u \in UploadedIn(tk2) <=> u \in UploadedIn(tk))
<1>1. \A u \in Tickets : u # t => tk2[u] = tk[u]
  BY DEF OthersWait
<1>2. \A c \in Claim : c.who # t => (c \in LeasesIn(tk2) <=> c \in LeasesIn(tk))
  BY <1>1 DEF LeasesIn
<1>3. \A c \in Claim : c.who # t => (c \in ReservationsIn(tk2, own) <=> c \in ReservationsIn(tk, own))
  BY <1>1 DEF ReservationsIn
<1> QED BY <1>1, <1>2, <1>3 DEF UploadedIn

(* The claims of a ticket are what its pages say. *)
LEMMA ClaimsOfTicket ==
  ASSUME NEW tk, NEW own, NEW t \in Tickets
  PROVE  \A c \in Claim : c.who = t =>
           /\ c \in LeasesIn(tk) <=> Held(tk[t], c)
           /\ c \in ReservationsIn(tk, own) <=> Awaited(tk[t], c)
BY DEF LeasesIn, ReservationsIn

(* Leases and reservations are claims, and leases are held by tickets. *)
LEMMA ClaimsAreClaims ==
  ASSUME NEW tk, NEW own
  PROVE  /\ LeasesIn(tk) \subseteq Claim /\ ReservationsIn(tk, own) \subseteq Claim
         /\ \A c \in LeasesIn(tk) : c.who \in Tickets
BY DEF LeasesIn, ReservationsIn

(* What a ticket of a typed state is made of. *)
LEMMA PagesTyped ==
  ASSUME NEW tk, TicketsTyped(tk), NEW t \in Tickets
  PROVE  /\ tk[t] \in Ticket /\ tk[t].pages \in Seq(PageType)
         /\ tk[t].status \in {"none", "loading", "leased"} /\ tk[t].uploaded \in BOOLEAN
         /\ tk[t] = [status |-> tk[t].status, pages |-> tk[t].pages, uploaded |-> tk[t].uploaded]
         /\ \A g \in Range(tk[t].pages) : g \in PageType
         /\ DOMAIN tk = Tickets
<1>1. tk[t] \in Ticket /\ DOMAIN tk = Tickets
  BY DEF TicketsTyped
<1>2. tk[t].pages \in Seq(PageType)
  BY <1>1 DEF Ticket
<1>3. \A g \in Range(tk[t].pages) : g \in PageType
  <2>1. \A i \in DOMAIN tk[t].pages : tk[t].pages[i] \in PageType
    BY <1>2, LenProperties, ElementOfSeq
  <2> QED BY <2>1 DEF Range
<1> QED BY <1>1, <1>2, <1>3 DEF Ticket

(* A change of one ticket that keeps what it holds, awaits and has uploaded
   keeps the claims of all. *)
LEMMA SameClaims ==
  ASSUME NEW tk, NEW own, NEW t \in Tickets, NEW tk2, OthersWait(tk, tk2, t)
  PROVE  /\ (\A c \in Claim : c.who = t => (Held(tk2[t], c) <=> Held(tk[t], c)))
              => LeasesIn(tk2) = LeasesIn(tk)
         /\ (\A c \in Claim : c.who = t => (Awaited(tk2[t], c) <=> Awaited(tk[t], c)))
              => ReservationsIn(tk2, own) = ReservationsIn(tk, own)
         /\ (tk2[t].uploaded <=> tk[t].uploaded) => UploadedIn(tk2) = UploadedIn(tk)
<1>1. ASSUME \A c \in Claim : c.who = t => (Held(tk2[t], c) <=> Held(tk[t], c))
      PROVE  LeasesIn(tk2) = LeasesIn(tk)
  <2>1. \A c \in Claim : c \in LeasesIn(tk2) <=> c \in LeasesIn(tk)
    <3> SUFFICES ASSUME NEW c \in Claim PROVE c \in LeasesIn(tk2) <=> c \in LeasesIn(tk)
      OBVIOUS
    <3>1. CASE c.who = t
      BY <1>1, <3>1, ClaimsOfTicket
    <3>2. CASE c.who # t
      BY <3>2, OtherClaims
    <3> QED BY <3>1, <3>2
  <2> QED BY <2>1, ClaimsAreClaims
<1>2. ASSUME \A c \in Claim : c.who = t => (Awaited(tk2[t], c) <=> Awaited(tk[t], c))
      PROVE  ReservationsIn(tk2, own) = ReservationsIn(tk, own)
  <2>1. \A c \in Claim : c \in ReservationsIn(tk2, own) <=> c \in ReservationsIn(tk, own)
    <3> SUFFICES ASSUME NEW c \in Claim
                 PROVE  c \in ReservationsIn(tk2, own) <=> c \in ReservationsIn(tk, own)
      OBVIOUS
    <3>1. CASE c.who = t
      BY <1>2, <3>1, ClaimsOfTicket
    <3>2. CASE c.who # t
      BY <3>2, OtherClaims
    <3> QED BY <3>1, <3>2
  <2> QED BY <2>1, ClaimsAreClaims
<1>3. ASSUME tk2[t].uploaded <=> tk[t].uploaded PROVE UploadedIn(tk2) = UploadedIn(tk)
  <2>1. \A u \in Tickets : u \in UploadedIn(tk2) <=> u \in UploadedIn(tk)
    <3>1. t \in UploadedIn(tk2) <=> t \in UploadedIn(tk)
      BY <1>3 DEF UploadedIn
    <3> QED BY <3>1, OtherClaims
  <2> QED BY <2>1 DEF UploadedIn
<1> QED BY <1>1, <1>2, <1>3

(* The claims of a loading ticket are those of its pages. *)
LEMMA LoadingCovers ==
  ASSUME NEW tk, NEW own, TicketsTyped(tk), NEW t \in Tickets, tk[t].status = "loading"
  PROVE  Covers(LeasesIn(tk), ReservationsIn(tk, own), t, Range(tk[t].pages))
<1>1. \A g \in Range(tk[t].pages) : g \in PageType
  BY PagesTyped
<1>2. ASSUME NEW g \in Range(tk[t].pages)
      PROVE  ClaimOf(t, g.pool, g.stamp) \in (IF g.hit THEN LeasesIn(tk) ELSE ReservationsIn(tk, own))
  <2>1. PICK c : c = ClaimOf(t, g.pool, g.stamp)
    OBVIOUS
  <2>2. g.pool \in PoolName /\ g.stamp \in PageStamp /\ g.hit \in BOOLEAN
    BY <1>1 DEF PageType
  <2>3. c \in Claim /\ c.who = t /\ c.pool = g.pool /\ c.stamp = g.stamp
    BY <2>1, <2>2 DEF ClaimOf, Claim
  <2>4. g.hit => Held(tk[t], c)
    BY <2>3 DEF Held
  <2>5. ~g.hit => Awaited(tk[t], c)
    BY <2>3 DEF Awaited
  <2> QED BY <2>1, <2>3, <2>4, <2>5, ClaimsOfTicket
<1>3. ASSUME NEW c \in LeasesIn(tk), c.who = t
      PROVE  \E g \in Range(tk[t].pages) : g.hit /\ c = ClaimOf(t, g.pool, g.stamp)
  <2>1. c \in Claim /\ Held(tk[t], c)
    BY <1>3 DEF LeasesIn
  <2>2. PICK g \in Range(tk[t].pages) : g.pool = c.pool /\ g.stamp = c.stamp /\ g.hit
    BY <2>1 DEF Held
  <2> QED BY <1>3, <2>1, <2>2, ClaimFields
<1>4. ASSUME NEW c \in ReservationsIn(tk, own), c.who = t
      PROVE  \E g \in Range(tk[t].pages) : ~g.hit /\ c = ClaimOf(t, g.pool, g.stamp)
  <2>1. c \in Claim /\ Awaited(tk[t], c)
    BY <1>4 DEF ReservationsIn
  <2>2. PICK g \in Range(tk[t].pages) : g.pool = c.pool /\ g.stamp = c.stamp /\ ~g.hit
    BY <2>1 DEF Awaited
  <2> QED BY <1>4, <2>1, <2>2, ClaimFields
<1> QED BY <1>1, <1>2, <1>3, <1>4 DEF Covers

(* A leased ticket leases every page and reserves none. *)
LEMMA LeasedClaims ==
  ASSUME NEW tk, NEW own, TicketsTyped(tk), NEW t \in Tickets, tk[t].status = "leased"
  PROVE  /\ \A g \in Range(tk[t].pages) : ClaimOf(t, g.pool, g.stamp) \in LeasesIn(tk)
         /\ \A c \in LeasesIn(tk) : c.who = t =>
              \E g \in Range(tk[t].pages) : c = ClaimOf(t, g.pool, g.stamp)
         /\ \A c \in ReservationsIn(tk, own) : c.who # t
<1>1. \A g \in Range(tk[t].pages) : g \in PageType
  BY PagesTyped
<1>2. ASSUME NEW g \in Range(tk[t].pages) PROVE ClaimOf(t, g.pool, g.stamp) \in LeasesIn(tk)
  <2>1. PICK c : c = ClaimOf(t, g.pool, g.stamp)
    OBVIOUS
  <2>2. g.pool \in PoolName /\ g.stamp \in PageStamp
    BY <1>1 DEF PageType
  <2>3. c \in Claim /\ c.who = t /\ c.pool = g.pool /\ c.stamp = g.stamp
    BY <2>1, <2>2 DEF ClaimOf, Claim
  <2>4. Held(tk[t], c)
    BY <2>3 DEF Held
  <2> QED BY <2>1, <2>3, <2>4, ClaimsOfTicket
<1>3. ASSUME NEW c \in LeasesIn(tk), c.who = t
      PROVE  \E g \in Range(tk[t].pages) : c = ClaimOf(t, g.pool, g.stamp)
  <2>1. c \in Claim /\ Held(tk[t], c)
    BY <1>3 DEF LeasesIn
  <2>2. PICK g \in Range(tk[t].pages) : g.pool = c.pool /\ g.stamp = c.stamp
    BY <2>1 DEF Held
  <2> QED BY <1>3, <2>1, <2>2, ClaimFields
<1>4. \A c \in ReservationsIn(tk, own) : c.who # t
  BY DEF ReservationsIn, Awaited
<1> QED BY <1>2, <1>3, <1>4

(* A ticket is dropped. *)
Dropped(tk, t) == [tk EXCEPT ![t] = NoTicket]

(* Giving up a ticket removes its leases and reservations and nothing else. *)
LEMMA TicketDropped ==
  ASSUME NEW tk, NEW own, TicketsTyped(tk), NEW t \in Tickets,
         own \in Load \cup {NoLoad}, NEW tk0, tk0 = Dropped(tk, t)
  PROVE  /\ TicketsTyped(tk0)
         /\ LeasesIn(tk0) = ClaimsNotBy(LeasesIn(tk), t)
         /\ ReservationsIn(tk0, own) = ClaimsNotBy(ReservationsIn(tk, own), t)
         /\ UploadedIn(tk0) \subseteq UploadedIn(tk)
<1>0. PICK tk2 : tk2 = tk0 /\ tk2 = [tk EXCEPT ![t] = NoTicket]
  BY DEF Dropped
<1>1. NoTicket \in Ticket /\ Range(NoTicket.pages) = {} /\ ~NoTicket.uploaded /\ DOMAIN NoTicket.pages = {}
  <2>1. NoTicket.pages = << >> /\ << >> \in Seq(PageType) /\ DOMAIN << >> = {}
    BY DEF NoTicket
  <2> QED BY <2>1 DEF NoTicket, Ticket, Range
<1>2. tk2[t] = NoTicket /\ OthersWait(tk, tk2, t)
  BY <1>0, <1>1 DEF OthersWait, TicketsTyped
<1>3. TicketsTyped(tk2)
  BY <1>1, <1>2 DEF OthersWait, TicketsTyped
<1>4. \A c \in Claim : ~Held(tk2[t], c) /\ ~Awaited(tk2[t], c)
  BY <1>1, <1>2 DEF Held, Awaited
<1>5. LeasesIn(tk2) = {c \in LeasesIn(tk) : c.who # t}
  BY <1>2, <1>4, OtherClaims, ClaimsOfTicket, ClaimsAreClaims
<1>6. ReservationsIn(tk2, own) = {c \in ReservationsIn(tk, own) : c.who # t}
  BY <1>2, <1>4, OtherClaims, ClaimsOfTicket, ClaimsAreClaims
<1>7. UploadedIn(tk2) \subseteq UploadedIn(tk)
  BY <1>1, <1>2, OtherClaims DEF UploadedIn
<1> QED BY <1>0, <1>3, <1>5, <1>6, <1>7 DEF ClaimsNotBy

(* Ticket t while begin_after_official_route has acquired `pages`. *)
Opened(tk, t, pages) ==
  [tk EXCEPT ![t] = [status |-> "loading", pages |-> pages, uploaded |-> FALSE]]

(* A ticket that begin_after_official_route has just made: loading, not
   uploaded. *)
LEMMA OpenedFields ==
  ASSUME NEW tk, TicketsTyped(tk), NEW t \in Tickets, NEW pages \in Seq(PageType),
         NEW tk2, tk2 = Opened(tk, t, pages)
  PROVE  /\ tk2[t] \in Ticket /\ tk2[t].status = "loading" /\ tk2[t].pages = pages
         /\ ~tk2[t].uploaded /\ OthersWait(tk, tk2, t)
<1>1. PICK x : x = [status |-> "loading", pages |-> pages, uploaded |-> FALSE]
  OBVIOUS
<1>2. x \in Ticket /\ x.status = "loading" /\ x.pages = pages /\ ~x.uploaded
  BY <1>1 DEF Ticket
<1>3. tk \in [Tickets -> Ticket]
  BY DEF TicketsTyped
<1>4. tk2 = [tk EXCEPT ![t] = x]
  BY <1>1 DEF Opened
<1>5. tk2 \in [Tickets -> Ticket] /\ tk2[t] = x /\ \A u \in Tickets : u # t => tk2[u] = tk[u]
  BY <1>2, <1>3, <1>4
<1> QED BY <1>2, <1>5 DEF OthersWait

(* A ticket without pages claims nothing. *)
LEMMA TicketOpened ==
  ASSUME NEW tk, NEW own, TicketsTyped(tk), NEW t \in Tickets, tk[t] = NoTicket,
         NEW tk3, tk3 = Opened(tk, t, << >>)
  PROVE  /\ TicketsTyped(tk3) /\ LeasesIn(tk3) = LeasesIn(tk)
         /\ ReservationsIn(tk3, own) = ReservationsIn(tk, own)
         /\ UploadedIn(tk3) = UploadedIn(tk)
<1>0. PICK tk2, e : tk2 = tk3 /\ e = << >> /\ tk2 = Opened(tk, t, e)
  OBVIOUS
<1>1. e \in Seq(PageType) /\ Range(e) = {} /\ DOMAIN e = {}
  BY <1>0 DEF Range
<1>2. /\ tk2[t] \in Ticket /\ tk2[t].status = "loading" /\ tk2[t].pages = e
      /\ ~tk2[t].uploaded /\ OthersWait(tk, tk2, t)
  <2>1. tk2 = Opened(tk, t, e) /\ e \in Seq(PageType)
    BY <1>0, <1>1
  <2> QED BY <2>1, OpenedFields
<1>3. TicketsTyped(tk2)
  BY <1>1, <1>2 DEF OthersWait, TicketsTyped
<1>4. \A c \in Claim : ~Held(tk2[t], c) /\ ~Awaited(tk2[t], c)
  BY <1>1, <1>2 DEF Held, Awaited
<1>5. tk[t].pages = e /\ ~tk[t].uploaded
  BY <1>0 DEF NoTicket
<1>6. \A c \in Claim : ~Held(tk[t], c) /\ ~Awaited(tk[t], c)
  BY <1>1, <1>5 DEF Held, Awaited
<1>7. LeasesIn(tk2) = LeasesIn(tk)
  BY <1>2, <1>4, <1>6, SameClaims
<1>8. ReservationsIn(tk2, own) = ReservationsIn(tk, own)
  BY <1>2, <1>4, <1>6, SameClaims
<1>9. UploadedIn(tk2) = UploadedIn(tk)
  BY <1>2, <1>5, SameClaims
<1> QED BY <1>0, <1>3, <1>7, <1>8, <1>9

(* What appending a page to a list of pages makes of it. *)
LEMMA AppendedPage ==
  ASSUME NEW S, NEW s \in Seq(S), NEW x \in S
  PROVE  /\ Append(s, x) \in Seq(S) /\ Range(Append(s, x)) = Range(s) \cup {x}
         /\ DOMAIN Append(s, x) = DOMAIN s \cup {Len(s) + 1} /\ Append(s, x)[Len(s) + 1] = x
         /\ \A i \in DOMAIN s : Append(s, x)[i] = s[i] /\ i # Len(s) + 1
<1>1. PICK m, r : m = Len(s) /\ r = Append(s, x)
  OBVIOUS
<1>2. m \in Nat /\ DOMAIN s = 1..m
  BY <1>1, LenProperties
<1>3. r \in Seq(S) /\ Len(r) = m + 1 /\ r[m + 1] = x /\ \A i \in 1..m : r[i] = s[i]
  BY <1>1, AppendProperties
<1>4. DOMAIN r = 1..(m + 1)
  BY <1>3, LenProperties
<1>5. 1..(m + 1) = 1..m \cup {m + 1} /\ m + 1 \notin 1..m
  BY <1>2
<1>6. Range(r) = Range(s) \cup {x}
  BY <1>2, <1>3, <1>4, <1>5 DEF Range
<1> QED BY <1>1, <1>2, <1>3, <1>4, <1>5, <1>6

(* One more page acquired. *)
LEMMA PageAdded ==
  ASSUME NEW tk, NEW own, TicketsTyped(tk), NEW t \in Tickets, NEW pages \in Seq(PageType),
         NEW tk1, tk1 = Opened(tk, t, pages), TicketsTyped(tk1), NEW g \in PageType,
         \A h \in Range(pages) : ~SamePage(h, g),
         own \in Load \cup {NoLoad}, NEW tk3, tk3 = Opened(tk, t, Append(pages, g)),
         NEW c, c = ClaimOf(t, g.pool, g.stamp)
  PROVE  /\ TicketsTyped(tk3) /\ UploadedIn(tk3) = UploadedIn(tk1)
         /\ LeasesIn(tk3) = IF g.hit THEN LeasesIn(tk1) \cup {c} ELSE LeasesIn(tk1)
         /\ ReservationsIn(tk3, own) = IF g.hit THEN ReservationsIn(tk1, own)
                                       ELSE ReservationsIn(tk1, own) \cup {c}
<1>1. PICK r, l, tk2 : /\ r = Append(pages, g) /\ l = Len(pages) + 1
                       /\ tk2 = tk3 /\ tk2 = Opened(tk, t, r)
  OBVIOUS
<1>2. /\ r \in Seq(PageType) /\ Range(r) = Range(pages) \cup {g}
      /\ DOMAIN r = DOMAIN pages \cup {l} /\ r[l] = g
      /\ \A i \in DOMAIN pages : r[i] = pages[i] /\ i # l
  BY <1>1, AppendedPage
<1>3. /\ tk1[t] \in Ticket /\ tk1[t].status = "loading" /\ tk1[t].pages = pages
      /\ ~tk1[t].uploaded /\ OthersWait(tk, tk1, t)
  BY OpenedFields
<1>4. /\ tk2[t] \in Ticket /\ tk2[t].status = "loading" /\ tk2[t].pages = r
      /\ ~tk2[t].uploaded /\ OthersWait(tk, tk2, t)
  <2>1. tk2 = Opened(tk, t, r)
    BY <1>1
  <2> QED BY <1>2, <2>1, OpenedFields
<1>5. OthersWait(tk1, tk2, t)
  BY <1>3, <1>4 DEF OthersWait
<1>6. TicketsTyped(tk2)
  <2>1. \A i \in DOMAIN pages : pages[i] \in Range(pages)
    BY DEF Range
  <2>2. \A i, j \in DOMAIN pages : SamePage(pages[i], pages[j]) => i = j
    BY <1>3 DEF TicketsTyped
  <2>3. \A i, j \in DOMAIN r : SamePage(r[i], r[j]) => i = j
    <3> SUFFICES ASSUME NEW i \in DOMAIN r, NEW j \in DOMAIN r, SamePage(r[i], r[j])
                 PROVE  i = j
      OBVIOUS
    <3>1. CASE i \in DOMAIN pages /\ j \in DOMAIN pages
      BY <1>2, <2>2, <3>1
    <3>2. CASE i \in DOMAIN pages /\ j = l
      BY <1>2, <2>1, <3>2
    <3>3. CASE i = l /\ j \in DOMAIN pages
      BY <1>2, <2>1, <3>3 DEF SamePage
    <3> QED BY <1>2, <3>1, <3>2, <3>3
  <2>4. \A u \in Tickets : u # t => tk2[u] = tk1[u]
    BY <1>5 DEF OthersWait
  <2>5. tk2 \in [Tickets -> Ticket]
    BY <1>5 DEF OthersWait
  <2>6. ASSUME NEW u \in Tickets
        PROVE  /\ tk2[u].status = "none" => tk2[u] = NoTicket
               /\ \A i, j \in DOMAIN tk2[u].pages :
                    SamePage(tk2[u].pages[i], tk2[u].pages[j]) => i = j
    <3>1. CASE u = t
      <4>1. tk2[u].status # "none" /\ tk2[u].pages = r
        BY <1>4, <3>1
      <4> QED BY <2>3, <4>1
    <3>2. CASE u # t
      BY <2>4, <3>2 DEF TicketsTyped
    <3> QED BY <3>1, <3>2
  <2> QED BY <2>5, <2>6 DEF TicketsTyped
<1>7. c \in Claim /\ c.who = t /\ c.pool = g.pool /\ c.stamp = g.stamp /\ g.hit \in BOOLEAN
  BY DEF PageType, ClaimOf, Claim
<1>8. \A d \in Claim : d.who = t /\ d.pool = c.pool /\ d.stamp = c.stamp => d = c
  BY <1>7, ClaimFields
<1>9. \A d \in Claim : d.who = t => (Held(tk2[t], d) <=> Held(tk1[t], d) \/ (g.hit /\ d = c))
  BY <1>2, <1>3, <1>4, <1>7, <1>8 DEF Held
<1>10. \A d \in Claim : d.who = t => (Awaited(tk2[t], d) <=> Awaited(tk1[t], d) \/ (~g.hit /\ d = c))
  BY <1>2, <1>3, <1>4, <1>7, <1>8 DEF Awaited
<1>11. \A d \in Claim : d \in LeasesIn(tk2) <=> d \in LeasesIn(tk1) \/ (g.hit /\ d = c)
  <2> SUFFICES ASSUME NEW d \in Claim
               PROVE  d \in LeasesIn(tk2) <=> d \in LeasesIn(tk1) \/ (g.hit /\ d = c)
    OBVIOUS
  <2>1. CASE d.who = t
    <3>1. /\ d \in LeasesIn(tk2) <=> Held(tk2[t], d)
          /\ d \in LeasesIn(tk1) <=> Held(tk1[t], d)
      BY <2>1, ClaimsOfTicket
    <3> QED BY <1>9, <2>1, <3>1
  <2>2. CASE d.who # t
    <3>1. d \in LeasesIn(tk2) <=> d \in LeasesIn(tk1)
      BY <1>5, <2>2, OtherClaims
    <3> QED BY <1>7, <2>2, <3>1
  <2> QED BY <2>1, <2>2
<1>12. \A d \in Claim : d \in ReservationsIn(tk2, own)
                          <=> d \in ReservationsIn(tk1, own) \/ (~g.hit /\ d = c)
  <2> SUFFICES ASSUME NEW d \in Claim
               PROVE  d \in ReservationsIn(tk2, own)
                        <=> d \in ReservationsIn(tk1, own) \/ (~g.hit /\ d = c)
    OBVIOUS
  <2>1. CASE d.who = t
    <3>1. /\ d \in ReservationsIn(tk2, own) <=> Awaited(tk2[t], d)
          /\ d \in ReservationsIn(tk1, own) <=> Awaited(tk1[t], d)
      BY <2>1, ClaimsOfTicket
    <3> QED BY <1>10, <2>1, <3>1
  <2>2. CASE d.who # t
    <3>1. d \in ReservationsIn(tk2, own) <=> d \in ReservationsIn(tk1, own)
      BY <1>5, <2>2, OtherClaims
    <3> QED BY <1>7, <2>2, <3>1
  <2> QED BY <2>1, <2>2
<1>13. LeasesIn(tk2) = IF g.hit THEN LeasesIn(tk1) \cup {c} ELSE LeasesIn(tk1)
  BY <1>7, <1>11, ClaimsAreClaims
<1>14. ReservationsIn(tk2, own) = IF g.hit THEN ReservationsIn(tk1, own)
                                  ELSE ReservationsIn(tk1, own) \cup {c}
  BY <1>7, <1>12, ClaimsAreClaims
<1>15. UploadedIn(tk2) = UploadedIn(tk1)
  BY <1>3, <1>4, <1>5, SameClaims
<1> QED BY <1>1, <1>6, <1>13, <1>14, <1>15

(* The tickets after the transfer fence of t. *)
WithUpload(tk, t) == [tk EXCEPT ![t].uploaded = TRUE]
WithStatus(tk, t, status) == [tk EXCEPT ![t].status = status]

(* The transfer fence of a ticket changes no claim: it only makes them
   uploaded. *)
LEMMA TicketUploaded ==
  ASSUME NEW tk, NEW own, TicketsTyped(tk), NEW t \in Tickets, tk[t].status = "loading",
         own \in Load \cup {NoLoad}, NEW tk0, tk0 = WithUpload(tk, t)
  PROVE  /\ TicketsTyped(tk0) /\ LeasesIn(tk0) = LeasesIn(tk)
         /\ ReservationsIn(tk0, own) = ReservationsIn(tk, own)
         /\ UploadedIn(tk0) = UploadedIn(tk) \cup {t}
<1>0. PICK tk2 : tk2 = tk0 /\ tk2 = [tk EXCEPT ![t].uploaded = TRUE]
  BY DEF WithUpload
<1>1. /\ tk[t] \in Ticket /\ DOMAIN tk = Tickets /\ tk[t].pages \in Seq(PageType)
      /\ tk[t] = [status |-> tk[t].status, pages |-> tk[t].pages, uploaded |-> tk[t].uploaded]
  BY PagesTyped
<1>2. PICK x : x = [tk[t] EXCEPT !.uploaded = TRUE]
  OBVIOUS
<1>3. x.status = tk[t].status /\ x.pages = tk[t].pages /\ x.uploaded = TRUE /\ x \in Ticket
  <2>1. x = [status |-> tk[t].status, pages |-> tk[t].pages, uploaded |-> TRUE]
    BY <1>1, <1>2
  <2> QED BY <1>1, <2>1 DEF Ticket
<1>4. tk2 = [tk EXCEPT ![t] = x]
  BY <1>0, <1>2
<1>5. tk \in [Tickets -> Ticket]
  BY DEF TicketsTyped
<1>6. tk2[t] = x /\ OthersWait(tk, tk2, t)
  BY <1>3, <1>4, <1>5 DEF OthersWait
<1>7. TicketsTyped(tk2)
  BY <1>3, <1>6 DEF OthersWait, TicketsTyped
<1>8. \A c \in Claim : (Held(tk2[t], c) <=> Held(tk[t], c)) /\ (Awaited(tk2[t], c) <=> Awaited(tk[t], c))
  BY <1>3, <1>6 DEF Held, Awaited
<1>9. LeasesIn(tk2) = LeasesIn(tk)
  BY <1>6, <1>8, SameClaims
<1>10. ReservationsIn(tk2, own) = ReservationsIn(tk, own)
  BY <1>6, <1>8, SameClaims
<1>11. UploadedIn(tk2) = UploadedIn(tk) \cup {t}
  <2>1. t \in UploadedIn(tk2)
    BY <1>3, <1>6 DEF UploadedIn
  <2>2. \A u \in Tickets : u # t => (u \in UploadedIn(tk2) <=> u \in UploadedIn(tk))
    BY <1>6, OtherClaims
  <2>3. UploadedIn(tk2) \subseteq Tickets /\ UploadedIn(tk) \subseteq Tickets
    BY DEF UploadedIn
  <2> QED BY <2>1, <2>2, <2>3
<1> QED BY <1>0, <1>7, <1>9, <1>10, <1>11

(* Publication turns the reservations of t into leases. *)
LEMMA TicketLeased ==
  ASSUME NEW tk, NEW own, TicketsTyped(tk), NEW t \in Tickets, tk[t].status = "loading",
         own \in Load \cup {NoLoad}, NEW tk0, tk0 = WithStatus(tk, t, "leased")
  PROVE  /\ TicketsTyped(tk0)
         /\ LeasesIn(tk0) = AllClaims(LeasesIn(tk), ClaimsBy(ReservationsIn(tk, own), t))
         /\ ReservationsIn(tk0, own) = ClaimsNotBy(ReservationsIn(tk, own), t)
         /\ UploadedIn(tk0) = UploadedIn(tk)
<1>0. PICK tk2 : tk2 = tk0 /\ tk2 = [tk EXCEPT ![t].status = "leased"]
  BY DEF WithStatus
<1>1. /\ tk[t] \in Ticket /\ DOMAIN tk = Tickets /\ tk[t].pages \in Seq(PageType)
      /\ tk[t] = [status |-> tk[t].status, pages |-> tk[t].pages, uploaded |-> tk[t].uploaded]
      /\ \A g \in Range(tk[t].pages) : g.hit \in BOOLEAN
  BY PagesTyped DEF PageType
<1>2. PICK x : x = [tk[t] EXCEPT !.status = "leased"]
  OBVIOUS
<1>3. x.status = "leased" /\ x.pages = tk[t].pages /\ x.uploaded = tk[t].uploaded /\ x \in Ticket
  <2>1. x = [status |-> "leased", pages |-> tk[t].pages, uploaded |-> tk[t].uploaded]
    BY <1>1, <1>2
  <2>2. tk[t].uploaded \in BOOLEAN
    BY PagesTyped
  <2> QED BY <1>1, <2>1, <2>2 DEF Ticket
<1>4. tk2 = [tk EXCEPT ![t] = x]
  BY <1>0, <1>2
<1>5. tk \in [Tickets -> Ticket]
  BY DEF TicketsTyped
<1>6. tk2[t] = x /\ OthersWait(tk, tk2, t)
  BY <1>3, <1>4, <1>5 DEF OthersWait
<1>7. TicketsTyped(tk2)
  BY <1>3, <1>6 DEF OthersWait, TicketsTyped
<1>8. \A c \in Claim : (Held(tk2[t], c) <=> Held(tk[t], c) \/ Awaited(tk[t], c)) /\ ~Awaited(tk2[t], c)
  BY <1>1, <1>3, <1>6 DEF Held, Awaited
<1>9. \A d \in Claim : d \in LeasesIn(tk2)
        <=> d \in LeasesIn(tk) \/ (d \in ReservationsIn(tk, own) /\ d.who = t)
  <2> SUFFICES ASSUME NEW d \in Claim
               PROVE  d \in LeasesIn(tk2)
                        <=> d \in LeasesIn(tk) \/ (d \in ReservationsIn(tk, own) /\ d.who = t)
    OBVIOUS
  <2>1. CASE d.who = t
    <3>1. d \in LeasesIn(tk2) <=> Held(tk2[t], d)
      BY <2>1, ClaimsOfTicket
    <3>2. d \in LeasesIn(tk) <=> Held(tk[t], d)
      BY <2>1, ClaimsOfTicket
    <3>3. d \in ReservationsIn(tk, own) <=> Awaited(tk[t], d)
      BY <2>1, ClaimsOfTicket
    <3> QED BY <1>8, <2>1, <3>1, <3>2, <3>3
  <2>2. CASE d.who # t
    BY <1>6, <2>2, OtherClaims
  <2> QED BY <2>1, <2>2
<1>10. LeasesIn(tk2) = LeasesIn(tk) \cup {c \in ReservationsIn(tk, own) : c.who = t}
  BY <1>9, ClaimsAreClaims
<1>11. ReservationsIn(tk2, own) = {c \in ReservationsIn(tk, own) : c.who # t}
  <2>1. \A c \in Claim : c.who = t => c \notin ReservationsIn(tk2, own)
    BY <1>8, ClaimsOfTicket
  <2>2. \A c \in Claim : c.who # t => (c \in ReservationsIn(tk2, own) <=> c \in ReservationsIn(tk, own))
    BY <1>6, OtherClaims
  <2> QED BY <2>1, <2>2, ClaimsAreClaims
<1>12. UploadedIn(tk2) = UploadedIn(tk)
  <2>1. tk2[t].uploaded <=> tk[t].uploaded
    BY <1>3, <1>6
  <2> QED BY <1>6, <2>1, SameClaims
<1> QED BY <1>0, <1>7, <1>10, <1>11, <1>12 DEF ClaimsBy, ClaimsNotBy, AllClaims

-----------------------------------------------------------------------------
(* begin_after_official_route: one page after the other *)

OfPage(g, n, k) == g.pool = n /\ g.stamp.key = k
HitPage(g, n, r) == g = [pool |-> n, hit |-> TRUE, stamp |-> r]
LoadPage(g, n, r) == g = [pool |-> n, hit |-> FALSE, stamp |-> r]
NotYet(pages, n, k) == \A h \in Range(pages) : ~OfPage(h, n, k)

(* A page joins a ticket together with what it holds on its slot. *)
LEMMA PageJoins ==
  ASSUME NEW tk, TicketsTyped(tk), NEW t \in Tickets, NEW ps, NEW mem, NEW own, NEW wd,
         NEW pages \in Seq(PageType), NEW tk0, tk0 = Opened(tk, t, pages),
         Consistent(ps, mem, tk0, own, wd),
         NEW g \in PageType, \A h \in Range(pages) : ~SamePage(h, g),
         NEW c0, c0 = ClaimOf(t, g.pool, g.stamp), NEW qs,
         Ledger(qs, mem, IF g.hit THEN LeasesIn(tk0) \cup {c0} ELSE LeasesIn(tk0),
                IF g.hit THEN ReservationsIn(tk0, own) ELSE ReservationsIn(tk0, own) \cup {c0},
                wd, UploadedIn(tk0))
  PROVE  Consistent(qs, mem, Opened(tk, t, Append(pages, g)), own, wd)
<1>1. PICK tk1, c, tk3 : /\ tk1 = tk0 /\ tk1 = Opened(tk, t, pages)
                         /\ c = c0 /\ c = ClaimOf(t, g.pool, g.stamp)
                         /\ tk3 = Opened(tk, t, Append(pages, g))
  OBVIOUS
<1>2. TicketsTyped(tk1) /\ own \in Load \cup {NoLoad}
  BY <1>1 DEF Consistent
<1>3. /\ TicketsTyped(tk3) /\ UploadedIn(tk3) = UploadedIn(tk1)
      /\ LeasesIn(tk3) = IF g.hit THEN LeasesIn(tk1) \cup {c} ELSE LeasesIn(tk1)
      /\ ReservationsIn(tk3, own) = IF g.hit THEN ReservationsIn(tk1, own)
                                    ELSE ReservationsIn(tk1, own) \cup {c}
  <2>1. /\ TicketsTyped(tk) /\ tk1 = Opened(tk, t, pages) /\ TicketsTyped(tk1)
        /\ \A h \in Range(pages) : ~SamePage(h, g)
        /\ tk3 = Opened(tk, t, Append(pages, g)) /\ c = ClaimOf(t, g.pool, g.stamp)
        /\ own \in Load \cup {NoLoad}
    BY <1>1, <1>2
  <2> QED BY <2>1, PageAdded
<1>4. Consistent(qs, mem, tk3, own, wd)
  BY <1>1, <1>2, <1>3 DEF Consistent
<1> QED BY <1>1, <1>4

(* The state of a ticket that is being opened. *)
LEMMA OpeningFacts ==
  ASSUME NEW tk, TicketsTyped(tk), NEW t \in Tickets, NEW ps, NEW mem, NEW own, NEW wd,
         NEW pages \in Seq(PageType), NEW tk1, tk1 = Opened(tk, t, pages),
         Consistent(ps, mem, tk1, own, wd)
  PROVE  /\ Ledger(ps, mem, LeasesIn(tk1), ReservationsIn(tk1, own), wd, UploadedIn(tk1))
         /\ PoolsSound(ps, mem) /\ LeasesHold(ps, LeasesIn(tk1)) /\ ByPool(ps)
         /\ Covers(LeasesIn(tk1), ReservationsIn(tk1, own), t, Range(pages))
         /\ t \notin UploadedIn(tk1)
<1>1. TicketsTyped(tk1) /\ Ledger(ps, mem, LeasesIn(tk1), ReservationsIn(tk1, own), wd, UploadedIn(tk1))
  BY DEF Consistent
<1>2. tk1[t].status = "loading" /\ tk1[t].pages = pages /\ ~tk1[t].uploaded
  BY OpenedFields
<1>3. Covers(LeasesIn(tk1), ReservationsIn(tk1, own), t, Range(pages))
  <2>1. Covers(LeasesIn(tk1), ReservationsIn(tk1, own), t, Range(tk1[t].pages))
    BY <1>1, <1>2, LoadingCovers
  <2> QED BY <1>2, <2>1
<1>4. PoolsSound(ps, mem) /\ LeasesHold(ps, LeasesIn(tk1)) /\ ByPool(ps)
  BY <1>1 DEF Ledger, PoolsSound
<1>5. t \notin UploadedIn(tk1)
  BY <1>2 DEF UploadedIn
<1> QED BY <1>1, <1>3, <1>4, <1>5

(* A Ready page is pinned for the ticket. *)
LEMMA PageHit ==
  ASSUME NEW tk, TicketsTyped(tk), NEW t \in Tickets, NEW ps, NEW mem, NEW own, NEW wd,
         NEW pages \in Seq(PageType), Consistent(ps, mem, Opened(tk, t, pages), own, wd),
         NEW n \in PoolName, NEW k \in Key, Visible(ps[n], k),
         NotYet(pages, n, k),
         NEW q0, q0 = Pin(ps[n], k),
         NEW r0, r0 = Stamp(ps[n], k, ps[n].index[k]), NEW g, HitPage(g, n, r0)
  PROVE  /\ Consistent([ps EXCEPT ![n] = q0], mem, Opened(tk, t, Append(pages, g)), own, wd)
         /\ g \in PageType /\ g.pool = n /\ g.stamp.key = k
         /\ NoneReady(ps[n], q0, Slots(n))
<1>1. PICK q, tk1, L, R, U, r, s, c :
        /\ q = q0 /\ q = Pin(ps[n], k)
        /\ tk1 = Opened(tk, t, pages) /\ L = LeasesIn(tk1) /\ R = ReservationsIn(tk1, own)
        /\ U = UploadedIn(tk1) /\ s = ps[n].index[k] /\ r = Stamp(ps[n], k, s) /\ r = r0
        /\ c = ClaimOf(t, n, r)
  OBVIOUS
<1>2. /\ Ledger(ps, mem, L, R, wd, U) /\ PoolsSound(ps, mem) /\ LeasesHold(ps, L)
      /\ Covers(L, R, t, Range(pages))
  BY <1>1, OpeningFacts
<1>3. r.key = k /\ r.slot = s /\ g = [pool |-> n, hit |-> TRUE, stamp |-> r]
  BY <1>1 DEF Stamp, HitPage
<1>4. g.pool = n /\ g.hit = TRUE /\ g.stamp = r
  BY <1>3
<1>5. t \notin Holders(L, n, s)
  <2> SUFFICES ASSUME NEW d \in L, d.who = t, At(d, n, s) PROVE FALSE
    BY DEF Holders
  <2>1. PICK h \in Range(pages) : d = ClaimOf(t, h.pool, h.stamp)
    BY <1>2 DEF Covers
  <2>2. h.pool = n /\ h.stamp = d.stamp /\ d.pool = n /\ d.stamp.slot = s
    BY <2>1, ClaimFields DEF At
  <2>3. ps[n].state[s] = Ready(d.stamp.key)
    BY <1>2, <2>2 DEF LeasesHold
  <2>4. ps[n].state[s] = Ready(k)
    <3>1. Sound(ps[n], Slots(n)) /\ Slots(n) \in Nat
      BY <1>2, PoolFields DEF PoolsSound
    <3> QED BY <1>1, <3>1, SoundSlots
  <2>5. h.stamp.key = k
    BY <2>2, <2>3, <2>4, StatesDiffer
  <2> QED BY <2>2, <2>5 DEF NotYet, OfPage
<1>6. /\ Ledger([ps EXCEPT ![n] = q], mem, L \cup {c}, R, wd, U) /\ c \in Claim
      /\ NoneReady(ps[n], q, Slots(n))
  <2>1. /\ Ledger(ps, mem, L, R, wd, U) /\ Visible(ps[n], k) /\ q = Pin(ps[n], k)
        /\ c = ClaimOf(t, n, Stamp(ps[n], k, ps[n].index[k])) /\ t \notin Holders(L, n, ps[n].index[k])
    BY <1>1, <1>2, <1>5
  <2> QED BY <2>1, SlotPinned
<1>7. c.stamp = r /\ r \in PageStamp
  BY <1>1, <1>6, ClaimFields
<1>8. g \in PageType
  BY <1>3, <1>7 DEF PageType
<1>9. Consistent([ps EXCEPT ![n] = q], mem, Opened(tk, t, Append(pages, g)), own, wd)
  <2>1. PICK qs : qs = [ps EXCEPT ![n] = q]
    OBVIOUS
  <2>2. /\ TicketsTyped(tk) /\ tk1 = Opened(tk, t, pages) /\ Consistent(ps, mem, tk1, own, wd)
        /\ c = ClaimOf(t, g.pool, g.stamp)
        /\ \A h \in Range(pages) : ~SamePage(h, g)
    BY <1>1, <1>3, <1>4 DEF SamePage, NotYet, OfPage
  <2>3. Ledger(qs, mem, IF g.hit THEN LeasesIn(tk1) \cup {c} ELSE LeasesIn(tk1),
               IF g.hit THEN ReservationsIn(tk1, own) ELSE ReservationsIn(tk1, own) \cup {c},
               wd, UploadedIn(tk1))
    BY <1>1, <1>4, <1>6, <2>1
  <2>4. Consistent(qs, mem, Opened(tk, t, Append(pages, g)), own, wd)
    BY <1>8, <2>2, <2>3, PageJoins
  <2> QED BY <2>1, <2>4
<1> QED BY <1>1, <1>3, <1>4, <1>6, <1>8, <1>9

(* A slot is reserved for a page that is not in its pool. *)
LEMMA PageMiss ==
  ASSUME NEW tk, TicketsTyped(tk), NEW t \in Tickets, NEW ps, NEW mem, NEW own, NEW wd,
         NEW pages \in Seq(PageType), Consistent(ps, mem, Opened(tk, t, pages), own, wd),
         NEW n \in PoolName, NEW k \in Key, CanReserve(ps[n], k),
         NotYet(pages, n, k),
         NEW q0, q0 = Reserve(ps[n], k),
         NEW r0, r0 = Stamp(q0, k, SlotFor(ps[n])), NEW g, LoadPage(g, n, r0)
  PROVE  /\ Consistent([ps EXCEPT ![n] = q0], mem, Opened(tk, t, Append(pages, g)), own, wd)
         /\ g \in PageType /\ g.pool = n /\ g.stamp.key = k
         /\ NoneReady(ps[n], q0, Slots(n))
<1>1. PICK q, tk1, L, R, U, r, c :
        /\ q = q0 /\ q = Reserve(ps[n], k)
        /\ tk1 = Opened(tk, t, pages) /\ L = LeasesIn(tk1) /\ R = ReservationsIn(tk1, own)
        /\ U = UploadedIn(tk1) /\ r = Stamp(q, k, SlotFor(ps[n])) /\ r = r0 /\ c = ClaimOf(t, n, r)
  OBVIOUS
<1>2. Ledger(ps, mem, L, R, wd, U) /\ t \notin U
  BY <1>1, OpeningFacts
<1>3. r.key = k /\ g = [pool |-> n, hit |-> FALSE, stamp |-> r]
  BY <1>1 DEF Stamp, LoadPage
<1>4. g.pool = n /\ g.hit = FALSE /\ g.stamp = r
  BY <1>3
<1>6. /\ Ledger([ps EXCEPT ![n] = q], mem, L, R \cup {c}, wd, U) /\ c \in Claim
      /\ NoneReady(ps[n], q, Slots(n))
  <2>1. /\ Ledger(ps, mem, L, R, wd, U) /\ CanReserve(ps[n], k) /\ q = Reserve(ps[n], k)
        /\ c = ClaimOf(t, n, Stamp(q, k, SlotFor(ps[n]))) /\ t \in Tickets \cup {Owner} /\ t \notin U
    BY <1>1, <1>2
  <2>2. Ledger([ps EXCEPT ![n] = q], mem, L, R \cup {c}, wd, U) /\ c \in Claim
    BY <2>1, SlotReserved
  <2>3. NoneReady(ps[n], q, Slots(n))
    BY <2>1, SlotReserved
  <2> QED BY <2>2, <2>3
<1>7. c.stamp = r /\ r \in PageStamp
  BY <1>1, <1>6, ClaimFields
<1>8. g \in PageType
  BY <1>3, <1>7 DEF PageType
<1>9. Consistent([ps EXCEPT ![n] = q], mem, Opened(tk, t, Append(pages, g)), own, wd)
  <2>1. PICK qs : qs = [ps EXCEPT ![n] = q]
    OBVIOUS
  <2>2. /\ TicketsTyped(tk) /\ tk1 = Opened(tk, t, pages) /\ Consistent(ps, mem, tk1, own, wd)
        /\ c = ClaimOf(t, g.pool, g.stamp)
        /\ \A h \in Range(pages) : ~SamePage(h, g)
    BY <1>1, <1>3, <1>4 DEF SamePage, NotYet, OfPage
  <2>3. Ledger(qs, mem, IF g.hit THEN LeasesIn(tk1) \cup {c} ELSE LeasesIn(tk1),
               IF g.hit THEN ReservationsIn(tk1, own) ELSE ReservationsIn(tk1, own) \cup {c},
               wd, UploadedIn(tk1))
    BY <1>1, <1>4, <1>6, <2>1
  <2>4. Consistent(qs, mem, Opened(tk, t, Append(pages, g)), own, wd)
    BY <1>8, <2>2, <2>3, PageJoins
  <2> QED BY <2>1, <2>4
<1> QED BY <1>1, <1>3, <1>4, <1>6, <1>8, <1>9
-----------------------------------------------------------------------------
(* What has been acquired after each of the pages *)

Acquiring(a, tk, t, mem, own, wd) ==
  /\ a = [pools |-> a.pools, pages |-> a.pages, ok |-> a.ok]
  /\ a.pages \in Seq(PageType) /\ a.ok \in BOOLEAN
  /\ Consistent(a.pools, mem, Opened(tk, t, a.pages), own, wd)
PoolsNoneReady(ps, qs) == \A n \in PoolName : NoneReady(ps[n], qs[n], Slots(n))
Joined(b, a, n, q, g) ==
  b = [pools |-> [a.pools EXCEPT ![n] = q], pages |-> Append(a.pages, g), ok |-> a.ok]

(* acquire_page for a page the call has not asked for yet: the pools still
   agree with the tickets and the pages acquired so far, and no page becomes
   Ready. *)
LEMMA PageAcquired ==
  ASSUME NEW tk, TicketsTyped(tk), NEW t \in Tickets, NEW mem, NEW own, NEW wd,
         NEW a, Acquiring(a, tk, t, mem, own, wd), NEW n \in PoolName, NEW k \in Key,
         NotYet(a.pages, n, k),
         NEW want, want = [pool |-> n, key |-> k], NEW b0, b0 = AcquirePage(a, want)
  PROVE  /\ Acquiring(b0, tk, t, mem, own, wd) /\ PoolsNoneReady(a.pools, b0.pools)
         /\ \A h \in Range(b0.pages) : h \in Range(a.pages) \/ OfPage(h, n, k)
<1>1. PICK b, ps, pages : /\ b = b0 /\ b = AcquirePage(a, want)
                          /\ ps = a.pools /\ pages = a.pages
  OBVIOUS
<1>2. /\ a = [pools |-> ps, pages |-> pages, ok |-> a.ok] /\ pages \in Seq(PageType)
      /\ a.ok \in BOOLEAN /\ Consistent(ps, mem, Opened(tk, t, pages), own, wd)
      /\ NotYet(pages, n, k)
  BY <1>1 DEF Acquiring
<1>3. DOMAIN ps = PoolName
  BY <1>2 DEF Consistent, Ledger, PoolsSound, ByPool
<1>4. want.pool = n /\ want.key = k
  OBVIOUS
<1>5. ASSUME NEW q, NEW g, Joined(b, a, n, q, g), g \in PageType, g.pool = n, g.stamp.key = k,
             Consistent([ps EXCEPT ![n] = q], mem, Opened(tk, t, Append(pages, g)), own, wd),
             NoneReady(ps[n], q, Slots(n))
      PROVE  /\ Acquiring(b, tk, t, mem, own, wd) /\ PoolsNoneReady(ps, b.pools)
             /\ \A h \in Range(b.pages) : h \in Range(pages) \/ OfPage(h, n, k)
  <2>1. PICK qs, qp : qs = [ps EXCEPT ![n] = q] /\ qp = Append(pages, g)
    OBVIOUS
  <2>2. b = [pools |-> qs, pages |-> qp, ok |-> a.ok]
    BY <1>1, <1>5, <2>1 DEF Joined
  <2>3. b.pools = qs /\ b.pages = qp /\ b.ok = a.ok
    BY <2>2
  <2>4. qp \in Seq(PageType) /\ Range(qp) = Range(pages) \cup {g}
    BY <1>2, <1>5, <2>1, AppendedPage
  <2>5. Consistent(qs, mem, Opened(tk, t, qp), own, wd)
    BY <1>5, <2>1
  <2>6. Acquiring(b, tk, t, mem, own, wd)
    BY <1>2, <2>2, <2>3, <2>4, <2>5 DEF Acquiring
  <2>7. PoolsNoneReady(ps, qs)
    <3>1. qs[n] = q /\ \A m \in PoolName : m # n => qs[m] = ps[m]
      BY <1>3, <2>1
    <3> QED BY <1>5, <3>1 DEF PoolsNoneReady, NoneReady
  <2>8. \A h \in Range(qp) : h \in Range(pages) \/ OfPage(h, n, k)
    BY <1>5, <2>4 DEF OfPage
  <2> QED BY <2>3, <2>6, <2>7, <2>8
<1>6. CASE ~a.ok
  <2>1. b = a
    BY <1>1, <1>6 DEF AcquirePage
  <2>2. PoolsNoneReady(ps, ps)
    BY DEF PoolsNoneReady, NoneReady
  <2> QED BY <1>1, <2>1, <2>2
<1>7. CASE a.ok /\ Visible(ps[n], k)
  <2>1. PICK q, r, g : /\ q = Pin(ps[n], k) /\ r = Stamp(ps[n], k, ps[n].index[k])
                     /\ g = [pool |-> n, hit |-> TRUE, stamp |-> r]
    OBVIOUS
  <2>2. Joined(b, a, n, q, g)
    <3>1. b = [a EXCEPT !.pools[n] = q, !.pages = Append(a.pages, g)]
      BY <1>1, <1>4, <1>7, <2>1 DEF AcquirePage, Page
    <3>2. b = [pools |-> [ps EXCEPT ![n] = q], pages |-> Append(pages, g), ok |-> a.ok]
      BY <1>1, <1>2, <3>1
    <3> QED BY <1>1, <3>2 DEF Joined
  <2>3. /\ Consistent([ps EXCEPT ![n] = q], mem, Opened(tk, t, Append(pages, g)), own, wd)
        /\ g \in PageType /\ g.pool = n /\ g.stamp.key = k
        /\ NoneReady(ps[n], q, Slots(n))
    <3>1. /\ TicketsTyped(tk) /\ Consistent(ps, mem, Opened(tk, t, pages), own, wd)
          /\ pages \in Seq(PageType) /\ Visible(ps[n], k)
          /\ NotYet(pages, n, k)
          /\ q = Pin(ps[n], k) /\ r = Stamp(ps[n], k, ps[n].index[k]) /\ HitPage(g, n, r)
      BY <1>2, <1>7, <2>1 DEF HitPage
    <3> QED BY <3>1, PageHit
  <2> QED BY <1>1, <1>5, <2>2, <2>3
<1>8. CASE a.ok /\ ~Visible(ps[n], k) /\ CanReserve(ps[n], k)
  <2>1. PICK q, r, g : /\ q = Reserve(ps[n], k) /\ r = Stamp(q, k, SlotFor(ps[n]))
                     /\ g = [pool |-> n, hit |-> FALSE, stamp |-> r]
    OBVIOUS
  <2>2. Joined(b, a, n, q, g)
    <3>1. b = [a EXCEPT !.pools[n] = q, !.pages = Append(a.pages, g)]
      BY <1>1, <1>4, <1>8, <2>1 DEF AcquirePage, Page
    <3>2. b = [pools |-> [ps EXCEPT ![n] = q], pages |-> Append(pages, g), ok |-> a.ok]
      BY <1>1, <1>2, <3>1
    <3> QED BY <1>1, <3>2 DEF Joined
  <2>3. /\ Consistent([ps EXCEPT ![n] = q], mem, Opened(tk, t, Append(pages, g)), own, wd)
        /\ g \in PageType /\ g.pool = n /\ g.stamp.key = k
        /\ NoneReady(ps[n], q, Slots(n))
    <3>1. /\ TicketsTyped(tk) /\ Consistent(ps, mem, Opened(tk, t, pages), own, wd)
          /\ pages \in Seq(PageType) /\ CanReserve(ps[n], k)
          /\ NotYet(pages, n, k)
          /\ q = Reserve(ps[n], k) /\ r = Stamp(q, k, SlotFor(ps[n])) /\ LoadPage(g, n, r)
      BY <1>2, <1>8, <2>1 DEF LoadPage
    <3> QED BY <3>1, PageMiss
  <2> QED BY <1>1, <1>5, <2>2, <2>3
<1>9. CASE a.ok /\ ~Visible(ps[n], k) /\ ~CanReserve(ps[n], k)
  <2>1. PICK x, y : x = [a EXCEPT !.ok = FALSE] /\ b = x /\ y = a.ok
    BY <1>1, <1>4, <1>9 DEF AcquirePage
  <2>0. a = [pools |-> ps, pages |-> pages, ok |-> y]
    BY <1>2, <2>1
  <2>2. b = [pools |-> ps, pages |-> pages, ok |-> FALSE]
    BY <2>0, <2>1
  <2>3. b.pools = ps /\ b.pages = pages /\ b.ok = FALSE
    BY <2>2
  <2>4. Acquiring(b, tk, t, mem, own, wd)
    BY <1>2, <2>2, <2>3 DEF Acquiring
  <2>5. PoolsNoneReady(ps, ps)
    BY DEF PoolsNoneReady, NoneReady
  <2> QED BY <1>1, <2>3, <2>4, <2>5
<1> QED BY <1>6, <1>7, <1>8, <1>9

(* The states of the acquisition, one after the other. *)
AcquiredAt(f, ps, wants, i) ==
  IF i = 0 THEN [pools |-> ps, pages |-> << >>, ok |-> TRUE] ELSE AcquirePage(f[i - 1], wants[i])
Acquires(f, ps, wants, n) == f = [i \in 0..n |-> AcquiredAt(f, ps, wants, i)]

(* The recursive function behind Acquisition exists, for lists of any
   length. *)
LEMMA AcquisitionExists ==
  ASSUME NEW ps, NEW wants, NEW n \in Nat
  PROVE  \E f : Acquires(f, ps, wants, n)
<1> DEFINE T == {m \in Nat : \E f : \A i \in 0..m : f[i] = AcquiredAt(f, ps, wants, i)}
<1>1. \A f, g, i : i = 0 \/ f[i - 1] = g[i - 1] =>
        AcquiredAt(f, ps, wants, i) = AcquiredAt(g, ps, wants, i)
  BY DEF AcquiredAt
<1>2. 0 \in T
  <2> DEFINE g == [i \in 0..0 |-> AcquiredAt(<< >>, ps, wants, i)]
  <2>1. \A i \in 0..0 : i = 0 /\ g[i] = AcquiredAt(<< >>, ps, wants, i)
    OBVIOUS
  <2> HIDE DEF g
  <2>2. \A i \in 0..0 : g[i] = AcquiredAt(g, ps, wants, i)
    BY <1>1, <2>1
  <2> QED BY <2>2
<1>3. ASSUME NEW m \in T PROVE m + 1 \in T
  <2>1. m \in Nat /\ m + 1 \in Nat
    OBVIOUS
  <2>2. PICK f : \A i \in 0..m : f[i] = AcquiredAt(f, ps, wants, i)
    OBVIOUS
  <2> DEFINE h == [i \in 0..(m + 1) |-> AcquiredAt(f, ps, wants, i)]
  <2>3. \A i \in 0..(m + 1) : h[i] = AcquiredAt(f, ps, wants, i)
    OBVIOUS
  <2> HIDE DEF h
  <2>4. ASSUME NEW i \in 0..(m + 1) PROVE h[i] = AcquiredAt(h, ps, wants, i)
    <3>1. i = 0 \/ (i - 1 \in 0..m /\ i - 1 \in 0..(m + 1))
      BY <2>1
    <3>2. i = 0 \/ h[i - 1] = f[i - 1]
      BY <2>2, <2>3, <3>1
    <3> QED BY <1>1, <2>3, <3>2
  <2> QED BY <2>1, <2>4
<1>4. T = Nat
  <2> HIDE DEF T
  <2>1. T \in SUBSET Nat
    BY DEF T
  <2> QED BY <1>2, <1>3, <2>1, NaturalInduction
<1>5. PICK f : \A i \in 0..n : f[i] = AcquiredAt(f, ps, wants, i)
  BY <1>4, ZenonT(40)
<1> DEFINE h == [i \in 0..n |-> f[i]]
<1>6. \A i \in 0..n : h[i] = f[i]
  OBVIOUS
<1>7. \A i \in 0..n : f[i] = AcquiredAt(h, ps, wants, i)
  <2> SUFFICES ASSUME NEW i \in 0..n PROVE f[i] = AcquiredAt(h, ps, wants, i)
    OBVIOUS
  <2> HIDE DEF h
  <2>1. i = 0 \/ i - 1 \in 0..n
    OBVIOUS
  <2> QED BY <1>1, <1>5, <1>6, <2>1
<1>8. h = [i \in 0..n |-> AcquiredAt(h, ps, wants, i)]
  <2>1. h = [i \in 0..n |-> f[i]]
    OBVIOUS
  <2> HIDE DEF h
  <2> QED BY <1>7, <2>1
<1> HIDE DEF h
<1> QED BY <1>8 DEF Acquires

(* Acquisition starts from the pools as they are and goes on page by page. *)
LEMMA AcquisitionSteps ==
  ASSUME NEW wants, Len(wants) \in Nat, NEW f0, f0 = Acquisition(wants)
  PROVE  /\ f0[0] = [pools |-> pools, pages |-> << >>, ok |-> TRUE]
         /\ \A i \in 1..Len(wants) : f0[i] = AcquirePage(f0[i - 1], wants[i])
<1>1. PICK f, n : f = f0 /\ f = Acquisition(wants) /\ n = Len(wants)
  OBVIOUS
<1>2. f = CHOOSE g : Acquires(g, pools, wants, n)
  BY <1>1 DEF Acquisition, AcquiredAt, Acquires
<1>3. f = [i \in 0..n |-> AcquiredAt(f, pools, wants, i)]
  <2>1. n \in Nat
    BY <1>1
  <2>2. \E g : Acquires(g, pools, wants, n)
    BY <2>1, AcquisitionExists
  <2>3. Acquires(f, pools, wants, n)
    BY <1>2, <2>2, Zenon
  <2> QED BY <2>3 DEF Acquires
<1>4. \A i \in 0..n : f[i] = AcquiredAt(f, pools, wants, i)
  <2>1. PICK g : g = [i \in 0..n |-> AcquiredAt(f, pools, wants, i)]
    OBVIOUS
  <2>2. \A i \in 0..n : g[i] = AcquiredAt(f, pools, wants, i)
    BY <2>1
  <2>3. f = g
    BY <1>3, <2>1
  <2> QED BY <2>2, <2>3
<1>5. n \in Nat
  BY <1>1
<1>6. \A i \in 1..n : i \in 0..n /\ i # 0
  BY <1>5
<1>7. f[0] = AcquiredAt(f, pools, wants, 0) /\ \A i \in 1..n : f[i] = AcquiredAt(f, pools, wants, i)
  BY <1>4, <1>5, <1>6
<1>8. /\ AcquiredAt(f, pools, wants, 0) = [pools |-> pools, pages |-> << >>, ok |-> TRUE]
      /\ \A i : i # 0 => AcquiredAt(f, pools, wants, i) = AcquirePage(f[i - 1], wants[i])
  BY DEF AcquiredAt
<1> QED BY <1>1, <1>6, <1>7, <1>8

-----------------------------------------------------------------------------
(* The pages of a route *)

Want == [pool : PoolName, key : Key]
WantList(w) ==
  /\ w \in Seq(Want)
  /\ \A i, j \in 1..Len(w) : w[i] = w[j] => i = j

(* A route asks for each of its pages once. *)
LEMMA RouteWants ==
  ASSUME NEW r \in Routes, NEW whole \in BOOLEAN
  PROVE  WantList(Wants(r, whole))
<1>1. PICK e, m, F, x : /\ e = r.experts /\ m = Len(e)
                        /\ F = [i \in 1..m |-> [pool |-> "routed", key |-> e[i]]]
                        /\ x = [pool |-> "shared", key |-> r.shared]
  OBVIOUS
<1>2. /\ e \in Seq(Key) /\ m \in Nat /\ DOMAIN e = 1..m /\ r.shared \in Key
      /\ \A i \in 1..m : e[i] \in Key
      /\ \A i, j \in 1..m : e[i] = e[j] => i = j
  BY <1>1, MoeAssumption, LenProperties, ElementOfSeq DEF IsInjective
<1>3. /\ F \in Seq(Want) /\ Len(F) = m
      /\ \A i \in 1..m : F[i].pool = "routed" /\ F[i].key = e[i]
  <2>1. \A i \in 1..m : [pool |-> "routed", key |-> e[i]] \in Want
    BY <1>2 DEF Want, PoolName
  <2>2. F \in Seq(Want)
    BY <1>1, <1>2, <2>1
  <2>3. Len(F) = m
    BY <1>1, <1>2, <2>2, LenProperties
  <2> QED BY <1>1, <2>2, <2>3
<1>4. x \in Want /\ x.pool = "shared"
  BY <1>1, <1>2 DEF Want, PoolName
<1>5. PICK G : G = IF whole THEN <<x>> ELSE << >>
  OBVIOUS
<1>6. G \in Seq(Want) /\ Len(G) \in {0, 1} /\ \A i \in 1..Len(G) : G[i] = x
  BY <1>4, <1>5
<1>7. PICK w : w = F \o G
  OBVIOUS
<1>8. /\ w \in Seq(Want) /\ Len(w) = m + Len(G)
      /\ \A i \in 1..(m + Len(G)) : w[i] = IF i <= m THEN F[i] ELSE G[i - m]
  BY <1>3, <1>6, <1>7, ConcatProperties
<1>9. ASSUME NEW i \in 1..Len(w), NEW j \in 1..Len(w), w[i] = w[j] PROVE i = j
  <2>1. /\ i <= m => i \in 1..m /\ w[i].pool = "routed" /\ w[i].key = e[i]
        /\ j <= m => j \in 1..m /\ w[j].pool = "routed" /\ w[j].key = e[j]
    BY <1>2, <1>3, <1>6, <1>8
  <2>2. /\ i > m => i = m + 1 /\ w[i].pool = "shared"
        /\ j > m => j = m + 1 /\ w[j].pool = "shared"
    <3>1. \A l \in 1..(m + Len(G)) : l > m => l = m + 1 /\ l - m \in 1..Len(G)
      BY <1>2, <1>6
    <3> QED BY <1>2, <1>4, <1>6, <1>8, <3>1
  <2> QED BY <1>2, <1>6, <1>8, <1>9, <2>1, <2>2
<1>10. Wants(r, whole) = w
  BY <1>1, <1>5, <1>7 DEF Wants
<1> QED BY <1>8, <1>9, <1>10 DEF WantList

(* After i pages: the ticket has pages among the first i, each of them once. *)
Progress(a, ps, tk, t, mem, own, wd, w, i) ==
  /\ Acquiring(a, tk, t, mem, own, wd) /\ PoolsNoneReady(ps, a.pools)
  /\ \A h \in Range(a.pages) : \E j \in 1..i : OfPage(h, w[j].pool, w[j].key)

(* Steps that make no page Ready make none Ready together. *)
LEMMA NoneReadyTrans ==
  ASSUME NEW ps, NEW qs, NEW rs, PoolsNoneReady(ps, qs), PoolsNoneReady(qs, rs)
  PROVE  PoolsNoneReady(ps, rs)
BY DEF PoolsNoneReady, NoneReady

(* One more page of begin_after_official_route, whether it is acquired or the
   call has already failed. *)
LEMMA ProgressStep ==
  ASSUME NEW tk, TicketsTyped(tk), NEW t \in Tickets, NEW ps, NEW mem, NEW own, NEW wd,
         NEW w, WantList(w), NEW i \in Nat, i + 1 \in 1..Len(w), NEW a,
         Progress(a, ps, tk, t, mem, own, wd, w, i), NEW b0, b0 = AcquirePage(a, w[i + 1])
  PROVE  Progress(b0, ps, tk, t, mem, own, wd, w, i + 1)
<1>1. PICK b, want, n, k, l : /\ b = b0 /\ want = w[i + 1] /\ b = AcquirePage(a, want)
                              /\ n = want.pool /\ k = want.key /\ l = i + 1
  OBVIOUS
<1>2. /\ Acquiring(a, tk, t, mem, own, wd) /\ PoolsNoneReady(ps, a.pools)
      /\ \A h \in Range(a.pages) : \E j \in 1..i : OfPage(h, w[j].pool, w[j].key)
  BY DEF Progress
<1>3. w \in Seq(Want) /\ l \in 1..Len(w) /\ l \in Nat /\ Len(w) \in Nat
  BY <1>1, LenProperties DEF WantList
<1>4. /\ \A j \in 1..Len(w) : w[j] \in Want
      /\ \A j \in 1..i : j \in 1..Len(w) /\ j # l
  <2>1. \A j \in 1..Len(w) : w[j] \in Want
    BY <1>3, ElementOfSeq
  <2>2. l = i + 1
    BY <1>1
  <2>3. \A j \in 1..i : j \in 1..Len(w) /\ j # l
    BY <1>3, <2>2
  <2> QED BY <2>1, <2>3
<1>5. n \in PoolName /\ k \in Key /\ want = [pool |-> n, key |-> k]
  BY <1>1, <1>3, <1>4 DEF Want
<1>6. NotYet(a.pages, n, k)
  <2> SUFFICES ASSUME NEW h \in Range(a.pages), OfPage(h, n, k) PROVE FALSE
    BY DEF NotYet
  <2>1. PICK j \in 1..i : OfPage(h, w[j].pool, w[j].key)
    BY <1>2
  <2>2. w[j].pool = w[l].pool /\ w[j].key = w[l].key /\ w[j] \in Want /\ w[l] \in Want
    BY <1>1, <1>3, <1>4, <2>1 DEF OfPage
  <2>3. w[j] = w[l]
    BY <2>2 DEF Want
  <2> QED BY <1>3, <1>4, <2>3 DEF WantList
<1>7. /\ Acquiring(b, tk, t, mem, own, wd) /\ PoolsNoneReady(a.pools, b.pools)
      /\ \A h \in Range(b.pages) : h \in Range(a.pages) \/ OfPage(h, n, k)
  <2>1. /\ Acquiring(a, tk, t, mem, own, wd) /\ NotYet(a.pages, n, k) /\ TicketsTyped(tk)
        /\ want = [pool |-> n, key |-> k] /\ b = AcquirePage(a, want)
        /\ n \in PoolName /\ k \in Key
    BY <1>1, <1>2, <1>5, <1>6
  <2> QED BY <2>1, PageAcquired
<1>8. \A h \in Range(b.pages) : \E j \in 1..l : OfPage(h, w[j].pool, w[j].key)
  <2> SUFFICES ASSUME NEW h \in Range(b.pages)
               PROVE  \E j \in 1..l : OfPage(h, w[j].pool, w[j].key)
    OBVIOUS
  <2>0. l \in 1..l /\ \A j \in 1..i : j \in 1..l
    BY <1>1, <1>3
  <2>1. CASE h \in Range(a.pages)
    BY <1>2, <2>0, <2>1
  <2>2. CASE OfPage(h, n, k)
    BY <1>1, <2>0, <2>2
  <2> QED BY <1>7, <2>1, <2>2
<1>9. PoolsNoneReady(ps, b.pools)
  BY <1>2, <1>7, NoneReadyTrans
<1>10. Progress(b, ps, tk, t, mem, own, wd, w, l)
  BY <1>7, <1>8, <1>9 DEF Progress
<1> QED BY <1>1, <1>10

(* The whole acquisition, from a consistent state. *)
LEMMA Begun ==
  ASSUME IInv, NEW t \in Tickets, tickets[t] = NoTicket, NEW r \in Routes, NEW whole \in BOOLEAN,
         NEW a0, a0 = Acquired(r, whole)
  PROVE  /\ Acquiring(a0, tickets, t, memory, ownLoad, withdrawn)
         /\ PoolsNoneReady(pools, a0.pools)
<1>1. PICK a, w, f, n : /\ a = a0 /\ w = Wants(r, whole) /\ f = Acquisition(w) /\ n = Len(w)
                        /\ a = f[n]
  BY DEF Acquired
<1>2. WantList(w) /\ n \in Nat /\ Len(w) \in Nat
  <2>1. WantList(w)
    BY <1>1, RouteWants
  <2> QED BY <1>1, <2>1, LenProperties DEF WantList
<1>3. /\ f[0] = [pools |-> pools, pages |-> << >>, ok |-> TRUE]
      /\ \A i \in 1..n : f[i] = AcquirePage(f[i - 1], w[i])
  BY <1>1, <1>2, AcquisitionSteps
<1>4. /\ TicketsTyped(tickets) /\ ownLoad \in Load \cup {NoLoad}
      /\ Ledger(pools, memory, LeasesIn(tickets), ReservationsIn(tickets, ownLoad), withdrawn,
                UploadedIn(tickets))
  BY DEF IInv, Consistent
<1> DEFINE At2(i) == Progress(f[i], pools, tickets, t, memory, ownLoad, withdrawn, w, i)
           T == {i \in Nat : i <= n => At2(i)}
<1>5. At2(0)
  <2>1. PICK b, e, tk1 : /\ b = f[0] /\ e = << >> /\ b = [pools |-> pools, pages |-> e, ok |-> TRUE]
                         /\ tk1 = Opened(tickets, t, e)
    BY <1>3
  <2>2. b.pools = pools /\ b.pages = e /\ b.ok = TRUE /\ b = [pools |-> b.pools, pages |-> b.pages, ok |-> b.ok]
    BY <2>1
  <2>3. e \in Seq(PageType) /\ Range(e) = {}
    BY <2>1 DEF Range
  <2>4. /\ TicketsTyped(tk1) /\ LeasesIn(tk1) = LeasesIn(tickets)
        /\ ReservationsIn(tk1, ownLoad) = ReservationsIn(tickets, ownLoad)
        /\ UploadedIn(tk1) = UploadedIn(tickets)
    BY <1>4, <2>1, TicketOpened
  <2>5. Consistent(pools, memory, tk1, ownLoad, withdrawn)
    BY <1>4, <2>4 DEF Consistent
  <2>6. Acquiring(b, tickets, t, memory, ownLoad, withdrawn)
    BY <2>1, <2>2, <2>3, <2>5 DEF Acquiring
  <2>7. PoolsNoneReady(pools, b.pools)
    BY <2>2 DEF PoolsNoneReady, NoneReady
  <2>8. Progress(b, pools, tickets, t, memory, ownLoad, withdrawn, w, 0)
    BY <2>2, <2>3, <2>6, <2>7 DEF Progress
  <2> QED BY <2>1, <2>8
<1>6. ASSUME NEW i \in T PROVE i + 1 \in T
  <2>1. i \in Nat /\ i + 1 \in Nat /\ i + 1 - 1 = i /\ (i + 1 <= n => i <= n /\ i + 1 \in 1..n)
    BY <1>2
  <2>2. ASSUME i + 1 <= n PROVE At2(i + 1)
    <3>1. PICK b, l : l = i + 1 /\ b = f[l] /\ b = AcquirePage(f[i], w[i + 1])
      BY <1>3, <2>1, <2>2
    <3>2. Progress(f[i], pools, tickets, t, memory, ownLoad, withdrawn, w, i)
      BY <2>1, <2>2
    <3>3. Progress(b, pools, tickets, t, memory, ownLoad, withdrawn, w, i + 1)
      <4>1. /\ TicketsTyped(tickets) /\ WantList(w) /\ i \in Nat /\ i + 1 \in 1..Len(w)
            /\ b = AcquirePage(f[i], w[i + 1])
        BY <1>1, <1>2, <1>4, <2>1, <2>2, <3>1
      <4> HIDE DEF At2
      <4> QED BY <3>2, <4>1, ProgressStep
    <3> QED BY <3>1, <3>3
  <2> HIDE DEF At2
  <2> QED BY <2>1, <2>2
<1>7. At2(n)
  <2>1. 0 \in T
    BY <1>5
  <2> HIDE DEF At2
  <2>2. T \in SUBSET Nat
    OBVIOUS
  <2> HIDE DEF T
  <2>3. T = Nat
    BY <1>6, <2>1, <2>2, NaturalInduction
  <2>4. n \in T
    BY <1>2, <2>3
  <2> QED BY <1>2, <2>4 DEF T
<1> QED BY <1>1, <1>7 DEF Progress
-----------------------------------------------------------------------------
(* The actions *)

(* begin_after_official_route that succeeds keeps the invariant and makes no
   page Ready. *)
LEMMA BeginKeeps ==
  ASSUME IInv, NEW t \in Tickets, NEW r \in Routes, NEW whole \in BOOLEAN, BeginBatch(t, r, whole)
  PROVE  IInv' /\ PoolsNoneReady(pools, pools')
<1>1. PICK a : a = Acquired(r, whole)
  OBVIOUS
<1>2. /\ tickets[t] = NoTicket /\ pools' = a.pools
      /\ tickets' = [tickets EXCEPT ![t] = [status |-> "loading", uploaded |-> FALSE,
                                            pages |-> a.pages]]
      /\ memory' = memory /\ ownLoad' = ownLoad /\ withdrawn' = withdrawn
  BY <1>1 DEF BeginBatch
<1>3. /\ Acquiring(a, tickets, t, memory, ownLoad, withdrawn)
      /\ PoolsNoneReady(pools, a.pools)
  BY <1>1, <1>2, Begun
<1>4. tickets' = Opened(tickets, t, a.pages)
  BY <1>2 DEF Opened
<1> QED BY <1>2, <1>3, <1>4 DEF IInv, Acquiring

(* begin_after_official_route that fails gives back all it took: it keeps the
   invariant and makes no page Ready. *)
LEMMA BeginFailsKeeps ==
  ASSUME IInv, NEW t \in Tickets, NEW r \in Routes, NEW whole \in BOOLEAN, BeginFails(t, r, whole)
  PROVE  IInv' /\ PoolsNoneReady(pools, pools')
<1>1. PICK a, tk1, L, R, U, L2, R2, pages, qs :
        /\ a = Acquired(r, whole) /\ tk1 = Opened(tickets, t, a.pages)
        /\ L = LeasesIn(tk1) /\ R = ReservationsIn(tk1, ownLoad) /\ U = UploadedIn(tk1)
        /\ L2 = {c \in L : c.who # t} /\ R2 = {c \in R : c.who # t}
        /\ pages = Range(a.pages) /\ qs = a.pools
  OBVIOUS
<1>2. /\ tickets[t] = NoTicket /\ pools' = RolledBack(qs, pages) /\ tickets' = tickets
      /\ memory' = memory /\ ownLoad' = ownLoad /\ withdrawn' = withdrawn
  BY <1>1 DEF BeginFails
<1>3. /\ Acquiring(a, tickets, t, memory, ownLoad, withdrawn)
      /\ PoolsNoneReady(pools, qs)
  BY <1>1, <1>2, Begun
<1>4. TicketsTyped(tickets) /\ ownLoad \in Load \cup {NoLoad}
  BY DEF IInv, Consistent
<1>5. a.pages \in Seq(PageType) /\ Consistent(qs, memory, tk1, ownLoad, withdrawn)
  BY <1>1, <1>3 DEF Acquiring
<1>6. Ledger(qs, memory, L, R, withdrawn, U) /\ Covers(L, R, t, pages) /\ t \notin U
  BY <1>1, <1>4, <1>5, OpeningFacts
<1>7. OthersWait(tickets, tk1, t)
  BY <1>1, <1>4, <1>5, OpenedFields
<1>8. \A c \in Claim : ~Held(tickets[t], c) /\ ~Awaited(tickets[t], c)
  BY <1>2 DEF Held, Awaited, NoTicket, Range
<1>9. L2 = LeasesIn(tickets)
  <2>1. \A c \in Claim : c.who # t => (c \in L <=> c \in LeasesIn(tickets))
    BY <1>1, <1>7, OtherClaims
  <2>2. \A c \in LeasesIn(tickets) : c \in Claim /\ c.who # t
    BY <1>8, ClaimsAreClaims, ClaimsOfTicket
  <2>3. \A c \in L : c \in Claim
    BY <1>1, ClaimsAreClaims
  <2> QED BY <1>1, <2>1, <2>2, <2>3
<1>10. R2 = ReservationsIn(tickets, ownLoad)
  <2>1. \A c \in Claim : c.who # t => (c \in R <=> c \in ReservationsIn(tickets, ownLoad))
    BY <1>1, <1>7, OtherClaims
  <2>2. \A c \in ReservationsIn(tickets, ownLoad) : c \in Claim /\ c.who # t
    BY <1>8, ClaimsAreClaims, ClaimsOfTicket
  <2>3. \A c \in R : c \in Claim
    BY <1>1, ClaimsAreClaims
  <2> QED BY <1>1, <2>1, <2>2, <2>3
<1>11. UploadedIn(tickets) \subseteq U
  <2>1. \A u \in Tickets : u # t => (u \in U <=> u \in UploadedIn(tickets))
    BY <1>1, <1>7, OtherClaims
  <2>2. t \notin UploadedIn(tickets)
    BY <1>2 DEF UploadedIn, NoTicket
  <2> QED BY <2>1, <2>2 DEF UploadedIn
<1>12. /\ Ledger(RolledBack(qs, pages), memory, L2, R2, withdrawn, UploadedIn(tickets))
       /\ \A n \in PoolName : \A s \in 1..Slots(n) :
            RolledBack(qs, pages)[n].state[s] \in {Empty, qs[n].state[s]}
  <2>1. /\ Ledger(qs, memory, L, R, withdrawn, U) /\ Covers(L, R, t, pages)
        /\ L2 = ClaimsNotBy(L, t) /\ R2 = ClaimsNotBy(R, t)
        /\ withdrawn \subseteq withdrawn /\ UploadedIn(tickets) \subseteq U
        /\ StayLive(R2, withdrawn, withdrawn)
    BY <1>1, <1>6, <1>11 DEF ClaimsNotBy, StayLive
  <2> QED BY <2>1, TicketRolledBack
<1>13. Consistent(pools', memory, tickets, ownLoad, withdrawn)
  BY <1>2, <1>4, <1>9, <1>10, <1>12 DEF Consistent
<1>14. PoolsNoneReady(pools, pools')
  <2>1. \A n \in PoolName : \A s \in 1..Slots(n) : pools'[n].state[s] \in {Empty, qs[n].state[s]}
    BY <1>2, <1>12
  <2> QED BY <1>3, <2>1, StatesDiffer DEF PoolsNoneReady, NoneReady
<1> QED BY <1>2, <1>13, <1>14 DEF IInv

(* The pools after each page of a publication *)
PublishedAt(f, ps, pages, i) ==
  IF i = 0 THEN ps
  ELSE LET g == pages[i] IN
       IF g.hit THEN f[i - 1] ELSE [f[i - 1] EXCEPT ![g.pool] = Publish(@, g.stamp)]
Publishes(f, ps, pages, n) == f = [i \in 0..n |-> PublishedAt(f, ps, pages, i)]

(* The recursive function behind Publication exists, for lists of any
   length. *)
LEMMA PublicationExists ==
  ASSUME NEW ps, NEW pages, NEW n \in Nat
  PROVE  \E f : Publishes(f, ps, pages, n)
<1> DEFINE T == {m \in Nat : \E f : \A i \in 0..m : f[i] = PublishedAt(f, ps, pages, i)}
<1>1. \A f, g, i : i = 0 \/ f[i - 1] = g[i - 1] =>
        PublishedAt(f, ps, pages, i) = PublishedAt(g, ps, pages, i)
  BY DEF PublishedAt
<1>2. 0 \in T
  <2> DEFINE g == [i \in 0..0 |-> PublishedAt(<< >>, ps, pages, i)]
  <2>1. \A i \in 0..0 : i = 0 /\ g[i] = PublishedAt(<< >>, ps, pages, i)
    OBVIOUS
  <2> HIDE DEF g
  <2>2. \A i \in 0..0 : g[i] = PublishedAt(g, ps, pages, i)
    BY <1>1, <2>1
  <2> QED BY <2>2
<1>3. ASSUME NEW m \in T PROVE m + 1 \in T
  <2>1. m \in Nat /\ m + 1 \in Nat
    OBVIOUS
  <2>2. PICK f : \A i \in 0..m : f[i] = PublishedAt(f, ps, pages, i)
    OBVIOUS
  <2> DEFINE h == [i \in 0..(m + 1) |-> PublishedAt(f, ps, pages, i)]
  <2>3. \A i \in 0..(m + 1) : h[i] = PublishedAt(f, ps, pages, i)
    OBVIOUS
  <2> HIDE DEF h
  <2>4. ASSUME NEW i \in 0..(m + 1) PROVE h[i] = PublishedAt(h, ps, pages, i)
    <3>1. i = 0 \/ (i - 1 \in 0..m /\ i - 1 \in 0..(m + 1))
      BY <2>1
    <3>2. i = 0 \/ h[i - 1] = f[i - 1]
      BY <2>2, <2>3, <3>1
    <3> QED BY <1>1, <2>3, <3>2
  <2> QED BY <2>1, <2>4
<1>4. T = Nat
  <2> HIDE DEF T
  <2>1. T \in SUBSET Nat
    BY DEF T
  <2> QED BY <1>2, <1>3, <2>1, NaturalInduction
<1>5. PICK f : \A i \in 0..n : f[i] = PublishedAt(f, ps, pages, i)
  BY <1>4, ZenonT(40)
<1> DEFINE h == [i \in 0..n |-> f[i]]
<1>6. \A i \in 0..n : h[i] = f[i]
  OBVIOUS
<1>7. \A i \in 0..n : f[i] = PublishedAt(h, ps, pages, i)
  <2> SUFFICES ASSUME NEW i \in 0..n PROVE f[i] = PublishedAt(h, ps, pages, i)
    OBVIOUS
  <2> HIDE DEF h
  <2>1. i = 0 \/ i - 1 \in 0..n
    OBVIOUS
  <2> QED BY <1>1, <1>5, <1>6, <2>1
<1>8. h = [i \in 0..n |-> PublishedAt(h, ps, pages, i)]
  <2>1. h = [i \in 0..n |-> f[i]]
    OBVIOUS
  <2> HIDE DEF h
  <2> QED BY <1>7, <2>1
<1> HIDE DEF h
<1> QED BY <1>8 DEF Publishes

PublishingAll(f, pages, n) ==
  /\ f[0] = pools
  /\ \A i \in 1..n : f[i] = IF pages[i].hit THEN f[i - 1]
                            ELSE [f[i - 1] EXCEPT ![pages[i].pool] = Publish(@, pages[i].stamp)]

(* Publication starts from the pools as they are and goes on page by page. *)
LEMMA PublicationSteps ==
  ASSUME NEW pages, Len(pages) \in Nat, NEW f0, f0 = Publication(pages)
  PROVE  PublishingAll(f0, pages, Len(pages))
<1>1. PICK f, n : f = f0 /\ f = Publication(pages) /\ n = Len(pages)
  OBVIOUS
<1>2. f = CHOOSE g : Publishes(g, pools, pages, n)
  BY <1>1 DEF Publication, PublishedAt, Publishes
<1>3. f = [i \in 0..n |-> PublishedAt(f, pools, pages, i)]
  <2>1. n \in Nat
    BY <1>1
  <2>2. \E g : Publishes(g, pools, pages, n)
    BY <2>1, PublicationExists
  <2>3. Publishes(f, pools, pages, n)
    BY <1>2, <2>2, Zenon
  <2> QED BY <2>3 DEF Publishes
<1>4. \A i \in 0..n : f[i] = PublishedAt(f, pools, pages, i)
  <2>1. PICK g : g = [i \in 0..n |-> PublishedAt(f, pools, pages, i)]
    OBVIOUS
  <2>2. \A i \in 0..n : g[i] = PublishedAt(f, pools, pages, i)
    BY <2>1
  <2>3. f = g
    BY <1>3, <2>1
  <2> QED BY <2>2, <2>3
<1>5. n \in Nat
  BY <1>1
<1>6. \A i \in 1..n : i \in 0..n /\ i # 0
  BY <1>5
<1>7. f[0] = PublishedAt(f, pools, pages, 0) /\ \A i \in 1..n : f[i] = PublishedAt(f, pools, pages, i)
  BY <1>4, <1>5, <1>6
<1>8. /\ PublishedAt(f, pools, pages, 0) = pools
      /\ \A i : i # 0 => PublishedAt(f, pools, pages, i) =
           IF pages[i].hit THEN f[i - 1]
           ELSE [f[i - 1] EXCEPT ![pages[i].pool] = Publish(@, pages[i].stamp)]
  BY DEF PublishedAt
<1>9. PublishingAll(f, pages, n)
  BY <1>6, <1>7, <1>8 DEF PublishingAll
<1> QED BY <1>1, <1>9

(* One page is published: its reservation becomes a lease. *)
LEMMA ClaimPublished ==
  ASSUME NEW ps, NEW mem, NEW L, NEW R, NEW W, NEW U, Ledger(ps, mem, L, R, W, U),
         NEW c \in R, c.who \in Tickets, c.who \in U, Live(c, W),
         NEW ps3, ps3 = [ps EXCEPT ![c.pool] = Publish(@, c.stamp)]
  PROVE  Ledger(ps3, mem, L \cup {c}, R \ {c}, W, U)
<1>1. PICK n, r, q, s, ps2, mem2 :
        /\ n = c.pool /\ r = c.stamp /\ q = Publish(ps[n], r) /\ s = r.slot
        /\ ps2 = ps3 /\ ps2 = [ps EXCEPT ![n] = q] /\ mem2 = mem
  OBVIOUS
<1>2. /\ PoolsSound(ps, mem) /\ ReservationsHold(ps, R, W) /\ BytesInPlace(ps, mem, R, U)
  BY DEF Ledger
<1>3. /\ n \in PoolName /\ r \in PageStamp /\ r.key \in Key /\ s \in 1..Slots(n) /\ Holds(ps[n], r)
  BY <1>1, <1>2 DEF ReservationsHold, Claim, PageStamp
<1>4. Slots(n) \in Nat /\ Sound(ps[n], Slots(n)) /\ ps[n].state[s] = Loading(r.key)
  BY <1>1, <1>2, <1>3, PoolFields, HoldsSlot DEF PoolsSound
<1>5. /\ Sound(q, Slots(n)) /\ OthersKept(ps[n], q, Slots(n), s)
      /\ q.state[s] = Ready(r.key) /\ q.pins[s] = 1 /\ q.generation[s] = ps[n].generation[s]
  <2>1. /\ Slots(n) \in Nat /\ Sound(ps[n], Slots(n)) /\ r.slot \in 1..Slots(n) /\ r.key \in Key
        /\ ps[n].state[r.slot] = Loading(r.key) /\ q = Publish(ps[n], r)
    BY <1>1, <1>3, <1>4
  <2>2. /\ Sound(q, Slots(n)) /\ OthersKept(ps[n], q, Slots(n), r.slot)
        /\ q.state[r.slot] = Ready(r.key) /\ q.pins[r.slot] = 1
        /\ q.generation[r.slot] = ps[n].generation[r.slot]
    BY <2>1, PublishedSlot
  <2> QED BY <1>1, <2>2
<1>6. mem[n][s] = r.key
  BY <1>1, <1>2, <1>3 DEF BytesInPlace
<1>7. ByPool(mem2) /\ \A m \in PoolName : DOMAIN mem2[m] = 1..Slots(m)
  BY <1>1, <1>2 DEF PoolsSound
<1>8. PICK L2 : L2 = L \cup {c}
  OBVIOUS
<1>9. Ledger([ps EXCEPT ![n] = q], mem2, L2, R \ {c}, W, U)
  <2>1. /\ n = c.pool /\ s = c.stamp.slot /\ Holds(ps[n], c.stamp) /\ Sound(q, Slots(n))
        /\ OthersKept(ps[n], q, Slots(n), s) /\ q.state[s] = Ready(c.stamp.key)
        /\ q.generation[s] = ps[n].generation[s] /\ mem2[n][s] = c.stamp.key
    BY <1>1, <1>3, <1>5, <1>6
  <2>2. Stored(mem, mem2, n, s)
    BY <1>1, <1>7 DEF Stored
  <2>3. LeasedAs(L, L2, c, q.pins[s])
    BY <1>5, <1>8 DEF LeasedAs
  <2> QED BY <1>7, <2>1, <2>2, <2>3, SlotVisible
<1> QED BY <1>1, <1>8, <1>9

(* The claims of the pages of ticket t, and those published with the first i. *)
ClaimAt(pages, t, j) == ClaimOf(t, pages[j].pool, pages[j].stamp)
PublishedClaims(pages, t, i) == {ClaimAt(pages, t, j) : j \in {x \in 1..i : ~pages[x].hit}}
Publishable(pages, t, n, R, W) ==
  /\ \A j \in 1..n : ~pages[j].hit => ClaimAt(pages, t, j) \in R /\ Live(ClaimAt(pages, t, j), W)
  /\ \A j, k \in 1..n : SamePage(pages[j], pages[k]) => j = k
PublishedLedger(ps, mem, L, R, W, U, pages, t, i) ==
  Ledger(ps, mem, L \cup PublishedClaims(pages, t, i), R \ PublishedClaims(pages, t, i), W, U)

(* Publishing one more page of a ticket turns its reservation into a lease, and
   the ledger says so. *)
LEMMA PublicationStep ==
  ASSUME NEW mem, NEW L, NEW R, NEW W, NEW U, NEW t \in Tickets, t \in U,
         NEW pages, NEW n \in Nat, Publishable(pages, t, n, R, W), NEW i \in Nat, i + 1 \in 1..n,
         NEW ps, PublishedLedger(ps, mem, L, R, W, U, pages, t, i),
         NEW ps3, ps3 = IF pages[i + 1].hit THEN ps
                        ELSE [ps EXCEPT ![pages[i + 1].pool] = Publish(@, pages[i + 1].stamp)]
  PROVE  PublishedLedger(ps3, mem, L, R, W, U, pages, t, i + 1)
<1>1. PICK l, g, c, P, Q, ps2 :
        /\ l = i + 1 /\ g = pages[l] /\ c = ClaimAt(pages, t, l)
        /\ P = PublishedClaims(pages, t, i) /\ Q = PublishedClaims(pages, t, l) /\ ps2 = ps3
  OBVIOUS
<1>2. /\ l \in 1..n /\ \A j \in 1..l : j \in 1..i \/ j = l
      /\ \A j \in 1..i : j \in 1..n /\ j # l /\ j \in 1..l
  BY <1>1
<1>3. Ledger(ps, mem, L \cup P, R \ P, W, U)
  BY <1>1 DEF PublishedLedger
<1>4. CASE g.hit
  <2>1. Q = P
    BY <1>1, <1>2, <1>4 DEF PublishedClaims
  <2>2. ps2 = ps
    BY <1>1, <1>4
  <2> QED BY <1>1, <1>3, <2>1, <2>2 DEF PublishedLedger
<1>5. CASE ~g.hit
  <2>1. c \in R /\ Live(c, W)
    BY <1>1, <1>2, <1>5 DEF Publishable
  <2>2. c.who = t /\ c.pool = g.pool /\ c.stamp = g.stamp
    BY <1>1, ClaimFields DEF ClaimAt
  <2>3. c \notin P
    <3> SUFFICES ASSUME c \in P PROVE FALSE
      OBVIOUS
    <3>1. PICK j \in 1..i : c = ClaimAt(pages, t, j)
      BY <1>1 DEF PublishedClaims
    <3>2. pages[j].pool = g.pool /\ pages[j].stamp = g.stamp
      BY <2>2, <3>1, ClaimFields DEF ClaimAt
    <3>3. SamePage(pages[j], pages[l])
      BY <1>1, <3>2 DEF SamePage
    <3> QED BY <1>2, <3>3 DEF Publishable
  <2>4. Q = P \cup {c}
    <3>1. \A x : x \in Q <=> \E j \in 1..l : ~pages[j].hit /\ x = ClaimAt(pages, t, j)
      BY <1>1 DEF PublishedClaims
    <3>2. \A x : x \in P <=> \E j \in 1..i : ~pages[j].hit /\ x = ClaimAt(pages, t, j)
      BY <1>1 DEF PublishedClaims
    <3>3. l \in 1..l /\ ~pages[l].hit /\ c = ClaimAt(pages, t, l)
      BY <1>1, <1>2, <1>5
    <3>4. \A x : x \in Q <=> x \in P \/ x = c
      BY <1>2, <3>1, <3>2, <3>3
    <3> QED BY <3>4
  <2>5. ps2 = [ps EXCEPT ![c.pool] = Publish(@, c.stamp)]
    BY <1>1, <1>5, <2>2
  <2>6. PICK L1, R1 : L1 = L \cup P /\ R1 = R \ P
    OBVIOUS
  <2>7. Ledger(ps2, mem, L1 \cup {c}, R1 \ {c}, W, U)
    <3>1. Ledger(ps, mem, L1, R1, W, U) /\ c \in R1 /\ c.who \in Tickets /\ c.who \in U /\ Live(c, W)
      BY <1>3, <2>1, <2>2, <2>3, <2>6
    <3> QED BY <2>5, <3>1, ClaimPublished
  <2>8. L1 \cup {c} = L \cup Q /\ R1 \ {c} = R \ Q
    BY <2>4, <2>6
  <2> QED BY <1>1, <2>7, <2>8 DEF PublishedLedger
<1> QED BY <1>4, <1>5

(* After the last page all reservations of the ticket have become leases. *)
LEMMA PublicationLedger ==
  ASSUME NEW mem, NEW L, NEW R, NEW W, NEW U, Ledger(pools, mem, L, R, W, U),
         NEW t \in Tickets, t \in U, NEW pages, Len(pages) \in Nat,
         Publishable(pages, t, Len(pages), R, W), NEW ps0, ps0 = Publication(pages)[Len(pages)]
  PROVE  PublishedLedger(ps0, mem, L, R, W, U, pages, t, Len(pages))
<1>1. PICK f, n : f = Publication(pages) /\ n = Len(pages) /\ ps0 = f[n]
  OBVIOUS
<1>2. /\ n \in Nat /\ f[0] = pools /\ Publishable(pages, t, n, R, W)
      /\ \A i \in 1..n : f[i] = IF pages[i].hit THEN f[i - 1]
                                ELSE [f[i - 1] EXCEPT ![pages[i].pool] = Publish(@, pages[i].stamp)]
  <2>1. PublishingAll(f, pages, n) /\ n \in Nat
    BY <1>1, PublicationSteps
  <2> QED BY <1>1, <2>1 DEF PublishingAll
<1> DEFINE Led(i) == PublishedLedger(f[i], mem, L, R, W, U, pages, t, i)
           T == {i \in Nat : i <= n => Led(i)}
<1>3. Led(0)
  <2>1. PublishedClaims(pages, t, 0) = {}
    BY DEF PublishedClaims
  <2>2. L \cup {} = L /\ R \ {} = R
    OBVIOUS
  <2> QED BY <1>2, <2>1, <2>2 DEF PublishedLedger
<1>4. ASSUME NEW i \in T PROVE i + 1 \in T
  <2>1. i \in Nat /\ i + 1 \in Nat /\ i + 1 - 1 = i /\ (i + 1 <= n => i <= n /\ i + 1 \in 1..n)
    BY <1>2
  <2>2. ASSUME i + 1 <= n PROVE Led(i + 1)
    <3>1. PICK ps, qs : ps = f[i] /\ qs = f[i + 1]
      OBVIOUS
    <3>2. PublishedLedger(ps, mem, L, R, W, U, pages, t, i)
      BY <2>1, <2>2, <3>1
    <3> HIDE DEF Led
    <3>3. qs = IF pages[i + 1].hit THEN ps
               ELSE [ps EXCEPT ![pages[i + 1].pool] = Publish(@, pages[i + 1].stamp)]
      BY <1>2, <2>1, <2>2, <3>1, SMTT(30)
    <3>4. PublishedLedger(qs, mem, L, R, W, U, pages, t, i + 1)
      BY <1>2, <2>1, <2>2, <3>2, <3>3, PublicationStep
    <3> QED BY <3>1, <3>4 DEF Led
  <2> HIDE DEF Led
  <2> QED BY <2>1, <2>2
<1>5. Led(n)
  <2>1. 0 \in T
    BY <1>3
  <2> HIDE DEF Led
  <2>2. T \in SUBSET Nat
    OBVIOUS
  <2> HIDE DEF T
  <2>3. T = Nat
    BY <1>4, <2>1, <2>2, NaturalInduction
  <2>4. n \in T
    BY <1>2, <2>3
  <2> QED BY <1>2, <2>4 DEF T
<1> QED BY <1>1, <1>5

(* A reservation that was not withdrawn is not visible. *)
LEMMA StillWaits ==
  ASSUME NEW ps, NEW mem, NEW tk, NEW own, NEW wd, Consistent(ps, mem, tk, own, wd),
         NEW c \in ReservationsIn(tk, own), Live(c, wd)
  PROVE  Holds(ps[c.pool], c.stamp) /\ \A k : ps[c.pool].state[c.stamp.slot] # Ready(k)
<1>1. Holds(ps[c.pool], c.stamp)
  BY DEF Consistent, Ledger, ReservationsHold
<1> QED BY <1>1, HoldsSlot

(* The claim of a page that holds its slot. *)
LEMMA LoadIsClaim ==
  ASSUME IInv, NEW t \in Tickets, NEW g \in LoadsOf(t), Holds(pools[g.pool], g.stamp)
  PROVE  /\ tickets[t].status = "loading" /\ g \in Range(tickets[t].pages) /\ g \in PageType
         /\ ClaimOf(t, g.pool, g.stamp) \in ReservationsIn(tickets, ownLoad)
         /\ Live(ClaimOf(t, g.pool, g.stamp), withdrawn)
<1>1. PICK c, L, R : /\ c = ClaimOf(t, g.pool, g.stamp) /\ L = LeasesIn(tickets)
                     /\ R = ReservationsIn(tickets, ownLoad)
  OBVIOUS
<1>2. /\ TicketsTyped(tickets) /\ Ledger(pools, memory, L, R, withdrawn, UploadedIn(tickets))
      /\ LeasesHold(pools, L)
  BY <1>1 DEF IInv, Consistent, Ledger
<1>3. g \in Range(tickets[t].pages) /\ ~g.hit /\ g \in PageType
  BY <1>2, PagesTyped DEF LoadsOf, PagesOf
<1>4. c.who = t /\ c.pool = g.pool /\ c.stamp = g.stamp /\ c \in Claim
  BY <1>1, <1>3 DEF ClaimOf, Claim, PageType
<1>5. tickets[t].status = "loading"
  <2>1. tickets[t].status # "leased"
    <3> SUFFICES ASSUME tickets[t].status = "leased" PROVE FALSE
      OBVIOUS
    <3>1. c \in L
      BY <1>1, <1>2, <1>3, LeasedClaims
    <3>2. pools[g.pool].state[g.stamp.slot] = Ready(g.stamp.key)
      BY <1>2, <1>4, <3>1 DEF LeasesHold
    <3> QED BY <3>2, HoldsSlot
  <2>2. tickets[t].status # "none"
    <3>1. tickets[t].status = "none" => Range(tickets[t].pages) = {}
      BY <1>2 DEF TicketsTyped, NoTicket, Range
    <3> QED BY <1>3, <3>1
  <2> QED BY <1>2, <2>1, <2>2, PagesTyped
<1>6. c \in R
  <2>1. Covers(L, R, t, Range(tickets[t].pages))
    BY <1>1, <1>2, <1>5, LoadingCovers
  <2> QED BY <1>1, <1>3, <2>1 DEF Covers
<1>7. Live(c, withdrawn)
  <2>1. Holds(pools[c.pool], c.stamp)
    BY <1>4
  <2> QED BY <1>2, <1>6, <2>1, HoldsAlone
<1> QED BY <1>1, <1>3, <1>5, <1>6, <1>7

(* publish_after_transfer_fence that succeeds: every page the ticket awaited is
   Ready in its slot, its reservations are leases, and the invariant holds. *)
LEMMA PublishKeeps ==
  ASSUME IInv, NEW t \in Tickets, PublishBatch(t)
  PROVE  /\ IInv'
         /\ \A g \in LoadsOf(t) : /\ Holds(pools[g.pool], g.stamp)
                                  /\ pools'[g.pool].state[g.stamp.slot] = Ready(g.stamp.key)
         /\ LeasesIn(tickets') = LeasesIn(tickets) \cup {c \in ReservationsIn(tickets, ownLoad) : c.who = t}
         /\ ReservationsIn(tickets', ownLoad') = {c \in ReservationsIn(tickets, ownLoad) : c.who # t}
<1>1. PICK pages, n, L, R, U, tk2, P, qs :
        /\ pages = tickets[t].pages /\ n = Len(pages) /\ L = LeasesIn(tickets)
        /\ R = ReservationsIn(tickets, ownLoad) /\ U = UploadedIn(tickets) /\ tk2 = tickets'
        /\ P = PublishedClaims(pages, t, n) /\ qs = pools'
  OBVIOUS
<1>2. /\ tickets[t].status = "loading" /\ tickets[t].uploaded /\ Preflight(t)
      /\ qs = Publication(pages)[n] /\ tk2 = [tickets EXCEPT ![t].status = "leased"]
      /\ memory' = memory /\ ownLoad' = ownLoad /\ withdrawn' = withdrawn
  BY <1>1 DEF PublishBatch, Published
<1>3. /\ TicketsTyped(tickets) /\ ownLoad \in Load \cup {NoLoad}
      /\ Ledger(pools, memory, L, R, withdrawn, U)
  BY <1>1 DEF IInv, Consistent
<1>4. pages \in Seq(PageType) /\ n \in Nat /\ DOMAIN pages = 1..n /\ t \in U
  <2>1. pages \in Seq(PageType)
    BY <1>1, <1>3, PagesTyped
  <2> QED BY <1>1, <1>2, <2>1, LenProperties DEF UploadedIn
<1>5. Covers(L, R, t, Range(pages))
  BY <1>1, <1>2, <1>3, LoadingCovers
<1>6. \A g \in LoadsOf(t) : Holds(pools[g.pool], g.stamp)
  <2> SUFFICES ASSUME NEW g \in LoadsOf(t) PROVE Holds(pools[g.pool], g.stamp)
    OBVIOUS
  <2>1. g \in PageType
    BY <1>3, PagesTyped DEF LoadsOf, PagesOf
  <2>2. g.pool \in PoolName /\ g.stamp \in StampsIn(g.pool, LoadsOf(t))
    BY <2>1 DEF PageType, StampsIn
  <2> QED BY <1>2, <2>2 DEF Preflight, CanPublish
<1>7. \A j \in 1..n : pages[j] \in Range(pages) /\ (~pages[j].hit => pages[j] \in LoadsOf(t))
  BY <1>1, <1>4 DEF LoadsOf, PagesOf, Range
<1>8. Publishable(pages, t, n, R, withdrawn)
  <2>1. ASSUME NEW j \in 1..n, ~pages[j].hit
        PROVE  ClaimAt(pages, t, j) \in R /\ Live(ClaimAt(pages, t, j), withdrawn)
    <3>1. PICK g : g = pages[j]
      OBVIOUS
    <3>2. g \in LoadsOf(t) /\ Holds(pools[g.pool], g.stamp)
      BY <1>6, <1>7, <2>1, <3>1
    <3>3. ClaimOf(t, g.pool, g.stamp) \in R /\ Live(ClaimOf(t, g.pool, g.stamp), withdrawn)
      BY <1>1, <3>2, LoadIsClaim
    <3> QED BY <3>1, <3>3 DEF ClaimAt
  <2>2. \A j, k \in 1..n : SamePage(pages[j], pages[k]) => j = k
    BY <1>1, <1>3, <1>4 DEF TicketsTyped
  <2> QED BY <2>1, <2>2 DEF Publishable
<1>9. Ledger(qs, memory, L \cup P, R \ P, withdrawn, U)
  <2>1. /\ Ledger(pools, memory, L, R, withdrawn, U) /\ t \in U /\ Len(pages) \in Nat
        /\ Publishable(pages, t, Len(pages), R, withdrawn) /\ qs = Publication(pages)[Len(pages)]
    BY <1>1, <1>2, <1>3, <1>4, <1>8
  <2>2. PublishedLedger(qs, memory, L, R, withdrawn, U, pages, t, Len(pages))
    BY <2>1, PublicationLedger
  <2> QED BY <1>1, <2>2 DEF PublishedLedger
<1>10. P = {c \in R : c.who = t}
  <2>1. ASSUME NEW c \in P PROVE c \in R /\ c.who = t
    <3>1. PICK j \in 1..n : ~pages[j].hit /\ c = ClaimAt(pages, t, j)
      BY <1>1 DEF PublishedClaims
    <3> QED BY <1>8, <3>1, ClaimFields DEF Publishable, ClaimAt
  <2>2. ASSUME NEW c \in R, c.who = t PROVE c \in P
    <3>1. PICK g \in Range(pages) : ~g.hit /\ c = ClaimOf(t, g.pool, g.stamp)
      BY <1>5, <2>2 DEF Covers
    <3>2. PICK j \in 1..n : g = pages[j]
      BY <1>4 DEF Range
    <3>3. ~pages[j].hit /\ c = ClaimAt(pages, t, j)
      BY <3>1, <3>2 DEF ClaimAt
    <3> QED BY <1>1, <3>3 DEF PublishedClaims
  <2> QED BY <2>1, <2>2
<1>11. /\ TicketsTyped(tk2) /\ LeasesIn(tk2) = L \cup {c \in R : c.who = t}
       /\ ReservationsIn(tk2, ownLoad) = {c \in R : c.who # t} /\ UploadedIn(tk2) = U
  <2>1. /\ TicketsTyped(tickets) /\ tickets[t].status = "loading" /\ ownLoad \in Load \cup {NoLoad}
        /\ tk2 = WithStatus(tickets, t, "leased")
    BY <1>2, <1>3 DEF WithStatus
  <2>2. TicketsTyped(tk2) /\ UploadedIn(tk2) = UploadedIn(tickets)
    BY <2>1, TicketLeased
  <2>3. LeasesIn(tk2) = AllClaims(LeasesIn(tickets), ClaimsBy(ReservationsIn(tickets, ownLoad), t))
    BY <2>1, TicketLeased
  <2>4. ReservationsIn(tk2, ownLoad) = ClaimsNotBy(ReservationsIn(tickets, ownLoad), t)
    BY <2>1, TicketLeased
  <2> QED BY <1>1, <2>2, <2>3, <2>4 DEF ClaimsBy, ClaimsNotBy, AllClaims
<1>12. R \ P = {c \in R : c.who # t}
  BY <1>10
<1>13. Consistent(qs, memory, tk2, ownLoad, withdrawn)
  BY <1>3, <1>9, <1>10, <1>11, <1>12 DEF Consistent
<1>14. \A g \in LoadsOf(t) : qs[g.pool].state[g.stamp.slot] = Ready(g.stamp.key)
  <2> SUFFICES ASSUME NEW g \in LoadsOf(t)
               PROVE  qs[g.pool].state[g.stamp.slot] = Ready(g.stamp.key)
    OBVIOUS
  <2>1. PICK c : c = ClaimOf(t, g.pool, g.stamp)
    OBVIOUS
  <2>2. c \in R /\ c.who = t /\ c.pool = g.pool /\ c.stamp = g.stamp
    BY <1>1, <1>6, <2>1, LoadIsClaim, ClaimFields
  <2>3. c \in L \cup P
    BY <1>10, <2>2
  <2> QED BY <1>9, <2>2, <2>3 DEF Ledger, LeasesHold
<1> QED BY <1>1, <1>2, <1>6, <1>11, <1>13, <1>14 DEF IInv

(* The transfer fence keeps the invariant: no pool changes. *)
LEMMA FenceKeeps ==
  ASSUME IInv, NEW t \in Tickets, TransferFence(t)
  PROVE  IInv' /\ PoolsNoneReady(pools, pools') /\ ownLoad' = ownLoad /\ withdrawn' = withdrawn
<1>1. PICK L, R, U, tk2, mem2 :
        /\ L = LeasesIn(tickets) /\ R = ReservationsIn(tickets, ownLoad)
        /\ U = UploadedIn(tickets) /\ tk2 = tickets' /\ mem2 = memory'
  OBVIOUS
<1>2. /\ tickets[t].status = "loading" /\ tk2 = WithUpload(tickets, t)
      /\ mem2 = [n \in PoolName |-> [s \in DOMAIN memory[n] |->
           IF \E g \in LoadsOf(t) : g.pool = n /\ g.stamp.slot = s /\ Holds(pools[n], g.stamp)
           THEN pools[n].state[s].key ELSE memory[n][s]]]
      /\ pools' = pools /\ ownLoad' = ownLoad /\ withdrawn' = withdrawn
  BY <1>1 DEF TransferFence, WithUpload
<1>3. /\ TicketsTyped(tickets) /\ ownLoad \in Load \cup {NoLoad}
      /\ Ledger(pools, memory, L, R, withdrawn, U)
  BY <1>1 DEF IInv, Consistent
<1>4. Covers(L, R, t, Range(tickets[t].pages))
  BY <1>1, <1>2, <1>3, LoadingCovers
<1>5. ASSUME NEW n \in PoolName, NEW s
      PROVE  (\E g \in LoadsOf(t) : g.pool = n /\ g.stamp.slot = s /\ Holds(pools[n], g.stamp))
               <=> \E c \in R : c.who = t /\ At(c, n, s) /\ Holds(pools[n], c.stamp)
  <2>1. ASSUME NEW g \in LoadsOf(t), g.pool = n, g.stamp.slot = s, Holds(pools[n], g.stamp)
        PROVE  \E c \in R : c.who = t /\ At(c, n, s) /\ Holds(pools[n], c.stamp)
    <3>1. ClaimOf(t, g.pool, g.stamp) \in R
      BY <1>1, <2>1, LoadIsClaim
    <3> QED BY <2>1, <3>1, ClaimFields DEF At
  <2>2. ASSUME NEW c \in R, c.who = t, At(c, n, s), Holds(pools[n], c.stamp)
        PROVE  \E g \in LoadsOf(t) : g.pool = n /\ g.stamp.slot = s /\ Holds(pools[n], g.stamp)
    <3>1. PICK g \in Range(tickets[t].pages) : ~g.hit /\ c = ClaimOf(t, g.pool, g.stamp)
      BY <1>4, <2>2 DEF Covers
    <3>2. g.pool = c.pool /\ g.stamp = c.stamp
      BY <3>1, ClaimFields
    <3> QED BY <2>2, <3>1, <3>2 DEF At, LoadsOf, PagesOf
  <2> QED BY <2>1, <2>2
<1>6. /\ ByPool(mem2)
      /\ \A n \in PoolName :
           /\ DOMAIN mem2[n] = 1..Slots(n)
           /\ \A s \in 1..Slots(n) : mem2[n][s] =
                IF \E c \in R : c.who = t /\ At(c, n, s) /\ Holds(pools[n], c.stamp)
                THEN pools[n].state[s].key ELSE memory[n][s]
  <2>1. \A n \in PoolName : DOMAIN memory[n] = 1..Slots(n)
    BY <1>3 DEF Ledger, PoolsSound
  <2>2. ByPool(mem2)
    BY <1>2 DEF ByPool
  <2>3. \A n \in PoolName :
          mem2[n] = [s \in 1..Slots(n) |->
            IF \E g \in LoadsOf(t) : g.pool = n /\ g.stamp.slot = s /\ Holds(pools[n], g.stamp)
            THEN pools[n].state[s].key ELSE memory[n][s]]
    BY <1>2, <2>1
  <2>4. ASSUME NEW n \in PoolName
        PROVE  /\ DOMAIN mem2[n] = 1..Slots(n)
               /\ \A s \in 1..Slots(n) : mem2[n][s] =
                    IF \E c \in R : c.who = t /\ At(c, n, s) /\ Holds(pools[n], c.stamp)
                    THEN pools[n].state[s].key ELSE memory[n][s]
    <3>1. PICK f : f = mem2[n]
      OBVIOUS
    <3>2. f = [s \in 1..Slots(n) |->
            IF \E g \in LoadsOf(t) : g.pool = n /\ g.stamp.slot = s /\ Holds(pools[n], g.stamp)
            THEN pools[n].state[s].key ELSE memory[n][s]]
      BY <2>3, <3>1
    <3>3. ASSUME NEW s \in 1..Slots(n)
          PROVE  f[s] = IF \E c \in R : c.who = t /\ At(c, n, s) /\ Holds(pools[n], c.stamp)
                        THEN pools[n].state[s].key ELSE memory[n][s]
      BY <1>5, <3>2
    <3>4. DOMAIN f = 1..Slots(n)
      BY <3>2
    <3> QED BY <3>1, <3>3, <3>4
  <2> QED BY <2>2, <2>4
<1>7. Ledger(pools, mem2, L, R, withdrawn, U \cup {t})
  BY <1>3, <1>6, Fenced
<1>8. /\ TicketsTyped(tk2) /\ LeasesIn(tk2) = L /\ ReservationsIn(tk2, ownLoad) = R
      /\ UploadedIn(tk2) = U \cup {t}
  BY <1>1, <1>2, <1>3, TicketUploaded
<1>9. Consistent(pools, mem2, tk2, ownLoad, withdrawn)
  BY <1>3, <1>7, <1>8 DEF Consistent
<1>10. PoolsNoneReady(pools, pools')
  BY <1>2 DEF PoolsNoneReady, NoneReady
<1> QED BY <1>1, <1>2, <1>9, <1>10 DEF IInv

(* A ticket that is refused or cancelled gives everything back. *)
LEMMA RollbackKeeps ==
  ASSUME IInv, NEW t \in Tickets, PublishFails(t) \/ CancelBatch(t)
  PROVE  /\ IInv' /\ PoolsNoneReady(pools, pools')
         /\ ownLoad' = ownLoad /\ withdrawn' \subseteq withdrawn
<1>1. PICK L, R, U, tk2, W2, pages, L2, R2 :
        /\ L = LeasesIn(tickets) /\ R = ReservationsIn(tickets, ownLoad)
        /\ U = UploadedIn(tickets) /\ tk2 = tickets' /\ W2 = withdrawn'
        /\ pages = Range(tickets[t].pages)
        /\ L2 = {c \in L : c.who # t} /\ R2 = {c \in R : c.who # t}
  OBVIOUS
<1>2. /\ tickets[t].status = "loading" /\ tk2 = Dropped(tickets, t)
      /\ pools' = RolledBack(pools, pages) /\ W2 = withdrawn \ Loads(t)
      /\ memory' = memory /\ ownLoad' = ownLoad
  BY <1>1 DEF PublishFails, CancelBatch, Dropped, PagesOf
<1>3. /\ TicketsTyped(tickets) /\ ownLoad \in Load \cup {NoLoad}
      /\ Ledger(pools, memory, L, R, withdrawn, U)
  BY <1>1 DEF IInv, Consistent
<1>4. Covers(L, R, t, pages)
  BY <1>1, <1>2, <1>3, LoadingCovers
<1>5. ASSUME NEW c \in R2, Live(c, W2) PROVE Live(c, withdrawn)
  <2> SUFFICES ASSUME <<c.pool, c.stamp>> \in Loads(t) PROVE FALSE
    BY <1>2, <1>5 DEF Live
  <2>1. PICK g \in LoadsOf(t) : <<c.pool, c.stamp>> = <<g.pool, g.stamp>>
    BY DEF Loads
  <2>2. PICK d : d = ClaimOf(t, g.pool, g.stamp)
    OBVIOUS
  <2>3. d \in R /\ d.who = t /\ d.pool = c.pool /\ d.stamp = c.stamp
    BY <1>1, <1>4, <2>1, <2>2, ClaimFields DEF Covers, LoadsOf, PagesOf
  <2>4. c \in R /\ c.who # t
    BY <1>1
  <2>5. d = c
    BY <1>3, <2>3, <2>4 DEF Ledger, ReservationsHold
  <2> QED BY <2>3, <2>4, <2>5
<1>6. /\ TicketsTyped(tk2) /\ LeasesIn(tk2) = L2 /\ ReservationsIn(tk2, ownLoad) = R2
      /\ UploadedIn(tk2) \subseteq U
  <2>1. TicketsTyped(tk2) /\ UploadedIn(tk2) \subseteq UploadedIn(tickets)
    BY <1>2, <1>3, TicketDropped
  <2>2. LeasesIn(tk2) = ClaimsNotBy(LeasesIn(tickets), t)
    BY <1>2, <1>3, TicketDropped
  <2>3. ReservationsIn(tk2, ownLoad) = ClaimsNotBy(ReservationsIn(tickets, ownLoad), t)
    BY <1>2, <1>3, TicketDropped
  <2> QED BY <1>1, <2>1, <2>2, <2>3 DEF ClaimsNotBy
<1>7. /\ Ledger(RolledBack(pools, pages), memory, L2, R2, W2, UploadedIn(tk2))
      /\ \A n \in PoolName : \A s \in 1..Slots(n) :
           RolledBack(pools, pages)[n].state[s] \in {Empty, pools[n].state[s]}
  <2>1. /\ Ledger(pools, memory, L, R, withdrawn, U) /\ Covers(L, R, t, pages)
        /\ L2 = ClaimsNotBy(L, t) /\ R2 = ClaimsNotBy(R, t)
        /\ W2 \subseteq withdrawn /\ UploadedIn(tk2) \subseteq U
        /\ StayLive(R2, W2, withdrawn)
    BY <1>1, <1>2, <1>3, <1>4, <1>5, <1>6 DEF ClaimsNotBy, StayLive
  <2> QED BY <2>1, TicketRolledBack
<1>8. Consistent(pools', memory, tk2, ownLoad, W2)
  BY <1>2, <1>3, <1>6, <1>7 DEF Consistent
<1>9. PoolsNoneReady(pools, pools')
  BY <1>2, <1>7, StatesDiffer DEF PoolsNoneReady, NoneReady
<1> QED BY <1>1, <1>2, <1>8, <1>9 DEF IInv

(* The compute fence unpins every page of the ticket. *)
LEMMA ReleaseKeeps ==
  ASSUME IInv, NEW t \in Tickets, ReleaseBatch(t)
  PROVE  /\ IInv' /\ PoolsNoneReady(pools, pools')
         /\ ownLoad' = ownLoad /\ withdrawn' \subseteq withdrawn
<1>1. PICK L, R, U, tk2, pages, L2, qs :
        /\ L = LeasesIn(tickets) /\ R = ReservationsIn(tickets, ownLoad)
        /\ U = UploadedIn(tickets) /\ tk2 = tickets' /\ pages = Range(tickets[t].pages)
        /\ L2 = {c \in L : c.who # t} /\ qs = pools'
  OBVIOUS
<1>2. /\ tickets[t].status = "leased" /\ tk2 = Dropped(tickets, t)
      /\ qs = [n \in PoolName |-> [pools[n] EXCEPT !.pins = [s \in DOMAIN @ |->
                 IF \E b \in StampsIn(n, pages) : b.slot = s THEN @[s] - 1 ELSE @[s]]]]
      /\ withdrawn' = withdrawn \ Loads(t) /\ memory' = memory /\ ownLoad' = ownLoad
  BY <1>1 DEF ReleaseBatch, Dropped, PagesOf
<1>3. /\ TicketsTyped(tickets) /\ ownLoad \in Load \cup {NoLoad}
      /\ Ledger(pools, memory, L, R, withdrawn, U)
  BY <1>1 DEF IInv, Consistent
<1>4. /\ \A g \in pages : ClaimOf(t, g.pool, g.stamp) \in L
      /\ \A c \in L : c.who = t => \E g \in pages : c = ClaimOf(t, g.pool, g.stamp)
      /\ \A c \in R : c.who # t
  BY <1>1, <1>2, <1>3, LeasedClaims
<1>5. withdrawn' = withdrawn
  <2>1. ASSUME NEW w \in withdrawn, w \in Loads(t) PROVE FALSE
    <3>1. PICK g \in LoadsOf(t) : w = <<g.pool, g.stamp>>
      BY <2>1 DEF Loads
    <3>2. ClaimOf(t, g.pool, g.stamp) \in L
      BY <1>1, <1>4 DEF LoadsOf, PagesOf
    <3>3. /\ pools[g.pool].state[g.stamp.slot] = Ready(g.stamp.key)
          /\ pools[g.pool].generation[g.stamp.slot] = g.stamp.generation
      BY <1>3, <3>2, ClaimFields DEF Ledger, LeasesHold
    <3>4. Past(pools, w) /\ w[1] = g.pool /\ w[2] = g.stamp
      BY <1>3, <3>1 DEF Ledger, WithdrawnPast
    <3> QED BY <3>3, <3>4, StatesDiffer DEF Past
  <2> QED BY <1>2, <2>1
<1>6. /\ TicketsTyped(tk2) /\ LeasesIn(tk2) = L2 /\ ReservationsIn(tk2, ownLoad) = R
      /\ UploadedIn(tk2) \subseteq U
  <2>1. TicketsTyped(tk2) /\ UploadedIn(tk2) \subseteq UploadedIn(tickets)
    BY <1>2, <1>3, TicketDropped
  <2>2. LeasesIn(tk2) = ClaimsNotBy(LeasesIn(tickets), t)
    BY <1>2, <1>3, TicketDropped
  <2>3. ReservationsIn(tk2, ownLoad) = ClaimsNotBy(ReservationsIn(tickets, ownLoad), t)
    BY <1>2, <1>3, TicketDropped
  <2>4. ClaimsNotBy(R, t) = R
    BY <1>4 DEF ClaimsNotBy
  <2> QED BY <1>1, <2>1, <2>2, <2>3, <2>4 DEF ClaimsNotBy
<1>7. /\ Ledger(qs, memory, L2, R, withdrawn, UploadedIn(tk2))
      /\ \A n \in PoolName : \A s \in 1..Slots(n) : qs[n].state[s] = pools[n].state[s]
  <2>1. /\ Ledger(pools, memory, L, R, withdrawn, U) /\ L2 = ClaimsNotBy(L, t)
        /\ UploadedIn(tk2) \subseteq U /\ AllLeased(L, R, t, pages) /\ qs = Released(pools, pages)
    BY <1>1, <1>2, <1>3, <1>4, <1>6 DEF ClaimsNotBy, AllLeased, Released
  <2> QED BY <2>1, TicketReleased
<1>8. Consistent(qs, memory, tk2, ownLoad, withdrawn)
  BY <1>3, <1>6, <1>7 DEF Consistent
<1>9. PoolsNoneReady(pools, qs)
  BY <1>7 DEF PoolsNoneReady, NoneReady
<1> QED BY <1>1, <1>2, <1>5, <1>8, <1>9 DEF IInv

-----------------------------------------------------------------------------
(* The pool owner *)

(* A lookup refreshes the recency and nothing else. *)
LEMMA LookupKeeps ==
  ASSUME IInv, NEW n \in PoolName, NEW k, OwnerLookup(n, k)
  PROVE  IInv' /\ PoolsNoneReady(pools, pools') /\ ownLoad' = ownLoad /\ withdrawn' = withdrawn
<1>1. PICK L, R, U, q, ps2 :
        /\ L = LeasesIn(tickets) /\ R = ReservationsIn(tickets, ownLoad)
        /\ U = UploadedIn(tickets) /\ q = Lookup(pools[n], k) /\ ps2 = [pools EXCEPT ![n] = q]
  OBVIOUS
<1>2. /\ pools' = ps2 /\ memory' = memory /\ tickets' = tickets /\ ownLoad' = ownLoad
      /\ withdrawn' = withdrawn
  BY <1>1 DEF OwnerLookup
<1>3. /\ TicketsTyped(tickets) /\ ownLoad \in Load \cup {NoLoad}
      /\ Ledger(pools, memory, L, R, withdrawn, U)
  BY <1>1 DEF IInv, Consistent
<1>4. /\ Sound(q, Slots(n)) /\ q.state = pools[n].state /\ q.pins = pools[n].pins
      /\ q.generation = pools[n].generation
  <2>1. Sound(pools[n], Slots(n)) /\ Slots(n) \in Nat
    BY <1>3, SlotsType DEF Ledger, PoolsSound
  <2> QED BY <1>1, <2>1, LookedUp
<1>5. PoolsSound(ps2, memory) /\ ps2[n] = q /\ \A m \in PoolName : m # n => ps2[m] = pools[m]
  <2>1. DOMAIN pools = PoolName
    BY <1>3 DEF Ledger, PoolsSound, ByPool
  <2>2. ps2[n] = q /\ \A m \in PoolName : m # n => ps2[m] = pools[m]
    BY <1>1, <2>1
  <2>3. ByPool(ps2)
    BY <1>1, <2>1 DEF ByPool
  <2>4. \A m \in PoolName : Sound(ps2[m], Slots(m))
    BY <1>3, <1>4, <2>2 DEF Ledger, PoolsSound
  <2>5. ByPool(memory) /\ \A m \in PoolName : DOMAIN memory[m] = 1..Slots(m)
    BY <1>3 DEF Ledger, PoolsSound
  <2> QED BY <2>2, <2>3, <2>4, <2>5 DEF PoolsSound
<1>6. \A m \in PoolName : /\ ps2[m].state = pools[m].state /\ ps2[m].pins = pools[m].pins
                          /\ ps2[m].generation = pools[m].generation
  BY <1>4, <1>5
<1>7. Ledger(ps2, memory, L, R, withdrawn, U)
  <2>1. \A c \in L \cup R : c.pool \in PoolName
    BY <1>1, ClaimsAreClaims DEF Claim
  <2>2. LeasesHold(ps2, L) /\ PinsCount(ps2, L)
    BY <1>3, <1>6, <2>1 DEF Ledger, LeasesHold, PinsCount
  <2>3. ReservationsHold(ps2, R, withdrawn)
    BY <1>3, <1>6, <2>1 DEF Ledger, ReservationsHold, Holds
  <2>4. LoadingOwned(ps2, R, withdrawn)
    BY <1>3, <1>6 DEF Ledger, LoadingOwned
  <2>5. WithdrawnPast(ps2, withdrawn)
    BY <1>3, <1>6 DEF Ledger, WithdrawnPast, Past
  <2>6. BytesInPlace(ps2, memory, R, U)
    BY <1>3, <1>6, <2>1 DEF Ledger, BytesInPlace, Holds
  <2> QED BY <1>5, <2>2, <2>3, <2>4, <2>5, <2>6 DEF Ledger
<1>8. Consistent(ps2, memory, tickets, ownLoad, withdrawn)
  BY <1>1, <1>3, <1>7 DEF Consistent
<1>9. PoolsNoneReady(pools, ps2)
  BY <1>6 DEF PoolsNoneReady, NoneReady
<1> QED BY <1>2, <1>8, <1>9 DEF IInv

Without(C, c) == C \ {c}
CancelledAt(ps, c) == [ps EXCEPT ![c.pool] = Cancel(ps[c.pool], c.stamp.slot)]

(* The reservation c loses its slot: withdrawn, or given up by its holder. *)
LEMMA ClaimCancelled ==
  ASSUME NEW ps, NEW mem, NEW L, NEW R, NEW W, NEW U, Ledger(ps, mem, L, R, W, U),
         NEW c \in R, Holds(ps[c.pool], c.stamp), NEW ps0, ps0 = CancelledAt(ps, c)
  PROVE  /\ Ledger(ps0, mem, L, R, AllClaims(W, {<<c.pool, c.stamp>>}), U)
         /\ Ledger(ps0, mem, L, Without(R, c), W, U)
         /\ PoolsNoneReady(ps, ps0)
<1>1. PICK n, s, k, q, ps2, w :
        /\ n = c.pool /\ s = c.stamp.slot /\ k = c.stamp.key
        /\ q = Cancel(ps[n], s) /\ ps2 = ps0 /\ ps2 = [ps EXCEPT ![n] = q] /\ w = <<n, c.stamp>>
  BY DEF CancelledAt
<1>2. /\ PoolsSound(ps, mem) /\ LeasesHold(ps, L) /\ PinsCount(ps, L)
      /\ ReservationsHold(ps, R, W) /\ DOMAIN ps = PoolName
  BY DEF Ledger, PoolsSound, ByPool
<1>3. n \in PoolName /\ s \in 1..Slots(n) /\ k \in Key /\ Slots(n) \in Nat /\ Sound(ps[n], Slots(n))
  <2>1. c \in Claim /\ s \in 1..Slots(n)
    BY <1>1, <1>2 DEF ReservationsHold
  <2>2. n \in PoolName /\ k \in Key
    BY <1>1, <2>1 DEF Claim, PageStamp
  <2> QED BY <1>2, <2>1, <2>2, SlotsType DEF PoolsSound
<1>4. ps[n].state[s] = Loading(k) /\ ps[n].state[s] # Empty /\ \A l : ps[n].state[s] # Ready(l)
  BY <1>1, HoldsSlot
<1>5. /\ Sound(q, Slots(n)) /\ OthersKept(ps[n], q, Slots(n), s)
      /\ q.state[s] = Empty /\ q.pins[s] = 0 /\ q.generation[s] = ps[n].generation[s]
  <2>1. q = Cancel(ps[n], s)
    BY <1>1
  <2> QED BY <1>3, <1>4, <2>1, Cancelled
<1>6. ps2[n] = q /\ \A m \in PoolName : m # n => ps2[m] = ps[m]
  BY <1>1, <1>2, <1>3
<1>7. PoolsSound(ps2, mem)
  <2>1. ByPool(ps2)
    BY <1>1, <1>2 DEF ByPool
  <2> QED BY <1>2, <1>5, <1>6, <2>1 DEF PoolsSound
<1>8. \A m \in PoolName : \A u \in 1..Slots(m) :
        /\ ps2[m].generation[u] = ps[m].generation[u]
        /\ ~(m = n /\ u = s) => ps2[m].state[u] = ps[m].state[u] /\ ps2[m].pins[u] = ps[m].pins[u]
  BY <1>5, <1>6 DEF OthersKept
<1>9. \A d \in L : ~At(d, n, s)
  BY <1>2, <1>3, <1>4, Unpinned
<1>10. ps[n].pins[s] = 0
  BY <1>2, <1>3, <1>4, Unpinned
<1>11. LeasesHold(ps2, L) /\ PinsCount(ps2, L)
  <2>1. LeasesHold(ps2, L)
    <3> SUFFICES ASSUME NEW d \in L
                 PROVE  /\ d \in Claim /\ d.who \in Tickets /\ d.stamp.slot \in 1..Slots(d.pool)
                        /\ ps2[d.pool].state[d.stamp.slot] = Ready(d.stamp.key)
                        /\ ps2[d.pool].generation[d.stamp.slot] = d.stamp.generation
      BY DEF LeasesHold
    <3>1. /\ d \in Claim /\ d.who \in Tickets /\ d.stamp.slot \in 1..Slots(d.pool)
          /\ ps[d.pool].state[d.stamp.slot] = Ready(d.stamp.key)
          /\ ps[d.pool].generation[d.stamp.slot] = d.stamp.generation
      BY <1>2 DEF LeasesHold
    <3>2. d.pool \in PoolName /\ ~(d.pool = n /\ d.stamp.slot = s)
      BY <1>9, <3>1 DEF Claim, At
    <3> QED BY <1>8, <3>1, <3>2
  <2>2. PinsCount(ps2, L)
    BY <1>2, <1>5, <1>6, <1>8, <1>10 DEF PinsCount
  <2> QED BY <2>1, <2>2
<1>12. \A d \in R : /\ d.pool \in PoolName /\ d.stamp.slot \in 1..Slots(d.pool)
                    /\ At(d, n, s) /\ Live(d, W) => d = c
                    /\ d.pool = n /\ d.stamp.slot = s /\ d.stamp = c.stamp => d = c
  <2>1. \A d \in R : At(d, c.pool, c.stamp.slot) /\ Live(d, W) => d = c
    BY HoldsAlone
  <2> QED BY <1>1, <1>2, <2>1 DEF ReservationsHold, Claim
<1>13. \A d \in R : d # c /\ Live(d, W) => ps2[d.pool].state[d.stamp.slot] = ps[d.pool].state[d.stamp.slot]
  BY <1>8, <1>12 DEF At
<1>14. ps2[c.pool].state[c.stamp.slot] = Empty
  BY <1>1, <1>5, <1>6
<1>15. \A m \in PoolName : \A u \in 1..Slots(m) :
         /\ ps2[m].generation[u] = ps[m].generation[u]
         /\ ps2[m].state[u] = ps[m].state[u]
              \/ (ps2[m].state[u] = Empty /\ \E l \in Key : ps[m].state[u] = Loading(l))
  BY <1>3, <1>4, <1>5, <1>6, <1>8
<1>16. U \subseteq U /\ R \subseteq R /\ R \ {c} \subseteq R
  OBVIOUS
<1>17. Ledger(ps2, mem, L, R, W \cup {w}, U)
  <2>1. PICK W2 : W2 = W \cup {w}
    OBVIOUS
  <2>2. ~Live(c, W2) /\ \A d \in R : d # c => (Live(d, W2) <=> Live(d, W))
    <3>1. \A d \in R : d # c => <<d.pool, d.stamp>> # w
      BY <1>1, <1>12
    <3> QED BY <1>1, <2>1, <3>1 DEF Live
  <2>3. \A d \in R : Live(d, W2) =>
          Live(d, W) /\ ps2[d.pool].state[d.stamp.slot] = ps[d.pool].state[d.stamp.slot]
    BY <1>13, <2>2
  <2>4. \A d \in R : Live(d, W) /\ ps2[d.pool].state[d.stamp.slot] # Empty => d \in R /\ Live(d, W2)
    BY <1>14, <2>2
  <2>5. \A x \in W2 : x \in W \/ \E d \in R : /\ x = <<d.pool, d.stamp>>
                                              /\ ps2[d.pool].state[d.stamp.slot] = Empty
    BY <1>1, <1>14, <2>1
  <2>6. Ledger(ps2, mem, L, R, W2, U)
    BY <1>7, <1>11, <1>15, <1>16, <2>3, <2>4, <2>5, GivenUp
  <2> QED BY <2>1, <2>6
<1>18. Ledger(ps2, mem, L, R \ {c}, W, U)
  <2>1. PICK R2 : R2 = R \ {c}
    OBVIOUS
  <2>2. R2 \subseteq R /\ \A d \in R : d # c => d \in R2
    BY <2>1
  <2>3. \A d \in R2 : Live(d, W) =>
          Live(d, W) /\ ps2[d.pool].state[d.stamp.slot] = ps[d.pool].state[d.stamp.slot]
    BY <1>13, <2>1
  <2>4. \A d \in R : Live(d, W) /\ ps2[d.pool].state[d.stamp.slot] # Empty => d \in R2 /\ Live(d, W)
    BY <1>14, <2>2
  <2>5. \A x \in W : x \in W \/ \E d \in R : /\ x = <<d.pool, d.stamp>>
                                             /\ ps2[d.pool].state[d.stamp.slot] = Empty
    OBVIOUS
  <2>6. Ledger(ps2, mem, L, R2, W, U)
    BY <1>7, <1>11, <1>15, <1>16, <2>2, <2>3, <2>4, <2>5, GivenUp
  <2> QED BY <2>1, <2>6
<1>19. PoolsNoneReady(ps, ps2)
  <2>1. ASSUME NEW m \in PoolName, NEW u \in 1..Slots(m), NEW l \in Key, ps2[m].state[u] = Ready(l)
        PROVE  ps[m].state[u] = Ready(l)
    <3>1. ~(m = n /\ u = s)
      BY <1>5, <1>6, <2>1, StatesDiffer
    <3> QED BY <1>8, <2>1, <3>1
  <2> QED BY <2>1 DEF PoolsNoneReady, NoneReady
<1> QED BY <1>1, <1>17, <1>18, <1>19 DEF AllClaims, Without

(* The owner's own reservation was not withdrawn. *)
OwnerLive(own, wd) == own # NoLoad => <<own.pool, own.stamp>> \notin wd

(* The owner's reservation is one more claim beside those of the tickets. *)
LEMMA OwnersClaim ==
  ASSUME NEW tk, NEW own \in Load, NEW c, c = ClaimOf(Owner, own.pool, own.stamp)
  PROVE  /\ own # NoLoad /\ c \in Claim /\ c \in ReservationsIn(tk, own)
         /\ c.who = Owner /\ c.pool = own.pool /\ c.stamp = own.stamp
         /\ ReservationsIn(tk, own) = AllClaims(ReservationsIn(tk, NoLoad), {c})
         /\ ReservationsIn(tk, NoLoad) = Without(ReservationsIn(tk, own), c)
<1>1. PICK o : o = own /\ o # NoLoad /\ o.pool \in PoolName /\ o.stamp \in PageStamp
  BY NoLoadAssumption DEF Load
<1>2. c.who = Owner /\ c.pool = o.pool /\ c.stamp = o.stamp /\ c \in Claim /\ Owner \notin Tickets
  BY <1>1, OwnerIsNoTicket DEF ClaimOf, Claim
<1>3. \A d \in Claim : d.who \notin Tickets => d.who = Owner
  BY DEF Claim
<1>4. \A d \in Claim : d.who = Owner /\ d.pool = o.pool /\ d.stamp = o.stamp => d = c
  BY <1>2, ClaimFields
<1>5. \A d \in Claim : d \in ReservationsIn(tk, o) <=>
        IF d.who \in Tickets THEN Awaited(tk[d.who], d) ELSE d = c
  BY <1>1, <1>2, <1>3, <1>4 DEF ReservationsIn
<1>6. \A d \in Claim : d \in ReservationsIn(tk, NoLoad) <=> d.who \in Tickets /\ Awaited(tk[d.who], d)
  BY DEF ReservationsIn
<1>7. \A d \in Claim : /\ d \in ReservationsIn(tk, o) <=> d \in ReservationsIn(tk, NoLoad) \/ d = c
                       /\ d \in ReservationsIn(tk, NoLoad) <=> d \in ReservationsIn(tk, o) /\ d # c
  BY <1>2, <1>5, <1>6
<1>8. ReservationsIn(tk, o) \subseteq Claim /\ ReservationsIn(tk, NoLoad) \subseteq Claim
  BY ClaimsAreClaims
<1>9. ReservationsIn(tk, o) = AllClaims(ReservationsIn(tk, NoLoad), {c})
  BY <1>2, <1>7, <1>8 DEF AllClaims
<1>10. ReservationsIn(tk, NoLoad) = Without(ReservationsIn(tk, o), c)
  BY <1>7, <1>8 DEF Without
<1>11. c \in ReservationsIn(tk, o)
  BY <1>2, <1>5
<1> QED BY <1>1, <1>2, <1>9, <1>10, <1>11

(* The owner withdraws a page some ticket is loading. *)
LEMMA WithdrawKeeps ==
  ASSUME IInv, OwnerLive(ownLoad, withdrawn),
         NEW t \in Tickets, NEW g \in LoadsOf(t), OwnerWithdraws(t, g)
  PROVE  IInv' /\ PoolsNoneReady(pools, pools') /\ OwnerLive(ownLoad', withdrawn')
<1>1. PICK L, R, U, c, q, ps2 :
        /\ L = LeasesIn(tickets) /\ R = ReservationsIn(tickets, ownLoad)
        /\ U = UploadedIn(tickets) /\ c = ClaimOf(t, g.pool, g.stamp)
        /\ q = Cancel(pools[g.pool], g.stamp.slot) /\ ps2 = [pools EXCEPT ![g.pool] = q]
  OBVIOUS
<1>2. /\ Holds(pools[g.pool], g.stamp) /\ pools' = ps2
      /\ withdrawn' = withdrawn \cup {<<g.pool, g.stamp>>}
      /\ memory' = memory /\ tickets' = tickets /\ ownLoad' = ownLoad
  BY <1>1 DEF OwnerWithdraws
<1>3. /\ TicketsTyped(tickets) /\ ownLoad \in Load \cup {NoLoad}
      /\ Ledger(pools, memory, L, R, withdrawn, U)
  BY <1>1 DEF IInv, Consistent
<1>4. c \in R /\ c.who = t /\ c.pool = g.pool /\ c.stamp = g.stamp
  BY <1>1, <1>2, LoadIsClaim, ClaimFields
<1>5. /\ Ledger(ps2, memory, L, R, withdrawn \cup {<<c.pool, c.stamp>>}, U)
      /\ PoolsNoneReady(pools, ps2)
  <2>1. Holds(pools[c.pool], c.stamp) /\ ps2 = CancelledAt(pools, c)
    BY <1>1, <1>2, <1>4 DEF CancelledAt
  <2>2. /\ Ledger(ps2, memory, L, R, AllClaims(withdrawn, {<<c.pool, c.stamp>>}), U)
        /\ PoolsNoneReady(pools, ps2)
    BY <1>3, <1>4, <2>1, ClaimCancelled
  <2> QED BY <2>2 DEF AllClaims
<1>6. withdrawn' = withdrawn \cup {<<c.pool, c.stamp>>}
  BY <1>2, <1>4
<1>7. Consistent(ps2, memory, tickets, ownLoad, withdrawn')
  BY <1>1, <1>3, <1>5, <1>6 DEF Consistent
<1>8. OwnerLive(ownLoad, withdrawn')
  <2> SUFFICES ASSUME ownLoad # NoLoad, <<ownLoad.pool, ownLoad.stamp>> = <<c.pool, c.stamp>>
               PROVE  FALSE
    BY <1>6 DEF OwnerLive
  <2>1. PICK d : d = ClaimOf(Owner, ownLoad.pool, ownLoad.stamp)
    OBVIOUS
  <2>2. d \in R /\ d.who = Owner /\ d.pool = c.pool /\ d.stamp = c.stamp
    BY <1>1, <1>3, <2>1, OwnersClaim
  <2>3. d = c
    BY <1>3, <1>4, <2>2 DEF Ledger, ReservationsHold
  <2> QED BY <1>4, <2>2, <2>3, OwnerIsNoTicket
<1> QED BY <1>2, <1>5, <1>7, <1>8 DEF IInv

(* The owner reserves a slot for itself. *)
LEMMA OwnerReservesKeeps ==
  ASSUME IInv, NEW n \in PoolName, NEW k \in OwnerKeys[n], OwnerReserves(n, k)
  PROVE  IInv' /\ PoolsNoneReady(pools, pools') /\ OwnerLive(ownLoad', withdrawn')
<1>1. PICK L, R, U, q, ps2, own2, c :
        /\ L = LeasesIn(tickets) /\ R = ReservationsIn(tickets, NoLoad)
        /\ U = UploadedIn(tickets) /\ q = Reserve(pools[n], k) /\ ps2 = [pools EXCEPT ![n] = q]
        /\ own2 = ownLoad' /\ c = ClaimOf(Owner, n, Stamp(q, k, SlotFor(pools[n])))
  OBVIOUS
<1>2. /\ ownLoad = NoLoad /\ CanReserve(pools[n], k) /\ pools' = ps2
      /\ own2 = [pool |-> n, stamp |-> Stamp(pools'[n], k, SlotFor(pools[n]))]
      /\ memory' = memory /\ tickets' = tickets /\ withdrawn' = withdrawn
  BY <1>1 DEF OwnerReserves
<1>3. /\ TicketsTyped(tickets) /\ Ledger(pools, memory, L, R, withdrawn, U) /\ k \in Key
  BY <1>1, <1>2, MoeAssumption DEF IInv, Consistent, PoolName
<1>4. DOMAIN pools = PoolName /\ ps2[n] = q /\ \A m \in PoolName : m # n => ps2[m] = pools[m]
  <2>1. DOMAIN pools = PoolName
    BY <1>3 DEF Ledger, PoolsSound, ByPool
  <2> QED BY <1>1, <2>1
<1>5. /\ Ledger(ps2, memory, L, R \cup {c}, withdrawn, U)
      /\ c \in Claim /\ NoneReady(pools[n], q, Slots(n)) /\ Live(c, withdrawn)
  <2>1. Owner \in Tickets \cup {Owner} /\ Owner \notin U
    BY <1>1, OwnerIsNoTicket DEF UploadedIn
  <2>2. /\ Ledger([pools EXCEPT ![n] = q], memory, L, R \cup {c}, withdrawn, U)
        /\ c \in Claim /\ NoneReady(pools[n], q, Slots(n)) /\ Live(c, withdrawn)
    BY <1>1, <1>2, <1>3, <2>1, SlotReserved
  <2> QED BY <1>1, <2>2
<1>6. /\ own2 \in Load /\ c = ClaimOf(Owner, own2.pool, own2.stamp)
      /\ own2.pool = c.pool /\ own2.stamp = c.stamp
  <2>1. PICK stamp : stamp = Stamp(q, k, SlotFor(pools[n]))
    OBVIOUS
  <2>2. own2 = [pool |-> n, stamp |-> stamp] /\ c = ClaimOf(Owner, n, stamp)
    BY <1>1, <1>2, <1>4, <2>1
  <2>3. stamp \in PageStamp /\ c.pool = n /\ c.stamp = stamp
    BY <1>5, <2>2, ClaimFields
  <2> QED BY <2>2, <2>3 DEF Load
<1>7. ReservationsIn(tickets, own2) = R \cup {c}
  <2>1. ReservationsIn(tickets, own2) = AllClaims(ReservationsIn(tickets, NoLoad), {c})
    BY <1>6, OwnersClaim
  <2> QED BY <1>1, <2>1 DEF AllClaims
<1>8. Consistent(ps2, memory, tickets, own2, withdrawn)
  BY <1>1, <1>3, <1>5, <1>6, <1>7 DEF Consistent
<1>9. PoolsNoneReady(pools, ps2)
  BY <1>4, <1>5 DEF PoolsNoneReady, NoneReady
<1>10. OwnerLive(own2, withdrawn)
  BY <1>5, <1>6 DEF OwnerLive, Live
<1> QED BY <1>1, <1>2, <1>8, <1>9, <1>10 DEF IInv

(* The owner gives its reservation back. *)
LEMMA OwnerCancelsKeeps ==
  ASSUME IInv, OwnerLive(ownLoad, withdrawn), OwnerCancels
  PROVE  IInv' /\ PoolsNoneReady(pools, pools') /\ OwnerLive(ownLoad', withdrawn')
<1>1. PICK L, R, U, own, c, q, ps2 :
        /\ L = LeasesIn(tickets) /\ R = ReservationsIn(tickets, ownLoad)
        /\ U = UploadedIn(tickets) /\ own = ownLoad /\ c = ClaimOf(Owner, own.pool, own.stamp)
        /\ q = Cancel(pools[own.pool], own.stamp.slot) /\ ps2 = [pools EXCEPT ![own.pool] = q]
  OBVIOUS
<1>2. /\ own # NoLoad /\ pools' = ps2 /\ ownLoad' = NoLoad
      /\ memory' = memory /\ tickets' = tickets /\ withdrawn' = withdrawn
  BY <1>1 DEF OwnerCancels
<1>3. /\ TicketsTyped(tickets) /\ own \in Load
      /\ Ledger(pools, memory, L, R, withdrawn, U)
  BY <1>1, <1>2 DEF IInv, Consistent
<1>4. c \in R /\ c.who = Owner /\ c.pool = own.pool /\ c.stamp = own.stamp
  BY <1>1, <1>3, OwnersClaim
<1>5. Holds(pools[c.pool], c.stamp)
  BY <1>1, <1>2, <1>3, <1>4 DEF OwnerLive, Live, Ledger, ReservationsHold
<1>6. Ledger(ps2, memory, L, R \ {c}, withdrawn, U) /\ PoolsNoneReady(pools, ps2)
  <2>1. ps2 = CancelledAt(pools, c)
    BY <1>1, <1>4 DEF CancelledAt
  <2>2. Ledger(ps2, memory, L, Without(R, c), withdrawn, U) /\ PoolsNoneReady(pools, ps2)
    BY <1>3, <1>4, <1>5, <2>1, ClaimCancelled
  <2> QED BY <2>2 DEF Without
<1>7. ReservationsIn(tickets, NoLoad) = R \ {c}
  <2>1. ReservationsIn(tickets, NoLoad) = Without(ReservationsIn(tickets, own), c)
    BY <1>1, <1>3, OwnersClaim
  <2> QED BY <1>1, <2>1 DEF Without
<1>8. Consistent(ps2, memory, tickets, NoLoad, withdrawn)
  BY <1>1, <1>3, <1>6, <1>7 DEF Consistent
<1> QED BY <1>2, <1>6, <1>8 DEF IInv, OwnerLive

(* The owner's page becomes visible, and no page a ticket is loading does. *)
LEMMA OwnerMarksKeeps ==
  ASSUME IInv, OwnerLive(ownLoad, withdrawn), OwnerMarksReady
  PROVE  /\ IInv' /\ OwnerLive(ownLoad', withdrawn')
         /\ \A c \in ReservationsIn(tickets, ownLoad) : c.who \in Tickets /\ Live(c, withdrawn) =>
              pools'[c.pool].state[c.stamp.slot] # Ready(c.stamp.key)
<1>1. PICK L, R, U, own, c, n, s, k, q, ps2, mem2 :
        /\ L = LeasesIn(tickets) /\ R = ReservationsIn(tickets, ownLoad)
        /\ U = UploadedIn(tickets) /\ own = ownLoad /\ c = ClaimOf(Owner, own.pool, own.stamp)
        /\ n = own.pool /\ s = own.stamp.slot /\ k = own.stamp.key
        /\ q = MarkReady(pools[n], s, k) /\ ps2 = [pools EXCEPT ![n] = q] /\ mem2 = memory'
  OBVIOUS
<1>2. /\ own # NoLoad /\ pools' = ps2 /\ ownLoad' = NoLoad /\ mem2 = [memory EXCEPT ![n][s] = k]
      /\ tickets' = tickets /\ withdrawn' = withdrawn
  BY <1>1 DEF OwnerMarksReady
<1>3. /\ TicketsTyped(tickets) /\ own \in Load
      /\ Ledger(pools, memory, L, R, withdrawn, U)
  BY <1>1, <1>2 DEF IInv, Consistent
<1>4. c \in R /\ c.who = Owner /\ c.pool = n /\ c.stamp = own.stamp /\ c.stamp.slot = s /\ c.stamp.key = k
  BY <1>1, <1>3, OwnersClaim
<1>5. Holds(pools[n], c.stamp)
  BY <1>1, <1>2, <1>3, <1>4 DEF OwnerLive, Live, Ledger, ReservationsHold
<1>6. n \in PoolName /\ s \in 1..Slots(n) /\ k \in Key /\ Slots(n) \in Nat /\ Sound(pools[n], Slots(n))
  <2>1. c \in Claim /\ s \in 1..Slots(n)
    BY <1>3, <1>4 DEF Ledger, ReservationsHold
  <2>2. n \in PoolName /\ k \in Key
    BY <1>4, <2>1 DEF Claim, PageStamp
  <2> QED BY <1>3, <2>1, <2>2, SlotsType DEF Ledger, PoolsSound
<1>7. /\ Sound(q, Slots(n)) /\ OthersKept(pools[n], q, Slots(n), s)
      /\ q.state[s] = Ready(k) /\ q.pins[s] = 0 /\ q.generation[s] = pools[n].generation[s]
  <2>1. pools[n].state[s] = Loading(k)
    BY <1>4, <1>5, HoldsSlot
  <2> QED BY <1>1, <1>6, <2>1, MarkedReady
<1>8. ByPool(mem2) /\ mem2[n][s] = k /\ Stored(memory, mem2, n, s)
  <2>1. ByPool(memory) /\ \A m \in PoolName : DOMAIN memory[m] = 1..Slots(m)
    BY <1>3 DEF Ledger, PoolsSound
  <2>2. DOMAIN memory = PoolName
    BY <2>1 DEF ByPool
  <2>3. PICK f : f = memory[n]
    OBVIOUS
  <2>4. PICK h : h = [f EXCEPT ![s] = k]
    OBVIOUS
  <2>5. DOMAIN h = 1..Slots(n) /\ h[s] = k /\ \A u \in 1..Slots(n) : u # s => h[u] = f[u]
    BY <1>6, <2>1, <2>3, <2>4
  <2>6. mem2 = [memory EXCEPT ![n] = h]
    BY <1>2, <2>3, <2>4
  <2>7. mem2[n] = h /\ DOMAIN mem2 = PoolName /\ \A m \in PoolName : m # n => mem2[m] = memory[m]
    BY <1>6, <2>2, <2>6
  <2>8. ByPool(mem2)
    BY <2>2, <2>6 DEF ByPool
  <2> QED BY <2>1, <2>3, <2>5, <2>7, <2>8 DEF Stored
<1>9. Ledger(ps2, mem2, L, R \ {c}, withdrawn, U)
  <2>1. LeasedAs(L, L, c, q.pins[s])
    BY <1>7 DEF LeasedAs
  <2>2. /\ n = c.pool /\ s = c.stamp.slot /\ q.state[s] = Ready(c.stamp.key)
        /\ mem2[n][s] = c.stamp.key
    BY <1>4, <1>7, <1>8
  <2>3. Ledger([pools EXCEPT ![n] = q], mem2, L, R \ {c}, withdrawn, U)
    BY <1>3, <1>4, <1>5, <1>7, <1>8, <2>1, <2>2, SlotVisible
  <2> QED BY <1>1, <2>3
<1>10. ReservationsIn(tickets, NoLoad) = R \ {c}
  <2>1. ReservationsIn(tickets, NoLoad) = Without(ReservationsIn(tickets, own), c)
    BY <1>1, <1>3, OwnersClaim
  <2> QED BY <1>1, <2>1 DEF Without
<1>11. Consistent(ps2, mem2, tickets, NoLoad, withdrawn)
  BY <1>1, <1>3, <1>9, <1>10 DEF Consistent
<1>12. ASSUME NEW d \in R, d.who \in Tickets, Live(d, withdrawn)
       PROVE  ps2[d.pool].state[d.stamp.slot] # Ready(d.stamp.key)
  <2>1. d \in ReservationsIn(tickets, NoLoad)
    BY <1>4, <1>10, <1>12, OwnerIsNoTicket
  <2> QED BY <1>11, <1>12, <2>1, StillWaits
<1> QED BY <1>1, <1>2, <1>11, <1>12 DEF IInv, OwnerLive

-----------------------------------------------------------------------------
(* The invariant of the specification *)

Inv == IInv /\ OwnerLive(ownLoad, withdrawn)

(* Two empty pools, no ticket and no reservation. *)
LEMMA InitInv == Init => Inv
<1> SUFFICES ASSUME Init PROVE Inv
  OBVIOUS
<1>1. PICK L, R, U : /\ L = LeasesIn(tickets) /\ R = ReservationsIn(tickets, ownLoad)
                     /\ U = UploadedIn(tickets)
  OBVIOUS
<1>2. /\ pools = [n \in PoolName |-> NewPool(Slots(n))]
      /\ memory = [n \in PoolName |-> [s \in SlotsOf(pools[n]) |-> NoKey]]
      /\ tickets = [t \in Tickets |-> NoTicket] /\ ownLoad = NoLoad /\ withdrawn = {}
  BY DEF Init, Slots
<1>3. NoTicket \in Ticket /\ Range(NoTicket.pages) = {} /\ ~NoTicket.uploaded /\ DOMAIN NoTicket.pages = {}
  <2>1. NoTicket.pages = << >> /\ << >> \in Seq(PageType) /\ DOMAIN << >> = {}
    BY DEF NoTicket
  <2> QED BY <2>1 DEF NoTicket, Ticket, Range
<1>4. TicketsTyped(tickets)
  BY <1>2, <1>3 DEF TicketsTyped
<1>5. L = {} /\ R = {} /\ U = {}
  <2>1. \A t \in Tickets : tickets[t] = NoTicket
    BY <1>2
  <2>2. L = {}
    BY <1>1, <1>3, <2>1 DEF LeasesIn, Held
  <2>3. R = {}
    BY <1>1, <1>2, <1>3, <2>1 DEF ReservationsIn, Awaited
  <2>4. U = {}
    BY <1>1, <1>3, <2>1 DEF UploadedIn
  <2> QED BY <2>2, <2>3, <2>4
<1>6. ASSUME NEW n \in PoolName
      PROVE  /\ Sound(pools[n], Slots(n)) /\ DOMAIN memory[n] = 1..Slots(n)
             /\ \A s \in 1..Slots(n) : pools[n].state[s] = Empty /\ pools[n].pins[s] = 0
  <2>1. Slots(n) \in Nat /\ pools[n] = NewPool(Slots(n))
    BY <1>2, SlotsType
  <2>2. /\ Sound(pools[n], Slots(n))
        /\ \A s \in 1..Slots(n) : pools[n].state[s] = Empty /\ pools[n].pins[s] = 0
    BY <2>1, NewPoolIsSound
  <2>3. SlotsOf(pools[n]) = 1..Slots(n)
    BY <2>1, <2>2, SlotsOfPool DEF Sound
  <2> QED BY <1>2, <2>2, <2>3
<1>7. PoolsSound(pools, memory)
  <2>1. ByPool(pools) /\ ByPool(memory)
    BY <1>2 DEF ByPool
  <2> QED BY <1>6, <2>1 DEF PoolsSound
<1>8. LeasesHold(pools, L) /\ ReservationsHold(pools, R, withdrawn) /\ WithdrawnPast(pools, withdrawn)
  BY <1>2, <1>5 DEF LeasesHold, ReservationsHold, WithdrawnPast
<1>9. PinsCount(pools, L)
  <2>1. \A n, s : Holders(L, n, s) = {}
    BY <1>5 DEF Holders
  <2> QED BY <1>6, <2>1, FS_EmptySet DEF PinsCount
<1>10. LoadingOwned(pools, R, withdrawn) /\ BytesInPlace(pools, memory, R, U)
  BY <1>5, <1>6, StatesDiffer DEF LoadingOwned, BytesInPlace
<1>11. Ledger(pools, memory, L, R, withdrawn, U)
  BY <1>7, <1>8, <1>9, <1>10 DEF Ledger
<1> QED BY <1>1, <1>2, <1>4, <1>11 DEF Inv, IInv, Consistent, OwnerLive

(* A ticket's page becomes visible only with all the others of its ticket. *)
TogetherOnly ==
  \A t \in Tickets : (\E g \in LoadsOf(t) : BecomesReady(g)) => \A g \in LoadsOf(t) : BecomesReady(g)

(* Nothing becomes visible. *)
LEMMA NothingVisible ==
  ASSUME IInv, PoolsNoneReady(pools, pools')
  PROVE  TogetherOnly
<1>1. ASSUME NEW t \in Tickets, NEW g \in LoadsOf(t), BecomesReady(g) PROVE FALSE
  <2>1. Holds(pools[g.pool], g.stamp) /\ pools'[g.pool].state[g.stamp.slot] = Ready(g.stamp.key)
    BY <1>1 DEF BecomesReady
  <2>2. PICK c : c = ClaimOf(t, g.pool, g.stamp)
    OBVIOUS
  <2>3. c \in ReservationsIn(tickets, ownLoad) /\ c.pool = g.pool /\ c.stamp = g.stamp
    BY <1>1, <2>1, <2>2, LoadIsClaim, ClaimFields
  <2>4. /\ g.pool \in PoolName /\ g.stamp.slot \in 1..Slots(g.pool) /\ g.stamp.key \in Key
    BY <2>3 DEF IInv, Consistent, Ledger, ReservationsHold, Claim, PageStamp
  <2>5. pools[g.pool].state[g.stamp.slot] = Ready(g.stamp.key)
    BY <2>1, <2>4 DEF PoolsNoneReady, NoneReady
  <2> QED BY <2>1, <2>5, HoldsSlot
<1> QED BY <1>1 DEF TogetherOnly

(* Only the pages of ticket t become visible, all of them. *)
LEMMA PublicationVisible ==
  ASSUME IInv, NEW t \in Tickets, PublishBatch(t)
  PROVE  TogetherOnly
<1>1. /\ IInv' /\ withdrawn' = withdrawn
      /\ \A g \in LoadsOf(t) : BecomesReady(g)
      /\ ReservationsIn(tickets', ownLoad') = {c \in ReservationsIn(tickets, ownLoad) : c.who # t}
  BY PublishKeeps DEF BecomesReady, PublishBatch
<1>2. ASSUME NEW u \in Tickets, u # t, NEW g \in LoadsOf(u), BecomesReady(g) PROVE FALSE
  <2>1. Holds(pools[g.pool], g.stamp) /\ pools'[g.pool].state[g.stamp.slot] = Ready(g.stamp.key)
    BY <1>2 DEF BecomesReady
  <2>2. PICK c : c = ClaimOf(u, g.pool, g.stamp)
    OBVIOUS
  <2>3. /\ c \in ReservationsIn(tickets, ownLoad) /\ Live(c, withdrawn)
        /\ c.who = u /\ c.pool = g.pool /\ c.stamp = g.stamp
    BY <1>2, <2>1, <2>2, LoadIsClaim, ClaimFields
  <2>4. c \in ReservationsIn(tickets', ownLoad') /\ Live(c, withdrawn')
    BY <1>1, <1>2, <2>3
  <2>5. Consistent(pools', memory', tickets', ownLoad', withdrawn')
    BY <1>1 DEF IInv
  <2>6. pools'[c.pool].state[c.stamp.slot] # Ready(c.stamp.key)
    BY <2>4, <2>5, StillWaits
  <2> QED BY <2>1, <2>3, <2>6
<1> QED BY <1>1, <1>2 DEF TogetherOnly

(* The owner's publication makes no page of a ticket visible. *)
LEMMA OwnerVisible ==
  ASSUME Inv, OwnerMarksReady
  PROVE  TogetherOnly
<1>1. ASSUME NEW t \in Tickets, NEW g \in LoadsOf(t), BecomesReady(g) PROVE FALSE
  <2>1. Holds(pools[g.pool], g.stamp) /\ pools'[g.pool].state[g.stamp.slot] = Ready(g.stamp.key)
    BY <1>1 DEF BecomesReady
  <2>2. PICK c : c = ClaimOf(t, g.pool, g.stamp)
    OBVIOUS
  <2>3. /\ c \in ReservationsIn(tickets, ownLoad) /\ Live(c, withdrawn)
        /\ c.who = t /\ c.pool = g.pool /\ c.stamp = g.stamp
    BY <1>1, <2>1, <2>2, LoadIsClaim, ClaimFields DEF Inv
  <2>4. pools'[c.pool].state[c.stamp.slot] # Ready(c.stamp.key)
    BY <2>3, OwnerMarksKeeps DEF Inv
  <2> QED BY <2>1, <2>3, <2>4
<1> QED BY <1>1 DEF TogetherOnly

(* Every step keeps the invariant, and publishes a ticket's pages together. *)
LEMMA NextInv == Inv /\ [Next]_vars => Inv' /\ TogetherOnly
<1> SUFFICES ASSUME Inv, [Next]_vars PROVE Inv' /\ TogetherOnly
  OBVIOUS
<1>1. IInv /\ OwnerLive(ownLoad, withdrawn)
  BY DEF Inv
<1>2. ASSUME ownLoad' = ownLoad, withdrawn' \subseteq withdrawn PROVE OwnerLive(ownLoad', withdrawn')
  BY <1>1, <1>2 DEF OwnerLive
<1>3. ASSUME NEW t \in Tickets, NEW r \in Routes, NEW whole \in BOOLEAN, BeginBatch(t, r, whole)
      PROVE  Inv' /\ TogetherOnly
  <2>1. IInv' /\ PoolsNoneReady(pools, pools')
    BY <1>1, <1>3, BeginKeeps
  <2>2. ownLoad' = ownLoad /\ withdrawn' = withdrawn
    BY <1>3 DEF BeginBatch
  <2> QED BY <1>1, <1>2, <2>1, <2>2, NothingVisible DEF Inv
<1>4. ASSUME NEW t \in Tickets, NEW r \in Routes, NEW whole \in BOOLEAN, BeginFails(t, r, whole)
      PROVE  Inv' /\ TogetherOnly
  <2>1. IInv' /\ PoolsNoneReady(pools, pools')
    BY <1>1, <1>4, BeginFailsKeeps
  <2>2. ownLoad' = ownLoad /\ withdrawn' = withdrawn
    BY <1>4 DEF BeginFails
  <2> QED BY <1>1, <1>2, <2>1, <2>2, NothingVisible DEF Inv
<1>5. ASSUME NEW t \in Tickets, TransferFence(t) PROVE Inv' /\ TogetherOnly
  <2>1. IInv' /\ PoolsNoneReady(pools, pools') /\ ownLoad' = ownLoad /\ withdrawn' = withdrawn
    BY <1>1, <1>5, FenceKeeps
  <2> QED BY <1>1, <1>2, <2>1, NothingVisible DEF Inv
<1>6. ASSUME NEW t \in Tickets, PublishBatch(t) PROVE Inv' /\ TogetherOnly
  <2>1. IInv' /\ TogetherOnly
    BY <1>1, <1>6, PublishKeeps, PublicationVisible
  <2>2. ownLoad' = ownLoad /\ withdrawn' = withdrawn
    BY <1>6 DEF PublishBatch
  <2> QED BY <1>2, <2>1, <2>2 DEF Inv
<1>7. ASSUME NEW t \in Tickets, PublishFails(t) \/ CancelBatch(t) PROVE Inv' /\ TogetherOnly
  <2>1. /\ IInv' /\ PoolsNoneReady(pools, pools')
        /\ ownLoad' = ownLoad /\ withdrawn' \subseteq withdrawn
    BY <1>1, <1>7, RollbackKeeps
  <2> QED BY <1>1, <1>2, <2>1, NothingVisible DEF Inv
<1>8. ASSUME NEW t \in Tickets, ReleaseBatch(t) PROVE Inv' /\ TogetherOnly
  <2>1. /\ IInv' /\ PoolsNoneReady(pools, pools')
        /\ ownLoad' = ownLoad /\ withdrawn' \subseteq withdrawn
    BY <1>1, <1>8, ReleaseKeeps
  <2> QED BY <1>1, <1>2, <2>1, NothingVisible DEF Inv
<1>9. ASSUME NEW t \in Tickets, NEW g \in LoadsOf(t), OwnerWithdraws(t, g) PROVE Inv' /\ TogetherOnly
  <2>1. IInv' /\ PoolsNoneReady(pools, pools') /\ OwnerLive(ownLoad', withdrawn')
    BY <1>1, <1>9, WithdrawKeeps
  <2> QED BY <1>1, <2>1, NothingVisible DEF Inv
<1>10. ASSUME NEW n \in PoolName, NEW k, OwnerLookup(n, k) PROVE Inv' /\ TogetherOnly
  <2>1. IInv' /\ PoolsNoneReady(pools, pools') /\ ownLoad' = ownLoad /\ withdrawn' = withdrawn
    BY <1>1, <1>10, LookupKeeps
  <2> QED BY <1>1, <1>2, <2>1, NothingVisible DEF Inv
<1>11. ASSUME NEW n \in PoolName, NEW k \in OwnerKeys[n], OwnerReserves(n, k) PROVE Inv' /\ TogetherOnly
  <2>1. IInv' /\ PoolsNoneReady(pools, pools') /\ OwnerLive(ownLoad', withdrawn')
    BY <1>1, <1>11, OwnerReservesKeeps
  <2> QED BY <1>1, <2>1, NothingVisible DEF Inv
<1>12. ASSUME OwnerMarksReady PROVE Inv' /\ TogetherOnly
  <2>1. IInv' /\ OwnerLive(ownLoad', withdrawn')
    BY <1>1, <1>12, OwnerMarksKeeps
  <2> QED BY <1>12, <2>1, OwnerVisible DEF Inv
<1>13. ASSUME OwnerCancels PROVE Inv' /\ TogetherOnly
  <2>1. IInv' /\ PoolsNoneReady(pools, pools') /\ OwnerLive(ownLoad', withdrawn')
    BY <1>1, <1>13, OwnerCancelsKeeps
  <2> QED BY <1>1, <2>1, NothingVisible DEF Inv
<1>14. ASSUME UNCHANGED vars PROVE Inv' /\ TogetherOnly
  <2>1. /\ pools' = pools /\ memory' = memory /\ tickets' = tickets
        /\ ownLoad' = ownLoad /\ withdrawn' = withdrawn
    BY <1>14 DEF vars
  <2>2. Inv'
    BY <1>1, <2>1 DEF Inv, IInv
  <2>3. PoolsNoneReady(pools, pools')
    BY <2>1 DEF PoolsNoneReady, NoneReady
  <2> QED BY <1>1, <2>2, <2>3, NothingVisible
<1> QED BY <1>3, <1>4, <1>5, <1>6, <1>7, <1>8, <1>9, <1>10, <1>11, <1>12, <1>13, <1>14 DEF Next

(* Invariance of what the tickets and the pool owner hold: in every reachable
   state both pools are sound, with exactly the pins and the Loading slots that
   the outstanding leases and reservations account for. *)
THEOREM Invariance == Spec => []Inv
<1>1. Inv /\ [Next]_vars => Inv'
  BY NextInv
<1> QED BY <1>1, InitInv, PTL DEF Spec

(* "No page is published until both pools pass generation preflight": the pages
   a ticket loads become visible in one step, all of them or none. *)
THEOREM PublishedTogether == Spec => AllOrNothing
<1>1. Inv /\ [Next]_vars => [TogetherOnly]_vars
  BY NextInv
<1> QED BY <1>1, Invariance, PTL DEF Spec, AllOrNothing, TogetherOnly

-----------------------------------------------------------------------------
(* What the invariant says of the pools *)

(* Each pool of a state of the system is sound. *)
LEMMA PoolSound == ASSUME Inv, NEW n \in PoolName
                   PROVE  /\ Slots(n) \in Nat /\ Sound(pools[n], Slots(n))
                          /\ SlotsOf(pools[n]) = 1..Slots(n)
<1>1. Slots(n) \in Nat /\ Sound(pools[n], Slots(n))
  BY SlotsType DEF Inv, IInv, Consistent, Ledger, PoolsSound
<1> QED BY <1>1, SlotsOfPool DEF Sound

(* The invariant implies that each index names exactly the Ready pages. *)
LEMMA IndexFollows == Inv => IndexExact
<1> SUFFICES ASSUME Inv, NEW n \in PoolName, NEW p, p = pools[n],
                    NEW busy, busy = {s \in SlotsOf(p) : p.state[s] # Empty}
             PROVE  /\ \A k \in DOMAIN p.index : p.state[p.index[k]] = Ready(k)
                    /\ \A s \in busy : p.state[s].tag = "Ready" => p.index[p.state[s].key] = s
                    /\ \A s1, s2 \in busy : p.state[s1].key = p.state[s2].key => s1 = s2
                    /\ p.n_loaded = Cardinality(busy)
  BY DEF IndexExact
<1>1. /\ Slots(n) \in Nat /\ Sound(p, Slots(n)) /\ SlotsOf(p) = 1..Slots(n)
  BY PoolSound
<1>2. /\ \A s \in 1..Slots(n), k \in Key : p.state[s] = Ready(k) => Visible(p, k) /\ p.index[k] = s
      /\ \A k : Visible(p, k) => p.state[p.index[k]] = Ready(k)
      /\ \A s \in 1..Slots(n), k \in Key : p.state[s] = Loading(k) =>
           ~Visible(p, k) /\ \A u \in 1..Slots(n) : p.state[u] = Loading(k) => u = s
  BY <1>1, SoundSlots
<1>3. \A s \in busy : /\ s \in 1..Slots(n) /\ p.state[s] \in SlotState
                      /\ p.state[s].key \in Key
                      /\ p.state[s] = Loading(p.state[s].key) \/ p.state[s] = Ready(p.state[s].key)
  <2> SUFFICES ASSUME NEW s \in busy
               PROVE  /\ s \in 1..Slots(n) /\ p.state[s] \in SlotState
                      /\ p.state[s].key \in Key
                      /\ p.state[s] = Loading(p.state[s].key) \/ p.state[s] = Ready(p.state[s].key)
    OBVIOUS
  <2>1. s \in 1..Slots(n) /\ p.state[s] # Empty
    BY <1>1
  <2>2. p.state[s] \in SlotState
    BY <1>1, <2>1, SlotsOfPool DEF Sound
  <2>3. PICK k \in Key : p.state[s] = Loading(k) \/ p.state[s] = Ready(k)
    BY <2>1, <2>2, SlotStates
  <2> QED BY <2>1, <2>2, <2>3, Tags
<1>4. \A k \in DOMAIN p.index : p.state[p.index[k]] = Ready(k)
  BY <1>2 DEF Visible
<1>5. \A s \in busy : p.state[s].tag = "Ready" => p.index[p.state[s].key] = s
  BY <1>2, <1>3, Tags
<1>6. \A s1, s2 \in busy : p.state[s1].key = p.state[s2].key => s1 = s2
  <2> SUFFICES ASSUME NEW s \in busy, NEW u \in busy, NEW k, k = p.state[s].key, k = p.state[u].key
               PROVE  s = u
    OBVIOUS
  <2>1. /\ s \in 1..Slots(n) /\ u \in 1..Slots(n) /\ k \in Key
        /\ p.state[s] = Loading(k) \/ p.state[s] = Ready(k)
        /\ p.state[u] = Loading(k) \/ p.state[u] = Ready(k)
    BY <1>3
  <2> QED BY <1>2, <2>1
<1>7. p.n_loaded = Cardinality(busy)
  BY <1>1 DEF Sound, Busy
<1> QED BY <1>4, <1>5, <1>6, <1>7

(* The invariant implies that the pins of a slot are the tickets that lease
   it. *)
LEMMA PinsFollow == Inv => PinsAreLeases
<1> SUFFICES ASSUME Inv, NEW n \in PoolName, NEW s \in SlotsOf(pools[n])
             PROVE  pools[n].pins[s] = Cardinality(Pinners(n, s))
  BY DEF PinsAreLeases
<1>1. PICK L : L = LeasesIn(tickets)
  OBVIOUS
<1>2. s \in 1..Slots(n)
  BY PoolSound
<1>3. pools[n].pins[s] = Cardinality(Holders(L, n, s))
  BY <1>1, <1>2 DEF Inv, IInv, Consistent, Ledger, PinsCount
<1>4. ASSUME NEW t \in Tickets PROVE t \in Holders(L, n, s) <=> t \in Pinners(n, s)
  <2>1. ASSUME t \in Holders(L, n, s) PROVE t \in Pinners(n, s)
    <3>1. PICK c \in L : c.who = t /\ At(c, n, s)
      BY <2>1 DEF Holders
    <3>2. Held(tickets[t], c)
      BY <1>1, <3>1 DEF LeasesIn
    <3> QED BY <3>1, <3>2 DEF Held, At, Pinners, PagesOf
  <2>2. ASSUME t \in Pinners(n, s) PROVE t \in Holders(L, n, s)
    <3>1. PICK g \in PagesOf(t) : /\ g.pool = n /\ g.stamp.slot = s
                                  /\ g.hit \/ tickets[t].status = "leased"
      BY <2>2 DEF Pinners
    <3>2. PICK c : c = ClaimOf(t, g.pool, g.stamp)
      OBVIOUS
    <3>3. g \in PageType
      BY <3>1, PagesTyped DEF PagesOf, Inv, IInv, Consistent
    <3>4. c \in Claim /\ c.who = t /\ c.pool = g.pool /\ c.stamp = g.stamp
      BY <3>2, <3>3 DEF ClaimOf, Claim, PageType
    <3>5. Held(tickets[t], c)
      BY <3>1, <3>4 DEF Held, PagesOf
    <3>6. c \in L
      BY <1>1, <3>4, <3>5 DEF LeasesIn
    <3> QED BY <3>1, <3>4, <3>6 DEF Holders, At
  <2> QED BY <2>1, <2>2
<1>5. Holders(L, n, s) = Pinners(n, s)
  BY <1>4 DEF Holders, Pinners
<1> QED BY <1>3, <1>5

(* The invariant implies that leased pages are Ready where they were leased,
   with their bytes. *)
LEMMA LeasesFollow == Inv => LeasedPagesStay
<1> SUFFICES ASSUME Inv, NEW t \in Tickets, NEW g \in PagesOf(t),
                    g.hit \/ tickets[t].status = "leased"
             PROVE  /\ Bound(pools[g.pool], g.stamp)
                    /\ memory[g.pool][g.stamp.slot] = g.stamp.key
  BY DEF LeasedPagesStay
<1>1. PICK L, c : L = LeasesIn(tickets) /\ c = ClaimOf(t, g.pool, g.stamp)
  OBVIOUS
<1>2. g \in PageType
  BY PagesTyped DEF PagesOf, Inv, IInv, Consistent
<1>3. c \in Claim /\ c.who = t /\ c.pool = g.pool /\ c.stamp = g.stamp
  BY <1>1, <1>2 DEF ClaimOf, Claim, PageType
<1>4. c \in L
  BY <1>1, <1>3 DEF LeasesIn, Held, PagesOf
<1>5. /\ LeasesHold(pools, L) /\ PinsCount(pools, L)
      /\ \A n \in PoolName : \A s \in 1..Slots(n) : \A k \in Key :
           pools[n].state[s] = Ready(k) => memory[n][s] = k
  BY <1>1 DEF Inv, IInv, Consistent, Ledger, BytesInPlace
<1>6. /\ g.pool \in PoolName /\ g.stamp.slot \in 1..Slots(g.pool) /\ g.stamp.key \in Key
      /\ pools[g.pool].state[g.stamp.slot] = Ready(g.stamp.key)
      /\ pools[g.pool].generation[g.stamp.slot] = g.stamp.generation
  BY <1>2, <1>3, <1>4, <1>5 DEF LeasesHold, PageType, PageStamp
<1>7. pools[g.pool].pins[g.stamp.slot] > 0
  <2>1. PICK H : H = Holders(L, g.pool, g.stamp.slot)
    OBVIOUS
  <2>2. t \in H
    BY <1>3, <1>4, <2>1 DEF Holders, At
  <2>3. Cardinality(H) \in Nat /\ Cardinality(H) # 0
    BY <2>1, <2>2, HoldersFinite
  <2>4. pools[g.pool].pins[g.stamp.slot] = Cardinality(H)
    BY <1>5, <1>6, <2>1 DEF PinsCount
  <2> QED BY <2>3, <2>4
<1>8. memory[g.pool][g.stamp.slot] = g.stamp.key
  BY <1>5, <1>6
<1> QED BY <1>6, <1>7, <1>8 DEF Bound

(* The invariant implies that a slot is Loading exactly when one live
   reservation owns it. *)
LEMMA ReservationsFollow == Inv => ReservationsOwnSlots
<1> SUFFICES ASSUME Inv PROVE ReservationsOwnSlots
  OBVIOUS
<1>1. PICK L, R : L = LeasesIn(tickets) /\ R = ReservationsIn(tickets, ownLoad)
  OBVIOUS
<1>2. /\ ReservationsHold(pools, R, withdrawn) /\ LoadingOwned(pools, R, withdrawn)
      /\ TicketsTyped(tickets) /\ ownLoad \in Load \cup {NoLoad}
  BY <1>1 DEF Inv, IInv, Consistent, Ledger
<1>0. \A x : x \in Reservations <=>
        \/ \E t \in Tickets : tickets[t].status = "loading" /\ x \in Loads(t)
        \/ ownLoad # NoLoad /\ x = <<ownLoad.pool, ownLoad.stamp>>
  <2> DEFINE A == UNION {Loads(t) : t \in {u \in Tickets : tickets[u].status = "loading"}}
             y == <<ownLoad.pool, ownLoad.stamp>>
  <2>1. Reservations = A \cup (IF ownLoad = NoLoad THEN {} ELSE {y})
    BY DEF Reservations
  <2>2. \A x : x \in A <=> \E t \in Tickets : tickets[t].status = "loading" /\ x \in Loads(t)
    OBVIOUS
  <2>3. y = <<ownLoad.pool, ownLoad.stamp>>
    OBVIOUS
  <2> HIDE DEF A, y
  <2>4. \A x : x \in Reservations <=> x \in A \/ (ownLoad # NoLoad /\ x = y)
    BY <2>1
  <2> QED BY <2>2, <2>3, <2>4
<1>3. ASSUME NEW x \in Reservations
      PROVE  \E c \in R : x = <<c.pool, c.stamp>>
  <2>1. CASE \E t \in Tickets : tickets[t].status = "loading" /\ x \in Loads(t)
    <3>1. PICK t \in Tickets : tickets[t].status = "loading" /\ x \in Loads(t)
      BY <2>1
    <3>2. PICK g \in LoadsOf(t) : x = <<g.pool, g.stamp>>
      BY <3>1 DEF Loads
    <3>3. g \in Range(tickets[t].pages) /\ ~g.hit
      BY <3>2 DEF LoadsOf, PagesOf
    <3>4. Covers(L, R, t, Range(tickets[t].pages))
      BY <1>1, <1>2, <3>1, LoadingCovers
    <3>5. ClaimOf(t, g.pool, g.stamp) \in R
      BY <3>3, <3>4 DEF Covers
    <3> QED BY <3>2, <3>5, ClaimFields
  <2>2. CASE ownLoad # NoLoad /\ x = <<ownLoad.pool, ownLoad.stamp>>
    <3>1. PICK c : c = ClaimOf(Owner, ownLoad.pool, ownLoad.stamp)
      OBVIOUS
    <3>2. ownLoad \in Load
      BY <1>2, <2>2
    <3>3. c \in R /\ c.pool = ownLoad.pool /\ c.stamp = ownLoad.stamp
      BY <1>1, <3>1, <3>2, OwnersClaim
    <3> QED BY <2>2, <3>3
  <2> QED BY <1>0, <2>1, <2>2
<1>4. ASSUME NEW c \in R PROVE <<c.pool, c.stamp>> \in Reservations
  <2>1. c \in Claim
    BY <1>1, ClaimsAreClaims
  <2>2. CASE c.who \in Tickets
    <3>1. Awaited(tickets[c.who], c)
      BY <1>1, <2>2 DEF ReservationsIn
    <3>2. PICK g \in PagesOf(c.who) : g.pool = c.pool /\ g.stamp = c.stamp /\ ~g.hit
      BY <3>1 DEF Awaited, PagesOf
    <3>3. tickets[c.who].status = "loading" /\ g \in LoadsOf(c.who)
      BY <3>1, <3>2 DEF Awaited, LoadsOf
    <3>4. <<c.pool, c.stamp>> \in Loads(c.who)
      BY <3>2, <3>3 DEF Loads
    <3> QED BY <1>0, <2>2, <3>3, <3>4
  <2>3. CASE c.who \notin Tickets
    <3>1. ownLoad # NoLoad /\ c.pool = ownLoad.pool /\ c.stamp = ownLoad.stamp
      BY <1>1, <2>3 DEF ReservationsIn
    <3> QED BY <1>0, <3>1
  <2> QED BY <2>2, <2>3
<1>5. ASSUME NEW x \in Reservations \ withdrawn PROVE Holds(pools[x[1]], x[2])
  <2>1. PICK c \in R : x = <<c.pool, c.stamp>>
    BY <1>3
  <2>2. Live(c, withdrawn) /\ x[1] = c.pool /\ x[2] = c.stamp
    BY <2>1 DEF Live
  <2> QED BY <1>2, <2>2 DEF ReservationsHold
<1>6. ASSUME NEW n \in PoolName, NEW s \in SlotsOf(pools[n]), pools[n].state[s].tag = "Loading"
      PROVE  \E x \in Reservations \ withdrawn : x[1] = n /\ x[2].slot = s
  <2>1. s \in 1..Slots(n)
    BY PoolSound
  <2>2. PICK k \in Key : pools[n].state[s] = Loading(k)
    <3>1. pools[n].state[s] \in SlotState
      BY <2>1, PoolSound, SlotsOfPool DEF Sound
    <3> QED BY <1>6, <3>1, Tags
  <2>3. PICK c \in R : At(c, n, s) /\ Live(c, withdrawn)
    BY <1>2, <2>1, <2>2 DEF LoadingOwned
  <2>4. <<c.pool, c.stamp>> \in Reservations \ withdrawn
    BY <1>4, <2>3 DEF Live
  <2> QED BY <2>3, <2>4 DEF At
<1> QED BY <1>5, <1>6 DEF ReservationsOwnSlots

(* Every slot holds the bytes of some page, or none. *)
MemoryTyped == \A n \in PoolName : memory[n] \in [1..Slots(n) -> Key \cup {NoKey}]

(* VRAM holds pages or nothing at the beginning. *)
LEMMA MemoryTypedInit == Init => MemoryTyped
<1> SUFFICES ASSUME Init, NEW n \in PoolName PROVE memory[n] = [s \in 1..Slots(n) |-> NoKey]
  BY DEF MemoryTyped
<1>1. SlotsOf(pools[n]) = 1..Slots(n)
  BY InitInv, PoolSound
<1> QED BY <1>1 DEF Init

(* Every step writes only pages to VRAM. *)
LEMMA MemoryTypedNext == Inv /\ MemoryTyped /\ [Next]_vars => MemoryTyped'
<1> SUFFICES ASSUME Inv, MemoryTyped, [Next]_vars, NEW n \in PoolName
             PROVE  memory'[n] \in [1..Slots(n) -> Key \cup {NoKey}]
  BY DEF MemoryTyped
<1>1. PICK f, h : f = memory[n] /\ h = memory'[n]
  OBVIOUS
<1>2. DOMAIN memory = PoolName /\ f \in [1..Slots(n) -> Key \cup {NoKey}] /\ TicketsTyped(tickets)
  BY <1>1 DEF MemoryTyped, Inv, IInv, Consistent, Ledger, PoolsSound, ByPool
<1>3. ASSUME NEW t \in Tickets, TransferFence(t) PROVE h \in [1..Slots(n) -> Key \cup {NoKey}]
  <2>1. h = [s \in 1..Slots(n) |->
          IF \E g \in LoadsOf(t) : g.pool = n /\ g.stamp.slot = s /\ Holds(pools[n], g.stamp)
          THEN pools[n].state[s].key ELSE f[s]]
    BY <1>1, <1>2, <1>3 DEF TransferFence
  <2>2. ASSUME NEW s \in 1..Slots(n) PROVE h[s] \in Key \cup {NoKey}
    <3>1. CASE \E g \in LoadsOf(t) : g.pool = n /\ g.stamp.slot = s /\ Holds(pools[n], g.stamp)
      <4>1. PICK g \in LoadsOf(t) : g.pool = n /\ g.stamp.slot = s /\ Holds(pools[n], g.stamp)
        BY <3>1
      <4>2. g \in PageType
        BY <1>2, PagesTyped DEF LoadsOf, PagesOf
      <4>3. g.stamp.key \in Key
        BY <4>2 DEF PageType, PageStamp
      <4>4. pools[n].state[s].key = g.stamp.key
        BY <4>1, HoldsSlot
      <4>5. h[s] = pools[n].state[s].key
        BY <2>1, <3>1
      <4> QED BY <4>3, <4>4, <4>5
    <3>2. CASE ~\E g \in LoadsOf(t) : g.pool = n /\ g.stamp.slot = s /\ Holds(pools[n], g.stamp)
      <4>1. h[s] = f[s]
        BY <2>1, <3>2
      <4> QED BY <1>2, <4>1
    <3> QED BY <3>1, <3>2
  <2>3. h = [s \in 1..Slots(n) |-> h[s]]
    BY <2>1
  <2> QED BY <2>2, <2>3
<1>4. ASSUME OwnerMarksReady PROVE h \in [1..Slots(n) -> Key \cup {NoKey}]
  <2>1. ownLoad \in Load
    BY <1>4 DEF OwnerMarksReady, Inv, IInv, Consistent
  <2>2. PICK m, u, k : m = ownLoad.pool /\ u = ownLoad.stamp.slot /\ k = ownLoad.stamp.key
    OBVIOUS
  <2>3. k \in Key /\ memory' = [memory EXCEPT ![m][u] = k]
    BY <1>4, <2>1, <2>2 DEF OwnerMarksReady, Load, PageStamp
  <2>4. h = f \/ h = [f EXCEPT ![u] = k]
    BY <1>1, <1>2, <2>3
  <2> QED BY <1>2, <2>3, <2>4
<1>5. ASSUME memory' = memory PROVE h \in [1..Slots(n) -> Key \cup {NoKey}]
  BY <1>1, <1>2, <1>5
<1> QED BY <1>1, <1>3, <1>4, <1>5 DEF Next, vars, BeginBatch, BeginFails, PublishBatch, PublishFails,
      CancelBatch, ReleaseBatch, OwnerLookup, OwnerWithdraws, OwnerReserves, OwnerCancels

(* The invariant with the type of the VRAM implies the type invariant. *)
LEMMA TypeFollows == Inv /\ MemoryTyped => TypeOK
<1> SUFFICES ASSUME Inv, MemoryTyped PROVE TypeOK
  OBVIOUS
<1>1. ASSUME NEW n \in PoolName
      PROVE  /\ pools[n].state \in Seq(SlotState)
             /\ pools[n].pins \in [SlotsOf(pools[n]) -> Nat]
             /\ pools[n].generation \in [SlotsOf(pools[n]) -> Nat]
             /\ IsInjective(pools[n].recency)
             /\ Range(pools[n].recency) =
                  {s \in SlotsOf(pools[n]) : pools[n].state[s].tag = "Ready"}
             /\ memory[n] \in [SlotsOf(pools[n]) -> Key \cup {NoKey}]
  <2>1. Slots(n) \in Nat /\ Sound(pools[n], Slots(n)) /\ SlotsOf(pools[n]) = 1..Slots(n)
    BY PoolSound
  <2>2. /\ pools[n].state \in [1..Slots(n) -> SlotState] /\ pools[n].pins \in [1..Slots(n) -> Nat]
        /\ pools[n].generation \in [1..Slots(n) -> Nat]
    BY <2>1 DEF Sound, PoolType
  <2>3. pools[n].state \in Seq(SlotState)
    BY <2>1, <2>2, SeqDef
  <2>4. memory[n] \in [1..Slots(n) -> Key \cup {NoKey}]
    BY DEF MemoryTyped
  <2> QED BY <2>1, <2>2, <2>3, <2>4 DEF Sound, Listed
<1>2. ASSUME NEW t \in Tickets
      PROVE  /\ tickets[t].status \in {"none", "loading", "leased"}
             /\ \A g \in PagesOf(t) : g.pool \in PoolName /\ g.stamp.key \in Key
  <2>1. TicketsTyped(tickets)
    BY DEF Inv, IInv, Consistent
  <2>2. /\ tickets[t].status \in {"none", "loading", "leased"}
        /\ \A g \in PagesOf(t) : g \in PageType
    BY <2>1, PagesTyped DEF PagesOf
  <2> QED BY <2>2 DEF PageType, PageStamp
<1> QED BY <1>1, <1>2 DEF TypeOK

(* The index of each pool is exactly the inverse of its Ready slots, no page is
   in two slots, and n_loaded counts the slots in use: for pools of any size. *)
THEOREM IndexIsExact == Spec => []IndexExact
BY Invariance, IndexFollows, PTL

(* A slot is pinned exactly as often as outstanding tickets lease its page:
   whatever failed or was cancelled, no pin is left behind and none is lost. *)
THEOREM PinsCountLeases == Spec => []PinsAreLeases
BY Invariance, PinsFollow, PTL

(* Until its compute fence a leased page keeps its slot, its generation and its
   bytes: neither eviction nor another ticket's upload reaches it. *)
THEOREM LeasesAreKept == Spec => []LeasedPagesStay
BY Invariance, LeasesFollow, PTL

(* Each Loading slot belongs to a reservation that was not withdrawn, and each
   such reservation still owns its slot: a late cancel or publish of a withdrawn
   ticket cannot touch the slot's next owner. *)
THEOREM LoadingIsReserved == Spec => []ReservationsOwnSlots
BY Invariance, ReservationsFollow, PTL

(* Types: the slots, pins and generations of each pool, the access order of its
   Ready slots, and the bytes and pages behind them. *)
THEOREM TypeCorrect == Spec => []TypeOK
<1>1. Init => Inv /\ MemoryTyped
  BY InitInv, MemoryTypedInit
<1>2. (Inv /\ MemoryTyped) /\ [Next]_vars => (Inv /\ MemoryTyped)'
  BY NextInv, MemoryTypedNext
<1> QED BY <1>1, <1>2, TypeFollows, PTL DEF Spec
=============================================================================
