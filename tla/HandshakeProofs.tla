-------------------------- MODULE HandshakeProofs --------------------------
(***************************************************************************)
(* Proofs about module Handshake, for any number of routers, connections,   *)
(* packets and faults, and connection maps of any size: the two ends of a   *)
(* handshake agree.                                                        *)
(***************************************************************************)
EXTENDS Handshake, ProofFacts

-----------------------------------------------------------------------------
(* The connection map.                                                     *)

IsMap(m) ==
  /\ DOMAIN m = {"max", "size", "cap", "free", "slot"}
  /\ m.cap \in Nat
  /\ DOMAIN m.slot = 0..(m.cap - 1)

Holds(m, i, c) == i \in DOMAIN m.slot /\ m.slot[i].isfull /\ m.slot[i].u = c

LEMMA InitIsMap ==
  ASSUME NEW max
  PROVE  /\ IsMap(connmap_init(max))
         /\ \A i, c : ~Holds(connmap_init(max), i, c)
  BY DEF IsMap, Holds, connmap_init

\* Growing adds empty slots.
LEMMA GrownIsMap ==
  ASSUME NEW m, IsMap(m)
  PROVE  /\ IsMap(Grown(m))
         /\ \A i, c : Holds(Grown(m), i, c) => Holds(m, i, c)
  <1> DEFINE cap == IF m.cap = 0 THEN 1 ELSE 2 * m.cap
             slot == [i \in 0..(cap - 1) |->
                        IF i < m.cap THEN m.slot[i]
                        ELSE Empty(IF i = m.cap THEN NPOS ELSE i - 1)]
  <1>1. cap \in Nat
    BY DEF IsMap
  <1>2. Grown(m) = [m EXCEPT !.cap = cap, !.slot = slot, !.free = cap - 1]
    BY DEF Grown
  <1>3. ASSUME NEW i \in DOMAIN slot, slot[i].isfull
        PROVE  i \in DOMAIN m.slot /\ slot[i] = m.slot[i]
    <2>1. i < m.cap
      BY <1>3 DEF Empty
    <2> QED
      BY <2>1 DEF IsMap
  <1>4. DOMAIN slot = 0..(cap - 1)
    OBVIOUS
  <1> HIDE DEF cap, slot
  <1>5. /\ DOMAIN Grown(m) = DOMAIN m
        /\ Grown(m).cap = cap
        /\ Grown(m).slot = slot
    BY <1>2 DEF IsMap
  <1>6. IsMap(Grown(m))
    BY <1>1, <1>4, <1>5 DEF IsMap
  <1>7. \A i, c : Holds(Grown(m), i, c) => Holds(m, i, c)
    BY <1>3, <1>5 DEF Holds
  <1> QED
    BY <1>6, <1>7

LEMMA AddIsMap ==
  ASSUME NEW m, IsMap(m), NEW c
  PROVE  /\ IsMap(connmap_add(m, c))
         /\ \A i, d : Holds(connmap_add(m, c), i, d)
                        => Holds(m, i, d) \/ (i = NextIndex(m) /\ d = c)
  <1> DEFINE g == WithFree(m)
             a == connmap_add(m, c)
  <1>1. IsMap(g) /\ \A i, d : Holds(g, i, d) => Holds(m, i, d)
    BY GrownIsMap, Zenon DEF WithFree
  <1>2. a = [g EXCEPT !.free = g.slot[g.free].u, !.slot[g.free] = Full(c), !.size = @ + 1]
    BY DEF connmap_add
  <1>3. g.free = NextIndex(m)
    BY DEF NextIndex
  <1> HIDE DEF g, a
  <1>4. /\ DOMAIN a = DOMAIN g
        /\ a.cap = g.cap
        /\ a.slot = [g.slot EXCEPT ![g.free] = Full(c)]
    BY <1>1, <1>2 DEF IsMap
  <1>5. IsMap(a)
    BY <1>1, <1>4 DEF IsMap
  <1>6. ASSUME NEW i, NEW d, Holds(a, i, d)
        PROVE  Holds(m, i, d) \/ (i = NextIndex(m) /\ d = c)
    <2>1. CASE i = g.free
      BY <1>3, <1>4, <1>6, <2>1 DEF Holds, Full
    <2>2. CASE i # g.free
      BY <1>1, <1>4, <1>6, <2>2 DEF Holds
    <2> QED
      BY <2>1, <2>2
  <1> QED
    BY <1>5, <1>6 DEF a

\* Whether a slot is taken out or all are.
LEMMA DelIsMap ==
  ASSUME NEW m, IsMap(m), NEW names, NEW id
  PROVE  /\ IsMap(connmap_del(m, names, id))
         /\ \A i, d : Holds(connmap_del(m, names, id), i, d)
                        => /\ Holds(m, i, d)
                           /\ connmap_has(m, names, id) => i # connmap_index(id)
  <1> DEFINE e == connmap_del(m, names, id)
  <1>1. CASE ~connmap_has(m, names, id)
    BY <1>1 DEF connmap_del
  <1>2. CASE connmap_has(m, names, id) /\ m.size = 1
    <2>1. e = connmap_init(m.max)
      BY <1>2 DEF connmap_del, connmap_clear
    <2> QED
      BY <2>1, InitIsMap
  <1>3. CASE connmap_has(m, names, id) /\ m.size # 1
    <2> DEFINE x == connmap_index(id)
    <2>1. e = [m EXCEPT !.slot[x] = Empty(m.free), !.free = x, !.size = @ - 1]
      BY <1>3 DEF connmap_del
    <2> HIDE DEF x, e
    <2>2. /\ DOMAIN e = DOMAIN m
          /\ e.cap = m.cap
          /\ e.slot = [m.slot EXCEPT ![x] = Empty(m.free)]
      BY <2>1 DEF IsMap
    <2>3. IsMap(e)
      BY <2>2 DEF IsMap
    <2>4. ASSUME NEW i, NEW d, Holds(e, i, d)
          PROVE  Holds(m, i, d) /\ i # x
      BY <2>2, <2>4 DEF Holds, Empty
    <2> QED
      BY <2>3, <2>4 DEF x, e
  <1> QED
    BY <1>1, <1>2, <1>3

-----------------------------------------------------------------------------
(* The free list of a connection map.                                      *)

Links(m) == [i \in 0..(m.cap - 1) |-> m.slot[i].u]

\* The free list is that of the n empty slots; the others are counted.
FreeList(m, n) ==
  /\ List(0..(m.cap - 1), m.free, Links(m), NPOS, n, EmptySlots(m))
  /\ m.size = m.cap - n

IsPower(max) ==
  /\ max \in Nat \ {0}
  /\ \A d, k \in 1..max : d * k = max /\ d # 1 => d % 2 = 0

\* A map that has grown by doubling fits in its power of 2.
IsWhole(m) ==
  /\ IsMap(m)
  /\ IsPower(m.max)
  /\ m.cap = 0 \/ \E k \in 1..m.max : m.max = k * m.cap
  /\ \A i \in 0..(m.cap - 1) : m.slot[i].isfull \in BOOLEAN
  /\ \E n : FreeList(m, n)

LEMMA InitIsWhole ==
  ASSUME NEW max, IsPower(max)
  PROVE  IsWhole(connmap_init(max))
  <1> DEFINE m == connmap_init(max)
             q == [k \in 1..0 |-> 0]
  <1>1. /\ IsMap(m) /\ m.max = max /\ m.cap = 0 /\ m.free = NPOS /\ m.size = 0
    BY InitIsMap DEF connmap_init
  <1> HIDE DEF m
  <1>2. FreeList(m, 0)
    <2>1. Members(0, q) = {} /\ EmptySlots(m) = {}
      BY <1>1 DEF Members, EmptySlots
    <2>2. Chained(0..(m.cap - 1), m.free, Links(m), NPOS, 0, q)
      BY <1>1 DEF Chained
    <2> QED
      BY <1>1, <2>1, <2>2 DEF FreeList, List
  <1> QED
    BY <1>1, <1>2 DEF IsWhole, m

\* Half as often twice as much.
LEMMA Doubled ==
  ASSUME NEW max, IsPower(max), NEW cap \in Nat \ {0}, NEW k \in 1..max,
         max = k * cap, cap < max
  PROVE  \E h \in 1..max : max = h * (2 * cap)
  <1>1. max \in Nat /\ max # 0 /\ k \in Nat /\ k >= 1
    BY DEF IsPower
  <1>2. k # 1
    BY <1>1
  <1>3. cap \in 1..max
    BY <1>1
  <1>4. k % 2 = 0
    BY <1>2, <1>3 DEF IsPower
  <1>5. PICK h \in Nat : k = 2 * h
    BY <1>1, <1>4
  <1>6. h >= 1 /\ h <= max
    BY <1>1, <1>5
  <1>7. k * cap = h * (2 * cap)
    BY <1>5
  <1> QED
    BY <1>1, <1>6, <1>7

\* A full map that may grow.
LEMMA GrownIsWhole ==
  ASSUME NEW m, IsWhole(m), ~connmap_has_free(m), CanGrow(m)
  PROVE  /\ IsWhole(Grown(m))
         /\ connmap_has_free(Grown(m))
         /\ Grown(m).max = m.max
         /\ \A i, c : Holds(m, i, c) => Holds(Grown(m), i, c)
  <1> DEFINE g == Grown(m)
             cap == IF m.cap = 0 THEN 1 ELSE 2 * m.cap
             slot == [i \in 0..(cap - 1) |->
                        IF i < m.cap THEN m.slot[i]
                        ELSE Empty(IF i = m.cap THEN NPOS ELSE i - 1)]
             p == [k \in 1..(cap - m.cap) |-> cap - k]
  <1>1. /\ m.cap \in Nat /\ m.max \in Nat \ {0} /\ IsPower(m.max) /\ IsMap(m)
        /\ DOMAIN m.slot = 0..(m.cap - 1)
        /\ \A i \in 0..(m.cap - 1) : m.slot[i].isfull \in BOOLEAN
    BY DEF IsWhole, IsMap, IsPower
  <1>2. PICK n : FreeList(m, n)
    BY DEF IsWhole
  <1>3. n = 0 /\ EmptySlots(m) = {}
    <2>1. PICK q : /\ Chained(0..(m.cap - 1), m.free, Links(m), NPOS, n, q)
                   /\ Members(n, q) = EmptySlots(m)
      BY <1>2 DEF FreeList, List
    <2>2. /\ n \in Nat /\ q \in [1..n -> 0..(m.cap - 1)]
          /\ m.free = IF n = 0 THEN NPOS ELSE q[1]
      BY <2>1 DEF Chained
    <2>3. m.free = -1
      BY DEF connmap_has_free, NPOS
    <2>4. n = 0
      <3> SUFFICES ASSUME n # 0 PROVE FALSE
        OBVIOUS
      <3>1. q[1] \in 0..(m.cap - 1)
        BY <2>2
      <3> QED
        BY <2>2, <2>3, <3>1
    <2> QED
      BY <2>1, <2>4 DEF Members
  <1>4. EmptySlots(m) = {} /\ m.size = m.cap /\ m.cap < m.max
    BY <1>1, <1>2, <1>3 DEF FreeList, CanGrow
  <1>5. \A i \in 0..(m.cap - 1) : m.slot[i].isfull
    BY <1>1, <1>4 DEF EmptySlots
  <1>6. cap \in Nat /\ cap > m.cap
    BY <1>1
  <1>7. /\ DOMAIN slot = 0..(cap - 1)
        /\ \A i \in 0..(m.cap - 1) : i \in 0..(cap - 1) /\ slot[i] = m.slot[i]
        /\ \A i \in 0..(cap - 1) : i \notin 0..(m.cap - 1) =>
             /\ slot[i].isfull = FALSE
             /\ slot[i].u = IF i = m.cap THEN NPOS ELSE i - 1
    <2>1. \A i \in 0..(cap - 1) :
            slot[i] = IF i < m.cap THEN m.slot[i]
                      ELSE Empty(IF i = m.cap THEN NPOS ELSE i - 1)
      OBVIOUS
    <2> DOMAIN slot = 0..(cap - 1)
      OBVIOUS
    <2> HIDE DEF slot, cap
    <2>2. \A i \in 0..(m.cap - 1) : i \in 0..(cap - 1) /\ i < m.cap
      BY <1>1, <1>6
    <2>3. \A i \in 0..(cap - 1) : i \notin 0..(m.cap - 1) => ~(i < m.cap)
      BY <1>1, <1>6
    <2>4. \A x : Empty(x).isfull = FALSE /\ Empty(x).u = x
      BY DEF Empty
    <2> QED
      BY <2>1, <2>2, <2>3, <2>4
  <1>8. g = [m EXCEPT !.cap = cap, !.slot = slot, !.free = cap - 1]
    BY DEF Grown
  <1>9. \E k \in 1..m.max : m.max = k * cap
    <2>1. CASE m.cap = 0
      BY <1>1, <2>1
    <2>2. CASE m.cap # 0
      <3>1. PICK k \in 1..m.max : m.max = k * m.cap
        BY <2>2 DEF IsWhole
      <3>2. cap = 2 * m.cap
        BY <2>2
      <3> HIDE DEF cap
      <3>3. \E h \in 1..m.max : m.max = h * (2 * m.cap)
        BY <1>1, <1>4, <2>2, <3>1, Doubled
      <3> QED
        BY <3>2, <3>3
    <2> QED
      BY <2>1, <2>2
  <1> HIDE DEF cap, slot
  <1>10. /\ DOMAIN g = DOMAIN m /\ g.max = m.max /\ g.cap = cap
         /\ g.slot = slot /\ g.free = cap - 1 /\ g.size = m.cap
    BY <1>1, <1>4, <1>8 DEF IsMap
  <1>11. IsMap(g)
    BY GrownIsMap, <1>1
  <1> HIDE DEF g
  <1>12. ASSUME NEW i \in 0..(cap - 1)
         PROVE  /\ g.slot[i].isfull = TRUE \/ g.slot[i].isfull = FALSE
                /\ g.slot[i].isfull = FALSE <=> i \notin 0..(m.cap - 1)
    <2>1. CASE i \in 0..(m.cap - 1)
      <3>1. g.slot[i].isfull = m.slot[i].isfull
        BY <1>7, <1>10, <2>1
      <3>2. m.slot[i].isfull /\ m.slot[i].isfull \in BOOLEAN
        BY <1>1, <1>5, <2>1
      <3>3. m.slot[i].isfull = TRUE
        BY <3>2, Zenon
      <3> QED
        BY <2>1, <3>1, <3>3
    <2>2. CASE i \notin 0..(m.cap - 1)
      BY <1>7, <1>10, <2>2
    <2> QED
      BY <2>1, <2>2
  <1>13. \A k \in 1..(cap - m.cap) : /\ p[k] = cap - k
                                    /\ p[k] \in 0..(cap - 1)
                                    /\ p[k] \notin 0..(m.cap - 1)
    BY <1>1, <1>6
  <1>14. Members(cap - m.cap, p) = EmptySlots(g)
    <2>1. ASSUME NEW i \in EmptySlots(g) PROVE i \in Members(cap - m.cap, p)
      <3>1. i \in 0..(cap - 1) /\ i \notin 0..(m.cap - 1)
        <4>1. i \in 0..(cap - 1) /\ ~g.slot[i].isfull
          BY <1>10, <2>1 DEF EmptySlots
        <4> QED
          BY <1>12, <4>1
      <3>2. cap - i \in 1..(cap - m.cap) /\ cap - (cap - i) = i
        BY <1>1, <1>6, <3>1
      <3>3. p[cap - i] = i
        BY <1>13, <3>2
      <3> QED
        BY <3>2, <3>3 DEF Members
    <2>2. ASSUME NEW i \in Members(cap - m.cap, p) PROVE i \in EmptySlots(g)
      <3>1. PICK k \in 1..(cap - m.cap) : i = p[k]
        BY <2>2 DEF Members
      <3>2. i \in 0..(cap - 1) /\ i \notin 0..(m.cap - 1)
        BY <1>13, <3>1
      <3> QED
        BY <1>10, <1>12, <3>2 DEF EmptySlots
    <2> QED
      BY <2>1, <2>2
  <1>15. \A i \in 0..(cap - 1) : i \notin 0..(m.cap - 1)
           => Links(g)[i] = IF i = m.cap THEN NPOS ELSE i - 1
    BY <1>7, <1>10 DEF Links
  <1>16. Chained(0..(cap - 1), cap - 1, Links(g), NPOS, cap - m.cap, p)
    <2>1. p \in [1..(cap - m.cap) -> 0..(cap - 1)]
      BY <1>13
    <2>2. \A j, k \in 1..(cap - m.cap) : p[j] = p[k] => j = k
      BY <1>1, <1>6, <1>13
    <2>3. cap - m.cap \in Nat /\ cap - m.cap # 0 /\ 1 \in 1..(cap - m.cap) /\ p[1] = cap - 1
      BY <1>1, <1>6, <1>13
    <2>4. ASSUME NEW k \in 1..(cap - m.cap)
          PROVE  Links(g)[p[k]] = IF k < cap - m.cap THEN p[k + 1] ELSE NPOS
      <3>1. Links(g)[p[k]] = IF cap - k = m.cap THEN NPOS ELSE (cap - k) - 1
        BY <1>13, <1>15
      <3>2. CASE k < cap - m.cap
        <4>1. k + 1 \in 1..(cap - m.cap) /\ cap - k # m.cap /\ (cap - k) - 1 = cap - (k + 1)
          BY <1>1, <1>6, <3>2
        <4> QED
          BY <1>13, <3>1, <3>2, <4>1
      <3>3. CASE ~(k < cap - m.cap)
        <4>1. cap - k = m.cap
          BY <1>1, <1>6, <3>3
        <4> QED
          BY <3>1, <3>3, <4>1
      <3> QED
        BY <3>2, <3>3
    <2> HIDE DEF p
    <2> QED
      BY <2>1, <2>2, <2>3, <2>4 DEF Chained
  <1>17. FreeList(g, cap - m.cap)
    <2>1. g.size = g.cap - (cap - m.cap)
      BY <1>1, <1>6, <1>10
    <2> QED
      BY <1>10, <1>14, <1>16, <2>1 DEF FreeList, List
  <1>18. IsWhole(g)
    <2>1. IsPower(g.max) /\ \E k \in 1..g.max : g.max = k * g.cap
      BY <1>1, <1>9, <1>10
    <2>2. \E k : FreeList(g, k)
      BY <1>17
    <2>3. \A i \in 0..(g.cap - 1) : g.slot[i].isfull \in BOOLEAN
      BY <1>10, <1>12
    <2> QED
      BY <1>11, <2>1, <2>2, <2>3 DEF IsWhole
  <1>19. connmap_has_free(g)
    BY <1>1, <1>6, <1>10 DEF connmap_has_free, NPOS
  <1>20. ASSUME NEW i, NEW c, Holds(m, i, c) PROVE Holds(g, i, c)
    BY <1>1, <1>7, <1>10, <1>20 DEF Holds
  <1> QED
    BY <1>10, <1>18, <1>19, <1>20 DEF g

\* The first slot of the free list is taken.
Taken(m, c) ==
  [m EXCEPT !.free = m.slot[m.free].u, !.slot[m.free] = Full(c), !.size = @ + 1]

LEMMA TakenIsWhole ==
  ASSUME NEW m, IsWhole(m), connmap_has_free(m), NEW c
  PROVE  /\ IsWhole(Taken(m, c)) /\ Taken(m, c).max = m.max
         /\ m.free \in 0..(m.cap - 1)
         /\ Holds(Taken(m, c), m.free, c)
         /\ \A i, d : Holds(m, i, d) => i # m.free /\ Holds(Taken(m, c), i, d)
  <1> DEFINE x == m.free
             a == Taken(m, c)
  <1>1. /\ m.cap \in Nat /\ IsMap(m) /\ DOMAIN m.slot = 0..(m.cap - 1)
        /\ DOMAIN m = {"max", "size", "cap", "free", "slot"}
        /\ \A i \in 0..(m.cap - 1) : m.slot[i].isfull \in BOOLEAN
    BY DEF IsWhole, IsMap
  <1>2. PICK n : FreeList(m, n)
    BY DEF IsWhole
  <1>3. /\ List(0..(m.cap - 1), x, Links(m), NPOS, n, EmptySlots(m))
        /\ m.size = m.cap - n /\ n \in Nat
    BY <1>2, FirstIsMember DEF FreeList
  <1>4. NPOS \notin 0..(m.cap - 1) /\ x # NPOS
    BY <1>1 DEF NPOS, connmap_has_free
  <1> HIDE DEF x
  <1>6. x \in EmptySlots(m)
    BY <1>3, <1>4, FirstIsMember
  <1>7. x \in 0..(m.cap - 1) /\ ~m.slot[x].isfull
    BY <1>6 DEF EmptySlots
  <1>8. Links(m)[x] = m.slot[x].u
    BY <1>7 DEF Links
  <1>9. /\ DOMAIN a = DOMAIN m /\ a.max = m.max /\ a.cap = m.cap
        /\ a.free = Links(m)[x] /\ a.size = m.size + 1
        /\ a.slot = [m.slot EXCEPT ![x] = Full(c)]
    BY <1>1, <1>8 DEF x, Taken
  <1> HIDE DEF a
  <1>10. /\ DOMAIN a.slot = 0..(m.cap - 1)
         /\ a.slot[x].isfull = TRUE /\ a.slot[x].u = c
         /\ \A i \in 0..(m.cap - 1) : i # x => a.slot[i] = m.slot[i]
    BY <1>1, <1>7, <1>9 DEF Full
  <1>11. \A i \in 0..(m.cap - 1) : a.slot[i].isfull \in BOOLEAN
    <2> SUFFICES ASSUME NEW i \in 0..(m.cap - 1) PROVE a.slot[i].isfull \in BOOLEAN
      OBVIOUS
    <2>1. CASE i = x
      BY <1>10, <2>1
    <2>2. CASE i # x
      BY <1>1, <1>10, <2>2
    <2> QED
      BY <2>1, <2>2
  <1>12. EmptySlots(a) = EmptySlots(m) \ {x}
    BY <1>9, <1>10 DEF EmptySlots
  <1>13. Agree(Links(m), Links(a), EmptySlots(m) \ {x})
    BY <1>9, <1>10 DEF Links, EmptySlots, Agree
  <1>14. FreeList(a, n - 1)
    <2>1. a.size = a.cap - (n - 1)
      BY <1>1, <1>3, <1>9
    <2>2. List(0..(m.cap - 1), Links(m)[x], Links(a), NPOS, n - 1, EmptySlots(m) \ {x})
      BY <1>3, <1>4, <1>13, ListShrinks
    <2> QED
      BY <1>9, <1>12, <2>1, <2>2 DEF FreeList
  <1>15. IsWhole(a)
    <2>1. IsMap(a)
      BY <1>1, <1>9, <1>10 DEF IsMap
    <2>2. \E k : FreeList(a, k)
      BY <1>14
    <2> QED
      BY <1>9, <1>11, <2>1, <2>2 DEF IsWhole
  <1>16. Holds(a, x, c)
    BY <1>7, <1>10 DEF Holds
  <1>17. ASSUME NEW i, NEW d, Holds(m, i, d) PROVE i # x /\ Holds(a, i, d)
    BY <1>1, <1>7, <1>10, <1>17 DEF Holds
  <1> QED
    BY <1>7, <1>9, <1>15, <1>16, <1>17 DEF x, a

\* A new connection is held, and those that were held still are.
LEMMA AddIsWhole ==
  ASSUME NEW m, IsWhole(m), connmap_has_free(m) \/ CanGrow(m), NEW c
  PROVE  /\ IsWhole(connmap_add(m, c)) /\ connmap_add(m, c).max = m.max
         /\ NextIndex(m) \in Nat
         /\ Holds(connmap_add(m, c), NextIndex(m), c)
         /\ \A i, d : Holds(m, i, d) => Holds(connmap_add(m, c), i, d)
  <1> DEFINE g == WithFree(m)
             a == connmap_add(m, c)
  <1>1. /\ IsWhole(g) /\ connmap_has_free(g) /\ g.max = m.max
        /\ \A i, d : Holds(m, i, d) => Holds(g, i, d)
    <2>1. CASE connmap_has_free(m)
      BY <2>1 DEF WithFree
    <2>2. CASE ~connmap_has_free(m)
      BY <2>2, GrownIsWhole DEF WithFree
    <2> QED
      BY <2>1, <2>2
  <1>2. a = Taken(g, c)
    BY DEF connmap_add, Taken
  <1>3. g.free = NextIndex(m)
    BY DEF NextIndex
  <1>4. g.cap \in Nat
    BY <1>1 DEF IsWhole, IsMap
  <1> HIDE DEF g, a
  <1>5. /\ IsWhole(a) /\ a.max = g.max
        /\ g.free \in 0..(g.cap - 1)
        /\ Holds(a, g.free, c)
        /\ \A i, d : Holds(g, i, d) => i # g.free /\ Holds(a, i, d)
    BY <1>1, <1>2, TakenIsWhole
  <1>6. NextIndex(m) \in Nat
    BY <1>3, <1>4, <1>5
  <1> QED
    BY <1>1, <1>3, <1>5, <1>6 DEF a

\* The full slots are as many as size says.
LEMMA FullAreCounted ==
  ASSUME NEW m, IsWhole(m), NEW F, F = (0..(m.cap - 1)) \ EmptySlots(m)
  PROVE  IsFiniteSet(F) /\ Cardinality(F) = m.size
  <1> DEFINE S == 0..(m.cap - 1)
             E == EmptySlots(m)
  <1>1. PICK n : FreeList(m, n)
    BY DEF IsWhole
  <1>2. m.cap \in Nat
    BY DEF IsWhole, IsMap
  <1>3. Cardinality(E) = n /\ m.size = m.cap - n /\ n \in Nat
    BY <1>1, FirstIsMember, ListCounts DEF FreeList
  <1>4. IsFiniteSet(S) /\ Cardinality(S) = IF 0 > m.cap - 1 THEN 0 ELSE (m.cap - 1) - 0 + 1
    BY <1>2, FS_Interval
  <1>5. Cardinality(S) = m.cap
    BY <1>2, <1>4
  <1>6. E \subseteq S
    BY DEF EmptySlots
  <1> HIDE DEF S, E
  <1>7. IsFiniteSet(F) /\ IsFiniteSet(E) /\ Cardinality(F) \in Nat
    <2>1. F \in SUBSET S /\ E \in SUBSET S
      BY <1>6 DEF S, E
    <2> QED
      BY <1>4, <2>1, FS_Subset, FS_CardinalityType
  <1>8. F \cup E = S /\ F \cap E = {}
    BY <1>6 DEF S, E
  <1>9. Cardinality(F \cup E) = Cardinality(F) + Cardinality(E) - Cardinality(F \cap E)
    BY <1>7, FS_Union, Zenon
  <1>10. m.cap = Cardinality(F) + n - 0
    BY <1>3, <1>5, <1>8, <1>9, FS_EmptySet
  <1> QED
    BY <1>2, <1>3, <1>7, <1>10

\* A slot is given back, at the head of the free list.
Freeing(m, x) == [m EXCEPT !.slot[x] = Empty(m.free), !.free = x, !.size = @ - 1]

LEMMA FreeingIsWhole ==
  ASSUME NEW m, IsWhole(m), NEW x \in 0..(m.cap - 1), m.slot[x].isfull
  PROVE  /\ IsWhole(Freeing(m, x)) /\ Freeing(m, x).max = m.max
         /\ \A i, d : Holds(m, i, d) /\ i # x => Holds(Freeing(m, x), i, d)
  <1> DEFINE e == Freeing(m, x)
  <1>1. /\ m.cap \in Nat /\ IsMap(m) /\ DOMAIN m.slot = 0..(m.cap - 1)
        /\ DOMAIN m = {"max", "size", "cap", "free", "slot"}
        /\ \A i \in 0..(m.cap - 1) : m.slot[i].isfull \in BOOLEAN
    BY DEF IsWhole, IsMap
  <1>2. PICK n : FreeList(m, n)
    BY DEF IsWhole
  <1>3. /\ List(0..(m.cap - 1), m.free, Links(m), NPOS, n, EmptySlots(m))
        /\ m.size = m.cap - n /\ n \in Nat
    BY <1>2, FirstIsMember DEF FreeList
  <1>4. x \notin EmptySlots(m)
    BY DEF EmptySlots
  <1>5. /\ DOMAIN e = DOMAIN m /\ e.max = m.max /\ e.cap = m.cap
        /\ e.free = x /\ e.size = m.size - 1
        /\ e.slot = [m.slot EXCEPT ![x] = Empty(m.free)]
    BY <1>1 DEF Freeing
  <1> HIDE DEF e
  <1>6. /\ DOMAIN e.slot = 0..(m.cap - 1)
        /\ e.slot[x].isfull = FALSE /\ e.slot[x].u = m.free
        /\ \A i \in 0..(m.cap - 1) : i # x => e.slot[i] = m.slot[i]
    BY <1>1, <1>5 DEF Empty
  <1>7. \A i \in 0..(m.cap - 1) : e.slot[i].isfull \in BOOLEAN
    <2> SUFFICES ASSUME NEW i \in 0..(m.cap - 1) PROVE e.slot[i].isfull \in BOOLEAN
      OBVIOUS
    <2>1. CASE i = x
      BY <1>6, <2>1
    <2>2. CASE i # x
      BY <1>1, <1>6, <2>2
    <2> QED
      BY <2>1, <2>2
  <1>8. EmptySlots(e) = EmptySlots(m) \cup {x}
    BY <1>5, <1>6 DEF EmptySlots
  <1>9. Agree(Links(m), Links(e), EmptySlots(m)) /\ Links(e)[x] = m.free
    BY <1>4, <1>5, <1>6 DEF Links, EmptySlots, Agree
  <1>10. FreeList(e, n + 1)
    <2>1. e.size = e.cap - (n + 1)
      BY <1>1, <1>3, <1>5
    <2>2. List(0..(m.cap - 1), x, Links(e), NPOS, n + 1, EmptySlots(m) \cup {x})
      BY <1>3, <1>4, <1>9, ListGrows
    <2> QED
      BY <1>5, <1>8, <2>1, <2>2 DEF FreeList
  <1>11. IsWhole(e)
    <2>1. IsMap(e)
      BY <1>1, <1>5, <1>6 DEF IsMap
    <2>2. \E k : FreeList(e, k)
      BY <1>10
    <2> QED
      BY <1>5, <1>7, <2>1, <2>2 DEF IsWhole
  <1>12. ASSUME NEW i, NEW d, Holds(m, i, d), i # x PROVE Holds(e, i, d)
    BY <1>1, <1>6, <1>12 DEF Holds
  <1> QED
    BY <1>5, <1>11, <1>12 DEF e

\* The slots that are left stay as they are; when there is none, all go.
LEMMA DelIsWhole ==
  ASSUME NEW m, IsWhole(m), NEW names, NEW id, connmap_has(m, names, id)
  PROVE  /\ IsWhole(connmap_del(m, names, id)) /\ connmap_del(m, names, id).max = m.max
         /\ \A i, d : Holds(m, i, d) /\ i # connmap_index(id)
                        => Holds(connmap_del(m, names, id), i, d)
  <1> DEFINE e == connmap_del(m, names, id)
             x == connmap_index(id)
  <1>1. x \in 0..(m.cap - 1) /\ m.slot[x].isfull
    BY DEF connmap_has
  <1>2. CASE m.size = 1
    <2> DEFINE F == (0..(m.cap - 1)) \ EmptySlots(m)
    <2>1. e = connmap_init(m.max)
      BY <1>2 DEF connmap_del, connmap_clear
    <2>2. IsWhole(e)
      BY <2>1, InitIsWhole DEF IsWhole
    <2>3. e.max = m.max
      BY <2>1 DEF connmap_init
    <2>4. ASSUME NEW i, NEW d, Holds(m, i, d) PROVE i = x
      <3>1. IsFiniteSet(F) /\ Cardinality(F) = 1
        BY <1>2, FullAreCounted
      <3>2. x \in F
        BY <1>1 DEF EmptySlots
      <3>3. i \in F
        BY <2>4 DEF Holds, IsWhole, IsMap, EmptySlots
      <3> HIDE DEF F
      <3>4. PICK y : F = {y}
        BY <3>1, FS_Singleton, Zenon
      <3> QED
        BY <3>2, <3>3, <3>4
    <2> QED
      BY <2>2, <2>3, <2>4
  <1>3. CASE m.size # 1
    <2>1. e = Freeing(m, x)
      BY <1>3 DEF connmap_del, Freeing
    <2> HIDE DEF e, x
    <2> QED
      BY <1>1, <2>1, FreeingIsWhole DEF e, x
  <1> QED
    BY <1>2, <1>3

\* The list that is read from free is the free list.
LEMMA WholeIsWalked ==
  ASSUME NEW m, IsWhole(m)
  PROVE  LET n == Cardinality(EmptySlots(m))
         IN  /\ {FreeWalk(m)[k] : k \in 0..(n - 1)} = EmptySlots(m)
             /\ FreeWalk(m)[n] = NPOS
  <1> DEFINE S == 0..(m.cap - 1)
             E == EmptySlots(m)
             IsWalk(f) == f = [k \in Nat |->
                                 IF k = 0 THEN m.free
                                 ELSE IF f[k - 1] = NPOS THEN NPOS ELSE m.slot[f[k - 1]].u]
  <1>1. PICK n : FreeList(m, n)
    BY DEF IsWhole
  <1>2. List(S, m.free, Links(m), NPOS, n, E) /\ NPOS \notin S /\ NPOS \notin E
    BY <1>1 DEF FreeList, NPOS, EmptySlots, IsWhole, IsMap
  <1>3. n \in Nat /\ n = Cardinality(E)
    BY <1>2, FirstIsMember, ListCounts
  <1>4. \A y \in E : Links(m)[y] = m.slot[y].u
    BY DEF Links, EmptySlots
  <1>5. PICK g \in [Nat -> E \cup {NPOS}] : Follows(g, m.free, Links(m), NPOS, E)
    BY <1>2, WalkExists
  <1>6. IsWalk(g)
    <2>1. ASSUME NEW k \in Nat
          PROVE  g[k] = IF k = 0 THEN m.free
                        ELSE IF g[k - 1] = NPOS THEN NPOS ELSE m.slot[g[k - 1]].u
      <3>1. CASE k = 0
        BY <1>5, <3>1 DEF Follows
      <3>2. CASE k # 0
        <4>1. k \in Nat \ {0} /\ k - 1 \in Nat
          BY <3>2
        <4>2. g[k - 1] \in E \cup {NPOS}
          BY <1>5, <4>1
        <4>3. /\ g[k - 1] = NPOS => g[k] = NPOS
              /\ g[k - 1] \in E => g[k] = Links(m)[g[k - 1]]
          BY <1>5, <4>1 DEF Follows
        <4> QED
          BY <1>2, <1>4, <3>2, <4>2, <4>3
      <3> QED
        BY <3>1, <3>2
    <2> QED
      BY <1>5, <2>1
  <1> DEFINE walk == CHOOSE f : IsWalk(f)
  <1>7. IsWalk(walk)
    BY <1>6
  <1>8. Follows(walk, m.free, Links(m), NPOS, E)
    <2> HIDE DEF walk, E
    <2>1. \A k \in Nat :
            walk[k] = IF k = 0 THEN m.free
                      ELSE IF walk[k - 1] = NPOS THEN NPOS ELSE m.slot[walk[k - 1]].u
      BY <1>7
    <2>2. \A k \in Nat \ {0} : k \in Nat /\ k # 0
      OBVIOUS
    <2> QED
      BY <1>2, <1>4, <2>1, <2>2 DEF Follows
  <1>9. FreeWalk(m) = [k \in 0..n |-> walk[k]]
    BY <1>3 DEF FreeWalk
  <1> HIDE DEF walk, E, S
  <1>10. {walk[k] : k \in 0..(n - 1)} = E /\ walk[n] = NPOS
    <2>1. RunsThrough(walk, n, NPOS, E)
      BY <1>2, <1>8, WalkIsList
    <2> QED
      BY <1>3, <2>1 DEF RunsThrough
  <1>11. \A k \in 0..n : FreeWalk(m)[k] = walk[k]
    BY <1>9
  <1>12. {FreeWalk(m)[k] : k \in 0..(n - 1)} = E
    BY <1>3, <1>10, <1>11
  <1>13. FreeWalk(m)[n] = NPOS
    BY <1>3, <1>10, <1>11
  <1> QED
    BY <1>3, <1>12, <1>13 DEF E

-----------------------------------------------------------------------------
(* The invariant.                                                          *)

Fields == {"state", "router", "id", "src", "peer", "hassend"}

States == {"FREE", "RESOLVE", "OPEN", "CHAL", "PING"}

\* Records and functions are what they are written as.
Shape ==
  /\ DOMAIN conn = Conns
  /\ \A c \in Conns : DOMAIN conn[c] = Fields /\ conn[c].state \in States
  /\ DOMAIN map = Routers
  /\ drawn \in [Routers -> Nat]
  /\ \A p \in net : p.type \in {"OPEN", "CHAL"}

\* An id whose random bits router r has drawn.
Drawn(r, id) == r \in Routers /\ id[2] \in Nat /\ id[2] <= drawn[r]

\* Every id that is anywhere has been drawn by the router it is an id of.
IdsAreDrawn ==
  /\ \A c \in Alive :
       /\ Drawn(conn[c].router, conn[c].id)
       /\ conn[c].src \in Routers
       /\ conn[c].state \in {"CHAL", "PING"} => Drawn(conn[c].src, conn[c].peer)
  /\ \A p \in net :
       /\ Drawn(p.from, p.self)
       /\ p.to \in Routers
       /\ p.type = "CHAL" => Drawn(p.to, p.id)

\* No two connections of a router have the same id.
IdsAreUnique ==
  \A c, d \in Alive :
    conn[c].router = conn[d].router /\ conn[c].id = conn[d].id => c = d

\* What the slots of each map hold.
MapsAreRight ==
  \A r \in Routers :
    /\ IsMap(map[r])
    /\ \A i, c : Holds(map[r], i, c) =>
         c \in Alive /\ conn[c].router = r /\ connmap_index(conn[c].id) = i

\* Whoever waits has asked one router only, and only that one has answered.
OneIsAsked ==
  \A c \in Alive : conn[c].state \in {"RESOLVE", "OPEN"} =>
    /\ \A p \in net : p.type = "OPEN" /\ p.from = conn[c].router /\ p.self = conn[c].id
                        => p.to = conn[c].src
    /\ \A p \in net : p.type = "CHAL" /\ p.to = conn[c].router /\ p.id = conn[c].id
                        => p.from = conn[c].src
    /\ \A d \in Alive : /\ conn[d].state = "CHAL"
                        /\ conn[d].src = conn[c].router
                        /\ conn[d].peer = conn[c].id
                        => conn[d].router = conn[c].src

\* Connection d answers the connection with an id at router r.
Answers(d, r, id) == conn[d].state = "CHAL" /\ conn[d].peer = id /\ conn[d].src = r

\* A CHAL says of whoever sent it, if it is still there, whom it answers.
ChalIsTrue ==
  \A p \in net : p.type = "CHAL" =>
    \A d \in Alive : conn[d].router = p.from /\ conn[d].id = p.self
                       => Answers(d, p.to, p.id)

\* A peer, if it is still there, answers.
PeerAnswers ==
  \A c \in Alive : conn[c].state = "PING" =>
    \A d \in Alive : conn[d].router = conn[c].src /\ conn[d].id = conn[c].peer
                       => Answers(d, conn[c].router, conn[c].id)

IInv ==
  /\ Shape
  /\ IdsAreDrawn
  /\ IdsAreUnique
  /\ MapsAreRight
  /\ OneIsAsked
  /\ ChalIsTrue
  /\ PeerAnswers

LEMMA InitIsRight == Init => IInv
  <1> SUFFICES ASSUME Init PROVE IInv
    OBVIOUS
  <1>1. Alive = {} /\ net = {}
    BY DEF Init, Alive, Freed
  <1>2. Shape
    BY DEF Init, Shape, Fields, States, Freed
  <1>3. MapsAreRight
    <2>1. \A r \in Routers : map[r] = connmap_init(MaxConn[r])
      BY DEF Init
    <2> QED
      BY <2>1, InitIsMap DEF MapsAreRight
  <1> QED
    BY <1>1, <1>2, <1>3
       DEF IInv, IdsAreDrawn, IdsAreUnique, OneIsAsked, ChalIsTrue, PeerAnswers

\* Agreement is what PeerAnswers says of a state.
LEMMA RightIsAgreed == IInv => Agreement
  BY DEF IInv, PeerAnswers, Answers, Agreement, ConnsOf

\* A step that leaves connections, packets and maps alone.
LEMMA UnchangedIsRight ==
  ASSUME IInv, UNCHANGED <<map, conn, net, drawn>>
  PROVE  IInv'
  BY DEF IInv, Shape, IdsAreDrawn, Drawn, IdsAreUnique, MapsAreRight, OneIsAsked,
         ChalIsTrue, PeerAnswers, Answers, Alive

-----------------------------------------------------------------------------
(* The steps.                                                              *)

\* Packets are gone, and connections are freed.
LEMMA FewerIsRight ==
  ASSUME IInv, Shape', MapsAreRight', drawn' = drawn,
         \A p \in net' : p \in net,
         \A c \in Alive' : c \in Alive /\ conn'[c] = conn[c]
  PROVE  IInv'
  <1>1. IdsAreDrawn'
    BY DEF IInv, IdsAreDrawn, Drawn
  <1>2. IdsAreUnique'
    BY DEF IInv, IdsAreUnique
  <1>3. OneIsAsked'
    BY DEF IInv, OneIsAsked
  <1>4. ChalIsTrue'
    BY DEF IInv, ChalIsTrue, Answers
  <1>5. PeerAnswers'
    BY DEF IInv, PeerAnswers, Answers
  <1> QED
    BY <1>1, <1>2, <1>3, <1>4, <1>5 DEF IInv

\* Packets are gone, and nothing else happens.
LEMMA GoneIsRight ==
  ASSUME IInv, \A p \in net' : p \in net, UNCHANGED <<map, conn, drawn>>
  PROVE  IInv'
  <1>1. Shape' /\ MapsAreRight'
    BY DEF IInv, Shape, MapsAreRight, Alive
  <1>2. \A c \in Alive' : c \in Alive /\ conn'[c] = conn[c]
    BY DEF Alive
  <1> QED
    BY <1>1, <1>2, FewerIsRight

\* A packet arrives, or is lost.
LEMMA ArrivalTakes ==
  ASSUME NEW q \in net, Arrives(q)
  PROVE  \A p \in net' : p \in net
  BY DEF Arrives

LEMMA GiveUpIsRight ==
  ASSUME IInv, NEW c \in Conns, GiveUp(c)
  PROVE  IInv'
  <1> DEFINE r == conn[c].router
             id == conn[c].id
  <1>1. c \in Alive /\ r \in Routers
    BY DEF GiveUp, Alive, IInv, IdsAreDrawn, Drawn
  <1>2. conn' = [conn EXCEPT ![c] = Freed] /\ drawn' = drawn /\ net' = net
    BY DEF GiveUp
  <1>3. map' = [map EXCEPT ![r] = connmap_del(map[r], ids, id)]
    BY DEF GiveUp
  <1>4. Shape'
    BY <1>2, <1>3 DEF IInv, Shape, Freed, Fields, States
  <1>5. \A d \in Alive' : d \in Alive /\ d # c /\ conn'[d] = conn[d]
    BY <1>2 DEF IInv, Shape, Alive, Freed
  <1>6. \A d \in Alive : d # c => d \in Alive' /\ conn'[d] = conn[d]
    BY <1>2 DEF IInv, Shape, Alive
  <1>7. ASSUME NEW s \in Routers
        PROVE  /\ IsMap(map'[s])
               /\ \A i, d : Holds(map'[s], i, d) => Holds(map[s], i, d) /\ d # c
    <2>1. CASE s # r
      <3>1. map'[s] = map[s] /\ IsMap(map[s])
        BY <1>3, <2>1 DEF IInv, Shape, MapsAreRight
      <3>2. \A i, d : Holds(map[s], i, d) => conn[d].router = s
        BY DEF IInv, MapsAreRight
      <3> QED
        BY <2>1, <3>1, <3>2
    <2>2. CASE s = r
      <3>1. map'[s] = connmap_del(map[r], ids, id) /\ IsMap(map[r])
        BY <1>1, <1>3, <2>2 DEF IInv, Shape, MapsAreRight
      <3>2. ASSUME NEW i, Holds(map[r], i, c)
            PROVE  i = connmap_index(id) /\ connmap_has(map[r], ids, id)
        <4>1. i = connmap_index(id)
          BY <1>1, <3>2 DEF IInv, MapsAreRight
        <4>2. i \in 0..(map[r].cap - 1) /\ map[r].slot[i].isfull /\ map[r].slot[i].u = c
          BY <3>1, <3>2 DEF Holds, IsMap
        <4>3. ids[c] = id
          BY DEF ids
        <4> QED
          BY <4>1, <4>2, <4>3 DEF connmap_has
      <3>3. /\ IsMap(map'[s])
            /\ \A i, d : Holds(map'[s], i, d)
                 => Holds(map[r], i, d) /\ (connmap_has(map[r], ids, id) => i # connmap_index(id))
        <4> DEFINE e == connmap_del(map[r], ids, id)
        <4>1. /\ IsMap(e)
              /\ \A i, d : Holds(e, i, d)
                   => Holds(map[r], i, d) /\ (connmap_has(map[r], ids, id) => i # connmap_index(id))
          BY <3>1, DelIsMap
        <4> HIDE DEF e
        <4>2. map'[s] = e
          BY <3>1 DEF e
        <4> QED
          BY <4>1, <4>2, Zenon
      <3> QED
        BY <2>2, <3>2, <3>3, Zenon
    <2> QED
      BY <2>1, <2>2
  <1>8. MapsAreRight'
    <2> SUFFICES ASSUME NEW s \in Routers
                 PROVE  /\ IsMap(map'[s])
                        /\ \A i, d : Holds(map'[s], i, d) =>
                             /\ d \in Alive'
                             /\ conn'[d].router = s
                             /\ connmap_index(conn'[d].id) = i
      BY DEF MapsAreRight, IsMap, Holds, connmap_index
    <2>1. \A i, d : Holds(map[s], i, d) =>
            d \in Alive /\ conn[d].router = s /\ connmap_index(conn[d].id) = i
      BY DEF IInv, MapsAreRight
    <2> QED
      BY <1>6, <1>7, <2>1, Zenon
  <1> QED
    BY <1>2, <1>4, <1>5, <1>8, FewerIsRight

LEMMA RestartIsRight ==
  ASSUME IInv, NEW r \in Routers, Restart(r)
  PROVE  IInv'
  <1>1. /\ conn' = [c \in Conns |-> IF c \in ConnsOf(r) THEN Freed ELSE conn[c]]
        /\ map' = [map EXCEPT ![r] = connmap_init(map[r].max)]
        /\ drawn' = drawn /\ net' = net
    BY DEF Restart, connmap_clear
  <1>2. Shape'
    BY <1>1 DEF IInv, Shape, Freed, Fields, States
  <1>3. \A d \in Alive' : d \in Alive /\ conn'[d] = conn[d]
    BY <1>1 DEF Alive, Freed
  <1>4. \A d \in Alive : conn[d].router # r => d \in Alive' /\ conn'[d] = conn[d]
    BY <1>1 DEF Alive, ConnsOf
  <1>5. MapsAreRight'
    <2> SUFFICES ASSUME NEW s \in Routers
                 PROVE  /\ IsMap(map'[s])
                        /\ \A i, d : Holds(map'[s], i, d) =>
                             /\ d \in Alive'
                             /\ conn'[d].router = s
                             /\ connmap_index(conn'[d].id) = i
      BY DEF MapsAreRight, IsMap, Holds, connmap_index
    <2>1. CASE s = r
      <3>1. map'[s] = connmap_init(map[r].max)
        BY <1>1, <2>1 DEF IInv, Shape
      <3> QED
        BY <3>1, InitIsMap, Zenon
    <2>2. CASE s # r
      <3>1. map'[s] = map[s]
        BY <1>1, <2>2 DEF IInv, Shape
      <3>2. /\ IsMap(map[s])
            /\ \A i, d : Holds(map[s], i, d) =>
                 d \in Alive /\ conn[d].router = s /\ connmap_index(conn[d].id) = i
        BY DEF IInv, MapsAreRight
      <3> QED
        BY <1>4, <2>2, <3>1, <3>2, Zenon
    <2> QED
      BY <2>1, <2>2
  <1> QED
    BY <1>1, <1>2, <1>3, <1>5, FewerIsRight

\* A connection is new: one that waits, or one that answers an OPEN.
LEMMA AddIsRight ==
  ASSUME IInv, NEW r \in Routers, NEW c \in Unused, NEW f,
         Add(r, c, f),
         DOMAIN f = Fields, f.router = r, f.id = NewId(r), f.src \in Routers,
         \A p \in net' : p \in net,
         \/ f.state = "RESOLVE"
         \/ /\ f.state = "CHAL"
            /\ \E p \in net : /\ p.type = "OPEN" /\ p.to = r
                              /\ p.from = f.src /\ p.self = f.peer
  PROVE  IInv'
  <1>1. /\ map' = [map EXCEPT ![r] = connmap_add(map[r], c)]
        /\ drawn' = [drawn EXCEPT ![r] = drawn[r] + 1]
        /\ conn' = [conn EXCEPT ![c] = f]
    BY DEF Add
  <1>2. c \in Conns /\ c \notin Alive
    BY DEF Unused
  <1>3. conn'[c] = f
    BY <1>1, <1>2 DEF IInv, Shape
  <1>4. Shape'
    BY <1>1, <1>2 DEF IInv, Shape, States
  <1>5. \A d : d \in Alive' <=> d = c \/ d \in Alive
    BY <1>1, <1>2 DEF IInv, Shape, Alive
  <1>6. \A d \in Alive : d # c /\ conn'[d] = conn[d]
    BY <1>1, <1>2 DEF IInv, Shape, Alive
  <1>7. /\ f.id[1] = NextIndex(map[r])
        /\ f.id[2] = drawn[r] + 1
        /\ drawn[r] \in Nat
    BY DEF NewId, IInv, Shape
  <1>8. \A s, id : Drawn(s, id) => Drawn(s, id)' /\ ~(s = r /\ id = f.id)
    BY <1>1, <1>7 DEF Drawn, IInv, Shape
  <1>9. Drawn(r, f.id)'
    BY <1>1, <1>7 DEF Drawn, IInv, Shape
  <1>10. f.state = "CHAL" => Drawn(f.src, f.peer)
    BY DEF IInv, IdsAreDrawn
  <1>11. IdsAreDrawn'
    <2>1. ASSUME NEW d \in Alive'
          PROVE  /\ Drawn(conn[d].router, conn[d].id)'
                 /\ conn'[d].src \in Routers
                 /\ conn'[d].state \in {"CHAL", "PING"} => Drawn(conn[d].src, conn[d].peer)'
      <3>1. CASE d = c
        BY <1>3, <1>8, <1>9, <1>10, <3>1 DEF Drawn
      <3>2. CASE d \in Alive
        BY <1>6, <1>8, <3>2 DEF IInv, IdsAreDrawn, Drawn
      <3> QED
        BY <1>5, <3>1, <3>2
    <2>2. ASSUME NEW p \in net'
          PROVE  /\ Drawn(p.from, p.self)'
                 /\ p.to \in Routers
                 /\ p.type = "CHAL" => Drawn(p.to, p.id)'
      BY <1>8 DEF IInv, IdsAreDrawn
    <2> QED
      BY <2>1, <2>2 DEF IdsAreDrawn
  <1>12. IdsAreUnique'
    BY <1>3, <1>5, <1>6, <1>8 DEF IInv, IdsAreUnique, IdsAreDrawn
  <1>13. MapsAreRight'
    <2> SUFFICES ASSUME NEW s \in Routers
                 PROVE  /\ IsMap(map'[s])
                        /\ \A i, d : Holds(map'[s], i, d) =>
                             /\ d \in Alive'
                             /\ conn'[d].router = s
                             /\ connmap_index(conn'[d].id) = i
      BY DEF MapsAreRight, IsMap, Holds, connmap_index
    <2>1. /\ IsMap(map[s])
          /\ \A i, d : Holds(map[s], i, d) =>
               d \in Alive /\ conn[d].router = s /\ connmap_index(conn[d].id) = i
      BY DEF IInv, MapsAreRight
    <2>2. CASE s = r
      <3> DEFINE a == connmap_add(map[r], c)
      <3>1. /\ IsMap(a)
            /\ \A i, d : Holds(a, i, d)
                 => Holds(map[r], i, d) \/ (i = NextIndex(map[r]) /\ d = c)
        BY <2>1, <2>2, AddIsMap
      <3> HIDE DEF a
      <3>2. map'[s] = a
        BY <1>1, <2>2 DEF a, IInv, Shape
      <3>3. connmap_index(f.id) = NextIndex(map[r]) /\ f.router = r
        BY <1>7 DEF connmap_index
      <3> QED
        BY <1>3, <1>5, <1>6, <2>1, <2>2, <3>1, <3>2, <3>3, Zenon
    <2>3. CASE s # r
      <3>1. map'[s] = map[s]
        BY <1>1, <2>3 DEF IInv, Shape
      <3> QED
        BY <1>5, <1>6, <2>1, <3>1, Zenon
    <2> QED
      BY <2>2, <2>3
  <1>14. OneIsAsked'
    <2> SUFFICES ASSUME NEW x \in Alive', conn'[x].state \in {"RESOLVE", "OPEN"}
                 PROVE
      /\ \A p \in net' : p.type = "OPEN" /\ p.from = conn'[x].router /\ p.self = conn'[x].id
                           => p.to = conn'[x].src
      /\ \A p \in net' : p.type = "CHAL" /\ p.to = conn'[x].router /\ p.id = conn'[x].id
                           => p.from = conn'[x].src
      /\ \A d \in Alive' : /\ conn'[d].state = "CHAL"
                           /\ conn'[d].src = conn'[x].router
                           /\ conn'[d].peer = conn'[x].id
                           => conn'[d].router = conn'[x].src
      BY DEF OneIsAsked
    <2>1. CASE x = c
      <3>1. \A p \in net' : /\ ~(p.from = r /\ p.self = f.id)
                            /\ ~(p.type = "CHAL" /\ p.to = r /\ p.id = f.id)
        BY <1>8 DEF IInv, IdsAreDrawn
      <3>2. \A d \in Alive' : conn'[d].state = "CHAL" =>
              ~(conn'[d].src = r /\ conn'[d].peer = f.id)
        BY <1>3, <1>5, <1>6, <1>8, <1>10 DEF IInv, IdsAreDrawn
      <3> QED
        BY <1>3, <2>1, <3>1, <3>2
    <2>2. CASE x \in Alive
      <3>1. conn'[x] = conn[x] /\ conn[x].state \in {"RESOLVE", "OPEN"}
        BY <1>6, <2>2
      <3>2. ASSUME NEW d \in Alive', conn'[d].state = "CHAL",
                   conn'[d].src = conn[x].router, conn'[d].peer = conn[x].id
            PROVE  conn'[d].router = conn[x].src
        <4>1. CASE d = c
          <5>1. f.state = "CHAL" /\ f.src = conn[x].router /\ f.peer = conn[x].id
            BY <1>3, <3>2, <4>1
          <5> PICK p \in net : /\ p.type = "OPEN" /\ p.to = r
                               /\ p.from = f.src /\ p.self = f.peer
            BY <5>1
          <5>2. p.to = conn[x].src
            BY <2>2, <3>1, <5>1 DEF IInv, OneIsAsked
          <5> QED
            BY <1>3, <4>1, <5>2
        <4>2. CASE d \in Alive
          BY <1>6, <2>2, <3>1, <3>2, <4>2 DEF IInv, OneIsAsked
        <4> QED
          BY <1>5, <4>1, <4>2
      <3>3. /\ \A p \in net' : p.type = "OPEN" /\ p.from = conn[x].router /\ p.self = conn[x].id
                                 => p.to = conn[x].src
            /\ \A p \in net' : p.type = "CHAL" /\ p.to = conn[x].router /\ p.id = conn[x].id
                                 => p.from = conn[x].src
        BY <2>2, <3>1 DEF IInv, OneIsAsked
      <3> QED
        BY <3>1, <3>2, <3>3
    <2> QED
      BY <1>5, <2>1, <2>2
  <1>15. ChalIsTrue'
    <2> SUFFICES ASSUME NEW p \in net', p.type = "CHAL", NEW d \in Alive',
                        conn'[d].router = p.from, conn'[d].id = p.self
                 PROVE  Answers(d, p.to, p.id)'
      BY DEF ChalIsTrue, Answers
    <2>1. d # c
      BY <1>3, <1>8 DEF IInv, IdsAreDrawn
    <2> QED
      BY <1>5, <1>6, <2>1 DEF IInv, ChalIsTrue, Answers
  <1>16. PeerAnswers'
    <2> SUFFICES ASSUME NEW x \in Alive', conn'[x].state = "PING", NEW d \in Alive',
                        conn'[d].router = conn'[x].src, conn'[d].id = conn'[x].peer
                 PROVE  Answers(d, conn[x].router, conn[x].id)'
      BY DEF PeerAnswers, Answers
    <2>1. x \in Alive
      BY <1>3, <1>5
    <2>2. d # c
      BY <1>3, <1>6, <1>8, <2>1 DEF IInv, IdsAreDrawn
    <2> QED
      BY <1>5, <1>6, <2>1, <2>2 DEF IInv, PeerAnswers, Answers
  <1> QED
    BY <1>4, <1>11, <1>12, <1>13, <1>14, <1>15, <1>16 DEF IInv

\* The ends of connections, and what is said of their states, stay what they are.
LEMMA EndsAreRight ==
  ASSUME IInv, Shape', map' = map, net' = net, drawn' = drawn, Alive' = Alive,
         \A d \in Alive :
           /\ conn'[d].router = conn[d].router
           /\ conn'[d].id = conn[d].id
           /\ conn'[d].src = conn[d].src
           /\ conn'[d].peer = conn[d].peer
           /\ conn'[d].state = "CHAL" <=> conn[d].state = "CHAL"
           /\ conn'[d].state = "PING" <=> conn[d].state = "PING"
           /\ conn'[d].state \in {"RESOLVE", "OPEN"} <=> conn[d].state \in {"RESOLVE", "OPEN"}
  PROVE  IInv'
  <1>1. IdsAreDrawn'
    BY DEF IInv, IdsAreDrawn, Drawn
  <1>2. IdsAreUnique'
    BY DEF IInv, IdsAreUnique
  <1>3. MapsAreRight'
    BY DEF IInv, MapsAreRight
  <1>4. OneIsAsked'
    BY DEF IInv, OneIsAsked
  <1>5. ChalIsTrue'
    BY DEF IInv, ChalIsTrue, Answers
  <1>6. PeerAnswers'
    BY DEF IInv, PeerAnswers, Answers
  <1> QED
    BY <1>1, <1>2, <1>3, <1>4, <1>5, <1>6 DEF IInv

\* A connection is marked, or goes from RESOLVE to OPEN, or is marked off: its
\* ends stay what they are.
LEMMA MarkIsRight ==
  ASSUME IInv, NEW c \in Alive, NEW st, NEW mark,
         st = conn[c].state \/ (conn[c].state = "RESOLVE" /\ st = "OPEN"),
         conn' = [conn EXCEPT ![c].state = st, ![c].hassend = mark],
         UNCHANGED <<map, net, drawn>>
  PROVE  IInv'
  <1>1. c \in Conns /\ conn[c].state # "FREE"
    BY DEF Alive
  <1>2. \A d \in Conns : /\ conn'[d].router = conn[d].router
                         /\ conn'[d].id = conn[d].id
                         /\ conn'[d].src = conn[d].src
                         /\ conn'[d].peer = conn[d].peer
                         /\ conn'[d].state = IF d = c THEN st ELSE conn[d].state
                         /\ DOMAIN conn'[d] = DOMAIN conn[d]
    BY <1>1 DEF IInv, Shape, Fields
  <1>3. \A d \in Conns :
          /\ conn'[d].state = "FREE" <=> conn[d].state = "FREE"
          /\ conn'[d].state = "CHAL" <=> conn[d].state = "CHAL"
          /\ conn'[d].state = "PING" <=> conn[d].state = "PING"
          /\ conn'[d].state \in {"RESOLVE", "OPEN"} <=> conn[d].state \in {"RESOLVE", "OPEN"}
    <2>1. CASE st = conn[c].state
      BY <1>2, <2>1
    <2>2. CASE conn[c].state = "RESOLVE" /\ st = "OPEN"
      BY <1>2, <2>2
    <2> QED
      BY <2>1, <2>2
  <1>4. Alive' = Alive /\ Alive \subseteq Conns
    BY <1>3 DEF Alive
  <1>5. \A d \in Alive : d \in Conns
    BY <1>4
  <1>6. net' = net /\ map' = map /\ drawn' = drawn
    OBVIOUS
  <1>7. Shape'
    BY <1>1, <1>2, <1>6 DEF IInv, Shape, States
  <1> QED
    BY <1>2, <1>3, <1>4, <1>5, <1>6, <1>7, EndsAreRight

\* A packet more, that says of its sender what is so.
LEMMA PacketIsRight ==
  ASSUME IInv, NEW c \in Alive,
         \/ net' = net \cup {OPEN(c)} /\ conn[c].state = "OPEN"
         \/ net' = net \cup {CHAL(c)} /\ conn[c].state = "CHAL",
         conn' = [conn EXCEPT ![c].hassend = FALSE],
         UNCHANGED <<map, drawn>>
  PROVE  IInv'
  <1>1. c \in Conns
    BY DEF Alive
  <1>2. \A d \in Conns : /\ conn'[d].router = conn[d].router
                         /\ conn'[d].id = conn[d].id
                         /\ conn'[d].src = conn[d].src
                         /\ conn'[d].peer = conn[d].peer
                         /\ conn'[d].state = conn[d].state
                         /\ DOMAIN conn'[d] = DOMAIN conn[d]
    BY <1>1 DEF IInv, Shape, Fields
  <1>3. Alive' = Alive /\ Alive \subseteq Conns
    BY <1>2 DEF Alive
  <1>4. ASSUME NEW p \in net'
        PROVE  \/ p \in net
               \/ /\ p.type = "OPEN" /\ conn[c].state = "OPEN"
                  /\ p.from = conn[c].router /\ p.to = conn[c].src /\ p.self = conn[c].id
               \/ /\ p.type = "CHAL" /\ conn[c].state = "CHAL"
                  /\ p.from = conn[c].router /\ p.to = conn[c].src /\ p.self = conn[c].id
                  /\ p.id = conn[c].peer
    BY DEF OPEN, CHAL
  <1>5. Shape'
    BY <1>1, <1>2, <1>4 DEF IInv, Shape, States
  <1>6. IdsAreDrawn'
    <2>1. ASSUME NEW p \in net'
          PROVE  /\ Drawn(p.from, p.self)
                 /\ p.to \in Routers
                 /\ p.type = "CHAL" => Drawn(p.to, p.id)
      BY <1>4 DEF IInv, IdsAreDrawn
    <2> QED
      BY <1>2, <1>3, <2>1 DEF IInv, IdsAreDrawn, Drawn
  <1>7. IdsAreUnique'
    BY <1>2, <1>3 DEF IInv, IdsAreUnique
  <1>8. MapsAreRight'
    BY <1>2, <1>3 DEF IInv, MapsAreRight
  <1>9. OneIsAsked'
    <2>1. ASSUME NEW x \in Alive, conn[x].state \in {"RESOLVE", "OPEN"}, NEW p \in net'
          PROVE  /\ p.type = "OPEN" /\ p.from = conn[x].router /\ p.self = conn[x].id
                      => p.to = conn[x].src
                 /\ p.type = "CHAL" /\ p.to = conn[x].router /\ p.id = conn[x].id
                      => p.from = conn[x].src
      BY <1>4, <2>1 DEF IInv, OneIsAsked, IdsAreUnique
    <2> QED
      BY <1>2, <1>3, <2>1 DEF IInv, OneIsAsked
  <1>10. ChalIsTrue'
    <2>1. ASSUME NEW p \in net', p.type = "CHAL", NEW d \in Alive,
                 conn[d].router = p.from, conn[d].id = p.self
          PROVE  Answers(d, p.to, p.id)
      BY <1>4, <2>1 DEF IInv, ChalIsTrue, IdsAreUnique, Answers
    <2> QED
      BY <1>2, <1>3, <2>1 DEF ChalIsTrue, Answers
  <1>11. PeerAnswers'
    BY <1>2, <1>3 DEF IInv, PeerAnswers, Answers
  <1> QED
    BY <1>5, <1>6, <1>7, <1>8, <1>9, <1>10, <1>11 DEF IInv

\* A connection in OPEN takes a CHAL with its id.
LEMMA ChalIsRight ==
  ASSUME IInv, NEW p \in net, _tripc_read_chal(p)
  PROVE  IInv'
  <1> DEFINE c == connmap_get(map[p.to], p.id)
             r == p.to
  <1>1. /\ p.type = "CHAL"
        /\ connmap_has(map[r], ids, p.id)
        /\ conn[c].state = "OPEN"
        /\ conn' = [conn EXCEPT ![c].state = "PING", ![c].peer = p.self, ![c].hassend = TRUE]
        /\ map' = map /\ drawn' = drawn
    BY DEF _tripc_read_chal
  <1>2. \A q \in net' : q \in net
    BY ArrivalTakes DEF _tripc_read_chal
  <1>3. c \in Alive /\ conn[c].router = r /\ conn[c].id = p.id
    <2>1. r \in Routers
      BY DEF IInv, IdsAreDrawn
    <2>2. Holds(map[r], connmap_index(p.id), c)
      BY <1>1, <2>1 DEF connmap_has, connmap_get, Holds, IInv, MapsAreRight, IsMap
    <2>3. c \in Alive /\ conn[c].router = r
      BY <2>1, <2>2 DEF IInv, MapsAreRight
    <2>4. ids[c] = p.id
      BY <1>1 DEF connmap_has, connmap_get
    <2> QED
      BY <2>3, <2>4 DEF ids, Alive
  <1>4. p.from = conn[c].src
    BY <1>1, <1>3 DEF IInv, OneIsAsked
  <1> HIDE DEF c
  <1>5. c \in Conns
    BY <1>3 DEF Alive
  <1>6. \A d \in Conns :
          /\ conn'[d].router = conn[d].router
          /\ conn'[d].id = conn[d].id
          /\ conn'[d].src = conn[d].src
          /\ DOMAIN conn'[d] = DOMAIN conn[d]
          /\ conn'[d].peer = IF d = c THEN p.self ELSE conn[d].peer
          /\ conn'[d].state = IF d = c THEN "PING" ELSE conn[d].state
    BY <1>1, <1>5 DEF IInv, Shape, Fields
  <1>7. Alive' = Alive /\ Alive \subseteq Conns
    <2>1. conn[c].state = "OPEN"
      BY <1>1
    <2>2. ASSUME NEW d \in Conns
          PROVE  conn'[d].state = "FREE" <=> conn[d].state = "FREE"
      <3>1. CASE d = c
        BY <1>6, <2>1, <3>1
      <3>2. CASE d # c
        BY <1>6, <3>2
      <3> QED
        BY <3>1, <3>2
    <2> QED
      BY <2>2 DEF Alive
  <1>8. Shape'
    BY <1>1, <1>2, <1>5, <1>6 DEF IInv, Shape, States
  <1>9. IdsAreDrawn'
    <2>1. Drawn(conn[c].src, p.self)
      BY <1>4 DEF IInv, IdsAreDrawn
    <2>2. ASSUME NEW d \in Alive
          PROVE  /\ Drawn(conn'[d].router, conn'[d].id)
                 /\ conn'[d].src \in Routers
                 /\ conn'[d].state \in {"CHAL", "PING"} => Drawn(conn'[d].src, conn'[d].peer)
      BY <1>6, <1>7, <2>1 DEF IInv, IdsAreDrawn
    <2>3. \A q \in net' : /\ Drawn(q.from, q.self)
                          /\ q.to \in Routers
                          /\ q.type = "CHAL" => Drawn(q.to, q.id)
      BY <1>2 DEF IInv, IdsAreDrawn
    <2>4. drawn' = drawn
      BY <1>1
    <2> QED
      BY <1>7, <2>2, <2>3, <2>4 DEF IdsAreDrawn, Drawn
  <1>10. IdsAreUnique'
    BY <1>6, <1>7 DEF IInv, IdsAreUnique
  <1>11. MapsAreRight'
    <2>1. \A d \in Alive : conn'[d].router = conn[d].router /\ conn'[d].id = conn[d].id
      BY <1>6, <1>7
    <2>2. map' = map
      BY <1>1
    <2> QED
      BY <1>7, <2>1, <2>2 DEF IInv, MapsAreRight
  <1>12. OneIsAsked'
    BY <1>2, <1>6, <1>7 DEF IInv, OneIsAsked
  <1>13. \A d \in Alive : \A s, id : Answers(d, s, id) => Answers(d, s, id)'
    BY <1>1, <1>6, <1>7 DEF Answers
  <1>14. ChalIsTrue'
    BY <1>2, <1>6, <1>7, <1>13 DEF IInv, ChalIsTrue
  <1>15. PeerAnswers'
    <2> SUFFICES ASSUME NEW x \in Alive, conn'[x].state = "PING", NEW d \in Alive,
                        conn[d].router = conn[x].src, conn[d].id = conn'[x].peer
                 PROVE  Answers(d, conn[x].router, conn[x].id)
      BY <1>6, <1>7, <1>13 DEF PeerAnswers, Answers
    <2>1. CASE x = c
      <3>1. conn[d].router = p.from /\ conn[d].id = p.self
        BY <1>4, <1>6, <1>7, <2>1
      <3>2. Answers(d, p.to, p.id)
        BY <1>1, <3>1 DEF IInv, ChalIsTrue
      <3> QED
        BY <1>3, <2>1, <3>2
    <2>2. CASE x # c
      BY <1>6, <1>7, <2>2 DEF IInv, PeerAnswers
    <2> QED
      BY <2>1, <2>2
  <1> QED
    BY <1>8, <1>9, <1>10, <1>11, <1>12, <1>14, <1>15 DEF IInv

LEMMA NextIsRight == IInv /\ [Next]_vars => IInv'
  <1> SUFFICES ASSUME IInv, [Next]_vars
               PROVE  IInv'
    OBVIOUS
  <1>1. ASSUME NEW r \in Routers, NEW to \in Routers \ {r}, trip_open_connection(r, to)
        PROVE  IInv'
    <2> DEFINE f == [state |-> "RESOLVE", router |-> r, id |-> NewId(r),
                     src |-> to, peer |-> Nobody, hassend |-> FALSE]
    <2>1. NewConn \in Unused /\ Add(r, NewConn, f) /\ net' = net
      BY <1>1 DEF trip_open_connection, NewConn
    <2>2. /\ DOMAIN f = Fields /\ f.router = r /\ f.id = NewId(r)
          /\ f.src \in Routers /\ f.state = "RESOLVE"
      BY DEF Fields
    <2> HIDE DEF f
    <2> QED
      BY <2>1, <2>2, AddIsRight
  <1>2. ASSUME NEW c \in Conns, _tripc_resolved(c) PROVE IInv'
    <2>1. c \in Alive
      BY <1>2 DEF _tripc_resolved, Alive
    <2> QED
      BY <1>2, <2>1, MarkIsRight DEF _tripc_resolved
  <1>3. ASSUME NEW c \in Conns, Resend(c) PROVE IInv'
    <2>1. c \in Alive
      BY <1>3 DEF Resend, Alive
    <2>2. conn' = [conn EXCEPT ![c].state = conn[c].state, ![c].hassend = TRUE]
      BY <1>3 DEF Resend, IInv, Shape, Fields
    <2> QED
      BY <1>3, <2>1, <2>2, MarkIsRight DEF Resend
  <1>4. ASSUME NEW c \in Conns, GiveUp(c) PROVE IInv'
    BY <1>4, GiveUpIsRight
  <1>5. ASSUME NEW c \in Conns, _tripc_send(c) PROVE IInv'
    <2>1. c \in Alive
      BY <1>5 DEF _tripc_send, Alive
    <2> QED
      BY <1>5, <2>1, PacketIsRight DEF _tripc_send
  <1>6. ASSUME NEW p \in net, _trip_segment_open(p) PROVE IInv'
    <2> DEFINE r == p.to
               f == [state |-> "CHAL", router |-> r, id |-> NewId(r),
                     src |-> p.from, peer |-> p.self, hassend |-> TRUE]
    <2>1. NewConn \in Unused /\ Add(r, NewConn, f) /\ p.type = "OPEN"
      BY <1>6 DEF _trip_segment_open, NewConn
    <2>2. \A q \in net' : q \in net
      BY <1>6, ArrivalTakes DEF _trip_segment_open
    <2>3. r \in Routers /\ p.from \in Routers
      BY DEF IInv, IdsAreDrawn, Drawn
    <2>4. /\ DOMAIN f = Fields /\ f.router = r /\ f.id = NewId(r)
          /\ f.src = p.from /\ f.state = "CHAL" /\ f.peer = p.self
      BY DEF Fields
    <2> HIDE DEF f
    <2> QED
      BY <2>1, <2>2, <2>3, <2>4, AddIsRight
  <1>7. ASSUME NEW p \in net, RejectFull(p) \/ RejectChal(p) PROVE IInv'
    <2>1. \A q \in net' : q \in net
      BY <1>7, ArrivalTakes DEF RejectFull, RejectChal
    <2> QED
      BY <1>7, <2>1, GoneIsRight DEF RejectFull, RejectChal
  <1>8. ASSUME NEW p \in net, RejectRefused(p) \/ Lose(p) PROVE IInv'
    BY <1>8, GoneIsRight DEF RejectRefused, Lose
  <1>9. ASSUME NEW p \in net, _tripc_read_chal(p) PROVE IInv'
    BY <1>9, ChalIsRight
  <1>10. ASSUME NEW r \in Routers, Restart(r) PROVE IInv'
    BY <1>10, RestartIsRight
  <1>11. CASE UNCHANGED vars
    BY <1>11, UnchangedIsRight DEF vars
  <1> QED
    BY <1>1, <1>2, <1>3, <1>4, <1>5, <1>6, <1>7, <1>8, <1>9, <1>10, <1>11
       DEF Next, Receive

\* Both ends agree: a peer that is still there answered this connection and no
\* other (trip.c:697, conn.c:679), with any number of losses, repetitions, late
\* packets and restarts.
THEOREM HandshakeAgrees == Spec => []Agreement
  BY InitIsRight, NextIsRight, RightIsAgreed, PTL DEF Spec

-----------------------------------------------------------------------------
(* Every live connection is in its router's map.                           *)

MapsAreWhole == \A r \in Routers : IsWhole(map[r]) /\ map[r].max = MaxConn[r]

AllAreHeld == \A c \in Alive : Holds(map[conn[c].router], connmap_index(conn[c].id), c)

MapInv == MapsAreWhole /\ AllAreHeld

LEMMA InitIsHeld == Init => MapInv
  <1> SUFFICES ASSUME Init PROVE MapInv
    OBVIOUS
  <1>1. Alive = {}
    BY DEF Init, Alive, Freed
  <1>2. ASSUME NEW r \in Routers PROVE IsWhole(map[r]) /\ map[r].max = MaxConn[r]
    <2>1. IsPower(MaxConn[r])
      BY MaxConnIsPositive, MaxConnIsPower DEF IsPower
    <2>2. map[r] = connmap_init(MaxConn[r])
      BY DEF Init
    <2>3. connmap_init(MaxConn[r]).max = MaxConn[r]
      BY DEF connmap_init
    <2> QED
      BY <2>1, <2>2, <2>3, InitIsWhole
  <1> QED
    BY <1>1, <1>2 DEF MapInv, MapsAreWhole, AllAreHeld

\* The ends of the connections and the maps stay what they are.
LEMMA EndsAreHeld ==
  ASSUME MapInv, map' = map, Alive' = Alive,
         \A d \in Alive : conn'[d].router = conn[d].router /\ conn'[d].id = conn[d].id
  PROVE  MapInv'
  BY DEF MapInv, MapsAreWhole, AllAreHeld

LEMMA AddIsHeld ==
  ASSUME IInv, MapInv, NEW r \in Routers, CanAdd(r), NEW c \in Unused, NEW f,
         Add(r, c, f), f.router = r, f.id = NewId(r), f.state # "FREE"
  PROVE  MapInv'
  <1> DEFINE a == connmap_add(map[r], c)
  <1>1. /\ map' = [map EXCEPT ![r] = a]
        /\ conn' = [conn EXCEPT ![c] = f]
        /\ DOMAIN map = Routers /\ DOMAIN conn = Conns
    BY DEF Add, IInv, Shape
  <1>2. c \in Conns /\ c \notin Alive
    BY DEF Unused
  <1>3. /\ conn'[c] = f
        /\ \A d : d \in Alive' => d = c \/ (d \in Alive /\ conn'[d] = conn[d])
    BY <1>1, <1>2 DEF Alive
  <1>4. map'[r] = a /\ \A s \in Routers : s # r => map'[s] = map[s]
    BY <1>1
  <1>5. \A s \in Routers : IsWhole(map[s]) /\ map[s].max = MaxConn[s]
    BY DEF MapInv, MapsAreWhole
  <1>6. connmap_has_free(map[r]) \/ CanGrow(map[r])
    BY DEF CanAdd
  <1>7. /\ IsWhole(a) /\ a.max = map[r].max
        /\ Holds(a, NextIndex(map[r]), c)
        /\ \A i, d : Holds(map[r], i, d) => Holds(a, i, d)
    BY <1>5, <1>6, AddIsWhole
  <1>8. connmap_index(f.id) = NextIndex(map[r])
    BY DEF NewId, connmap_index
  <1> HIDE DEF a
  <1>9. MapsAreWhole'
    <2>1. \A s \in Routers : IsWhole(map'[s]) /\ map'[s].max = MaxConn[s]
      BY <1>4, <1>5, <1>7
    <2> QED
      BY <2>1, Zenon DEF MapsAreWhole
  <1>10. ASSUME NEW d \in Alive'
         PROVE  Holds(map'[conn'[d].router], connmap_index(conn'[d].id), d)
    <2>1. CASE d = c
      BY <1>3, <1>4, <1>7, <1>8, <2>1
    <2>2. CASE d \in Alive /\ conn'[d] = conn[d]
      <3>1. Holds(map[conn[d].router], connmap_index(conn[d].id), d)
        BY <2>2 DEF MapInv, AllAreHeld
      <3>2. conn[d].router \in Routers
        BY <2>2 DEF IInv, IdsAreDrawn, Drawn
      <3>3. CASE conn[d].router = r
        BY <1>4, <1>7, <2>2, <3>1, <3>3
      <3>4. CASE conn[d].router # r
        BY <1>4, <2>2, <3>1, <3>2, <3>4
      <3> QED
        BY <3>3, <3>4
    <2> QED
      BY <1>3, <2>1, <2>2
  <1> QED
    BY <1>9, <1>10 DEF MapInv, AllAreHeld

LEMMA GiveUpIsHeld ==
  ASSUME IInv, MapInv, NEW c \in Conns, GiveUp(c)
  PROVE  MapInv'
  <1> DEFINE r == conn[c].router
             id == conn[c].id
             e == connmap_del(map[r], ids, id)
  <1>1. c \in Alive /\ r \in Routers
    BY DEF GiveUp, Alive, IInv, IdsAreDrawn, Drawn
  <1>2. /\ map' = [map EXCEPT ![r] = e]
        /\ conn' = [conn EXCEPT ![c] = Freed]
        /\ DOMAIN map = Routers /\ DOMAIN conn = Conns
    BY DEF GiveUp, IInv, Shape
  <1>3. \A s \in Routers : IsWhole(map[s]) /\ map[s].max = MaxConn[s]
    BY DEF MapInv, MapsAreWhole
  <1>4. connmap_has(map[r], ids, id)
    <2>1. Holds(map[r], connmap_index(id), c)
      BY <1>1 DEF MapInv, AllAreHeld
    <2>2. ids[c] = id
      BY DEF ids
    <2>3. DOMAIN map[r].slot = 0..(map[r].cap - 1)
      BY <1>1, <1>3 DEF IsWhole, IsMap
    <2> QED
      BY <2>1, <2>2, <2>3 DEF Holds, connmap_has
  <1>5. /\ IsWhole(e) /\ e.max = map[r].max
        /\ \A i, d : Holds(map[r], i, d) /\ i # connmap_index(id) => Holds(e, i, d)
    BY <1>1, <1>3, <1>4, DelIsWhole
  <1> HIDE DEF e
  <1>6. map'[r] = e /\ \A s \in Routers : s # r => map'[s] = map[s]
    BY <1>1, <1>2
  <1>7. \A d : d \in Alive' => d \in Alive /\ d # c /\ conn'[d] = conn[d]
    BY <1>2 DEF Alive, Freed
  <1>8. MapsAreWhole'
    <2>1. \A s \in Routers : IsWhole(map'[s]) /\ map'[s].max = MaxConn[s]
      BY <1>1, <1>3, <1>5, <1>6
    <2> QED
      BY <2>1, Zenon DEF MapsAreWhole
  <1>9. ASSUME NEW d \in Alive'
        PROVE  Holds(map'[conn'[d].router], connmap_index(conn'[d].id), d)
    <2>1. d \in Alive /\ d # c /\ conn'[d] = conn[d]
      BY <1>7
    <2>2. Holds(map[conn[d].router], connmap_index(conn[d].id), d)
      BY <2>1 DEF MapInv, AllAreHeld
    <2>3. conn[d].router \in Routers
      BY <2>1 DEF IInv, IdsAreDrawn, Drawn
    <2>4. CASE conn[d].router = r
      <3>1. Holds(map[r], connmap_index(id), c)
        BY <1>1 DEF MapInv, AllAreHeld
      <3>2. connmap_index(conn[d].id) # connmap_index(id)
        BY <2>1, <2>2, <2>4, <3>1 DEF Holds
      <3> QED
        BY <1>5, <1>6, <2>1, <2>2, <2>4, <3>2
    <2>5. CASE conn[d].router # r
      BY <1>6, <2>1, <2>2, <2>3, <2>5
    <2> QED
      BY <2>4, <2>5
  <1> QED
    BY <1>8, <1>9 DEF MapInv, AllAreHeld

LEMMA RestartIsHeld ==
  ASSUME IInv, MapInv, NEW r \in Routers, Restart(r)
  PROVE  MapInv'
  <1>1. /\ conn' = [c \in Conns |-> IF c \in ConnsOf(r) THEN Freed ELSE conn[c]]
        /\ map' = [map EXCEPT ![r] = connmap_init(map[r].max)]
        /\ DOMAIN map = Routers
    BY DEF Restart, connmap_clear, IInv, Shape
  <1>2. \A d : d \in Alive' => d \in Alive /\ conn[d].router # r /\ conn'[d] = conn[d]
    BY <1>1 DEF Alive, ConnsOf, Freed
  <1>3. \A s \in Routers : IsWhole(map[s]) /\ map[s].max = MaxConn[s]
    BY DEF MapInv, MapsAreWhole
  <1>4. /\ map'[r] = connmap_init(map[r].max)
        /\ \A s \in Routers : s # r => map'[s] = map[s]
    BY <1>1
  <1>5. IsWhole(map'[r]) /\ map'[r].max = MaxConn[r]
    <2>1. IsPower(map[r].max)
      BY <1>3 DEF IsWhole
    <2> QED
      BY <1>3, <1>4, <2>1, InitIsWhole DEF connmap_init
  <1>6. MapsAreWhole'
    <2>1. \A s \in Routers : IsWhole(map'[s]) /\ map'[s].max = MaxConn[s]
      BY <1>3, <1>4, <1>5
    <2> QED
      BY <2>1, Zenon DEF MapsAreWhole
  <1>7. ASSUME NEW d \in Alive'
        PROVE  Holds(map'[conn'[d].router], connmap_index(conn'[d].id), d)
    <2>1. d \in Alive /\ conn[d].router # r /\ conn'[d] = conn[d] /\ conn[d].router \in Routers
      BY <1>2 DEF IInv, IdsAreDrawn, Drawn
    <2>2. Holds(map[conn[d].router], connmap_index(conn[d].id), d)
      BY <2>1 DEF MapInv, AllAreHeld
    <2> QED
      BY <1>4, <2>1, <2>2
  <1> QED
    BY <1>6, <1>7 DEF MapInv, AllAreHeld

\* One connection changes and keeps its ends.
LEMMA ChangeIsHeld ==
  ASSUME IInv, MapInv, NEW c \in Alive, NEW f, conn' = [conn EXCEPT ![c] = f], map' = map,
         f.router = conn[c].router, f.id = conn[c].id, f.state # "FREE"
  PROVE  MapInv'
  <1>1. DOMAIN conn = Conns /\ c \in Conns
    BY DEF IInv, Shape, Alive
  <1>2. conn'[c] = f /\ \A d \in Conns : d # c => conn'[d] = conn[d]
    BY <1>1
  <1>3. Alive' = Alive
    <2>1. \A d \in Conns : conn'[d].state # "FREE" <=> conn[d].state # "FREE"
      BY <1>2 DEF Alive
    <2> QED
      BY <2>1 DEF Alive
  <1>4. \A d \in Alive : conn'[d].router = conn[d].router /\ conn'[d].id = conn[d].id
    BY <1>2 DEF Alive
  <1> QED
    BY <1>3, <1>4, EndsAreHeld

LEMMA NextIsHeld == IInv /\ MapInv /\ [Next]_vars => MapInv'
  <1> SUFFICES ASSUME IInv, MapInv, [Next]_vars
               PROVE  MapInv'
    OBVIOUS
  <1>1. \A c \in Alive : c \in Conns /\ DOMAIN conn[c] = Fields /\ conn[c].state # "FREE"
    BY DEF IInv, Shape, Alive
  <1>2. ASSUME NEW r \in Routers, NEW to \in Routers \ {r}, trip_open_connection(r, to)
        PROVE  MapInv'
    <2> DEFINE f == [state |-> "RESOLVE", router |-> r, id |-> NewId(r),
                     src |-> to, peer |-> Nobody, hassend |-> FALSE]
    <2>1. NewConn \in Unused /\ Add(r, NewConn, f) /\ CanAdd(r)
      BY <1>2 DEF trip_open_connection, NewConn
    <2>2. f.router = r /\ f.id = NewId(r) /\ f.state # "FREE"
      OBVIOUS
    <2> HIDE DEF f
    <2> QED
      BY <2>1, <2>2, AddIsHeld
  <1>3. ASSUME NEW c \in Conns, _tripc_resolved(c) \/ Resend(c) \/ _tripc_send(c)
        PROVE  MapInv'
    <2>1. c \in Alive /\ map' = map
      BY <1>3 DEF _tripc_resolved, Resend, _tripc_send, Alive
    <2>2. \E f : /\ conn' = [conn EXCEPT ![c] = f]
                 /\ f.router = conn[c].router /\ f.id = conn[c].id /\ f.state # "FREE"
      <3>1. CASE _tripc_resolved(c)
        <4> DEFINE f == [conn[c] EXCEPT !.state = "OPEN", !.hassend = TRUE]
        <4>1. conn' = [conn EXCEPT ![c] = f]
          BY <1>1, <2>1, <3>1 DEF _tripc_resolved, IInv, Shape
        <4>2. f.router = conn[c].router /\ f.id = conn[c].id /\ f.state # "FREE"
          BY <1>1, <2>1 DEF Fields
        <4> QED
          BY <4>1, <4>2
      <3>2. CASE Resend(c)
        <4> DEFINE f == [conn[c] EXCEPT !.hassend = TRUE]
        <4>1. conn' = [conn EXCEPT ![c] = f]
          BY <1>1, <2>1, <3>2 DEF Resend, IInv, Shape
        <4>2. f.router = conn[c].router /\ f.id = conn[c].id /\ f.state # "FREE"
          BY <1>1, <2>1 DEF Fields
        <4> QED
          BY <4>1, <4>2
      <3>3. CASE _tripc_send(c)
        <4> DEFINE f == [conn[c] EXCEPT !.hassend = FALSE]
        <4>1. conn' = [conn EXCEPT ![c] = f]
          BY <1>1, <2>1, <3>3 DEF _tripc_send, IInv, Shape
        <4>2. f.router = conn[c].router /\ f.id = conn[c].id /\ f.state # "FREE"
          BY <1>1, <2>1 DEF Fields
        <4> QED
          BY <4>1, <4>2
      <3> QED
        BY <1>3, <3>1, <3>2, <3>3
    <2> QED
      BY <2>1, <2>2, ChangeIsHeld
  <1>4. ASSUME NEW c \in Conns, GiveUp(c) PROVE MapInv'
    BY <1>4, GiveUpIsHeld
  <1>5. ASSUME NEW p \in net, _trip_segment_open(p) PROVE MapInv'
    <2> DEFINE r == p.to
               f == [state |-> "CHAL", router |-> r, id |-> NewId(r),
                     src |-> p.from, peer |-> p.self, hassend |-> TRUE]
    <2>1. NewConn \in Unused /\ Add(r, NewConn, f) /\ CanAdd(r)
      BY <1>5 DEF _trip_segment_open, NewConn
    <2>2. f.router = r /\ f.id = NewId(r) /\ f.state # "FREE" /\ r \in Routers
      BY DEF IInv, IdsAreDrawn
    <2> HIDE DEF f, r
    <2> QED
      BY <2>1, <2>2, AddIsHeld
  <1>6. ASSUME NEW p \in net, _tripc_read_chal(p) PROVE MapInv'
    <2> DEFINE c == connmap_get(map[p.to], p.id)
               f == [conn[c] EXCEPT !.state = "PING", !.peer = p.self, !.hassend = TRUE]
    <2>1. c \in Alive /\ map' = map
      <3>1. connmap_has(map[p.to], ids, p.id) /\ map' = map
        BY <1>6 DEF _tripc_read_chal
      <3>2. p.to \in Routers
        BY DEF IInv, IdsAreDrawn
      <3>3. Holds(map[p.to], connmap_index(p.id), c)
        BY <3>1, <3>2 DEF connmap_has, connmap_get, Holds, IInv, MapsAreRight, IsMap
      <3> QED
        BY <3>1, <3>2, <3>3 DEF IInv, MapsAreRight
    <2>2. conn' = [conn EXCEPT ![c] = f]
      <3> HIDE DEF c
      <3>1. conn' = [conn EXCEPT ![c].state = "PING", ![c].peer = p.self, ![c].hassend = TRUE]
        BY <1>6 DEF _tripc_read_chal, c
      <3> QED
        BY <1>1, <2>1, <3>1 DEF IInv, Shape
    <2> HIDE DEF c
    <2>3. f.router = conn[c].router /\ f.id = conn[c].id /\ f.state # "FREE"
      BY <1>1, <2>1 DEF Fields
    <2> HIDE DEF f
    <2> QED
      BY <2>1, <2>2, <2>3, ChangeIsHeld
  <1>7. ASSUME NEW p \in net, RejectFull(p) \/ RejectChal(p) \/ RejectRefused(p) \/ Lose(p)
        PROVE  MapInv'
    <2>1. map' = map /\ conn' = conn
      BY <1>7 DEF RejectFull, RejectChal, RejectRefused, Lose
    <2>2. Alive' = Alive
      BY <2>1 DEF Alive
    <2> QED
      BY <2>1, <2>2, EndsAreHeld
  <1>8. ASSUME NEW r \in Routers, Restart(r) PROVE MapInv'
    BY <1>8, RestartIsHeld
  <1>9. CASE UNCHANGED vars
    <2>1. map' = map /\ conn' = conn
      BY <1>9 DEF vars
    <2>2. Alive' = Alive
      BY <2>1 DEF Alive
    <2> QED
      BY <2>1, <2>2, EndsAreHeld
  <1> QED
    BY <1>2, <1>3, <1>4, <1>5, <1>6, <1>7, <1>8, <1>9 DEF Next, Receive

\* The full slots of a map and the connections of its router are as many.
LEMMA HeldIsLive == IInv /\ MapInv => MapHoldsLive
  <1> SUFFICES ASSUME IInv, MapInv, NEW r \in Routers
               PROVE  /\ map[r].size = Cardinality(ConnsOf(r))
                      /\ \A c \in ConnsOf(r) : /\ connmap_has(map[r], ids, conn[c].id)
                                              /\ connmap_get(map[r], conn[c].id) = c
    BY DEF MapHoldsLive
  <1> DEFINE m == map[r]
             F == (0..(m.cap - 1)) \ EmptySlots(m)
             C == ConnsOf(r)
             g == [i \in F |-> m.slot[i].u]
  <1>1. IsWhole(m) /\ DOMAIN m.slot = 0..(m.cap - 1)
    BY DEF MapInv, MapsAreWhole, IsWhole, IsMap
  <1>2. \A c \in C : Holds(m, connmap_index(conn[c].id), c)
    BY DEF MapInv, AllAreHeld, ConnsOf
  <1>3. \A i, c : Holds(m, i, c) => c \in C /\ connmap_index(conn[c].id) = i
    BY DEF IInv, MapsAreRight, ConnsOf
  <1>4. IsFiniteSet(F) /\ Cardinality(F) = m.size
    BY <1>1, FullAreCounted
  <1>5. \A i : i \in F <=> i \in DOMAIN m.slot /\ m.slot[i].isfull
    BY <1>1 DEF EmptySlots
  <1> HIDE DEF m, F, C
  <1>6. \A i \in F : Holds(m, i, g[i])
    BY <1>5 DEF Holds
  <1>7. g \in Bijection(F, C)
    <2>1. g \in [F -> C]
      BY <1>3, <1>6
    <2>2. ASSUME NEW i \in F, NEW j \in F, g[i] = g[j] PROVE i = j
      BY <1>3, <1>6, <2>2
    <2>3. ASSUME NEW c \in C PROVE \E i \in F : g[i] = c
      BY <1>2, <1>5 DEF Holds
    <2> HIDE DEF g
    <2> QED
      BY <2>1, <2>2, <2>3 DEF Bijection, Injection, Surjection, IsInjective
  <1>8. Cardinality(C) = m.size
    <2>1. ExistsBijection(F, C)
      BY <1>7 DEF ExistsBijection
    <2> QED
      BY <1>4, <2>1, FS_Bijection
  <1>9. ASSUME NEW c \in C
        PROVE  connmap_has(m, ids, conn[c].id) /\ connmap_get(m, conn[c].id) = c
    <2>1. ids[c] = conn[c].id
      BY DEF ids, C, ConnsOf, Alive
    <2> QED
      BY <1>1, <1>2, <2>1 DEF Holds, connmap_has, connmap_get
  <1> QED
    BY <1>8, <1>9 DEF m, C

LEMMA WholeIsListed == MapInv => FreeListWhole
  BY WholeIsWalked DEF MapInv, MapsAreWhole, FreeListWhole

THEOREM Invariant == Spec => [](IInv /\ MapInv)
  <1>1. Init => IInv /\ MapInv
    BY InitIsRight, InitIsHeld
  <1>2. IInv /\ MapInv /\ [Next]_vars => (IInv /\ MapInv)'
    BY NextIsRight, NextIsHeld
  <1> QED
    BY <1>1, <1>2, PTL DEF Spec

\* Every connection of a router, and no other, is found in its map under its own
\* id, whatever has been added, deleted and grown before (connmap.c:217-236).
THEOREM MapHoldsLiveAlways == Spec => []MapHoldsLive
  BY Invariant, HeldIsLive, PTL

\* The free list runs once through every empty slot, for a map of any size
\* (connmap.c:41-57, 133-167).
THEOREM FreeListIsWhole == Spec => []FreeListWhole
  BY Invariant, WholeIsListed, PTL

-----------------------------------------------------------------------------
(* Types.                                                                  *)

\* What a connection's fields are, free or not.
FieldsFit(q) ==
  IF q.state = "FREE" THEN q = Freed
  ELSE /\ q.state \in {"RESOLVE", "OPEN", "CHAL", "PING"}
       /\ q.router \in Routers
       /\ q.src \in Routers \ {q.router}
       /\ q.id \in Ids
       /\ IF q.state \in {"CHAL", "PING"} THEN q.peer \in Ids ELSE q.peer = Nobody

\* A router whose application opens nothing only answers.
OnlyOpeners ==
  \A c \in Alive : conn[c].router \notin Openers => conn[c].state = "CHAL"

\* Nobody asks itself.
NoneToSelf == \A p \in net : p.from # p.to

TypeInv ==
  /\ \A c \in Conns : FieldsFit(conn[c])
  /\ net \subseteq Packets
  /\ NoneToSelf
  /\ opened \in [Routers -> 0..MaxOpens]
  /\ faults \in 0..MaxFaults
  /\ OnlyOpeners

LEMMA InitIsTyped == Init => TypeInv
  <1> SUFFICES ASSUME Init PROVE TypeInv
    OBVIOUS
  <1>1. \A c \in Conns : conn[c] = Freed
    BY DEF Init
  <1>2. Freed.state = "FREE"
    BY DEF Freed
  <1> QED
    BY <1>1, <1>2, BoundsAreNat
       DEF Init, TypeInv, FieldsFit, NoneToSelf, OnlyOpeners, Alive

\* Types do not speak of maps.
LEMMA TypedIsTyped == MapInv /\ TypeInv => TypeOK
  <1> SUFFICES ASSUME MapInv, TypeInv PROVE TypeOK
    OBVIOUS
  <1>1. ASSUME NEW r \in Routers PROVE map[r].cap \in 0..MaxConn[r]
    <2>1. IsWhole(map[r]) /\ map[r].max = MaxConn[r] /\ map[r].cap \in Nat /\ MaxConn[r] \in Nat
      BY MaxConnIsPositive DEF MapInv, MapsAreWhole, IsWhole, IsMap
    <2>2. CASE map[r].cap = 0
      BY <2>1, <2>2
    <2>3. CASE map[r].cap # 0
      <3>1. PICK k \in 1..MaxConn[r] : MaxConn[r] = k * map[r].cap
        BY <2>1, <2>3 DEF IsWhole
      <3>2. \A n \in Nat : k * n >= n
        BY <2>1
      <3> QED
        BY <2>1, <3>1, <3>2
    <2> QED
      BY <2>2, <2>3
  <1>2. \A c \in Unused : conn[c] = Freed
    BY DEF TypeInv, FieldsFit, Unused, Alive
  <1>3. \A c \in Alive : conn[c].state # "FREE" /\ FieldsFit(conn[c])
    BY DEF TypeInv, Alive
  <1> QED
    BY <1>1, <1>2, <1>3 DEF TypeInv, TypeOK, FieldsFit

\* Some packets are gone, and one connection at most changes.
LEMMA ChangeIsTyped ==
  ASSUME IInv, TypeInv, net' \subseteq net,
         opened' \in [Routers -> 0..MaxOpens], faults' \in 0..MaxFaults,
         NEW c \in Conns, NEW f, conn' = [conn EXCEPT ![c] = f],
         FieldsFit(f), f.state # "FREE" /\ f.router \notin Openers => f.state = "CHAL"
  PROVE  TypeInv'
  <1>1. conn'[c] = f /\ \A d \in Conns : d # c => conn'[d] = conn[d]
    BY DEF IInv, Shape
  <1>2. \A d \in Conns : FieldsFit(conn'[d])
    BY <1>1 DEF TypeInv
  <1>3. OnlyOpeners'
    BY <1>1 DEF TypeInv, OnlyOpeners, Alive
  <1>4. net' \subseteq Packets /\ NoneToSelf'
    BY DEF TypeInv, NoneToSelf
  <1> QED
    BY <1>2, <1>3, <1>4 DEF TypeInv, FieldsFit

LEMMA ArrivalIsTyped ==
  ASSUME TypeInv, NEW p \in net, Arrives(p)
  PROVE  net' \subseteq net /\ faults' \in 0..MaxFaults
  BY BoundsAreNat DEF TypeInv, Arrives

LEMMA NewIdIsId ==
  ASSUME IInv, MapInv, NEW r \in Routers, CanAdd(r)
  PROVE  NewId(r) \in Ids
  <1>1. drawn[r] \in Nat
    BY DEF IInv, Shape
  <1>2. NextIndex(map[r]) \in Nat
    BY AddIsWhole DEF MapInv, MapsAreWhole, CanAdd
  <1> QED
    BY <1>1, <1>2 DEF NewId, Ids

LEMMA NextIsTyped == IInv /\ MapInv /\ TypeInv /\ [Next]_vars => TypeInv'
  <1> SUFFICES ASSUME IInv, MapInv, TypeInv, [Next]_vars
               PROVE  TypeInv'
    OBVIOUS
  <1>1. /\ opened \in [Routers -> 0..MaxOpens] /\ faults \in 0..MaxFaults
        /\ net \subseteq net /\ net \subseteq Packets /\ NoneToSelf
        /\ \A c \in Conns : FieldsFit(conn[c])
    BY DEF TypeInv
  <1>2. \A c \in Alive : c \in Conns /\ DOMAIN conn[c] = Fields /\ conn[c].state # "FREE"
    BY DEF IInv, Shape, Alive
  <1>3. ASSUME NEW r \in Routers, NEW to \in Routers \ {r}, trip_open_connection(r, to)
        PROVE  TypeInv'
    <2> DEFINE f == [state |-> "RESOLVE", router |-> r, id |-> NewId(r),
                     src |-> to, peer |-> Nobody, hassend |-> FALSE]
    <2>1. /\ NewConn \in Conns /\ conn' = [conn EXCEPT ![NewConn] = f]
          /\ CanAdd(r) /\ r \in Openers /\ net' = net /\ faults' = faults
          /\ opened' = [opened EXCEPT ![r] = @ + 1] /\ opened[r] < MaxOpens
      BY <1>3 DEF trip_open_connection, NewConn, Unused, Add
    <2>2. NewId(r) \in Ids
      BY <2>1, NewIdIsId
    <2>3. FieldsFit(f) /\ f.router \in Openers
      BY <2>1, <2>2 DEF FieldsFit
    <2> HIDE DEF f
    <2>4. opened' \in [Routers -> 0..MaxOpens]
      <3>1. opened[r] + 1 \in 0..MaxOpens
        BY <1>1, <2>1, BoundsAreNat
      <3> QED
        BY <1>1, <2>1, <3>1
    <2> QED
      BY <1>1, <2>1, <2>3, <2>4, ChangeIsTyped
  <1>4. ASSUME NEW c \in Conns, _tripc_resolved(c) \/ Resend(c)
        PROVE  TypeInv'
    <2> DEFINE f == [conn[c] EXCEPT !.state = "OPEN", !.hassend = TRUE]
    <2>1. /\ c \in Alive /\ conn[c].state \in {"RESOLVE", "OPEN"}
          /\ net' = net /\ opened' = opened /\ faults' = faults
      BY <1>4 DEF _tripc_resolved, Resend, Alive
    <2>2. conn' = [conn EXCEPT ![c] = f]
      <3>1. CASE _tripc_resolved(c)
        BY <1>2, <2>1, <3>1 DEF _tripc_resolved, IInv, Shape
      <3>2. CASE Resend(c)
        <4>1. conn[c].state = "OPEN" /\ conn' = [conn EXCEPT ![c].hassend = TRUE]
          BY <3>2 DEF Resend
        <4>2. f = [conn[c] EXCEPT !.hassend = TRUE]
          BY <1>2, <2>1, <4>1 DEF Fields
        <4> QED
          BY <1>2, <2>1, <4>1, <4>2 DEF IInv, Shape
      <3> QED
        BY <1>4, <3>1, <3>2
    <2>3. FieldsFit(conn[c]) /\ conn[c].router \in Openers
      BY <2>1 DEF TypeInv, OnlyOpeners
    <2>4. /\ f.state = "OPEN" /\ f.router = conn[c].router /\ f.id = conn[c].id
          /\ f.src = conn[c].src /\ f.peer = conn[c].peer
      BY <1>2, <2>1 DEF Fields
    <2> HIDE DEF f
    <2>5. FieldsFit(f)
      BY <2>1, <2>3, <2>4 DEF FieldsFit
    <2> QED
      BY <1>1, <2>1, <2>2, <2>3, <2>4, <2>5, ChangeIsTyped
  <1>5. ASSUME NEW c \in Conns, GiveUp(c) PROVE TypeInv'
    <2>1. FieldsFit(Freed) /\ Freed.state = "FREE"
      BY DEF FieldsFit, Freed
    <2>2. conn' = [conn EXCEPT ![c] = Freed] /\ net' = net /\ opened' = opened /\ faults' = faults
      BY <1>5 DEF GiveUp
    <2> QED
      BY <1>1, <2>1, <2>2, ChangeIsTyped
  <1>6. ASSUME NEW c \in Conns, _tripc_send(c) PROVE TypeInv'
    <2> DEFINE f == [conn[c] EXCEPT !.hassend = FALSE]
    <2>1. c \in Alive /\ conn[c].state \in {"OPEN", "CHAL"} /\ opened' = opened /\ faults' = faults
      BY <1>6 DEF _tripc_send, Alive
    <2>2. conn' = [conn EXCEPT ![c] = f]
      BY <1>2, <1>6, <2>1 DEF _tripc_send, IInv, Shape
    <2>3. /\ f.state = conn[c].state /\ f.router = conn[c].router /\ f.id = conn[c].id
          /\ f.src = conn[c].src /\ f.peer = conn[c].peer
      BY <1>2, <2>1 DEF Fields
    <2> HIDE DEF f
    <2>4. /\ conn[c].router \in Routers /\ conn[c].src \in Routers \ {conn[c].router}
          /\ conn[c].id \in Ids
          /\ conn[c].state = "CHAL" => conn[c].peer \in Ids
      BY <1>1, <2>1 DEF FieldsFit
    <2>5. ASSUME NEW p \in net' PROVE p \in Packets /\ p.from # p.to
      <3>1. CASE p \in net
        BY <1>1, <3>1 DEF NoneToSelf
      <3>2. CASE p = OPEN(c)
        BY <2>4, <3>2 DEF OPEN, Packets
      <3>3. CASE p = CHAL(c) /\ conn[c].state = "CHAL"
        BY <2>4, <3>3 DEF CHAL, Packets
      <3> QED
        BY <1>6, <2>1, <3>1, <3>2, <3>3 DEF _tripc_send
    <2>6. \A d \in Conns : FieldsFit(conn'[d])
      <3>1. FieldsFit(f)
        BY <1>1, <2>1, <2>3 DEF FieldsFit
      <3> QED
        BY <1>1, <2>2, <3>1 DEF IInv, Shape
    <2>7. OnlyOpeners'
      BY <2>2, <2>3 DEF IInv, Shape, TypeInv, OnlyOpeners, Alive
    <2> QED
      BY <1>1, <2>1, <2>5, <2>6, <2>7 DEF TypeInv, NoneToSelf, FieldsFit
  <1>7. ASSUME NEW p \in net, _trip_segment_open(p) PROVE TypeInv'
    <2> DEFINE r == p.to
               f == [state |-> "CHAL", router |-> r, id |-> NewId(r),
                     src |-> p.from, peer |-> p.self, hassend |-> TRUE]
    <2>1. /\ NewConn \in Conns /\ conn' = [conn EXCEPT ![NewConn] = f]
          /\ CanAdd(r) /\ opened' = opened /\ Arrives(p) /\ p.type = "OPEN"
      BY <1>7 DEF _trip_segment_open, NewConn, Unused, Add
    <2>2. p.from \in Routers \ {r} /\ p.self \in Ids /\ r \in Routers
      <3>1. p \in Packets /\ p.from # p.to
        BY <1>1 DEF NoneToSelf
      <3> QED
        BY <3>1 DEF Packets
    <2>3. NewId(r) \in Ids
      BY <2>1, <2>2, NewIdIsId
    <2>4. FieldsFit(f) /\ f.state = "CHAL"
      BY <2>2, <2>3 DEF FieldsFit
    <2> HIDE DEF f
    <2>5. net' \subseteq net /\ faults' \in 0..MaxFaults
      BY <2>1, ArrivalIsTyped
    <2> QED
      BY <1>1, <2>1, <2>4, <2>5, ChangeIsTyped
  <1>8. ASSUME NEW p \in net, _tripc_read_chal(p) PROVE TypeInv'
    <2> DEFINE c == connmap_get(map[p.to], p.id)
               f == [conn[c] EXCEPT !.state = "PING", !.peer = p.self, !.hassend = TRUE]
    <2>1. c \in Alive /\ conn[c].state = "OPEN"
      <3>1. connmap_has(map[p.to], ids, p.id) /\ conn[c].state = "OPEN"
        BY <1>8 DEF _tripc_read_chal
      <3>2. p.to \in Routers
        BY DEF IInv, IdsAreDrawn
      <3>3. Holds(map[p.to], connmap_index(p.id), c)
        BY <3>1, <3>2 DEF connmap_has, connmap_get, Holds, IInv, MapsAreRight, IsMap
      <3> QED
        BY <3>1, <3>2, <3>3 DEF IInv, MapsAreRight
    <2>2. conn' = [conn EXCEPT ![c] = f]
      <3> HIDE DEF c
      <3>1. conn' = [conn EXCEPT ![c].state = "PING", ![c].peer = p.self, ![c].hassend = TRUE]
        BY <1>8 DEF _tripc_read_chal, c
      <3> QED
        BY <1>2, <2>1, <3>1 DEF IInv, Shape
    <2> HIDE DEF c
    <2>3. /\ f.state = "PING" /\ f.router = conn[c].router /\ f.id = conn[c].id
          /\ f.src = conn[c].src /\ f.peer = p.self
      BY <1>2, <2>1 DEF Fields
    <2> HIDE DEF f
    <2>4. p.self \in Ids
      BY <1>1 DEF Packets
    <2>5. FieldsFit(f)
      BY <1>1, <1>2, <2>1, <2>3, <2>4 DEF FieldsFit
    <2>6. conn[c].router \in Openers
      BY <2>1 DEF TypeInv, OnlyOpeners
    <2>7. net' \subseteq net /\ faults' \in 0..MaxFaults /\ opened' = opened
      BY <1>8, ArrivalIsTyped DEF _tripc_read_chal
    <2> QED
      BY <1>1, <1>2, <2>1, <2>2, <2>3, <2>5, <2>6, <2>7, ChangeIsTyped
  <1>9. ASSUME conn' = conn, opened' = opened, net' \subseteq net, faults' \in 0..MaxFaults
        PROVE  TypeInv'
    BY <1>9 DEF TypeInv, NoneToSelf, OnlyOpeners, Alive, FieldsFit
  <1>10. ASSUME NEW p \in net, RejectFull(p) \/ RejectChal(p) PROVE TypeInv'
    BY <1>9, <1>10, ArrivalIsTyped DEF RejectFull, RejectChal
  <1>11. ASSUME NEW p \in net, RejectRefused(p) \/ Lose(p) PROVE TypeInv'
    <2>1. faults' \in 0..MaxFaults /\ net' \subseteq net /\ conn' = conn /\ opened' = opened
      BY <1>1, <1>11, BoundsAreNat DEF RejectRefused, Lose
    <2> QED
      BY <1>9, <2>1
  <1>12. ASSUME NEW r \in Routers, Restart(r) PROVE TypeInv'
    <2>1. /\ conn' = [c \in Conns |-> IF c \in ConnsOf(r) THEN Freed ELSE conn[c]]
          /\ net' = net /\ opened' = opened /\ faults' \in 0..MaxFaults
      BY <1>1, <1>12, BoundsAreNat DEF Restart
    <2>2. FieldsFit(Freed) /\ Freed.state = "FREE"
      BY DEF FieldsFit, Freed
    <2>3. \A d \in Conns : FieldsFit(conn'[d]) /\ (conn'[d] = Freed \/ conn'[d] = conn[d])
      BY <1>1, <2>1, <2>2
    <2>4. OnlyOpeners'
      BY <2>2, <2>3 DEF TypeInv, OnlyOpeners, Alive
    <2> QED
      BY <1>1, <2>1, <2>3, <2>4 DEF TypeInv, NoneToSelf, FieldsFit
  <1>13. CASE UNCHANGED vars
    BY <1>1, <1>9, <1>13 DEF vars
  <1> QED
    BY <1>3, <1>4, <1>5, <1>6, <1>7, <1>8, <1>10, <1>11, <1>12, <1>13 DEF Next, Receive

THEOREM Typed == Spec => []TypeInv
  <1>1. IInv /\ MapInv /\ TypeInv /\ [Next]_vars => TypeInv'
    BY NextIsTyped
  <1> QED
    BY <1>1, InitIsTyped, Invariant, PTL DEF Spec

\* Connections, packets, maps and counts have their types, whatever the number of
\* routers, connections and faults.
THEOREM TypeCorrect == Spec => []TypeOK
  BY Typed, Invariant, TypedIsTyped, PTL

-----------------------------------------------------------------------------
(* The refinement.                                                         *)

LEMMA EndsDiffer == \A r, i, s, j : End(r, i) = End(s, j) <=> r = s /\ i = j
  BY DEF End

\* A name in use has been drawn.
LEMMA NamesAreDrawn ==
  ASSUME IInv, NEW a \in Promise!InUse
  PROVE  \E r, id : Drawn(r, id) /\ a = End(r, id)
  <1>1. \A c \in Alive :
          /\ Drawn(conn[c].router, conn[c].id)
          /\ conn[c].state \in {"CHAL", "PING"} => Drawn(conn[c].src, conn[c].peer)
    BY DEF IInv, IdsAreDrawn
  <1>2. \A p \in net : Drawn(p.from, p.self) /\ (p.type = "CHAL" => Drawn(p.to, p.id))
    BY DEF IInv, IdsAreDrawn
  <1> HIDE DEF End, Drawn
  <1>3. CASE a \in Waiting
    BY <1>1, <1>3 DEF Waiting, Self
  <1>4. CASE a \in Requests
    BY <1>1, <1>2, <1>4 DEF Requests, Waiting, Self
  <1>5. CASE a \in Promise!NamesIn(Offers)
    <2>1. PICK o \in Offers : a = o[1] \/ a = o[2]
      BY <1>5 DEF Promise!NamesIn
    <2>2. CASE \E c \in Alive : conn[c].state = "CHAL" /\ o = <<Peer(c), Self(c)>>
      BY <1>1, <2>1, <2>2 DEF Peer, Self
    <2>3. CASE \E p \in net : p.type = "CHAL" /\ o = <<End(p.to, p.id), End(p.from, p.self)>>
      BY <1>2, <2>1, <2>3
    <2> QED
      BY <2>2, <2>3 DEF Offers
  <1>6. CASE a \in Promise!NamesIn(Sessions)
    <2>1. PICK s \in Sessions : a = s[1] \/ a = s[2]
      BY <1>6 DEF Promise!NamesIn
    <2>2. PICK c \in Alive : conn[c].state = "PING" /\ s = <<Self(c), Peer(c)>>
      BY DEF Sessions
    <2> QED
      BY <1>1, <2>1, <2>2 DEF Peer, Self
  <1> QED
    BY <1>3, <1>4, <1>5, <1>6 DEF Promise!InUse

LEMMA NewIsUnused ==
  ASSUME IInv, NEW r \in Routers
  PROVE  End(r, NewId(r)) \notin Promise!InUse
  <1>1. ~Drawn(r, NewId(r))
    BY DEF Drawn, NewId, IInv, Shape
  <1> QED
    BY <1>1, NamesAreDrawn, EndsDiffer

\* Packets are gone and connections that only answered.
LEMMA FewerFade ==
  ASSUME \A p \in net' : p \in net,
         \A c \in Alive' : c \in Alive /\ conn'[c] = conn[c],
         \A c \in Alive : conn[c].state # "CHAL" => c \in Alive' /\ conn'[c] = conn[c]
  PROVE  Promise!Fade
  <1> HIDE DEF End
  <1>1. Waiting' = Waiting
    BY DEF Waiting, Self
  <1>2. Sessions' = Sessions
    BY DEF Sessions, Self, Peer
  <1>3. Requests' \subseteq Requests
    BY <1>1 DEF Requests
  <1>4. Offers' \subseteq Offers
    BY DEF Offers, Self, Peer
  <1> QED
    BY <1>1, <1>2, <1>3, <1>4 DEF Promise!Fade, Promise!Fading

\* Connections keep their ends, and a packet more says what its sender is.
LEMMA EndsAreKept ==
  ASSUME Alive' = Alive,
         \A d \in Alive :
           /\ conn'[d].router = conn[d].router
           /\ conn'[d].id = conn[d].id
           /\ conn'[d].src = conn[d].src
           /\ conn'[d].peer = conn[d].peer
           /\ conn'[d].state = "CHAL" <=> conn[d].state = "CHAL"
           /\ conn'[d].state = "PING" <=> conn[d].state = "PING"
           /\ conn'[d].state \in {"RESOLVE", "OPEN"} <=> conn[d].state \in {"RESOLVE", "OPEN"},
         \A p \in net : p \in net',
         \A p \in net' :
           \/ p \in net
           \/ \E c \in Alive : \/ p = OPEN(c) /\ conn[c].state = "OPEN"
                               \/ p = CHAL(c) /\ conn[c].state = "CHAL"
  PROVE  UNCHANGED Promise!vars
  <1>1. \A d \in Alive : /\ (End(conn[d].router, conn[d].id))' = End(conn[d].router, conn[d].id)
                         /\ (End(conn[d].src, conn[d].peer))' = End(conn[d].src, conn[d].peer)
    BY DEF End
  <1>2. Waiting' = Waiting
    BY DEF Waiting, Self, End
  <1>3. Sessions' = Sessions
    BY DEF Sessions, Self, Peer, End
  <1>4. \A p \in net' :
          \/ p \in net
          \/ \E c \in Alive : /\ p.type = "OPEN" /\ conn[c].state = "OPEN"
                              /\ End(p.from, p.self) = Self(c)
          \/ \E c \in Alive : /\ p.type = "CHAL" /\ conn[c].state = "CHAL"
                              /\ End(p.from, p.self) = Self(c)
                              /\ End(p.to, p.id) = Peer(c)
    BY DEF OPEN, CHAL, Self, Peer
  <1> HIDE DEF End
  <1>5. Requests' = Requests
    <2>1. ASSUME NEW p \in net', p.type = "OPEN" PROVE End(p.from, p.self) \in Requests
      BY <1>4, <2>1 DEF Requests, Waiting
    <2>2. ASSUME NEW a \in Requests PROVE a \in Requests'
      BY <1>2 DEF Requests
    <2>3. ASSUME NEW a \in Requests' PROVE a \in Requests
      BY <1>2, <2>1 DEF Requests
    <2> QED
      BY <2>2, <2>3
  <1>6. Offers' = Offers
    <2> DEFINE Answered == {<<Peer(c), Self(c)>> : c \in {c \in Alive : conn[c].state = "CHAL"}}
               Sent == {<<End(p.to, p.id), End(p.from, p.self)>> : p \in {p \in net : p.type = "CHAL"}}
    <2>1. Answered' = Answered
      BY DEF Self, Peer, End
    <2>2. \A p \in net' : p.type = "CHAL"
             => <<End(p.to, p.id), End(p.from, p.self)>> \in Answered \cup Sent
      BY <1>4
    <2>3. Offers = Answered \cup Sent
      BY DEF Offers
    <2>4. Offers' = Answered' \cup Sent'
      BY DEF Offers
    <2>5. Sent \subseteq Sent'
      OBVIOUS
    <2>6. Sent' \subseteq Answered \cup Sent
      BY <2>2
    <2> HIDE DEF Answered, Sent
    <2> QED
      BY <2>1, <2>3, <2>4, <2>5, <2>6
  <1> QED
    BY <1>2, <1>3, <1>5, <1>6 DEF Promise!vars

\* A connection that waits, or answers an OPEN, is new.
LEMMA AddIsAsked ==
  ASSUME IInv, NEW r \in Routers, NEW c \in Unused, NEW f,
         Add(r, c, f), f.router = r, f.id = NewId(r),
         \A p \in net' : p \in net,
         \A p \in net : p.type = "CHAL" => p \in net'
  PROVE  /\ (f.state = "RESOLVE" /\ net' = net) => \E a \in Waiting' : Promise!Ask(a)
         /\ (f.state = "CHAL" /\ End(f.src, f.peer) \in Requests)
              => \E o \in Offers' : Promise!Offer(o[1], o[2])
  <1> DEFINE a == End(r, NewId(r))
  <1>1. /\ c \in Conns /\ c \notin Alive /\ conn' = [conn EXCEPT ![c] = f]
    BY DEF Unused, Add
  <1>2. conn'[c] = f
    BY <1>1 DEF IInv, Shape
  <1>3. \A d \in Alive : d \in Alive' /\ d # c /\ conn'[d] = conn[d]
    BY <1>1 DEF IInv, Shape, Alive
  <1>4. \A d \in Alive' : d = c \/ d \in Alive
    BY <1>1 DEF IInv, Shape, Alive
  <1>5. a \notin Promise!InUse /\ a = End(f.router, f.id)
    BY NewIsUnused
  <1>6. f.state # "FREE" => c \in Alive'
    BY <1>1, <1>2 DEF Alive
  <1> HIDE DEF End, a
  <1>7. Sessions' = Sessions \/ f.state = "PING"
    BY <1>2, <1>3, <1>4 DEF Sessions, Self, Peer
  <1>8. ASSUME f.state = "RESOLVE", net' = net
        PROVE  \E b \in Waiting' : Promise!Ask(b)
    <2>1. Waiting' = Waiting \cup {a}
      BY <1>2, <1>3, <1>4, <1>5, <1>6, <1>8 DEF Waiting, Self
    <2>2. Requests' = Requests \cup {a}
      BY <2>1, <1>8 DEF Requests
    <2>3. Offers' = Offers
      BY <1>2, <1>3, <1>4, <1>8 DEF Offers, Self, Peer
    <2> QED
      BY <1>5, <1>7, <1>8, <2>1, <2>2, <2>3 DEF Promise!Ask
  <1>9. ASSUME f.state = "CHAL", End(f.src, f.peer) \in Requests
        PROVE  \E o \in Offers' : Promise!Offer(o[1], o[2])
    <2> DEFINE b == End(f.src, f.peer)
               Answered == {<<Peer(d), Self(d)>> : d \in {d \in Alive : conn[d].state = "CHAL"}}
               Sent == {<<End(p.to, p.id), End(p.from, p.self)>> : p \in {p \in net : p.type = "CHAL"}}
    <2>1. Waiting' = Waiting
      BY <1>2, <1>3, <1>4, <1>9 DEF Waiting, Self
    <2>2. Requests' \subseteq Requests
      BY <2>1 DEF Requests
    <2>3. Answered' = Answered \cup {<<b, a>>}
      BY <1>2, <1>3, <1>4, <1>5, <1>6, <1>9 DEF Self, Peer
    <2>4. Sent' = Sent
      OBVIOUS
    <2>5. Offers = Answered \cup Sent /\ Offers' = Answered' \cup Sent'
      BY DEF Offers
    <2> HIDE DEF b, Answered, Sent
    <2>6. Offers' = Offers \cup {<<b, a>>}
      BY <2>3, <2>4, <2>5
    <2>7. Promise!Offer(b, a)
      BY <1>5, <1>7, <1>9, <2>1, <2>2, <2>6 DEF Promise!Offer, b
    <2>8. <<b, a>>[1] = b /\ <<b, a>>[2] = a /\ <<b, a>> \in Offers'
      BY <2>6
    <2> QED
      BY <2>7, <2>8
  <1> QED
    BY <1>8, <1>9

\* A connection that is given up ends its attempt, or its session.
LEMMA GiveUpEnds ==
  ASSUME IInv, NEW c \in Conns, GiveUp(c)
  PROVE  \E a \in Waiting \cup Promise!NamesIn(Sessions) : Promise!End(a)
  <1> DEFINE a == Self(c)
  <1>1. /\ c \in Alive /\ conn[c].state \in {"RESOLVE", "OPEN", "PING"}
        /\ conn' = [conn EXCEPT ![c] = Freed] /\ net' = net
    BY DEF GiveUp, Alive
  <1>2. \A d \in Alive' : d \in Alive /\ d # c /\ conn'[d] = conn[d]
    BY <1>1 DEF IInv, Shape, Alive, Freed
  <1>3. \A d \in Alive : d # c => d \in Alive' /\ conn'[d] = conn[d]
    BY <1>1 DEF IInv, Shape, Alive
  <1>4. \A d \in Alive : Self(d) = a => d = c
    BY <1>1, EndsDiffer DEF Self, IInv, IdsAreUnique
  <1>5. \A d \in Alive' : Self(d)' = Self(d) /\ Peer(d)' = Peer(d)
    BY <1>2 DEF Self, Peer, End
  <1> HIDE DEF End, a
  <1>6. Waiting' = Waiting \ {a}
    <2>1. ASSUME NEW b \in Waiting' PROVE b \in Waiting \ {a}
      <3>1. PICK d \in Alive' : conn'[d].state \in {"RESOLVE", "OPEN"} /\ b = Self(d)'
        BY DEF Waiting
      <3> QED
        BY <1>2, <1>4, <1>5, <3>1 DEF Waiting
    <2>2. ASSUME NEW b \in Waiting, b # a PROVE b \in Waiting'
      <3>1. PICK d \in Alive : conn[d].state \in {"RESOLVE", "OPEN"} /\ b = Self(d)
        BY DEF Waiting
      <3>2. d # c
        BY <2>2, <3>1 DEF a
      <3> QED
        BY <1>3, <1>5, <3>1, <3>2 DEF Waiting
    <2> QED
      BY <2>1, <2>2
  <1>7. Sessions' = {s \in Sessions : s[1] # a}
    <2>1. ASSUME NEW s \in Sessions' PROVE s \in Sessions /\ s[1] # a
      <3>1. PICK d \in Alive' : conn'[d].state = "PING" /\ s = <<Self(d)', Peer(d)'>>
        BY DEF Sessions
      <3> QED
        BY <1>2, <1>4, <1>5, <3>1 DEF Sessions
    <2>2. ASSUME NEW s \in Sessions, s[1] # a PROVE s \in Sessions'
      <3>1. PICK d \in Alive : conn[d].state = "PING" /\ s = <<Self(d), Peer(d)>>
        BY DEF Sessions
      <3>2. d # c
        BY <2>2, <3>1 DEF a
      <3> QED
        BY <1>3, <1>5, <3>1, <3>2 DEF Sessions
    <2> QED
      BY <2>1, <2>2
  <1>8. Requests' \subseteq Requests
    BY <1>1, <1>6 DEF Requests
  <1>9. Offers' \subseteq Offers
    BY <1>1, <1>2, <1>5 DEF Offers
  <1>10. a \in Waiting \cup Promise!NamesIn(Sessions)
    <2>1. CASE conn[c].state = "PING"
      <3>1. <<Self(c), Peer(c)>> \in Sessions
        BY <1>1, <2>1 DEF Sessions
      <3> QED
        BY <3>1 DEF Promise!NamesIn, a
    <2>2. CASE conn[c].state # "PING"
      BY <1>1, <2>2 DEF Waiting, a
    <2> QED
      BY <2>1, <2>2
  <1>11. Promise!End(a)
    BY <1>6, <1>7, <1>8, <1>9 DEF Promise!End, Promise!Fading
  <1> QED
    BY <1>10, <1>11

\* A CHAL that is taken was offered to the connection that takes it.
LEMMA ChalIsTaken ==
  ASSUME IInv, NEW p \in net, _tripc_read_chal(p)
  PROVE  \E o \in Offers : Promise!Take(o[1], o[2])
  <1> DEFINE a == End(p.to, p.id)
             b == End(p.from, p.self)
  <1>1. PICK c \in Alive :
          /\ conn[c].state = "OPEN" /\ conn[c].router = p.to /\ conn[c].id = p.id
          /\ conn' = [conn EXCEPT ![c].state = "PING", ![c].peer = p.self, ![c].hassend = TRUE]
    <2> PICK x : x = connmap_get(map[p.to], p.id)
      OBVIOUS
    <2>1. /\ p.to \in Routers /\ connmap_has(map[p.to], ids, p.id) /\ conn[x].state = "OPEN"
          /\ conn' = [conn EXCEPT ![x].state = "PING", ![x].peer = p.self, ![x].hassend = TRUE]
      BY DEF _tripc_read_chal, IInv, IdsAreDrawn
    <2>2. Holds(map[p.to], connmap_index(p.id), x)
      BY <2>1 DEF connmap_has, connmap_get, Holds, IInv, MapsAreRight, IsMap
    <2>3. x \in Alive /\ conn[x].router = p.to
      <3>1. \A r \in Routers : \A i, c : Holds(map[r], i, c) => c \in Alive /\ conn[c].router = r
        BY Zenon DEF IInv, MapsAreRight
      <3>2. p.to \in Routers
        BY <2>1
      <3> QED
        BY <2>2, <3>1, <3>2, Zenon
    <2>4. ids[x] = p.id
      BY <2>1 DEF connmap_has, connmap_get
    <2>5. conn[x].id = p.id
      BY <2>3, <2>4 DEF ids, Alive
    <2> QED
      BY <2>1, <2>3, <2>5
  <1>2. \A q \in net' : q \in net
    BY ArrivalTakes DEF _tripc_read_chal
  <1>3. p.type = "CHAL" /\ c \in Alive
    BY DEF _tripc_read_chal
  <1>4. p.from = conn[c].src
    BY <1>1, <1>3 DEF IInv, OneIsAsked
  <1>5. conn'[c].state = "PING" /\ Self(c)' = a /\ Peer(c)' = b /\ Self(c) = a
    <2>1. /\ conn'[c].state = "PING" /\ conn'[c].peer = p.self
          /\ conn'[c].router = p.to /\ conn'[c].id = p.id /\ conn'[c].src = p.from
      BY <1>1, <1>4 DEF IInv, Shape, Fields, Alive
    <2> QED
      BY <1>1, <2>1 DEF Self, Peer, End
  <1>6. \A d \in Alive : d # c => conn'[d] = conn[d] /\ Self(d)' = Self(d) /\ Peer(d)' = Peer(d)
    BY <1>1, <1>3 DEF IInv, Shape, Alive, Self, Peer, End
  <1>7. Alive' = Alive
    <2>1. ASSUME NEW d \in Conns PROVE conn'[d].state = "FREE" <=> conn[d].state = "FREE"
      <3>1. CASE d = c
        BY <1>1, <1>5, <3>1
      <3>2. CASE d # c
        BY <1>1, <3>2 DEF IInv, Shape
      <3> QED
        BY <3>1, <3>2
    <2> QED
      BY <2>1 DEF Alive
  <1>8. \A d \in Alive : Self(d) = a => d = c
    BY <1>3, <1>5, EndsDiffer DEF Self, IInv, IdsAreUnique
  <1> HIDE DEF End, a, b
  <1>9. a \in Waiting /\ Waiting' = Waiting \ {a}
    <2>1. a \in Waiting
      BY <1>1, <1>3, <1>5 DEF Waiting
    <2>2. ASSUME NEW e \in Waiting' PROVE e \in Waiting /\ e # a
      <3>1. PICK d \in Alive' : conn'[d].state \in {"RESOLVE", "OPEN"} /\ e = Self(d)'
        BY DEF Waiting
      <3>2. d \in Alive /\ d # c
        BY <1>5, <1>7, <3>1
      <3>3. conn[d].state \in {"RESOLVE", "OPEN"} /\ e = Self(d)
        BY <1>6, <3>1, <3>2
      <3> QED
        BY <1>8, <3>2, <3>3 DEF Waiting
    <2>3. ASSUME NEW e \in Waiting, e # a PROVE e \in Waiting'
      <3>1. PICK d \in Alive : conn[d].state \in {"RESOLVE", "OPEN"} /\ e = Self(d)
        BY DEF Waiting
      <3>2. d # c
        BY <1>5, <2>3, <3>1
      <3>3. d \in Alive' /\ conn'[d].state \in {"RESOLVE", "OPEN"} /\ e = Self(d)'
        BY <1>6, <1>7, <3>1, <3>2
      <3> QED
        BY <3>3 DEF Waiting
    <2> QED
      BY <2>1, <2>2, <2>3
  <1>10. Sessions' = Sessions \cup {<<a, b>>}
    <2>1. ASSUME NEW s \in Sessions' PROVE s \in Sessions \/ s = <<a, b>>
      <3>1. PICK d \in Alive' : conn'[d].state = "PING" /\ s = <<Self(d)', Peer(d)'>>
        BY DEF Sessions
      <3>2. CASE d = c
        BY <1>5, <3>1, <3>2
      <3>3. CASE d # c
        <4>1. conn[d].state = "PING" /\ s = <<Self(d), Peer(d)>> /\ d \in Alive
          BY <1>6, <1>7, <3>1, <3>3
        <4> QED
          BY <4>1 DEF Sessions
      <3> QED
        BY <3>2, <3>3
    <2>2. ASSUME NEW s \in Sessions PROVE s \in Sessions'
      <3>1. PICK d \in Alive : conn[d].state = "PING" /\ s = <<Self(d), Peer(d)>>
        BY DEF Sessions
      <3>2. d # c
        BY <1>1, <3>1
      <3>3. d \in Alive' /\ conn'[d].state = "PING" /\ s = <<Self(d)', Peer(d)'>>
        BY <1>6, <1>7, <3>1, <3>2
      <3> QED
        BY <3>3 DEF Sessions
    <2>3. <<a, b>> \in Sessions'
      <3>1. c \in Alive' /\ conn'[c].state = "PING" /\ <<a, b>> = <<Self(c)', Peer(c)'>>
        BY <1>3, <1>5, <1>7
      <3> QED
        BY <3>1 DEF Sessions
    <2> QED
      BY <2>1, <2>2, <2>3
  <1>11. Requests' \subseteq Requests
    BY <1>2, <1>9 DEF Requests
  <1>12. Offers' \subseteq Offers
    <2>1. \A d \in Alive' : conn'[d].state = "CHAL" =>
            /\ d \in Alive /\ conn[d].state = "CHAL"
            /\ <<Peer(d)', Self(d)'>> = <<Peer(d), Self(d)>>
      BY <1>5, <1>6, <1>7
    <2> QED
      BY <1>2, <2>1 DEF Offers
  <1>13. <<a, b>> \in Offers
    BY <1>3 DEF Offers, a, b
  <1>14. Promise!Take(a, b)
    BY <1>9, <1>10, <1>11, <1>12, <1>13 DEF Promise!Take, Promise!Fading
  <1>15. <<a, b>>[1] = a /\ <<a, b>>[2] = b
    OBVIOUS
  <1> QED
    BY <1>13, <1>14, <1>15

LEMMA InitAsks == Init => Promise!Init
  <1> SUFFICES ASSUME Init PROVE Promise!Init
    OBVIOUS
  <1>1. Alive = {} /\ net = {}
    BY DEF Init, Alive, Freed
  <1> QED
    BY <1>1 DEF Promise!Init, Waiting, Requests, Offers, Sessions

LEMMA NextAsks == IInv /\ TypeInv /\ [Next]_vars => [Promise!Next]_(Promise!vars)
  <1> SUFFICES ASSUME IInv, TypeInv, [Next]_vars
               PROVE  [Promise!Next]_(Promise!vars)
    OBVIOUS
  <1>1. \A c \in Alive : c \in Conns /\ DOMAIN conn[c] = Fields /\ conn[c].state # "FREE"
    BY DEF IInv, Shape, Alive
  <1>2. ASSUME NEW r \in Routers, NEW to \in Routers \ {r}, trip_open_connection(r, to)
        PROVE  Promise!Next
    <2> DEFINE f == [state |-> "RESOLVE", router |-> r, id |-> NewId(r),
                     src |-> to, peer |-> Nobody, hassend |-> FALSE]
    <2>1. NewConn \in Unused /\ Add(r, NewConn, f) /\ net' = net
      BY <1>2 DEF trip_open_connection, NewConn
    <2>2. f.router = r /\ f.id = NewId(r) /\ f.state = "RESOLVE"
      OBVIOUS
    <2>3. (\A p \in net' : p \in net) /\ (\A p \in net : p.type = "CHAL" => p \in net')
      BY <2>1
    <2> HIDE DEF f
    <2>4. \E a \in Waiting' : Promise!Ask(a)
      BY <2>1, <2>2, <2>3, AddIsAsked
    <2> QED
      BY <2>4 DEF Promise!Next
  <1>3. ASSUME NEW c \in Conns, _tripc_resolved(c) \/ Resend(c) \/ _tripc_send(c)
        PROVE  UNCHANGED Promise!vars
    <2>1. c \in Alive
      BY <1>3 DEF _tripc_resolved, Resend, _tripc_send, Alive
    <2>2. PICK st, mark :
            /\ st = conn[c].state \/ (conn[c].state = "RESOLVE" /\ st = "OPEN")
            /\ conn' = [conn EXCEPT ![c].state = st, ![c].hassend = mark]
      <3>1. CASE _tripc_resolved(c)
        BY <3>1 DEF _tripc_resolved
      <3>2. CASE Resend(c)
        <4>1. conn' = [conn EXCEPT ![c].state = conn[c].state, ![c].hassend = TRUE]
          BY <1>1, <2>1, <3>2 DEF Resend, IInv, Shape, Fields
        <4> QED
          BY <4>1
      <3>3. CASE _tripc_send(c)
        <4>1. conn' = [conn EXCEPT ![c].state = conn[c].state, ![c].hassend = FALSE]
          BY <1>1, <2>1, <3>3 DEF _tripc_send, IInv, Shape, Fields
        <4> QED
          BY <4>1
      <3> QED
        BY <1>3, <3>1, <3>2, <3>3
    <2>3. \A d \in Conns : /\ conn'[d].router = conn[d].router
                           /\ conn'[d].id = conn[d].id
                           /\ conn'[d].src = conn[d].src
                           /\ conn'[d].peer = conn[d].peer
                           /\ conn'[d].state = IF d = c THEN st ELSE conn[d].state
      BY <1>1, <2>1, <2>2 DEF IInv, Shape, Fields
    <2>4. \A d \in Conns :
            /\ conn'[d].state = "FREE" <=> conn[d].state = "FREE"
            /\ conn'[d].state = "CHAL" <=> conn[d].state = "CHAL"
            /\ conn'[d].state = "PING" <=> conn[d].state = "PING"
            /\ conn'[d].state \in {"RESOLVE", "OPEN"} <=> conn[d].state \in {"RESOLVE", "OPEN"}
      <3>1. CASE st = conn[c].state
        BY <2>3, <3>1
      <3>2. CASE conn[c].state = "RESOLVE" /\ st = "OPEN"
        BY <2>3, <3>2
      <3> QED
        BY <2>2, <3>1, <3>2
    <2>5. Alive' = Alive
      BY <2>4 DEF Alive
    <2>6. \A p \in net : p \in net'
      BY <1>3 DEF _tripc_resolved, Resend, _tripc_send
    <2>7. \A p \in net' :
            \/ p \in net
            \/ \E d \in Alive : \/ p = OPEN(d) /\ conn[d].state = "OPEN"
                                \/ p = CHAL(d) /\ conn[d].state = "CHAL"
      <3>1. \/ net' = net
            \/ net' = net \cup {OPEN(c)} /\ conn[c].state = "OPEN"
            \/ net' = net \cup {CHAL(c)} /\ conn[c].state = "CHAL"
        BY <1>3 DEF _tripc_resolved, Resend, _tripc_send
      <3> QED
        BY <2>1, <3>1
    <2> QED
      BY <1>1, <2>3, <2>4, <2>5, <2>6, <2>7, EndsAreKept
  <1>4. ASSUME NEW c \in Conns, GiveUp(c) PROVE Promise!Next
    BY <1>4, GiveUpEnds DEF Promise!Next
  <1>5. ASSUME NEW p \in net, _trip_segment_open(p) PROVE Promise!Next
    <2> DEFINE r == p.to
               f == [state |-> "CHAL", router |-> r, id |-> NewId(r),
                     src |-> p.from, peer |-> p.self, hassend |-> TRUE]
    <2>1. NewConn \in Unused /\ Add(r, NewConn, f) /\ p.type = "OPEN"
      BY <1>5 DEF _trip_segment_open, NewConn
    <2>2. /\ f.router = r /\ f.id = NewId(r) /\ f.state = "CHAL"
          /\ End(f.src, f.peer) = End(p.from, p.self) /\ r \in Routers
      BY DEF IInv, IdsAreDrawn
    <2>3. (\A q \in net' : q \in net) /\ (\A q \in net : q.type = "CHAL" => q \in net')
      BY <1>5, <2>1 DEF _trip_segment_open, Arrives
    <2>4. End(p.from, p.self) \in Requests
      BY <2>1 DEF Requests
    <2> HIDE DEF f, r
    <2>5. \E o \in Offers' : Promise!Offer(o[1], o[2])
      BY <2>1, <2>2, <2>3, <2>4, AddIsAsked
    <2> QED
      BY <2>5 DEF Promise!Next
  <1>6. ASSUME NEW p \in net, _tripc_read_chal(p) PROVE Promise!Next
    BY <1>6, ChalIsTaken DEF Promise!Next
  <1>7. ASSUME NEW p \in net, RejectFull(p) \/ RejectChal(p) \/ RejectRefused(p) \/ Lose(p)
        PROVE  Promise!Next
    <2>1. conn' = conn /\ \A q \in net' : q \in net
      BY <1>7, ArrivalTakes DEF RejectFull, RejectChal, RejectRefused, Lose
    <2>2. Alive' = Alive
      BY <2>1 DEF Alive
    <2>3. Promise!Fade
      BY <2>1, <2>2, FewerFade
    <2> QED
      BY <2>3 DEF Promise!Next
  <1>8. ASSUME NEW r \in Routers, Restart(r) PROVE Promise!Next
    <2>1. /\ conn' = [c \in Conns |-> IF c \in ConnsOf(r) THEN Freed ELSE conn[c]]
          /\ net' = net /\ r \notin Openers
      BY <1>8 DEF Restart
    <2>2. \A c \in Alive' : c \in Alive /\ conn'[c] = conn[c]
      BY <2>1 DEF Alive, Freed
    <2>3. \A c \in Alive : conn[c].state # "CHAL" => c \in Alive' /\ conn'[c] = conn[c]
      BY <2>1 DEF TypeInv, OnlyOpeners, Alive, ConnsOf
    <2>4. Promise!Fade
      BY <2>1, <2>2, <2>3, FewerFade
    <2> QED
      BY <2>4 DEF Promise!Next
  <1>9. CASE UNCHANGED vars
    <2>1. conn' = conn /\ net' = net
      BY <1>9 DEF vars
    <2>2. Alive' = Alive
      BY <2>1 DEF Alive
    <2>3. Promise!Fade
      BY <2>1, <2>2, FewerFade
    <2> QED
      BY <2>3 DEF Promise!Next
  <1> QED
    BY <1>2, <1>3, <1>4, <1>5, <1>6, <1>7, <1>8, <1>9 DEF Next, Receive

\* However many packets are lost, repeated and late and whichever routers restart,
\* an attempt takes at most one answer, and only one that was given to it
\* (conn.c:679-688, trip.c:592-640).
THEOREM HandshakeImplementsSession == Spec => ImplementsSession
  <1>1. IInv /\ TypeInv /\ [Next]_vars => [Promise!Next]_(Promise!vars)
    BY NextAsks
  <1> QED
    BY <1>1, InitAsks, Invariant, Typed, PTL DEF Spec, ImplementsSession, Promise!Spec
=============================================================================
