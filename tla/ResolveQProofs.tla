--------------------------- MODULE ResolveQProofs ---------------------------
(***************************************************************************)
(* Proofs about the resolve queue, for any connections and any bound on the *)
(* array.  Everything follows from one inductive invariant, IInv: the list  *)
(* of unused slots is described slot by slot (LinksOK), since its length    *)
(* and its order do not matter to who is answered.                         *)
(***************************************************************************)
EXTENDS ResolveQ, ProofFacts

\* A link of the list of unused slots leads to an unused slot, to which no other
\* link and not q->free lead; a slot in use holds no link.
LinksOK ==
  /\ \A i \in Unused : map[i].u \in Unused \cup {NULL}
  /\ \A i, j \in Unused : map[i].u = map[j].u /\ map[i].u # NULL => i = j
  /\ \A i \in Unused : map[i].u = free => free = NULL
  /\ \A k \in InUse : map[k].u \in Conns \cup {NULL}

IInv == TypeOK /\ LinksOK /\ SizeIsAsked /\ IsFiniteSet(InUse)

\* A set of one element that holds k is {k}: the last request is the one popped.
LEMMA LastOne ==
  ASSUME NEW S, NEW k \in S, IsFiniteSet(S), Cardinality(S) = 1
  PROVE  S = {k}
  <1>1. PICK x : S = {x}
    BY FS_Singleton, Zenon
  <1> QED
    BY <1>1

\* A finite set that holds an element has a positive cardinality.
LEMMA NotEmpty ==
  ASSUME NEW S, NEW k \in S, IsFiniteSet(S)
  PROVE  Cardinality(S) # 0
  BY FS_EmptySet, Zenon

\* The empty queue satisfies the invariant: trip_new clears the struct.
LEMMA InitIInv == Init => IInv
  <1> SUFFICES ASSUME Init PROVE IInv
    OBVIOUS
  <1>1. InUse = {} /\ Unused = {} /\ DOMAIN map = {}
    BY DEF Init, InUse, Unused
  <1>2. TypeOK
    BY <1>1 DEF Init, TypeOK, Slot
  <1>3. LinksOK
    BY <1>1 DEF LinksOK
  <1>4. SizeIsAsked /\ IsFiniteSet(InUse)
    BY <1>1, FS_EmptySet DEF Init, SizeIsAsked
  <1> QED
    BY <1>2, <1>3, <1>4 DEF IInv

\* resolveq_put: the slot taken, unused or new, leaves the list of unused slots.
LEMMA PutIInv ==
  ASSUME IInv, NEW c \in Conns, resolveq_put(c)
  PROVE  IInv'
  <1> DEFINE k     == IF free = NULL THEN len ELSE free
             grown == IF free = NULL THEN len + 1 ELSE len
  <1> USE NullIsNoConn DEF IInv
  <1>1. /\ len' = grown /\ size' = size + 1 /\ answered' = answered
        /\ map' = [j \in 0..(grown - 1) |->
                     IF j = k THEN [inuse |-> TRUE, u |-> c] ELSE map[j]]
        /\ free' = IF free = NULL THEN NULL ELSE map[free].u
        /\ asked' = asked \cup {k} /\ k \in Keys
    BY DEF resolveq_put
  <1>2. /\ DOMAIN map = 0..(len - 1) /\ len \in Nat /\ grown \in Nat
        /\ k \in 0..(grown - 1) /\ k \notin InUse
        /\ 0..(grown - 1) = (0..(len - 1)) \cup {k}
    BY DEF TypeOK, Unused, InUse
  <1>3. /\ DOMAIN map' = 0..(grown - 1)
        /\ \A j \in 0..(len - 1) : j # k => map'[j] = map[j]
        /\ map'[k] = [inuse |-> TRUE, u |-> c]
    BY <1>1, <1>2
  <1>4. InUse' = InUse \cup {k} /\ Unused' = Unused \ {k}
    BY <1>2, <1>3 DEF InUse, Unused
  <1>5. TypeOK'
    <2>1. map' \in [0..(len' - 1) -> Slot]
      BY <1>1, <1>2 DEF TypeOK, Slot
    <2>2. free' \in Unused' \cup {NULL}
      BY <1>1, <1>4 DEF TypeOK, LinksOK
    <2> QED
      BY <1>1, <1>2, <2>1, <2>2 DEF TypeOK, Slot
  <1>6. LinksOK'
    <2>1. \A i \in Unused' : i \in Unused /\ i # k /\ map'[i] = map[i]
      BY <1>2, <1>3, <1>4 DEF Unused
    <2>2. \A i \in Unused' : map'[i].u \in Unused' \cup {NULL}
      BY <1>2, <1>4, <2>1 DEF LinksOK, TypeOK, Unused, InUse
    <2>3. \A i \in Unused' : map'[i].u = free' => free' = NULL
      BY <1>1, <2>1 DEF LinksOK, TypeOK
    <2>4. \A j \in InUse' : map'[j].u \in Conns \cup {NULL}
      BY <1>2, <1>3, <1>4 DEF LinksOK, InUse
    <2> QED
      BY <2>1, <2>2, <2>3, <2>4 DEF LinksOK
  <1>7. IsFiniteSet(InUse') /\ Cardinality(InUse') = Cardinality(InUse) + 1
    BY <1>2, <1>4, FS_AddElement
  <1> QED
    BY <1>1, <1>4, <1>5, <1>6, <1>7 DEF SizeIsAsked

\* _enqueue, with its slot taken out of asked and size: the slot becomes the head
\* of the list of unused slots.
LEMMA EnqueueIInv ==
  ASSUME IInv, NEW k \in asked \cap InUse, _enqueue(k),
         size' = size - 1, asked' = asked \ {k}, len' = len,
         answered' \in Conns \cup {NULL}
  PROVE  IInv'
  <1> USE NullIsNoConn DEF IInv
  <1>1. /\ map' = [map EXCEPT ![k] = [inuse |-> FALSE, u |-> free]]
        /\ free' = k
    BY DEF _enqueue
  <1>2. k \in 0..(len - 1) /\ k # NULL /\ DOMAIN map = 0..(len - 1)
    BY DEF TypeOK, InUse
  <1>3. InUse' = InUse \ {k} /\ Unused' = Unused \cup {k} /\ k \notin Unused
    BY <1>1, <1>2 DEF InUse, Unused, TypeOK
  <1>4. TypeOK'
    <2>1. size \in Nat \ {0}
      BY NotEmpty DEF SizeIsAsked, TypeOK
    <2>2. map' \in [0..(len' - 1) -> Slot]
      BY <1>1, <1>2 DEF TypeOK, Slot, Unused
    <2> QED
      BY <1>1, <1>3, <2>1, <2>2 DEF TypeOK, Slot
  <1>5. LinksOK'
    BY <1>1, <1>2, <1>3 DEF LinksOK, TypeOK, Unused, InUse
  <1>6. IsFiniteSet(InUse') /\ Cardinality(InUse') = Cardinality(InUse) - 1
    BY <1>3, FS_RemoveElement
  <1> QED
    BY <1>3, <1>4, <1>5, <1>6 DEF SizeIsAsked

\* Every operation keeps the invariant.
LEMMA NextIInv == IInv /\ [Next]_vars => IInv'
  <1> SUFFICES ASSUME IInv, [Next]_vars PROVE IInv'
    OBVIOUS
  <1>1. ASSUME NEW c \in Conns, resolveq_put(c) PROVE IInv'
    BY <1>1, PutIInv
  <1>2. ASSUME NEW k \in Keys, resolveq_pop(k) PROVE IInv'
    <2>1. /\ k \in asked \cap InUse /\ asked' = asked \ {k}
          /\ answered' \in Conns \cup {NULL}
      BY <1>2 DEF resolveq_pop, IInv, LinksOK
    <2>2. CASE size = 1 /\ _check_size
      <3>1. InUse = {k}
        BY <2>1, <2>2, LastOne DEF IInv, SizeIsAsked
      <3>2. InUse' = {} /\ Unused' = {} /\ DOMAIN map' = {} /\ asked' = {}
        BY <2>1, <2>2, <3>1 DEF _check_size, NoSlots, InUse, Unused, IInv, SizeIsAsked
      <3>3. TypeOK'
        BY <2>1, <2>2, <3>2 DEF _check_size, NoSlots, TypeOK, Slot
      <3>4. LinksOK'
        BY <3>2 DEF LinksOK
      <3>5. SizeIsAsked' /\ IsFiniteSet(InUse')
        BY <2>2, <3>2, FS_EmptySet DEF SizeIsAsked, _check_size
      <3> QED
        BY <3>3, <3>4, <3>5 DEF IInv
    <2>3. CASE _enqueue(k) /\ size' = size - 1 /\ len' = len
      BY <2>1, <2>3, EnqueueIInv
    <2> QED
      BY <1>2, <2>2, <2>3 DEF resolveq_pop
  <1>3. ASSUME NEW k \in Keys, resolveq_pop_unused(k) PROVE IInv'
    BY <1>3 DEF resolveq_pop_unused, IInv, TypeOK, LinksOK, SizeIsAsked, InUse, Unused
  <1>4. ASSUME NEW k \in Keys, resolveq_del(k) PROVE IInv'
    <2>1. /\ map' = [map EXCEPT ![k].u = NULL] /\ k \in InUse
          /\ UNCHANGED <<len, size, free, asked, answered>>
      BY <1>4 DEF resolveq_del
    <2>2. InUse' = InUse /\ Unused' = Unused /\ \A j \in Unused : map'[j] = map[j]
      BY <2>1 DEF InUse, Unused, IInv, TypeOK, Slot
    <2>3. TypeOK'
      BY <2>1, <2>2 DEF IInv, TypeOK, Slot
    <2>4. LinksOK'
      BY <2>1, <2>2 DEF IInv, TypeOK, LinksOK, InUse
    <2> QED
      BY <2>1, <2>2, <2>3, <2>4 DEF IInv, SizeIsAsked
  <1>5. CASE UNCHANGED vars
    BY <1>5 DEF vars, IInv, TypeOK, LinksOK, SizeIsAsked, InUse, Unused
  <1> QED
    BY <1>1, <1>2, <1>3, <1>4, <1>5 DEF Next

\* The invariant holds of every behaviour of the queue.
THEOREM AlwaysIInv == Spec => []IInv
  BY InitIInv, NextIInv, PTL DEF Spec

\* The array, its length and the head of the list of unused slots always fit:
\* q->free is an unused slot of the array or NULL (resolveq.c:86-133).
THEOREM TypeCorrect == Spec => []TypeOK
  BY AlwaysIInv, PTL DEF IInv

\* q->size is the number of keys the packet interface holds, so that _check_size
\* frees the array when, and only when, no answer is due (resolveq.c:72-79).
THEOREM SizeCorrect == Spec => []SizeIsAsked
  BY AlwaysIInv, PTL DEF IInv

-----------------------------------------------------------------------------
(* The refinement.                                                         *)

\* What the mapping makes of each key.
Req(k) == IF k \notin InUse THEN "none" ELSE IF map[k].u = NULL THEN "gone" ELSE map[k].u

\* An empty queue is a resolver nobody has asked.
LEMMA InitRefines == Init => AsResolver!Init
  BY DEF Init, AsResolver!Init, AsResolver!None, InUse

\* Each operation is a step of the resolver, or changes nothing it can see.
LEMMA NextRefines == IInv /\ [Next]_vars => [AsResolver!Next]_(AsResolver!vars)
  <1> SUFFICES ASSUME IInv, [Next]_vars PROVE [AsResolver!Next]_(AsResolver!vars)
    OBVIOUS
  <1> DEFINE R == [k \in Keys |-> Req(k)]
  <1> USE NullIsNoConn, NamesAreNoConns DEF IInv
  <1>1. ASSUME NEW c \in Conns, resolveq_put(c) PROVE AsResolver!Next
    <2> DEFINE k == IF free = NULL THEN len ELSE free
    <2>1. k \in Keys /\ k \notin InUse /\ answered' = answered
      BY <1>1 DEF resolveq_put, TypeOK, InUse, Unused
    <2>2. \A j \in Keys : Req(j)' = IF j = k THEN c ELSE Req(j)
      BY <1>1, <2>1 DEF resolveq_put, TypeOK, InUse, Unused, Req
    <2>3. R' = [R EXCEPT ![k] = c] /\ R[k] = "none"
      BY <2>1, <2>2 DEF Req
    <2> QED
      BY <2>1, <2>3 DEF AsResolver!Next, AsResolver!Ask, AsResolver!None, Req
  <1>2. ASSUME NEW k \in Keys, resolveq_pop(k) PROVE AsResolver!Next
    <2>1. /\ k \in InUse /\ k \in asked /\ answered' = map[k].u
          /\ map[k].u \in Conns \cup {NULL}
      BY <1>2 DEF resolveq_pop, LinksOK
    <2>2. InUse' = InUse \ {k} /\ \A j \in InUse' : map'[j] = map[j]
      <3>1. CASE size = 1 /\ _check_size
        <4>1. InUse = {k}
          BY <2>1, <3>1, LastOne DEF SizeIsAsked
        <4> QED
          BY <3>1, <4>1 DEF _check_size, NoSlots, InUse
      <3>2. CASE _enqueue(k)
        BY <2>1, <3>2 DEF _enqueue, InUse, TypeOK
      <3> QED
        BY <1>2, <3>1, <3>2 DEF resolveq_pop
    <2>3. R' = [R EXCEPT ![k] = "none"]
      BY <2>2 DEF Req
    <2>4. R[k] # "none" /\ answered' = IF R[k] = "gone" THEN NULL ELSE R[k]
      BY <2>1 DEF Req
    <2> QED
      BY <2>3, <2>4 DEF AsResolver!Next, AsResolver!Answer, AsResolver!None,
                        AsResolver!Gone, Req
  <1>3. ASSUME NEW k \in Keys, resolveq_pop_unused(k) PROVE AsResolver!Next
    <2>1. R' = R /\ R[k] = "none" /\ answered' = NULL
      BY <1>3 DEF resolveq_pop_unused, Req, InUse
    <2> QED
      BY <2>1 DEF AsResolver!Next, AsResolver!Stray, AsResolver!None, Req
  <1>4. ASSUME NEW k \in Keys, resolveq_del(k) PROVE AsResolver!Next
    <2>1. /\ k \in InUse /\ map[k].u \in Conns /\ answered' = answered
          /\ map' = [map EXCEPT ![k].u = NULL]
      BY <1>4 DEF resolveq_del, LinksOK
    <2>2. InUse' = InUse /\ map'[k].u = NULL /\ \A j \in InUse : j # k => map'[j] = map[j]
      BY <2>1 DEF InUse, TypeOK, Slot
    <2>3. R[k] \in Conns
      BY <2>1 DEF Req
    <2>4. Req(k)' = "gone" /\ \A j \in Keys : j # k => Req(j)' = Req(j)
      BY <2>1, <2>2 DEF Req
    <2>5. R' = [R EXCEPT ![k] = "gone"]
      BY <2>4
    <2> QED
      BY <2>1, <2>3, <2>5 DEF AsResolver!Next, AsResolver!Leave, AsResolver!Gone, Req
  <1>5. CASE UNCHANGED vars
    BY <1>5 DEF vars, AsResolver!vars, InUse
  <1> QED
    BY <1>1, <1>2, <1>3, <1>4, <1>5 DEF Next

\* Late answers never reach a connection that did not ask: the array with its
\* list of unused slots implements module Resolver (resolveq.h:25-32).
THEOREM Refinement == Spec => ImplementsResolver
  <1>1. IInv /\ [Next]_vars => [AsResolver!Next]_(AsResolver!vars)
    BY NextRefines
  <1> QED
    BY AlwaysIInv, InitRefines, <1>1, PTL DEF Spec, ImplementsResolver, AsResolver!Spec

-----------------------------------------------------------------------------
(* The list of unused slots.                                               *)

Links == [k \in DOMAIN map |-> map[k].u]

\* The list has every unused slot once.
ListInv == \E n : List(Nat, free, Links, NULL, n, Unused)

LEMMA InitIsListed == Init => ListInv
  <1> SUFFICES ASSUME Init PROVE ListInv
    OBVIOUS
  <1>1. Unused = {} /\ free = NULL
    BY DEF Init, Unused, InUse
  <1> QED
    BY <1>1, NoList DEF ListInv

LEMMA PutIsListed ==
  ASSUME IInv, ListInv, NEW c \in Conns, resolveq_put(c)
  PROVE  ListInv'
  <1>1. PICK n : List(Nat, free, Links, NULL, n, Unused)
    BY DEF ListInv
  <1> DEFINE grown == IF free = NULL THEN len + 1 ELSE len
             k     == IF free = NULL THEN len ELSE free
  <1>2. /\ map' = [j \in 0..(grown - 1) |->
                     IF j = k THEN [inuse |-> TRUE, u |-> c] ELSE map[j]]
        /\ free' = IF free = NULL THEN NULL ELSE map[free].u
        /\ DOMAIN map = 0..(len - 1) /\ len \in Nat /\ free \in Unused \cup {NULL}
    BY DEF resolveq_put, IInv, TypeOK
  <1>3. CASE free = NULL
    <2>1. Unused = {}
      BY <1>1, <1>3, NullIsNoConn, ListEnds
    <2>2. \A j \in 0..(len - 1) : map[j].inuse
      BY <1>2, <2>1 DEF Unused, InUse
    <2>3. \A j \in DOMAIN map' : map'[j].inuse
      BY <1>2, <1>3, <2>2
    <2>4. Unused' = {} /\ free' = NULL
      BY <1>2, <1>3, <2>3 DEF Unused, InUse
    <2> QED
      BY <2>4, NoList DEF ListInv
  <1>4. CASE free # NULL
    <2>1. /\ free \in 0..(len - 1) /\ Links[free] = map[free].u
      BY <1>2, <1>4 DEF Unused, Links
    <2>2. /\ DOMAIN map' = DOMAIN map /\ map'[free].inuse
          /\ \A j \in DOMAIN map : j # free => map'[j] = map[j]
      BY <1>2, <1>4, <2>1
    <2>3. Unused' = Unused \ {free}
      BY <2>2 DEF Unused, InUse
    <2>4. Agree(Links, Links', Unused \ {free})
      BY <2>2 DEF Agree, Links, Unused
    <2>5. List(Nat, Links[free], Links', NULL, n - 1, Unused \ {free})
      BY <1>1, <1>4, <2>4, ListShrinks
    <2>6. free' = Links[free]
      BY <1>2, <1>4, <2>1
    <2> QED
      BY <2>3, <2>5, <2>6 DEF ListInv
  <1> QED
    BY <1>3, <1>4

LEMMA EnqueueIsListed ==
  ASSUME IInv, ListInv, NEW k \in InUse, _enqueue(k)
  PROVE  ListInv'
  <1>1. PICK n : List(Nat, free, Links, NULL, n, Unused)
    BY DEF ListInv
  <1>2. /\ map' = [map EXCEPT ![k] = [inuse |-> FALSE, u |-> free]] /\ free' = k
        /\ k \in DOMAIN map /\ k \in Nat /\ k \notin Unused
    BY DEF _enqueue, InUse, Unused, IInv, TypeOK
  <1>3. Unused' = Unused \cup {k}
    BY <1>2 DEF Unused, InUse
  <1>4. Links'[k] = free /\ Agree(Links, Links', Unused)
    BY <1>2 DEF Links, Agree, Unused
  <1>5. List(Nat, k, Links', NULL, n + 1, Unused \cup {k})
    BY <1>1, <1>2, <1>4, ListGrows
  <1> QED
    BY <1>2, <1>3, <1>5 DEF ListInv

LEMMA NextIsListed == IInv /\ ListInv /\ [Next]_vars => ListInv'
  <1> SUFFICES ASSUME IInv, ListInv, [Next]_vars PROVE ListInv'
    OBVIOUS
  <1>1. ASSUME NEW c \in Conns, resolveq_put(c) PROVE ListInv'
    BY <1>1, PutIsListed
  <1>2. ASSUME NEW k \in Keys, resolveq_pop(k) PROVE ListInv'
    <2>1. CASE _check_size
      <3>1. Unused' = {} /\ free' = NULL
        BY <2>1 DEF _check_size, NoSlots, Unused, InUse
      <3> QED
        BY <3>1, NoList DEF ListInv
    <2>2. CASE _enqueue(k)
      BY <1>2, <2>2, EnqueueIsListed DEF resolveq_pop
    <2> QED
      BY <1>2, <2>1, <2>2 DEF resolveq_pop
  <1>3. ASSUME free' = free, Unused' = Unused, \A j \in Unused : map'[j] = map[j],
               DOMAIN map' = DOMAIN map
        PROVE  ListInv'
    <2>1. PICK n : List(Nat, free, Links, NULL, n, Unused)
      BY DEF ListInv
    <2>2. Agree(Links, Links', Unused)
      BY <1>3 DEF Links, Agree, Unused
    <2>3. List(Nat, free, Links', NULL, n, Unused)
      BY <2>1, <2>2, ListStays
    <2> QED
      BY <1>3, <2>3 DEF ListInv
  <1>4. ASSUME NEW k \in Keys, resolveq_pop_unused(k) PROVE ListInv'
    BY <1>3, <1>4 DEF resolveq_pop_unused, Unused, InUse
  <1>5. ASSUME NEW k \in Keys, resolveq_del(k) PROVE ListInv'
    <2>1. /\ map' = [map EXCEPT ![k].u = NULL] /\ k \in InUse /\ free' = free
          /\ \A j \in DOMAIN map : DOMAIN map[j] = {"inuse", "u"}
      BY <1>5 DEF resolveq_del, IInv, TypeOK, Slot
    <2>2. /\ DOMAIN map' = DOMAIN map
          /\ \A j \in DOMAIN map : map'[j].inuse = map[j].inuse
          /\ \A j \in DOMAIN map : j # k => map'[j] = map[j]
      BY <2>1
    <2>3. Unused' = Unused
      BY <2>2 DEF Unused, InUse
    <2>4. \A j \in Unused : map'[j] = map[j]
      BY <2>1, <2>2 DEF Unused
    <2> QED
      BY <1>3, <2>1, <2>2, <2>3, <2>4
  <1>6. CASE UNCHANGED vars
    BY <1>3, <1>6 DEF vars, Unused, InUse
  <1> QED
    BY <1>1, <1>2, <1>4, <1>5, <1>6 DEF Next

\* The walk along the links goes through the list.
LEMMA ListIsWalked == IInv /\ ListInv => NoLostSlot
  <1> SUFFICES ASSUME IInv, ListInv PROVE NoLostSlot
    OBVIOUS
  <1> DEFINE IsWalk(f) == f = [n \in Nat |->
                                 IF n = 0 THEN free
                                 ELSE IF f[n - 1] = NULL THEN NULL ELSE map[f[n - 1]].u]
  <1>1. PICK n : List(Nat, free, Links, NULL, n, Unused)
    BY DEF ListInv
  <1>2. NULL \notin Nat /\ NULL \notin Unused /\ \A y \in Unused : Links[y] = map[y].u
    BY NullIsNoConn DEF IInv, TypeOK, Unused, Links
  <1>3. PICK g \in [Nat -> Unused \cup {NULL}] : Follows(g, free, Links, NULL, Unused)
    BY <1>1, <1>2, WalkExists
  <1>4. IsWalk(g)
    <2>1. ASSUME NEW j \in Nat
          PROVE  g[j] = IF j = 0 THEN free
                        ELSE IF g[j - 1] = NULL THEN NULL ELSE map[g[j - 1]].u
      <3>1. CASE j = 0
        BY <1>3, <3>1 DEF Follows
      <3>2. CASE j # 0
        <4>1. j \in Nat \ {0} /\ j - 1 \in Nat
          BY <3>2
        <4>2. g[j - 1] \in Unused \cup {NULL}
          BY <1>3, <4>1
        <4>3. /\ g[j - 1] = NULL => g[j] = NULL
              /\ g[j - 1] \in Unused => g[j] = Links[g[j - 1]]
          BY <1>3, <4>1 DEF Follows
        <4> QED
          BY <1>2, <3>2, <4>2, <4>3
      <3> QED
        BY <3>1, <3>2
    <2> QED
      BY <1>3, <2>1
  <1>5. IsWalk(FreeList)
    <2> DEFINE walk == CHOOSE f : IsWalk(f)
    <2>1. IsWalk(walk)
      BY <1>4
    <2>2. FreeList = walk
      BY DEF FreeList
    <2> QED
      BY <2>1, <2>2
  <1>6. Follows(FreeList, free, Links, NULL, Unused)
    <2> HIDE DEF FreeList
    <2>1. \A j \in Nat :
            FreeList[j] = IF j = 0 THEN free
                          ELSE IF FreeList[j - 1] = NULL THEN NULL ELSE map[FreeList[j - 1]].u
      BY <1>5
    <2>2. \A j \in Nat \ {0} : j \in Nat /\ j # 0
      OBVIOUS
    <2> QED
      BY <1>2, <2>1, <2>2 DEF Follows
  <1>7. RunsThrough(FreeList, n, NULL, Unused)
    BY <1>1, <1>2, <1>6, WalkIsList
  <1>8. n \in Nat /\ len \in Nat /\ n <= len
    <2>1. n \in Nat /\ Cardinality(Unused) = n
      BY <1>1, FirstIsMember, ListCounts
    <2>2. len \in Nat /\ Unused \subseteq 0..(len - 1)
      BY DEF IInv, TypeOK, Unused
    <2>3. /\ IsFiniteSet(0..(len - 1))
          /\ Cardinality(0..(len - 1)) = IF 0 > len - 1 THEN 0 ELSE (len - 1) - 0 + 1
      BY <2>2, FS_Interval
    <2>4. Cardinality(Unused) <= Cardinality(0..(len - 1))
      BY <2>2, <2>3, FS_Subset
    <2> QED
      BY <2>1, <2>2, <2>3, <2>4
  <1>9. /\ {FreeList[j] : j \in 0..(n - 1)} = Unused
        /\ \A j \in Nat : j >= n => FreeList[j] = NULL
    BY <1>7 DEF RunsThrough
  <1>10. {FreeList[j] : j \in 0..len} \ {NULL} = Unused
    <2>1. ASSUME NEW j \in 0..len, FreeList[j] # NULL PROVE FreeList[j] \in Unused
      <3>1. j \in 0..(n - 1)
        BY <1>8, <1>9, <2>1
      <3> QED
        BY <1>9, <3>1
    <2>2. ASSUME NEW y \in Unused PROVE y # NULL /\ \E j \in 0..len : FreeList[j] = y
      <3>1. PICK j \in 0..(n - 1) : FreeList[j] = y
        BY <1>9
      <3>2. j \in 0..len
        BY <1>8
      <3> QED
        BY <1>2, <3>1, <3>2
    <2> QED
      BY <2>1, <2>2
  <1> QED
    BY <1>10 DEF NoLostSlot

\* Each slot of the array is in use or on the list of unused slots, however many
\* there are (resolveq.c:35-70).
THEOREM NoSlotIsLost == Spec => []NoLostSlot
  <1>1. IInv /\ ListInv /\ [Next]_vars => ListInv'
    BY NextIsListed
  <1> QED
    BY <1>1, AlwaysIInv, InitIsListed, ListIsWalked, PTL DEF Spec
=============================================================================
