------------------------------ MODULE ResolveQ ------------------------------
(***************************************************************************)
(* The resolve queue of libtrp (src/src/resolveq.c): connections whose      *)
(* address the packet interface is looking up.  A slot of an array is known *)
(* to the interface by its index; a slot in use holds the connection, or    *)
(* NULL once the connection has timed out, and a slot not in use holds, in  *)
(* the same word, the link of the list of unused slots.  The links are      *)
(* pointers into the array, which _grow may move, and are indices here: the *)
(* array is moved only when that list is empty and there are no links.     *)
(*                                                                         *)
(* The packet interface answers each request once, at any later time and in *)
(* any order (trip_resolve, trip.c:939-970).                               *)
(***************************************************************************)
EXTENDS Integers, FiniteSets

CONSTANTS
  Conns,  \* addresses of connections
  NULL,   \* the null pointer
  Keys    \* bound: the indices the array may grow to

ASSUME NullIsNoConn == NULL \notin Conns /\ NULL \notin Nat

ASSUME KeysAreIndices == Keys \subseteq Nat

\* What module Resolver calls a key without a connection is not a connection.
ASSUME NamesAreNoConns == {"none", "gone"} \cap Conns = {}

VARIABLES
  len,      \* q->len, the slots allocated
  size,     \* q->size, the slots in use
  map,      \* q->map
  free,     \* q->free, the index of the first unused slot or NULL
  asked,    \* the keys the packet interface still has to answer
  answered  \* what the last resolveq_pop returned

vars == <<len, size, map, free, asked, answered>>

Slot == [inuse : BOOLEAN, u : Conns \cup {NULL} \cup Nat]

InUse == {k \in DOMAIN map : map[k].inuse}

Unused == DOMAIN map \ InUse

\* The connections a key still leads to.
Waiting == {map[k].u : k \in InUse} \ {NULL}

-----------------------------------------------------------------------------
Init ==
  /\ len = 0
  /\ size = 0
  /\ map = [k \in {} |-> [inuse |-> FALSE, u |-> NULL]]
  /\ free = NULL
  /\ asked = {}
  /\ answered = NULL

NoSlots == [k \in {} |-> [inuse |-> FALSE, u |-> NULL]]

\* _pop takes the first unused slot, after _grow has appended one if there was
\* none.  Without memory for it resolveq_put returns -1 and changes nothing.
resolveq_put(c) ==
  LET k     == IF free = NULL THEN len ELSE free
      grown == IF free = NULL THEN len + 1 ELSE len
  IN  /\ c \notin Waiting
      /\ k \in Keys
      /\ len' = grown
      /\ map' = [j \in 0..(grown - 1) |->
                   IF j = k THEN [inuse |-> TRUE, u |-> c] ELSE map[j]]
      /\ free' = IF free = NULL THEN NULL ELSE map[free].u
      /\ size' = size + 1
      /\ asked' = asked \cup {k}
      /\ UNCHANGED answered

\* Mutant: the array is freed and the list of unused slots is not.
_check_size_KeepsFree ==
  /\ size' = 0
  /\ len' = 0
  /\ map' = NoSlots
  /\ UNCHANGED free

\* The array goes with the last request.
_check_size ==
  /\ size' = 0
  /\ len' = 0
  /\ map' = NoSlots
  /\ free' = NULL

\* Mutant: the slot becomes the whole list of unused slots.
_enqueue_Forgets(k) ==
  /\ map' = [map EXCEPT ![k] = [inuse |-> FALSE, u |-> NULL]]
  /\ free' = k

_enqueue(k) ==
  /\ map' = [map EXCEPT ![k] = [inuse |-> FALSE, u |-> free]]
  /\ free' = k

resolveq_pop(k) ==
  /\ k \in asked \cap InUse
  /\ asked' = asked \ {k}
  /\ answered' = map[k].u
  /\ \/ /\ size = 1
        /\ _check_size
     \/ /\ size # 1
        /\ _enqueue(k)
        /\ size' = size - 1
        /\ UNCHANGED len

\* An answer given twice, before its key is used again: "Not in use, return
\* NULL."
resolveq_pop_unused(k) ==
  /\ k \notin InUse
  /\ answered' = NULL
  /\ UNCHANGED <<len, size, map, free, asked>>

\* Mutant: the timeout gives the slot back while the interface holds its key.
resolveq_del_Frees(k) ==
  /\ k \in InUse
  /\ map[k].u # NULL
  /\ _enqueue(k)
  /\ size' = size - 1
  /\ UNCHANGED <<len, asked, answered>>

\* Mutant: the timeout counts the slot as unused.
resolveq_del_Counts(k) ==
  /\ k \in InUse
  /\ map[k].u # NULL
  /\ map' = [map EXCEPT ![k].u = NULL]
  /\ size' = size - 1
  /\ UNCHANGED <<len, free, asked, answered>>

\* The connection's resolve timer has fired (conn.c:193-209): the slot stays in
\* use, so that its key is not given to another request, and leads nowhere.
resolveq_del(k) ==
  /\ k \in InUse
  /\ map[k].u # NULL
  /\ map' = [map EXCEPT ![k].u = NULL]
  /\ UNCHANGED <<len, size, free, asked, answered>>

Next ==
  \/ \E c \in Conns : resolveq_put(c)
  \/ \E k \in Keys : resolveq_pop(k) \/ resolveq_pop_unused(k) \/ resolveq_del(k)

Spec == Init /\ [][Next]_vars

-----------------------------------------------------------------------------
(* Correctness.                                                            *)

\* The array has len slots and the list of unused slots begins in it.
TypeOK ==
  /\ len \in Nat
  /\ size \in Nat
  /\ map \in [0..(len - 1) -> Slot]
  /\ free \in Unused \cup {NULL}
  /\ asked \subseteq Keys
  /\ answered \in Conns \cup {NULL}

\* The array is dropped with the last request and not before: q->size counts
\* the slots whose key the packet interface still has to answer, those of
\* connections that have timed out among them (resolveq.c:72-79).
SizeIsAsked ==
  /\ asked = InUse
  /\ size = Cardinality(InUse)

\* The places of the list of unused slots, which ends at NULL.
FreeList[n \in Nat] ==
  IF n = 0 THEN free
  ELSE IF FreeList[n - 1] = NULL THEN NULL
  ELSE map[FreeList[n - 1]].u

\* No slot is lost: each is in use or on the list of unused slots, so that the
\* array grows only when every request in it waits (resolveq.c:35-70).
NoLostSlot == {FreeList[n] : n \in 0..len} \ {NULL} = Unused

\* A late answer reaches the connection that asked or nobody, never a connection
\* that was opened since: "We decouple the two so the user can be notified and
\* the connection can be cleaned up ASAP." (resolveq.h:25-32)
AsResolver == INSTANCE Resolver
                WITH request <- [k \in Keys |->
                                   IF k \notin InUse THEN "none"
                                   ELSE IF map[k].u = NULL THEN "gone"
                                   ELSE map[k].u]

ImplementsResolver == AsResolver!Spec
=============================================================================
