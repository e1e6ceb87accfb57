------------------------------ MODULE ConnMap ------------------------------
(***************************************************************************)
(* The connection map of a router (src/src/connmap.c): slots that hold a    *)
(* connection or are linked in a free list, doubled when the list is empty, *)
(* given back when the map is empty.  The id of a connection is the index   *)
(* of its slot with random bits above it: here a pair of both.              *)
(***************************************************************************)
EXTENDS Integers

NPOS == -1

Full(c) == [isfull |-> TRUE, u |-> c]

Empty(next) == [isfull |-> FALSE, u |-> next]

\* max is a power of 2 (near_pwr2_64).
connmap_init(max) ==
  [max  |-> max,
   size |-> 0,
   cap  |-> 0,
   free |-> NPOS,
   slot |-> [i \in 0..-1 |-> Empty(NPOS)]]

connmap_clear(m) == connmap_init(m.max)

connmap_index(id) == id[1]

\* Whether there is a place without more memory; CanGrow: and with more.
connmap_has_free(m) == m.free # NPOS

\* Mutant: a full map grows once more.
CanGrow_Full(m) == m.size <= m.max

CanGrow(m) == m.size < m.max

\* Mutant: the first of the new slots is linked to the one below it.
Grown_Unended(m) ==
  LET cap == IF m.cap = 0 THEN 1 ELSE 2 * m.cap
  IN  [m EXCEPT !.cap  = cap,
                !.slot = [i \in 0..(cap - 1) |->
                            IF i < m.cap THEN m.slot[i] ELSE Empty(i - 1)],
                !.free = cap - 1]

\* The new slots are pushed from the lowest on, so the highest is the first.
Grown(m) ==
  LET cap == IF m.cap = 0 THEN 1 ELSE 2 * m.cap
  IN  [m EXCEPT !.cap  = cap,
                !.slot = [i \in 0..(cap - 1) |->
                            IF i < m.cap THEN m.slot[i]
                            ELSE Empty(IF i = m.cap THEN NPOS ELSE i - 1)],
                !.free = cap - 1]

WithFree(m) == IF connmap_has_free(m) THEN m ELSE Grown(m)

\* The slot the next connection is given.
NextIndex(m) == WithFree(m).free

\* The map with connection c in it.
connmap_add(m, c) ==
  LET g == WithFree(m)
  IN  [g EXCEPT !.free         = g.slot[g.free].u,
                !.slot[g.free] = Full(c),
                !.size         = @ + 1]

\* Whether id, with ids the id of each connection, is that of one in the map.
connmap_has(m, ids, id) ==
  /\ connmap_index(id) \in 0..(m.cap - 1)
  /\ m.slot[connmap_index(id)].isfull
  /\ ids[m.slot[connmap_index(id)].u] = id

connmap_get(m, id) == m.slot[connmap_index(id)].u

connmap_del(m, ids, id) ==
  IF ~connmap_has(m, ids, id) THEN m
  ELSE IF m.size = 1 THEN connmap_clear(m)
  ELSE [m EXCEPT !.slot[connmap_index(id)] = Empty(m.free),
                 !.free                    = connmap_index(id),
                 !.size                    = @ - 1]
=============================================================================
