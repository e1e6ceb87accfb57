----------------------------- MODULE Handshake -----------------------------
(***************************************************************************)
(* The handshake of routers over UDP: connections are asked for with OPEN   *)
(* and answered with CHAL (conn.c, trip.c), and each router finds the       *)
(* connection of a packet in its connection map (module ConnMap).           *)
(*                                                                         *)
(* An OPEN is sent until it is answered or given up; a CHAL is sent once.   *)
(* Nothing recognises a repeated OPEN, so each one that arrives is a new    *)
(* connection at the other side.  Whoever has its CHAL goes on to PING,     *)
(* which nothing ever sends (see Connection), until it is given up.         *)
(*                                                                         *)
(* The queues and timers of a router are in Connection: here a connection   *)
(* that has something to send may send it at any step, and a timer that is  *)
(* set may fire at any step.                                                *)
(***************************************************************************)
EXTENDS ConnMap, FiniteSets

CONSTANTS
  Routers,    \* the routers, by their address
  Conns,      \* addresses of connections
  Nobody,     \* the id of a peer that is not known
  MaxConn,    \* r->max_conn of each router, a power of 2
  Openers,    \* the routers whose applications open connections
  MaxOpens,   \* bound: connections an application opens
  MaxFaults   \* bound: packets lost or repeated, refusals, restarts

ASSUME BoundsAreNat == MaxOpens \in Nat /\ MaxFaults \in Nat

ASSUME MaxConnIsPositive == MaxConn \in [Routers -> Nat \ {0}]

\* A power of 2 (near_pwr2_64, connmap.c:83): every factor but 1 is even.
ASSUME MaxConnIsPower ==
  \A r \in Routers : \A d, k \in 1..MaxConn[r] :
    d * k = MaxConn[r] /\ d # 1 => d % 2 = 0

VARIABLES
  map,      \* r->conn of each router
  conn,     \* the fields of each connection
  net,      \* the packets that may still arrive
  drawn,    \* how many random numbers each router has drawn for ids
  opened,   \* how many connections each application has opened
  faults    \* what has gone wrong so far

vars == <<map, conn, net, drawn, opened, faults>>

Freed == [state |-> "FREE", router |-> Nobody, id |-> Nobody,
          src |-> Nobody, peer |-> Nobody, hassend |-> FALSE]

Alive == {c \in Conns : conn[c].state # "FREE"}

ConnsOf(r) == {c \in Alive : conn[c].router = r}

Unused == Conns \ Alive

\* The address a connection is allocated at.  Memory does not run out here.
NewConn == CHOOSE c \in Unused : TRUE

ids == [c \in Conns |-> conn[c].id]

\* Mutant: the id is no more than the index.
NewId_Index(r) == <<NextIndex(map[r]), 0>>

\* Random bits are taken not to repeat (connmap_random: 33 bits and more).
NewId(r) == <<NextIndex(map[r]), drawn[r] + 1>>

CanAdd(r) == connmap_has_free(map[r]) \/ CanGrow(map[r])

OPEN(c) == [type |-> "OPEN", from |-> conn[c].router, to |-> conn[c].src, self |-> conn[c].id]

CHAL(c) == [type |-> "CHAL", from |-> conn[c].router, to |-> conn[c].src, self |-> conn[c].id,
            id |-> conn[c].peer]

-----------------------------------------------------------------------------
Init ==
  /\ map = [r \in Routers |-> connmap_init(MaxConn[r])]
  /\ conn = [c \in Conns |-> Freed]
  /\ net = {}
  /\ drawn = [r \in Routers |-> 0]
  /\ opened = [r \in Routers |-> 0]
  /\ faults = 0

\* Connection c with router r's next id, in r's map.
Add(r, c, fields) ==
  /\ map' = [map EXCEPT ![r] = connmap_add(map[r], c)]
  /\ drawn' = [drawn EXCEPT ![r] = @ + 1]
  /\ conn' = [conn EXCEPT ![c] = fields]

trip_open_connection(r, to) ==
  /\ r \in Openers
  /\ opened[r] < MaxOpens
  /\ Unused # {}
  /\ CanAdd(r)
  /\ opened' = [opened EXCEPT ![r] = @ + 1]
  /\ Add(r, NewConn, [state |-> "RESOLVE", router |-> r, id |-> NewId(r),
                      src |-> to, peer |-> Nobody, hassend |-> FALSE])
  /\ UNCHANGED <<net, faults>>

\* OPEN is entered when the source is known.
_tripc_resolved(c) ==
  /\ conn[c].state = "RESOLVE"
  /\ conn' = [conn EXCEPT ![c].state = "OPEN", ![c].hassend = TRUE]
  /\ UNCHANGED <<map, net, drawn, opened, faults>>

\* The resend timer of an OPEN.
Resend(c) ==
  /\ conn[c].state = "OPEN"
  /\ ~conn[c].hassend
  /\ conn' = [conn EXCEPT ![c].hassend = TRUE]
  /\ UNCHANGED <<map, net, drawn, opened, faults>>

\* Mutant: the connection is freed and left in the map.
GiveUp_Mapped(c) ==
  /\ conn[c].state \in {"RESOLVE", "OPEN", "PING"}
  /\ conn' = [conn EXCEPT ![c] = Freed]
  /\ UNCHANGED <<map, net, drawn, opened, faults>>

\* The deadline of its state, or a failure to resolve: _trip_close_connection.
GiveUp(c) ==
  /\ conn[c].state \in {"RESOLVE", "OPEN", "PING"}
  /\ map' = [map EXCEPT ![conn[c].router] = connmap_del(@, ids, conn[c].id)]
  /\ conn' = [conn EXCEPT ![c] = Freed]
  /\ UNCHANGED <<net, drawn, opened, faults>>

\* What a connection has to send is packed and sent, and marked off.
_tripc_send(c) ==
  /\ conn[c].hassend
  /\ conn[c].state \in {"OPEN", "CHAL"}
  /\ net' = net \cup {IF conn[c].state = "OPEN" THEN OPEN(c) ELSE CHAL(c)}
  /\ conn' = [conn EXCEPT ![c].hassend = FALSE]
  /\ UNCHANGED <<map, drawn, opened, faults>>

-----------------------------------------------------------------------------
(* A packet arrives at router p.to.                                        *)

\* A packet that arrives is gone, or stays to arrive once more.
Arrives(p) ==
  \/ net' = net \ {p} /\ UNCHANGED faults
  \/ net' = net /\ faults < MaxFaults /\ faults' = faults + 1

\* Mutant: the connection is made and its CHAL is not marked to be sent.
_trip_segment_open_Unmarked(p) ==
  /\ p.type = "OPEN"
  /\ Unused # {}
  /\ CanAdd(p.to)
  /\ Arrives(p)
  /\ Add(p.to, NewConn, [state |-> "CHAL", router |-> p.to, id |-> NewId(p.to),
                         src |-> p.from, peer |-> p.self, hassend |-> FALSE])
  /\ UNCHANGED opened

\* An OPEN the user lets in, when there is a place for it.
_trip_segment_open(p) ==
  /\ p.type = "OPEN"
  /\ Unused # {}
  /\ CanAdd(p.to)
  /\ Arrives(p)
  /\ Add(p.to, NewConn, [state |-> "CHAL", router |-> p.to, id |-> NewId(p.to),
                         src |-> p.from, peer |-> p.self, hassend |-> TRUE])
  /\ UNCHANGED opened

\* No place in the map (ENOSPC).
RejectFull(p) ==
  /\ p.type = "OPEN"
  /\ ~CanAdd(p.to)
  /\ Arrives(p)
  /\ UNCHANGED <<map, conn, drawn, opened>>

\* The user does not let it in, or there is no memory for the map to grow.
RejectRefused(p) ==
  /\ p.type = "OPEN"
  /\ faults < MaxFaults
  /\ faults' = faults + 1
  /\ net' = net \ {p}
  /\ UNCHANGED <<map, conn, drawn, opened>>

\* Mutant: a CHAL is taken in PING too.
_tripc_read_chal_Twice(p) ==
  /\ p.type = "CHAL"
  /\ connmap_has(map[p.to], ids, p.id)
  /\ LET c == connmap_get(map[p.to], p.id)
     IN  /\ conn[c].state \in {"OPEN", "PING"}
         /\ conn' = [conn EXCEPT ![c].state = "PING", ![c].peer = p.self, ![c].hassend = TRUE]
  /\ Arrives(p)
  /\ UNCHANGED <<map, drawn, opened>>

\* The first CHAL with the id of a connection in OPEN names its peer.
_tripc_read_chal(p) ==
  /\ p.type = "CHAL"
  /\ connmap_has(map[p.to], ids, p.id)
  /\ LET c == connmap_get(map[p.to], p.id)
     IN  /\ conn[c].state = "OPEN"
         /\ conn' = [conn EXCEPT ![c].state = "PING", ![c].peer = p.self, ![c].hassend = TRUE]
  /\ Arrives(p)
  /\ UNCHANGED <<map, drawn, opened>>

\* No connection has the id, or its state has no use for the packet (EINVAL).
RejectChal(p) ==
  /\ p.type = "CHAL"
  /\ connmap_has(map[p.to], ids, p.id) =>
       conn[connmap_get(map[p.to], p.id)].state # "OPEN"
  /\ Arrives(p)
  /\ UNCHANGED <<map, conn, drawn, opened>>

Receive(p) ==
  \/ _trip_segment_open(p)
  \/ RejectFull(p)
  \/ RejectRefused(p)
  \/ _tripc_read_chal(p)
  \/ RejectChal(p)

Lose(p) ==
  /\ faults < MaxFaults
  /\ faults' = faults + 1
  /\ net' = net \ {p}
  /\ UNCHANGED <<map, conn, drawn, opened>>

-----------------------------------------------------------------------------
\* A router is stopped and started: its connections are freed and forgotten
\* (_trip_close).  Only one that nothing waits for in its queues or its wheel.
Restart(r) ==
  /\ r \notin Openers
  /\ faults < MaxFaults
  /\ faults' = faults + 1
  /\ ConnsOf(r) # {}
  /\ \A c \in ConnsOf(r) : ~conn[c].hassend
  /\ map' = [map EXCEPT ![r] = connmap_clear(@)]
  /\ conn' = [c \in Conns |-> IF c \in ConnsOf(r) THEN Freed ELSE conn[c]]
  /\ UNCHANGED <<net, drawn, opened>>

Next ==
  \/ \E r \in Routers : \E to \in Routers \ {r} : trip_open_connection(r, to)
  \/ \E c \in Conns : _tripc_resolved(c) \/ Resend(c) \/ GiveUp(c) \/ _tripc_send(c)
  \/ \E p \in net : Receive(p) \/ Lose(p)
  \/ \E r \in Routers : Restart(r)

Spec == Init /\ [][Next]_vars

\* The packets of an attempt to open a connection, and the answers to it.
OpenOf(c, p) == p.type = "OPEN" /\ p.from = conn[c].router /\ p.self = conn[c].id

ChalTo(c, p) == p.type = "CHAL" /\ p.to = conn[c].router /\ p.id = conn[c].id

\* A router whose application has opened no second connection gives up none while
\* another waits behind it, so that each of its connections has its turn: a CHAL is
\* not given up.  With a second one a turn may never come (module SendQ's
\* MarkedIsReachable).
TurnComes(c) == opened[conn[c].router] <= 1 /\ _tripc_send(c)

\* A timer that is set fires, what is marked is sent where a turn is sure to come,
\* and of what is sent to one side something arrives, as long as it is not lost.
FairSpec ==
  /\ Spec
  /\ \A c \in Conns :
       /\ WF_vars(Resend(c))
       /\ WF_vars(c \in Alive /\ TurnComes(c))
       /\ WF_vars(\E p \in net : OpenOf(c, p) /\ Receive(p))
       /\ WF_vars(\E p \in net : ChalTo(c, p) /\ Receive(p))

-----------------------------------------------------------------------------
(* Correctness.                                                            *)

Ids == Nat \X Nat

Packets ==
  [type : {"OPEN"}, from : Routers, to : Routers, self : Ids] \cup
  [type : {"CHAL"}, from : Routers, to : Routers, self : Ids, id : Ids]

\* Every connection that is not free has an id and a router at the other side,
\* and knows its peer's id from CHAL or PING on; packets name both ends.
TypeOK ==
  /\ \A c \in Alive :
       /\ conn[c].state \in {"RESOLVE", "OPEN", "CHAL", "PING"}
       /\ conn[c].router \in Routers
       /\ conn[c].src \in Routers \ {conn[c].router}
       /\ conn[c].id \in Ids
       /\ IF conn[c].state \in {"CHAL", "PING"} THEN conn[c].peer \in Ids
                                              ELSE conn[c].peer = Nobody
  /\ \A c \in Unused : conn[c] = Freed
  /\ net \subseteq Packets
  /\ \A r \in Routers : map[r].cap \in 0..MaxConn[r] /\ opened[r] \in 0..MaxOpens
  /\ faults \in 0..MaxFaults

\* Every connection of a router is found in its map under its own id, however
\* the map has grown, and the map counts no others: a packet for a live
\* connection is never dropped (connmap.c:217-236).
MapHoldsLive ==
  \A r \in Routers :
    /\ map[r].size = Cardinality(ConnsOf(r))
    /\ \A c \in ConnsOf(r) : /\ connmap_has(map[r], ids, conn[c].id)
                            /\ connmap_get(map[r], conn[c].id) = c

\* The slots of the map without a connection, and the list that starts at free.
EmptySlots(m) == {i \in 0..(m.cap - 1) : ~m.slot[i].isfull}

FreeWalk(m) ==
  LET walk[k \in Nat] ==
        IF k = 0 THEN m.free
        ELSE IF walk[k - 1] = NPOS THEN NPOS ELSE m.slot[walk[k - 1]].u
  IN  [k \in 0..Cardinality(EmptySlots(m)) |-> walk[k]]

\* The free list runs once through every empty slot and ends: no slot is lost,
\* none is given out twice, and none in use is given out (connmap.c:41-57).
FreeListWhole ==
  \A r \in Routers :
    LET m == map[r]
        n == Cardinality(EmptySlots(m))
    IN  /\ {FreeWalk(m)[k] : k \in 0..(n - 1)} = EmptySlots(m)
        /\ FreeWalk(m)[n] = NPOS

\* The connection a peer is taken for is one that answered this connection, if
\* it is still there: no CHAL that is late, repeated, or for a connection that
\* had the slot before, is taken (trip.c:697, conn.c:679).
Agreement ==
  \A c \in Alive : \A d \in ConnsOf(conn[c].src) :
    conn[c].state = "PING" /\ conn[d].id = conn[c].peer
      => conn[d].peer = conn[c].id /\ conn[d].src = conn[c].router

\* The handshake as module Session promises it.
End(r, id) == <<r, id>>

Self(c) == End(conn[c].router, conn[c].id)

Peer(c) == End(conn[c].src, conn[c].peer)

Waiting == {Self(c) : c \in {c \in Alive : conn[c].state \in {"RESOLVE", "OPEN"}}}

Requests == Waiting \cup {End(p.from, p.self) : p \in {p \in net : p.type = "OPEN"}}

Offers ==
  {<<Peer(c), Self(c)>> : c \in {c \in Alive : conn[c].state = "CHAL"}} \cup
  {<<End(p.to, p.id), End(p.from, p.self)>> : p \in {p \in net : p.type = "CHAL"}}

Sessions == {<<Self(c), Peer(c)>> : c \in {c \in Alive : conn[c].state = "PING"}}

Promise == INSTANCE Session WITH
  waiting <- Waiting, requests <- Requests,
  offers <- Offers, sessions <- Sessions

\* Whatever is lost, repeated, reordered or forgotten by a restart, the two ends
\* make sessions as Session allows (conn.c:679-688, trip.c:592-640).
ImplementsSession == Promise!Spec

\* The only attempt of an application does not stay in OPEN, without being answered
\* or given up, when fewer things go wrong than the other side has places: what is
\* lost of OPEN or of the CHAL, which is sent once, a resent OPEN makes good
\* (conn.c:290-312, 866).
OpenEnds ==
  \A c \in Conns :
    (conn[c].state = "OPEN" /\ opened[conn[c].router] = 1 /\ MaxFaults < MaxConn[conn[c].src])
      ~> (conn[c].state # "OPEN" \/ opened[conn[c].router] > 1)
=============================================================================
