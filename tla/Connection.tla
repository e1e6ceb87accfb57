----------------------------- MODULE Connection -----------------------------
(***************************************************************************)
(* The connections of one router (src/src/conn.c with their part of         *)
(* trip.c), from being opened by the application or by a peer's OPEN to     *)
(* being freed, and everything in the router that holds a pointer to one:   *)
(* the timer wheel, the resolve queue, the send queue and the connection    *)
(* map.  The resolve queue is used as Resolver promises.  The send queue is  *)
(* SendFifo as far as q->head reaches it, with what sendq_del does not keep  *)
(* of its end (sendq.c:62-82): giving up the last one leaves q->tail behind. *)
(*                                                                         *)
(* A connection in PING sends nothing and accepts no PING, since nothing    *)
(* sets ping.isactive (conn.c:438, 621), and data is never accepted         *)
(* (conn.c:609): the states behind PING are not reached and not here.      *)
(*                                                                         *)
(* Time is not counted: a timer that is set may fire at any later step, and *)
(* a deadline may pass at any time and has passed after MaxRetry resends.   *)
(***************************************************************************)
EXTENDS Integers, FiniteSets, Sequences

CONSTANTS
  Conns,         \* addresses of connections
  Timers,        \* addresses of timer entries
  NULL,          \* the null pointer
  Keys,          \* bound: keys of the resolve queue
  MaxConn,       \* r->max_conn
  MaxRetry,      \* bound: resends before a deadline has passed for sure
  TimeoutClose,  \* r->timeout_close
  StopBusy       \* whether the router is stopped while it has connections

ASSUME NullIsNoAddress == NULL \notin Conns \cup Timers

ASSUME NoConnIsAString == Conns \cap {"none", "gone"} = {}

ASSUME TimersAreFinite == IsFiniteSet(Timers)

ASSUME CountsAreNat == MaxConn \in Nat /\ MaxRetry \in Nat /\ TimeoutClose \in Nat

VARIABLES
  conn,               \* the fields of each connection
  alive,              \* the connections that are allocated
  mapped,             \* the connections in r->conn
  told,               \* the error the user was told at a connection's end
  wheel,              \* the timer entries that are set and not canceled
  request, answered,  \* the resolve queue, as Resolver has it
  asked,              \* the keys the packet interface has been asked to resolve
  queue,              \* the connections that wait to send, from q->head on
  adrift,             \* q->tail points to one that is freed or was never reached
  lost,               \* the connections marked insend that q->head does not reach
  router              \* the router's state

sendq == <<queue, adrift, lost>>

vars == <<conn, alive, mapped, told, wheel, request, answered, asked, sendq, router>>

ResolveQueue == INSTANCE Resolver

SendQueue == INSTANCE SendFifo

-----------------------------------------------------------------------------
(* Connections and timers.                                                 *)

New(incoming, key) ==
  [state    |-> "START",
   error    |-> "none",
   incoming |-> incoming,
   hassend  |-> FALSE,
   timer    |-> NULL,
   retry    |-> 0,
   key      |-> key]

\* What a freed connection's memory holds does not matter.
Freed == New(FALSE, NULL)

Unset == [cb |-> "none", c |-> NULL]

Unused == {t \in Timers : wheel[t] = Unset}

\* The address an entry is allocated at.  Memory does not run out here.
NewTimer == CHOOSE t \in Unused : TRUE

CallsTo(c) == {t \in Timers : wheel[t].c = c}

\* The wheel after c's timer t, which may be NULL, is canceled or has fired.
Without(t) == IF t = NULL THEN wheel ELSE [wheel EXCEPT ![t] = Unset]

\* _trip_set_timeout for connection c, after timer t is gone.
SetTimeout(t, cb, c) == [Without(t) EXCEPT ![NewTimer] = [cb |-> cb, c |-> c]]

_tripc_set_error(q, e) ==
  IF q.state = "ERROR" THEN q ELSE [q EXCEPT !.error = e, !.state = "ERROR"]

\* c->insend
Insend == SendQueue!Waiting \cup lost

\* One that is queued behind a tail that is adrift is linked from there, and not
\* from q->head.
sendq_nq(c) ==
  \/ /\ c \in Insend
     /\ UNCHANGED sendq
  \/ /\ ~adrift
     /\ c \notin Insend
     /\ SendQueue!Ask(c)
     /\ UNCHANGED <<adrift, lost>>
  \/ /\ adrift
     /\ c \notin Insend
     /\ lost' = lost \cup {c}
     /\ UNCHANGED <<queue, adrift>>

\* The turn that empties the queue sets q->tail to null.
sendq_dq ==
  /\ SendQueue!Turn
  /\ adrift' = (adrift /\ queue' # <<>>)
  /\ UNCHANGED lost

\* q->tail stays where it is.
sendq_del(c) ==
  \/ /\ c \notin Insend
     /\ UNCHANGED sendq
  \/ /\ c \in lost
     /\ lost' = lost \ {c}
     /\ UNCHANGED <<queue, adrift>>
  \/ /\ SendQueue!Leave(c)
     /\ adrift' = (adrift \/ c = queue[Len(queue)])
     /\ UNCHANGED lost

\* Mutant: the connection is marked and not put in the router's queue.
_tripc_set_send_MarkOnly(c) == UNCHANGED sendq

_tripc_set_send(c) == sendq_nq(c)

\* Mutant: the connection is freed while it is in the send queue.
_trip_close_connection_Queued(q, c, t) ==
  /\ told' = [told EXCEPT ![c] = q.error]
  /\ mapped' = mapped \ {c}
  /\ wheel' = [Without(t) EXCEPT ![IF q.timer = NULL THEN t ELSE q.timer] = Unset]
  /\ alive' = alive \ {c}
  /\ conn' = [conn EXCEPT ![c] = Freed]
  /\ UNCHANGED sendq

\* Called from timer t with c's fields in q: the user is told, and c is taken
\* out of the map, the wheel and the send queue and freed.
_trip_close_connection(q, c, t) ==
  /\ told' = [told EXCEPT ![c] = q.error]
  /\ mapped' = mapped \ {c}
  /\ wheel' = [Without(t) EXCEPT ![IF q.timer = NULL THEN t ELSE q.timer] = Unset]
  /\ sendq_del(c)
  /\ alive' = alive \ {c}
  /\ conn' = [conn EXCEPT ![c] = Freed]

-----------------------------------------------------------------------------
Init ==
  /\ conn = [c \in Conns |-> Freed]
  /\ alive = {}
  /\ mapped = {}
  /\ told = [c \in Conns |-> "none"]
  /\ wheel = [t \in Timers |-> Unset]
  /\ ResolveQueue!Init
  /\ asked = {}
  /\ SendQueue!Init
  /\ adrift = FALSE
  /\ lost = {}
  /\ router = "LISTEN"

(* Opening, by the application or by a peer.                               *)

\* The request is queued before a place in the map is looked for.  The map may
\* be full, or there is no memory for it to grow (connmap_add).
trip_open_connection(c) ==
  /\ c \notin alive
  /\ Cardinality(Unused) > 1
  /\ \E k \in Keys :
       /\ ResolveQueue!Ask(k, c)
       /\ \/ /\ Cardinality(mapped) < MaxConn
             /\ conn' = [conn EXCEPT ![c] = New(FALSE, k)]
             /\ alive' = alive \cup {c}
             /\ mapped' = mapped \cup {c}
             /\ told' = [told EXCEPT ![c] = "none"]
             /\ wheel' = SetTimeout(NULL, "open", c)
          \/ /\ told' = [told EXCEPT ![c] = "EBUSY"]
             /\ UNCHANGED <<conn, alive, mapped, wheel>>
  /\ UNCHANGED <<asked, sendq, router>>

\* An OPEN that the user has let in.  Whether it is a repeated one cannot be
\* told: r->connsrc is never filled.  One that cannot be read leaves the
\* connection behind.
_trip_segment_open(c) ==
  /\ router \in {"LISTEN", "CLOSE"}
  /\ c \notin alive
  /\ Cardinality(mapped) < MaxConn
  /\ alive' = alive \cup {c}
  /\ mapped' = mapped \cup {c}
  /\ told' = [told EXCEPT ![c] = "none"]
  /\ \E readable \in BOOLEAN :
       /\ conn' = [conn EXCEPT ![c] = [New(TRUE, NULL) EXCEPT !.state = "CHAL",
                                                              !.hassend = readable]]
       /\ IF readable THEN _tripc_set_send(c) ELSE UNCHANGED sendq
  /\ UNCHANGED <<wheel, request, answered, asked, router>>

-----------------------------------------------------------------------------
(* Timers.  What a callback does with a connection that has been freed is   *)
(* not modelled.                                                           *)

Fires(t, cb) == wheel[t].cb = cb /\ wheel[t].c \in alive

\* The connection starts, and the packet interface is asked to resolve it.
_trip_open_connection_async_cb(t) ==
  /\ Fires(t, "open")
  /\ LET c == wheel[t].c
     IN  /\ conn' = [conn EXCEPT ![c].state = "RESOLVE", ![c].timer = NewTimer]
         /\ wheel' = SetTimeout(t, "resolve", c)
         /\ asked' = asked \cup {conn[c].key}
  /\ UNCHANGED <<alive, mapped, told, request, answered, sendq, router>>

\* Mutant: the request is not given up with the connection.
_tripc_timeout_state_resolve_cb_KeepsRequest(t) ==
  /\ Fires(t, "resolve")
  /\ LET c == wheel[t].c
     IN  _trip_close_connection(
           _tripc_set_error([conn[c] EXCEPT !.timer = NULL], "ETIME"), c, t)
  /\ UNCHANGED <<request, answered, asked, router>>

_tripc_timeout_state_resolve_cb(t) ==
  /\ Fires(t, "resolve")
  /\ LET c == wheel[t].c
     IN  /\ ResolveQueue!Leave(conn[c].key)
         /\ _trip_close_connection(
              _tripc_set_error([conn[c] EXCEPT !.timer = NULL], "ETIME"), c, t)
  /\ UNCHANGED <<asked, router>>

\* _tripc_resolved: OPEN is entered, from whatever state.
_trip_resolve_delay_success_cb(t) ==
  /\ Fires(t, "resolved")
  /\ LET c == wheel[t].c
     IN  /\ conn' = [conn EXCEPT ![c].state = "OPEN", ![c].hassend = TRUE,
                                 ![c].retry = 1, ![c].timer = NewTimer]
         /\ wheel' = SetTimeout(t, "resend", c)
         /\ _tripc_set_send(c)
  /\ UNCHANGED <<alive, mapped, told, request, answered, asked, router>>

_trip_resolve_delay_failure_cb(t) ==
  /\ Fires(t, "unresolved")
  /\ _trip_close_connection(conn[wheel[t].c], wheel[t].c, t)
  /\ UNCHANGED <<request, answered, asked, router>>

\* Mutant: the packet is sent again and no later resend is planned.
Resend_Once(t) ==
  /\ Fires(t, "resend")
  /\ LET c == wheel[t].c
     IN  /\ conn[c].retry <= MaxRetry
         /\ conn' = [conn EXCEPT ![c].hassend = TRUE, ![c].retry = @ + 1, ![c].timer = NULL]
         /\ wheel' = Without(t)
         /\ _tripc_set_send(c)
  /\ UNCHANGED <<alive, mapped, told, request, answered, asked, router>>

\* Mutant: the deadline is not looked at.
Resend_NoDeadline(t) ==
  /\ Fires(t, "resend")
  /\ LET c == wheel[t].c
     IN  /\ conn' = [conn EXCEPT ![c].hassend = TRUE, ![c].retry = @ + 1,
                                 ![c].timer = NewTimer]
         /\ wheel' = SetTimeout(t, "resend", c)
         /\ _tripc_set_send(c)
  /\ UNCHANGED <<alive, mapped, told, request, answered, asked, router>>

\* _tripc_timeout_state_resend_cb before the deadline, and after it.
Resend(t) ==
  /\ Fires(t, "resend")
  /\ LET c == wheel[t].c
     IN  /\ conn[c].retry <= MaxRetry
         /\ conn' = [conn EXCEPT ![c].hassend = TRUE, ![c].retry = @ + 1,
                                 ![c].timer = NewTimer]
         /\ wheel' = SetTimeout(t, "resend", c)
         /\ _tripc_set_send(c)
  /\ UNCHANGED <<alive, mapped, told, request, answered, asked, router>>

GiveUp(t) ==
  /\ Fires(t, "resend")
  /\ LET c == wheel[t].c
     IN  _trip_close_connection(_tripc_set_error(conn[c], "ETIME"), c, t)
  /\ UNCHANGED <<request, answered, asked, router>>

Fire(t) ==
  \/ _trip_open_connection_async_cb(t)
  \/ _tripc_timeout_state_resolve_cb(t)
  \/ _trip_resolve_delay_success_cb(t)
  \/ _trip_resolve_delay_failure_cb(t)
  \/ Resend(t)
  \/ GiveUp(t)

-----------------------------------------------------------------------------
(* The packet interface resolves.                                          *)

\* Mutant: the resolve timer is left to race the delayed answer.
trip_resolve_KeepsTimer(k) ==
  /\ k \in asked
  /\ asked' = asked \ {k}
  /\ ResolveQueue!Answer(k)
  /\ \/ /\ answered' = NULL
        /\ UNCHANGED <<conn, wheel>>
     \/ /\ answered' # NULL
        /\ conn' = [conn EXCEPT ![answered'].timer = NULL]
        /\ wheel' = SetTimeout(NULL, "resolved", answered')
  /\ UNCHANGED <<alive, mapped, told, sendq, router>>

\* Mutant: the resolve timer is canceled and still pointed to.
trip_resolve_KeepsPointer(k) ==
  /\ k \in asked
  /\ asked' = asked \ {k}
  /\ ResolveQueue!Answer(k)
  /\ IF answered' = NULL
       THEN UNCHANGED wheel
       ELSE wheel' = SetTimeout(conn[answered'].timer, "resolved", answered')
  /\ UNCHANGED <<conn, alive, mapped, told, sendq, router>>

\* "Timeout already occurred, bummer."; or the timer is canceled and what comes
\* next, success or failure, is left to a zero timer.
trip_resolve(k) ==
  /\ k \in asked
  /\ asked' = asked \ {k}
  /\ ResolveQueue!Answer(k)
  /\ \/ /\ answered' = NULL
        /\ UNCHANGED <<conn, wheel>>
     \/ /\ answered' # NULL
        /\ \/ /\ conn' = [conn EXCEPT ![answered'].timer = NULL]
              /\ wheel' = SetTimeout(conn[answered'].timer, "resolved", answered')
           \/ /\ conn' = [conn EXCEPT ![answered'] =
                            _tripc_set_error([conn[answered'] EXCEPT !.timer = NULL], "EPACKET")]
              /\ wheel' = SetTimeout(conn[answered'].timer, "unresolved", answered')
  /\ UNCHANGED <<alive, mapped, told, sendq, router>>

-----------------------------------------------------------------------------
(* Packets.                                                                *)

\* In OPEN any packet is read as a CHAL: the resends of OPEN end, those of PING
\* begin.
ReadsChal(c) ==
  /\ conn[c].state = "OPEN"
  /\ conn' = [conn EXCEPT ![c].state = "PING", ![c].hassend = TRUE,
                          ![c].retry = 1, ![c].timer = NewTimer]
  /\ wheel' = SetTimeout(conn[c].timer, "resend", c)
  /\ _tripc_set_send(c)

\* In CHAL a PING is looked at while the CHAL has not been sent, which keeps it
\* from being sent (conn.c:633); none can be read, since trip_unpack knows no
\* encrypted part (pack.c:568).
ReadsPing(c) ==
  /\ conn[c].state = "CHAL"
  /\ conn[c].hassend
  /\ conn' = [conn EXCEPT ![c].hassend = FALSE]
  /\ UNCHANGED <<sendq, wheel>>

\* A packet with c's id, in each state that changes something: RESOLVE is an
\* "Invalid state.".
_tripc_read(c) ==
  \/ /\ conn[c].state = "RESOLVE"
     /\ conn' = [conn EXCEPT ![c] = _tripc_set_error(conn[c], "EINVAL")]
     /\ UNCHANGED <<wheel, sendq>>
  \/ ReadsChal(c)
  \/ ReadsPing(c)

_trip_segment(c) ==
  /\ router \in {"LISTEN", "CLOSE"}
  /\ c \in mapped
  /\ _tripc_read(c)
  /\ UNCHANGED <<alive, mapped, told, request, answered, asked, router>>

\* OPEN and CHAL are marked off as they are written; PING never is (conn.c:438).
MarkedAfter(c) == conn[c].hassend /\ conn[c].state \notin {"OPEN", "CHAL"}

\* The turn of the connection at the head: one packet if there is one, after
\* which it has nothing more to send.  One that may not send fails the router.
_tripc_send(c) ==
  /\ queue # <<>>
  /\ c = Head(queue)
  /\ sendq_dq
  /\ conn' = [conn EXCEPT ![c].hassend = MarkedAfter(c)]
  /\ router' = IF conn[c].state \in {"RESOLVE", "OPEN", "CHAL", "PING"} THEN router ELSE "ERROR"
  /\ UNCHANGED <<alive, mapped, told, wheel, request, answered, asked>>

-----------------------------------------------------------------------------
(* The router.                                                             *)

\* Frees the connections of the map if there is no time left, and forgets them.
_trip_close(gracems) ==
  /\ StopBusy \/ mapped = {}
  /\ alive' = IF gracems = 0 THEN alive \ mapped ELSE alive
  /\ mapped' = {}

EnterClose ==
  /\ router = "LISTEN"
  /\ router' = "CLOSE"
  /\ _trip_close(TimeoutClose)
  /\ UNCHANGED <<conn, told, wheel, request, answered, asked, sendq>>

EnterUnbind ==
  /\ router = "CLOSE"
  /\ router' = "UNBIND"
  /\ _trip_close(0)
  /\ UNCHANGED <<conn, told, wheel, request, answered, asked, sendq>>

\* ERROR leaves the connections as they are.
EnterError ==
  /\ router # "ERROR"
  /\ router' = "ERROR"
  /\ UNCHANGED <<conn, alive, mapped, told, wheel, request, answered, asked, sendq>>

Next ==
  \/ \E c \in Conns : trip_open_connection(c) \/ _trip_segment_open(c)
  \/ \E t \in Timers : Fire(t)
  \/ \E k \in Keys : trip_resolve(k)
  \/ \E c \in Conns : _trip_segment(c) \/ _tripc_send(c)
  \/ EnterClose \/ EnterUnbind \/ EnterError

Spec == Init /\ [][Next]_vars

\* A walk resolves every entry that is due, as long as trip_run goes on.
FairSpec == Spec /\ \A t \in Timers : WF_vars(router = "LISTEN" /\ Fire(t))

-----------------------------------------------------------------------------
(* Correctness.                                                            *)

Callbacks == {"open", "resolve", "resolved", "unresolved", "resend"}

Errors == {"none", "EBUSY", "ETIME", "EPACKET", "EINVAL"}

ConnType ==
  [state    : {"START", "RESOLVE", "OPEN", "CHAL", "PING", "ERROR"},
   error    : Errors,
   incoming : BOOLEAN,
   hassend  : BOOLEAN,
   timer    : Timers \cup {NULL},
   retry    : 0..(MaxRetry + 1),
   key      : Keys \cup {NULL}]

\* Every field has a value the code can give it.
TypeOK ==
  /\ conn \in [Conns -> ConnType]
  /\ mapped \subseteq alive
  /\ alive \subseteq Conns
  /\ told \in [Conns -> Errors]
  /\ wheel \in [Timers -> [cb : Callbacks, c : Conns] \cup {Unset}]
  /\ request \in [Keys -> Conns \cup {"none", "gone"}]
  /\ answered \in Conns \cup {NULL}
  /\ asked \subseteq Keys
  /\ Insend \subseteq Conns
  /\ adrift \in BOOLEAN
  /\ router \in {"LISTEN", "CLOSE", "UNBIND", "ERROR"}

\* An outgoing connection always has exactly one callback to come, and none has
\* one after it was freed: no attempt is forgotten, no callback runs on freed
\* memory, and none comes from two timers ("You must cancel the timeout so we
\* don't have a race condition with delay of the resolve.", trip.c:956).
OneCallback ==
  \A c \in Conns :
    Cardinality(CallsTo(c)) = IF c \in alive /\ ~conn[c].incoming THEN 1 ELSE 0

\* c->statetimer, through which a timer is canceled, points to the timer of the
\* state the connection is in (conn.c:273-287).
TimerIsOwn ==
  \A c \in alive :
    conn[c].timer # NULL => /\ wheel[conn[c].timer].c = c
                            /\ wheel[conn[c].timer].cb \in {"resolve", "resend"}

\* A key the packet interface still holds leads to the live connection that is
\* waiting under it or to nobody, also after that connection's memory has been
\* given to another (trip.c:948-960).
AnswerFindsItsOwn ==
  \A k \in asked :
    request[k] # "gone" =>
      /\ request[k] \in alive
      /\ conn[request[k]].key = k
      /\ \E t \in CallsTo(request[k]) : wheel[t].cb = "resolve"

\* Whoever is marked to be in the send queue is allocated and may send: the end of
\* a connection, however it comes, takes the mark off and does not fail the router
\* (trip.c:326-332).
SendersAreFit ==
  \A c \in Insend : c \in alive /\ conn[c].state \in {"OPEN", "CHAL", "PING"}

\* What a connection has marked to be sent is in the queue and will have its turn,
\* in every state it goes through (conn.c:290-301).  Those are out that lose it to
\* a last one that was given up while it waited: they are marked and not reached
\* (sendq.c:62-82, module SendQ's MarkedIsReachable).
MarkedIsQueued ==
  \A c \in alive :
    conn[c].hassend => c \in SendQueue!Waiting \/ c \in lost \/ conn[c].state = "PING"

\* Every attempt to open a connection ends, and the user is told why.
AttemptEnds ==
  \A c \in Conns :
    (c \in alive /\ ~conn[c].incoming) ~> (told[c] # "none" \/ router # "LISTEN")

\* "Connections are notified of shutdown to close protocols nicely."
\* (trip.c:1549): none is freed without the user's being told.
EndIsTold == [][\A c \in alive \ alive' : told'[c] # "none"]_vars
=============================================================================
