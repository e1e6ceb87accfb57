------------------------------- MODULE Router -------------------------------
(***************************************************************************)
(* The router of libtrp (src/src/trip.c): its state machine, the state      *)
(* timer it keeps in the timer wheel, and the calls that drive it.          *)
(*                                                                         *)
(* The library is single threaded.  What interleaves is the order in which  *)
(* its entry points are called: the application (trip_start, trip_stop),    *)
(* the poll loop or the application's own loop (trip_timeout, trip_action), *)
(* and the packet interface, which answers bind() and unbind() from inside  *)
(* the call or at any later time (trip_ready, trip_unready, trip_error).    *)
(* A walk of the wheel runs one callback per step, so that its order, and   *)
(* what a callback leaves behind for the next one, is explored.             *)
(*                                                                         *)
(* Time is relative: an entry holds the milliseconds left until it is due,  *)
(* and Tick lets one pass.  The order of a walk is left open here; module   *)
(* TimerWheel has it exactly.                                              *)
(***************************************************************************)
EXTENDS Integers, FiniteSets

CONSTANTS
  Timers,              \* addresses a timer entry can be allocated at
  NULL,                \* the null pointer
  TimeoutBind,         \* r->timeout_bind
  TimeoutClose,        \* r->timeout_close
  TimeoutUnbind,       \* r->timeout_unbind
  BindAnswers,         \* how the packet interface may answer bind()
  UnbindAnswers,       \* how it may answer unbind()
  StopStates,          \* router states in which the application calls trip_stop
  MaxStops,            \* bound: stop requests waiting in the wheel
  MaxUnanswered,       \* bound: unanswered bind() and unbind() calls at a start
  FdStates,            \* router states in which a watched descriptor is ready
  TimeoutActionStates, \* states in which trip_action(TIMEOUT) is called directly
  PacketErrorStates    \* states in which the packet interface reports an error

States == {"START", "BIND", "LISTEN", "CLOSE", "UNBIND", "END", "ERROR"}

\* bind() and unbind() are answered at any later time, or inside the call.
Answers == {"async", "ok", "error"}

ASSUME NullIsNoTimer == NULL \notin Timers

ASSUME TimeoutsAreMs ==
  /\ TimeoutBind \in Nat
  /\ TimeoutClose \in Nat
  /\ TimeoutUnbind \in Nat

ASSUME EnvironmentIsKnown ==
  /\ BindAnswers \subseteq Answers
  /\ UnbindAnswers \subseteq Answers
  /\ StopStates \subseteq States
  /\ FdStates \subseteq States
  /\ TimeoutActionStates \subseteq States
  /\ PacketErrorStates \subseteq States
  /\ MaxStops \in Nat
  /\ MaxUnanswered \in Nat

VARIABLES
  r,      \* the router: see RouterType
  phase,  \* "idle", or the call whose walk of the wheel is under way
  walk    \* the entries that walk has still to visit

vars == <<r, phase, walk>>

-----------------------------------------------------------------------------
(* The timer wheel, as far as the router uses it.                          *)

FreeEntry == [cb |-> "free", left |-> 0, canceled |-> FALSE]

Entry == [cb : {"free", "state", "stop"}, left : Nat, canceled : BOOLEAN]

Free(q) == {t \in Timers : q.wheel[t].cb = "free"}

\* Entries a walk resolves: due, or canceled before they were.
Due(q) ==
  {t \in Timers : q.wheel[t].cb # "free" /\ (q.wheel[t].left = 0 \/ q.wheel[t].canceled)}

Pending(q, cb) ==
  {t \in Timers : q.wheel[t].cb = cb /\ ~q.wheel[t].canceled}

\* The address timerwheel_add gets from the allocator, or NULL.
NewTimer(q) ==
  IF Free(q) = {} THEN NULL ELSE CHOOSE t \in Free(q) : TRUE

_trip_set_timeout(q, cb, ms) ==
  IF Free(q) = {}
    THEN q
    ELSE [q EXCEPT !.wheel[NewTimer(q)] = [cb |-> cb, left |-> ms, canceled |-> FALSE]]

\* r->statetimer = _trip_set_timeout(r, ms, r, _trip_timeout_router_cb)
ArmStateTimer(q, ms) ==
  [_trip_set_timeout(q, "state", ms) EXCEPT !.statetimer = NewTimer(q)]

_trip_timeout_cancel_state(q) ==
  IF q.statetimer = NULL
    THEN q
    ELSE [q EXCEPT !.wheel[q.statetimer].canceled = TRUE, !.statetimer = NULL]

\* The walk frees an entry after its callback has returned.
FreeTimer(q, t) == [q EXCEPT !.wheel[t] = FreeEntry]

-----------------------------------------------------------------------------
(* The packet interface's side of bind() and unbind().  A call that is not  *)
(* answered inside it is answered some time later, whatever else has been   *)
(* asked of the interface by then: the router keeps no record of it.        *)

PacketType ==
  [held      : BOOLEAN,  \* bind() was called, and unbind() not since
   binds     : Nat,      \* bind() calls that are not answered yet
   unbinds   : Nat,      \* unbind() calls that are not answered yet
   overtaken : BOOLEAN]  \* bind() was called before an unbind() was answered

Later(a) == IF a = "async" THEN 1 ELSE 0

CallBind(q, b) ==
  [q EXCEPT !.pkt = [held      |-> TRUE,
                     binds     |-> q.pkt.binds + Later(b),
                     unbinds   |-> q.pkt.unbinds,
                     overtaken |-> q.pkt.overtaken \/ q.pkt.unbinds > 0]]

CallUnbind(q, u) ==
  [q EXCEPT !.pkt = [held      |-> FALSE,
                     binds     |-> q.pkt.binds,
                     unbinds   |-> q.pkt.unbinds + Later(u),
                     overtaken |-> q.pkt.overtaken]]

\* A call is answered at last.
BindAnswered(q) == [q EXCEPT !.pkt.binds = @ - 1]

UnbindAnswered(q) == [q EXCEPT !.pkt.unbinds = @ - 1]

-----------------------------------------------------------------------------
(* _trip_set_state and _trip_set_error, which call each other through the   *)
(* packet interface.  b and u are the interface's answers to the bind() and *)
(* unbind() called on the way.                                             *)

\* Mutant: the bind timer is not canceled on leaving BIND.
LeaveState_KeepsBindTimer(q) ==
  IF q.state \in {"CLOSE", "UNBIND"}
    THEN [_trip_timeout_cancel_state(q) EXCEPT !.statedeadline = 0]
    ELSE q

\* "When leaving the state, do this."
LeaveState(q) ==
  IF q.state \in {"BIND", "CLOSE", "UNBIND"}
    THEN [_trip_timeout_cancel_state(q) EXCEPT !.statedeadline = 0]
    ELSE q

\* A synchronous answer to this unbind() changes nothing: trip_unready(0) comes
\* back here and finds the state timer set, trip_unready(err) finds ERROR.  The
\* code reads r->packet->router also before _trip_fill_missing has set r->packet
\* (trip.c:1381); a router without an interface is one that is not bound here.
EnterError(q, u) ==
  IF q.router /\ q.statetimer = NULL
    THEN CallUnbind(ArmStateTimer([q EXCEPT !.state = "ERROR"], TimeoutUnbind), u)
    ELSE [q EXCEPT !.state = "ERROR"]

\* Mutant: without "Prevent multiple calls."
_trip_set_error_Again(q, e, u) ==
  EnterError(LeaveState([q EXCEPT !.error = e]), u)

_trip_set_error(q, e, u) ==
  IF q.state = "ERROR"
    THEN q
    ELSE EnterError(LeaveState([q EXCEPT !.error = e]), u)

EnterListen(q) == [q EXCEPT !.state = "LISTEN", !.statedeadline = -1]

\* Mutant: BIND waits for the packet interface without a timer.
EnterBind_NoTimer(q, b, u) ==
  LET called == CallBind([q EXCEPT !.state = "BIND", !.statedeadline = TimeoutBind], b)
  IN  CASE b = "async" -> called
        [] b = "ok"    -> EnterListen(called)
        [] b = "error" -> _trip_set_error(called, "EPACKET", u)

EnterBind(q, b, u) ==
  LET called == CallBind(ArmStateTimer([q EXCEPT !.state = "BIND",
                                                 !.statedeadline = TimeoutBind],
                                      TimeoutBind), b)
  IN  CASE b = "async" -> called
        [] b = "ok"    -> EnterListen(LeaveState(called))
        [] b = "error" -> _trip_set_error(called, "EPACKET", u)

\* Mutant: CLOSE sets its deadline and no timer.
EnterClose_NoTimer(q) ==
  [q EXCEPT !.state = "CLOSE", !.statedeadline = TimeoutClose]

EnterClose(q) ==
  ArmStateTimer([q EXCEPT !.state = "CLOSE", !.statedeadline = TimeoutClose], TimeoutClose)

\* The state timer is armed after unbind() returns, whatever state the answer
\* has put the router in by then.
EnterUnbind(q, u) ==
  LET called   == CallUnbind([q EXCEPT !.state = "UNBIND"], u)
      answered == CASE u = "async" -> called
                    [] u = "ok"    -> [LeaveState(called) EXCEPT !.state = "END"]
                    [] u = "error" -> _trip_set_error(called, "EPACKET", u)
  IN  ArmStateTimer([answered EXCEPT !.statedeadline = TimeoutUnbind], TimeoutUnbind)

\* Leaving ERROR leads back to ERROR.
_trip_set_state(q, s, b, u) ==
  LET left == LeaveState(q)
  IN  CASE q.state = "ERROR"                   -> EnterError(left, u)
        [] q.state # "ERROR" /\ s = "BIND"     -> EnterBind(left, b, u)
        [] q.state # "ERROR" /\ s = "LISTEN"   -> EnterListen(left)
        [] q.state # "ERROR" /\ s = "CLOSE"    -> EnterClose(left)
        [] q.state # "ERROR" /\ s = "UNBIND"   -> EnterUnbind(left, u)
        [] q.state # "ERROR" /\ s = "END"      -> [left EXCEPT !.state = "END"]
        [] q.state # "ERROR" /\ s = "ERROR"    -> EnterError(left, u)

-----------------------------------------------------------------------------
(* What trip_action does in the states that have work to do.  e is the      *)
(* error a read or a send of _trip_listen fails with, or "none".            *)

ListenStep(q, e, u) ==
  IF e = "none" THEN q ELSE _trip_set_error(q, e, u)

CloseStep(q, e, u) ==
  LET listened == ListenStep(q, e, u)
  IN  IF listened.statedeadline <= 0
        THEN _trip_set_state(listened, "UNBIND", "async", u)
        ELSE listened

UnbindStep(q, u) ==
  IF q.statedeadline <= 0 THEN _trip_set_state(q, "END", "async", u) ELSE q

\* Mutant: the timeout is recalculated without looking at the deadline first.
BindStep_PastDeadline(q, u) == ArmStateTimer(q, q.statedeadline)

BindStep(q, u) ==
  IF q.statedeadline < 0
    THEN _trip_set_error(q, "ETIME", u)
    ELSE ArmStateTimer(q, q.statedeadline)

ListenErrors == {"none", "ECOMM"}

-----------------------------------------------------------------------------
Init ==
  /\ r = [state         |-> "START",
          error         |-> "none",
          statetimer    |-> NULL,
          statedeadline |-> -1,
          wheel         |-> [t \in Timers |-> FreeEntry],
          router        |-> FALSE,
          pkt           |-> [held |-> FALSE, binds |-> 0, unbinds |-> 0,
                             overtaken |-> FALSE]]
  /\ phase = "idle"
  /\ walk = {}

(* The application.                                                        *)

\* Resets END to START and runs trip_action(TIMEOUT); EINVAL elsewhere.
trip_start ==
  /\ phase = "idle"
  /\ r.state \in {"START", "END"}
  /\ r.pkt.binds + r.pkt.unbinds < MaxUnanswered
  /\ r' = [r EXCEPT !.state = "START"]
  /\ phase' = "action"
  /\ walk' = Due(r)

\* Asks for CLOSE from a zero timer, or at once if there is no memory for it.
trip_stop ==
  /\ phase = "idle"
  /\ r.state \in {"START", "BIND", "LISTEN"} \cap StopStates
  /\ Cardinality(Pending(r, "stop")) < MaxStops
  /\ \E u \in UnbindAnswers :
       r' = IF Free(r) = {}
              THEN _trip_set_state(r, "CLOSE", "async", u)
              ELSE _trip_set_timeout(r, "stop", 0)
  /\ UNCHANGED <<phase, walk>>

(* The driver: trip_run or the application's own loop.                     *)

trip_timeout ==
  /\ phase = "idle"
  /\ Due(r) # {}
  /\ phase' = "timeout"
  /\ walk' = Due(r)
  /\ UNCHANGED r

trip_action_timeout ==
  /\ phase = "idle"
  /\ r.state \in TimeoutActionStates
  /\ phase' = "action"
  /\ walk' = Due(r)
  /\ UNCHANGED r

\* trip_action for a ready descriptor, which START and BIND refuse.
trip_action_fd ==
  /\ phase = "idle"
  /\ r.state \in FdStates
  /\ \E e \in ListenErrors, u \in UnbindAnswers :
       \/ /\ r.state \in {"START", "BIND"}
          /\ r' = _trip_set_error(r, "EINVAL", u)
       \/ /\ r.state = "LISTEN"
          /\ r' = ListenStep(r, e, u)
       \/ /\ r.state = "CLOSE"
          /\ r' = CloseStep(r, e, u)
       \/ /\ r.state = "UNBIND"
          /\ r' = UnbindStep(r, u)
  /\ UNCHANGED <<phase, walk>>

\* _trip_send_immediately_cb, an entry of the connections': its listen fails.
SendFails ==
  /\ r.state \in FdStates \cap {"LISTEN", "CLOSE", "UNBIND", "END"}
  /\ \E u \in UnbindAnswers : r' = _trip_set_error(r, "ECOMM", u)
  /\ UNCHANGED <<phase, walk>>

(* The walk of the wheel.                                                  *)

\* Any due entry may be next: those of the walk must be visited before it ends,
\* those its callbacks insert may be visited by it or be left for the next one.
Visit(t) ==
  /\ phase # "idle"
  /\ t \in Due(r)
  /\ walk' = walk \ {t}
  /\ UNCHANGED phase

VisitCanceled(t) ==
  /\ Visit(t)
  /\ r.wheel[t].canceled
  /\ r' = FreeTimer(r, t)

\* Mutant: r->statetimer keeps pointing to the entry being resolved.
_trip_timeout_router_cb_KeepsTimer(t) ==
  /\ Visit(t)
  /\ t \in Pending(r, "state")
  /\ \E u \in UnbindAnswers : r' = FreeTimer(_trip_set_error(r, "ETIME", u), t)

_trip_timeout_router_cb(t) ==
  /\ Visit(t)
  /\ t \in Pending(r, "state")
  /\ \E u \in UnbindAnswers :
       r' = FreeTimer(_trip_set_error([r EXCEPT !.statetimer = NULL], "ETIME", u), t)

\* Mutant: a stop does not wait for the connections to close.
_trip_stop_async_cb_NoClose(t) ==
  /\ Visit(t)
  /\ t \in Pending(r, "stop")
  /\ \E u \in UnbindAnswers :
       r' = FreeTimer(_trip_set_state(r, "UNBIND", "async", u), t)

_trip_stop_async_cb(t) ==
  /\ Visit(t)
  /\ t \in Pending(r, "stop")
  /\ \E u \in UnbindAnswers :
       r' = FreeTimer(_trip_set_state(r, "CLOSE", "async", u), t)

EndWalk ==
  /\ phase # "idle"
  /\ walk = {}
  /\ phase' = "idle"
  /\ UNCHANGED walk

\* trip_timeout is done; or trip_action has nothing more to do.
EndTimeout ==
  /\ EndWalk
  /\ \/ phase = "timeout"
     \/ r.error # "none"
     \/ r.state \in {"END", "ERROR"}
  /\ UNCHANGED r

\* The switch of trip_action after the walk.
ActionIn(s) ==
  /\ EndWalk
  /\ phase = "action"
  /\ r.error = "none"
  /\ r.state = s

\* _trip_verify may miss a callback on the first start.
ActStart ==
  /\ ActionIn("START")
  /\ \E b \in BindAnswers, u \in UnbindAnswers :
       \/ r' = _trip_set_state([r EXCEPT !.router = TRUE], "BIND", b, u)
       \/ /\ ~r.router
          /\ r' = _trip_set_error(r, "EINVAL", u)

ActBind ==
  /\ ActionIn("BIND")
  /\ \E u \in UnbindAnswers : r' = BindStep(r, u)

ActListen ==
  /\ ActionIn("LISTEN")
  /\ \E e \in ListenErrors, u \in UnbindAnswers : r' = ListenStep(r, e, u)

ActClose ==
  /\ ActionIn("CLOSE")
  /\ \E e \in ListenErrors, u \in UnbindAnswers : r' = CloseStep(r, e, u)

ActUnbind ==
  /\ ActionIn("UNBIND")
  /\ \E u \in UnbindAnswers : r' = UnbindStep(r, u)

(* The packet interface, at any time between the driver's calls.           *)

trip_ready ==
  /\ phase = "idle"
  /\ r.pkt.binds > 0
  /\ \E u \in UnbindAnswers :
       r' = _trip_set_state(BindAnswered(r),
                            IF r.state = "BIND" THEN "LISTEN" ELSE "ERROR", "async", u)
  /\ UNCHANGED <<phase, walk>>

trip_unready ==
  /\ phase = "idle"
  /\ r.pkt.unbinds > 0
  /\ \E u \in UnbindAnswers :
       \/ r' = _trip_set_state(UnbindAnswered(r), "END", "async", u)
       \/ r' = _trip_set_error(UnbindAnswered(r), "EPACKET", u)
  /\ UNCHANGED <<phase, walk>>

\* Reports a bind that failed, or a failure of an interface that was bound.
trip_error ==
  /\ phase = "idle"
  /\ r.state \in PacketErrorStates
  /\ \E u \in UnbindAnswers :
       \/ /\ r.pkt.binds > 0
          /\ r' = _trip_set_error(BindAnswered(r), "EPACKET", u)
       \/ /\ r.pkt.held
          /\ r' = _trip_set_error(r, "EPACKET", u)
  /\ UNCHANGED <<phase, walk>>

CountDown(n, floor) == IF n > floor THEN n - 1 ELSE floor

(* One millisecond passes, also while a handler runs.                      *)
Tick ==
  /\ r' = [r EXCEPT !.wheel = [t \in Timers |->
                        [r.wheel[t] EXCEPT !.left = CountDown(r.wheel[t].left, 0)]],
                    !.statedeadline = CountDown(r.statedeadline, -1)]
  /\ r' # r
  /\ UNCHANGED <<phase, walk>>

Application == trip_start \/ trip_stop

Driver == trip_timeout \/ trip_action_timeout \/ trip_action_fd \/ SendFails

Walk ==
  \/ \E t \in Timers : VisitCanceled(t) \/ _trip_timeout_router_cb(t) \/ _trip_stop_async_cb(t)
  \/ EndTimeout
  \/ ActStart \/ ActBind \/ ActListen \/ ActClose \/ ActUnbind

Packet == trip_ready \/ trip_unready \/ trip_error

Next == Application \/ Driver \/ Walk \/ Packet \/ Tick

Spec == Init /\ [][Next]_vars

(* trip_run's loop: the clock runs, expired entries are walked when no      *)
(* socket is ready, and a walk that has begun is finished.                 *)
Fairness == WF_vars(Tick) /\ WF_vars(trip_timeout) /\ WF_vars(Walk)

FairSpec == Spec /\ Fairness

-----------------------------------------------------------------------------
(* Correctness.                                                            *)

RouterType ==
  [state         : States,
   error         : {"none", "ETIME", "EINVAL", "ECOMM", "EPACKET"},
   statetimer    : Timers \cup {NULL},
   statedeadline : Int,
   wheel         : [Timers -> Entry],
   router        : BOOLEAN,
   pkt           : PacketType]

\* Every field of the router, and the walk, has a value the code can give it.
TypeOK ==
  /\ r \in RouterType
  /\ phase \in {"idle", "timeout", "action"}
  /\ walk \subseteq Timers

\* r->statetimer never points to an entry the wheel has freed or will free as
\* canceled, nor to one of another callback: _trip_timeout_cancel_state writes
\* through it (trip.c:213-221) however many stale entries the wheel still holds.
StateTimerLive ==
  r.statetimer # NULL => r.statetimer \in Pending(r, "state")

\* A router that has come to rest in END or ERROR has told a packet interface it
\* had told to bind to unbind, on every path, with every kind of answer and with
\* any number of answers still to come (trip.c:846-869).  In END there is one way
\* round it, which the invariant leaves open and no other: the interface was told
\* to bind again while its answer to an earlier unbind() was still to come, and
\* trip_unready takes that answer for the end of the router (trip.c:1013-1026).
NotLeftBound ==
  /\ r.state = "ERROR" => ~r.pkt.held
  /\ r.state = "END" => ~r.pkt.held \/ r.pkt.overtaken

\* The first error wins and the router never leaves ERROR: no stale timer, late
\* answer or second stop changes what the application will be told
\* (_trip_set_error's "Prevent multiple calls.", and leaving ERROR, trip.c:800).
FirstErrorKept ==
  [][r.state = "ERROR" => r'.state = "ERROR" /\ r'.error = r.error]_vars

\* The interface never answers unbind() inside the call.
AnswersLater == UnbindAnswers = {"async"}

\* Each state's "Possible next states" comment in trip_action (trip.c:1360-1458).
\* An interface that answers inside the call takes the router through two states
\* in one step; trip_start takes END back to START.  Only if unbind() is always
\* answered later does END last: EndIsDone.
Lifecycle ==
  [][r'.state # r.state =>
       <<r.state, r'.state>> \in
         {<<"START", "BIND">>, <<"START", "LISTEN">>, <<"BIND", "LISTEN">>,
          <<"LISTEN", "CLOSE">>, <<"CLOSE", "UNBIND">>, <<"CLOSE", "END">>,
          <<"UNBIND", "END">>, <<"END", "START">>}
         \cup ((States \ (IF AnswersLater THEN {"END"} ELSE {})) \X {"ERROR"})]_vars

\* trip_action of END: "Done, no further actions." (trip.c:1474-1478)  Only
\* trip_start takes a router out of END.
EndIsDone ==
  [][r.state = "END" => r'.state \in {"END", "START"}]_vars

\* The state's deadline runs exactly as long as the state does: none of an
\* earlier state is left in LISTEN, where it would fail a healthy router with
\* ETIME, a state that waits for others is always bounded by one, and it is the
\* one r->statetimer can cancel (trip.c:153-179).  An unbind() answered inside
\* the call leaves its deadline in END, and only it.
DeadlineFitsState ==
  /\ r.state # "ERROR" => Pending(r, "state") \subseteq {r.statetimer}
  /\ r.state = "LISTEN" => Pending(r, "state") = {}
  /\ r.state \in {"START", "END"} /\ AnswersLater => Pending(r, "state") = {}
  /\ r.state \in {"BIND", "CLOSE", "UNBIND"} => Pending(r, "state") # {}

\* Binding is decided even if the packet interface never answers.
BindDecided == r.state = "BIND" ~> r.state \in {"LISTEN", "ERROR"}

\* A stop that was accepted ends the router, whether or not the interface
\* answers unbind() (the promise of trip_stop's comment, trip.c:1546-1553).
StopTerminates == Pending(r, "stop") # {} ~> r.state \in {"END", "ERROR"}
=============================================================================
