---------------------------- MODULE RouterProofs ----------------------------
(***************************************************************************)
(* Proofs about the router, for any timeouts, any number of timer entries,  *)
(* any bound on stops and any behaviour of the application and the packet   *)
(* interface.  Each operator of the router gets a lemma on what it keeps;   *)
(* the invariant is then kept by each action.  The second part is about     *)
(* runs in which the router is driven in order (Orderly).                  *)
(***************************************************************************)
EXTENDS Router, FiniteSetTheorems, TLAPS

\* r->statetimer may be written through: StateTimerLive, of any router q.
Live(q) == q.statetimer # NULL => q.statetimer \in Pending(q, "state")

\* The entry whose callback runs is still allocated, so that no new timer takes
\* its address, and it is not the state timer.
Busy(q, t) == t \in Timers => q.wheel[t].cb # "free" /\ q.statetimer # t

Sound(q, t) == q \in RouterType /\ Live(q) /\ Busy(q, t)

\* Where the packet interface can be up, entering ERROR will find no state timer
\* and call unbind(): what NotLeftBound needs to be inductive.
WillUnbind(q) ==
  /\ q.state = "LISTEN" => q.statetimer = NULL
  /\ q.state \in {"START", "END"} /\ q.pkt.held => q.statetimer = NULL /\ q.pkt.overtaken
  /\ q.state \in {"UNBIND", "ERROR"} => ~q.pkt.held
  /\ q.pkt.held /\ q.pkt.unbinds > 0 => q.pkt.overtaken
  /\ ~q.router => ~q.pkt.held

Good(q, t) == Sound(q, t) /\ WillUnbind(q)

\* p and q differ in their timers at most.
SameButTimers(p, q) ==
  /\ p.state = q.state /\ p.error = q.error
  /\ p.router = q.router /\ p.pkt = q.pkt

IInv == TypeOK /\ Good(r, NULL)

-----------------------------------------------------------------------------
(* Assignments to the router's fields.                                     *)

\* The states have their names.
LEMMA StateNames ==
  {"START", "BIND", "LISTEN", "CLOSE", "UNBIND", "END", "ERROR"} \subseteq States
  BY DEF States

\* Assignments of values of the right type keep the type of the struct.
LEMMA FieldTypes ==
  ASSUME NEW q \in RouterType
  PROVE  /\ \A s \in States : [q EXCEPT !.state = s] \in RouterType
         /\ \A s \in States, n \in Int :
              [q EXCEPT !.state = s, !.statedeadline = n] \in RouterType
         /\ \A k \in PacketType : [q EXCEPT !.pkt = k] \in RouterType
  BY DEF RouterType

\* Nothing but what the interface has been asked changes.
PacketOnly(p, q) ==
  /\ p \in RouterType
  /\ p.wheel = q.wheel /\ p.statetimer = q.statetimer
  /\ p.state = q.state /\ p.error = q.error /\ p.router = q.router

LEMMA PacketOnlyType ==
  ASSUME NEW q \in RouterType, NEW k \in PacketType
  PROVE  /\ PacketOnly([q EXCEPT !.pkt = k], q)
         /\ [q EXCEPT !.pkt = k].pkt = k
  <1>1. [q EXCEPT !.pkt = k] \in RouterType
    BY FieldTypes, Zenon
  <1> QED
    BY <1>1 DEF PacketOnly, RouterType

\* bind() is called: the interface is told to be up, and one that still owes the
\* answer to an unbind() is overtaken.
LEMMA CallBindType ==
  ASSUME NEW q \in RouterType, NEW b, NEW c, c = CallBind(q, b)
  PROVE  /\ PacketOnly(c, q)
         /\ c.pkt.held
         /\ c.pkt.binds = q.pkt.binds + Later(b)
         /\ c.pkt.unbinds = q.pkt.unbinds
         /\ q.pkt.unbinds > 0 => c.pkt.overtaken
         /\ ~q.pkt.overtaken /\ ~(q.pkt.unbinds > 0) => ~c.pkt.overtaken
  <1>1. PICK k : k = [held      |-> TRUE,
                      binds     |-> q.pkt.binds + Later(b),
                      unbinds   |-> q.pkt.unbinds,
                      overtaken |-> q.pkt.overtaken \/ q.pkt.unbinds > 0]
    OBVIOUS
  <1>2. /\ k.held /\ k.binds = q.pkt.binds + Later(b) /\ k.unbinds = q.pkt.unbinds
        /\ q.pkt.unbinds > 0 => k.overtaken
        /\ ~q.pkt.overtaken /\ ~(q.pkt.unbinds > 0) => ~k.overtaken
    BY <1>1
  <1>3. k \in PacketType
    <2>1. q.pkt.binds + Later(b) \in Nat /\ q.pkt.unbinds \in Nat
      BY DEF RouterType, PacketType, Later
    <2>2. (q.pkt.overtaken \/ q.pkt.unbinds > 0) \in BOOLEAN
      OBVIOUS
    <2> QED
      BY <1>1, <2>1, <2>2, Zenon DEF PacketType
  <1>4. c = [q EXCEPT !.pkt = k]
    BY <1>1 DEF CallBind
  <1> QED
    BY <1>2, <1>3, <1>4, PacketOnlyType

\* unbind() is called: the interface is told to be down.
LEMMA CallUnbindType ==
  ASSUME NEW q \in RouterType, NEW u, NEW c, c = CallUnbind(q, u)
  PROVE  /\ PacketOnly(c, q)
         /\ ~c.pkt.held
         /\ c.pkt.binds = q.pkt.binds
         /\ c.pkt.unbinds = q.pkt.unbinds + Later(u)
         /\ c.pkt.overtaken = q.pkt.overtaken
  <1>1. PICK k : k = [held      |-> FALSE,
                      binds     |-> q.pkt.binds,
                      unbinds   |-> q.pkt.unbinds + Later(u),
                      overtaken |-> q.pkt.overtaken]
    OBVIOUS
  <1>2. /\ ~k.held /\ k.binds = q.pkt.binds /\ k.unbinds = q.pkt.unbinds + Later(u)
        /\ k.overtaken = q.pkt.overtaken
    BY <1>1
  <1>3. k \in PacketType
    <2>1. q.pkt.unbinds + Later(u) \in Nat /\ q.pkt.binds \in Nat
      BY DEF RouterType, PacketType, Later
    <2>2. q.pkt.overtaken \in BOOLEAN
      BY DEF RouterType, PacketType
    <2> QED
      BY <1>1, <2>1, <2>2, Zenon DEF PacketType
  <1>4. c = [q EXCEPT !.pkt = k]
    BY <1>1 DEF CallUnbind
  <1> QED
    BY <1>2, <1>3, <1>4, PacketOnlyType

\* An answer that comes later is one less to wait for.
LEMMA BindAnsweredType ==
  ASSUME NEW q \in RouterType, q.pkt.binds > 0, NEW p, p = BindAnswered(q)
  PROVE  /\ PacketOnly(p, q)
         /\ p.pkt.held = q.pkt.held /\ p.pkt.overtaken = q.pkt.overtaken
         /\ p.pkt.unbinds = q.pkt.unbinds /\ p.pkt.binds = q.pkt.binds - 1
  <1>1. PICK k : k = [q.pkt EXCEPT !.binds = q.pkt.binds - 1]
    OBVIOUS
  <1>2. /\ k \in PacketType /\ k.held = q.pkt.held /\ k.overtaken = q.pkt.overtaken
        /\ k.unbinds = q.pkt.unbinds /\ k.binds = q.pkt.binds - 1
    BY <1>1 DEF RouterType, PacketType
  <1>3. p = [q EXCEPT !.pkt = k]
    BY <1>1 DEF BindAnswered
  <1> QED
    BY <1>2, <1>3, PacketOnlyType

LEMMA UnbindAnsweredType ==
  ASSUME NEW q \in RouterType, q.pkt.unbinds > 0, NEW p, p = UnbindAnswered(q)
  PROVE  /\ PacketOnly(p, q)
         /\ p.pkt.held = q.pkt.held /\ p.pkt.overtaken = q.pkt.overtaken
         /\ p.pkt.binds = q.pkt.binds /\ p.pkt.unbinds = q.pkt.unbinds - 1
  <1>1. PICK k : k = [q.pkt EXCEPT !.unbinds = q.pkt.unbinds - 1]
    OBVIOUS
  <1>2. /\ k \in PacketType /\ k.held = q.pkt.held /\ k.overtaken = q.pkt.overtaken
        /\ k.binds = q.pkt.binds /\ k.unbinds = q.pkt.unbinds - 1
    BY <1>1 DEF RouterType, PacketType
  <1>3. p = [q EXCEPT !.pkt = k]
    BY <1>1 DEF UnbindAnswered
  <1> QED
    BY <1>2, <1>3, PacketOnlyType

\* Neither answer tells the interface anything new.
LEMMA AnsweredType ==
  ASSUME NEW q \in RouterType, NEW p,
         \/ q.pkt.binds > 0 /\ p = BindAnswered(q)
         \/ q.pkt.unbinds > 0 /\ p = UnbindAnswered(q)
  PROVE  /\ PacketOnly(p, q)
         /\ p.pkt.held = q.pkt.held /\ p.pkt.overtaken = q.pkt.overtaken
         /\ p.pkt.unbinds <= q.pkt.unbinds /\ p.pkt.binds <= q.pkt.binds
  <1>1. q.pkt.binds \in Nat /\ q.pkt.unbinds \in Nat
    BY DEF RouterType, PacketType
  <1>2. CASE q.pkt.binds > 0 /\ p = BindAnswered(q)
    BY <1>1, <1>2, BindAnsweredType
  <1>3. CASE q.pkt.unbinds > 0 /\ p = UnbindAnswered(q)
    BY <1>1, <1>3, UnbindAnsweredType
  <1> QED
    BY <1>2, <1>3

-----------------------------------------------------------------------------
(* The timer wheel.                                                        *)

\* Nothing but the wheel and r->statetimer matters to the timers.
LEMMA SameTimersSound ==
  ASSUME NEW q, NEW t, Sound(q, t), NEW p \in RouterType,
         p.wheel = q.wheel, p.statetimer = q.statetimer
  PROVE  Sound(p, t)
  BY DEF Sound, Live, Busy, Pending

\* timerwheel_add is given an unused address while there is one.
LEMMA NewTimerIsFree ==
  ASSUME NEW q, Free(q) # {}
  PROVE  NewTimer(q) \in Free(q) /\ NewTimer(q) \in Timers /\ NewTimer(q) # NULL
  BY NullIsNoTimer DEF NewTimer, Free

\* _trip_set_timeout adds an entry and leaves the others alone.
LEMMA SetTimeoutSound ==
  ASSUME NEW q, NEW t, Sound(q, t), NEW cb \in {"state", "stop"}, NEW ms \in Nat
  PROVE  /\ Sound(_trip_set_timeout(q, cb, ms), t)
         /\ SameButTimers(_trip_set_timeout(q, cb, ms), q)
         /\ _trip_set_timeout(q, cb, ms).statetimer = q.statetimer
  <1> DEFINE e == [cb |-> cb, left |-> ms, canceled |-> FALSE]
             n == NewTimer(q)
  <1>1. CASE Free(q) = {}
    BY <1>1 DEF _trip_set_timeout, SameButTimers
  <1>2. CASE Free(q) # {}
    <2>1. n \in Timers /\ q.wheel[n].cb = "free"
      BY <1>2, NewTimerIsFree DEF Free
    <2>2. _trip_set_timeout(q, cb, ms) = [q EXCEPT !.wheel = [q.wheel EXCEPT ![n] = e]]
      BY <1>2 DEF _trip_set_timeout, Sound, RouterType
    <2> DEFINE w == [q.wheel EXCEPT ![n] = e]
               p == [q EXCEPT !.wheel = w]
    <2>3. /\ w \in [Timers -> Entry] /\ w[n] = e
          /\ \A x \in Timers \ {n} : w[x] = q.wheel[x]
      BY <2>1 DEF Sound, RouterType, Entry
    <2> HIDE DEF n, e, w
    <2>4. p \in RouterType /\ p.wheel = w /\ p.statetimer = q.statetimer
      BY <2>3 DEF Sound, RouterType
    <2>5. SameButTimers(p, q)
      BY DEF Sound, RouterType, SameButTimers
    <2> HIDE DEF p
    <2>6. Live(p)
      BY <2>1, <2>3, <2>4 DEF Sound, Live, Pending
    <2>7. Busy(p, t)
      BY <2>1, <2>3, <2>4 DEF Sound, Busy, e
    <2> QED
      BY <2>2, <2>4, <2>5, <2>6, <2>7 DEF Sound, p, w, n, e
  <1> QED
    BY <1>1, <1>2

\* The state timer, once set, is a pending entry of its own.
LEMMA ArmSound ==
  ASSUME NEW q, NEW t, Sound(q, t), NEW ms \in Nat
  PROVE  Sound(ArmStateTimer(q, ms), t) /\ SameButTimers(ArmStateTimer(q, ms), q)
  <1> DEFINE e == [cb |-> "state", left |-> ms, canceled |-> FALSE]
             n == NewTimer(q)
  <1>1. CASE Free(q) = {}
    <2>1. ArmStateTimer(q, ms) = [q EXCEPT !.statetimer = NULL]
      BY <1>1 DEF ArmStateTimer, _trip_set_timeout, NewTimer
    <2> QED
      BY <2>1, NullIsNoTimer DEF Sound, RouterType, Live, Busy, SameButTimers
  <1>2. CASE Free(q) # {}
    <2>1. n \in Timers /\ q.wheel[n].cb = "free"
      BY <1>2, NewTimerIsFree DEF Free
    <2>2. ArmStateTimer(q, ms) =
            [q EXCEPT !.wheel = [q.wheel EXCEPT ![n] = e], !.statetimer = n]
      BY <1>2 DEF ArmStateTimer, _trip_set_timeout, Sound, RouterType
    <2> DEFINE w == [q.wheel EXCEPT ![n] = e]
               p == [q EXCEPT !.wheel = w, !.statetimer = n]
    <2>3. /\ w \in [Timers -> Entry] /\ w[n] = e
          /\ \A x \in Timers \ {n} : w[x] = q.wheel[x]
      BY <2>1 DEF Sound, RouterType, Entry
    <2> HIDE DEF n, w
    <2>4. p \in RouterType /\ p.wheel = w /\ p.statetimer = n
      BY <2>1, <2>3 DEF Sound, RouterType
    <2>5. SameButTimers(p, q)
      BY DEF Sound, RouterType, SameButTimers
    <2> HIDE DEF p
    <2>6. Live(p)
      BY <2>1, <2>3, <2>4 DEF Live, Pending
    <2>7. Busy(p, t)
      BY <2>1, <2>3, <2>4 DEF Sound, Busy
    <2> QED
      BY <2>2, <2>4, <2>5, <2>6, <2>7 DEF Sound, p, w, n
  <1> QED
    BY <1>1, <1>2

\* Canceling marks the entry and forgets it.
LEMMA CancelSound ==
  ASSUME NEW q, NEW t, Sound(q, t)
  PROVE  /\ Sound(_trip_timeout_cancel_state(q), t)
         /\ SameButTimers(_trip_timeout_cancel_state(q), q)
         /\ _trip_timeout_cancel_state(q).statetimer = NULL
  BY NullIsNoTimer
  DEF _trip_timeout_cancel_state, Sound, RouterType, Entry, Live, Busy, Pending,
      SameButTimers

\* Freeing the entry of a callback that has returned.
LEMMA FreeTimerSound ==
  ASSUME NEW q, NEW t \in Timers, Good(q, t)
  PROVE  Good(FreeTimer(q, t), NULL)
  BY NullIsNoTimer
  DEF FreeTimer, FreeEntry, Good, Sound, RouterType, Entry, Live, Busy, Pending, WillUnbind

-----------------------------------------------------------------------------
(* Leaving and entering states.                                            *)

\* Leaving a state that has a timer cancels it.
LEMMA LeaveSound ==
  ASSUME NEW q, NEW t, Sound(q, t)
  PROVE  /\ Sound(LeaveState(q), t)
         /\ SameButTimers(LeaveState(q), q)
         /\ q.state \in {"BIND", "CLOSE", "UNBIND"} => LeaveState(q).statetimer = NULL
         /\ q.state \notin {"BIND", "CLOSE", "UNBIND"} => LeaveState(q) = q
  <1>1. CASE q.state \in {"BIND", "CLOSE", "UNBIND"}
    <2> DEFINE c == _trip_timeout_cancel_state(q)
    <2>1. Sound(c, t) /\ SameButTimers(c, q) /\ c.statetimer = NULL
      BY CancelSound
    <2>2. LeaveState(q) = [c EXCEPT !.statedeadline = 0]
      BY <1>1 DEF LeaveState
    <2> HIDE DEF c
    <2> QED
      BY <1>1, <2>1, <2>2 DEF Sound, RouterType, Live, Busy, Pending, SameButTimers
  <1>2. CASE q.state \notin {"BIND", "CLOSE", "UNBIND"}
    BY <1>2 DEF LeaveState, SameButTimers
  <1> QED
    BY <1>1, <1>2

\* Leaving a state keeps the whole invariant.
LEMMA LeaveGood ==
  ASSUME NEW q, NEW t, Good(q, t)
  PROVE  Good(LeaveState(q), t)
  BY LeaveSound DEF Good, WillUnbind, SameButTimers

\* Entering ERROR calls unbind() unless a state timer is running, and changes
\* neither the error code nor an interface that is down.
LEMMA EnterErrorSound ==
  ASSUME NEW q, NEW t, Sound(q, t), NEW u \in Answers
  PROVE  /\ Sound(EnterError(q, u), t)
         /\ EnterError(q, u).state = "ERROR"
         /\ EnterError(q, u).error = q.error
         /\ EnterError(q, u).router = q.router
         /\ ~q.pkt.held \/ (q.router /\ q.statetimer = NULL) => ~EnterError(q, u).pkt.held
  <1> DEFINE d == [q EXCEPT !.state = "ERROR"]
             a == ArmStateTimer(d, TimeoutUnbind)
  <1>1. /\ Sound(d, t) /\ d.state = "ERROR" /\ d.error = q.error
        /\ d.router = q.router /\ d.pkt = q.pkt
    BY DEF Sound, RouterType, States, Live, Busy, Pending
  <1>2. Sound(a, t) /\ SameButTimers(a, d)
    BY <1>1, ArmSound, TimeoutsAreMs
  <1>3. CASE q.router /\ q.statetimer = NULL
    <2>1. EnterError(q, u) = CallUnbind(a, u)
      BY <1>3 DEF EnterError
    <2>2. PICK c : c = CallUnbind(a, u)
      OBVIOUS
    <2> HIDE DEF a, d
    <2>3. PacketOnly(c, a) /\ ~c.pkt.held
      BY <1>2, <2>2, CallUnbindType DEF Sound
    <2>4. Sound(c, t)
      BY <1>2, <2>3, SameTimersSound DEF PacketOnly
    <2> QED
      BY <1>1, <1>2, <2>1, <2>2, <2>3, <2>4 DEF SameButTimers, PacketOnly
  <1>4. CASE ~(q.router /\ q.statetimer = NULL)
    <2>1. EnterError(q, u) = d
      BY <1>4 DEF EnterError
    <2> QED
      BY <1>1, <1>4, <2>1
  <1> QED
    BY <1>3, <1>4

\* EnterError where the invariant holds, after LeaveState.
LEMMA EnterErrorGood ==
  ASSUME NEW q, NEW t, Good(q, t), NEW u \in Answers
  PROVE  Good(EnterError(LeaveState(q), u), t)
  <1> DEFINE l == LeaveState(q)
  <1>1. /\ Sound(l, t) /\ SameButTimers(l, q)
        /\ ~l.pkt.held \/ (l.router /\ l.statetimer = NULL)
    BY LeaveSound DEF Good, Sound, RouterType, States, WillUnbind, SameButTimers
  <1> HIDE DEF l
  <1>2. /\ Sound(EnterError(l, u), t) /\ EnterError(l, u).state = "ERROR"
        /\ ~EnterError(l, u).pkt.held
    BY <1>1, EnterErrorSound
  <1> QED
    BY <1>2 DEF Good, WillUnbind, l

\* _trip_set_error, whatever has failed.
LEMMA SetErrorGood ==
  ASSUME NEW q, NEW t, Good(q, t), NEW u \in Answers,
         NEW e \in {"ETIME", "EINVAL", "ECOMM", "EPACKET"}
  PROVE  Good(_trip_set_error(q, e, u), t)
  <1> DEFINE f == [q EXCEPT !.error = e]
  <1>1. Good(f, t)
    BY DEF Good, Sound, RouterType, Live, Busy, Pending, WillUnbind
  <1> HIDE DEF f
  <1>2. Good(EnterError(LeaveState(f), u), t)
    BY <1>1, EnterErrorGood
  <1> QED
    BY <1>2 DEF _trip_set_error, f

\* LISTEN is entered without a state timer.
LEMMA EnterListenGood ==
  ASSUME NEW q, NEW t, Sound(q, t), q.statetimer = NULL,
         q.pkt.held => q.router,
         q.pkt.held /\ q.pkt.unbinds > 0 => q.pkt.overtaken
  PROVE  Good(EnterListen(q), t)
  <1> DEFINE l == EnterListen(q)
  <1>1. /\ l.wheel = q.wheel /\ l.statetimer = NULL
        /\ l.state = "LISTEN" /\ l.router = q.router /\ l.pkt = q.pkt
    BY DEF EnterListen, Sound, RouterType
  <1>2. -1 \in Int
    OBVIOUS
  <1>3. l \in RouterType
    BY <1>2, StateNames, FieldTypes, Zenon DEF EnterListen, Sound
  <1> HIDE DEF l
  <1>4. Sound(l, t)
    BY <1>1, <1>3, SameTimersSound
  <1> QED
    BY <1>1, <1>4 DEF Good, WillUnbind, l

\* BIND, with each answer bind() can give before it returns.
LEMMA EnterBindGood ==
  ASSUME NEW q, NEW t, Sound(q, t), q.router, NEW b \in Answers, NEW u \in Answers
  PROVE  Good(EnterBind(q, b, u), t)
  <1> DEFINE d == [q EXCEPT !.state = "BIND", !.statedeadline = TimeoutBind]
             a == ArmStateTimer(d, TimeoutBind)
  <1>1. Sound(d, t) /\ d.state = "BIND" /\ d.router
    <2>1. /\ d.wheel = q.wheel /\ d.statetimer = q.statetimer
          /\ d.state = "BIND" /\ d.router
      BY DEF Sound, RouterType
    <2>2. TimeoutBind \in Int
      BY TimeoutsAreMs
    <2>3. d \in RouterType
      BY <2>2, StateNames, FieldTypes, Zenon DEF Sound
    <2> QED
      BY <2>1, <2>3, SameTimersSound
  <1>2. Sound(a, t) /\ a.state = "BIND" /\ a.router
    BY <1>1, ArmSound, TimeoutsAreMs DEF SameButTimers
  <1>3. PICK c : c = CallBind(a, b)
    OBVIOUS
  <1>4. EnterBind(q, b, u) =
          CASE b = "async" -> c
            [] b = "ok"    -> EnterListen(LeaveState(c))
            [] b = "error" -> _trip_set_error(c, "EPACKET", u)
    BY <1>3 DEF EnterBind
  <1> HIDE DEF a, d
  <1>5. Good(c, t) /\ c.state = "BIND" /\ c.router
    <2>1. /\ PacketOnly(c, a)
          /\ c.pkt.unbinds = a.pkt.unbinds /\ (a.pkt.unbinds > 0 => c.pkt.overtaken)
      BY <1>2, <1>3, CallBindType DEF Sound
    <2>2. Sound(c, t)
      BY <1>2, <2>1, SameTimersSound DEF PacketOnly
    <2> QED
      BY <1>2, <2>1, <2>2 DEF Good, WillUnbind, PacketOnly
  <1>6. CASE b = "async"
    BY <1>4, <1>5, <1>6
  <1>7. CASE b = "ok"
    <2>1. /\ Sound(LeaveState(c), t) /\ LeaveState(c).statetimer = NULL
          /\ LeaveState(c).router /\ LeaveState(c).pkt = c.pkt
      BY <1>5, LeaveSound DEF Good, SameButTimers
    <2>2. Good(EnterListen(LeaveState(c)), t)
      BY <1>5, <2>1, EnterListenGood DEF Good, WillUnbind
    <2> QED
      BY <1>4, <1>7, <2>2
  <1>8. CASE b = "error"
    <2>1. Good(_trip_set_error(c, "EPACKET", u), t)
      BY <1>5, SetErrorGood
    <2> QED
      BY <1>4, <1>8, <2>1
  <1> QED
    BY <1>6, <1>7, <1>8 DEF Answers

\* CLOSE, from any state.
LEMMA EnterCloseGood ==
  ASSUME NEW q, NEW t, Good(q, t)
  PROVE  Good(EnterClose(q), t)
  <1> DEFINE d == [q EXCEPT !.state = "CLOSE", !.statedeadline = TimeoutClose]
  <1>1. Sound(d, t) /\ d.state = "CLOSE" /\ d.router = q.router /\ d.pkt = q.pkt
    <2>1. /\ d.wheel = q.wheel /\ d.statetimer = q.statetimer
          /\ d.state = "CLOSE" /\ d.router = q.router /\ d.pkt = q.pkt
      BY DEF Good, WillUnbind, Sound, RouterType
    <2>2. TimeoutClose \in Int
      BY TimeoutsAreMs
    <2>3. d \in RouterType
      BY <2>2, StateNames, FieldTypes, Zenon DEF Good, Sound
    <2> QED
      BY <2>1, <2>3, SameTimersSound DEF Good
  <1> HIDE DEF d
  <1>2. Good(ArmStateTimer(d, TimeoutClose), t)
    BY <1>1, ArmSound, TimeoutsAreMs DEF Good, WillUnbind, SameButTimers
  <1> QED
    BY <1>2 DEF EnterClose, d

\* UNBIND, with each answer unbind() can give before it returns: the timer set
\* afterwards does no harm to the invariant, in END and in ERROR too.
LEMMA EnterUnbindGood ==
  ASSUME NEW q, NEW t, Good(q, t), NEW u \in Answers
  PROVE  Good(EnterUnbind(q, u), t)
  <1> DEFINE c == CallUnbind([q EXCEPT !.state = "UNBIND"], u)
             answered == CASE u = "async" -> c
                           [] u = "ok"    -> [LeaveState(c) EXCEPT !.state = "END"]
                           [] u = "error" -> _trip_set_error(c, "EPACKET", u)
             d == [answered EXCEPT !.statedeadline = TimeoutUnbind]
  <1>1. Good(c, t) /\ c.state = "UNBIND"
    <2> DEFINE e == [q EXCEPT !.state = "UNBIND"]
    <2>1. e \in RouterType
      BY StateNames, FieldTypes, Zenon DEF Good, Sound
    <2>2. e.wheel = q.wheel /\ e.statetimer = q.statetimer /\ e.state = "UNBIND"
      BY DEF Good, Sound, RouterType
    <2> HIDE DEF e
    <2>3. PacketOnly(c, e) /\ ~c.pkt.held
      BY <2>1, CallUnbindType DEF e
    <2> HIDE DEF c
    <2> QED
      BY <2>2, <2>3, SameTimersSound DEF Good, WillUnbind, PacketOnly
  <1>2. EnterUnbind(q, u) = ArmStateTimer(d, TimeoutUnbind)
    BY DEF EnterUnbind
  <1> HIDE DEF c
  <1>3. Good(answered, t) /\ answered.state # "LISTEN" /\ ~answered.pkt.held
    <2>1. CASE u = "async"
      BY <1>1, <2>1 DEF Good, WillUnbind
    <2>2. CASE u = "ok"
      <3>1. Good(LeaveState(c), t) /\ ~LeaveState(c).pkt.held
        BY <1>1, LeaveGood, LeaveSound DEF Good, WillUnbind, SameButTimers
      <3>2. answered = [LeaveState(c) EXCEPT !.state = "END"]
        BY <2>2
      <3> HIDE DEF answered
      <3>3. answered \in RouterType
        BY <3>1, <3>2, StateNames, FieldTypes, Zenon DEF Good, Sound
      <3>4. /\ answered.wheel = LeaveState(c).wheel
            /\ answered.statetimer = LeaveState(c).statetimer
            /\ answered.state = "END" /\ ~answered.pkt.held
            /\ answered.router = LeaveState(c).router
        BY <3>1, <3>2 DEF Good, Sound, RouterType
      <3> QED
        BY <3>1, <3>3, <3>4, SameTimersSound DEF Good, WillUnbind
    <2>3. CASE u = "error"
      <3>1. Good(_trip_set_error(c, "EPACKET", u), t)
        BY <1>1, SetErrorGood
      <3>2. answered = _trip_set_error(c, "EPACKET", u)
        BY <2>3
      <3>3. _trip_set_error(c, "EPACKET", u).state = "ERROR"
        <4> DEFINE f == [c EXCEPT !.error = "EPACKET"]
        <4>1. Sound(f, t)
          BY <1>1 DEF Good, Sound, RouterType, Live, Busy, Pending
        <4>2. _trip_set_error(c, "EPACKET", u) = EnterError(LeaveState(f), u)
          BY <1>1 DEF _trip_set_error
        <4> HIDE DEF f
        <4>3. Sound(LeaveState(f), t)
          BY <4>1, LeaveSound
        <4> QED
          BY <4>2, <4>3, EnterErrorSound
      <3> QED
        BY <3>1, <3>2, <3>3 DEF Good, WillUnbind
    <2> QED
      BY <2>1, <2>2, <2>3 DEF Answers
  <1> HIDE DEF answered
  <1>4. Good(d, t) /\ d.state # "LISTEN" /\ ~d.pkt.held
    BY <1>3, TimeoutsAreMs DEF Good, WillUnbind, Sound, RouterType, Live, Busy, Pending
  <1> HIDE DEF d
  <1>5. Good(ArmStateTimer(d, TimeoutUnbind), t)
    BY <1>4, ArmSound, TimeoutsAreMs DEF Good, WillUnbind, SameButTimers
  <1> QED
    BY <1>2, <1>5

\* _trip_set_state, as trip.c calls it: BIND once the callbacks are verified,
\* LISTEN from BIND, END when the interface is down or its answer was overtaken.
LEMMA SetStateGood ==
  ASSUME NEW q, NEW t, Good(q, t), NEW b \in Answers, NEW u \in Answers,
         NEW s \in States \ {"START"},
         s = "BIND" => q.router,
         s = "LISTEN" => q.state = "BIND",
         s = "END" /\ q.pkt.held => q.pkt.overtaken
  PROVE  Good(_trip_set_state(q, s, b, u), t)
  <1> DEFINE l == LeaveState(q)
  <1>1. /\ Good(l, t) /\ SameButTimers(l, q)
        /\ q.state = "BIND" => l.statetimer = NULL
    BY LeaveGood, LeaveSound DEF Good
  <1>2. Good(EnterError(l, u), t)
    BY EnterErrorGood
  <1> HIDE DEF l
  <1>3. s = "BIND" => Good(EnterBind(l, b, u), t)
    BY <1>1, EnterBindGood DEF Good, SameButTimers
  <1>4. s = "LISTEN" => Good(EnterListen(l), t)
    BY <1>1, EnterListenGood DEF Good, WillUnbind, SameButTimers
  <1>5. Good(EnterClose(l), t)
    BY <1>1, EnterCloseGood
  <1>6. Good(EnterUnbind(l, u), t)
    BY <1>1, EnterUnbindGood
  <1>7. s = "END" /\ q.state # "ERROR" => Good([l EXCEPT !.state = "END"], t)
    <2>1. q.pkt.held /\ q.state # "ERROR" => l.statetimer = NULL
      BY LeaveSound DEF l, Good, Sound, RouterType, States, WillUnbind
    <2> QED
      BY <1>1, <2>1
      DEF Good, WillUnbind, SameButTimers, Sound, RouterType, States, Live, Busy, Pending
  <1> QED
    BY <1>2, <1>3, <1>4, <1>5, <1>6, <1>7 DEF _trip_set_state, States, l
-----------------------------------------------------------------------------
(* The actions.                                                            *)

\* A new router: trip_new clears the struct.
LEMMA InitIInv == Init => IInv
  BY NullIsNoTimer
  DEF Init, IInv, TypeOK, Good, Sound, RouterType, States, FreeEntry, Entry, Live, Busy,
      WillUnbind, PacketType

\* The callbacks of the walk, each with the entry that the walk then frees.
LEMMA VisitIInv ==
  ASSUME IInv, NEW t \in Timers,
         VisitCanceled(t) \/ _trip_timeout_router_cb(t) \/ _trip_stop_async_cb(t)
  PROVE  Good(r', NULL)
  <1> USE DEF IInv
  <1>1. CASE VisitCanceled(t)
    <2>1. r.wheel[t].cb # "free" /\ r.wheel[t].canceled /\ r' = FreeTimer(r, t)
      BY <1>1 DEF VisitCanceled, Visit, Due
    <2>2. r.statetimer # t
      BY <2>1, NullIsNoTimer DEF Good, Sound, Live, Pending
    <2>3. Good(r, t)
      BY <2>1, <2>2 DEF Good, Sound, Busy
    <2> QED
      BY <2>1, <2>3, FreeTimerSound
  <1>2. CASE _trip_timeout_router_cb(t)
    <2> DEFINE q == [r EXCEPT !.statetimer = NULL]
    <2>1. PICK u \in UnbindAnswers : r' = FreeTimer(_trip_set_error(q, "ETIME", u), t)
      BY <1>2 DEF _trip_timeout_router_cb
    <2>2. r.wheel[t].cb = "state"
      BY <1>2 DEF _trip_timeout_router_cb, Pending
    <2>3. Good(q, t)
      BY <2>2, NullIsNoTimer DEF Good, Sound, RouterType, Live, Busy, WillUnbind
    <2> HIDE DEF q
    <2>4. Good(_trip_set_error(q, "ETIME", u), t)
      BY <2>3, SetErrorGood, EnvironmentIsKnown
    <2> QED
      BY <2>1, <2>4, FreeTimerSound
  <1>3. CASE _trip_stop_async_cb(t)
    <2>1. PICK u \in UnbindAnswers :
            r' = FreeTimer(_trip_set_state(r, "CLOSE", "async", u), t)
      BY <1>3 DEF _trip_stop_async_cb
    <2>2. r.wheel[t].cb = "stop" /\ r.statetimer # t
      BY <1>3, NullIsNoTimer DEF _trip_stop_async_cb, Pending, Good, Sound, Live
    <2>3. Good(r, t)
      BY <2>2 DEF Good, Sound, Busy
    <2>4. Good(_trip_set_state(r, "CLOSE", "async", u), t)
      BY <2>3, SetStateGood, EnvironmentIsKnown DEF Answers, States
    <2> QED
      BY <2>1, <2>4, FreeTimerSound
  <1> QED
    BY <1>1, <1>2, <1>3

\* What trip_action does in LISTEN, CLOSE, UNBIND and BIND.
LEMMA StepsGood ==
  ASSUME NEW q, Good(q, NULL), NEW e \in ListenErrors, NEW u \in Answers
  PROVE  /\ Good(ListenStep(q, e, u), NULL)
         /\ q.state = "CLOSE" => Good(CloseStep(q, e, u), NULL)
         /\ q.state = "UNBIND" => Good(UnbindStep(q, u), NULL)
         /\ q.state = "BIND" => Good(BindStep(q, u), NULL)
  <1> DEFINE l == ListenStep(q, e, u)
  <1>1. Good(l, NULL)
    BY SetErrorGood DEF ListenStep, ListenErrors
  <1> HIDE DEF l
  <1>2. "async" \in Answers
    BY DEF Answers
  <1>3. Good(CloseStep(q, e, u), NULL)
    <2>1. Good(_trip_set_state(l, "UNBIND", "async", u), NULL)
      BY <1>1, <1>2, SetStateGood DEF States
    <2> QED
      BY <1>1, <2>1 DEF CloseStep, l
  <1>4. ASSUME q.state = "UNBIND" PROVE Good(UnbindStep(q, u), NULL)
    <2>1. ~q.pkt.held
      BY <1>4 DEF Good, WillUnbind
    <2>2. Good(_trip_set_state(q, "END", "async", u), NULL)
      BY <1>2, <2>1, SetStateGood DEF States
    <2> QED
      BY <2>2 DEF UnbindStep
  <1>5. ASSUME q.state = "BIND" PROVE Good(BindStep(q, u), NULL)
    <2>1. Good(_trip_set_error(q, "ETIME", u), NULL)
      BY SetErrorGood
    <2>2. ASSUME ~(q.statedeadline < 0) PROVE Good(ArmStateTimer(q, q.statedeadline), NULL)
      <3>1. q.statedeadline \in Nat
        BY <2>2 DEF Good, Sound, RouterType
      <3> QED
        BY <1>5, <3>1, ArmSound DEF Good, WillUnbind, SameButTimers
    <2> QED
      BY <2>1, <2>2 DEF BindStep
  <1> QED
    BY <1>1, <1>3, <1>4, <1>5 DEF l

\* Every call of the application, the driver and the packet interface, every
\* callback and every millisecond keeps the invariant.
LEMMA NextIInv == IInv /\ [Next]_vars => IInv'
  <1> SUFFICES ASSUME IInv, [Next]_vars PROVE IInv'
    OBVIOUS
  <1>0. /\ UnbindAnswers \subseteq Answers /\ BindAnswers \subseteq Answers
        /\ "async" \in Answers
    BY EnvironmentIsKnown DEF Answers
  <1>1. phase' \in {"idle", "timeout", "action"} /\ walk' \subseteq Timers
    BY DEF IInv, TypeOK, Next, vars, Application, Driver, Walk, Packet, trip_start, trip_stop,
           trip_timeout, trip_action_timeout, trip_action_fd, SendFails, VisitCanceled,
           _trip_timeout_router_cb, _trip_stop_async_cb, Visit, EndTimeout, EndWalk, ActStart,
           ActBind, ActListen, ActClose, ActUnbind, ActionIn, trip_ready, trip_unready,
           trip_error, Tick, Due
  <1>2. CASE Application
    <2>1. CASE trip_start
      <3>1. r' = [r EXCEPT !.state = "START"] /\ r.state \in {"START", "END"}
        BY <2>1 DEF trip_start
      <3>2. r' \in RouterType
        BY <3>1, StateNames, FieldTypes, Zenon DEF IInv, Good, Sound
      <3>3. /\ r'.wheel = r.wheel /\ r'.statetimer = r.statetimer /\ r'.state = "START"
            /\ r'.pkt = r.pkt /\ r'.router = r.router
        BY <3>1 DEF IInv, Good, Sound, RouterType
      <3>4. Sound(r', NULL)
        BY <3>2, <3>3, SameTimersSound DEF IInv, Good
      <3> QED
        BY <1>1, <3>1, <3>2, <3>3, <3>4 DEF IInv, TypeOK, Good, WillUnbind
    <2>2. CASE trip_stop
      <3>1. PICK u \in UnbindAnswers :
              r' = IF Free(r) = {}
                     THEN _trip_set_state(r, "CLOSE", "async", u)
                     ELSE _trip_set_timeout(r, "stop", 0)
        BY <2>2 DEF trip_stop
      <3>2. Good(_trip_set_state(r, "CLOSE", "async", u), NULL)
        BY <1>0, SetStateGood DEF IInv, States
      <3>3. Good(_trip_set_timeout(r, "stop", 0), NULL)
        BY SetTimeoutSound DEF IInv, Good, WillUnbind, SameButTimers
      <3> QED
        BY <1>1, <3>1, <3>2, <3>3 DEF IInv, TypeOK, Good, Sound
    <2> QED
      BY <1>2, <2>1, <2>2 DEF Application
  <1>3. CASE Driver
    <2>1. CASE trip_timeout \/ trip_action_timeout
      BY <1>1, <2>1 DEF trip_timeout, trip_action_timeout, IInv, TypeOK
    <2>2. CASE trip_action_fd
      <3>1. PICK e \in ListenErrors, u \in UnbindAnswers :
              \/ r' = _trip_set_error(r, "EINVAL", u)
              \/ r' = ListenStep(r, e, u)
              \/ r.state = "CLOSE" /\ r' = CloseStep(r, e, u)
              \/ r.state = "UNBIND" /\ r' = UnbindStep(r, u)
        BY <2>2 DEF trip_action_fd
      <3>2. Good(r', NULL)
        BY <1>0, <3>1, StepsGood, SetErrorGood DEF IInv
      <3> QED
        BY <1>1, <3>2 DEF IInv, TypeOK, Good, Sound
    <2>3. CASE SendFails
      <3>1. Good(r', NULL)
        BY <1>0, <2>3, SetErrorGood DEF SendFails, IInv
      <3> QED
        BY <1>1, <3>1 DEF IInv, TypeOK, Good, Sound
    <2> QED
      BY <1>3, <2>1, <2>2, <2>3 DEF Driver
  <1>4. CASE Walk
    <2>1. CASE \E t \in Timers :
                 VisitCanceled(t) \/ _trip_timeout_router_cb(t) \/ _trip_stop_async_cb(t)
      <3>1. Good(r', NULL)
        BY <2>1, VisitIInv
      <3> QED
        BY <1>1, <3>1 DEF IInv, TypeOK, Good, Sound
    <2>2. CASE EndTimeout
      BY <1>1, <2>2 DEF EndTimeout, IInv, TypeOK
    <2>3. CASE ActStart
      <3> DEFINE q == [r EXCEPT !.router = TRUE]
      <3>1. PICK b \in BindAnswers, u \in UnbindAnswers :
              \/ r' = _trip_set_state(q, "BIND", b, u)
              \/ r' = _trip_set_error(r, "EINVAL", u)
        BY <2>3 DEF ActStart
      <3>2. Good(q, NULL) /\ q.router
        BY DEF IInv, Good, Sound, RouterType, Live, Busy, Pending, WillUnbind
      <3> HIDE DEF q
      <3>3. Good(_trip_set_state(q, "BIND", b, u), NULL)
        BY <1>0, <3>2, SetStateGood DEF States
      <3>4. Good(_trip_set_error(r, "EINVAL", u), NULL)
        BY <1>0, SetErrorGood DEF IInv
      <3> QED
        BY <1>1, <3>1, <3>3, <3>4 DEF IInv, TypeOK, Good, Sound
    <2>4. CASE ActBind \/ ActListen \/ ActClose \/ ActUnbind
      <3>1. PICK e \in ListenErrors, u \in UnbindAnswers :
              \/ r.state = "BIND" /\ r' = BindStep(r, u)
              \/ r' = ListenStep(r, e, u)
              \/ r.state = "CLOSE" /\ r' = CloseStep(r, e, u)
              \/ r.state = "UNBIND" /\ r' = UnbindStep(r, u)
        BY <2>4 DEF ActBind, ActListen, ActClose, ActUnbind, ActionIn, ListenErrors
      <3>2. Good(r', NULL)
        BY <1>0, <3>1, StepsGood DEF IInv
      <3> QED
        BY <1>1, <3>2 DEF IInv, TypeOK, Good, Sound
    <2> QED
      BY <1>4, <2>1, <2>2, <2>3, <2>4 DEF Walk
  <1>5. CASE Packet
    <2>1. ASSUME NEW q,
                 \/ r.pkt.binds > 0 /\ q = BindAnswered(r)
                 \/ r.pkt.unbinds > 0 /\ q = UnbindAnswered(r)
          PROVE  /\ Good(q, NULL) /\ q.state = r.state /\ q.router = r.router
                 /\ q.pkt.held = r.pkt.held /\ q.pkt.overtaken = r.pkt.overtaken
      <3>1. /\ PacketOnly(q, r)
            /\ q.pkt.held = r.pkt.held /\ q.pkt.overtaken = r.pkt.overtaken
            /\ q.pkt.unbinds <= r.pkt.unbinds
        BY <2>1, AnsweredType DEF IInv, Good, Sound
      <3>2. Sound(q, NULL)
        BY <3>1, SameTimersSound DEF IInv, Good, PacketOnly
      <3>3. q.pkt.unbinds \in Nat /\ r.pkt.unbinds \in Nat
        BY <3>1 DEF PacketOnly, IInv, TypeOK, RouterType, PacketType
      <3> QED
        BY <3>1, <3>2, <3>3 DEF IInv, Good, WillUnbind, PacketOnly
    <2>2. CASE trip_ready
      <3>1. PICK q : q = BindAnswered(r)
        OBVIOUS
      <3>2. PICK s : s = IF r.state = "BIND" THEN "LISTEN" ELSE "ERROR"
        OBVIOUS
      <3>3. PICK u \in UnbindAnswers : r' = _trip_set_state(q, s, "async", u)
        BY <2>2, <3>1, <3>2 DEF trip_ready
      <3>4. Good(q, NULL) /\ q.state = r.state
        BY <2>1, <2>2, <3>1 DEF trip_ready
      <3>5. /\ s \in States \ {"START"} /\ s # "BIND" /\ s # "END"
            /\ s = "LISTEN" => q.state = "BIND"
        BY <3>2, <3>4 DEF States
      <3>6. Good(_trip_set_state(q, s, "async", u), NULL)
        BY <1>0, <3>4, <3>5, SetStateGood
      <3> QED
        BY <1>1, <3>3, <3>6 DEF IInv, TypeOK, Good, Sound
    <2>3. CASE trip_unready
      <3>1. PICK q : q = UnbindAnswered(r)
        OBVIOUS
      <3>2. PICK u \in UnbindAnswers :
              r' = _trip_set_state(q, "END", "async", u) \/ r' = _trip_set_error(q, "EPACKET", u)
        BY <2>3, <3>1 DEF trip_unready
      <3>3. Good(q, NULL) /\ (q.pkt.held => q.pkt.overtaken)
        BY <2>1, <2>3, <3>1 DEF trip_unready, IInv, Good, WillUnbind
      <3>4. Good(_trip_set_state(q, "END", "async", u), NULL)
        BY <1>0, <3>3, SetStateGood DEF States
      <3>5. Good(_trip_set_error(q, "EPACKET", u), NULL)
        BY <1>0, <3>3, SetErrorGood
      <3> QED
        BY <1>1, <3>2, <3>4, <3>5 DEF IInv, TypeOK, Good, Sound
    <2>4. CASE trip_error
      <3>1. PICK u \in UnbindAnswers :
              \/ r.pkt.binds > 0 /\ r' = _trip_set_error(BindAnswered(r), "EPACKET", u)
              \/ r' = _trip_set_error(r, "EPACKET", u)
        BY <2>4 DEF trip_error
      <3>2. r.pkt.binds > 0 => Good(BindAnswered(r), NULL)
        BY <2>1
      <3>3. \A q : Good(q, NULL) => Good(_trip_set_error(q, "EPACKET", u), NULL)
        BY <1>0, SetErrorGood
      <3> QED
        BY <1>1, <3>1, <3>2, <3>3 DEF IInv, TypeOK, Good, Sound
    <2> QED
      BY <1>5, <2>2, <2>3, <2>4 DEF Packet
  <1>6. CASE Tick
    <2> DEFINE w == [t \in Timers |->
                       [r.wheel[t] EXCEPT !.left = CountDown(r.wheel[t].left, 0)]]
               d == CountDown(r.statedeadline, -1)
    <2>1. r' = [r EXCEPT !.wheel = w, !.statedeadline = d]
      BY <1>6 DEF Tick
    <2>2. /\ w \in [Timers -> Entry] /\ d \in Int
          /\ \A t \in Timers : w[t].cb = r.wheel[t].cb /\ w[t].canceled = r.wheel[t].canceled
      BY DEF IInv, Good, Sound, RouterType, Entry, CountDown
    <2> HIDE DEF w, d
    <2>3. r' \in RouterType /\ r'.wheel = w /\ r'.statetimer = r.statetimer
          /\ r'.state = r.state /\ r'.pkt = r.pkt /\ r'.router = r.router
      BY <2>1, <2>2 DEF IInv, Good, Sound, RouterType
    <2>4. Live(r') /\ Busy(r', NULL)
      BY <2>2, <2>3, NullIsNoTimer DEF IInv, Good, Sound, Live, Busy, Pending
    <2> QED
      BY <1>1, <2>3, <2>4 DEF IInv, TypeOK, Good, Sound, WillUnbind
  <1>7. CASE UNCHANGED vars
    BY <1>7 DEF vars, IInv, TypeOK
  <1> QED
    BY <1>2, <1>3, <1>4, <1>5, <1>6, <1>7 DEF Next

-----------------------------------------------------------------------------
(* The theorems.                                                           *)

\* The invariant holds of every behaviour of the router.
THEOREM AlwaysIInv == Spec => []IInv
  BY InitIInv, NextIInv, PTL DEF Spec

\* Every field of the router has a value of its type, for any timeouts and any
\* number of timers: no timer is set for a negative time (trip.c:1396-1424).
THEOREM TypeCorrect == Spec => []TypeOK
  BY AlwaysIInv, PTL DEF IInv

\* r->statetimer points to a pending entry of its own callback or is NULL, in
\* whatever order timers fire, states change and calls are answered: the pointer
\* written through by _trip_timeout_cancel_state is valid (trip.c:213-221).
THEOREM StateTimerIsLive == Spec => []StateTimerLive
  <1>1. IInv => StateTimerLive
    BY DEF IInv, Good, Sound, Live, StateTimerLive
  <1> QED
    BY AlwaysIInv, <1>1, PTL

\* In ERROR every change of state leads back to ERROR and keeps the code.
LEMMA ErrorIsAbsorbing ==
  ASSUME NEW q, NEW t, Sound(q, t), q.state = "ERROR", NEW u \in Answers,
         NEW s, NEW b, NEW e
  PROVE  /\ _trip_set_error(q, e, u) = q
         /\ _trip_set_state(q, s, b, u).state = "ERROR"
         /\ _trip_set_state(q, s, b, u).error = q.error
  <1>1. _trip_set_error(q, e, u) = q
    BY DEF _trip_set_error
  <1>2. LeaveState(q) = q
    BY DEF LeaveState
  <1>3. _trip_set_state(q, s, b, u) = EnterError(q, u)
    BY <1>2 DEF _trip_set_state
  <1> QED
    BY <1>1, <1>3, EnterErrorSound

\* No step leaves ERROR or changes the code it was entered with.
LEMMA NextKeepsError ==
  IInv /\ [Next]_vars /\ r.state = "ERROR" => r'.state = "ERROR" /\ r'.error = r.error
  <1> SUFFICES ASSUME IInv, [Next]_vars, r.state = "ERROR"
               PROVE  r'.state = "ERROR" /\ r'.error = r.error
    OBVIOUS
  <1> DEFINE Kept(q) == q.state = "ERROR" /\ q.error = r.error
  <1>0. UnbindAnswers \subseteq Answers
    BY EnvironmentIsKnown
  <1>1. \A q, t : Sound(q, t) /\ Kept(q) =>
          \A u \in UnbindAnswers : \A s, b, e :
            Kept(_trip_set_error(q, e, u)) /\ Kept(_trip_set_state(q, s, b, u))
    BY <1>0, ErrorIsAbsorbing
  <1>2. r \in RouterType /\ Sound(r, NULL) /\ Kept(r)
    BY DEF IInv, Good, Sound
  <1>3. \A q, t : Kept(q) /\ q \in RouterType => Kept(FreeTimer(q, t))
    BY DEF FreeTimer, RouterType
  <1>5. CASE Application
    <2>1. Kept(_trip_set_timeout(r, "stop", 0))
      BY <1>2, SetTimeoutSound DEF SameButTimers
    <2> QED
      BY <1>1, <1>2, <1>5, <2>1 DEF Application, trip_start, trip_stop
  <1>6. CASE Driver
    BY <1>1, <1>2, <1>6
    DEF Driver, trip_timeout, trip_action_timeout, trip_action_fd, SendFails
  <1>7. CASE Walk
    <2>1. ASSUME NEW t \in Timers, VisitCanceled(t) PROVE Kept(r')
      BY <1>2, <1>3, <2>1 DEF VisitCanceled
    <2>2. ASSUME NEW t \in Timers, _trip_timeout_router_cb(t) PROVE Kept(r')
      <3> DEFINE q == [r EXCEPT !.statetimer = NULL]
      <3>1. PICK u \in UnbindAnswers : r' = FreeTimer(_trip_set_error(q, "ETIME", u), t)
        BY <2>2 DEF _trip_timeout_router_cb
      <3>2. q \in RouterType /\ Kept(q)
        BY <1>2 DEF RouterType
      <3>3. _trip_set_error(q, "ETIME", u) = q
        BY <3>2 DEF _trip_set_error
      <3> HIDE DEF q
      <3> QED
        BY <1>3, <3>1, <3>2, <3>3
    <2>3. ASSUME NEW t \in Timers, _trip_stop_async_cb(t) PROVE Kept(r')
      <3>1. PICK u \in UnbindAnswers :
              r' = FreeTimer(_trip_set_state(r, "CLOSE", "async", u), t)
        BY <2>3 DEF _trip_stop_async_cb
      <3>2. _trip_set_state(r, "CLOSE", "async", u) \in RouterType
        BY <1>0, SetStateGood DEF IInv, Good, Sound, States, Answers
      <3> QED
        BY <1>1, <1>2, <1>3, <3>1, <3>2
    <2> QED
      BY <1>2, <1>7, <2>1, <2>2, <2>3
      DEF Walk, EndTimeout, ActStart, ActBind, ActListen, ActClose, ActUnbind, ActionIn
  <1>8. CASE Packet
    <2>1. ASSUME NEW q,
                 \/ q = r
                 \/ r.pkt.binds > 0 /\ q = BindAnswered(r)
                 \/ r.pkt.unbinds > 0 /\ q = UnbindAnswered(r)
          PROVE  Sound(q, NULL) /\ Kept(q)
      <3>1. PacketOnly(q, r)
        BY <1>2, <2>1, AnsweredType DEF PacketOnly
      <3> QED
        BY <1>2, <3>1, SameTimersSound DEF PacketOnly
    <2>2. ASSUME NEW q, Sound(q, NULL), Kept(q), NEW u \in UnbindAnswers, NEW s,
                 \/ r' = _trip_set_state(q, s, "async", u)
                 \/ r' = _trip_set_error(q, "EPACKET", u)
          PROVE  Kept(r')
      BY <1>1, <2>2
    <2>3. CASE trip_ready
      <3>0. PICK s : s = IF r.state = "BIND" THEN "LISTEN" ELSE "ERROR"
        OBVIOUS
      <3>1. PICK u \in UnbindAnswers : r' = _trip_set_state(BindAnswered(r), s, "async", u)
        BY <2>3, <3>0 DEF trip_ready
      <3>2. r.pkt.binds > 0
        BY <2>3 DEF trip_ready
      <3> HIDE DEF Kept
      <3>3. Sound(BindAnswered(r), NULL) /\ Kept(BindAnswered(r))
        BY <2>1, <3>2
      <3>4. Kept(r')
        BY <2>2, <3>1, <3>3
      <3> QED
        BY <3>4 DEF Kept
    <2>4. CASE trip_unready
      <3>1. PICK u \in UnbindAnswers :
              \/ r' = _trip_set_state(UnbindAnswered(r), "END", "async", u)
              \/ r' = _trip_set_error(UnbindAnswered(r), "EPACKET", u)
        BY <2>4 DEF trip_unready
      <3>2. r.pkt.unbinds > 0
        BY <2>4 DEF trip_unready
      <3> HIDE DEF Kept
      <3>3. Sound(UnbindAnswered(r), NULL) /\ Kept(UnbindAnswered(r))
        BY <2>1, <3>2
      <3>4. Kept(r')
        BY <2>2, <3>1, <3>3
      <3> QED
        BY <3>4 DEF Kept
    <2>5. CASE trip_error
      <3>1. PICK u \in UnbindAnswers :
              \/ r.pkt.binds > 0 /\ r' = _trip_set_error(BindAnswered(r), "EPACKET", u)
              \/ r' = _trip_set_error(r, "EPACKET", u)
        BY <2>5 DEF trip_error
      <3> HIDE DEF Kept
      <3>2. /\ Sound(r, NULL) /\ Kept(r)
            /\ r.pkt.binds > 0 => Sound(BindAnswered(r), NULL) /\ Kept(BindAnswered(r))
        BY <1>2, <2>1
      <3>3. Kept(r')
        BY <2>2, <3>1, <3>2
      <3> QED
        BY <3>3 DEF Kept
    <2> QED
      BY <1>8, <2>3, <2>4, <2>5 DEF Packet
  <1>9. CASE Tick \/ UNCHANGED vars
    BY <1>2, <1>9 DEF Tick, vars, RouterType
  <1> QED
    BY <1>5, <1>6, <1>7, <1>8, <1>9 DEF Next

\* The application is told of the first error, for any number of stale timers and
\* of late answers: "Prevent multiple calls." (trip.c:132-148)
THEOREM FirstErrorIsKept == Spec => FirstErrorKept
  <1>1. IInv /\ [Next]_vars => [r.state = "ERROR" => r'.state = "ERROR" /\ r'.error = r.error]_vars
    BY NextKeepsError
  <1> QED
    BY AlwaysIInv, <1>1, PTL DEF Spec, FirstErrorKept

\* A router in ERROR has called unbind() on an interface it had told to bind, and a
\* router in END has, unless an answer to an earlier unbind() that was still to
\* come when it told the interface to bind again has been taken for the end
\* (trip.c:846-869, 1013-1026).  There is no assumption on how many calls are
\* unanswered, or in which order they are answered.
THEOREM NeverLeftBound == Spec => []NotLeftBound
  <1>1. IInv => NotLeftBound
    BY DEF IInv, Good, WillUnbind, NotLeftBound
  <1> QED
    BY AlwaysIInv, <1>1, PTL
-----------------------------------------------------------------------------
(* The router as it is meant to be driven: trip_stop is called of a          *)
(* listening router and once, and trip_run is the only one to call           *)
(* trip_action for a timeout, from trip_start.  Its deadline for unbind() is *)
(* zero, as it always is in the code, where the interface may answer         *)
(* unbind() inside the call.                                                *)

Orderly ==
  /\ AnswersLater \/ TimeoutUnbind = 0
  /\ TimeoutActionStates = {}
  /\ StopStates \subseteq {"LISTEN"}
  /\ MaxStops <= 1
  /\ FdStates \subseteq {"LISTEN", "CLOSE"}

\* There is memory for three timer entries.
Roomy == \E a, b, c \in Timers : a # b /\ b # c /\ a # c

\* Pending and allocated entries but t, which a walk frees as its callback returns.
Rest(q, t) == Pending(q, "state") \ {t}

Stops(q, t) == Pending(q, "stop") \ {t}

Used(q, t) == {x \in Timers : q.wheel[x].cb # "free"} \ {t}

AtMostOne(S) == \A x, y \in S : x = y

\* What an entry that a state leaves behind canceled takes from the next ones.
HasRoom(q, t) ==
  /\ q.state = "BIND" => Used(q, t) \subseteq {q.statetimer}
  /\ q.state = "LISTEN" => \E a : Used(q, t) \subseteq {a} \cup Stops(q, t)
  /\ q.state = "CLOSE" => \E a : Used(q, t) \subseteq {a, q.statetimer}
  /\ q.state \in {"BIND", "CLOSE", "UNBIND"} => q.statetimer # NULL

\* The pending entries are the state timer at most.
OneDeadline(q, t) == Rest(q, t) \subseteq {q.statetimer}

\* What an unbind() answered inside the call leaves behind is due already.
Overdue(q, t) == \A x \in Rest(q, t) : q.wheel[x].left = 0 /\ ~AnswersLater

\* An answer is still to come only where it can be asked for.
InTurn(q) ==
  /\ q.pkt.binds > 0 => q.state \in {"BIND", "ERROR"}
  /\ q.state = "BIND" => q.pkt.binds <= 1
  /\ q.pkt.unbinds > 0 => q.state \in {"UNBIND", "ERROR"}
  /\ q.state = "UNBIND" => q.pkt.unbinds <= 1
  /\ ~q.pkt.overtaken

\* The state has the deadline it needs and no other, and a stop or an answer is
\* under way only where it can still be.
Tidy(q, t) ==
  /\ AtMostOne(Stops(q, t))
  /\ q.state # "ERROR" =>
       /\ OneDeadline(q, t)
       /\ InTurn(q)
       /\ Stops(q, t) # {} => q.state = "LISTEN"
       /\ Roomy => HasRoom(q, t)
  /\ q.state = "LISTEN" => Rest(q, t) = {}
  /\ q.state \in {"START", "END"} => Overdue(q, t)

\* trip_action waits for its walk in START, where every entry is part of it, and
\* in ERROR once an entry that was due has been called.
InWalk(q, w) ==
  /\ q.state \in {"START", "ERROR"}
  /\ q.state = "START" => Used(q, NULL) \subseteq w

OrderlyInv ==
  /\ IInv
  /\ Tidy(r, NULL)
  /\ phase = "action" => InWalk(r, walk)

\* What the lists of entries are, one address at a time.
LEMMA EntryLists ==
  ASSUME NEW q, NEW t, NEW x
  PROVE  /\ x \in Rest(q, t) <=>
              x \in Timers /\ x # t /\ q.wheel[x].cb = "state" /\ ~q.wheel[x].canceled
         /\ x \in Stops(q, t) <=>
              x \in Timers /\ x # t /\ q.wheel[x].cb = "stop" /\ ~q.wheel[x].canceled
         /\ x \in Used(q, t) <=> x \in Timers /\ x # t /\ q.wheel[x].cb # "free"
  BY DEF Rest, Stops, Used, Pending

\* p and q hold the same entries.
LEMMA SameLists ==
  ASSUME NEW p, NEW q, NEW t, p.wheel = q.wheel
  PROVE  Rest(p, t) = Rest(q, t) /\ Stops(p, t) = Stops(q, t) /\ Used(p, t) = Used(q, t)
  BY DEF Rest, Stops, Used, Pending

\* Canceling takes r->statetimer from the pending entries and frees none.
LEMMA CancelLists ==
  ASSUME NEW q, NEW t, Sound(q, t), NEW c, c = _trip_timeout_cancel_state(q)
  PROVE  /\ Rest(c, t) = Rest(q, t) \ {q.statetimer}
         /\ Stops(c, t) = Stops(q, t)
         /\ Used(c, t) = Used(q, t)
  <1>1. CASE q.statetimer = NULL
    <2>1. c = q /\ q.statetimer \notin Rest(q, t)
      BY <1>1, NullIsNoTimer, EntryLists DEF _trip_timeout_cancel_state
    <2> QED
      BY <2>1
  <1>2. CASE q.statetimer # NULL
    <2> DEFINE s == q.statetimer
    <2>1. s \in Timers /\ q.wheel[s].cb = "state" /\ ~q.wheel[s].canceled
      BY <1>2 DEF Sound, Live, Pending
    <2>2. c.wheel = [q.wheel EXCEPT ![s].canceled = TRUE]
      BY <1>2 DEF _trip_timeout_cancel_state, Sound, RouterType
    <2>3. /\ c.wheel[s].cb = "state" /\ c.wheel[s].canceled
          /\ \A x \in Timers \ {s} : c.wheel[x] = q.wheel[x]
      BY <2>1, <2>2 DEF Sound, RouterType, Entry
    <2> HIDE DEF s
    <2>4. \A x : /\ x \in Rest(c, t) <=> x \in Rest(q, t) \ {s}
                 /\ x \in Stops(c, t) <=> x \in Stops(q, t)
                 /\ x \in Used(c, t) <=> x \in Used(q, t)
      BY <2>1, <2>3, EntryLists
    <2> QED
      BY <2>4 DEF s
  <1> QED
    BY <1>1, <1>2

\* Leaving a state that has a deadline takes it back.
LEMMA LeaveLists ==
  ASSUME NEW q, NEW t, Sound(q, t), NEW l, l = LeaveState(q)
  PROVE  /\ q.state \in {"BIND", "CLOSE", "UNBIND"} => Rest(l, t) = Rest(q, t) \ {q.statetimer}
         /\ q.state \notin {"BIND", "CLOSE", "UNBIND"} => Rest(l, t) = Rest(q, t)
         /\ Stops(l, t) = Stops(q, t)
         /\ Used(l, t) = Used(q, t)
  <1>1. CASE q.state \in {"BIND", "CLOSE", "UNBIND"}
    <2>1. PICK c : c = _trip_timeout_cancel_state(q)
      OBVIOUS
    <2>2. Sound(c, t)
      BY <2>1, CancelSound
    <2>3. l.wheel = c.wheel
      BY <1>1, <2>1, <2>2 DEF LeaveState, Sound, RouterType
    <2>4. Rest(l, t) = Rest(c, t) /\ Stops(l, t) = Stops(c, t) /\ Used(l, t) = Used(c, t)
      BY <2>3, SameLists
    <2>5. /\ Rest(c, t) = Rest(q, t) \ {q.statetimer}
          /\ Stops(c, t) = Stops(q, t) /\ Used(c, t) = Used(q, t)
      BY <2>1, CancelLists
    <2> QED
      BY <1>1, <2>4, <2>5
  <1>2. CASE q.state \notin {"BIND", "CLOSE", "UNBIND"}
    BY <1>2 DEF LeaveState
  <1> QED
    BY <1>1, <1>2

\* A new entry has an address that is not in use, if there is one.
LEMMA SetTimeoutLists ==
  ASSUME NEW q, NEW t, Sound(q, t), NEW cb \in {"state", "stop"}, NEW ms,
         NEW a, a = _trip_set_timeout(q, cb, ms), NEW n, n = NewTimer(q)
  PROVE  /\ Rest(a, t) = IF cb = "state" /\ Free(q) # {} THEN Rest(q, t) \cup {n} ELSE Rest(q, t)
         /\ Stops(a, t) = IF cb = "stop" /\ Free(q) # {} THEN Stops(q, t) \cup {n} ELSE Stops(q, t)
         /\ Used(a, t) = IF Free(q) # {} THEN Used(q, t) \cup {n} ELSE Used(q, t)
  <1>1. CASE Free(q) = {}
    BY <1>1 DEF _trip_set_timeout
  <1>2. CASE Free(q) # {}
    <2>1. n \in Timers /\ q.wheel[n].cb = "free" /\ n # t
      BY <1>2, NewTimerIsFree DEF Free, Sound, Busy
    <2>2. a.wheel = [q.wheel EXCEPT ![n] = [cb |-> cb, left |-> ms, canceled |-> FALSE]]
      BY <1>2 DEF _trip_set_timeout, Sound, RouterType
    <2>3. /\ a.wheel[n].cb = cb /\ ~a.wheel[n].canceled
          /\ \A x \in Timers \ {n} : a.wheel[x] = q.wheel[x]
      BY <2>1, <2>2 DEF Sound, RouterType
    <2>4. \A x : /\ x \in Rest(a, t) <=> x \in Rest(q, t) \/ (x = n /\ cb = "state")
                 /\ x \in Stops(a, t) <=> x \in Stops(q, t) \/ (x = n /\ cb = "stop")
                 /\ x \in Used(a, t) <=> x \in Used(q, t) \/ x = n
      BY <2>1, <2>3, EntryLists
    <2> QED
      BY <1>2, <2>4
  <1> QED
    BY <1>1, <1>2

\* The new state timer is the only entry that is added.
LEMMA ArmLists ==
  ASSUME NEW q, NEW t, Sound(q, t), NEW ms, NEW a, a = ArmStateTimer(q, ms)
  PROVE  /\ Rest(a, t) \subseteq Rest(q, t) \cup {a.statetimer}
         /\ Stops(a, t) = Stops(q, t)
         /\ Used(a, t) \subseteq Used(q, t) \cup {a.statetimer}
         /\ Free(q) # {} => a.statetimer # NULL
  <1>1. PICK b : b = _trip_set_timeout(q, "state", ms)
    OBVIOUS
  <1>2. PICK n : n = NewTimer(q)
    OBVIOUS
  <1>3. a = [b EXCEPT !.statetimer = n]
    BY <1>1, <1>2 DEF ArmStateTimer
  <1>4. "wheel" \in DOMAIN b /\ "statetimer" \in DOMAIN b
    BY <1>1 DEF _trip_set_timeout, Sound, RouterType
  <1>5. a.wheel = b.wheel /\ a.statetimer = n
    BY <1>3, <1>4
  <1>6. Rest(a, t) = Rest(b, t) /\ Stops(a, t) = Stops(b, t) /\ Used(a, t) = Used(b, t)
    BY <1>5, SameLists
  <1>7. /\ Rest(b, t) \subseteq Rest(q, t) \cup {n}
        /\ Stops(b, t) = Stops(q, t)
        /\ Used(b, t) \subseteq Used(q, t) \cup {n}
    BY <1>1, <1>2, SetTimeoutLists
  <1>8. Free(q) # {} => n # NULL
    BY <1>2, NewTimerIsFree
  <1> QED
    BY <1>5, <1>6, <1>7, <1>8

\* Where nothing was pending, what is pending is the new timer.
AllLeft(a, t, ms) == \A x \in Rest(a, t) : a.wheel[x].left = ms

LEMMA ArmLeft ==
  ASSUME NEW q, NEW t, Sound(q, t), NEW ms, NEW a, a = ArmStateTimer(q, ms), Rest(q, t) = {}
  PROVE  AllLeft(a, t, ms)
  <1>1. PICK n : n = NewTimer(q)
    OBVIOUS
  <1>2. PICK e : e = [cb |-> "state", left |-> ms, canceled |-> FALSE]
    OBVIOUS
  <1>3. CASE Free(q) = {}
    <2>1. a.wheel = q.wheel
      BY <1>3 DEF ArmStateTimer, _trip_set_timeout, Sound, RouterType
    <2>2. Rest(a, t) = {}
      BY <2>1, SameLists
    <2> QED
      BY <2>2 DEF AllLeft
  <1>4. CASE Free(q) # {}
    <2>1. n \in Timers
      BY <1>1, <1>4, NewTimerIsFree DEF Free
    <2>2. a.wheel = [q.wheel EXCEPT ![n] = e]
      BY <1>1, <1>2, <1>4 DEF ArmStateTimer, _trip_set_timeout, Sound, RouterType
    <2>3. a.wheel[n] = e /\ \A x \in Timers \ {n} : a.wheel[x] = q.wheel[x]
      BY <2>1, <2>2 DEF Sound, RouterType
    <2>4. ASSUME NEW x \in Rest(a, t) PROVE a.wheel[x].left = ms
      <3>1. x \in Timers /\ (x # n => x \in Rest(q, t))
        BY <2>3, <2>4, EntryLists
      <3>2. e.left = ms
        BY <1>2
      <3> QED
        BY <2>3, <3>1, <3>2
    <2> QED
      BY <2>4 DEF AllLeft
  <1> QED
    BY <1>3, <1>4

\* The entry whose callback has returned leaves the lists of the next one.
LEMMA FreeLists ==
  ASSUME NEW q, q \in RouterType, NEW t \in Timers, NEW f, f = FreeTimer(q, t)
  PROVE  /\ Rest(f, NULL) = Rest(q, t)
         /\ Stops(f, NULL) = Stops(q, t)
         /\ Used(f, NULL) = Used(q, t)
  <1>1. f.wheel = [q.wheel EXCEPT ![t] = FreeEntry]
    BY DEF FreeTimer, RouterType
  <1>2. f.wheel[t].cb = "free" /\ \A x \in Timers \ {t} : f.wheel[x] = q.wheel[x]
    BY <1>1 DEF FreeEntry, RouterType
  <1>3. \A x : /\ x \in Rest(f, NULL) <=> x \in Rest(q, t)
               /\ x \in Stops(f, NULL) <=> x \in Stops(q, t)
               /\ x \in Used(f, NULL) <=> x \in Used(q, t)
    BY <1>2, EntryLists, NullIsNoTimer
  <1> QED
    BY <1>3

\* Of three addresses one is not among two.
LEMMA RoomForOne ==
  ASSUME NEW q, NEW a, NEW b, Roomy, Used(q, NULL) \subseteq {a, b}
  PROVE  Free(q) # {}
  <1>1. PICK x \in Timers : x \notin {a, b}
    BY DEF Roomy
  <1>2. x \notin Used(q, NULL) /\ x # NULL
    BY <1>1, NullIsNoTimer
  <1>3. q.wheel[x].cb = "free"
    BY <1>2, EntryLists
  <1> QED
    BY <1>3 DEF Free
-----------------------------------------------------------------------------
(* Each change of state keeps the router tidy, in an orderly run.           *)

\* In ERROR one stop at most is all that is asked for.
LEMMA EnterErrorTidy ==
  ASSUME NEW q, NEW t, Sound(q, t), AtMostOne(Stops(q, t)), NEW u \in Answers,
         NEW p, p = EnterError(q, u)
  PROVE  Tidy(p, t) /\ p.state = "ERROR"
  <1>1. PICK d : d = [q EXCEPT !.state = "ERROR"]
    OBVIOUS
  <1>2. d \in RouterType /\ d.wheel = q.wheel /\ d.statetimer = q.statetimer /\ d.state = "ERROR"
    BY <1>1 DEF Sound, RouterType, States
  <1>3. Sound(d, t)
    BY <1>2, SameTimersSound
  <1>4. Stops(d, t) = Stops(q, t)
    BY <1>2, SameLists
  <1>5. CASE q.router /\ q.statetimer = NULL
    <2>1. PICK a : a = ArmStateTimer(d, TimeoutUnbind)
      OBVIOUS
    <2>2. Sound(a, t) /\ a.state = "ERROR"
      BY <1>2, <1>3, <2>1, ArmSound, TimeoutsAreMs DEF SameButTimers
    <2>3. p = CallUnbind(a, u)
      BY <1>1, <1>5, <2>1 DEF EnterError
    <2>4. p.wheel = a.wheel /\ p.state = "ERROR"
      BY <2>2, <2>3, CallUnbindType DEF Sound, PacketOnly
    <2>5. Stops(p, t) = Stops(d, t)
      BY <1>3, <2>1, <2>4, ArmLists, SameLists
    <2> QED
      BY <1>4, <2>4, <2>5 DEF Tidy
  <1>6. CASE ~(q.router /\ q.statetimer = NULL)
    <2>1. p = d
      BY <1>1, <1>6 DEF EnterError
    <2> QED
      BY <1>2, <1>4, <2>1 DEF Tidy
  <1> QED
    BY <1>5, <1>6

\* A state that is left with one deadline takes it back.
LEMMA LeaveOneDeadline ==
  ASSUME NEW q, NEW t, Sound(q, t), OneDeadline(q, t), q.state \in {"BIND", "CLOSE", "UNBIND"},
         NEW l, l = LeaveState(q)
  PROVE  Rest(l, t) = {}
  BY LeaveLists DEF OneDeadline

\* _trip_set_error, from any state.
LEMMA SetErrorTidy ==
  ASSUME NEW q, NEW t, Sound(q, t), AtMostOne(Stops(q, t)), NEW u \in Answers,
         NEW e \in {"ETIME", "EINVAL", "ECOMM", "EPACKET"},
         NEW p, p = _trip_set_error(q, e, u)
  PROVE  Tidy(p, t) /\ p.state = "ERROR" /\ p \in RouterType
  <1>1. CASE q.state = "ERROR"
    BY <1>1 DEF _trip_set_error, Tidy, Sound
  <1>2. CASE q.state # "ERROR"
    <2>1. PICK f : f = [q EXCEPT !.error = e]
      OBVIOUS
    <2>2. f \in RouterType /\ f.wheel = q.wheel /\ f.statetimer = q.statetimer
      BY <2>1 DEF Sound, RouterType
    <2>3. Sound(f, t) /\ Stops(f, t) = Stops(q, t)
      BY <2>2, SameTimersSound, SameLists
    <2>4. PICK l : l = LeaveState(f)
      OBVIOUS
    <2>5. Sound(l, t) /\ Stops(l, t) = Stops(q, t)
      BY <2>3, <2>4, LeaveSound, LeaveLists
    <2>6. p = EnterError(l, u)
      BY <1>2, <2>1, <2>4 DEF _trip_set_error
    <2>7. Sound(p, t)
      BY <2>5, <2>6, EnterErrorSound
    <2> QED
      BY <2>5, <2>6, <2>7, EnterErrorTidy DEF Sound
  <1> QED
    BY <1>1, <1>2

\* _trip_set_state, when it leads to ERROR.
LEMMA SetStateErrorTidy ==
  ASSUME NEW q, NEW t, Sound(q, t), AtMostOne(Stops(q, t)), NEW u \in Answers, NEW s, NEW b,
         q.state = "ERROR" \/ s = "ERROR",
         NEW p, p = _trip_set_state(q, s, b, u)
  PROVE  Tidy(p, t) /\ p.state = "ERROR"
  <1>1. PICK l : l = LeaveState(q)
    OBVIOUS
  <1>2. Sound(l, t) /\ Stops(l, t) = Stops(q, t)
    BY <1>1, LeaveSound, LeaveLists
  <1>3. p = EnterError(l, u)
    BY <1>1 DEF _trip_set_state
  <1> QED
    BY <1>2, <1>3, EnterErrorTidy

\* CLOSE, from the stop that a listening router was asked for.
LEMMA CloseTidy ==
  ASSUME NEW q, NEW t, Good(q, t), Tidy(q, t), q.state = "LISTEN", Stops(q, t) = {},
         NEW u, NEW b, NEW p, p = _trip_set_state(q, "CLOSE", b, u)
  PROVE  Tidy(p, t) /\ p.state = "CLOSE"
  <1>1. PICK d : d = [q EXCEPT !.state = "CLOSE", !.statedeadline = TimeoutClose]
    OBVIOUS
  <1>2. p = ArmStateTimer(d, TimeoutClose)
    BY <1>1 DEF _trip_set_state, LeaveState, EnterClose
  <1>3. /\ d.wheel = q.wheel /\ d.statetimer = q.statetimer
        /\ d.state = "CLOSE" /\ d.pkt = q.pkt
    BY <1>1 DEF Good, Sound, RouterType
  <1>4. d \in RouterType
    <2>1. TimeoutClose \in Int
      BY TimeoutsAreMs
    <2> QED
      BY <1>1, <2>1, StateNames, FieldTypes, Zenon DEF Good, Sound
  <1>5. Sound(d, t)
    BY <1>3, <1>4, SameTimersSound DEF Good
  <1>6. p.state = "CLOSE" /\ p.pkt = q.pkt
    BY <1>2, <1>3, <1>5, ArmSound, TimeoutsAreMs DEF SameButTimers
  <1>7. Rest(d, t) = {} /\ Stops(d, t) = {} /\ Used(d, t) = Used(q, t)
    BY <1>3, SameLists DEF Tidy
  <1>8. /\ Rest(p, t) \subseteq {p.statetimer} /\ Stops(p, t) = {}
        /\ Used(p, t) \subseteq Used(q, t) \cup {p.statetimer}
        /\ Free(d) # {} => p.statetimer # NULL
    BY <1>2, <1>5, <1>7, ArmLists
  <1>9. ASSUME Roomy PROVE HasRoom(p, t)
    <2>1. PICK a : Used(q, t) \subseteq {a} \cup Stops(q, t)
      BY <1>9 DEF Tidy, HasRoom
    <2>2. Used(d, NULL) \subseteq {a, t}
      BY <1>7, <2>1, EntryLists
    <2>3. Free(d) # {}
      BY <1>9, <2>2, RoomForOne
    <2>4. Used(p, t) \subseteq {a, p.statetimer}
      BY <1>8, <2>1
    <2> QED
      BY <1>6, <1>8, <2>3, <2>4 DEF HasRoom
  <1>10. InTurn(p)
    BY <1>6 DEF Tidy, InTurn
  <1> QED
    BY <1>6, <1>8, <1>9, <1>10 DEF Tidy, OneDeadline, AtMostOne

\* LISTEN is entered from BIND, whose timer is canceled.
LEMMA ListenTidy ==
  ASSUME NEW q, Good(q, NULL), Tidy(q, NULL), q.state = "BIND", ~(q.pkt.binds > 0),
         NEW p, p = EnterListen(LeaveState(q))
  PROVE  Tidy(p, NULL) /\ p.state = "LISTEN"
  <1>1. PICK l : l = LeaveState(q)
    OBVIOUS
  <1>2. Sound(l, NULL) /\ l.pkt = q.pkt /\ l.statetimer = NULL
    BY <1>1, LeaveSound DEF Good, SameButTimers
  <1>3. Rest(l, NULL) = {} /\ Used(l, NULL) = Used(q, NULL) /\ Stops(l, NULL) = Stops(q, NULL)
    BY <1>1, LeaveLists DEF Good, Tidy, OneDeadline
  <1>4. /\ p.wheel = l.wheel /\ p.statetimer = NULL
        /\ p.state = "LISTEN" /\ p.pkt = q.pkt
    BY <1>1, <1>2 DEF EnterListen, Sound, RouterType
  <1>5. Rest(p, NULL) = {} /\ Stops(p, NULL) = {} /\ Used(p, NULL) = Used(q, NULL)
    BY <1>3, <1>4, SameLists DEF Tidy
  <1>6. ASSUME Roomy PROVE HasRoom(p, NULL)
    <2>1. Used(p, NULL) \subseteq {q.statetimer} \cup Stops(p, NULL)
      BY <1>5, <1>6 DEF Tidy, HasRoom
    <2> QED
      BY <1>4, <2>1 DEF HasRoom
  <1>7. InTurn(p)
    BY <1>4 DEF Tidy, InTurn
  <1> QED
    BY <1>4, <1>5, <1>6, <1>7 DEF Tidy, OneDeadline, AtMostOne

\* BIND, of a router that starts with an empty wheel.
LEMMA BindTidy ==
  ASSUME NEW q, Good(q, NULL), Tidy(q, NULL), q.state = "START", q.router,
         Used(q, NULL) = {}, NEW b \in Answers, NEW u \in Answers,
         NEW p, p = _trip_set_state(q, "BIND", b, u)
  PROVE  Tidy(p, NULL) /\ p.state \in {"BIND", "LISTEN", "ERROR"}
  <1>1. PICK d : d = [q EXCEPT !.state = "BIND", !.statedeadline = TimeoutBind]
    OBVIOUS
  <1>2. PICK a : a = ArmStateTimer(d, TimeoutBind)
    OBVIOUS
  <1>3. PICK c : c = CallBind(a, b)
    OBVIOUS
  <1>4. p = CASE b = "async" -> c
              [] b = "ok"    -> EnterListen(LeaveState(c))
              [] b = "error" -> _trip_set_error(c, "EPACKET", u)
    BY <1>1, <1>2, <1>3 DEF _trip_set_state, LeaveState, EnterBind
  <1>5. /\ d.wheel = q.wheel /\ d.statetimer = q.statetimer
        /\ d.state = "BIND" /\ d.router /\ d.pkt = q.pkt
    BY <1>1 DEF Good, Sound, RouterType
  <1>6. d \in RouterType
    <2>1. TimeoutBind \in Int
      BY TimeoutsAreMs
    <2> QED
      BY <1>1, <2>1, StateNames, FieldTypes, Zenon DEF Good, Sound
  <1>7. Sound(d, NULL)
    BY <1>5, <1>6, SameTimersSound DEF Good
  <1>8. Sound(a, NULL) /\ a.state = "BIND" /\ a.router /\ a.pkt = q.pkt
    BY <1>2, <1>5, <1>7, ArmSound, TimeoutsAreMs DEF SameButTimers
  <1>9. Rest(d, NULL) = {} /\ Stops(d, NULL) = {} /\ Used(d, NULL) = {}
    BY <1>5, SameLists, EntryLists
  <1>10. /\ Rest(a, NULL) \subseteq {a.statetimer} /\ Stops(a, NULL) = {}
         /\ Used(a, NULL) \subseteq {a.statetimer}
         /\ Free(d) # {} => a.statetimer # NULL
    BY <1>2, <1>7, <1>9, ArmLists
  <1>11. Roomy => Free(d) # {}
    BY <1>9, RoomForOne
  <1>12. /\ PacketOnly(c, a) /\ c.pkt.binds = q.pkt.binds + Later(b)
         /\ c.pkt.unbinds = q.pkt.unbinds
         /\ ~q.pkt.overtaken /\ ~(q.pkt.unbinds > 0) => ~c.pkt.overtaken
    BY <1>3, <1>8, CallBindType DEF Sound
  <1>13. Sound(c, NULL) /\ c.state = "BIND" /\ c.router
    BY <1>8, <1>12, SameTimersSound DEF PacketOnly
  <1>14. InTurn(q) /\ q.pkt.binds \in Nat /\ q.pkt.unbinds \in Nat
    BY DEF Tidy, Good, Sound, RouterType, PacketType
  <1>15. InTurn(c) /\ (b # "async" => ~(c.pkt.binds > 0))
    BY <1>12, <1>13, <1>14 DEF InTurn, Later
  <1>16. Tidy(c, NULL)
    <2>1. /\ Rest(c, NULL) \subseteq {c.statetimer} /\ Stops(c, NULL) = {}
          /\ Used(c, NULL) \subseteq {c.statetimer}
          /\ Roomy => c.statetimer # NULL
      BY <1>10, <1>11, <1>12, SameLists DEF PacketOnly
    <2> QED
      BY <1>13, <1>15, <2>1 DEF Tidy, HasRoom, OneDeadline, AtMostOne
  <1>17. CASE b = "async"
    BY <1>4, <1>13, <1>16, <1>17
  <1>18. CASE b = "ok"
    <2>1. p = EnterListen(LeaveState(c))
      BY <1>4, <1>18
    <2>2. Good(c, NULL)
      <3>1. ~(q.pkt.unbinds > 0)
        BY <1>14 DEF InTurn
      <3> QED
        BY <1>12, <1>13, <3>1 DEF Good, WillUnbind
    <2> QED
      BY <1>13, <1>15, <1>16, <1>18, <2>1, <2>2, ListenTidy
  <1>19. CASE b = "error"
    <2>1. p = _trip_set_error(c, "EPACKET", u)
      BY <1>4, <1>19
    <2> QED
      BY <1>13, <1>16, <2>1, SetErrorTidy DEF Tidy
  <1> QED
    BY <1>17, <1>18, <1>19 DEF Answers

\* UNBIND, from CLOSE.  An interface that answers inside the call takes the router
\* on to END or ERROR, where the deadline of UNBIND is set all the same.
LEMMA UnbindTidy ==
  ASSUME NEW q, Good(q, NULL), Tidy(q, NULL), q.state = "CLOSE", NEW b, NEW u \in Answers,
         u # "async" => ~AnswersLater /\ TimeoutUnbind = 0,
         NEW p, p = _trip_set_state(q, "UNBIND", b, u)
  PROVE  Tidy(p, NULL) /\ p.state \in {"UNBIND", "END", "ERROR"}
  <1>1. PICK l : l = LeaveState(q)
    OBVIOUS
  <1>2. PICK e : e = [l EXCEPT !.state = "UNBIND"]
    OBVIOUS
  <1>3. PICK c : c = CallUnbind(e, u)
    OBVIOUS
  <1>4. PICK answered : answered = CASE u = "async" -> c
                                     [] u = "ok"    -> [LeaveState(c) EXCEPT !.state = "END"]
                                     [] u = "error" -> _trip_set_error(c, "EPACKET", u)
    OBVIOUS
  <1>5. PICK d : d = [answered EXCEPT !.statedeadline = TimeoutUnbind]
    OBVIOUS
  <1>6. p = ArmStateTimer(d, TimeoutUnbind)
    BY <1>1, <1>2, <1>3, <1>4, <1>5 DEF _trip_set_state, EnterUnbind
  <1>7. Sound(l, NULL) /\ l.statetimer = NULL /\ l.pkt = q.pkt
    BY <1>1, LeaveSound DEF Good, SameButTimers
  <1>8. Rest(l, NULL) = {} /\ Stops(l, NULL) = {} /\ Used(l, NULL) = Used(q, NULL)
    BY <1>1, LeaveLists DEF Good, Tidy, OneDeadline
  <1>9. /\ e \in RouterType /\ e.wheel = l.wheel /\ e.statetimer = NULL
        /\ e.state = "UNBIND" /\ e.pkt = q.pkt
    <2>1. e \in RouterType
      BY <1>2, <1>7, StateNames, FieldTypes, Zenon DEF Sound
    <2> QED
      BY <1>2, <1>7, <2>1 DEF Sound, RouterType
  <1>10. /\ PacketOnly(c, e) /\ c.pkt.binds = q.pkt.binds
         /\ c.pkt.unbinds = q.pkt.unbinds + Later(u) /\ c.pkt.overtaken = q.pkt.overtaken
    BY <1>3, <1>9, CallUnbindType
  <1>11. /\ Sound(c, NULL) /\ c.wheel = l.wheel /\ c.statetimer = NULL /\ c.state = "UNBIND"
         /\ c \in RouterType
    BY <1>7, <1>9, <1>10, SameTimersSound DEF PacketOnly
  <1>12. Rest(c, NULL) = {} /\ Stops(c, NULL) = {} /\ Used(c, NULL) = Used(q, NULL)
    BY <1>8, <1>11, SameLists
  <1>13. /\ ~(c.pkt.binds > 0) /\ ~c.pkt.overtaken /\ c.pkt.unbinds <= 1
         /\ u # "async" => ~(c.pkt.unbinds > 0)
    <2>1. q.pkt.binds \in Nat /\ q.pkt.unbinds \in Nat
      BY DEF Good, Sound, RouterType, PacketType
    <2> QED
      BY <1>10, <2>1 DEF Tidy, InTurn, Later
  <1>14. CASE u \in {"async", "ok"}
    <2>1. /\ answered \in RouterType /\ answered.wheel = c.wheel /\ answered.statetimer = NULL
          /\ answered.pkt = c.pkt
          /\ answered.state = IF u = "async" THEN "UNBIND" ELSE "END"
      <3>1. CASE u = "async"
        BY <1>4, <1>11, <3>1
      <3>2. CASE u = "ok"
        <4>1. PICK m : m = LeaveState(c)
          OBVIOUS
        <4>2. m \in RouterType /\ m.statetimer = NULL /\ m.pkt = c.pkt
          BY <1>11, <4>1, LeaveSound DEF Sound, SameButTimers
        <4>3. m.wheel = c.wheel
          BY <1>11, <4>1 DEF LeaveState, _trip_timeout_cancel_state, RouterType
        <4>4. answered = [m EXCEPT !.state = "END"]
          BY <1>4, <3>2, <4>1
        <4>5. answered \in RouterType
          BY <4>2, <4>4, StateNames, FieldTypes, Zenon
        <4> QED
          BY <3>2, <4>2, <4>3, <4>4, <4>5 DEF RouterType
      <3> QED
        BY <1>14, <3>1, <3>2
    <2>2. /\ d \in RouterType /\ d.wheel = c.wheel /\ d.statetimer = NULL
          /\ d.pkt = c.pkt /\ d.state = answered.state
      BY <1>5, <2>1, TimeoutsAreMs DEF RouterType
    <2>3. Sound(d, NULL)
      BY <1>11, <2>2, SameTimersSound
    <2>4. p.state = d.state /\ p.pkt = d.pkt
      BY <1>6, <2>3, ArmSound, TimeoutsAreMs DEF SameButTimers
    <2>5. Rest(d, NULL) = {} /\ Stops(d, NULL) = {} /\ Used(d, NULL) = Used(q, NULL)
      BY <1>12, <2>2, SameLists
    <2>6. /\ Rest(p, NULL) \subseteq {p.statetimer} /\ Stops(p, NULL) = {}
          /\ Free(d) # {} => p.statetimer # NULL
      BY <1>6, <2>3, <2>5, ArmLists
    <2>7. AllLeft(p, NULL, TimeoutUnbind)
      BY <1>6, <2>3, <2>5, ArmLeft
    <2>8. p.state = "END" => Overdue(p, NULL)
      BY <2>1, <2>2, <2>4, <2>7 DEF AllLeft, Overdue
    <2>9. ASSUME Roomy PROVE HasRoom(p, NULL)
      <3>1. PICK a : Used(q, NULL) \subseteq {a, q.statetimer}
        BY <2>9 DEF Tidy, HasRoom
      <3>2. Free(d) # {}
        BY <2>5, <2>9, <3>1, RoomForOne
      <3> QED
        BY <2>1, <2>2, <2>4, <2>6, <3>2 DEF HasRoom
    <2>10. InTurn(p)
      BY <1>13, <2>1, <2>2, <2>4 DEF InTurn
    <2> QED
      BY <2>1, <2>2, <2>4, <2>6, <2>8, <2>9, <2>10 DEF Tidy, OneDeadline, AtMostOne
  <1>15. CASE u = "error"
    <2>1. answered = _trip_set_error(c, "EPACKET", u)
      BY <1>4, <1>15
    <2>2. AtMostOne(Stops(c, NULL))
      BY <1>12 DEF AtMostOne
    <2>3. Tidy(answered, NULL) /\ answered.state = "ERROR"
      BY <1>11, <2>1, <2>2, SetErrorTidy
    <2>4. Sound(answered, NULL)
      <3>1. Good(c, NULL)
        <4>1. ~c.pkt.held
          BY <1>3, <1>9, CallUnbindType
        <4> QED
          BY <1>11, <4>1 DEF Good, WillUnbind
      <3> QED
        BY <2>1, <3>1, SetErrorGood DEF Good
    <2>5. /\ d \in RouterType /\ d.wheel = answered.wheel
          /\ d.statetimer = answered.statetimer /\ d.state = "ERROR"
      BY <1>5, <2>3, <2>4, TimeoutsAreMs DEF Sound, RouterType
    <2>6. Sound(d, NULL) /\ Stops(d, NULL) = Stops(answered, NULL)
      BY <2>4, <2>5, SameTimersSound, SameLists
    <2>7. p.state = "ERROR" /\ Stops(p, NULL) = Stops(d, NULL)
      BY <1>6, <2>5, <2>6, ArmSound, ArmLists, TimeoutsAreMs DEF SameButTimers
    <2> QED
      BY <2>3, <2>6, <2>7 DEF Tidy
  <1> QED
    BY <1>14, <1>15 DEF Answers

\* END, from UNBIND, once the interface is down.
LEMMA EndTidy ==
  ASSUME NEW q, Good(q, NULL), Tidy(q, NULL), q.state = "UNBIND", ~(q.pkt.unbinds > 0),
         NEW b, NEW u, NEW p, p = _trip_set_state(q, "END", b, u)
  PROVE  Tidy(p, NULL) /\ p.state = "END"
  <1>1. PICK l : l = LeaveState(q)
    OBVIOUS
  <1>2. p = [l EXCEPT !.state = "END"]
    BY <1>1 DEF _trip_set_state
  <1>3. Sound(l, NULL) /\ l.pkt = q.pkt
    BY <1>1, LeaveSound DEF Good, SameButTimers
  <1>4. p.wheel = l.wheel /\ p.state = "END" /\ p.pkt = q.pkt
    BY <1>2, <1>3 DEF Sound, RouterType
  <1>5. Rest(l, NULL) = {} /\ Stops(l, NULL) = {}
    BY <1>1, LeaveLists DEF Good, Tidy, OneDeadline
  <1>6. Rest(p, NULL) = {} /\ Stops(p, NULL) = {}
    BY <1>4, <1>5, SameLists
  <1>7. InTurn(p)
    BY <1>4 DEF Tidy, InTurn
  <1> QED
    BY <1>4, <1>6, <1>7 DEF Tidy, HasRoom, OneDeadline, Overdue, AtMostOne

\* The listening of CLOSE ends in UNBIND or what follows it, in ERROR or where it
\* was.
LEMMA ListenStepTidy ==
  ASSUME NEW q, Good(q, NULL), Tidy(q, NULL), q.state \in {"LISTEN", "CLOSE"},
         NEW e \in ListenErrors, NEW u \in Answers,
         u # "async" => ~AnswersLater /\ TimeoutUnbind = 0, NEW p
  PROVE  /\ p = ListenStep(q, e, u) =>
              Good(p, NULL) /\ Tidy(p, NULL) /\ p.state \in {q.state, "ERROR"}
         /\ p = CloseStep(q, e, u) /\ q.state = "CLOSE" =>
              Tidy(p, NULL) /\ p.state \in {"CLOSE", "UNBIND", "END", "ERROR"}
  <1>1. PICK l : l = ListenStep(q, e, u)
    OBVIOUS
  <1>2. Good(l, NULL) /\ Tidy(l, NULL) /\ l.state \in {q.state, "ERROR"}
    <2>1. CASE e = "none"
      BY <1>1, <2>1 DEF ListenStep
    <2>2. CASE e = "ECOMM"
      <3>1. l = _trip_set_error(q, e, u)
        BY <1>1, <2>2 DEF ListenStep
      <3>2. Good(l, NULL)
        BY <2>2, <3>1, SetErrorGood
      <3>3. Tidy(l, NULL) /\ l.state = "ERROR"
        BY <2>2, <3>1, SetErrorTidy DEF Tidy, Good
      <3> QED
        BY <3>2, <3>3
    <2> QED
      BY <2>1, <2>2 DEF ListenErrors
  <1>3. ASSUME p = CloseStep(q, e, u), q.state = "CLOSE"
        PROVE  Tidy(p, NULL) /\ p.state \in {"CLOSE", "UNBIND", "END", "ERROR"}
    <2>1. p = l \/ p = _trip_set_state(l, "UNBIND", "async", u)
      BY <1>1, <1>3 DEF CloseStep
    <2>2. CASE p = l
      BY <1>2, <1>3, <2>2
    <2>3. CASE p = _trip_set_state(l, "UNBIND", "async", u)
      <3>1. CASE l.state = "CLOSE"
        BY <1>2, <2>3, <3>1, UnbindTidy
      <3>2. CASE l.state = "ERROR"
        BY <1>2, <2>3, <3>2, SetStateErrorTidy DEF Tidy, Good
      <3> QED
        BY <1>2, <1>3, <3>1, <3>2
    <2> QED
      BY <2>1, <2>2, <2>3
  <1> QED
    BY <1>1, <1>2, <1>3
-----------------------------------------------------------------------------
(* The actions of an orderly run.                                          *)

\* From one state to the next, as the comments of trip_action have it.
MayFollow(s, n) ==
  \/ n = s
  \/ n = "ERROR" /\ (s # "END" \/ ~AnswersLater)
  \/ s = "START" /\ n \in {"BIND", "LISTEN"}
  \/ s = "BIND" /\ n = "LISTEN"
  \/ s = "LISTEN" /\ n = "CLOSE"
  \/ s = "CLOSE" /\ n \in {"UNBIND", "END"}
  \/ s = "UNBIND" /\ n = "END"
  \/ s = "END" /\ n = "START"

\* A step leaves the router tidy, in a state that may follow.
Kept(q, p) == Tidy(p, NULL) /\ MayFollow(q.state, p.state)

\* Stops are waiting in the wheel, or a callback runs, as the walk has it.
LEMMA NoOneRuns ==
  ASSUME NEW q
  PROVE  Pending(q, "stop") = Stops(q, NULL) /\ Pending(q, "state") = Rest(q, NULL)
  BY NullIsNoTimer DEF Pending, Stops, Rest

\* Where the deadlines are overdue and no stop waits, every entry is due.
LEMMA AllDue ==
  ASSUME NEW q, q \in RouterType, Overdue(q, NULL), Stops(q, NULL) = {}
  PROVE  Used(q, NULL) \subseteq Due(q)
  <1> SUFFICES ASSUME NEW x \in Used(q, NULL) PROVE x \in Due(q)
    OBVIOUS
  <1>1. x \in Timers /\ q.wheel[x].cb # "free"
    BY EntryLists
  <1>2. q.wheel[x].cb \in {"state", "stop"} /\ q.wheel[x].canceled \in BOOLEAN
    BY <1>1 DEF RouterType, Entry
  <1>3. q.wheel[x].canceled \/ x \in Rest(q, NULL)
    BY <1>1, <1>2, EntryLists, NullIsNoTimer
  <1>4. q.wheel[x].canceled \/ q.wheel[x].left = 0
    BY <1>3 DEF Overdue
  <1> QED
    BY <1>1, <1>4 DEF Due

\* An answer to bind() or unbind() is one less to come.
LEMMA AnsweredTidy ==
  ASSUME NEW q, Good(q, NULL), Tidy(q, NULL), NEW p,
         \/ q.pkt.binds > 0 /\ p = BindAnswered(q)
         \/ q.pkt.unbinds > 0 /\ p = UnbindAnswered(q)
  PROVE  Good(p, NULL) /\ Tidy(p, NULL) /\ p.state = q.state /\ p.pkt.held = q.pkt.held
  <1>1. q \in RouterType /\ q.pkt.binds \in Nat /\ q.pkt.unbinds \in Nat
    BY DEF Good, Sound, RouterType, PacketType
  <1>2. /\ PacketOnly(p, q)
        /\ p.pkt.held = q.pkt.held /\ p.pkt.overtaken = q.pkt.overtaken
        /\ p.pkt.unbinds <= q.pkt.unbinds /\ p.pkt.binds <= q.pkt.binds
    BY <1>1, AnsweredType
  <1>3. p \in RouterType /\ p.pkt.binds \in Nat /\ p.pkt.unbinds \in Nat
    BY <1>2 DEF PacketOnly, RouterType, PacketType
  <1>4. p.wheel = q.wheel /\ p.statetimer = q.statetimer /\ p.state = q.state
    BY <1>2 DEF PacketOnly
  <1>5. Sound(p, NULL)
    BY <1>3, <1>4, SameTimersSound DEF Good
  <1>6. Good(p, NULL)
    BY <1>1, <1>2, <1>3, <1>5 DEF Good, WillUnbind, PacketOnly
  <1>7. /\ Rest(p, NULL) = Rest(q, NULL) /\ Stops(p, NULL) = Stops(q, NULL)
        /\ Used(p, NULL) = Used(q, NULL)
    BY <1>4, SameLists
  <1>8. InTurn(q) => InTurn(p)
    BY <1>1, <1>2, <1>3, <1>4 DEF InTurn
  <1>9. Overdue(q, NULL) => Overdue(p, NULL)
    BY <1>4, <1>7 DEF Overdue
  <1>10. Tidy(p, NULL)
    BY <1>4, <1>7, <1>8, <1>9 DEF Tidy, OneDeadline, HasRoom
  <1> QED
    BY <1>2, <1>4, <1>6, <1>10

\* trip_stop of a listening router that has no stop waiting.
LEMMA StopKept ==
  ASSUME NEW q, Good(q, NULL), Tidy(q, NULL), q.state = "LISTEN", Stops(q, NULL) = {},
         NEW p, p = _trip_set_timeout(q, "stop", 0)
  PROVE  Kept(q, p)
  <1>1. /\ Sound(p, NULL) /\ p.state = "LISTEN" /\ p.pkt = q.pkt
        /\ p.statetimer = q.statetimer
    BY SetTimeoutSound DEF Good, SameButTimers
  <1>2. PICK n : n = NewTimer(q)
    OBVIOUS
  <1>3. /\ Rest(p, NULL) = Rest(q, NULL)
        /\ Stops(p, NULL) = IF Free(q) # {} THEN {n} ELSE {}
        /\ Used(p, NULL) = IF Free(q) # {} THEN Used(q, NULL) \cup {n} ELSE Used(q, NULL)
    BY <1>2, SetTimeoutLists DEF Good
  <1>4. AtMostOne(Stops(p, NULL))
    BY <1>3 DEF AtMostOne
  <1>5. ASSUME Roomy PROVE HasRoom(p, NULL)
    <2>1. PICK a : Used(q, NULL) \subseteq {a}
      BY <1>5 DEF Tidy, HasRoom
    <2>2. Used(p, NULL) \subseteq {a} \cup Stops(p, NULL)
      BY <1>3, <2>1
    <2> QED
      BY <1>1, <2>2 DEF HasRoom
  <1> QED
    BY <1>1, <1>3, <1>4, <1>5 DEF Kept, Tidy, OneDeadline, InTurn, MayFollow

\* What follows a callback: the walk frees its entry.
LEMMA FreeTidy ==
  ASSUME NEW q \in RouterType, NEW t \in Timers, Tidy(q, t), NEW f, f = FreeTimer(q, t)
  PROVE  /\ Tidy(f, NULL) /\ f.state = q.state
         /\ Used(f, NULL) = Used(q, t)
  <1>1. f.state = q.state /\ f.pkt = q.pkt /\ f.statetimer = q.statetimer
    BY DEF FreeTimer, RouterType
  <1>2. /\ Rest(f, NULL) = Rest(q, t) /\ Stops(f, NULL) = Stops(q, t)
        /\ Used(f, NULL) = Used(q, t)
    BY FreeLists
  <1>3. Overdue(q, t) => Overdue(f, NULL)
    <2> SUFFICES ASSUME Overdue(q, t), NEW x \in Rest(f, NULL)
                 PROVE  f.wheel[x].left = 0 /\ ~AnswersLater
      BY DEF Overdue
    <2>1. x \in Timers /\ x # t /\ x \in Rest(q, t)
      BY <1>2, EntryLists
    <2>2. f.wheel[x] = q.wheel[x]
      BY <2>1 DEF FreeTimer, RouterType
    <2> QED
      BY <2>1, <2>2 DEF Overdue
  <1>4. InTurn(q) => InTurn(f)
    BY <1>1 DEF InTurn
  <1> QED
    BY <1>1, <1>2, <1>3, <1>4 DEF Tidy, OneDeadline, HasRoom

\* Taking an entry that is not the state timer out of the lists.
LEMMA RunTidy ==
  ASSUME NEW q, Good(q, NULL), Tidy(q, NULL), NEW t \in Timers, t \notin Rest(q, NULL),
         q.wheel[t].cb # "free"
  PROVE  /\ Good(q, t) /\ Tidy(q, t)
         /\ Used(q, t) = Used(q, NULL) \ {t} /\ Stops(q, t) = Stops(q, NULL) \ {t}
  <1>1. /\ Rest(q, t) = Rest(q, NULL)
        /\ Stops(q, t) = Stops(q, NULL) \ {t} /\ Used(q, t) = Used(q, NULL) \ {t}
    <2>1. \A x : /\ x \in Rest(q, t) <=> x \in Rest(q, NULL) /\ x # t
                 /\ x \in Stops(q, t) <=> x \in Stops(q, NULL) /\ x # t
                 /\ x \in Used(q, t) <=> x \in Used(q, NULL) /\ x # t
      BY EntryLists, NullIsNoTimer
    <2> QED
      BY <2>1
  <1>2. q.statetimer # t
    <2>1. q.statetimer # NULL => q.statetimer \in Rest(q, NULL)
      BY NoOneRuns DEF Good, Sound, Live
    <2> QED
      BY <2>1, NullIsNoTimer
  <1>3. Good(q, t)
    BY <1>2 DEF Good, Sound, Busy
  <1>4. AtMostOne(Stops(q, t))
    BY <1>1 DEF Tidy, OneDeadline, AtMostOne
  <1>5. ASSUME Roomy PROVE HasRoom(q, t)
    <2>1. HasRoom(q, NULL)
      BY <1>5 DEF Tidy, HasRoom
    <2>2. ASSUME q.state = "LISTEN" PROVE \E a : Used(q, t) \subseteq {a} \cup Stops(q, t)
      <3>1. PICK a : Used(q, NULL) \subseteq {a} \cup Stops(q, NULL)
        BY <2>1, <2>2 DEF HasRoom
      <3>2. Used(q, t) \subseteq {a} \cup Stops(q, t)
        BY <1>1, <3>1
      <3> QED
        BY <3>2
    <2>3. ASSUME q.state = "CLOSE" PROVE \E a : Used(q, t) \subseteq {a, q.statetimer}
      <3>1. PICK a : Used(q, NULL) \subseteq {a, q.statetimer}
        BY <2>1, <2>3 DEF HasRoom
      <3>2. Used(q, t) \subseteq {a, q.statetimer}
        BY <1>1, <3>1
      <3> QED
        BY <3>2
    <2> QED
      BY <1>1, <2>1, <2>2, <2>3 DEF HasRoom
  <1>6. Overdue(q, NULL) => Overdue(q, t)
    BY <1>1 DEF Overdue
  <1> QED
    BY <1>1, <1>3, <1>4, <1>5, <1>6 DEF Tidy, OneDeadline

\* The callbacks of the walk.  That of the state timer ends in ERROR, and a stop's
\* in CLOSE unless there was an error before it.
LEMMA VisitTidy ==
  ASSUME Orderly, OrderlyInv, NEW t \in Timers,
         VisitCanceled(t) \/ _trip_timeout_router_cb(t) \/ _trip_stop_async_cb(t)
  PROVE  /\ Kept(r, r')
         /\ phase' = "action" => InWalk(r', walk')
  <1>1. /\ Good(r, NULL) /\ Sound(r, NULL) /\ Tidy(r, NULL) /\ r \in RouterType
        /\ phase = "action" => InWalk(r, walk)
    BY DEF OrderlyInv, IInv, Good, Sound
  <1>2. UnbindAnswers \subseteq Answers /\ "async" \in Answers
    BY EnvironmentIsKnown DEF Answers
  <1>3. phase' = phase /\ walk' = walk \ {t}
    BY DEF VisitCanceled, _trip_timeout_router_cb, _trip_stop_async_cb, Visit
  <1>4. PICK p : p = r'
    OBVIOUS
  <1>5. CASE VisitCanceled(t)
    <2>1. r.wheel[t].cb # "free" /\ r.wheel[t].canceled /\ p = FreeTimer(r, t)
      BY <1>4, <1>5 DEF VisitCanceled, Visit, Due
    <2>2. t \notin Rest(r, NULL)
      BY <2>1, EntryLists
    <2>3. Tidy(r, t) /\ Used(r, t) = Used(r, NULL) \ {t}
      BY <1>1, <2>1, <2>2, RunTidy
    <2>4. Tidy(p, NULL) /\ p.state = r.state /\ Used(p, NULL) = Used(r, NULL) \ {t}
      BY <1>1, <2>1, <2>3, FreeTidy
    <2> QED
      BY <1>1, <1>3, <1>4, <2>4 DEF Kept, MayFollow, InWalk
  <1>6. CASE _trip_timeout_router_cb(t)
    <2>1. PICK q : q = [r EXCEPT !.statetimer = NULL]
      OBVIOUS
    <2>2. PICK u \in UnbindAnswers : p = FreeTimer(_trip_set_error(q, "ETIME", u), t)
      BY <1>4, <1>6, <2>1 DEF _trip_timeout_router_cb
    <2>3. t \in Rest(r, NULL) /\ r.wheel[t].cb = "state"
      BY <1>6, NoOneRuns, EntryLists DEF _trip_timeout_router_cb
    <2>4. /\ q \in RouterType /\ q.wheel = r.wheel /\ q.statetimer = NULL
      BY <1>1, <2>1 DEF RouterType
    <2>5. Sound(q, t)
      BY <2>3, <2>4, NullIsNoTimer DEF Sound, Live, Busy
    <2>6. AtMostOne(Stops(q, t))
      <3>1. Stops(q, t) \subseteq Stops(r, NULL)
        BY <2>4, NullIsNoTimer DEF Stops, Pending
      <3> QED
        BY <1>1, <3>1 DEF Tidy, AtMostOne
    <2>7. PICK s : s = _trip_set_error(q, "ETIME", u)
      OBVIOUS
    <2>8. Tidy(s, t) /\ s.state = "ERROR" /\ s \in RouterType
      BY <1>2, <2>5, <2>6, <2>7, SetErrorTidy
    <2>9. Tidy(p, NULL) /\ p.state = "ERROR"
      BY <2>2, <2>7, <2>8, FreeTidy
    <2>10. r.state = "END" => ~AnswersLater
      BY <1>1, <2>3 DEF Tidy, Overdue
    <2> QED
      BY <1>1, <1>3, <1>4, <2>9, <2>10 DEF Kept, MayFollow, InWalk
  <1>7. CASE _trip_stop_async_cb(t)
    <2>0. PICK u \in UnbindAnswers :
            p = FreeTimer(_trip_set_state(r, "CLOSE", "async", u), t)
      BY <1>4, <1>7 DEF _trip_stop_async_cb
    <2>1. PICK s : s = _trip_set_state(r, "CLOSE", "async", u)
      OBVIOUS
    <2>2. p = FreeTimer(s, t) /\ t \in Stops(r, NULL)
      BY <1>7, <2>0, <2>1, NoOneRuns DEF _trip_stop_async_cb
    <2>3. r.state \in {"LISTEN", "ERROR"}
      BY <1>1, <2>2 DEF Tidy
    <2>4. r.wheel[t].cb = "stop" /\ t \notin Rest(r, NULL)
      BY <2>2, EntryLists
    <2>5. Good(r, t) /\ Tidy(r, t) /\ Stops(r, t) = Stops(r, NULL) \ {t}
      BY <1>1, <2>4, RunTidy
    <2>6. s \in RouterType
      BY <1>2, <2>1, <2>5, SetStateGood DEF Good, Sound, States
    <2>7. CASE r.state = "LISTEN"
      <3>1. Stops(r, t) = {}
        BY <1>1, <2>2, <2>5 DEF Tidy, AtMostOne
      <3>2. Tidy(s, t) /\ s.state = "CLOSE"
        BY <2>1, <2>5, <2>7, <3>1, CloseTidy
      <3>3. Tidy(p, NULL) /\ p.state = "CLOSE"
        BY <2>2, <2>6, <3>2, FreeTidy
      <3> QED
        BY <1>1, <1>3, <1>4, <2>7, <3>3 DEF Kept, MayFollow, InWalk
    <2>8. CASE r.state = "ERROR"
      <3>1. Tidy(s, t) /\ s.state = "ERROR"
        BY <1>2, <2>1, <2>5, <2>8, SetStateErrorTidy DEF Good, Tidy
      <3>2. Tidy(p, NULL) /\ p.state = "ERROR"
        BY <2>2, <2>6, <3>1, FreeTidy
      <3> QED
        BY <1>1, <1>3, <1>4, <2>8, <3>2 DEF Kept, MayFollow, InWalk
    <2> QED
      BY <2>3, <2>7, <2>8
  <1> QED
    BY <1>5, <1>6, <1>7

\* An orderly run starts and stays tidy.
LEMMA InitOrderly == Init => OrderlyInv
  <1> SUFFICES ASSUME Init PROVE OrderlyInv
    OBVIOUS
  <1>1. IInv
    BY InitIInv
  <1>2. /\ r.state = "START" /\ phase = "idle"
        /\ r.pkt.binds = 0 /\ r.pkt.unbinds = 0 /\ ~r.pkt.overtaken
        /\ \A x \in Timers : r.wheel[x].cb = "free"
    BY DEF Init, FreeEntry
  <1>3. Rest(r, NULL) = {} /\ Stops(r, NULL) = {}
    BY <1>2, EntryLists
  <1> QED
    BY <1>1, <1>2, <1>3
    DEF OrderlyInv, Tidy, OneDeadline, Overdue, InTurn, AtMostOne, HasRoom

\* What an orderly step keeps of a tidy router, beside IInv.
OrderlyStep ==
  /\ Kept(r, r')
  /\ phase' = "action" => InWalk(r', walk')

LEMMA OrderlyNext == Orderly /\ OrderlyInv /\ [Next]_vars => OrderlyStep
  <1> SUFFICES ASSUME Orderly, OrderlyInv, [Next]_vars PROVE OrderlyStep
    OBVIOUS
  <1>1. /\ Good(r, NULL) /\ Sound(r, NULL) /\ Tidy(r, NULL) /\ r \in RouterType
        /\ phase = "action" => InWalk(r, walk)
    BY DEF OrderlyInv, IInv, Good, Sound
  <1>2. /\ UnbindAnswers \subseteq Answers /\ BindAnswers \subseteq Answers
        /\ TimeoutActionStates = {} /\ StopStates \subseteq {"LISTEN"}
        /\ FdStates \subseteq {"LISTEN", "CLOSE"}
    BY EnvironmentIsKnown DEF Orderly
  <1>0. \A u \in UnbindAnswers : u # "async" => ~AnswersLater /\ TimeoutUnbind = 0
    BY DEF Orderly, AnswersLater
  <1>3. PICK p : p = r'
    OBVIOUS
  <1>4. ASSUME Kept(r, p), phase' # "action" PROVE OrderlyStep
    BY <1>3, <1>4 DEF OrderlyStep
  <1>5. CASE trip_start
    <2>1. p = [r EXCEPT !.state = "START"] /\ r.state \in {"START", "END"} /\ walk' = Due(r)
      BY <1>3, <1>5 DEF trip_start
    <2>2. p.wheel = r.wheel /\ p.state = "START" /\ p.pkt = r.pkt /\ p.statetimer = r.statetimer
      BY <1>1, <2>1 DEF RouterType
    <2>3. /\ Overdue(r, NULL) /\ Stops(r, NULL) = {} /\ InTurn(r)
          /\ OneDeadline(r, NULL)
      BY <1>1, <2>1 DEF Tidy
    <2>4. /\ Rest(p, NULL) = Rest(r, NULL) /\ Stops(p, NULL) = {}
          /\ Used(p, NULL) = Used(r, NULL)
      BY <2>2, <2>3, SameLists
    <2>5. InWalk(p, walk')
      BY <1>1, <2>1, <2>2, <2>3, <2>4, AllDue DEF InWalk
    <2>6. InTurn(p)
      BY <2>1, <2>2, <2>3 DEF InTurn
    <2>7. Overdue(p, NULL)
      BY <2>2, <2>3, <2>4 DEF Overdue
    <2>8. Tidy(p, NULL)
      BY <2>2, <2>3, <2>4, <2>6, <2>7 DEF Tidy, OneDeadline, AtMostOne, HasRoom
    <2> QED
      BY <1>3, <2>1, <2>2, <2>5, <2>8 DEF OrderlyStep, Kept, MayFollow
  <1>6. CASE trip_stop
    <2>1. /\ r.state = "LISTEN" /\ phase' = "idle"
          /\ Cardinality(Stops(r, NULL)) < MaxStops
      BY <1>2, <1>6, NoOneRuns DEF trip_stop
    <2>2. Stops(r, NULL) = {}
      <3>1. MaxStops \in Nat /\ MaxStops <= 1
        BY EnvironmentIsKnown DEF Orderly
      <3>2. ASSUME NEW x \in Stops(r, NULL) PROVE FALSE
        <4>1. Stops(r, NULL) = {x}
          BY <1>1, <3>2 DEF Tidy, AtMostOne
        <4>2. Cardinality({x}) = 1
          BY FS_Singleton
        <4> QED
          BY <2>1, <3>1, <4>1, <4>2
      <3> QED
        BY <3>2
    <2>3. PICK u \in UnbindAnswers :
            \/ p = _trip_set_state(r, "CLOSE", "async", u)
            \/ p = _trip_set_timeout(r, "stop", 0)
      BY <1>3, <1>6 DEF trip_stop
    <2>4. Kept(r, p)
      <3>1. CASE p = _trip_set_state(r, "CLOSE", "async", u)
        BY <1>1, <2>1, <2>2, <3>1, CloseTidy DEF Kept, MayFollow
      <3>2. CASE p = _trip_set_timeout(r, "stop", 0)
        BY <1>1, <2>1, <2>2, <3>2, StopKept
      <3> QED
        BY <2>3, <3>1, <3>2
    <2> QED
      BY <1>4, <2>1, <2>4
  <1>7. CASE trip_timeout \/ trip_action_timeout
    <2>1. p = r /\ phase' = "timeout"
      BY <1>2, <1>3, <1>7 DEF trip_timeout, trip_action_timeout
    <2> QED
      BY <1>1, <1>4, <2>1 DEF Kept, MayFollow
  <1>8. CASE trip_action_fd
    <2>1. PICK e \in ListenErrors :
            \E u \in UnbindAnswers : \/ r.state = "LISTEN" /\ p = ListenStep(r, e, u)
                                     \/ r.state = "CLOSE" /\ p = CloseStep(r, e, u)
      BY <1>2, <1>3, <1>8 DEF trip_action_fd
    <2>2. PICK u \in UnbindAnswers : \/ r.state = "LISTEN" /\ p = ListenStep(r, e, u)
                                     \/ r.state = "CLOSE" /\ p = CloseStep(r, e, u)
      BY <2>1
    <2>3. u \in Answers /\ (u # "async" => ~AnswersLater /\ TimeoutUnbind = 0)
      BY <1>0, <1>2
    <2>4. CASE r.state = "LISTEN" /\ p = ListenStep(r, e, u)
      <3>1. Tidy(p, NULL) /\ p.state \in {"LISTEN", "ERROR"}
        BY <1>1, <2>3, <2>4, ListenStepTidy
      <3> QED
        BY <1>4, <1>8, <2>4, <3>1 DEF trip_action_fd, Kept, MayFollow
    <2>5. CASE r.state = "CLOSE" /\ p = CloseStep(r, e, u)
      <3>1. Tidy(p, NULL) /\ p.state \in {"CLOSE", "UNBIND", "END", "ERROR"}
        BY <1>1, <2>3, <2>5, ListenStepTidy
      <3> QED
        BY <1>4, <1>8, <2>5, <3>1 DEF trip_action_fd, Kept, MayFollow
    <2> QED
      BY <2>2, <2>4, <2>5
  <1>9. CASE SendFails
    <2>0. r.state \in {"LISTEN", "CLOSE"}
      BY <1>2, <1>9 DEF SendFails
    <2>1. PICK u \in UnbindAnswers : p = _trip_set_error(r, "ECOMM", u)
      BY <1>3, <1>9 DEF SendFails
    <2>2. Tidy(p, NULL) /\ p.state = "ERROR"
      BY <1>1, <1>2, <2>1, SetErrorTidy DEF Tidy
    <2>3. phase' # "action"
      BY <1>1, <1>9, <2>0 DEF SendFails, InWalk
    <2> QED
      BY <1>4, <2>0, <2>2, <2>3 DEF Kept, MayFollow
  <1>10. CASE \E t \in Timers :
                VisitCanceled(t) \/ _trip_timeout_router_cb(t) \/ _trip_stop_async_cb(t)
    <2>1. PICK t \in Timers :
            VisitCanceled(t) \/ _trip_timeout_router_cb(t) \/ _trip_stop_async_cb(t)
      BY <1>10
    <2> QED
      BY <2>1, VisitTidy DEF OrderlyStep
  <1>11. CASE EndTimeout
    <2>1. p = r /\ phase' = "idle"
      BY <1>3, <1>11 DEF EndTimeout, EndWalk
    <2> QED
      BY <1>1, <1>4, <2>1 DEF Kept, MayFollow
  <1>12. CASE ActStart
    <2>1. PICK q : q = [r EXCEPT !.router = TRUE]
      OBVIOUS
    <2>2. PICK b \in BindAnswers :
            \E u \in UnbindAnswers : \/ p = _trip_set_state(q, "BIND", b, u)
                                     \/ p = _trip_set_error(r, "EINVAL", u)
      BY <1>3, <1>12, <2>1 DEF ActStart
    <2>u. PICK u \in UnbindAnswers : \/ p = _trip_set_state(q, "BIND", b, u)
                                     \/ p = _trip_set_error(r, "EINVAL", u)
      BY <2>2
    <2>3. r.state = "START" /\ phase = "action" /\ walk = {} /\ phase' = "idle"
      BY <1>12 DEF ActStart, ActionIn, EndWalk
    <2>4. CASE p = _trip_set_state(q, "BIND", b, u)
      <3>1. /\ q \in RouterType /\ q.wheel = r.wheel /\ q.statetimer = r.statetimer
            /\ q.state = r.state /\ q.pkt = r.pkt /\ q.router
        BY <1>1, <2>1 DEF RouterType
      <3>2. Sound(q, NULL)
        BY <1>1, <3>1, SameTimersSound
      <3>3. Good(q, NULL)
        BY <1>1, <2>3, <3>1, <3>2 DEF Good, WillUnbind
      <3>4. /\ Rest(q, NULL) = Rest(r, NULL) /\ Stops(q, NULL) = Stops(r, NULL)
            /\ Used(q, NULL) = Used(r, NULL)
        BY <3>1, SameLists
      <3>5. Tidy(q, NULL)
        BY <1>1, <2>3, <3>1, <3>4 DEF Tidy, OneDeadline, Overdue, InTurn, HasRoom
      <3>6. Used(q, NULL) = {}
        BY <1>1, <2>3, <3>4 DEF InWalk
      <3>7. Tidy(p, NULL) /\ p.state \in {"BIND", "LISTEN", "ERROR"}
        BY <1>2, <2>3, <2>4, <3>1, <3>3, <3>5, <3>6, BindTidy
      <3> QED
        BY <1>4, <2>3, <3>7 DEF Kept, MayFollow
    <2>5. CASE p = _trip_set_error(r, "EINVAL", u)
      <3>1. Tidy(p, NULL) /\ p.state = "ERROR"
        BY <1>1, <1>2, <2>5, SetErrorTidy DEF Tidy
      <3> QED
        BY <1>4, <2>3, <3>1 DEF Kept, MayFollow
    <2> QED
      BY <2>u, <2>4, <2>5
  <1>13. CASE ActBind \/ ActListen \/ ActClose \/ ActUnbind
    BY <1>1, <1>13 DEF ActBind, ActListen, ActClose, ActUnbind, ActionIn, InWalk
  <1>14. CASE trip_ready
    <2>1. PICK q : q = BindAnswered(r)
      OBVIOUS
    <2>2. PICK u \in UnbindAnswers :
            p = _trip_set_state(q, IF r.state = "BIND" THEN "LISTEN" ELSE "ERROR", "async", u)
      BY <1>3, <1>14, <2>1 DEF trip_ready
    <2>3. r.pkt.binds > 0 /\ phase' = "idle"
      BY <1>14 DEF trip_ready
    <2>4. Good(q, NULL) /\ Tidy(q, NULL) /\ q.state = r.state
      BY <1>1, <2>1, <2>3, AnsweredTidy
    <2>5. CASE r.state = "BIND"
      <3>1. p = EnterListen(LeaveState(q))
        BY <2>2, <2>4, <2>5 DEF _trip_set_state
      <3>2. r.pkt.binds \in Nat /\ r.pkt.binds <= 1
        BY <1>1, <2>5 DEF Tidy, InTurn, RouterType, PacketType
      <3>3. q.pkt.binds = r.pkt.binds - 1
        BY <1>1, <2>1, <2>3, BindAnsweredType
      <3>4. ~(q.pkt.binds > 0)
        BY <3>2, <3>3
      <3>5. Tidy(p, NULL) /\ p.state = "LISTEN"
        BY <2>4, <2>5, <3>1, <3>4, ListenTidy
      <3> QED
        BY <1>4, <2>3, <2>5, <3>5 DEF Kept, MayFollow
    <2>6. CASE r.state # "BIND"
      <3>1. r.state = "ERROR"
        BY <1>1, <2>3, <2>6 DEF Tidy, InTurn
      <3>2. Tidy(p, NULL) /\ p.state = "ERROR"
        BY <1>2, <2>2, <2>4, <3>1, SetStateErrorTidy DEF Good, Tidy
      <3> QED
        BY <1>4, <2>3, <3>1, <3>2 DEF Kept, MayFollow
    <2> QED
      BY <2>5, <2>6
  <1>15. CASE trip_unready
    <2>1. PICK q : q = UnbindAnswered(r)
      OBVIOUS
    <2>2. PICK u \in UnbindAnswers : \/ p = _trip_set_state(q, "END", "async", u)
                                     \/ p = _trip_set_error(q, "EPACKET", u)
      BY <1>3, <1>15, <2>1 DEF trip_unready
    <2>3. r.pkt.unbinds > 0 /\ phase' = "idle"
      BY <1>15 DEF trip_unready
    <2>4. Good(q, NULL) /\ Tidy(q, NULL) /\ q.state = r.state
      BY <1>1, <2>1, <2>3, AnsweredTidy
    <2>5. r.state \in {"UNBIND", "ERROR"}
      BY <1>1, <2>3 DEF Tidy, InTurn
    <2>6. CASE p = _trip_set_error(q, "EPACKET", u)
      <3>1. Tidy(p, NULL) /\ p.state = "ERROR"
        BY <1>2, <2>4, <2>6, SetErrorTidy DEF Good, Tidy
      <3> QED
        BY <1>4, <2>3, <2>5, <3>1 DEF Kept, MayFollow
    <2>7. CASE p = _trip_set_state(q, "END", "async", u)
      <3>1. CASE r.state = "UNBIND"
        <4>1. r.pkt.unbinds \in Nat /\ r.pkt.unbinds <= 1
          BY <1>1, <3>1 DEF Tidy, InTurn, RouterType, PacketType
        <4>2. q.pkt.unbinds = r.pkt.unbinds - 1
          BY <1>1, <2>1, <2>3, UnbindAnsweredType
        <4>3. ~(q.pkt.unbinds > 0)
          BY <4>1, <4>2
        <4>4. Tidy(p, NULL) /\ p.state = "END"
          BY <2>4, <2>7, <3>1, <4>3, EndTidy
        <4> QED
          BY <1>4, <2>3, <3>1, <4>4 DEF Kept, MayFollow
      <3>2. CASE r.state = "ERROR"
        <4>1. Tidy(p, NULL) /\ p.state = "ERROR"
          BY <1>2, <2>4, <2>7, <3>2, SetStateErrorTidy DEF Good, Tidy
        <4> QED
          BY <1>4, <2>3, <3>2, <4>1 DEF Kept, MayFollow
      <3> QED
        BY <2>5, <3>1, <3>2
    <2> QED
      BY <2>2, <2>6, <2>7
  <1>16. CASE trip_error
    <2>1. PICK u \in UnbindAnswers :
            \/ r.pkt.binds > 0 /\ p = _trip_set_error(BindAnswered(r), "EPACKET", u)
            \/ r.pkt.held /\ p = _trip_set_error(r, "EPACKET", u)
      BY <1>3, <1>16 DEF trip_error
    <2>2. phase' = "idle"
      BY <1>16 DEF trip_error
    <2>3. CASE r.pkt.binds > 0 /\ p = _trip_set_error(BindAnswered(r), "EPACKET", u)
      <3>1. PICK q : q = BindAnswered(r)
        OBVIOUS
      <3>2. Good(q, NULL) /\ Tidy(q, NULL)
        BY <1>1, <2>3, <3>1, AnsweredTidy
      <3>3. Tidy(p, NULL) /\ p.state = "ERROR"
        BY <1>2, <2>3, <3>1, <3>2, SetErrorTidy DEF Good, Tidy
      <3>4. r.state \in {"BIND", "ERROR"}
        BY <1>1, <2>3 DEF Tidy, InTurn
      <3> QED
        BY <1>4, <2>2, <3>3, <3>4 DEF Kept, MayFollow
    <2>4. CASE r.pkt.held /\ p = _trip_set_error(r, "EPACKET", u)
      <3>1. Tidy(p, NULL) /\ p.state = "ERROR"
        BY <1>1, <1>2, <2>4, SetErrorTidy DEF Tidy
      <3>2. r.state # "END"
        BY <1>1, <2>4 DEF Tidy, InTurn, Good, WillUnbind
      <3> QED
        BY <1>4, <2>2, <3>1, <3>2 DEF Kept, MayFollow
    <2> QED
      BY <2>1, <2>3, <2>4
  <1>17. CASE Tick
    <2>1. PICK w : w = [t \in Timers |->
                          [r.wheel[t] EXCEPT !.left = CountDown(r.wheel[t].left, 0)]]
      OBVIOUS
    <2>2. \A t \in Timers : /\ w[t].cb = r.wheel[t].cb /\ w[t].canceled = r.wheel[t].canceled
                            /\ r.wheel[t].left = 0 => w[t].left = 0
      BY <1>1, <2>1 DEF RouterType, Entry, CountDown
    <2>3. /\ p.wheel = w /\ p.state = r.state /\ p.pkt = r.pkt /\ p.statetimer = r.statetimer
          /\ phase' = phase /\ walk' = walk
      BY <1>1, <1>3, <1>17, <2>1 DEF Tick, RouterType
    <2>4. \A x : /\ x \in Rest(p, NULL) <=> x \in Rest(r, NULL)
                 /\ x \in Stops(p, NULL) <=> x \in Stops(r, NULL)
                 /\ x \in Used(p, NULL) <=> x \in Used(r, NULL)
      BY <2>2, <2>3, EntryLists
    <2>5. /\ Rest(p, NULL) = Rest(r, NULL) /\ Stops(p, NULL) = Stops(r, NULL)
          /\ Used(p, NULL) = Used(r, NULL)
      BY <2>4
    <2>6. Overdue(r, NULL) => Overdue(p, NULL)
      <3> SUFFICES ASSUME Overdue(r, NULL), NEW x \in Rest(p, NULL)
                   PROVE  p.wheel[x].left = 0 /\ ~AnswersLater
        BY DEF Overdue
      <3>1. x \in Timers /\ x \in Rest(r, NULL)
        BY <2>5, EntryLists
      <3> QED
        BY <2>2, <2>3, <3>1 DEF Overdue
    <2>7. InTurn(r) => InTurn(p)
      BY <2>3 DEF InTurn
    <2>8. Tidy(p, NULL)
      BY <1>1, <2>3, <2>5, <2>6, <2>7 DEF Tidy, OneDeadline, HasRoom
    <2>9. phase' = "action" => InWalk(p, walk')
      BY <1>1, <2>3, <2>5 DEF InWalk
    <2> QED
      BY <1>3, <2>3, <2>8, <2>9 DEF OrderlyStep, Kept, MayFollow
  <1>18. CASE UNCHANGED vars
    BY <1>1, <1>18 DEF vars, OrderlyStep, Kept, MayFollow
  <1> QED
    BY <1>5, <1>6, <1>7, <1>8, <1>9, <1>10, <1>11, <1>12, <1>13, <1>14, <1>15, <1>16, <1>17, <1>18
    DEF Next, Application, Driver, Walk, Packet

\* The invariant holds of every orderly behaviour.
LEMMA AlwaysOrderly == Orderly => (Spec => []OrderlyInv)
  <1> SUFFICES ASSUME Orderly PROVE Spec => []OrderlyInv
    OBVIOUS
  <1>1. OrderlyInv /\ [Next]_vars => OrderlyInv'
    <2> SUFFICES ASSUME OrderlyInv, [Next]_vars PROVE OrderlyInv'
      OBVIOUS
    <2>1. IInv'
      BY NextIInv DEF OrderlyInv
    <2>2. OrderlyStep
      BY OrderlyNext
    <2> QED
      BY <2>1, <2>2 DEF OrderlyInv, OrderlyStep, Kept
  <1> QED
    BY InitOrderly, <1>1, PTL DEF Spec

\* With memory for three entries the deadline of a state runs exactly as long as
\* the state does, however many times the router is started, stopped and fails,
\* and whatever entries it has canceled on the way (trip.c:153-179).  An unbind()
\* answered inside the call leaves a deadline in END, due at once (trip.c:849-850).
THEOREM DeadlineFits == Orderly /\ Roomy => (Spec => []DeadlineFitsState)
  <1> SUFFICES ASSUME Orderly, Roomy PROVE Spec => []DeadlineFitsState
    OBVIOUS
  <1>1. OrderlyInv => DeadlineFitsState
    <2> SUFFICES ASSUME OrderlyInv PROVE DeadlineFitsState
      OBVIOUS
    <2>1. Tidy(r, NULL) /\ HasRoom(r, NULL) /\ Live(r)
      BY DEF OrderlyInv, IInv, Good, Sound, Tidy, HasRoom
    <2>2. Pending(r, "state") = Rest(r, NULL)
      BY NoOneRuns
    <2>3. r.state \in {"START", "END"} /\ AnswersLater => Rest(r, NULL) = {}
      BY <2>1 DEF Tidy, Overdue
    <2> QED
      BY <2>1, <2>2, <2>3 DEF Tidy, OneDeadline, HasRoom, Live, DeadlineFitsState
  <1> QED
    BY AlwaysOrderly, <1>1, PTL

\* The router goes through its states as the comments of trip_action say, with
\* or without memory for its timers, for any answer to bind() and unbind() and any
\* error of the packet interface (trip.c:1360-1458).  What END may lead to depends
\* on when unbind() is answered: the states after it are START and, if the interface
\* may answer inside the call, ERROR (trip.c:850).
THEOREM StatesFollow == Orderly => (Spec => Lifecycle)
  <1> SUFFICES ASSUME Orderly PROVE Spec => Lifecycle
    OBVIOUS
  <1>1. OrderlyInv /\ [Next]_vars =>
          [r'.state # r.state =>
             <<r.state, r'.state>> \in
               {<<"START", "BIND">>, <<"START", "LISTEN">>, <<"BIND", "LISTEN">>,
                <<"LISTEN", "CLOSE">>, <<"CLOSE", "UNBIND">>, <<"CLOSE", "END">>,
                <<"UNBIND", "END">>, <<"END", "START">>}
               \cup ((States \ (IF AnswersLater THEN {"END"} ELSE {})) \X {"ERROR"})]_vars
    <2> SUFFICES ASSUME OrderlyInv, [Next]_vars, r'.state # r.state
                 PROVE  <<r.state, r'.state>> \in
                          {<<"START", "BIND">>, <<"START", "LISTEN">>, <<"BIND", "LISTEN">>,
                           <<"LISTEN", "CLOSE">>, <<"CLOSE", "UNBIND">>, <<"CLOSE", "END">>,
                           <<"UNBIND", "END">>, <<"END", "START">>}
                          \cup ((States \ (IF AnswersLater THEN {"END"} ELSE {})) \X {"ERROR"})
      OBVIOUS
    <2>1. PICK s, n : s = r.state /\ n = r'.state
      OBVIOUS
    <2>2. MayFollow(s, n) /\ n # s
      BY <2>1, OrderlyNext DEF OrderlyStep, Kept
    <2>3. s \in States
      BY <2>1 DEF OrderlyInv, IInv, TypeOK, RouterType
    <2> QED
      BY <2>1, <2>2, <2>3 DEF MayFollow
  <1> QED
    BY AlwaysOrderly, <1>1, PTL DEF Spec, Lifecycle
=============================================================================
