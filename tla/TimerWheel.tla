----------------------------- MODULE TimerWheel -----------------------------
(***************************************************************************)
(* The timer wheel of libtrp (src/src/timerwheel.c), the deadline the       *)
(* router keeps beside it (trip_timeout and _trip_set_timeout of trip.c)    *)
(* and the poll loop that sleeps by it (src/src/trip_poll.c).              *)
(*                                                                         *)
(* The wheel is a linked list, entries are added at its head, and a walk    *)
(* runs callbacks while it stands in the middle of the list: a callback     *)
(* adds and cancels entries of the list being walked.  Here the list is the *)
(* sequence of its entries from the head, and at is the place of the link   *)
(* the walk's `prev' points to.                                            *)
(***************************************************************************)
EXTENDS Integers, Sequences, SequencesExt

CONSTANTS
  Ids,         \* addresses an entry can be allocated at
  NULL,        \* the null pointer
  Delays,      \* milliseconds timers are set for
  RunTimeouts, \* timeouts trip_run is called with; negative is indefinite
  MaxTimeout,  \* _TRIPR_MAX_TIMEOUT
  MaxTime,     \* bound: the clock stops here
  END          \* TRIPTIME_END, later than every deadline

ASSUME NullIsNoId == NULL \notin Ids

ASSUME DelaysAreMs == Delays \subseteq Nat /\ RunTimeouts \subseteq Int

ASSUME TimesAreMs == {MaxTimeout, MaxTime, END} \subseteq Nat

ASSUME EndIsLast == MaxTime < END /\ \A ms \in Delays : MaxTime + ms < END

VARIABLES
  now,          \* triptime_now()
  list,         \* the entries linked from tw->head
  entry,        \* each entry's deadline and canceled mark
  walk,         \* the walk under way: see NoWalk
  mindeadline,  \* r->mindeadline
  poll,         \* w->deadline, when the poll loop means to wake
  run           \* trip_run: what it is doing, when it wakes, its own deadline

vars == <<now, list, entry, walk, mindeadline, poll, run>>

\* at: the position of curr; now: the time the walk began; cb: the entry whose
\* callback runs; min: the nearest entry kept so far; old: the entries it found
\* linked when it began and has not resolved (of the model, not of the code).
NoWalk == [at |-> 1, now |-> 0, cb |-> NULL, min |-> NULL, old |-> {}]

Outside == [at |-> "out", wake |-> 0, deadline |-> 0]

Linked == {list[k] : k \in 1..Len(list)}

Live == {i \in Linked : ~entry[i].canceled}

Minimum(a, b) == IF a <= b THEN a ELSE b

Init ==
  /\ now = 0
  /\ list = <<>>
  /\ entry = [i \in Ids |-> [deadline |-> 0, canceled |-> FALSE]]
  /\ walk = NoWalk
  /\ mindeadline = END
  /\ poll = 0
  /\ run = Outside

-----------------------------------------------------------------------------
(* What user code may do: outside trip_run, in the handler of a descriptor, *)
(* or in a callback of the walk.                                           *)

\* Adds at the head.  A walk whose prev is the head link sees the new entry
\* ("Value inserted."); any other stands one place further from the head.
timerwheel_add(i, ms) ==
  /\ entry' = [entry EXCEPT ![i] = [deadline |-> now + ms, canceled |-> FALSE]]
  /\ list' = <<i>> \o list
  /\ walk' = [walk EXCEPT !.at = IF @ > 1 THEN @ + 1 ELSE 1]

\* The user is told of an entry nearer than the nearest of the last walk.
_trip_set_timeout(ms) ==
  /\ \E i \in Ids \ (Linked \cup {walk.cb}) : timerwheel_add(i, ms)
  /\ poll' = IF now + ms < mindeadline THEN now + ms ELSE poll
  /\ UNCHANGED <<now, mindeadline>>

timerwheel_cancel(i) ==
  /\ i \in Live
  /\ entry' = [entry EXCEPT ![i].canceled = TRUE]
  /\ UNCHANGED <<now, list, walk, mindeadline, poll>>

UserCode ==
  /\ run.at \in {"out", "handler"} \/ walk.cb # NULL
  /\ \/ \E ms \in Delays : _trip_set_timeout(ms)
     \/ \E i \in Ids : timerwheel_cancel(i)
  /\ UNCHANGED run

-----------------------------------------------------------------------------
(* timerwheel_walk_with.                                                   *)

Curr == list[walk.at]

\* The walk stands at an entry, and has returned from the last callback.
AtEntry ==
  /\ run.at = "walk"
  /\ walk.cb = NULL
  /\ walk.at <= Len(list)

\* Mutant: an entry due just now is left for a later walk.
Resolves_Late(i) == walk.now > entry[i].deadline \/ entry[i].canceled

Resolves(i) == walk.now >= entry[i].deadline \/ entry[i].canceled

\* Mutant: a canceled entry's callback is called.
WalkResolve_CallsCanceled ==
  /\ AtEntry
  /\ Resolves(Curr)
  /\ list' = RemoveAt(list, walk.at)
  /\ walk' = [walk EXCEPT !.cb = Curr, !.old = @ \ {Curr}]
  /\ UNCHANGED <<now, entry, mindeadline, poll, run>>

\* Mutant: the walk goes past the entry after the one it has unlinked.
WalkResolve_SkipsNext ==
  /\ AtEntry
  /\ Resolves(Curr)
  /\ list' = RemoveAt(list, walk.at)
  /\ walk' = [walk EXCEPT !.cb = IF entry[Curr].canceled THEN NULL ELSE Curr,
                          !.old = @ \ {Curr},
                          !.at = @ + 1]
  /\ UNCHANGED <<now, entry, mindeadline, poll, run>>

\* curr is unlinked; unless it was canceled, its callback is entered.
WalkResolve ==
  /\ AtEntry
  /\ Resolves(Curr)
  /\ list' = RemoveAt(list, walk.at)
  /\ walk' = [walk EXCEPT !.cb = IF entry[Curr].canceled THEN NULL ELSE Curr,
                          !.old = @ \ {Curr}]
  /\ UNCHANGED <<now, entry, mindeadline, poll, run>>

\* The callback returns, its entry is freed, and the walk goes on at its link.
CallbackReturns ==
  /\ walk.cb # NULL
  /\ walk' = [walk EXCEPT !.cb = NULL]
  /\ UNCHANGED <<now, list, entry, mindeadline, poll, run>>

\* Mutant: the first entry that is kept stays the minimum.
WalkKeep_FirstMin ==
  /\ AtEntry
  /\ ~Resolves(Curr)
  /\ walk' = [walk EXCEPT !.at = @ + 1, !.min = IF @ = NULL THEN Curr ELSE @]
  /\ UNCHANGED <<now, list, entry, mindeadline, poll, run>>

\* "See if minimal."
WalkKeep ==
  /\ AtEntry
  /\ ~Resolves(Curr)
  /\ walk' = [walk EXCEPT
                !.at = @ + 1,
                !.min = IF @ = NULL \/ entry[Curr].deadline < entry[@].deadline
                          THEN Curr ELSE @]
  /\ UNCHANGED <<now, list, entry, mindeadline, poll, run>>

-----------------------------------------------------------------------------
(* trip_run and trip_timeout.                                              *)

\* How long epoll_wait may sleep when w->deadline is p.
next_timeout(p, deadline) ==
  LET nearest == Minimum(p, deadline)
  IN  IF nearest <= now THEN 0 ELSE Minimum(nearest - now, MaxTimeout)

\* epoll_wait is called.  next_timeout forgets a deadline of w that has passed.
Sleep(p, deadline) ==
  /\ run' = [at       |-> "sleep",
             wake     |-> now + next_timeout(p, deadline),
             deadline |-> deadline]
  /\ poll' = IF p <= deadline /\ p <= now THEN END ELSE p

\* "Update time.": the loop returns at the caller's deadline.
SleepOrReturn(p) ==
  IF now >= run.deadline /\ run.deadline # END
    THEN run' = Outside /\ poll' = p
    ELSE Sleep(p, run.deadline)

trip_run ==
  /\ run.at = "out"
  /\ \E t \in RunTimeouts : Sleep(poll, IF t < 0 THEN END ELSE now + t)
  /\ UNCHANGED <<now, list, entry, walk, mindeadline>>

\* A descriptor is ready before the timeout: trip_action, which walks nothing.
trip_action ==
  /\ run.at = "sleep"
  /\ run' = [run EXCEPT !.at = "handler"]
  /\ UNCHANGED <<now, list, entry, walk, mindeadline, poll>>

trip_action_returns ==
  /\ run.at = "handler"
  /\ SleepOrReturn(poll)
  /\ UNCHANGED <<now, list, entry, walk, mindeadline>>

\* epoll_wait returns no event: trip_timeout begins its walk.
trip_timeout ==
  /\ run.at = "sleep"
  /\ now >= run.wake
  /\ walk' = [NoWalk EXCEPT !.now = now, !.old = Linked]
  /\ run' = [run EXCEPT !.at = "walk"]
  /\ UNCHANGED <<now, list, entry, mindeadline, poll>>

\* The user is told the time to the nearest entry the walk has kept.
trip_timeout_returns ==
  /\ run.at = "walk"
  /\ walk.cb = NULL
  /\ walk.at > Len(list)
  /\ walk' = NoWalk
  /\ mindeadline' = IF walk.min = NULL THEN END ELSE entry[walk.min].deadline
  /\ SleepOrReturn(now + Minimum(mindeadline' - walk.now, MaxTimeout))
  /\ UNCHANGED <<now, list, entry>>

\* The clock does not pass the time epoll_wait was told to wake at.
Tick ==
  /\ now < MaxTime
  /\ run.at = "sleep" => now < run.wake
  /\ now' = now + 1
  /\ UNCHANGED <<list, entry, walk, mindeadline, poll, run>>

Next ==
  \/ UserCode
  \/ WalkResolve \/ CallbackReturns \/ WalkKeep
  \/ trip_run \/ trip_action \/ trip_action_returns
  \/ trip_timeout \/ trip_timeout_returns
  \/ Tick

Spec == Init /\ [][Next]_vars

-----------------------------------------------------------------------------
(* Correctness.                                                            *)

Times == 0..END

\* Values of the right type, and a list without an entry linked twice.
TypeOK ==
  /\ now \in 0..MaxTime
  /\ list \in Seq(Ids)
  /\ IsInjective(list)
  /\ entry \in [Ids -> [deadline : Times, canceled : BOOLEAN]]
  /\ walk.at \in 1..(Len(list) + 1)
  /\ walk.cb \in (Ids \ Linked) \cup {NULL}
  /\ walk.min \in Linked \cup {NULL}
  /\ mindeadline \in Times
  /\ poll \in Nat
  /\ run.at \in {"out", "sleep", "handler", "walk"}

\* Each timer is called once, at or after its deadline, never after it was
\* canceled, and none is lost, while callbacks add to and cancel entries of the
\* list being walked (timerwheel.c:44-120).
AsSet == INSTANCE TimerSet
           WITH status   <- [i \in Ids |-> IF i \notin Linked THEN "free"
                                           ELSE IF entry[i].canceled THEN "canceled"
                                           ELSE "set"],
                deadline <- [i \in Ids |-> entry[i].deadline],
                called   <- walk.cb

ImplementsTimerSet == AsSet!Spec

\* A walk resolves every entry that was due or canceled when it began, whatever
\* its callbacks do to the list around it.
WalkResolvesAllDue ==
  [][trip_timeout_returns =>
       \A i \in walk.old : entry[i].deadline > walk.now]_vars

\* After a walk r->mindeadline is no later than any entry the walk found.
MinIsNearest ==
  [][trip_timeout_returns =>
       \A i \in walk.old : mindeadline' <= entry[i].deadline]_vars

\* "The framework should always be giving the nearest timeout." (trip_poll.c:154)
NearestTimeout ==
  run.at = "sleep" => \A i \in Live : run.wake <= entry[i].deadline
=============================================================================
