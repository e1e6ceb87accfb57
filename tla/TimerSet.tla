------------------------------ MODULE TimerSet ------------------------------
(***************************************************************************)
(* What a timer service promises: a timer that was set is called once, not  *)
(* before its deadline, and not after it was canceled.  A canceled timer's  *)
(* handle stays taken until the service drops it.                          *)
(***************************************************************************)
EXTENDS Integers

CONSTANTS
  Ids,     \* handles
  NULL,    \* no handle
  Delays   \* what timers are set for

VARIABLES
  now,       \* the clock
  status,    \* each handle is free, set or canceled
  deadline,  \* when a set timer is due
  called     \* the timer whose callback is running, or NULL

vars == <<now, status, deadline, called>>

Init ==
  /\ now \in Nat
  /\ status = [i \in Ids |-> "free"]
  /\ deadline \in [Ids -> Nat]
  /\ called = NULL

\* Timers may be set and canceled by callbacks, also the one that is running.
Set(i, ms) ==
  /\ status[i] = "free"
  /\ called # i
  /\ status' = [status EXCEPT ![i] = "set"]
  /\ deadline' = [deadline EXCEPT ![i] = now + ms]
  /\ UNCHANGED <<now, called>>

Cancel(i) ==
  /\ status[i] = "set"
  /\ status' = [status EXCEPT ![i] = "canceled"]
  /\ UNCHANGED <<now, deadline, called>>

Drop(i) ==
  /\ status[i] = "canceled"
  /\ status' = [status EXCEPT ![i] = "free"]
  /\ UNCHANGED <<now, deadline, called>>

Call(i) ==
  /\ called = NULL
  /\ status[i] = "set"
  /\ now >= deadline[i]
  /\ called' = i
  /\ status' = [status EXCEPT ![i] = "free"]
  /\ UNCHANGED <<now, deadline>>

Return ==
  /\ called # NULL
  /\ called' = NULL
  /\ UNCHANGED <<now, status, deadline>>

Tick == now' = now + 1 /\ UNCHANGED <<status, deadline, called>>

Next ==
  \/ \E i \in Ids : Cancel(i) \/ Drop(i) \/ Call(i) \/ \E ms \in Delays : Set(i, ms)
  \/ Return
  \/ Tick

Spec == Init /\ [][Next]_vars
=============================================================================
