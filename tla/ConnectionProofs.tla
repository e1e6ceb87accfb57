-------------------------- MODULE ConnectionProofs --------------------------
(***************************************************************************)
(* Proofs about the connections of a router, for any number of connections, *)
(* timers, keys and resends, as long as the router is not stopped while it  *)
(* has connections (StopBusy, see the README).  One inductive invariant,    *)
(* IInv, says what each entry of the wheel knows of the connection it will  *)
(* call; the properties of module Connection follow from it.               *)
(***************************************************************************)
EXTENDS Connection, ProofFacts, FiniteSetTheorems, TLAPS

Set(t) == wheel[t] # Unset

\* A connection that the application has opened and that still exists.
Opened(c) == c \in alive /\ ~conn[c].incoming

\* What an entry t that calls c back with cb tells of c's fields, q.
FitsAs(t, cb, c, q, requests, keys) ==
  /\ cb = "open" =>
       /\ q.state = "START" /\ q.timer = NULL /\ ~q.hassend
       /\ q.key \in Keys /\ requests[q.key] = c /\ q.key \notin keys
  /\ cb = "resolve" =>
       /\ q.state \in {"RESOLVE", "ERROR"} /\ q.timer = t /\ ~q.hassend
       /\ q.key \in Keys /\ requests[q.key] = c
  /\ cb \in {"resolved", "unresolved"} =>
       q.state \in {"RESOLVE", "ERROR"} /\ q.timer = NULL /\ ~q.hassend
  /\ cb = "resend" =>
       q.state \in {"OPEN", "PING"} /\ q.timer = t

Fits(t) == FitsAs(t, wheel[t].cb, wheel[t].c, conn[wheel[t].c], request, asked)

EntriesFit == \A t \in Timers : Set(t) => Opened(wheel[t].c) /\ Fits(t)

EntriesAreOne ==
  \A s, t \in Timers : Set(s) /\ Set(t) /\ wheel[s].c = wheel[t].c => s = t

AllAreCalled == \A c \in alive : Opened(c) => \E t \in Timers : wheel[t].c = c

\* A connection that a peer has opened has no timer (conn.c:1102).
IncomingRest ==
  \A c \in alive : conn[c].incoming => conn[c].state = "CHAL" /\ conn[c].timer = NULL

\* As one entry goes before or when the next is made, one address stays unused.
OneIsUnused == (\E t \in Timers : Set(t)) => Unused # {}

\* Whoever the packet interface has a key of is waiting for it, or has gone.
AskedAreRight ==
  \A k \in asked : request[k] # "gone" =>
    /\ Opened(request[k])
    /\ conn[request[k]].key = k
    /\ \E t \in Timers : wheel[t] = [cb |-> "resolve", c |-> request[k]]

WheelInv ==
  EntriesFit /\ EntriesAreOne /\ AllAreCalled /\ IncomingRest /\ OneIsUnused /\ AskedAreRight

\* Nobody is in the send queue twice.
QueueIsOnce ==
  /\ queue \in Seq(Conns)
  /\ \A i, j \in 1..Len(queue) : queue[i] = queue[j] => i = j

\* Nobody is both in the queue and out of its reach.
QueueFit ==
  /\ QueueIsOnce
  /\ lost \subseteq Conns
  /\ lost \cap SendQueue!Waiting = {}
  /\ adrift \in BOOLEAN

SendInv == QueueFit /\ SendersAreFit /\ MarkedIsQueued

IInv == TypeOK /\ mapped = alive /\ WheelInv /\ SendInv

-----------------------------------------------------------------------------
(* The send queue, as SendFifo promises it.                                *)

LEMMA AskQueues ==
  ASSUME QueueIsOnce, NEW c \in Conns, SendQueue!Ask(c)
  PROVE  QueueIsOnce' /\ SendQueue!Waiting' = SendQueue!Waiting \cup {c}
  <1>1. /\ c \notin {queue[k] : k \in 1..Len(queue)}
        /\ queue' = Append(queue, c)
    BY DEF SendQueue!Ask, SendQueue!Waiting
  <1>2. queue' \in Seq(Conns) /\ Len(queue') = Len(queue) + 1
    BY <1>1 DEF QueueIsOnce
  <1>3. /\ \A i \in 1..Len(queue) : queue'[i] = queue[i]
        /\ queue'[Len(queue) + 1] = c
    BY <1>1 DEF QueueIsOnce
  <1> QED
    BY <1>1, <1>2, <1>3 DEF QueueIsOnce, SendQueue!Waiting

LEMMA TurnUnqueues ==
  ASSUME QueueIsOnce, SendQueue!Turn
  PROVE  /\ QueueIsOnce'
         /\ Head(queue) \in SendQueue!Waiting
         /\ SendQueue!Waiting' = SendQueue!Waiting \ {Head(queue)}
  <1>1. queue \in Seq(Conns) /\ queue # <<>> /\ queue' = Tail(queue)
    BY DEF SendQueue!Turn, QueueIsOnce
  <1>2. /\ queue' \in Seq(Conns) /\ Len(queue') = Len(queue) - 1
        /\ \A i \in 1..Len(queue') : queue'[i] = queue[i + 1]
        /\ Len(queue) \in Nat \ {0} /\ Head(queue) = queue[1]
    BY <1>1
  <1>3. QueueIsOnce'
    BY <1>2 DEF QueueIsOnce
  <1>4. \A i \in 1..Len(queue) : i = 1 \/ (i - 1 \in 1..Len(queue') /\ queue[i] = queue'[i - 1])
    BY <1>2
  <1> QED
    BY <1>2, <1>3, <1>4 DEF QueueIsOnce, SendQueue!Waiting

LEMMA LeaveUnqueues ==
  ASSUME QueueIsOnce, NEW c \in Conns, SendQueue!Leave(c)
  PROVE  QueueIsOnce' /\ SendQueue!Waiting' = SendQueue!Waiting \ {c}
  <1>1. PICK k \in 1..Len(queue) :
          queue[k] = c /\ queue' = SubSeq(queue, 1, k - 1) \o SubSeq(queue, k + 1, Len(queue))
    BY DEF SendQueue!Leave, SendQueue!RemoveAt
  <1>2. queue \in Seq(Conns) /\ Len(queue) \in Nat /\ k \in Nat /\ k >= 1 /\ k <= Len(queue)
    BY DEF QueueIsOnce
  <1>3. /\ queue' \in Seq(Conns) /\ Len(queue') = Len(queue) - 1
        /\ \A i \in 1..Len(queue') : queue'[i] = IF i < k THEN queue[i] ELSE queue[i + 1]
    <2> DEFINE t == SubSeq(queue, 1, k - 1) \o SubSeq(queue, k + 1, Len(queue))
    <2>1. /\ t \in Seq(Conns) /\ Len(t) = Len(queue) - 1
          /\ \A i \in 1..Len(t) : t[i] = IF i < k THEN queue[i] ELSE queue[i + 1]
      BY <1>2, Removal, Zenon
    <2> QED
      BY <1>1, <2>1, Zenon
  <1>4. queue[k] = c
    BY <1>1
  <1>5. QueueIsOnce'
    BY <1>2, <1>3 DEF QueueIsOnce
  <1>6. \A i \in 1..Len(queue) : i # k => queue[i] # c
    BY <1>4 DEF QueueIsOnce
  <1>7. \A i \in 1..Len(queue) : i # k =>
          \E j \in 1..Len(queue') : queue'[j] = queue[i]
    <2> SUFFICES ASSUME NEW i \in 1..Len(queue), i # k
                 PROVE  \E j \in 1..Len(queue') : queue'[j] = queue[i]
      OBVIOUS
    <2>1. CASE i < k
      <3>1. i \in 1..Len(queue') /\ queue'[i] = queue[i]
        BY <1>2, <1>3, <2>1
      <3> QED
        BY <3>1
    <2>2. CASE i > k
      <3>1. i - 1 \in 1..Len(queue') /\ queue'[i - 1] = queue[i]
        BY <1>2, <1>3, <2>2
      <3> QED
        BY <3>1
    <2> QED
      BY <1>2, <2>1, <2>2
  <1>8. \A j \in 1..Len(queue') : \E i \in 1..Len(queue) : i # k /\ queue'[j] = queue[i]
    <2> SUFFICES ASSUME NEW j \in 1..Len(queue')
                 PROVE  \E i \in 1..Len(queue) : i # k /\ queue'[j] = queue[i]
      OBVIOUS
    <2>1. CASE j < k
      <3>1. j \in 1..Len(queue) /\ j # k /\ queue'[j] = queue[j]
        BY <1>2, <1>3, <2>1
      <3> QED
        BY <3>1
    <2>2. CASE j >= k
      <3>1. j + 1 \in 1..Len(queue) /\ j + 1 # k /\ queue'[j] = queue[j + 1]
        BY <1>2, <1>3, <2>2
      <3> QED
        BY <3>1
    <2> QED
      BY <1>2, <1>3, <2>1, <2>2
  <1>9. \A x : x \in SendQueue!Waiting' <=> x \in SendQueue!Waiting /\ x # c
    <2>1. \A x : x \in SendQueue!Waiting <=> \E i \in 1..Len(queue) : queue[i] = x
      BY DEF SendQueue!Waiting
    <2>2. \A x : x \in SendQueue!Waiting' <=> \E j \in 1..Len(queue') : queue'[j] = x
      BY DEF SendQueue!Waiting
    <2>3. ASSUME NEW i \in 1..Len(queue), queue[i] # c
          PROVE  \E j \in 1..Len(queue') : queue'[j] = queue[i]
      BY <1>4, <1>7, <2>3, Zenon
    <2>4. ASSUME NEW j \in 1..Len(queue')
          PROVE  \E i \in 1..Len(queue) : queue[i] = queue'[j] /\ queue'[j] # c
      BY <1>6, <1>8, Zenon
    <2> QED
      BY <2>1, <2>2, <2>3, <2>4, Zenon
  <1> QED
    BY <1>5, <1>9

\* Who is marked is a connection.
LEMMA QueueFitIsTyped ==
  ASSUME QueueFit
  PROVE  Insend \subseteq Conns /\ adrift \in BOOLEAN
  BY DEF QueueFit, QueueIsOnce, Insend, SendQueue!Waiting

\* Nothing happens to the queue.
LEMMA QueueStays ==
  ASSUME QueueFit, UNCHANGED sendq
  PROVE  QueueFit' /\ Insend' = Insend /\ adrift' = adrift
  BY DEF QueueFit, QueueIsOnce, Insend, SendQueue!Waiting, sendq

\* A connection that is marked is queued or linked behind one that is adrift,
\* whether or not it was before.
LEMMA SetSendQueues ==
  ASSUME QueueFit, NEW c \in Conns, _tripc_set_send(c)
  PROVE  QueueFit' /\ Insend' = Insend \cup {c}
  <1>1. CASE c \in Insend /\ UNCHANGED sendq
    BY <1>1, QueueStays
  <1>2. CASE c \notin Insend /\ SendQueue!Ask(c) /\ UNCHANGED <<adrift, lost>>
    <2>1. QueueIsOnce' /\ SendQueue!Waiting' = SendQueue!Waiting \cup {c}
      BY <1>2, AskQueues DEF QueueFit
    <2> QED
      BY <1>2, <2>1 DEF QueueFit, Insend
  <1>3. CASE c \notin Insend /\ lost' = lost \cup {c} /\ UNCHANGED <<queue, adrift>>
    <2>1. QueueIsOnce' /\ SendQueue!Waiting' = SendQueue!Waiting
      BY <1>3 DEF QueueFit, QueueIsOnce, SendQueue!Waiting
    <2> QED
      BY <1>3, <2>1 DEF QueueFit, Insend
  <1> QED
    BY <1>1, <1>2, <1>3 DEF _tripc_set_send, sendq_nq

\* One that is freed is marked no more.
LEMMA UnqueueUnqueues ==
  ASSUME QueueFit, NEW c \in Conns, sendq_del(c)
  PROVE  QueueFit' /\ Insend' = Insend \ {c}
  <1>1. CASE c \notin Insend /\ UNCHANGED sendq
    BY <1>1, QueueStays
  <1>2. CASE c \in lost /\ lost' = lost \ {c} /\ UNCHANGED <<queue, adrift>>
    <2>1. QueueIsOnce' /\ SendQueue!Waiting' = SendQueue!Waiting
      BY <1>2 DEF QueueFit, QueueIsOnce, SendQueue!Waiting
    <2> QED
      BY <1>2, <2>1 DEF QueueFit, Insend
  <1>3. CASE /\ SendQueue!Leave(c) /\ UNCHANGED lost
             /\ adrift' = (adrift \/ c = queue[Len(queue)])
    <2>1. QueueIsOnce' /\ SendQueue!Waiting' = SendQueue!Waiting \ {c}
      BY <1>3, LeaveUnqueues DEF QueueFit
    <2>2. c \in SendQueue!Waiting
      BY <1>3 DEF SendQueue!Leave, SendQueue!Waiting
    <2> QED
      BY <1>3, <2>1, <2>2 DEF QueueFit, Insend
  <1> QED
    BY <1>1, <1>2, <1>3 DEF sendq_del

\* The one at the head has its turn, and the mark is taken off.
LEMMA DequeueUnqueues ==
  ASSUME QueueFit, sendq_dq
  PROVE  /\ QueueFit' /\ Head(queue) \in Insend
         /\ Insend' = Insend \ {Head(queue)}
  <1>1. SendQueue!Turn /\ lost' = lost /\ adrift' \in BOOLEAN
    BY DEF sendq_dq
  <1>2. /\ QueueIsOnce' /\ Head(queue) \in SendQueue!Waiting
        /\ SendQueue!Waiting' = SendQueue!Waiting \ {Head(queue)}
    BY <1>1, TurnUnqueues DEF QueueFit
  <1> QED
    BY <1>1, <1>2 DEF QueueFit, Insend

-----------------------------------------------------------------------------
(* The wheel and the connections it calls.                                 *)

LEMMA NewTimerIsUnused == Unused # {} => NewTimer \in Unused
  BY DEF NewTimer

\* An entry that is set calls a connection, and one that calls one is set.
LEMMA SetCalls ==
  ASSUME TypeOK, NEW t \in Timers
  PROVE  /\ Set(t) <=> wheel[t].c \in Conns
         /\ Set(t) => wheel[t] \in [cb : Callbacks, c : Conns]
         /\ ~Set(t) => wheel[t].c = NULL
  <1>1. wheel[t] \in [cb : Callbacks, c : Conns] \cup {Unset}
    BY DEF TypeOK
  <1>2. NULL \notin Conns
    BY NullIsNoAddress
  <1> QED
    BY <1>1, <1>2 DEF Set, Unset

\* The keys to be answered are older ones of others than c, or one under which c,
\* with the fields q, waits with cb to come.
KeysLead(cb, c, q, requests, keys) ==
  \A k \in keys :
    \/ k \in asked /\ requests[k] = request[k] /\ request[k] # c
    \/ cb = "resolve" /\ requests[k] = c /\ q.key = k

\* c's entry t gives way to another, n, which fits what c is then.  Requests of
\* other connections stay as they are.
LEMMA MoveIsRight ==
  ASSUME TypeOK, WheelInv,
         NEW c \in Conns, NEW t \in Timers, NEW n \in Unused,
         NEW cb \in Callbacks, NEW q \in ConnType,
         Set(t), wheel[t].c = c,
         wheel' = [[wheel EXCEPT ![t] = Unset] EXCEPT ![n] = [cb |-> cb, c |-> c]],
         conn' = [conn EXCEPT ![c] = q],
         alive' = alive,
         ~q.incoming,
         FitsAs(n, cb, c, q, request', asked'),
         \A k \in Keys : request[k] \in Conns \ {c} =>
           request'[k] = request[k] /\ (k \in asked' => k \in asked),
         KeysLead(cb, c, q, request', asked')
  PROVE  WheelInv'
  <1>1. n \in Timers /\ ~Set(n) /\ n # t
    BY DEF Unused, Set
  <1>2. /\ wheel'[n] = [cb |-> cb, c |-> c] /\ wheel'[t] = Unset
        /\ \A s \in Timers : s # t /\ s # n => wheel'[s] = wheel[s]
    BY <1>1 DEF TypeOK
  <1>3. conn'[c] = q /\ \A d \in Conns : d # c => conn'[d] = conn[d]
    BY DEF TypeOK
  <1>4. [cb |-> cb, c |-> c] # Unset
    BY NullIsNoAddress DEF Unset
  <1>5. Opened(c) /\ c \in alive
    BY DEF WheelInv, EntriesFit, Opened
  <1>6. Set(n)' /\ ~Set(t)' /\ \A s \in Timers : s # t /\ s # n => (Set(s)' <=> Set(s))
    BY <1>2, <1>4 DEF Set
  <1>7. \A s \in Timers : s # t /\ Set(s) => wheel[s].c # c /\ wheel[s].c \in Conns
    BY SetCalls DEF WheelInv, EntriesAreOne
  <1>8. \A d \in Conns : Opened(d)' <=> Opened(d)
    BY <1>3, <1>5 DEF Opened
  <1>9. EntriesFit'
    <2> SUFFICES ASSUME NEW s \in Timers, Set(s)'
                 PROVE  Opened(wheel[s].c)' /\ Fits(s)'
      BY DEF EntriesFit
    <2>1. CASE s = n
      <3>1. Opened(wheel[s].c)'
        BY <1>2, <1>5, <1>8, <2>1
      <3>2. wheel'[s].cb = cb /\ wheel'[s].c = c /\ conn'[wheel'[s].c] = q
        BY <1>2, <1>3, <2>1
      <3>3. Fits(s)'
        BY <2>1, <3>2 DEF Fits
      <3> QED
        BY <3>1, <3>3
    <2>2. CASE s # n
      <3>1. s # t /\ Set(s) /\ wheel'[s] = wheel[s]
        BY <1>2, <1>6, <2>2
      <3>2. Opened(wheel[s].c) /\ Fits(s)
        BY <3>1 DEF WheelInv, EntriesFit
      <3>3. wheel[s].c \in Conns \ {c} /\ conn'[wheel[s].c] = conn[wheel[s].c]
        BY <1>3, <1>7, <3>1
      <3>4. Opened(wheel[s].c)'
        BY <1>8, <3>1, <3>2, <3>3 DEF Opened
      <3>5. Fits(s)'
        BY <3>1, <3>2, <3>3 DEF Fits, FitsAs
      <3> QED
        BY <3>4, <3>5
    <2> QED
      BY <2>1, <2>2
  <1>10. EntriesAreOne'
    <2> SUFFICES ASSUME NEW r \in Timers, NEW s \in Timers,
                        Set(r)', Set(s)', wheel'[r].c = wheel'[s].c
                 PROVE  r = s
      BY DEF EntriesAreOne
    <2>1. wheel'[n].c = c
      BY <1>2
    <2>2. r # n => Set(r) /\ wheel'[r].c = wheel[r].c /\ wheel[r].c # c
      BY <1>2, <1>6, <1>7
    <2>3. s # n => Set(s) /\ wheel'[s].c = wheel[s].c /\ wheel[s].c # c
      BY <1>2, <1>6, <1>7
    <2>4. Set(r) /\ Set(s) /\ wheel[r].c = wheel[s].c => r = s
      BY DEF WheelInv, EntriesAreOne
    <2> QED
      BY <2>1, <2>2, <2>3, <2>4
  <1>11. AllAreCalled'
    <2> SUFFICES ASSUME NEW d \in alive, Opened(d)'
                 PROVE  \E s \in Timers : wheel'[s].c = d
      BY DEF AllAreCalled
    <2>1. CASE d = c
      BY <1>1, <1>2, <2>1
    <2>2. CASE d # c
      <3>1. d \in Conns /\ Opened(d)
        BY <1>8 DEF TypeOK
      <3>2. PICK s \in Timers : wheel[s].c = d
        BY <3>1 DEF WheelInv, AllAreCalled
      <3>3. s # t /\ s # n
        BY <1>1, <2>2, <3>1, <3>2, SetCalls
      <3> QED
        BY <1>2, <3>2, <3>3
    <2> QED
      BY <2>1, <2>2
  <1>12. IncomingRest'
    BY <1>3 DEF WheelInv, IncomingRest, TypeOK
  <1>13. OneIsUnused'
    BY <1>2 DEF OneIsUnused, Unused
  <1>14. AskedAreRight'
    <2> SUFFICES ASSUME NEW k \in asked', request'[k] # "gone"
                 PROVE  /\ Opened(request[k])'
                        /\ conn'[request'[k]].key = k
                        /\ \E s \in Timers : wheel'[s] = [cb |-> "resolve", c |-> request'[k]]
      BY DEF AskedAreRight
    <2>1. CASE k \in asked /\ request'[k] = request[k] /\ request[k] # c
      <3>1. /\ Opened(request[k])
            /\ conn[request[k]].key = k
        BY <2>1 DEF WheelInv, AskedAreRight
      <3>2. PICK s \in Timers : wheel[s] = [cb |-> "resolve", c |-> request[k]]
        BY <2>1 DEF WheelInv, AskedAreRight
      <3>3. request[k] \in Conns
        BY <3>1 DEF Opened, TypeOK
      <3>4. s # t /\ s # n
        BY <1>1, <2>1, <3>2, <3>3, SetCalls
      <3>5. wheel'[s] = wheel[s]
        BY <1>2, <3>4
      <3>6. conn'[request'[k]] = conn[request[k]]
        BY <1>3, <2>1, <3>3
      <3>7. Opened(request[k])'
        BY <2>1, <3>1, <3>6 DEF Opened
      <3> QED
        BY <2>1, <3>1, <3>2, <3>5, <3>6, <3>7
    <2>2. CASE cb = "resolve" /\ request'[k] = c /\ q.key = k
      BY <1>1, <1>2, <1>3, <1>5, <1>8, <2>2 DEF Opened
    <2> QED
      BY <2>1, <2>2 DEF KeysLead
  <1> QED
    BY <1>9, <1>10, <1>11, <1>12, <1>13, <1>14 DEF WheelInv

\* c's fields change, or it is new and a peer's, and the wheel stays as it is.
LEMMA StayIsRight ==
  ASSUME TypeOK, WheelInv,
         NEW c \in Conns, NEW q \in ConnType,
         conn' = [conn EXCEPT ![c] = q],
         alive' = alive \cup {c},
         wheel' = wheel, request' = request, asked' = asked,
         IF c \in alive THEN q.incoming = conn[c].incoming /\ q.key = conn[c].key
                        ELSE q.incoming,
         q.incoming => q.state = "CHAL" /\ q.timer = NULL,
         \A t \in Timers : Set(t) /\ wheel[t].c = c =>
           FitsAs(t, wheel[t].cb, c, q, request, asked)
  PROVE  WheelInv'
  <1>1. conn'[c] = q /\ \A d \in Conns : d # c => conn'[d] = conn[d]
    BY DEF TypeOK
  <1>2. \A d \in Conns : Opened(d)' <=> Opened(d)
    BY <1>1 DEF Opened
  <1>3. EntriesFit'
    <2> SUFFICES ASSUME NEW t \in Timers, Set(t)'
                 PROVE  Opened(wheel[t].c)' /\ Fits(t)'
      BY DEF EntriesFit
    <2>1. Set(t) /\ wheel[t].c \in Conns
      BY SetCalls DEF Set
    <2>2. Opened(wheel[t].c) /\ Fits(t)
      BY <2>1 DEF WheelInv, EntriesFit
    <2>3. Opened(wheel[t].c)'
      BY <1>2, <2>1, <2>2 DEF Opened
    <2>4. CASE wheel[t].c = c
      <3>1. FitsAs(t, wheel[t].cb, c, q, request, asked)
        BY <2>1, <2>4
      <3>2. wheel'[t].c = c /\ wheel'[t].cb = wheel[t].cb /\ conn'[wheel'[t].c] = q
        BY <1>1, <2>4
      <3>3. Fits(t)'
        BY <3>1, <3>2 DEF Fits
      <3> QED
        BY <2>3, <3>3
    <2>5. CASE wheel[t].c # c
      <3>1. conn'[wheel[t].c] = conn[wheel[t].c]
        BY <1>1, <2>1, <2>5
      <3>2. Fits(t)'
        BY <2>2, <3>1 DEF Fits, FitsAs
      <3> QED
        BY <2>3, <3>2
    <2> QED
      BY <2>4, <2>5
  <1>4. EntriesAreOne'
    BY DEF WheelInv, EntriesAreOne, Set
  <1>5. AllAreCalled'
    <2> SUFFICES ASSUME NEW d \in alive', Opened(d)'
                 PROVE  \E s \in Timers : wheel'[s].c = d
      BY DEF AllAreCalled
    <2>1. d \in Conns /\ Opened(d)
      BY <1>2 DEF TypeOK
    <2> QED
      BY <2>1 DEF WheelInv, AllAreCalled, Opened
  <1>6. IncomingRest'
    BY <1>1 DEF WheelInv, IncomingRest, TypeOK
  <1>7. OneIsUnused'
    BY DEF WheelInv, OneIsUnused, Unused, Set
  <1>8. AskedAreRight'
    <2> SUFFICES ASSUME NEW k \in asked, request[k] # "gone"
                 PROVE  /\ Opened(request[k])'
                        /\ conn'[request[k]].key = k
                        /\ \E s \in Timers : wheel[s] = [cb |-> "resolve", c |-> request[k]]
      BY DEF AskedAreRight
    <2>1. /\ Opened(request[k])
          /\ conn[request[k]].key = k
          /\ \E s \in Timers : wheel[s] = [cb |-> "resolve", c |-> request[k]]
      BY DEF WheelInv, AskedAreRight
    <2>2. request[k] \in Conns /\ request[k] \in alive
      BY <2>1 DEF Opened, TypeOK
    <2>3. Opened(request[k])'
      BY <1>2, <2>1, <2>2 DEF Opened
    <2>4. conn'[request[k]].key = conn[request[k]].key
      BY <1>1, <2>2
    <2> QED
      BY <2>1, <2>3, <2>4
  <1> QED
    BY <1>3, <1>4, <1>5, <1>6, <1>7, <1>8 DEF WheelInv

\* The connection that entry t calls is freed, and the entry with it.
LEMMA CloseIsRight ==
  ASSUME TypeOK, WheelInv,
         NEW c \in Conns, NEW t \in Timers,
         Set(t), wheel[t].c = c,
         wheel' = [wheel EXCEPT ![t] = Unset],
         conn' = [conn EXCEPT ![c] = Freed],
         alive' = alive \ {c},
         \A k \in Keys : request[k] \in Conns \ {c} =>
           request'[k] = request[k] /\ (k \in asked' => k \in asked),
         \A k \in asked' :
           \/ request'[k] = "gone"
           \/ k \in asked /\ request'[k] = request[k] /\ request[k] # c
  PROVE  WheelInv'
  <1>1. wheel'[t] = Unset /\ \A s \in Timers : s # t => wheel'[s] = wheel[s]
    BY DEF TypeOK
  <1>2. \A d \in Conns : d # c => conn'[d] = conn[d]
    BY DEF TypeOK
  <1>3. \A s \in Timers : s # t /\ Set(s) => wheel[s].c # c /\ wheel[s].c \in Conns
    BY SetCalls DEF WheelInv, EntriesAreOne
  <1>4. \A d \in Conns : d # c => (Opened(d)' <=> Opened(d))
    BY <1>2 DEF Opened
  <1>5. \A s \in Timers : Set(s)' => s # t /\ Set(s) /\ wheel'[s] = wheel[s]
    BY <1>1 DEF Set
  <1>6. EntriesFit'
    <2> SUFFICES ASSUME NEW s \in Timers, Set(s)'
                 PROVE  Opened(wheel[s].c)' /\ Fits(s)'
      BY DEF EntriesFit
    <2>1. s # t /\ Set(s) /\ wheel'[s] = wheel[s]
      BY <1>5
    <2>2. Opened(wheel[s].c) /\ Fits(s)
      BY <2>1 DEF WheelInv, EntriesFit
    <2>3. wheel[s].c \in Conns \ {c} /\ conn'[wheel[s].c] = conn[wheel[s].c]
      BY <1>2, <1>3, <2>1
    <2>4. Opened(wheel[s].c)'
      BY <1>4, <2>1, <2>2, <2>3 DEF Opened
    <2>5. Fits(s)'
      BY <2>1, <2>2, <2>3 DEF Fits, FitsAs
    <2> QED
      BY <2>4, <2>5
  <1>7. EntriesAreOne'
    <2> SUFFICES ASSUME NEW r \in Timers, NEW s \in Timers,
                        Set(r)', Set(s)', wheel'[r].c = wheel'[s].c
                 PROVE  r = s
      BY DEF EntriesAreOne
    <2>1. Set(r) /\ wheel'[r] = wheel[r] /\ Set(s) /\ wheel'[s] = wheel[s]
      BY <1>5
    <2>2. Set(r) /\ Set(s) /\ wheel[r].c = wheel[s].c => r = s
      BY DEF WheelInv, EntriesAreOne
    <2> QED
      BY <2>1, <2>2
  <1>8. AllAreCalled'
    <2> SUFFICES ASSUME NEW d \in alive', Opened(d)'
                 PROVE  \E s \in Timers : wheel'[s].c = d
      BY DEF AllAreCalled
    <2>1. d \in Conns /\ d # c /\ d \in alive /\ Opened(d)
      BY <1>4 DEF TypeOK
    <2>2. PICK s \in Timers : wheel[s].c = d
      BY <2>1 DEF WheelInv, AllAreCalled
    <2> QED
      BY <1>1, <2>1, <2>2
  <1>9. IncomingRest'
    BY <1>2 DEF WheelInv, IncomingRest, TypeOK
  <1>10. OneIsUnused'
    BY <1>1 DEF OneIsUnused, Unused
  <1>11. AskedAreRight'
    <2> SUFFICES ASSUME NEW k \in asked', request'[k] # "gone"
                 PROVE  /\ Opened(request[k])'
                        /\ conn'[request'[k]].key = k
                        /\ \E s \in Timers : wheel'[s] = [cb |-> "resolve", c |-> request'[k]]
      BY DEF AskedAreRight
    <2>1. k \in asked /\ request'[k] = request[k] /\ request[k] # c
      OBVIOUS
    <2>2. Opened(request[k]) /\ conn[request[k]].key = k
      BY <2>1 DEF WheelInv, AskedAreRight
    <2>3. PICK s \in Timers : wheel[s] = [cb |-> "resolve", c |-> request[k]]
      BY <2>1 DEF WheelInv, AskedAreRight
    <2>4. request[k] \in Conns
      BY <2>2 DEF Opened, TypeOK
    <2>5. wheel'[s] = wheel[s]
      BY <1>1, <2>1, <2>3
    <2>6. conn'[request'[k]] = conn[request[k]]
      BY <1>2, <2>1, <2>4
    <2>7. Opened(request[k])'
      BY <2>1, <2>2, <2>6, <1>4, <2>4 DEF Opened
    <2> QED
      BY <2>1, <2>2, <2>3, <2>5, <2>6, <2>7
  <1> QED
    BY <1>6, <1>7, <1>8, <1>9, <1>10, <1>11 DEF WheelInv

\* One address is left unused when another is taken.
LEMMA TwoAreUnused ==
  ASSUME Cardinality(Unused) > 1, NEW n \in Unused
  PROVE  \E m \in Unused : m # n
  <1>1. IsFiniteSet(Unused)
    BY TimersAreFinite, FS_Subset DEF Unused
  <1>2. CASE Unused = {n}
    <2>1. Cardinality({n}) = 1
      BY FS_Singleton, Zenon
    <2> QED
      BY <1>2, <2>1
  <1> QED
    BY <1>2

\* The application opens c, whose only entry is new.
LEMMA OpenIsRight ==
  ASSUME TypeOK, WheelInv,
         NEW c \in Conns, NEW k \in Keys, NEW n \in Unused, NEW m \in Unused,
         c \notin alive, m # n, request[k] = "none",
         wheel' = [wheel EXCEPT ![n] = [cb |-> "open", c |-> c]],
         conn' = [conn EXCEPT ![c] = New(FALSE, k)],
         alive' = alive \cup {c},
         request' = [request EXCEPT ![k] = c],
         asked' = asked
  PROVE  WheelInv'
  <1>1. n \in Timers /\ m \in Timers /\ ~Set(n) /\ ~Set(m)
    BY DEF Unused, Set
  <1>2. /\ wheel'[n] = [cb |-> "open", c |-> c]
        /\ \A s \in Timers : s # n => wheel'[s] = wheel[s]
    BY <1>1 DEF TypeOK
  <1>3. conn'[c] = New(FALSE, k) /\ \A d \in Conns : d # c => conn'[d] = conn[d]
    BY DEF TypeOK
  <1>4. request'[k] = c /\ \A j \in Keys : j # k => request'[j] = request[j]
    BY DEF TypeOK
  <1>5. k \notin asked
    <2> SUFFICES ASSUME k \in asked PROVE FALSE
      OBVIOUS
    <2>1. "none" \in alive
      BY DEF WheelInv, AskedAreRight, Opened
    <2> QED
      BY <2>1, NoConnIsAString DEF TypeOK
  <1>6. \A s \in Timers : s # n /\ Set(s)' =>
          Set(s) /\ wheel'[s] = wheel[s] /\ wheel[s].c \in Conns \ {c} /\ Opened(wheel[s].c)
    BY <1>2, SetCalls DEF Set, WheelInv, EntriesFit, Opened
  <1>7. \A d \in Conns : d # c => (Opened(d)' <=> Opened(d))
    BY <1>3 DEF Opened
  <1>8. Opened(c)'
    BY <1>3 DEF Opened, New
  <1>9. EntriesFit'
    <2> SUFFICES ASSUME NEW s \in Timers, Set(s)'
                 PROVE  Opened(wheel[s].c)' /\ Fits(s)'
      BY DEF EntriesFit
    <2>1. CASE s = n
      <3>1. Opened(wheel[s].c)'
        BY <1>2, <1>8, <2>1
      <3>2. Fits(s)'
        BY <1>2, <1>3, <1>4, <1>5, <2>1 DEF Fits, FitsAs, New
      <3> QED
        BY <3>1, <3>2
    <2>2. CASE s # n
      <3>1. Set(s) /\ wheel'[s] = wheel[s] /\ wheel[s].c \in Conns \ {c} /\ Opened(wheel[s].c)
        BY <1>6, <2>2
      <3>2. conn'[wheel[s].c] = conn[wheel[s].c]
        BY <1>3, <3>1
      <3>3. Fits(s)
        BY <3>1 DEF WheelInv, EntriesFit
      <3>4. \A j \in Keys : request[j] = wheel[s].c => request'[j] = request[j]
        BY <1>4, <3>1, NoConnIsAString
      <3> DEFINE key == conn[wheel[s].c].key
      <3>5. key \in Keys /\ request[key] = wheel[s].c => request'[key] = wheel[s].c
        BY <3>4
      <3>7. wheel'[s].c = wheel[s].c /\ wheel'[s].cb = wheel[s].cb
        BY <3>1
      <3>8. Fits(s)'
        <4> DEFINE q == conn[wheel[s].c]
        <4>1. /\ wheel[s].cb = "open" =>
                  /\ q.state = "START" /\ q.timer = NULL /\ ~q.hassend
                  /\ q.key \in Keys /\ request'[q.key] = wheel[s].c /\ q.key \notin asked
              /\ wheel[s].cb = "resolve" =>
                  /\ q.state \in {"RESOLVE", "ERROR"} /\ q.timer = s /\ ~q.hassend
                  /\ q.key \in Keys /\ request'[q.key] = wheel[s].c
              /\ wheel[s].cb \in {"resolved", "unresolved"} =>
                  q.state \in {"RESOLVE", "ERROR"} /\ q.timer = NULL /\ ~q.hassend
              /\ wheel[s].cb = "resend" =>
                  q.state \in {"OPEN", "PING"} /\ q.timer = s
          BY <3>3, <3>5 DEF Fits, FitsAs
        <4>2. conn'[wheel'[s].c] = q
          BY <3>2, <3>7
        <4> HIDE DEF q
        <4> QED
          BY <3>7, <4>1, <4>2 DEF Fits, FitsAs
      <3>6. Opened(wheel[s].c)'
        BY <1>7, <3>1 DEF Opened
      <3> QED
        BY <3>6, <3>8
    <2> QED
      BY <2>1, <2>2
  <1>10. EntriesAreOne'
    <2> SUFFICES ASSUME NEW r \in Timers, NEW s \in Timers,
                        Set(r)', Set(s)', wheel'[r].c = wheel'[s].c
                 PROVE  r = s
      BY DEF EntriesAreOne
    <2>1. wheel'[n].c = c
      BY <1>2
    <2>2. r # n => Set(r) /\ wheel'[r].c = wheel[r].c /\ wheel[r].c # c
      BY <1>6
    <2>3. s # n => Set(s) /\ wheel'[s].c = wheel[s].c /\ wheel[s].c # c
      BY <1>6
    <2>4. Set(r) /\ Set(s) /\ wheel[r].c = wheel[s].c => r = s
      BY DEF WheelInv, EntriesAreOne
    <2> QED
      BY <2>1, <2>2, <2>3, <2>4
  <1>11. AllAreCalled'
    <2> SUFFICES ASSUME NEW d \in alive', Opened(d)'
                 PROVE  \E s \in Timers : wheel'[s].c = d
      BY DEF AllAreCalled
    <2>1. CASE d = c
      BY <1>1, <1>2, <2>1
    <2>2. CASE d # c
      <3>1. d \in Conns /\ Opened(d) /\ d \in alive
        BY <1>7, <2>2 DEF TypeOK
      <3>2. PICK s \in Timers : wheel[s].c = d
        BY <3>1 DEF WheelInv, AllAreCalled
      <3>3. s # n
        BY <1>1, <3>1, <3>2, SetCalls
      <3> QED
        BY <1>2, <3>2, <3>3
    <2> QED
      BY <2>1, <2>2
  <1>12. IncomingRest'
    BY <1>3 DEF WheelInv, IncomingRest, TypeOK, New
  <1>13. OneIsUnused'
    BY <1>1, <1>2 DEF OneIsUnused, Unused
  <1>14. AskedAreRight'
    <2> SUFFICES ASSUME NEW j \in asked, request'[j] # "gone"
                 PROVE  /\ Opened(request[j])'
                        /\ conn'[request'[j]].key = j
                        /\ \E s \in Timers : wheel'[s] = [cb |-> "resolve", c |-> request'[j]]
      BY DEF AskedAreRight
    <2>1. j \in Keys /\ j # k /\ request'[j] = request[j]
      BY <1>4, <1>5 DEF TypeOK
    <2>2. Opened(request[j]) /\ conn[request[j]].key = j
      BY <2>1 DEF WheelInv, AskedAreRight
    <2>3. PICK s \in Timers : wheel[s] = [cb |-> "resolve", c |-> request[j]]
      BY <2>1 DEF WheelInv, AskedAreRight
    <2>4. request[j] \in Conns \ {c}
      BY <2>2 DEF Opened, TypeOK
    <2>5. s # n
      BY <1>1, <2>3, <2>4, SetCalls
    <2>6. conn'[request'[j]] = conn[request[j]] /\ wheel'[s] = wheel[s]
      BY <1>2, <1>3, <2>1, <2>4, <2>5
    <2>7. Opened(request[j])'
      BY <1>7, <2>1, <2>2, <2>4 DEF Opened
    <2> QED
      BY <2>1, <2>2, <2>3, <2>6, <2>7
  <1> QED
    BY <1>9, <1>10, <1>11, <1>12, <1>13, <1>14 DEF WheelInv

-----------------------------------------------------------------------------
(* Who is in the send queue.                                               *)

\* Nothing changes that the send queue is about.
LEMMA SendInvStays ==
  ASSUME SendInv, UNCHANGED <<conn, alive>>, UNCHANGED sendq
  PROVE  SendInv'
  <1>1. QueueFit' /\ Insend' = Insend
    BY QueueStays DEF SendInv
  <1>2. SendersAreFit'
    BY <1>1 DEF SendInv, SendersAreFit
  <1>3. MarkedIsQueued'
    BY <1>1 DEF SendInv, MarkedIsQueued, Insend
  <1> QED
    BY <1>1, <1>2, <1>3 DEF SendInv

\* c's fields change, and what is new in them asks for no turn.
LEMMA SendStays ==
  ASSUME TypeOK, SendInv,
         NEW c \in Conns, NEW q \in ConnType,
         conn' = [conn EXCEPT ![c] = q],
         alive' = alive \cup {c} \/ alive' = alive,
         UNCHANGED sendq,
         q.hassend => c \in Insend \/ q.state = "PING",
         c \in Insend => q.state \in {"OPEN", "CHAL", "PING"}
  PROVE  SendInv'
  <1>1. conn'[c] = q /\ \A d \in Conns : d # c => conn'[d] = conn[d]
    BY DEF TypeOK
  <1>2. Insend' = Insend /\ Insend \subseteq Conns
    BY QueueStays DEF SendInv, TypeOK
  <1>3. QueueFit'
    BY QueueStays DEF SendInv
  <1>4. SendersAreFit'
    BY <1>1, <1>2 DEF SendInv, SendersAreFit
  <1>5. MarkedIsQueued'
    BY <1>1, <1>2 DEF SendInv, MarkedIsQueued, TypeOK, Insend
  <1> QED
    BY <1>3, <1>4, <1>5 DEF SendInv

\* c is marked.
LEMMA SendJoins ==
  ASSUME TypeOK, SendInv,
         NEW c \in Conns, NEW q \in ConnType,
         conn' = [conn EXCEPT ![c] = q],
         alive' = alive \cup {c},
         _tripc_set_send(c),
         q.state \in {"OPEN", "CHAL", "PING"}
  PROVE  SendInv'
  <1>1. conn'[c] = q /\ \A d \in Conns : d # c => conn'[d] = conn[d]
    BY DEF TypeOK
  <1>2. QueueFit' /\ Insend' = Insend \cup {c}
    BY SetSendQueues DEF SendInv
  <1>3. Insend \subseteq Conns
    BY DEF TypeOK
  <1>4. SendersAreFit'
    BY <1>1, <1>2, <1>3 DEF SendInv, SendersAreFit
  <1>5. MarkedIsQueued'
    BY <1>1, <1>2 DEF SendInv, MarkedIsQueued, TypeOK, Insend
  <1> QED
    BY <1>2, <1>4, <1>5 DEF SendInv

\* c is freed.
LEMMA SendLeaves ==
  ASSUME TypeOK, SendInv,
         NEW c \in Conns,
         conn' = [conn EXCEPT ![c] = Freed],
         alive' = alive \ {c},
         sendq_del(c)
  PROVE  SendInv'
  <1>1. \A d \in Conns : d # c => conn'[d] = conn[d]
    BY DEF TypeOK
  <1>2. QueueFit' /\ Insend' = Insend \ {c}
    BY UnqueueUnqueues DEF SendInv
  <1>3. Insend \subseteq Conns
    BY DEF TypeOK
  <1>4. SendersAreFit'
    BY <1>1, <1>2, <1>3 DEF SendInv, SendersAreFit
  <1>5. MarkedIsQueued'
    BY <1>1, <1>2 DEF SendInv, MarkedIsQueued, TypeOK, Insend
  <1> QED
    BY <1>2, <1>4, <1>5 DEF SendInv

-----------------------------------------------------------------------------
(* Every step keeps the invariant: opening.                                *)

LEMMA NewIsAConn ==
  ASSUME NEW incoming \in BOOLEAN, NEW key \in Keys \cup {NULL}
  PROVE  New(incoming, key) \in ConnType
  BY CountsAreNat DEF New, ConnType, Errors

LEMMA OpenKeeps ==
  ASSUME IInv, NEW c \in Conns, trip_open_connection(c)
  PROVE  IInv'
  <1> USE DEF IInv
  <1>1. PICK k \in Keys : trip_open_connection(c)!3!(k)
    BY DEF trip_open_connection
  <1>2. c \notin alive /\ Cardinality(Unused) > 1 /\ UNCHANGED <<asked, sendq, router>>
    BY DEF trip_open_connection
  <1>3. /\ request[k] = "none" /\ request' = [request EXCEPT ![k] = c]
        /\ answered' = answered
    BY <1>1 DEF ResolveQueue!Ask, ResolveQueue!None
  <1>4. Insend' = Insend /\ c \notin Insend /\ adrift' = adrift
    BY <1>2, QueueStays DEF SendInv, SendersAreFit
  <1>5. request' \in [Keys -> Conns \cup {"none", "gone"}]
    BY <1>3 DEF TypeOK
  <1>6. CASE /\ conn' = [conn EXCEPT ![c] = New(FALSE, k)]
             /\ alive' = alive \cup {c}
             /\ mapped' = mapped \cup {c}
             /\ told' = [told EXCEPT ![c] = "none"]
             /\ wheel' = SetTimeout(NULL, "open", c)
    <2>1. Unused # {}
      <3>1. Unused = {} => Cardinality(Unused) = 0
        BY FS_EmptySet
      <3> QED
        BY <1>2, <3>1
    <2>2. PICK n \in Unused : n = NewTimer
      BY <2>1, NewTimerIsUnused
    <2>3. wheel' = [wheel EXCEPT ![n] = [cb |-> "open", c |-> c]]
      BY <1>6, <2>2 DEF SetTimeout, Without
    <2>4. PICK m \in Unused : m # n
      BY <1>2, TwoAreUnused
    <2>5. New(FALSE, k) \in ConnType
      BY NewIsAConn
    <2>6. WheelInv'
      BY <1>2, <1>3, <1>6, <2>3, <2>4, OpenIsRight
    <2>7. SendInv'
      <3>1. New(FALSE, k).hassend = FALSE
        BY DEF New
      <3> QED
        BY <1>2, <1>4, <1>6, <2>5, <3>1, SendStays
    <2>8. wheel' \in [Timers -> [cb : Callbacks, c : Conns] \cup {Unset}]
      BY <2>3 DEF TypeOK, Callbacks
    <2>9. TypeOK'
      BY <1>2, <1>3, <1>4, <1>5, <1>6, <2>5, <2>8 DEF TypeOK, Errors
    <2> QED
      BY <1>6, <2>6, <2>7, <2>9
  <1>7. CASE /\ told' = [told EXCEPT ![c] = "EBUSY"]
             /\ UNCHANGED <<conn, alive, mapped, wheel>>
    <2>1. TypeOK'
      BY <1>2, <1>3, <1>4, <1>5, <1>7 DEF TypeOK, Errors
    <2>2. k \notin asked
      <3> SUFFICES ASSUME k \in asked PROVE FALSE
        OBVIOUS
      <3>1. "none" \in alive
        BY <1>3 DEF WheelInv, AskedAreRight, Opened
      <3> QED
        BY <3>1, NoConnIsAString DEF TypeOK
    <2>3. \A j \in Keys : j # k => request'[j] = request[j]
      BY <1>3 DEF TypeOK
    <2>4. \A t \in Timers : Set(t)' <=> Set(t)
      BY <1>7 DEF Set
    <2>5. \A d : Opened(d)' <=> Opened(d)
      BY <1>7 DEF Opened
    <2>6. EntriesFit'
      <3> SUFFICES ASSUME NEW t \in Timers, Set(t)'
                   PROVE  Opened(wheel[t].c)' /\ Fits(t)'
        BY DEF EntriesFit
      <3>1. Opened(wheel[t].c) /\ Fits(t)
        BY <2>4 DEF WheelInv, EntriesFit
      <3>2. wheel[t].c \in Conns
        BY <2>4, SetCalls
      <3>3. \A j \in Keys : request[j] = wheel[t].c => request'[j] = wheel[t].c
        BY <1>3, <2>3, <3>2, NoConnIsAString
      <3>4. conn' = conn /\ wheel' = wheel /\ asked' = asked
        BY <1>2, <1>7
      <3>5. Opened(wheel[t].c)'
        BY <1>7, <3>1 DEF Opened
      <3>6. Fits(t)'
        BY <3>1, <3>3, <3>4 DEF Fits, FitsAs
      <3> QED
        BY <3>5, <3>6
    <2>7. AskedAreRight'
      BY <1>2, <1>7, <2>2, <2>3 DEF WheelInv, AskedAreRight, TypeOK, Opened
    <2>8. EntriesAreOne' /\ AllAreCalled' /\ IncomingRest' /\ OneIsUnused'
      BY <1>7 DEF WheelInv, EntriesAreOne, AllAreCalled, IncomingRest, OneIsUnused,
                  Unused, Opened, Set
    <2>9. SendInv'
      BY <1>2, <1>7, SendInvStays
    <2> QED
      BY <1>7, <2>1, <2>6, <2>7, <2>8, <2>9 DEF WheelInv
  <1> QED
    BY <1>1, <1>6, <1>7

LEMMA SegmentOpenKeeps ==
  ASSUME IInv, NEW c \in Conns, _trip_segment_open(c)
  PROVE  IInv'
  <1> USE DEF IInv
  <1>1. PICK readable \in BOOLEAN : _trip_segment_open(c)!7!(readable)
    BY DEF _trip_segment_open
  <1>2. /\ c \notin alive /\ alive' = alive \cup {c} /\ mapped' = mapped \cup {c}
        /\ told' = [told EXCEPT ![c] = "none"]
        /\ UNCHANGED <<wheel, request, answered, asked, router>>
    BY DEF _trip_segment_open
  <1> DEFINE q == [New(TRUE, NULL) EXCEPT !.state = "CHAL", !.hassend = readable]
  <1>3. conn' = [conn EXCEPT ![c] = q]
    BY <1>1
  <1>4. /\ q \in ConnType /\ q.incoming /\ q.state = "CHAL" /\ q.timer = NULL
        /\ q.hassend = readable
    <2>1. New(TRUE, NULL) \in ConnType
      BY NewIsAConn
    <2>2. New(TRUE, NULL).timer = NULL /\ New(TRUE, NULL).incoming = TRUE
      BY DEF New
    <2>3. q \in ConnType /\ q.state = "CHAL"
      BY <2>1 DEF ConnType
    <2>4. q.timer = NULL /\ q.incoming = TRUE
      BY <2>1, <2>2 DEF ConnType
    <2>5. q.hassend = readable
      BY <2>1 DEF ConnType
    <2> QED
      BY <2>3, <2>4, <2>5
  <1> HIDE DEF q
  <1>5. WheelInv'
    <2>1. \A t \in Timers : ~(Set(t) /\ wheel[t].c = c)
      BY <1>2 DEF WheelInv, EntriesFit, Opened
    <2> QED
      BY <1>2, <1>3, <1>4, <2>1, StayIsRight
  <1>6. SendInv'
    <2>1. CASE readable
      BY <1>1, <1>2, <1>3, <1>4, <2>1, SendJoins
    <2>2. CASE ~readable
      <3>1. c \notin Insend
        BY <1>2 DEF SendInv, SendersAreFit
      <3>2. UNCHANGED sendq
        BY <1>1, <2>2
      <3> QED
        BY <1>2, <1>3, <1>4, <2>2, <3>1, <3>2, SendStays
    <2> QED
      BY <2>1, <2>2
  <1>7. Insend' \subseteq Conns /\ adrift' \in BOOLEAN
    BY <1>6 DEF SendInv, QueueFit, QueueIsOnce, Insend, SendQueue!Waiting
  <1>8. TypeOK'
    BY <1>2, <1>3, <1>4, <1>7 DEF TypeOK, Errors
  <1> QED
    BY <1>2, <1>5, <1>6, <1>8

-----------------------------------------------------------------------------
(* Every step keeps the invariant: timers.                                 *)

LEMMA WhoFires ==
  ASSUME IInv, NEW t \in Timers, NEW cb \in Callbacks, Fires(t, cb)
  PROVE  /\ Set(t) /\ wheel[t].cb = cb
         /\ wheel[t].c \in Conns /\ wheel[t].c \in alive
         /\ conn[wheel[t].c] \in ConnType /\ ~conn[wheel[t].c].incoming
         /\ Fits(t) /\ Unused # {}
  <1>1. Set(t)
    BY DEF Fires, Set, Unset, Callbacks
  <1>2. wheel[t].c \in Conns /\ conn[wheel[t].c] \in ConnType
    BY <1>1, SetCalls DEF IInv, TypeOK
  <1> QED
    BY <1>1, <1>2 DEF IInv, WheelInv, EntriesFit, OneIsUnused, Opened, Fires

\* A key that is still to be answered to c is the one c waits under.
LEMMA WhoIsAsked ==
  ASSUME IInv, NEW t \in Timers, Set(t), NEW k \in asked, request[k] = wheel[t].c
  PROVE  wheel[t].cb = "resolve" /\ conn[wheel[t].c].key = k
  <1>1. wheel[t].c \in Conns
    BY SetCalls DEF IInv
  <1>2. request[k] # "gone"
    BY <1>1, NoConnIsAString
  <1>3. PICK s \in Timers : wheel[s] = [cb |-> "resolve", c |-> request[k]]
    BY <1>2 DEF IInv, WheelInv, AskedAreRight
  <1>4. conn[request[k]].key = k
    BY <1>2 DEF IInv, WheelInv, AskedAreRight
  <1>5. Set(s)
    BY <1>3 DEF Set, Unset
  <1>6. s = t
    BY <1>3, <1>5 DEF IInv, WheelInv, EntriesAreOne
  <1> QED
    BY <1>3, <1>4, <1>6

\* The connection that t calls is closed.
LEMMA CloseKeeps ==
  ASSUME IInv, NEW c \in Conns, NEW t \in Timers, NEW q \in ConnType,
         Set(t), wheel[t].c = c, q.timer \in {NULL, t},
         _trip_close_connection(q, c, t),
         UNCHANGED <<answered, asked, router>>,
         \/ request[conn[c].key] = c /\ ResolveQueue!Leave(conn[c].key)
         \/ wheel[t].cb # "resolve" /\ UNCHANGED request
  PROVE  IInv'
  <1> USE DEF IInv
  <1>1. /\ told' = [told EXCEPT ![c] = q.error]
        /\ mapped' = mapped \ {c}
        /\ alive' = alive \ {c}
        /\ conn' = [conn EXCEPT ![c] = Freed]
        /\ sendq_del(c)
    BY DEF _trip_close_connection
  <1>2. wheel' = [wheel EXCEPT ![t] = Unset]
    <2>1. Without(t) = [wheel EXCEPT ![t] = Unset]
      BY NullIsNoAddress DEF Without
    <2>2. wheel' = [[wheel EXCEPT ![t] = Unset] EXCEPT ![t] = Unset]
      BY <2>1 DEF _trip_close_connection
    <2> QED
      BY <2>2 DEF TypeOK
  <1>3. SendInv'
    BY <1>1, SendLeaves
  <1>4. /\ request' \in [Keys -> Conns \cup {"none", "gone"}]
        /\ \A k \in Keys : request[k] \in Conns \ {c} => request'[k] = request[k]
        /\ \A k \in asked : \/ request'[k] = "gone"
                            \/ request'[k] = request[k] /\ request[k] # c
    <2>1. CASE request[conn[c].key] = c /\ ResolveQueue!Leave(conn[c].key)
      <3> DEFINE key == conn[c].key
      <3>1. request' = [request EXCEPT ![key] = "gone"]
        BY <2>1 DEF ResolveQueue!Leave, ResolveQueue!Gone
      <3>2. \A k \in Keys : request'[k] = IF k = key THEN "gone" ELSE request[k]
        BY <3>1 DEF TypeOK
      <3>3. \A k \in asked : request[k] = c => k = key
        BY WhoIsAsked
      <3>4. request' \in [Keys -> Conns \cup {"none", "gone"}]
        BY <3>1 DEF TypeOK
      <3>5. \A k \in asked : \/ request'[k] = "gone"
                             \/ request'[k] = request[k] /\ request[k] # c
        BY <3>2, <3>3 DEF TypeOK
      <3>6. \A k \in Keys : request[k] \in Conns \ {c} => request'[k] = request[k]
        BY <2>1, <3>2
      <3> QED
        BY <3>4, <3>5, <3>6
    <2>2. CASE wheel[t].cb # "resolve" /\ UNCHANGED request
      BY <2>2, WhoIsAsked DEF TypeOK
    <2> QED
      BY <2>1, <2>2
  <1>5. WheelInv'
    BY <1>1, <1>2, <1>4, CloseIsRight
  <1>6. Insend' \subseteq Conns /\ adrift' \in BOOLEAN
    BY <1>3 DEF SendInv, QueueFit, QueueIsOnce, Insend, SendQueue!Waiting
  <1>7. Freed \in ConnType /\ q.error \in Errors
    BY NewIsAConn DEF Freed, ConnType
  <1>8. TypeOK'
    BY <1>1, <1>2, <1>4, <1>6, <1>7 DEF TypeOK
  <1> QED
    BY <1>1, <1>3, <1>5, <1>8

\* The entry t gives way to another one of the same connection.
LEMMA MoveKeeps ==
  ASSUME IInv,
         NEW c \in Conns, NEW t \in Timers, NEW n \in Unused,
         NEW cb \in Callbacks, NEW q \in ConnType,
         Set(t), wheel[t].c = c, n = NewTimer,
         wheel' = SetTimeout(t, cb, c),
         conn' = [conn EXCEPT ![c] = q],
         UNCHANGED <<alive, mapped, told>>,
         request' \in [Keys -> Conns \cup {"none", "gone"}],
         answered' \in Conns \cup {NULL},
         asked' \subseteq Keys,
         router' \in {"LISTEN", "CLOSE", "UNBIND", "ERROR"},
         ~q.incoming,
         FitsAs(n, cb, c, q, request', asked'),
         \A k \in Keys : request[k] \in Conns \ {c} =>
           request'[k] = request[k] /\ (k \in asked' => k \in asked),
         KeysLead(cb, c, q, request', asked'),
         SendInv'
  PROVE  IInv'
  <1> USE DEF IInv
  <1>1. wheel' = [[wheel EXCEPT ![t] = Unset] EXCEPT ![n] = [cb |-> cb, c |-> c]]
    BY NullIsNoAddress DEF SetTimeout, Without
  <1>2. WheelInv'
    <2>1. alive' = alive /\ TypeOK /\ WheelInv
      OBVIOUS
    <2> QED
      BY <1>1, <2>1, MoveIsRight, Zenon
  <1>3. Insend' \subseteq Conns /\ adrift' \in BOOLEAN
    BY DEF SendInv, QueueFit, QueueIsOnce, Insend, SendQueue!Waiting
  <1>4. wheel' \in [Timers -> [cb : Callbacks, c : Conns] \cup {Unset}]
    <2>1. wheel \in [Timers -> [cb : Callbacks, c : Conns] \cup {Unset}] /\ n \in Timers
      BY DEF TypeOK, Unused
    <2>2. [cb |-> cb, c |-> c] \in [cb : Callbacks, c : Conns]
      OBVIOUS
    <2>3. [wheel EXCEPT ![t] = Unset] \in [Timers -> [cb : Callbacks, c : Conns] \cup {Unset}]
      BY <2>1
    <2> QED
      BY <1>1, <2>1, <2>2, <2>3
  <1>5. TypeOK'
    BY <1>3, <1>4 DEF TypeOK
  <1> QED
    BY <1>2, <1>5

\* What is written through the fields of conn[c] is a new value of conn[c].
LEMMA NewTimerIs ==
  ASSUME IInv, NEW t \in Timers, Set(t)
  PROVE  \E n \in Unused : n = NewTimer /\ n \in Timers
  <1>1. NewTimer \in Unused
    BY NewTimerIsUnused DEF IInv, WheelInv, OneIsUnused
  <1> QED
    BY <1>1 DEF Unused

LEMMA StartKeeps ==
  ASSUME IInv, NEW t \in Timers, _trip_open_connection_async_cb(t)
  PROVE  IInv'
  <1>1. PICK c \in Conns : c = wheel[t].c
    BY WhoFires DEF _trip_open_connection_async_cb, Callbacks
  <1>2. /\ Set(t) /\ wheel[t].cb = "open" /\ c \in alive
        /\ conn[c] \in ConnType /\ ~conn[c].incoming /\ Fits(t)
    BY <1>1, WhoFires DEF _trip_open_connection_async_cb, Callbacks
  <1>3. PICK n \in Unused : n = NewTimer /\ n \in Timers
    BY <1>2, NewTimerIs
  <1>4. /\ conn' = [conn EXCEPT ![c].state = "RESOLVE", ![c].timer = n]
        /\ wheel' = SetTimeout(t, "resolve", c)
        /\ asked' = asked \cup {conn[c].key}
        /\ UNCHANGED <<alive, mapped, told>> /\ UNCHANGED <<request, answered, sendq, router>>
    BY <1>1, <1>3 DEF _trip_open_connection_async_cb
  <1>5. PICK q \in ConnType : q = [conn[c] EXCEPT !.state = "RESOLVE", !.timer = n]
    BY <1>2, <1>3 DEF ConnType
  <1>6. /\ q.state = "RESOLVE" /\ q.timer = n /\ q.key = conn[c].key
        /\ q.incoming = conn[c].incoming /\ q.hassend = conn[c].hassend
    BY <1>2, <1>5 DEF ConnType
  <1>7. conn' = [conn EXCEPT ![c] = q]
    BY <1>4, <1>5 DEF IInv, TypeOK
  <1>8. /\ conn[c].state = "START" /\ ~conn[c].hassend /\ conn[c].key \in Keys
        /\ request[conn[c].key] = c /\ conn[c].key \notin asked
    BY <1>1, <1>2 DEF Fits, FitsAs
  <1>9. SendInv'
    <2>1. c \notin Insend
      BY <1>8 DEF IInv, SendInv, SendersAreFit
    <2> QED
      BY <1>4, <1>6, <1>7, <1>8, <2>1, SendStays DEF IInv
  <1>10. FitsAs(n, "resolve", c, q, request', asked')
    BY <1>4, <1>6, <1>8 DEF FitsAs
  <1>11. \A k \in asked : request[k] # c
    BY <1>1, <1>2, WhoIsAsked
  <1>12. /\ request' \in [Keys -> Conns \cup {"none", "gone"}]
         /\ answered' \in Conns \cup {NULL}
         /\ asked' \subseteq Keys
         /\ router' \in {"LISTEN", "CLOSE", "UNBIND", "ERROR"}
    BY <1>4, <1>8 DEF IInv, TypeOK
  <1>13. \A k \in Keys : request[k] \in Conns \ {c} =>
           request'[k] = request[k] /\ (k \in asked' => k \in asked)
    BY <1>4, <1>8
  <1>14. KeysLead("resolve", c, q, request', asked')
    BY <1>4, <1>6, <1>8, <1>11 DEF KeysLead
  <1>15. "resolve" \in Callbacks /\ ~q.incoming
    BY <1>2, <1>6 DEF Callbacks
  <1> QED
    BY <1>1, <1>2, <1>3, <1>4, <1>7, <1>9, <1>10, <1>12, <1>13, <1>14, <1>15, MoveKeeps, Zenon

LEMMA TimerIsForgotten ==
  ASSUME NEW q \in ConnType
  PROVE  LET r == [q EXCEPT !.timer = NULL]
         IN  /\ r \in ConnType /\ r.timer = NULL
             /\ r.state = q.state /\ r.incoming = q.incoming
             /\ r.hassend = q.hassend /\ r.key = q.key
  BY DEF ConnType

LEMMA SetErrorIs ==
  ASSUME NEW q \in ConnType, NEW e \in Errors
  PROVE  LET r == _tripc_set_error(q, e)
         IN  /\ r \in ConnType /\ r.state = "ERROR"
             /\ r.timer = q.timer /\ r.incoming = q.incoming
             /\ r.hassend = q.hassend /\ r.key = q.key
  <1>1. CASE q.state = "ERROR"
    BY <1>1 DEF _tripc_set_error
  <1>2. CASE q.state # "ERROR"
    <2> DEFINE r == [q EXCEPT !.error = e, !.state = "ERROR"]
    <2>1. r \in ConnType /\ r.state = "ERROR"
      BY DEF ConnType
    <2>2. r.timer = q.timer /\ r.incoming = q.incoming
      BY DEF ConnType
    <2>3. r.hassend = q.hassend /\ r.key = q.key
      BY DEF ConnType
    <2>4. _tripc_set_error(q, e) = r
      BY <1>2 DEF _tripc_set_error
    <2> HIDE DEF r
    <2> QED
      BY <2>1, <2>2, <2>3, <2>4
  <1> QED
    BY <1>1, <1>2

LEMMA ResolveTimesOut ==
  ASSUME IInv, NEW t \in Timers, _tripc_timeout_state_resolve_cb(t)
  PROVE  IInv'
  <1>1. PICK c \in Conns : c = wheel[t].c
    BY WhoFires DEF _tripc_timeout_state_resolve_cb, Callbacks
  <1>2. Set(t) /\ wheel[t].cb = "resolve" /\ conn[c] \in ConnType /\ Fits(t)
    BY <1>1, WhoFires DEF _tripc_timeout_state_resolve_cb, Callbacks
  <1>3. PICK r \in ConnType : r = [conn[c] EXCEPT !.timer = NULL] /\ r.timer = NULL
    BY <1>2, TimerIsForgotten, Zenon
  <1>4. PICK q \in ConnType : q = _tripc_set_error(r, "ETIME") /\ q.timer = NULL
    <2>1. "ETIME" \in Errors
      BY DEF Errors
    <2>2. /\ _tripc_set_error(r, "ETIME") \in ConnType
          /\ _tripc_set_error(r, "ETIME").timer = r.timer
      BY <2>1, SetErrorIs, Zenon
    <2> QED
      BY <1>3, <2>2, Zenon
  <1>5. request[conn[c].key] = c
    BY <1>1, <1>2 DEF Fits, FitsAs
  <1>6. /\ ResolveQueue!Leave(conn[c].key)
        /\ _trip_close_connection(q, c, t)
        /\ UNCHANGED <<asked, router>>
    BY <1>1, <1>3, <1>4 DEF _tripc_timeout_state_resolve_cb
  <1>7. answered' = answered
    BY <1>6 DEF ResolveQueue!Leave
  <1> QED
    BY <1>1, <1>2, <1>4, <1>5, <1>6, <1>7, CloseKeeps

LEMMA UnresolvedKeeps ==
  ASSUME IInv, NEW t \in Timers, _trip_resolve_delay_failure_cb(t)
  PROVE  IInv'
  <1>1. PICK c \in Conns : c = wheel[t].c
    BY WhoFires DEF _trip_resolve_delay_failure_cb, Callbacks
  <1>2. Set(t) /\ wheel[t].cb = "unresolved" /\ conn[c] \in ConnType /\ Fits(t)
    BY <1>1, WhoFires DEF _trip_resolve_delay_failure_cb, Callbacks
  <1>3. PICK q \in ConnType : q = conn[c]
    BY <1>2
  <1>4. q.timer = NULL
    BY <1>1, <1>2, <1>3 DEF Fits, FitsAs
  <1>5. _trip_close_connection(q, c, t) /\ UNCHANGED <<request, answered, asked, router>>
    BY <1>1, <1>3 DEF _trip_resolve_delay_failure_cb
  <1> QED
    BY <1>1, <1>2, <1>4, <1>5, CloseKeeps

LEMMA GiveUpKeeps ==
  ASSUME IInv, NEW t \in Timers, GiveUp(t)
  PROVE  IInv'
  <1>1. PICK c \in Conns : c = wheel[t].c
    BY WhoFires DEF GiveUp, Callbacks
  <1>2. Set(t) /\ wheel[t].cb = "resend" /\ conn[c] \in ConnType /\ Fits(t)
    BY <1>1, WhoFires DEF GiveUp, Callbacks
  <1>3. PICK q \in ConnType : q = _tripc_set_error(conn[c], "ETIME") /\ q.timer = conn[c].timer
    <2>1. "ETIME" \in Errors
      BY DEF Errors
    <2> QED
      BY <1>2, <2>1, SetErrorIs, Zenon
  <1>4. q.timer = t
    BY <1>1, <1>2, <1>3 DEF Fits, FitsAs
  <1>5. _trip_close_connection(q, c, t) /\ UNCHANGED <<request, answered, asked, router>>
    BY <1>1, <1>3 DEF GiveUp
  <1> QED
    BY <1>1, <1>2, <1>4, <1>5, CloseKeeps

\* c begins, or goes on, to send with resends: its entry becomes one that
\* resends, and c is marked.
LEMMA ResendsKeep ==
  ASSUME IInv,
         NEW c \in Conns, NEW t \in Timers, NEW n \in Unused, NEW q \in ConnType,
         Set(t), wheel[t].c = c, wheel[t].cb # "resolve", n = NewTimer,
         c \in alive,
         wheel' = SetTimeout(t, "resend", c),
         conn' = [conn EXCEPT ![c] = q],
         q.state \in {"OPEN", "PING"}, q.timer = n, ~q.incoming,
         _tripc_set_send(c),
         UNCHANGED <<alive, mapped, told>>,
         UNCHANGED <<request, answered, asked, router>>
  PROVE  IInv'
  <1>1. FitsAs(n, "resend", c, q, request', asked')
    BY DEF FitsAs
  <1>2. \A k \in asked : request[k] # c
    BY WhoIsAsked
  <1>3. KeysLead("resend", c, q, request', asked')
    BY <1>2 DEF KeysLead
  <1>4. /\ request' \in [Keys -> Conns \cup {"none", "gone"}]
        /\ answered' \in Conns \cup {NULL}
        /\ asked' \subseteq Keys
        /\ router' \in {"LISTEN", "CLOSE", "UNBIND", "ERROR"}
    BY DEF IInv, TypeOK
  <1>5. \A k \in Keys : request[k] \in Conns \ {c} =>
          request'[k] = request[k] /\ (k \in asked' => k \in asked)
    OBVIOUS
  <1>6. SendInv'
    <2>1. alive' = alive \cup {c} /\ q.state \in {"OPEN", "CHAL", "PING"}
      OBVIOUS
    <2> QED
      BY <2>1, SendJoins DEF IInv
  <1>7. "resend" \in Callbacks
    BY DEF Callbacks
  <1> QED
    BY <1>1, <1>3, <1>4, <1>5, <1>6, <1>7, MoveKeeps, Zenon

\* What the fields q become as a packet is to be sent for the retry-th time.
Resending(q, state, retry, n) ==
  [q EXCEPT !.state = state, !.hassend = TRUE, !.retry = retry, !.timer = n]

LEMMA ResendFields ==
  ASSUME IInv, NEW c \in Conns, NEW n \in Timers,
         NEW state, state \in {"OPEN", "PING"}, NEW retry, retry \in 0..(MaxRetry + 1)
  PROVE  \E q \in ConnType :
           /\ q = Resending(conn[c], state, retry, n)
           /\ q.state = state /\ q.timer = n /\ q.incoming = conn[c].incoming
  <1> DEFINE q == Resending(conn[c], state, retry, n)
  <1>1. conn[c] \in ConnType
    BY DEF IInv, TypeOK
  <1>2. q \in ConnType
    BY <1>1 DEF ConnType, Resending
  <1>3. q.state = state /\ q.timer = n
    BY <1>1 DEF ConnType, Resending
  <1>4. q.incoming = conn[c].incoming
    BY <1>1 DEF ConnType, Resending
  <1> QED
    BY <1>2, <1>3, <1>4, Zenon

LEMMA ResolvedKeeps ==
  ASSUME IInv, NEW t \in Timers, _trip_resolve_delay_success_cb(t)
  PROVE  IInv'
  <1>1. PICK c \in Conns : c = wheel[t].c
    BY WhoFires DEF _trip_resolve_delay_success_cb, Callbacks
  <1>2. /\ Set(t) /\ wheel[t].cb = "resolved" /\ c \in alive /\ ~conn[c].incoming
    BY <1>1, WhoFires DEF _trip_resolve_delay_success_cb, Callbacks
  <1>3. PICK n \in Unused : n = NewTimer /\ n \in Timers
    BY <1>2, NewTimerIs
  <1>4. "OPEN" \in {"OPEN", "PING"} /\ 1 \in 0..(MaxRetry + 1)
    BY CountsAreNat
  <1>5. PICK q \in ConnType :
          /\ q = Resending(conn[c], "OPEN", 1, n)
          /\ q.state = "OPEN" /\ q.timer = n /\ q.incoming = conn[c].incoming
    BY <1>3, <1>4, ResendFields
  <1>6. /\ conn' = [conn EXCEPT ![c].state = "OPEN", ![c].hassend = TRUE,
                                ![c].retry = 1, ![c].timer = n]
        /\ wheel' = SetTimeout(t, "resend", c)
        /\ _tripc_set_send(c)
        /\ UNCHANGED <<alive, mapped, told>>
        /\ UNCHANGED <<request, answered, asked, router>>
    BY <1>1, <1>3 DEF _trip_resolve_delay_success_cb
  <1>7. conn' = [conn EXCEPT ![c] = q]
    BY <1>5, <1>6 DEF IInv, TypeOK, Resending
  <1>8. ~q.incoming /\ q.state \in {"OPEN", "PING"} /\ wheel[t].cb # "resolve"
    BY <1>2, <1>5
  <1> QED
    BY <1>1, <1>2, <1>3, <1>5, <1>6, <1>7, <1>8, ResendsKeep, Zenon

LEMMA ResendKeeps ==
  ASSUME IInv, NEW t \in Timers, Resend(t)
  PROVE  IInv'
  <1>1. PICK c \in Conns : c = wheel[t].c
    BY WhoFires DEF Resend, Callbacks
  <1>2. /\ Set(t) /\ wheel[t].cb = "resend" /\ c \in alive
        /\ ~conn[c].incoming /\ conn[c] \in ConnType /\ Fits(t)
    BY <1>1, WhoFires DEF Resend, Callbacks
  <1>3. PICK n \in Unused : n = NewTimer /\ n \in Timers
    BY <1>2, NewTimerIs
  <1>4. /\ conn[c].retry <= MaxRetry
        /\ conn' = [conn EXCEPT ![c].hassend = TRUE, ![c].retry = @ + 1, ![c].timer = n]
        /\ wheel' = SetTimeout(t, "resend", c)
        /\ _tripc_set_send(c)
        /\ UNCHANGED <<alive, mapped, told>>
        /\ UNCHANGED <<request, answered, asked, router>>
    BY <1>1, <1>3 DEF Resend
  <1>5. PICK state \in {"OPEN", "PING"} : state = conn[c].state
    BY <1>1, <1>2 DEF Fits, FitsAs
  <1>6. PICK retry \in 0..(MaxRetry + 1) : retry = conn[c].retry + 1
    BY <1>2, <1>4, CountsAreNat DEF ConnType
  <1>7. PICK q \in ConnType :
          /\ q = Resending(conn[c], state, retry, n)
          /\ q.state = state /\ q.timer = n /\ q.incoming = conn[c].incoming
    BY <1>3, <1>5, <1>6, ResendFields
  <1>8. conn' = [conn EXCEPT ![c] = q]
    <2>1. q = [conn[c] EXCEPT !.hassend = TRUE, !.retry = retry, !.timer = n]
      BY <1>2, <1>5, <1>7 DEF ConnType, Resending
    <2> QED
      BY <1>2, <1>4, <1>6, <2>1 DEF IInv, TypeOK
  <1>9. ~q.incoming /\ q.state \in {"OPEN", "PING"} /\ wheel[t].cb # "resolve"
    BY <1>2, <1>7
  <1> QED
    BY <1>1, <1>2, <1>3, <1>4, <1>7, <1>8, <1>9, ResendsKeep, Zenon

-----------------------------------------------------------------------------
(* Every step keeps the invariant: answers.                                *)

\* Nobody waits for the answer any more.
LEMMA LateKeeps ==
  ASSUME IInv, NEW k \in asked,
         asked' = asked \ {k}, request[k] = "gone",
         request' = [request EXCEPT ![k] = "none"],
         answered' = NULL,
         UNCHANGED <<conn, wheel, alive, mapped, told, sendq, router>>
  PROVE  IInv'
  <1> USE DEF IInv
  <1>1. /\ conn' = conn /\ wheel' = wheel /\ alive' = alive /\ UNCHANGED sendq
        /\ mapped' = mapped /\ told' = told /\ router' = router
    OBVIOUS
  <1>2. \A j \in Keys : j # k => request'[j] = request[j]
    BY DEF TypeOK
  <1>3. TypeOK'
    <2>1. Insend' = Insend /\ adrift' = adrift
      BY <1>1, QueueStays DEF SendInv
    <2>2. request' \in [Keys -> Conns \cup {"none", "gone"}]
      BY DEF TypeOK
    <2> QED
      BY <1>1, <2>1, <2>2 DEF TypeOK
  <1>4. EntriesFit'
    <2> SUFFICES ASSUME NEW t \in Timers, Set(t)'
                 PROVE  Opened(wheel[t].c)' /\ Fits(t)'
      BY DEF EntriesFit
    <2>1. Set(t)
      BY <1>1 DEF Set
    <2>2. Opened(wheel[t].c) /\ Fits(t)
      BY <2>1 DEF WheelInv, EntriesFit
    <2>3. wheel[t].c \in Conns
      BY <2>1, SetCalls
    <2>4. \A j \in Keys : request[j] = wheel[t].c => request'[j] = wheel[t].c
      BY <1>2, <2>3, NoConnIsAString
    <2>5. FitsAs(t, wheel[t].cb, wheel[t].c, conn[wheel[t].c], request', asked')
      BY <2>2, <2>4 DEF Fits, FitsAs
    <2> QED
      BY <1>1, <2>2, <2>5 DEF Fits, Opened
  <1>5. AskedAreRight'
    BY <1>1, <1>2 DEF WheelInv, AskedAreRight, Opened, TypeOK
  <1>6. EntriesAreOne' /\ AllAreCalled' /\ IncomingRest' /\ OneIsUnused'
    BY <1>1 DEF WheelInv, EntriesAreOne, AllAreCalled, IncomingRest, OneIsUnused,
                Unused, Opened, Set
  <1>7. SendInv'
    BY <1>1, SendInvStays
  <1> QED
    BY <1>1, <1>3, <1>4, <1>5, <1>6, <1>7 DEF WheelInv

\* c has its answer: its resolve timer gives way to one that tells it.
LEMMA AnswerKeeps ==
  ASSUME IInv,
         NEW k \in asked, NEW c \in Conns, NEW cb \in {"resolved", "unresolved"},
         NEW q \in ConnType,
         asked' = asked \ {k}, request[k] = c,
         request' = [request EXCEPT ![k] = "none"],
         answered' = c,
         conn' = [conn EXCEPT ![c] = q],
         q.timer = NULL, q.incoming = conn[c].incoming, q.hassend = conn[c].hassend,
         q.state \in {conn[c].state, "ERROR"},
         wheel' = SetTimeout(conn[c].timer, cb, c),
         UNCHANGED <<alive, mapped, told>>, UNCHANGED <<sendq, router>>
  PROVE  IInv'
  <1>1. c # "gone"
    BY NoConnIsAString
  <1>2. Opened(c) /\ conn[c].key = k
    BY <1>1 DEF IInv, WheelInv, AskedAreRight
  <1>3. PICK t \in Timers : wheel[t] = [cb |-> "resolve", c |-> c]
    BY <1>1 DEF IInv, WheelInv, AskedAreRight
  <1>4. Set(t) /\ wheel[t].c = c /\ wheel[t].cb = "resolve"
    BY <1>3 DEF Set, Unset
  <1>5. conn[c].timer = t /\ conn[c].state \in {"RESOLVE", "ERROR"} /\ ~conn[c].hassend
    BY <1>4 DEF IInv, WheelInv, EntriesFit, Fits, FitsAs
  <1>6. PICK n \in Unused : n = NewTimer /\ n \in Timers
    BY <1>4, NewTimerIs
  <1>7. wheel' = SetTimeout(t, cb, c)
    BY <1>5
  <1>8. \A j \in Keys : j # k => request'[j] = request[j]
    BY DEF IInv, TypeOK
  <1>9. FitsAs(n, cb, c, q, request', asked')
    BY <1>5 DEF FitsAs
  <1>10. \A j \in asked : request[j] = c => j = k
    BY <1>2, <1>4, WhoIsAsked
  <1>11. asked \subseteq Keys
    BY DEF IInv, TypeOK
  <1>12. KeysLead(cb, c, q, request', asked')
    BY <1>8, <1>10, <1>11 DEF KeysLead
  <1>13. \A j \in Keys : request[j] \in Conns \ {c} =>
           request'[j] = request[j] /\ (j \in asked' => j \in asked)
    BY <1>8
  <1>14. /\ request' \in [Keys -> Conns \cup {"none", "gone"}]
         /\ answered' \in Conns \cup {NULL}
         /\ asked' \subseteq Keys
         /\ router' \in {"LISTEN", "CLOSE", "UNBIND", "ERROR"}
    BY DEF IInv, TypeOK
  <1>15. SendInv'
    <2>1. c \notin Insend
      BY <1>5 DEF IInv, SendInv, SendersAreFit
    <2>2. ~q.hassend /\ alive' = alive /\ UNCHANGED sendq
      BY <1>5
    <2> QED
      BY <2>1, <2>2, SendStays DEF IInv
  <1>16. cb \in Callbacks /\ ~q.incoming
    BY <1>2 DEF Callbacks, Opened
  <1> QED
    BY <1>4, <1>6, <1>7, <1>9, <1>12, <1>13, <1>14, <1>15, <1>16, MoveKeeps, Zenon

LEMMA ResolveKeeps ==
  ASSUME IInv, NEW k \in Keys, trip_resolve(k)
  PROVE  IInv'
  <1>1. /\ k \in asked /\ asked' = asked \ {k}
        /\ request[k] # "none"
        /\ answered' = IF request[k] = "gone" THEN NULL ELSE request[k]
        /\ request' = [request EXCEPT ![k] = "none"]
        /\ UNCHANGED <<alive, mapped, told>> /\ UNCHANGED <<sendq, router>>
    BY DEF trip_resolve, ResolveQueue!Answer, ResolveQueue!None, ResolveQueue!Gone
  <1>2. request[k] \in Conns \cup {"none", "gone"}
    BY DEF IInv, TypeOK
  <1>3. CASE answered' = NULL /\ UNCHANGED <<conn, wheel>>
    <2>1. request[k] = "gone"
      BY <1>1, <1>2, <1>3, NullIsNoAddress
    <2> QED
      BY <1>1, <1>3, <2>1, LateKeeps
  <1>4. CASE answered' # NULL
    <2>1. PICK c \in Conns : c = request[k] /\ c = answered'
      BY <1>1, <1>2, <1>4
    <2>2. conn[c] \in ConnType
      BY DEF IInv, TypeOK
    <2>3. PICK r \in ConnType :
            /\ r = [conn[c] EXCEPT !.timer = NULL]
            /\ r.timer = NULL /\ r.state = conn[c].state /\ r.incoming = conn[c].incoming
            /\ r.hassend = conn[c].hassend
      BY <2>2, TimerIsForgotten, Zenon
    <2>4. CASE /\ conn' = [conn EXCEPT ![answered'].timer = NULL]
               /\ wheel' = SetTimeout(conn[answered'].timer, "resolved", answered')
      <3>1. conn' = [conn EXCEPT ![c] = r]
        BY <2>1, <2>3, <2>4 DEF IInv, TypeOK
      <3>2. wheel' = SetTimeout(conn[c].timer, "resolved", c)
        BY <2>1, <2>4
      <3>3. "resolved" \in {"resolved", "unresolved"} /\ r.state \in {conn[c].state, "ERROR"}
        BY <2>3
      <3>4. request[k] = c /\ answered' = c
        BY <2>1
      <3> QED
        BY <1>1, <2>3, <3>1, <3>2, <3>3, <3>4, AnswerKeeps
    <2>5. CASE /\ conn' = [conn EXCEPT ![answered'] =
                             _tripc_set_error([conn[answered'] EXCEPT !.timer = NULL], "EPACKET")]
               /\ wheel' = SetTimeout(conn[answered'].timer, "unresolved", answered')
      <3>1. "EPACKET" \in Errors
        BY DEF Errors
      <3>2. PICK q \in ConnType :
              /\ q = _tripc_set_error(r, "EPACKET")
              /\ q.state = "ERROR" /\ q.timer = r.timer /\ q.incoming = r.incoming
              /\ q.hassend = r.hassend
        BY <3>1, SetErrorIs, Zenon
      <3>3. conn' = [conn EXCEPT ![c] = q]
        BY <2>1, <2>3, <2>5, <3>2
      <3>4. wheel' = SetTimeout(conn[c].timer, "unresolved", c)
        BY <2>1, <2>5
      <3>5. "unresolved" \in {"resolved", "unresolved"} /\ q.state \in {conn[c].state, "ERROR"}
        BY <3>2
      <3>6. request[k] = c /\ answered' = c
        BY <2>1
      <3>7. q.timer = NULL /\ q.incoming = conn[c].incoming /\ q.hassend = conn[c].hassend
        BY <2>3, <3>2
      <3> QED
        BY <1>1, <3>3, <3>4, <3>5, <3>6, <3>7, AnswerKeeps
    <2> QED
      BY <1>4, <2>4, <2>5 DEF trip_resolve
  <1> QED
    BY <1>3, <1>4 DEF trip_resolve

-----------------------------------------------------------------------------
(* Every step keeps the invariant: packets.                                *)

\* c's fields change, none of which its entry, if it has one, tells otherwise.
LEMMA StayKeeps ==
  ASSUME IInv, NEW c \in Conns, NEW q \in ConnType,
         c \in alive,
         conn' = [conn EXCEPT ![c] = q],
         q.incoming = conn[c].incoming, q.key = conn[c].key, q.timer = conn[c].timer,
         q.incoming => q.state = "CHAL",
         \A t \in Timers : Set(t) /\ wheel[t].c = c =>
           FitsAs(t, wheel[t].cb, c, q, request, asked),
         UNCHANGED <<alive, mapped, told, wheel>>,
         UNCHANGED <<request, answered, asked>>,
         router' = router,
         SendInv'
  PROVE  IInv'
  <1>1. /\ TypeOK /\ WheelInv /\ alive' = alive \cup {c} /\ wheel' = wheel
        /\ request' = request /\ asked' = asked
    BY DEF IInv
  <1>2. IF c \in alive THEN q.incoming = conn[c].incoming /\ q.key = conn[c].key
                       ELSE q.incoming
    OBVIOUS
  <1>3. q.incoming => q.state = "CHAL" /\ q.timer = NULL
    BY DEF IInv, WheelInv, IncomingRest
  <1>4. WheelInv'
    BY <1>1, <1>2, <1>3, StayIsRight, Zenon
  <1>5. Insend' \subseteq Conns /\ adrift' \in BOOLEAN
    BY DEF SendInv, QueueFit, QueueIsOnce, Insend, SendQueue!Waiting
  <1>6. TypeOK'
    BY <1>5 DEF IInv, TypeOK
  <1> QED
    BY <1>4, <1>6 DEF IInv

\* Which entry there is in a state that has one.
LEMMA WhatComes ==
  ASSUME IInv, NEW t \in Timers, Set(t)
  PROVE  /\ Opened(wheel[t].c) /\ Fits(t) /\ wheel[t].cb \in Callbacks
         /\ conn[wheel[t].c].state # "CHAL"
         /\ conn[wheel[t].c].state = "RESOLVE" =>
              wheel[t].cb \in {"resolve", "resolved", "unresolved"}
         /\ conn[wheel[t].c].state \in {"OPEN", "PING"} =>
              wheel[t].cb = "resend" /\ conn[wheel[t].c].timer = t
  <1>1. Opened(wheel[t].c) /\ Fits(t)
    BY DEF IInv, WheelInv, EntriesFit
  <1>2. wheel[t].cb \in Callbacks
    BY SetCalls DEF IInv
  <1> QED
    BY <1>1, <1>2 DEF Fits, FitsAs, Callbacks

LEMMA MarkIsSet ==
  ASSUME NEW q \in ConnType, NEW b \in BOOLEAN
  PROVE  LET r == [q EXCEPT !.hassend = b]
         IN  /\ r \in ConnType /\ r.hassend = b
             /\ r.state = q.state /\ r.timer = q.timer
             /\ r.incoming = q.incoming /\ r.key = q.key
  <1> DEFINE r == [q EXCEPT !.hassend = b]
  <1>1. r \in ConnType
    BY DEF ConnType
  <1>2. r.state = q.state /\ r.timer = q.timer /\ r.key = q.key
    BY DEF ConnType
  <1>3. r.incoming = q.incoming
    BY DEF ConnType
  <1>4. r.hassend = b
    BY DEF ConnType
  <1> QED
    BY <1>1, <1>2, <1>3, <1>4, Zenon

LEMMA ReadKeeps ==
  ASSUME IInv, NEW c \in Conns, _trip_segment(c)
  PROVE  IInv'
  <1>1. /\ c \in alive
        /\ UNCHANGED <<alive, mapped, told>>
        /\ UNCHANGED <<request, answered, asked, router>>
    BY DEF _trip_segment, IInv
  <1>2. conn[c] \in ConnType
    BY DEF IInv, TypeOK
  <1>3. CASE /\ conn[c].state = "RESOLVE"
             /\ conn' = [conn EXCEPT ![c] = _tripc_set_error(conn[c], "EINVAL")]
             /\ UNCHANGED <<wheel, sendq>>
    <2>1. "EINVAL" \in Errors
      BY DEF Errors
    <2>2. PICK q \in ConnType :
            /\ q = _tripc_set_error(conn[c], "EINVAL")
            /\ q.state = "ERROR" /\ q.timer = conn[c].timer /\ q.incoming = conn[c].incoming
            /\ q.hassend = conn[c].hassend /\ q.key = conn[c].key
      BY <1>2, <2>1, SetErrorIs, Zenon
    <2>3. conn' = [conn EXCEPT ![c] = q]
      BY <1>3, <2>2
    <2>4. ~q.incoming
      BY <1>1, <1>3, <2>2 DEF IInv, WheelInv, IncomingRest
    <2>5. \A t \in Timers : Set(t) /\ wheel[t].c = c =>
            FitsAs(t, wheel[t].cb, c, q, request, asked)
      <3> SUFFICES ASSUME NEW t \in Timers, Set(t), wheel[t].c = c
                   PROVE  FitsAs(t, wheel[t].cb, c, q, request, asked)
        OBVIOUS
      <3>1. wheel[t].cb \in {"resolve", "resolved", "unresolved"} /\ Fits(t)
        BY <1>3, WhatComes
      <3> QED
        BY <2>2, <3>1 DEF Fits, FitsAs
    <2>6. c \notin Insend
      BY <1>3 DEF IInv, SendInv, SendersAreFit
    <2>7. ~q.hassend
      BY <1>1, <1>3, <2>2, <2>6 DEF IInv, SendInv, MarkedIsQueued, Insend
    <2>8. SendInv'
      BY <1>1, <1>3, <2>3, <2>6, <2>7, SendStays DEF IInv
    <2>9. UNCHANGED <<alive, mapped, told, wheel>> /\ UNCHANGED <<request, answered, asked>>
          /\ router' = router
      BY <1>1, <1>3
    <2> QED
      BY <1>1, <2>2, <2>3, <2>4, <2>5, <2>8, <2>9, StayKeeps, Zenon
  <1>4. CASE ReadsChal(c)
    <2>1. /\ conn[c].state = "OPEN"
          /\ conn' = [conn EXCEPT ![c].state = "PING", ![c].hassend = TRUE,
                                  ![c].retry = 1, ![c].timer = NewTimer]
          /\ wheel' = SetTimeout(conn[c].timer, "resend", c)
          /\ _tripc_set_send(c)
      BY <1>4 DEF ReadsChal
    <2>2. ~conn[c].incoming
      BY <1>1, <2>1 DEF IInv, WheelInv, IncomingRest
    <2>3. PICK t \in Timers : wheel[t].c = c
      BY <1>1, <2>2 DEF IInv, WheelInv, AllAreCalled, Opened
    <2>4. Set(t)
      BY <2>3, SetCalls DEF IInv
    <2>5. wheel[t].cb = "resend" /\ conn[c].timer = t
      BY <2>1, <2>3, <2>4, WhatComes
    <2>6. PICK n \in Unused : n = NewTimer /\ n \in Timers
      BY <2>4, NewTimerIs
    <2>7. "PING" \in {"OPEN", "PING"} /\ 1 \in 0..(MaxRetry + 1)
      BY CountsAreNat
    <2>8. PICK q \in ConnType :
            /\ q = Resending(conn[c], "PING", 1, n)
            /\ q.state = "PING" /\ q.timer = n /\ q.incoming = conn[c].incoming
      BY <2>6, <2>7, ResendFields
    <2>9. conn' = [conn EXCEPT ![c] = q]
      BY <2>1, <2>6, <2>8 DEF IInv, TypeOK, Resending
    <2>10. wheel' = SetTimeout(t, "resend", c)
      BY <2>1, <2>5
    <2>11. ~q.incoming /\ q.state \in {"OPEN", "PING"} /\ wheel[t].cb # "resolve"
      BY <2>2, <2>5, <2>8
    <2> QED
      BY <1>1, <2>1, <2>3, <2>4, <2>6, <2>8, <2>9, <2>10, <2>11, ResendsKeep, Zenon
  <1>5. CASE ReadsPing(c)
    <2>1. /\ conn[c].state = "CHAL"
          /\ conn' = [conn EXCEPT ![c].hassend = FALSE]
          /\ UNCHANGED <<sendq, wheel>>
      BY <1>5 DEF ReadsPing
    <2>2. PICK q \in ConnType :
            /\ q = [conn[c] EXCEPT !.hassend = FALSE]
            /\ q.state = "CHAL" /\ q.timer = conn[c].timer /\ q.incoming = conn[c].incoming
            /\ ~q.hassend /\ q.key = conn[c].key
      <3>1. PICK b \in BOOLEAN : b = FALSE
        OBVIOUS
      <3>2. PICK q \in ConnType :
              /\ q = [conn[c] EXCEPT !.hassend = b] /\ q.hassend = b
              /\ q.state = conn[c].state /\ q.timer = conn[c].timer
              /\ q.incoming = conn[c].incoming /\ q.key = conn[c].key
        BY <1>2, MarkIsSet, Zenon
      <3>3. ~q.hassend /\ q.state = "CHAL"
        BY <2>1, <3>1, <3>2
      <3> QED
        BY <3>1, <3>2, <3>3, Zenon
    <2>3. conn' = [conn EXCEPT ![c] = q]
      BY <2>1, <2>2 DEF IInv, TypeOK
    <2>4. \A t \in Timers : Set(t) /\ wheel[t].c = c =>
            FitsAs(t, wheel[t].cb, c, q, request, asked)
      BY <2>1, WhatComes
    <2>5. SendInv'
      BY <1>1, <2>1, <2>2, <2>3, SendStays DEF IInv
    <2>6. UNCHANGED <<alive, mapped, told, wheel>> /\ UNCHANGED <<request, answered, asked>>
          /\ router' = router
      BY <1>1, <2>1
    <2> QED
      BY <1>1, <2>2, <2>3, <2>4, <2>5, <2>6, StayKeeps, Zenon
  <1> QED
    BY <1>3, <1>4, <1>5 DEF _trip_segment, _tripc_read

LEMMA SendKeeps ==
  ASSUME IInv, NEW c \in Conns, _tripc_send(c)
  PROVE  IInv'
  <1> USE DEF IInv
  <1>1. /\ c = Head(queue) /\ sendq_dq
        /\ conn' = [conn EXCEPT ![c].hassend = MarkedAfter(c)]
        /\ UNCHANGED <<alive, mapped, told, wheel>>
        /\ UNCHANGED <<request, answered, asked>>
    BY DEF _tripc_send
  <1>2. /\ QueueFit' /\ c \in Insend
        /\ Insend' = Insend \ {c}
    BY <1>1, DequeueUnqueues DEF SendInv
  <1>3. c \in alive /\ conn[c].state \in {"OPEN", "CHAL", "PING"} /\ conn[c] \in ConnType
    BY <1>2 DEF SendInv, SendersAreFit, TypeOK
  <1>4. router' = router
    BY <1>3 DEF _tripc_send
  <1>5. PICK b \in BOOLEAN : b = MarkedAfter(c)
    BY DEF MarkedAfter
  <1>6. PICK q \in ConnType :
          /\ q = [conn[c] EXCEPT !.hassend = b]
          /\ q.state = conn[c].state /\ q.timer = conn[c].timer
          /\ q.incoming = conn[c].incoming
          /\ q.hassend = b /\ q.key = conn[c].key
    BY <1>3, MarkIsSet, Zenon
  <1>7. conn' = [conn EXCEPT ![c] = q]
    BY <1>1, <1>5, <1>6 DEF TypeOK
  <1>8. \A t \in Timers : Set(t) /\ wheel[t].c = c =>
          FitsAs(t, wheel[t].cb, c, q, request, asked)
    <2> SUFFICES ASSUME NEW t \in Timers, Set(t), wheel[t].c = c
                 PROVE  FitsAs(t, wheel[t].cb, c, q, request, asked)
      OBVIOUS
    <2>1. /\ wheel[t].cb = "resend" /\ conn[c].timer = t
          /\ conn[c].state \in {"OPEN", "PING"}
      BY <1>3, WhatComes
    <2> QED
      BY <1>6, <2>1 DEF FitsAs
  <1>9. q.incoming => q.state = "CHAL"
    BY <1>3, <1>6 DEF WheelInv, IncomingRest
  <1>10. conn'[c] = q /\ \A d \in Conns : d # c => conn'[d] = conn[d]
    BY <1>7 DEF TypeOK
  <1>11. SendersAreFit'
    BY <1>1, <1>2, <1>10 DEF SendInv, SendersAreFit, TypeOK
  <1>12. q.hassend => q.state = "PING"
    BY <1>3, <1>5, <1>6 DEF MarkedAfter
  <1>13. MarkedIsQueued'
    BY <1>1, <1>2, <1>10, <1>12 DEF SendInv, MarkedIsQueued, TypeOK, Insend
  <1>14. SendInv'
    BY <1>2, <1>11, <1>13 DEF SendInv
  <1> QED
    BY <1>1, <1>3, <1>4, <1>6, <1>7, <1>8, <1>9, <1>14, StayKeeps, Zenon

-----------------------------------------------------------------------------
(* The theorems.                                                           *)

\* The router is closed when no connection is left, which changes none.
LEMMA RouterKeeps ==
  ASSUME IInv, StopBusy = FALSE, EnterClose \/ EnterUnbind \/ EnterError
  PROVE  IInv'
  <1>1. alive' = alive /\ mapped' = mapped
    BY DEF EnterClose, EnterUnbind, EnterError, _trip_close, IInv
  <1>2. /\ UNCHANGED <<conn, told, wheel, request, answered, asked, sendq>>
        /\ router' \in {"CLOSE", "UNBIND", "ERROR"}
    BY DEF EnterClose, EnterUnbind, EnterError
  <1>3. Insend' = Insend /\ adrift' = adrift
    BY <1>2, QueueStays DEF IInv, SendInv
  <1>4. TypeOK'
    BY <1>1, <1>2, <1>3 DEF IInv, TypeOK
  <1>5. EntriesFit'
    BY <1>1, <1>2 DEF IInv, WheelInv, EntriesFit, Opened, Fits, Set
  <1>6. EntriesAreOne' /\ AllAreCalled' /\ IncomingRest' /\ OneIsUnused' /\ AskedAreRight'
    BY <1>1, <1>2 DEF IInv, WheelInv, EntriesAreOne, AllAreCalled, IncomingRest,
                      OneIsUnused, AskedAreRight, Unused, Opened, Set
  <1>7. SendInv'
    BY <1>1, <1>2, SendInvStays DEF IInv
  <1> QED
    BY <1>1, <1>4, <1>5, <1>6, <1>7 DEF IInv, WheelInv

LEMMA StutterKeeps ==
  ASSUME IInv, UNCHANGED vars
  PROVE  IInv'
  <1>1. UNCHANGED <<conn, alive, mapped, told, wheel>> /\
        UNCHANGED <<request, answered, asked, sendq, router>>
    BY DEF vars
  <1>2. Insend' = Insend /\ adrift' = adrift
    BY <1>1, QueueStays DEF IInv, SendInv
  <1>3. TypeOK'
    BY <1>1, <1>2 DEF IInv, TypeOK
  <1>4. EntriesFit'
    BY <1>1 DEF IInv, WheelInv, EntriesFit, Opened, Fits, Set
  <1>5. EntriesAreOne' /\ AllAreCalled' /\ IncomingRest' /\ OneIsUnused' /\ AskedAreRight'
    BY <1>1 DEF IInv, WheelInv, EntriesAreOne, AllAreCalled, IncomingRest,
                OneIsUnused, AskedAreRight, Unused, Opened, Set
  <1>6. SendInv'
    BY <1>1, SendInvStays DEF IInv
  <1> QED
    BY <1>1, <1>3, <1>4, <1>5, <1>6 DEF IInv, WheelInv

LEMMA InitIsRight == Init => IInv
  <1> SUFFICES ASSUME Init PROVE IInv
    OBVIOUS
  <1>1. /\ conn = [c \in Conns |-> Freed] /\ alive = {} /\ mapped = {}
        /\ told = [c \in Conns |-> "none"] /\ wheel = [t \in Timers |-> Unset]
        /\ request = [k \in Keys |-> "none"] /\ answered = NULL
        /\ asked = {} /\ queue = <<>> /\ adrift = FALSE /\ lost = {}
        /\ router = "LISTEN"
    BY DEF Init, ResolveQueue!Init, ResolveQueue!None, SendQueue!Init
  <1>2. SendQueue!Waiting = {} /\ Insend = {}
    BY <1>1 DEF Insend, SendQueue!Waiting
  <1>3. Freed \in ConnType
    BY NewIsAConn DEF Freed
  <1>4. TypeOK
    BY <1>1, <1>2, <1>3 DEF TypeOK, Errors
  <1>5. \A t \in Timers : ~Set(t)
    BY <1>1 DEF Set
  <1>6. WheelInv
    BY <1>1, <1>5 DEF WheelInv, EntriesFit, EntriesAreOne, AllAreCalled, IncomingRest,
                      OneIsUnused, AskedAreRight
  <1>7. SendInv
    <2>1. QueueIsOnce
      BY <1>1 DEF QueueIsOnce
    <2>2. QueueFit
      BY <1>1, <1>2, <2>1 DEF QueueFit
    <2>3. SendersAreFit /\ MarkedIsQueued
      BY <1>1, <1>2 DEF SendersAreFit, MarkedIsQueued
    <2> QED
      BY <2>2, <2>3 DEF SendInv
  <1> QED
    BY <1>1, <1>4, <1>6, <1>7 DEF IInv

LEMMA NextIsRight ==
  ASSUME StopBusy = FALSE, IInv, [Next]_vars
  PROVE  IInv'
  <1>1. ASSUME NEW c \in Conns, trip_open_connection(c) \/ _trip_segment_open(c) PROVE IInv'
    BY <1>1, OpenKeeps, SegmentOpenKeeps
  <1>2. ASSUME NEW t \in Timers, Fire(t) PROVE IInv'
    BY <1>2, StartKeeps, ResolveTimesOut, ResolvedKeeps, UnresolvedKeeps, ResendKeeps,
       GiveUpKeeps DEF Fire
  <1>3. ASSUME NEW k \in Keys, trip_resolve(k) PROVE IInv'
    BY <1>3, ResolveKeeps
  <1>4. ASSUME NEW c \in Conns, _trip_segment(c) \/ _tripc_send(c) PROVE IInv'
    BY <1>4, ReadKeeps, SendKeeps
  <1>5. CASE EnterClose \/ EnterUnbind \/ EnterError
    BY <1>5, RouterKeeps
  <1>6. CASE UNCHANGED vars
    BY <1>6, StutterKeeps
  <1> QED
    BY <1>1, <1>2, <1>3, <1>4, <1>5, <1>6 DEF Next

\* As long as the router is not stopped while it has connections, what the wheel
\* knows of the connections it will call stays true of them.
THEOREM Invariant == ASSUME StopBusy = FALSE PROVE Spec => []IInv
  <1>1. Init => IInv
    BY InitIsRight
  <1>2. IInv /\ [Next]_vars => IInv'
    BY NextIsRight
  <1> QED
    BY <1>1, <1>2, PTL DEF Spec

\* Every field of a connection and of what points to it has a value the code can
\* give it (struct trip_connection, conn.h:52).
THEOREM TypeCorrect == ASSUME StopBusy = FALSE PROVE Spec => []TypeOK
  <1>1. IInv => TypeOK
    BY DEF IInv
  <1> QED
    BY <1>1, Invariant, PTL

\* An outgoing connection has one callback to come, and a freed one has none
\* (trip.c:956): of an attempt to open a connection the end, or the next resend,
\* is always planned, and only once.
THEOREM OneCallbackHolds == ASSUME StopBusy = FALSE PROVE Spec => []OneCallback
  <1>1. ASSUME IInv PROVE OneCallback
    <2> SUFFICES ASSUME NEW c \in Conns
                 PROVE  Cardinality(CallsTo(c)) = IF c \in alive /\ ~conn[c].incoming THEN 1 ELSE 0
      BY DEF OneCallback
    <2>1. \A t \in CallsTo(c) : t \in Timers /\ Set(t) /\ wheel[t].c = c
      BY <1>1, SetCalls DEF IInv, CallsTo
    <2>2. CASE Opened(c)
      <3>1. PICK t \in Timers : wheel[t].c = c
        BY <1>1, <2>2 DEF IInv, WheelInv, AllAreCalled, Opened
      <3>2. CallsTo(c) = {t}
        BY <1>1, <2>1, <3>1 DEF IInv, WheelInv, EntriesAreOne, CallsTo
      <3>3. Cardinality(CallsTo(c)) = 1
        BY <3>2, FS_Singleton, Zenon
      <3> QED
        BY <2>2, <3>3 DEF Opened
    <2>3. CASE ~Opened(c)
      <3>1. CallsTo(c) = {}
        BY <1>1, <2>1, <2>3 DEF IInv, WheelInv, EntriesFit
      <3>2. Cardinality(CallsTo(c)) = 0
        BY <3>1, FS_EmptySet, Zenon
      <3> QED
        BY <2>3, <3>2 DEF Opened
    <2> QED
      BY <2>2, <2>3
  <1> QED
    BY <1>1, Invariant, PTL

\* The timer a connection points to is its own, and is the one of its state
\* (conn.c:273-287): canceling it cancels nobody else's.
THEOREM TimerIsOwnHolds == ASSUME StopBusy = FALSE PROVE Spec => []TimerIsOwn
  <1>1. ASSUME IInv PROVE TimerIsOwn
    <2> SUFFICES ASSUME NEW c \in alive, conn[c].timer # NULL
                 PROVE  /\ wheel[conn[c].timer].c = c
                        /\ wheel[conn[c].timer].cb \in {"resolve", "resend"}
      BY DEF TimerIsOwn
    <2>1. Opened(c)
      BY <1>1 DEF IInv, WheelInv, IncomingRest, Opened
    <2>2. PICK t \in Timers : wheel[t].c = c
      BY <1>1, <2>1 DEF IInv, WheelInv, AllAreCalled
    <2>3. c \in Conns
      BY <1>1 DEF IInv, TypeOK
    <2>4. Set(t) /\ Fits(t) /\ wheel[t].cb \in Callbacks
      BY <1>1, <2>2, <2>3, SetCalls DEF IInv, WheelInv, EntriesFit
    <2> QED
      BY <2>2, <2>4 DEF Fits, FitsAs, Callbacks
  <1> QED
    BY <1>1, Invariant, PTL

\* A key the packet interface still holds leads to the connection that waits
\* under it or to nobody, also after its memory went to another connection
\* (trip.c:948-960).
THEOREM AnswerFindsItsOwnHolds == ASSUME StopBusy = FALSE PROVE Spec => []AnswerFindsItsOwn
  <1>1. ASSUME IInv PROVE AnswerFindsItsOwn
    <2> SUFFICES ASSUME NEW k \in asked, request[k] # "gone"
                 PROVE  /\ request[k] \in alive
                        /\ conn[request[k]].key = k
                        /\ \E t \in CallsTo(request[k]) : wheel[t].cb = "resolve"
      BY DEF AnswerFindsItsOwn
    <2>1. Opened(request[k]) /\ conn[request[k]].key = k
      BY <1>1 DEF IInv, WheelInv, AskedAreRight
    <2>2. PICK t \in Timers : wheel[t] = [cb |-> "resolve", c |-> request[k]]
      BY <1>1 DEF IInv, WheelInv, AskedAreRight
    <2>3. t \in CallsTo(request[k]) /\ wheel[t].cb = "resolve"
      BY <2>2 DEF CallsTo
    <2> QED
      BY <2>1, <2>3 DEF Opened
  <1> QED
    BY <1>1, Invariant, PTL

\* Whoever is marked to be in the send queue is allocated and may send, so that no
\* turn fails the router (trip.c:326-332).
THEOREM SendersAreFitHolds == ASSUME StopBusy = FALSE PROVE Spec => []SendersAreFit
  <1>1. IInv => SendersAreFit
    BY DEF IInv, SendInv
  <1> QED
    BY <1>1, Invariant, PTL

\* What a connection has marked to be sent is in the send queue (_tripc_set_send,
\* conn.c:85), or it is linked behind one that was given up.
THEOREM MarkedIsQueuedHolds == ASSUME StopBusy = FALSE PROVE Spec => []MarkedIsQueued
  <1>1. IInv => MarkedIsQueued
    BY DEF IInv, SendInv
  <1> QED
    BY <1>1, Invariant, PTL

-----------------------------------------------------------------------------
(* As long as the last one of the queue is not given up.                   *)

\* The last one of the queue is not closed in this step.
TailStays == \A c \in alive \ alive' : queue # <<>> => c # queue[Len(queue)]

AllAreReached == lost = {} /\ ~adrift

\* What a connection has marked to be sent is where a turn will find it.
MarkedIsReached ==
  \A c \in alive : conn[c].hassend => c \in SendQueue!Waiting \/ conn[c].state = "PING"

LEMMA MarkReaches ==
  ASSUME AllAreReached, NEW c \in Conns, _tripc_set_send(c)
  PROVE  AllAreReached'
  BY DEF AllAreReached, _tripc_set_send, sendq_nq, sendq

LEMMA CloseReaches ==
  ASSUME TypeOK, AllAreReached, TailStays,
         NEW q, NEW t, NEW c \in alive, _trip_close_connection(q, c, t)
  PROVE  AllAreReached'
  <1>1. sendq_del(c) /\ c \in alive \ alive'
    BY DEF _trip_close_connection
  <1>2. CASE UNCHANGED sendq
    BY <1>2 DEF AllAreReached, sendq
  <1>3. CASE /\ SendQueue!Leave(c) /\ UNCHANGED lost
             /\ adrift' = (adrift \/ c = queue[Len(queue)])
    <2>1. queue # <<>>
      BY <1>3 DEF SendQueue!Leave
    <2>2. c # queue[Len(queue)]
      BY <1>1, <2>1 DEF TailStays
    <2> QED
      BY <1>3, <2>2 DEF AllAreReached
  <1> QED
    BY <1>1, <1>2, <1>3 DEF sendq_del, AllAreReached

LEMMA NextReaches ==
  ASSUME TypeOK, AllAreReached, [Next]_vars, [TailStays]_vars
  PROVE  AllAreReached'
  <1>1. CASE UNCHANGED vars
    BY <1>1 DEF vars, sendq, AllAreReached
  <1>2. CASE UNCHANGED sendq
    BY <1>2 DEF sendq, AllAreReached
  <1>3. ASSUME NEW c \in Conns, _tripc_set_send(c) PROVE AllAreReached'
    BY <1>3, MarkReaches
  <1>4. ASSUME NEW q, NEW t, NEW c \in alive, _trip_close_connection(q, c, t)
        PROVE  AllAreReached'
    <2>1. CASE TailStays
      BY <1>4, <2>1, CloseReaches
    <2> QED
      BY <1>1, <2>1
  <1>5. ASSUME NEW c \in Conns, trip_open_connection(c) \/ _trip_segment_open(c)
        PROVE  AllAreReached'
    BY <1>2, <1>3, <1>5 DEF trip_open_connection, _trip_segment_open
  <1>6. ASSUME NEW t \in Timers, Fire(t) PROVE AllAreReached'
    <2>1. CASE _trip_open_connection_async_cb(t)
      BY <1>2, <2>1 DEF _trip_open_connection_async_cb
    <2>2. CASE _tripc_timeout_state_resolve_cb(t) \/ _trip_resolve_delay_failure_cb(t) \/ GiveUp(t)
      BY <1>4, <2>2 DEF _tripc_timeout_state_resolve_cb, _trip_resolve_delay_failure_cb,
                        GiveUp, Fires
    <2>3. CASE _trip_resolve_delay_success_cb(t) \/ Resend(t)
      <3>1. wheel[t].c \in Conns
        BY <2>3 DEF _trip_resolve_delay_success_cb, Resend, Fires, TypeOK
      <3> QED
        BY <1>3, <2>3, <3>1 DEF _trip_resolve_delay_success_cb, Resend
    <2> QED
      BY <1>6, <2>1, <2>2, <2>3 DEF Fire
  <1>7. ASSUME NEW k \in Keys, trip_resolve(k) PROVE AllAreReached'
    BY <1>2, <1>7 DEF trip_resolve
  <1>8. ASSUME NEW c \in Conns, _trip_segment(c) PROVE AllAreReached'
    BY <1>2, <1>3, <1>8 DEF _trip_segment, _tripc_read, ReadsChal, ReadsPing
  <1>9. ASSUME NEW c \in Conns, _tripc_send(c) PROVE AllAreReached'
    BY <1>9 DEF _tripc_send, sendq_dq, AllAreReached
  <1>10. CASE EnterClose \/ EnterUnbind \/ EnterError
    BY <1>2, <1>10 DEF EnterClose, EnterUnbind, EnterError
  <1> QED
    BY <1>1, <1>5, <1>6, <1>7, <1>8, <1>9, <1>10 DEF Next

\* As long as no connection is given up while it is the last of the queue, what is
\* marked will have its turn: sendq_del (sendq.c:62-82) is all that takes one out
\* of the queue's reach.
THEOREM MarkedIsReachedHolds ==
  ASSUME StopBusy = FALSE
  PROVE  Spec /\ [][TailStays]_vars => []MarkedIsReached
  <1>1. Init => AllAreReached
    BY DEF Init, AllAreReached
  <1>2. IInv /\ AllAreReached /\ [Next]_vars /\ [TailStays]_vars => AllAreReached'
    BY NextReaches DEF IInv
  <1>3. IInv /\ AllAreReached => MarkedIsReached
    BY DEF IInv, SendInv, MarkedIsQueued, AllAreReached, MarkedIsReached
  <1> QED
    BY <1>1, <1>2, <1>3, Invariant, PTL DEF Spec
=============================================================================
