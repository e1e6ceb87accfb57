----------------------------- MODULE SendQProofs -----------------------------
(***************************************************************************)
(* Proofs about the send queue and the pass that serves it, for any number  *)
(* of connections and any limits.                                          *)
(***************************************************************************)
EXTENDS SendQ, ProofFacts, FiniteSetTheorems, TLAPS

PassType ==
  [at       : {"idle", "resend", "pick", "send", "write"},
   timer    : BOOLEAN,
   c        : Conns \cup {NULL},
   connsent : 0..MaxConnSend,
   sent     : Nat]

\* A pass in which a connection has its turn: a packet of its is to be made, or sent.
OfTurn(p) == p.at \in {"send", "write"}

\* How much a pass has sent where it is: before a turn, no more than the limit;
\* in it, no more than that and what the turn has added.
SentSoFar ==
  /\ pass.at \in {"idle", "resend"} => pass.sent = 0
  /\ pass.at = "pick" => pass.sent <= MaxPacketSend
  /\ OfTurn(pass) => pass.sent <= MaxPacketSend + pass.connsent /\ pass.c \in Conns
  /\ pass.at = "write" => pass.connsent < MaxConnSend

\* The timer also covers the connection whose turn it is, which may be put back.
Covered == head # NULL \/ OfTurn(pass) => wakeup

PassInv == pass \in PassType /\ SentSoFar

\* p->send is called with the packet of the connection whose turn it is.
WriteInv == pass.at = "write" => buf = pass.c

IInv == TypeOK /\ PassInv /\ RetryHasItsSource /\ WriteInv /\ Covered

\* A pass that is no turn, and one that begins.
LEMMA NoPassIsFit ==
  /\ NoPass \in PassType /\ NoPass.at = "idle" /\ NoPass.sent = 0
  BY CountsArePositive DEF NoPass, PassType

LEMMA BegunIsFit ==
  ASSUME NEW p, p \in {[NoPass EXCEPT !.at = Resend],
                       [NoPass EXCEPT !.at = Resend, !.timer = TRUE]}
  PROVE  p \in PassType /\ p.at \in {"resend", "pick"} /\ p.sent = 0
  <1>1. Resend \in {"resend", "pick"}
    BY DEF Resend
  <1>2. p.at = Resend /\ p.sent = 0
    BY NoPassIsFit DEF PassType
  <1>3. p \in PassType
    BY <1>1, NoPassIsFit DEF PassType
  <1> QED
    BY <1>1, <1>2, <1>3

\* Where the pass is and what it has sent.
LEMMA PassKeeps ==
  ASSUME IInv, [Next]_vars
  PROVE  PassInv'
  <1>1. /\ pass \in PassType /\ SentSoFar
        /\ head # NULL => head \in Conns
    BY DEF IInv, PassInv, TypeOK
  <1>2. CASE pass' = pass
    BY <1>1, <1>2 DEF PassInv, SentSoFar
  <1>3. CASE pass' = NoPass
    BY <1>3, NoPassIsFit, CountsArePositive DEF PassInv, SentSoFar, OfTurn
  <1>4. CASE pass' \in {[NoPass EXCEPT !.at = Resend],
                        [NoPass EXCEPT !.at = Resend, !.timer = TRUE]}
    <2>1. pass' \in PassType /\ pass'.at \in {"resend", "pick"} /\ pass'.sent = 0
      BY <1>4, BegunIsFit
    <2> QED
      BY <2>1, CountsArePositive DEF PassInv, SentSoFar, OfTurn
  <1>6. CASE pass' = [pass EXCEPT !.at = "pick", !.sent = 1]
    <2>1. pass' \in PassType /\ pass'.at = "pick" /\ pass'.sent = 1
      BY <1>1, <1>6 DEF PassType
    <2> QED
      BY <2>1, CountsArePositive DEF PassInv, SentSoFar, OfTurn
  <1>7. CASE /\ pass' = [pass EXCEPT !.at = "pick"]
             /\ pass.sent <= MaxPacketSend \/ pass.at = "resend"
    <2>1. pass' \in PassType /\ pass'.at = "pick" /\ pass'.sent = pass.sent
      BY <1>1, <1>7 DEF PassType
    <2>2. pass.sent <= MaxPacketSend
      BY <1>1, <1>7, CountsArePositive DEF SentSoFar
    <2> QED
      BY <2>1, <2>2 DEF PassInv, SentSoFar, OfTurn
  <1>8. CASE /\ pass' = [pass EXCEPT !.at = "send", !.c = head, !.connsent = 0]
             /\ pass.at = "pick" /\ head # NULL
    <2>1. /\ pass' \in PassType /\ pass'.at = "send" /\ pass'.c = head
          /\ pass'.connsent = 0 /\ pass'.sent = pass.sent
      <3>1. 0 \in 0..MaxConnSend /\ head \in Conns
        BY <1>1, <1>8, CountsArePositive
      <3>2. pass' \in PassType
        BY <1>1, <1>8, <3>1 DEF PassType
      <3> QED
        BY <1>1, <1>8, <3>2 DEF PassType
    <2>2. pass.sent <= MaxPacketSend /\ pass.sent \in Nat
      BY <1>1, <1>8 DEF SentSoFar, PassType
    <2> QED
      BY <1>1, <1>8, <2>1, <2>2, CountsArePositive DEF PassInv, SentSoFar, OfTurn
  <1>5. CASE /\ pass' = [pass EXCEPT !.at = "write"]
             /\ pass.at = "send" /\ pass.connsent < MaxConnSend
    <2>1. /\ pass' \in PassType /\ pass'.at = "write" /\ pass'.c = pass.c
          /\ pass'.connsent = pass.connsent /\ pass'.sent = pass.sent
      BY <1>1, <1>5 DEF PassType
    <2> QED
      BY <1>1, <1>5, <2>1 DEF PassInv, SentSoFar, OfTurn
  <1>9. CASE /\ pass' = [pass EXCEPT !.at = "send", !.connsent = @ + 1, !.sent = @ + 1]
             /\ pass.at = "write"
    <2>1. /\ pass.connsent \in 0..MaxConnSend /\ pass.sent \in Nat
          /\ pass.sent <= MaxPacketSend + pass.connsent /\ pass.connsent < MaxConnSend
      BY <1>1, <1>9 DEF PassType, SentSoFar, OfTurn
    <2>2. pass.connsent + 1 \in 0..MaxConnSend /\ pass.sent + 1 \in Nat
      BY <1>9, <2>1, CountsArePositive
    <2>3. pass' \in PassType
      BY <1>1, <1>9, <2>2 DEF PassType
    <2>4. /\ pass'.at = "send" /\ pass'.c = pass.c
          /\ pass'.connsent = pass.connsent + 1 /\ pass'.sent = pass.sent + 1
      BY <1>1, <1>9 DEF PassType
    <2>5. pass'.sent <= MaxPacketSend + pass'.connsent
      BY <2>1, <2>4, CountsArePositive
    <2> QED
      BY <1>1, <1>9, <2>3, <2>4, <2>5 DEF PassInv, SentSoFar, OfTurn
  <1>10. CASE \E c \in Conns : _tripc_init(c) \/ _trip_qconnection(c) \/ _trip_close_connection(c)
    BY <1>2, <1>10 DEF _tripc_init, _trip_qconnection, _trip_close_connection
  <1>11. CASE _trip_listen \/ _trip_send_immediately_cb
    BY <1>2, <1>4, <1>11 DEF _trip_listen, _trip_send_immediately_cb
  <1>12. \A q : EndPass(q) => pass' = NoPass
    BY DEF EndPass
  <1>13. CASE ResendPacket
    BY <1>3, <1>6, <1>7, <1>12, <1>13 DEF ResendPacket
  <1>14. CASE PickNext \/ NothingToPick
    BY <1>3, <1>8, <1>12, <1>14 DEF PickNext, NothingToPick, sendq_dq
  <1>15. CASE MakePacket \/ SendPacket
    BY <1>5, <1>9, <1>15 DEF MakePacket, SendPacket, InTurn
  <1>16. CASE PacketBlocked \/ PacketFails \/ SendError
    BY <1>3, <1>12, <1>16 DEF PacketBlocked, PacketFails, SendError
  <1>17. CASE DoneSending
    BY <1>3, <1>7, <1>12, <1>17 DEF DoneSending, EndTurn
  <1>18. CASE Requeue
    BY <1>3, <1>7, <1>18 DEF Requeue, EndTurn, EndPass
  <1>19. CASE UNCHANGED vars
    BY <1>2, <1>19 DEF vars
  <1> QED
    BY <1>10, <1>11, <1>13, <1>14, <1>15, <1>16, <1>17, <1>18, <1>19 DEF Next, Listen

\* The queue and the connections, and what the buffer holds.
LEMMA QueueTypeKeeps ==
  ASSUME IInv, [Next]_vars
  PROVE  /\ {head', tail', buf', sendsrc'} \subseteq Conns \cup {NULL}
         /\ next' \in [Conns -> Conns \cup {NULL}]
         /\ insend' \subseteq Conns /\ alive' \subseteq Conns
         /\ failed' \in BOOLEAN
         /\ RetryHasItsSource'
  <1>1. /\ head \in Conns \cup {NULL} /\ tail \in Conns \cup {NULL}
        /\ buf \in Conns \cup {NULL} /\ sendsrc \in Conns \cup {NULL}
        /\ next \in [Conns -> Conns \cup {NULL}]
        /\ insend \subseteq Conns /\ alive \subseteq Conns
        /\ failed \in BOOLEAN
        /\ RetryHasItsSource
    BY DEF IInv, TypeOK
  <1>2. pass \in PassType /\ (OfTurn(pass) => pass.c \in Conns)
    BY DEF IInv, PassInv, SentSoFar
  <1>3. ASSUME NEW c \in Conns, sendq_nq(c)
        PROVE  /\ head' \in Conns \cup {NULL} /\ tail' \in Conns \cup {NULL}
               /\ next' \in [Conns -> Conns \cup {NULL}]
               /\ insend' \subseteq Conns
    BY <1>1, <1>3 DEF sendq_nq, queueVars
  <1>4. ASSUME NEW c \in Conns, _tripc_init(c)
        PROVE  /\ next' \in [Conns -> Conns \cup {NULL}] /\ alive' \subseteq Conns
               /\ UNCHANGED <<head, tail, insend>> /\ UNCHANGED bufVars /\ UNCHANGED failed
    BY <1>1, <1>4 DEF _tripc_init
  <1>5. ASSUME NEW c \in Conns, _trip_close_connection(c)
        PROVE  /\ next' \in [Conns -> Conns \cup {NULL}] /\ alive' \subseteq Conns
               /\ insend' \subseteq Conns /\ head' \in Conns \cup {NULL}
               /\ UNCHANGED tail /\ UNCHANGED bufVars /\ UNCHANGED failed
    BY <1>1, <1>5 DEF _trip_close_connection, sendq_del
  <1>6. CASE \E c \in Conns : _tripc_init(c) \/ _trip_close_connection(c)
    BY <1>1, <1>4, <1>5, <1>6
    DEF _tripc_init, _trip_close_connection, bufVars, RetryHasItsSource
  <1>7. CASE \E c \in Conns : _trip_qconnection(c)
    BY <1>1, <1>3, <1>7 DEF _trip_qconnection, bufVars, RetryHasItsSource
  <1>8. CASE UNCHANGED queueVars /\ UNCHANGED alive
    <2>1. /\ head' \in Conns \cup {NULL} /\ tail' \in Conns \cup {NULL}
          /\ next' \in [Conns -> Conns \cup {NULL}]
          /\ insend' \subseteq Conns /\ alive' \subseteq Conns
      BY <1>1, <1>8 DEF queueVars
    <2>2. CASE UNCHANGED bufVars /\ UNCHANGED failed /\ pass.at # "write"
      BY <1>1, <2>1, <2>2 DEF bufVars, RetryHasItsSource
    <2>m. CASE MakePacket
      <3>1. pass'.at = "write" /\ buf' = pass.c /\ pass.c \in Conns
        BY <1>2, <2>m DEF MakePacket, InTurn, PassType, OfTurn
      <3> QED
        BY <1>1, <2>1, <2>m, <3>1 DEF MakePacket, RetryHasItsSource
    <2>3. CASE UNCHANGED bufVars /\ failed' = TRUE
      BY <1>1, <2>1, <2>3 DEF bufVars, RetryHasItsSource
    <2>4. CASE buf' = NULL /\ UNCHANGED sendsrc /\ failed' \in {failed, TRUE}
      BY <1>1, <2>1, <2>4 DEF RetryHasItsSource
    <2>5. CASE PacketBlocked
      <3>1. pass.c \in Conns /\ buf = pass.c
        BY <1>2, <2>5 DEF PacketBlocked, OfTurn, IInv, WriteInv
      <3> QED
        BY <1>1, <2>1, <2>5, <3>1 DEF PacketBlocked, RetryHasItsSource
    <2>u. CASE UNCHANGED vars
      BY <1>1, <2>1, <2>u DEF vars, bufVars, RetryHasItsSource
    <2>i. CASE \E c \in Conns : _tripc_init(c) \/ _trip_qconnection(c)
      BY <1>1, <2>1, <2>i DEF _tripc_init, _trip_qconnection, bufVars, RetryHasItsSource
    <2> QED
      BY <1>8, <2>2, <2>m, <2>3, <2>4, <2>5, <2>u, <2>i
      DEF Next, Listen, _trip_close_connection, Idle,
          _trip_listen, _trip_send_immediately_cb, ResendPacket, PickNext, NothingToPick,
          SendPacket, PacketFails, SendError, DoneSending, Requeue, bufVars
  <1>9. CASE PickNext
    BY <1>1, <1>9 DEF PickNext, sendq_dq, bufVars, RetryHasItsSource
  <1>10. CASE Requeue
    BY <1>1, <1>2, <1>3, <1>10 DEF Requeue, OfTurn, bufVars, RetryHasItsSource
  <1>11. CASE \/ _trip_listen \/ _trip_send_immediately_cb \/ ResendPacket \/ NothingToPick
              \/ MakePacket \/ SendPacket \/ PacketBlocked \/ PacketFails
              \/ SendError \/ DoneSending \/ UNCHANGED vars
    <2>1. UNCHANGED queueVars /\ UNCHANGED alive
      BY <1>11 DEF vars, _trip_listen, _trip_send_immediately_cb, ResendPacket, NothingToPick,
          MakePacket, SendPacket, PacketBlocked, PacketFails, SendError, DoneSending
    <2> QED
      BY <1>8, <2>1
  <1> QED
    BY <1>6, <1>7, <1>9, <1>10, <1>11 DEF Next, Listen

\* The timer for those who wait.
LEMMA WakeupKeeps ==
  ASSUME IInv, [Next]_vars
  PROVE  wakeup' \in BOOLEAN /\ Covered'
  <1>1. /\ wakeup \in BOOLEAN /\ (head # NULL \/ OfTurn(pass) => wakeup)
        /\ head \in Conns \cup {NULL}
    BY DEF IInv, TypeOK, Covered
  <1>2. ASSUME NEW q, EndPass(q), q # NULL => wakeup
        PROVE  ~OfTurn(pass') /\ wakeup' \in BOOLEAN /\ (q # NULL => wakeup')
    <2>1. ~OfTurn(pass')
      BY <1>2, NoPassIsFit DEF EndPass, OfTurn
    <2>2. CASE wakeup' = wakeup
      BY <1>1, <1>2, <2>1, <2>2, Zenon
    <2>3. CASE wakeup' = TRUE
      BY <2>1, <2>3, Zenon
    <2>4. CASE wakeup' = (q # NULL)
      BY <2>1, <2>4, Zenon
    <2>5. wakeup' = wakeup \/ wakeup' = TRUE \/ wakeup' = (q # NULL)
      BY <1>2, Zenon DEF EndPass
    <2> QED
      BY <2>1, <2>2, <2>3, <2>4, <2>5, Zenon
  <1>3. pass \in PassType
    BY DEF IInv, PassInv
  <1>4. CASE \E c \in Conns : _tripc_init(c)
    BY <1>1, <1>4 DEF _tripc_init, Covered
  <1>5. CASE \E c \in Conns : _trip_qconnection(c)
    BY <1>5 DEF _trip_qconnection, Covered
  <1>6. CASE \E c \in Conns : _trip_close_connection(c)
    BY <1>1, <1>6, NullIsNoConn DEF _trip_close_connection, sendq_del, Covered
  <1>7. CASE _trip_listen
    <2>1. ~OfTurn(pass') \/ pass' = pass
      BY <1>7, BegunIsFit DEF _trip_listen, OfTurn
    <2> QED
      BY <1>1, <1>7, <2>1 DEF _trip_listen, queueVars, Covered
  <1>8. CASE _trip_send_immediately_cb
    <2>1. ~OfTurn(pass')
      BY <1>8, BegunIsFit DEF _trip_send_immediately_cb, Idle, OfTurn
    <2> QED
      BY <1>1, <1>8, <2>1 DEF _trip_send_immediately_cb, queueVars, Covered
  <1>9. CASE ResendPacket
    <2>1. head' = head
      BY <1>9 DEF ResendPacket, queueVars
    <2>2. CASE EndPass(head)
      BY <1>1, <1>2, <2>1, <2>2 DEF Covered
    <2>3. CASE UNCHANGED wakeup /\ pass'.at = "pick"
      BY <1>1, <2>1, <2>3 DEF Covered, OfTurn
    <2> QED
      BY <1>3, <1>9, <2>2, <2>3 DEF ResendPacket, PassType
  <1>10. CASE PickNext
    BY <1>1, <1>10 DEF PickNext, sendq_dq, Covered
  <1>11. CASE NothingToPick
    BY <1>1, <1>2, <1>11 DEF NothingToPick, queueVars, Covered
  <1>12. CASE MakePacket \/ SendPacket
    BY <1>1, <1>12 DEF MakePacket, SendPacket, InTurn, Covered, OfTurn
  <1>13. CASE (PacketBlocked \/ PacketFails \/ SendError)
    <2>1. head' = head /\ EndPass(head)
      BY <1>13 DEF PacketBlocked, PacketFails, SendError, queueVars
    <2> QED
      BY <1>1, <1>2, <2>1 DEF Covered
  <1>14. ASSUME OfTurn(pass), EndTurn(head')
         PROVE  wakeup' \in BOOLEAN /\ Covered'
    <2>1. CASE EndPass(head')
      BY <1>1, <1>2, <1>14, <2>1 DEF Covered
    <2>2. CASE UNCHANGED wakeup
      BY <1>1, <1>14, <2>2 DEF Covered
    <2> QED
      BY <1>14, <2>1, <2>2 DEF EndTurn
  <1>15. CASE DoneSending
    <2>1. OfTurn(pass) /\ EndTurn(head')
      BY <1>15 DEF DoneSending, InTurn, queueVars, OfTurn
    <2> QED
      BY <1>14, <2>1
  <1>16. CASE Requeue
    BY <1>14, <1>16 DEF Requeue, OfTurn
  <1>17. CASE UNCHANGED vars
    BY <1>1, <1>17 DEF vars, queueVars, Covered
  <1> QED
    BY <1>4, <1>5, <1>6, <1>7, <1>8, <1>9, <1>10, <1>11, <1>12, <1>13, <1>15, <1>16, <1>17
    DEF Next, Listen

\* What is in p->send.
LEMMA WriteKeeps ==
  ASSUME IInv, [Next]_vars
  PROVE  WriteInv'
  <1>1. pass \in PassType /\ WriteInv
    BY DEF IInv, PassInv
  <1>2. CASE MakePacket
    <2>1. pass'.c = pass.c /\ buf' = pass.c
      BY <1>1, <1>2 DEF MakePacket, PassType
    <2> QED
      BY <2>1 DEF WriteInv
  <1>3. CASE UNCHANGED <<pass, buf>>
    BY <1>1, <1>3 DEF WriteInv
  <1>4. CASE pass'.at # "write"
    BY <1>4 DEF WriteInv
  <1>5. ASSUME NEW q, EndPass(q) PROVE pass'.at # "write"
    BY <1>5, NoPassIsFit DEF EndPass
  <1>6. ASSUME NEW q, EndTurn(q) PROVE pass'.at # "write"
    BY <1>1, <1>5, <1>6 DEF EndTurn, PassType
  <1>7. CASE ResendPacket \/ PickNext \/ NothingToPick \/ SendPacket
    <2>1. pass'.at # "write"
      BY <1>1, <1>5, <1>7 DEF ResendPacket, PickNext, NothingToPick, SendPacket, PassType
    <2> QED
      BY <1>4, <2>1
  <1>8. CASE PacketBlocked \/ PacketFails \/ SendError \/ DoneSending \/ Requeue
    <2>1. pass'.at # "write"
      BY <1>5, <1>6, <1>8 DEF PacketBlocked, PacketFails, SendError, DoneSending, Requeue
    <2> QED
      BY <1>4, <2>1
  <1>9. CASE _trip_listen \/ _trip_send_immediately_cb
    <2>1. pass'.at # "write" \/ UNCHANGED <<pass, buf>>
      BY <1>9, BegunIsFit DEF _trip_listen, _trip_send_immediately_cb, bufVars
    <2> QED
      BY <1>3, <1>4, <2>1
  <1>10. CASE \/ UNCHANGED vars
              \/ \E c \in Conns : \/ _tripc_init(c) \/ _trip_qconnection(c)
                                  \/ _trip_close_connection(c)
    <2>1. UNCHANGED <<pass, buf>>
      BY <1>10 DEF vars, bufVars, _tripc_init, _trip_qconnection, _trip_close_connection
    <2> QED
      BY <1>3, <2>1
  <1> QED
    BY <1>2, <1>7, <1>8, <1>9, <1>10 DEF Next, Listen

LEMMA InitIsRight == Init => IInv
  <1> SUFFICES ASSUME Init PROVE IInv
    OBVIOUS
  <1>1. PassInv
    BY NoPassIsFit DEF Init, PassInv, SentSoFar, OfTurn
  <1>2. TypeOK
    BY <1>1 DEF Init, TypeOK, PassInv, PassType
  <1>3. RetryHasItsSource /\ WriteInv /\ Covered
    BY NoPassIsFit DEF Init, RetryHasItsSource, WriteInv, Covered, OfTurn
  <1> QED
    BY <1>1, <1>2, <1>3 DEF IInv

LEMMA NextKeeps ==
  ASSUME IInv, [Next]_vars
  PROVE  IInv'
  <1>1. PassInv'
    BY PassKeeps
  <1>2. TypeOK'
    BY <1>1, QueueTypeKeeps, WakeupKeeps DEF TypeOK, PassInv, PassType
  <1>3. WriteInv'
    BY WriteKeeps
  <1> QED
    BY <1>1, <1>2, <1>3, QueueTypeKeeps, WakeupKeeps DEF IInv

\* Whatever the limits and however connections come and go, the pass is where
\* the code can be and has sent what it may.
THEOREM Invariant == Spec => []IInv
  <1>1. Init => IInv
    BY InitIsRight
  <1>2. IInv /\ [Next]_vars => IInv'
    BY NextKeeps
  <1> QED
    BY <1>1, <1>2, PTL DEF Spec

\* Every pointer of the queue, of the buffer and of the pass is null or points to
\* a connection, and the counts of a turn stay in their bounds (trip.c:317-341).
THEOREM TypeCorrect == Spec => []TypeOK
  <1>1. IInv => TypeOK
    BY DEF IInv
  <1> QED
    BY <1>1, Invariant, PTL

\* A pass sends no more than its limit and the rest of one turn (trip.c:308).
THEOREM PassIsBoundedHolds == Spec => []PassIsBounded
  <1>1. ASSUME IInv PROVE PassIsBounded
    <2>1. /\ pass.at \in {"idle", "resend", "pick", "send", "write"}
          /\ pass.connsent \in 0..MaxConnSend /\ pass.sent \in Nat
      BY <1>1 DEF IInv, PassInv, PassType
    <2> QED
      BY <1>1, <2>1, CountsArePositive DEF IInv, PassInv, SentSoFar, OfTurn, PassIsBounded
  <1> QED
    BY <1>1, Invariant, PTL

\* What is tried again goes out from the source of the connection that made it
\* (trip.c:284-305).
THEOREM RetryHasItsSourceHolds == Spec => []RetryHasItsSource
  <1>1. IInv => RetryHasItsSource
    BY DEF IInv
  <1> QED
    BY <1>1, Invariant, PTL

\* As long as a connection waits, a timer will come back to it (trip.c:96-124).
THEOREM WaitingHasWakeupHolds == Spec => []WaitingHasWakeup
  <1>1. IInv => WaitingHasWakeup
    BY DEF IInv, Covered, WaitingHasWakeup
  <1> QED
    BY <1>1, Invariant, PTL

-----------------------------------------------------------------------------
(* The links: the connections of the sequence q are linked in its order.   *)

Links(h, nx, q) ==
  /\ q \in Seq(Conns)
  /\ \A i, j \in 1..Len(q) : q[i] = q[j] => i = j
  /\ h = IF q = <<>> THEN NULL ELSE q[1]
  /\ \A i \in 1..Len(q) : nx[q[i]] = IF i < Len(q) THEN q[i + 1] ELSE NULL

\* What Nth is by its definition.
NthOf(f, h, nx) ==
  f = [n \in Nat |-> IF n = 0 THEN h ELSE IF f[n - 1] = NULL THEN NULL ELSE nx[f[n - 1]]]

\* What it is, given the sequence.
Listed(q) == [n \in Nat |-> IF n < Len(q) THEN q[n + 1] ELSE NULL]

LEMMA ListedIsNth ==
  ASSUME NEW h, NEW nx, NEW q, Links(h, nx, q)
  PROVE  NthOf(Listed(q), h, nx)
  <1> DEFINE f == Listed(q)
  <1>1. q \in Seq(Conns) /\ Len(q) \in Nat /\ (q = <<>> <=> Len(q) = 0)
    BY DEF Links
  <1>2. \A n \in Nat : f[n] = IF n < Len(q) THEN q[n + 1] ELSE NULL
    BY DEF Listed
  <1>3. \A n \in Nat : f[n] = NULL <=> ~(n < Len(q))
    BY <1>1, <1>2, NullIsNoConn
  <1>4. f[0] = h
    BY <1>1, <1>2 DEF Links
  <1>5. ASSUME NEW n \in Nat, n # 0
        PROVE  f[n] = IF f[n - 1] = NULL THEN NULL ELSE nx[f[n - 1]]
    <2>1. n - 1 \in Nat /\ (n - 1) + 1 = n
      BY <1>5
    <2>2. CASE n - 1 < Len(q)
      <3>1. n \in 1..Len(q) /\ f[n - 1] = q[n] /\ f[n - 1] # NULL
        BY <1>1, <1>2, <1>3, <1>5, <2>1, <2>2
      <3>2. nx[q[n]] = IF n < Len(q) THEN q[n + 1] ELSE NULL
        BY <3>1 DEF Links
      <3> QED
        BY <1>2, <3>1, <3>2
    <2>3. CASE ~(n - 1 < Len(q))
      BY <1>1, <1>2, <1>3, <2>1, <2>3
    <2> QED
      BY <2>2, <2>3
  <1>6. f = [n \in Nat |-> f[n]]
    BY DEF Listed
  <1> HIDE DEF f
  <1>7. f = [n \in Nat |-> IF n = 0 THEN h ELSE IF f[n - 1] = NULL THEN NULL ELSE nx[f[n - 1]]]
    BY <1>4, <1>5, <1>6
  <1> QED
    BY <1>7 DEF NthOf, f

\* There is only one.
LEMMA NthIsListed ==
  ASSUME NEW h, NEW nx, NEW q, Links(h, nx, q), NEW f, NthOf(f, h, nx)
  PROVE  f = Listed(q)
  <1> DEFINE g == Listed(q)
             S == {n \in Nat : f[n] = g[n]}
  <1>1. NthOf(g, h, nx)
    BY ListedIsNth
  <1>2. ASSUME NEW n \in Nat
        PROVE  f[n] = IF n = 0 THEN h ELSE IF f[n - 1] = NULL THEN NULL ELSE nx[f[n - 1]]
    BY DEF NthOf
  <1>3. ASSUME NEW n \in Nat
        PROVE  g[n] = IF n = 0 THEN h ELSE IF g[n - 1] = NULL THEN NULL ELSE nx[g[n - 1]]
    <2> HIDE DEF g
    <2> QED
      BY <1>1 DEF NthOf
  <1>4. f = [n \in Nat |-> f[n]] /\ g = [n \in Nat |-> g[n]]
    BY DEF NthOf, Listed
  <1> HIDE DEF g
  <1>5. 0 \in S
    BY <1>2, <1>3
  <1>6. ASSUME NEW n \in S PROVE n + 1 \in S
    <2>1. n \in Nat /\ f[n] = g[n]
      OBVIOUS
    <2>2. n + 1 \in Nat /\ n + 1 # 0 /\ (n + 1) - 1 = n
      BY <2>1
    <2>3. /\ f[n + 1] = IF f[n] = NULL THEN NULL ELSE nx[f[n]]
          /\ g[n + 1] = IF g[n] = NULL THEN NULL ELSE nx[g[n]]
      BY <1>2, <1>3, <2>2
    <2> QED
      BY <2>1, <2>2, <2>3
  <1>7. S = Nat
    <2> S \in SUBSET Nat
      OBVIOUS
    <2> HIDE DEF S
    <2> QED
      BY <1>5, <1>6, AllNumbers
  <1>8. \A n \in Nat : f[n] = g[n]
    BY <1>7
  <1> QED
    BY <1>4, <1>8 DEF g

\* The number of its connections is the number of places that hold one.
LEMMA PlacesOf ==
  ASSUME NEW h, NEW nx, NEW q, Links(h, nx, q), NEW f, NthOf(f, h, nx),
         NEW P, P = {n \in 0..(Cardinality(Conns) - 1) : f[n] # NULL}
  PROVE  /\ P = 0..(Len(q) - 1)
         /\ Cardinality(P) = Len(q)
         /\ [k \in 1..Cardinality(P) |-> f[k - 1]] = q
  <1>1. q \in Seq(Conns) /\ Len(q) \in Nat /\ q \in [1..Len(q) -> Conns]
    BY DEF Links
  <1>2. \A n \in Nat : f[n] = IF n < Len(q) THEN q[n + 1] ELSE NULL
    BY NthIsListed DEF Listed
  <1>3. Len(q) <= Cardinality(Conns) /\ Cardinality(Conns) \in Nat
    <2>1. q \in Injection(1..Len(q), Conns)
      BY <1>1 DEF Links, Injection, IsInjective
    <2>2. Cardinality(1..Len(q)) <= Cardinality(Conns)
      BY <2>1, ConnsAreFinite, FS_Injection, Zenon
    <2>3. Cardinality(1..Len(q)) = Len(q)
      <3>1. Cardinality(1..Len(q)) = IF 1 > Len(q) THEN 0 ELSE Len(q) - 1 + 1
        BY <1>1, FS_Interval
      <3> QED
        BY <1>1, <3>1
    <2>4. Cardinality(Conns) \in Nat
      BY ConnsAreFinite, FS_CardinalityType
    <2> QED
      BY <2>2, <2>3, <2>4
  <1>4. P = 0..(Len(q) - 1)
    <2>1. \A n \in 0..(Cardinality(Conns) - 1) : f[n] # NULL <=> n < Len(q)
      BY <1>1, <1>2, NullIsNoConn
    <2> QED
      BY <1>1, <1>3, <2>1
  <1>5. Cardinality(P) = Len(q)
    <2>1. Cardinality(0..(Len(q) - 1)) = IF 0 > Len(q) - 1 THEN 0 ELSE (Len(q) - 1) - 0 + 1
      BY <1>1, FS_Interval
    <2>2. Cardinality(P) = Cardinality(0..(Len(q) - 1))
      BY <1>4
    <2> QED
      BY <1>1, <2>1, <2>2
  <1>6. [k \in 1..Len(q) |-> f[k - 1]] = q
    <2>1. \A k \in 1..Len(q) : f[k - 1] = q[k]
      BY <1>1, <1>2
    <2> QED
      BY <1>1, <2>1
  <1> QED
    BY <1>4, <1>5, <1>6

LEMMA QueueIs ==
  ASSUME NEW q, Links(head, next, q)
  PROVE  Queue = q /\ Places = 0..(Len(q) - 1) /\ Cardinality(Places) = Len(q) /\ Nth = Listed(q)
  <1>1. NthOf(Nth, head, next)
    <2>1. PICK f : NthOf(f, head, next)
      BY ListedIsNth
    <2> QED
      BY <2>1 DEF Nth, NthOf
  <1>2. Nth = Listed(q)
    BY <1>1, NthIsListed
  <1>3. PICK f : f = Nth
    OBVIOUS
  <1>4. /\ Places = 0..(Len(q) - 1)
        /\ Cardinality(Places) = Len(q)
        /\ [k \in 1..Cardinality(Places) |-> f[k - 1]] = q
    <2>1. PICK P : P = {n \in 0..(Cardinality(Conns) - 1) : f[n] # NULL}
      OBVIOUS
    <2>2. P = Places
      BY <1>3, <2>1 DEF Places
    <2> QED
      BY <1>1, <1>3, <2>1, <2>2, PlacesOf
  <1> QED
    BY <1>2, <1>3, <1>4 DEF Queue

LEMMA QueueWillBe ==
  ASSUME NEW q, Links(head', next', q)
  PROVE  Queue' = q
  <1>1. NthOf(Nth', head', next')
    <2>1. PICK f : NthOf(f, head', next')
      BY ListedIsNth
    <2> QED
      BY <2>1 DEF Nth, NthOf
  <1>2. PICK f : f = Nth'
    OBVIOUS
  <1>3. PICK P : P = {n \in 0..(Cardinality(Conns) - 1) : f[n] # NULL}
    OBVIOUS
  <1>4. P = Places'
    BY <1>2, <1>3 DEF Places
  <1>5. PICK h : h = head'
    OBVIOUS
  <1>6. PICK nx : nx = next'
    OBVIOUS
  <1>7. [k \in 1..Cardinality(P) |-> f[k - 1]] = q
    BY <1>1, <1>2, <1>3, <1>5, <1>6, PlacesOf
  <1> QED
    BY <1>2, <1>4, <1>7 DEF Queue

\* The queue as it is kept: linked, its end known, its members marked.
Chain(h, t, nx, marked, q) ==
  /\ Links(h, nx, q)
  /\ t = IF q = <<>> THEN NULL ELSE q[Len(q)]
  /\ marked = {q[i] : i \in 1..Len(q)}

-----------------------------------------------------------------------------
(* What the operations of sendq.c do to it.                                *)

LEMMA DequeueChains ==
  ASSUME NEW q, Chain(head, tail, next, insend, q), sendq_dq,
         next \in [Conns -> Conns \cup {NULL}]
  PROVE  /\ q # <<>> /\ head = q[1]
         /\ Chain(head', tail', next', insend', Tail(q))
  <1>1. /\ q \in Seq(Conns) /\ Len(q) \in Nat
        /\ \A i, j \in 1..Len(q) : q[i] = q[j] => i = j
        /\ \A i \in 1..Len(q) : next[q[i]] = IF i < Len(q) THEN q[i + 1] ELSE NULL
        /\ \A i \in 1..Len(q) : q[i] \in Conns
    BY DEF Chain, Links
  <1>2. head = IF q = <<>> THEN NULL ELSE q[1]
    BY DEF Chain, Links
  <1>3. q # <<>> /\ head = q[1] /\ 1 \in 1..Len(q)
    BY <1>1, <1>2 DEF sendq_dq
  <1>4. /\ head' = next[head] /\ tail' = IF next[head] = NULL THEN NULL ELSE tail
        /\ next' = [next EXCEPT ![head] = NULL] /\ insend' = insend \ {head}
    BY DEF sendq_dq
  <1>5. PICK r : r = Tail(q)
    OBVIOUS
  <1>6. /\ r \in Seq(Conns) /\ Len(r) = Len(q) - 1
        /\ \A i \in 1..Len(r) : r[i] = q[i + 1]
    BY <1>1, <1>3, <1>5
  <1>7. next[head] = IF 1 < Len(q) THEN q[2] ELSE NULL
    BY <1>1, <1>3
  <1>8. head' = IF r = <<>> THEN NULL ELSE r[1]
    BY <1>1, <1>4, <1>6, <1>7
  <1>9. \A i, j \in 1..Len(r) : r[i] = r[j] => i = j
    BY <1>1, <1>6
  <1>10. \A i \in 1..Len(r) : next'[r[i]] = IF i < Len(r) THEN r[i + 1] ELSE NULL
    <2> SUFFICES ASSUME NEW i \in 1..Len(r)
                 PROVE  next'[r[i]] = IF i < Len(r) THEN r[i + 1] ELSE NULL
      OBVIOUS
    <2>1. i + 1 \in 1..Len(q) /\ i + 1 # 1 /\ r[i] = q[i + 1]
      BY <1>1, <1>6
    <2>2. r[i] # head /\ r[i] \in Conns
      BY <1>1, <1>3, <2>1
    <2>3. next'[r[i]] = next[q[i + 1]]
      BY <1>4, <2>1, <2>2
    <2>4. next[q[i + 1]] = IF i + 1 < Len(q) THEN q[(i + 1) + 1] ELSE NULL
      BY <1>1, <2>1
    <2>5. i < Len(r) => r[i + 1] = q[(i + 1) + 1]
      BY <1>1, <1>6
    <2> QED
      BY <1>1, <1>6, <2>3, <2>4, <2>5
  <1>11. tail' = IF r = <<>> THEN NULL ELSE r[Len(r)]
    <2>1. tail = q[Len(q)]
      BY <1>3 DEF Chain
    <2>2. CASE Len(q) = 1
      BY <1>4, <1>6, <1>7, <2>2
    <2>3. CASE Len(q) # 1
      <3>1. 2 \in 1..Len(q) /\ 1 < Len(q)
        <4>1. PICK m \in Nat : m = Len(q)
          BY <1>1
        <4>2. m >= 1 /\ m # 1
          BY <1>3, <2>3, <4>1
        <4>3. 2 \in 1..m /\ 1 < m
          BY <4>1, <4>2
        <4> QED
          BY <4>1, <4>3
      <3>2. next[head] # NULL
        BY <1>1, <1>7, <3>1, NullIsNoConn
      <3>3. r # <<>> /\ r[Len(r)] = q[Len(q)]
        BY <1>1, <1>6, <3>1
      <3> QED
        BY <1>4, <2>1, <3>2, <3>3
    <2> QED
      BY <2>2, <2>3
  <1>12. insend' = {r[i] : i \in 1..Len(r)}
    <2>1. insend = {q[i] : i \in 1..Len(q)}
      BY DEF Chain
    <2>2. \A i \in 1..Len(q) : q[i] # head => i - 1 \in 1..Len(r) /\ r[i - 1] = q[i]
      BY <1>1, <1>3, <1>6
    <2>3. \A i \in 1..Len(r) : i + 1 \in 1..Len(q) /\ q[i + 1] # head
      BY <1>1, <1>3, <1>6
    <2>4. \A x : x \in insend \ {head} <=> \E i \in 1..Len(r) : r[i] = x
      BY <1>6, <2>1, <2>2, <2>3
    <2> QED
      BY <1>4, <2>4
  <1> QED
    BY <1>3, <1>5, <1>6, <1>8, <1>9, <1>10, <1>11, <1>12 DEF Chain, Links

LEMMA EnqueueChains ==
  ASSUME NEW q, Chain(head, tail, next, insend, q), NEW c \in Conns, c \notin insend,
         next \in [Conns -> Conns \cup {NULL}],
         insend' = insend \cup {c},
         tail' = c,
         head' = IF tail = NULL THEN c ELSE head,
         next' = [d \in Conns |-> IF d = c THEN NULL ELSE IF d = tail THEN c ELSE next[d]]
  PROVE  Chain(head', tail', next', insend', Append(q, c))
  <1>1. /\ q \in Seq(Conns) /\ Len(q) \in Nat
        /\ \A i, j \in 1..Len(q) : q[i] = q[j] => i = j
        /\ \A i \in 1..Len(q) : next[q[i]] = IF i < Len(q) THEN q[i + 1] ELSE NULL
        /\ \A i \in 1..Len(q) : q[i] \in Conns /\ q[i] # c
        /\ head = IF q = <<>> THEN NULL ELSE q[1]
        /\ tail = IF q = <<>> THEN NULL ELSE q[Len(q)]
        /\ insend = {q[i] : i \in 1..Len(q)}
    BY DEF Chain, Links
  <1>2. PICK r : r = Append(q, c)
    OBVIOUS
  <1>3. /\ r \in Seq(Conns) /\ Len(r) = Len(q) + 1 /\ r # <<>>
        /\ r[Len(q) + 1] = c
        /\ \A i \in 1..Len(q) : r[i] = q[i]
    BY <1>1, <1>2
  <1>4. tail = NULL <=> q = <<>>
    <2>1. q # <<>> => Len(q) \in 1..Len(q)
      BY <1>1
    <2> QED
      BY <1>1, <2>1, NullIsNoConn
  <1>5. head' = r[1]
    <2>1. q = <<>> => r[1] = c
      BY <1>3
    <2>2. q # <<>> => r[1] = q[1]
      BY <1>1, <1>3
    <2> QED
      BY <1>1, <1>4, <2>1, <2>2
  <1>6. \A i, j \in 1..Len(r) : r[i] = r[j] => i = j
    <2>1. \A i \in 1..Len(r) : i = Len(q) + 1 \/ i \in 1..Len(q)
      BY <1>1, <1>3
    <2> QED
      BY <1>1, <1>3, <2>1
  <1>7. \A i \in 1..Len(r) : next'[r[i]] = IF i < Len(r) THEN r[i + 1] ELSE NULL
    <2> SUFFICES ASSUME NEW i \in 1..Len(r)
                 PROVE  next'[r[i]] = IF i < Len(r) THEN r[i + 1] ELSE NULL
      OBVIOUS
    <2>1. CASE i = Len(q) + 1
      BY <1>1, <1>3, <2>1
    <2>2. CASE i = Len(q) /\ i # 0
      <3>1. r[i] = tail /\ r[i] # c /\ r[i] \in Conns /\ i < Len(r) /\ r[i + 1] = c
        BY <1>1, <1>3, <2>2
      <3> QED
        BY <3>1
    <2>3. CASE i < Len(q)
      <3>1. /\ i \in 1..Len(q) /\ i + 1 \in 1..Len(q) /\ i < Len(r)
            /\ r[i] = q[i] /\ r[i + 1] = q[i + 1]
        BY <1>1, <1>3, <2>3
      <3>2. q[i] # tail
        BY <1>1, <2>3, <3>1
      <3> QED
        BY <1>1, <2>3, <3>1, <3>2
    <2> QED
      BY <1>1, <1>3, <2>1, <2>2, <2>3
  <1>8. insend' = {r[i] : i \in 1..Len(r)}
    <2>1. \A i \in 1..Len(r) : i = Len(q) + 1 \/ i \in 1..Len(q)
      BY <1>1, <1>3
    <2>2. Len(q) + 1 \in 1..Len(r) /\ \A i \in 1..Len(q) : i \in 1..Len(r)
      BY <1>1, <1>3
    <2>3. \A x : x \in insend \cup {c} <=> \E i \in 1..Len(r) : r[i] = x
      BY <1>1, <1>3, <2>1, <2>2
    <2> QED
      BY <2>3
  <1> QED
    BY <1>2, <1>3, <1>5, <1>6, <1>7, <1>8 DEF Chain, Links

LEMMA DeleteChains ==
  ASSUME NEW q, Chain(head, tail, next, insend, q), NEW c \in Conns, c # tail,
         next \in [Conns -> Conns \cup {NULL}],
         sendq_del(c)
  PROVE  \/ c \notin insend /\ Chain(head', tail', next', insend', q)
         \/ \E k \in 1..Len(q) :
              /\ q[k] = c
              /\ Chain(head', tail', next', insend',
                       SubSeq(q, 1, k - 1) \o SubSeq(q, k + 1, Len(q)))
  <1>1. /\ q \in Seq(Conns) /\ Len(q) \in Nat
        /\ \A i, j \in 1..Len(q) : q[i] = q[j] => i = j
        /\ \A i \in 1..Len(q) : next[q[i]] = IF i < Len(q) THEN q[i + 1] ELSE NULL
        /\ \A i \in 1..Len(q) : q[i] \in Conns
        /\ head = IF q = <<>> THEN NULL ELSE q[1]
        /\ tail = IF q = <<>> THEN NULL ELSE q[Len(q)]
        /\ insend = {q[i] : i \in 1..Len(q)}
    BY DEF Chain, Links
  <1>2. /\ insend' = insend \ {c} /\ tail' = tail
        /\ head' = IF c \in insend /\ head = c THEN next[c] ELSE head
        /\ next' = [d \in Conns |->
                      IF c \in insend /\ next[d] = c /\ \E n \in Places : Nth[n] = d
                        THEN next[c] ELSE next[d]]
    BY DEF sendq_del
  <1>3. CASE c \notin insend
    <2>1. insend' = insend /\ head' = head /\ next' = next
      BY <1>2, <1>3
    <2> QED
      BY <1>2, <1>3, <2>1
  <1>4. CASE c \in insend
    <2>1. PICK k \in 1..Len(q) : q[k] = c
      BY <1>1, <1>4
    <2>2. k \in Nat /\ k >= 1 /\ k < Len(q)
      <3>1. k # Len(q)
        BY <1>1, <2>1
      <3> QED
        BY <1>1, <3>1
    <2>3. next[c] = q[k + 1] /\ k + 1 \in 1..Len(q)
      BY <1>1, <2>1, <2>2
    <2>4. PICK r : r = SubSeq(q, 1, k - 1) \o SubSeq(q, k + 1, Len(q))
      OBVIOUS
    <2>5. /\ r \in Seq(Conns) /\ Len(r) = Len(q) - 1
          /\ \A i \in 1..Len(r) : r[i] = IF i < k THEN q[i] ELSE q[i + 1]
      BY <1>1, <2>4, Removal, Zenon
    <2>6. \A i \in 1..Len(q) : \E n \in Places : Nth[n] = q[i]
      <3>1. Places = 0..(Len(q) - 1) /\ Nth = Listed(q)
        BY QueueIs DEF Chain
      <3>2. \A i \in 1..Len(q) : i - 1 \in Places /\ Nth[i - 1] = q[i]
        BY <1>1, <3>1 DEF Listed
      <3> QED
        BY <3>2
    <2>7. \A i \in 1..Len(q) : next'[q[i]] = IF next[q[i]] = c THEN q[k + 1] ELSE next[q[i]]
      <3> SUFFICES ASSUME NEW i \in 1..Len(q)
                   PROVE  next'[q[i]] = IF next[q[i]] = c THEN q[k + 1] ELSE next[q[i]]
        OBVIOUS
      <3>1. q[i] \in Conns /\ \E n \in Places : Nth[n] = q[i]
        BY <1>1, <2>6
      <3>2. next'[q[i]] = IF c \in insend /\ next[q[i]] = c /\ \E n \in Places : Nth[n] = q[i]
                            THEN next[c] ELSE next[q[i]]
        BY <1>2, <3>1
      <3> QED
        BY <1>4, <2>3, <3>1, <3>2
    <2>8. \A i \in 1..Len(q) : next[q[i]] = c <=> i + 1 = k
      <3> SUFFICES ASSUME NEW i \in 1..Len(q) PROVE next[q[i]] = c <=> i + 1 = k
        OBVIOUS
      <3>1. CASE i < Len(q)
        <4>1. next[q[i]] = q[i + 1] /\ i + 1 \in 1..Len(q)
          BY <1>1, <3>1
        <4>2. q[i + 1] = q[k] <=> i + 1 = k
          BY <1>1, <4>1
        <4> QED
          BY <2>1, <4>1, <4>2
      <3>2. CASE ~(i < Len(q))
        <4>1. next[q[i]] = NULL
          BY <1>1, <3>2
        <4>2. i + 1 # k
          BY <1>1, <2>2, <3>2
        <4> QED
          BY <4>1, <4>2, NullIsNoConn
      <3> QED
        BY <3>1, <3>2
    <2>9. \A i \in 1..Len(q) :
            next'[q[i]] = IF i + 1 = k THEN q[k + 1] ELSE IF i < Len(q) THEN q[i + 1] ELSE NULL
      BY <1>1, <2>7, <2>8
    <2>10. \A i, j \in 1..Len(r) : r[i] = r[j] => i = j
      <3> SUFFICES ASSUME NEW i \in 1..Len(r), NEW j \in 1..Len(r), r[i] = r[j]
                   PROVE  i = j
        OBVIOUS
      <3> DEFINE at(n) == IF n < k THEN n ELSE n + 1
      <3>1. at(i) \in 1..Len(q) /\ at(j) \in 1..Len(q) /\ r[i] = q[at(i)] /\ r[j] = q[at(j)]
        BY <1>1, <2>2, <2>5
      <3>2. at(i) = at(j)
        BY <1>1, <3>1
      <3> QED
        BY <2>2, <3>2
    <2>11. head' = IF r = <<>> THEN NULL ELSE r[1]
      <3>1. r # <<>> /\ q # <<>> /\ 1 \in 1..Len(r) /\ 1 \in 1..Len(q)
        BY <1>1, <2>2, <2>5
      <3>2. head = c <=> k = 1
        BY <1>1, <2>1, <3>1
      <3>3. r[1] = IF 1 < k THEN q[1] ELSE q[2]
        BY <2>5, <3>1
      <3> QED
        BY <1>1, <1>2, <1>4, <2>2, <2>3, <3>1, <3>2, <3>3
    <2>12. tail' = IF r = <<>> THEN NULL ELSE r[Len(r)]
      <3>1. r # <<>> /\ q # <<>> /\ Len(r) \in 1..Len(r)
        BY <1>1, <2>2, <2>5
      <3>2. r[Len(r)] = q[Len(q)]
        BY <1>1, <2>2, <2>5, <3>1
      <3> QED
        BY <1>1, <1>2, <3>1, <3>2
    <2>13. \A i \in 1..Len(r) : next'[r[i]] = IF i < Len(r) THEN r[i + 1] ELSE NULL
      <3> SUFFICES ASSUME NEW i \in 1..Len(r)
                   PROVE  next'[r[i]] = IF i < Len(r) THEN r[i + 1] ELSE NULL
        OBVIOUS
      <3>1. i \in Nat /\ i >= 1 /\ i <= Len(r) /\ Len(r) = Len(q) - 1 /\ Len(q) \in Nat
        BY <1>1, <2>5
      <3>2. CASE i + 1 < k
        <4>1. r[i] = q[i] /\ i \in 1..Len(q) /\ i < Len(r) /\ i + 1 \in 1..Len(r)
          BY <2>2, <2>5, <3>1, <3>2
        <4>2. r[i + 1] = q[i + 1]
          BY <2>5, <3>2, <4>1
        <4>3. next'[q[i]] = q[i + 1]
          BY <2>2, <2>9, <3>1, <3>2, <4>1
        <4> QED
          BY <4>1, <4>2, <4>3
      <3>3. CASE i + 1 = k
        <4>1. r[i] = q[i] /\ i \in 1..Len(q) /\ i < Len(r) /\ i + 1 \in 1..Len(r)
          BY <2>2, <2>5, <3>1, <3>3
        <4>2. r[i + 1] = q[k + 1]
          BY <2>2, <2>5, <3>3, <4>1
        <4>3. next'[q[i]] = q[k + 1]
          BY <2>9, <3>3, <4>1
        <4> QED
          BY <4>1, <4>2, <4>3
      <3>4. CASE i + 1 > k
        <4>1. r[i] = q[i + 1] /\ i + 1 \in 1..Len(q) /\ (i + 1) + 1 # k
          BY <2>2, <2>5, <3>1, <3>4
        <4>2. next'[q[i + 1]] = IF i + 1 < Len(q) THEN q[(i + 1) + 1] ELSE NULL
          BY <2>9, <4>1
        <4>3. i < Len(r) <=> i + 1 < Len(q)
          BY <3>1
        <4>4. i < Len(r) => r[i + 1] = q[(i + 1) + 1]
          BY <2>2, <2>5, <3>1, <3>4
        <4> QED
          BY <4>1, <4>2, <4>3, <4>4
      <3> QED
        BY <2>2, <3>1, <3>2, <3>3, <3>4
    <2>14. insend' = {r[i] : i \in 1..Len(r)}
      <3>1. \A i \in 1..Len(q) : q[i] # c =>
              \/ i \in 1..Len(r) /\ r[i] = q[i]
              \/ i - 1 \in 1..Len(r) /\ r[i - 1] = q[i]
        <4> SUFFICES ASSUME NEW i \in 1..Len(q), q[i] # c
                     PROVE  \/ i \in 1..Len(r) /\ r[i] = q[i]
                            \/ i - 1 \in 1..Len(r) /\ r[i - 1] = q[i]
          OBVIOUS
        <4>1. i # k /\ i \in Nat /\ i >= 1 /\ i <= Len(q)
          BY <1>1, <2>1
        <4>2. CASE i < k
          BY <1>1, <2>2, <2>5, <4>1, <4>2
        <4>3. CASE i > k
          BY <1>1, <2>2, <2>5, <4>1, <4>3
        <4> QED
          BY <2>2, <4>1, <4>2, <4>3
      <3>2. \A i \in 1..Len(r) : r[i] # c /\ r[i] \in insend
        <4> SUFFICES ASSUME NEW i \in 1..Len(r) PROVE r[i] # c /\ r[i] \in insend
          OBVIOUS
        <4>1. CASE i < k
          <5>1. i \in 1..Len(q) /\ r[i] = q[i] /\ i # k
            BY <1>1, <2>2, <2>5, <4>1
          <5> QED
            BY <1>1, <2>1, <5>1
        <4>2. CASE ~(i < k)
          <5>1. i + 1 \in 1..Len(q) /\ r[i] = q[i + 1] /\ i + 1 # k
            BY <1>1, <2>2, <2>5, <4>2
          <5> QED
            BY <1>1, <2>1, <5>1
        <4> QED
          BY <4>1, <4>2
      <3>3. ASSUME NEW x \in insend, x # c PROVE \E i \in 1..Len(r) : r[i] = x
        <4>1. PICK i \in 1..Len(q) : q[i] = x
          BY <1>1
        <4> QED
          BY <3>1, <3>3, <4>1
      <3> QED
        BY <1>2, <3>2, <3>3
    <2>15. Chain(head', tail', next', insend', r)
      BY <2>5, <2>10, <2>11, <2>12, <2>13, <2>14 DEF Chain, Links
    <2> QED
      BY <2>1, <2>4, <2>15
  <1> QED
    BY <1>3, <1>4

\* A connection is made while the queue is what it is.
LEMMA MakeChains ==
  ASSUME NEW q, Chain(head, tail, next, insend, q), NEW c \in Conns, c \notin insend,
         next \in [Conns -> Conns \cup {NULL}],
         next' = [next EXCEPT ![c] = NULL]
  PROVE  Chain(head, tail, next', insend, q)
  <1>1. \A i \in 1..Len(q) : q[i] \in Conns /\ q[i] # c
    BY DEF Chain, Links
  <1>2. \A i \in 1..Len(q) : next'[q[i]] = next[q[i]]
    BY <1>1
  <1> QED
    BY <1>2 DEF Chain, Links

\* What one step makes of the queue.
Moves(q, r) ==
  \/ r = q
  \/ \E c \in Conns : c \notin {q[i] : i \in 1..Len(q)} /\ r = Append(q, c)
  \/ q # <<>> /\ r = Tail(q)
  \/ \E c \in Conns : \E k \in 1..Len(q) :
       q[k] = c /\ r = SubSeq(q, 1, k - 1) \o SubSeq(q, k + 1, Len(q))

LEMMA NqMoves ==
  ASSUME NEW q, Chain(head, tail, next, insend, q), NEW c \in Conns, sendq_nq(c),
         next \in [Conns -> Conns \cup {NULL}]
  PROVE  \E r : Chain(head', tail', next', insend', r) /\ Moves(q, r)
  <1>1. CASE UNCHANGED queueVars
    BY <1>1 DEF queueVars, Moves
  <1>2. CASE c \notin insend /\ ~UNCHANGED queueVars
    <2>1. Chain(head', tail', next', insend', Append(q, c))
      BY <1>2, EnqueueChains DEF sendq_nq
    <2>2. insend = {q[i] : i \in 1..Len(q)}
      BY DEF Chain
    <2> QED
      BY <1>2, <2>1, <2>2 DEF Moves
  <1> QED
    BY <1>1, <1>2 DEF sendq_nq

LEMMA QueueMoves ==
  ASSUME LastMayClose = FALSE, IInv, insend \subseteq alive,
         NEW q, Chain(head, tail, next, insend, q), [Next]_vars
  PROVE  \E r : Chain(head', tail', next', insend', r) /\ Moves(q, r)
  <1>1. next \in [Conns -> Conns \cup {NULL}]
    BY DEF IInv, TypeOK
  <1>2. ASSUME NEW c \in Conns, _tripc_init(c)
        PROVE  Chain(head', tail', next', insend', q)
    <2>1. UNCHANGED <<head, tail, insend>> /\ c \notin insend /\ next' = [next EXCEPT ![c] = NULL]
      BY <1>2 DEF _tripc_init
    <2>2. Chain(head, tail, next', insend, q)
      BY <1>1, <2>1, MakeChains
    <2> QED
      BY <2>1, <2>2
  <1>3. ASSUME NEW c \in Conns, _trip_close_connection(c)
        PROVE  \E r : Chain(head', tail', next', insend', r) /\ Moves(q, r)
    <2>1. sendq_del(c) /\ c # tail
      BY <1>3 DEF _trip_close_connection
    <2>2. \/ Chain(head', tail', next', insend', q)
          \/ \E k \in 1..Len(q) :
               /\ q[k] = c
               /\ Chain(head', tail', next', insend',
                        SubSeq(q, 1, k - 1) \o SubSeq(q, k + 1, Len(q)))
      BY <1>1, <2>1, DeleteChains
    <2> QED
      BY <2>2 DEF Moves
  <1>4. CASE \E c \in Conns : _trip_qconnection(c)
    BY <1>1, <1>4, NqMoves DEF _trip_qconnection
  <1>5. CASE Requeue
    BY <1>1, <1>5, NqMoves DEF Requeue, IInv, PassInv, SentSoFar, OfTurn
  <1>6. CASE PickNext
    BY <1>1, <1>6, DequeueChains DEF PickNext, Moves
  <1>7. CASE UNCHANGED queueVars
    BY <1>7 DEF queueVars, Moves
  <1> QED
    BY <1>2, <1>3, <1>4, <1>5, <1>6, <1>7
    DEF Moves, Next, Listen, vars, _trip_listen, _trip_send_immediately_cb, ResendPacket,
        NothingToPick, MakePacket, SendPacket, PacketBlocked, PacketFails, SendError, DoneSending

\* Whoever waits, and whoever has its turn, is allocated.
LEMMA QueuedAreAlive ==
  ASSUME IInv, insend \subseteq alive, OfTurn(pass) => pass.c \in alive,
         head # NULL => head \in insend, [Next]_vars
  PROVE  insend' \subseteq alive' /\ (OfTurn(pass') => pass'.c \in alive')
  <1>1. pass \in PassType /\ (OfTurn(pass) => pass.c \in Conns)
    BY DEF IInv, PassInv, SentSoFar
  <1>2. ASSUME NEW q, EndPass(q) PROVE ~OfTurn(pass')
    BY <1>2, NoPassIsFit DEF EndPass, OfTurn
  <1>3. CASE \E c \in Conns : _tripc_init(c) \/ _trip_qconnection(c)
    <2>1. pass' = pass /\ alive \subseteq alive'
      BY <1>3 DEF _tripc_init, _trip_qconnection
    <2>2. insend' \subseteq alive'
      BY <1>3 DEF _tripc_init, _trip_qconnection, sendq_nq, queueVars
    <2> QED
      BY <2>1, <2>2
  <1>8. CASE \E c \in Conns : _trip_close_connection(c)
    <2>1. pass' = pass /\ ~OfTurn(pass)
      BY <1>8 DEF _trip_close_connection, Idle, OfTurn
    <2>2. insend' \subseteq alive'
      BY <1>8 DEF _trip_close_connection, sendq_del
    <2> QED
      BY <2>1, <2>2
  <1>4. CASE _trip_listen \/ _trip_send_immediately_cb
    <2>1. insend' = insend /\ alive' = alive
      BY <1>4 DEF _trip_listen, _trip_send_immediately_cb, queueVars
    <2>2. ~OfTurn(pass') \/ pass' = pass
      BY <1>4, BegunIsFit DEF _trip_listen, _trip_send_immediately_cb, OfTurn
    <2> QED
      BY <2>1, <2>2
  <1>5. CASE PickNext
    <2>1. /\ insend' \subseteq insend /\ alive' = alive /\ head # NULL
          /\ pass'.c = head
      BY <1>1, <1>5 DEF PickNext, sendq_dq, PassType
    <2> QED
      BY <2>1
  <1>6. CASE Requeue
    <2>1. alive' = alive /\ insend' \subseteq insend \cup {pass.c} /\ OfTurn(pass)
      BY <1>6 DEF Requeue, sendq_nq, queueVars, OfTurn
    <2>2. ~OfTurn(pass')
      BY <1>1, <1>2, <1>6 DEF Requeue, EndTurn, PassType, OfTurn
    <2> QED
      BY <2>1, <2>2
  <1>7. CASE \/ ResendPacket \/ NothingToPick \/ MakePacket \/ SendPacket
             \/ PacketBlocked \/ PacketFails \/ SendError \/ DoneSending \/ UNCHANGED vars
    <2>1. insend' = insend /\ alive' = alive
      BY <1>7 DEF ResendPacket, NothingToPick, MakePacket, SendPacket, PacketBlocked,
                  PacketFails, SendError, DoneSending, queueVars, vars
    <2>2. CASE MakePacket \/ SendPacket
      <3>1. OfTurn(pass) /\ pass'.c = pass.c
        BY <1>1, <2>2 DEF MakePacket, SendPacket, InTurn, PassType, OfTurn
      <3> QED
        BY <2>1, <3>1
    <2>3. CASE ~MakePacket /\ ~SendPacket
      <3>1. ~OfTurn(pass') \/ pass' = pass
        BY <1>1, <1>2, <1>7, <2>3
        DEF ResendPacket, NothingToPick, PacketBlocked, PacketFails,
            SendError, DoneSending, EndTurn, PassType, OfTurn, vars
      <3> QED
        BY <2>1, <3>1
    <2> QED
      BY <2>2, <2>3
  <1> QED
    BY <1>3, <1>4, <1>5, <1>6, <1>7, <1>8 DEF Next, Listen

\* The queue and who is in it.
FifoInv ==
  /\ \E q : Chain(head, tail, next, insend, q)
  /\ insend \subseteq alive
  /\ OfTurn(pass) => pass.c \in alive

LEMMA HeadIsMarked ==
  ASSUME NEW h, NEW t, NEW nx, NEW m, NEW q, Chain(h, t, nx, m, q)
  PROVE  h # NULL => h \in m
  BY DEF Chain, Links

LEMMA InitIsChained == Init => FifoInv
  <1> SUFFICES ASSUME Init PROVE FifoInv
    OBVIOUS
  <1>1. Chain(head, tail, next, insend, <<>>)
    BY DEF Init, Chain, Links
  <1> QED
    BY <1>1, NoPassIsFit DEF Init, FifoInv, OfTurn

LEMMA StaysChained ==
  ASSUME LastMayClose = FALSE, IInv, FifoInv, [Next]_vars
  PROVE  FifoInv'
  <1>1. PICK q : Chain(head, tail, next, insend, q)
    BY DEF FifoInv
  <1>2. \E r : Chain(head', tail', next', insend', r)
    BY <1>1, QueueMoves DEF FifoInv
  <1>3. insend' \subseteq alive' /\ (OfTurn(pass') => pass'.c \in alive')
    BY <1>1, HeadIsMarked, QueuedAreAlive DEF FifoInv
  <1> QED
    BY <1>2, <1>3 DEF FifoInv

\* As long as the connection at the end of the queue is not closed, however the
\* others come, go and ask: what insend marks is what the links reach.
THEOREM QueueIsMarkedHolds ==
  ASSUME LastMayClose = FALSE
  PROVE  Spec => []QueueIsMarked
  <1>1. Init => IInv /\ FifoInv
    BY InitIsRight, InitIsChained
  <1>2. IInv /\ FifoInv /\ [Next]_vars => IInv' /\ FifoInv'
    BY NextKeeps, StaysChained
  <1>3. ASSUME FifoInv PROVE QueueIsMarked
    <2>1. PICK q : Chain(head, tail, next, insend, q)
      BY <1>3 DEF FifoInv
    <2>2. /\ Places = 0..(Len(q) - 1) /\ Cardinality(Places) = Len(q)
          /\ Nth = Listed(q) /\ q \in Seq(Conns) /\ Len(q) \in Nat
      BY <2>1, QueueIs DEF Chain, Links
    <2>3. \A n \in Places : n + 1 \in 1..Len(q) /\ Nth[n] = q[n + 1]
      BY <2>2 DEF Listed
    <2>4. \A i \in 1..Len(q) : i - 1 \in Places /\ Nth[i - 1] = q[i]
      BY <2>2, <2>3
    <2>5. insend = {q[i] : i \in 1..Len(q)} /\ tail = IF q = <<>> THEN NULL ELSE q[Len(q)]
      BY <2>1 DEF Chain
    <2>6. insend = {Nth[n] : n \in Places}
      BY <2>3, <2>4, <2>5
    <2>7. Places = {} <=> q = <<>>
      <3>1. q = <<>> => Places = {}
        BY <2>2
      <3>2. q # <<>> => 1 \in 1..Len(q)
        BY <2>2
      <3> QED
        BY <2>4, <3>1, <3>2
    <2>8. tail = IF Places = {} THEN NULL ELSE Nth[Cardinality(Places) - 1]
      <3>1. q # <<>> => Len(q) \in 1..Len(q)
        BY <2>2
      <3>2. q # <<>> => Nth[Len(q) - 1] = q[Len(q)]
        BY <2>4, <3>1
      <3> QED
        BY <2>2, <2>5, <2>7, <3>2
    <2> QED
      BY <1>3, <2>6, <2>8 DEF QueueIsMarked, FifoInv
  <1> QED
    BY <1>1, <1>2, <1>3, PTL DEF Spec

\* What the queue promises.
LEMMA MovesAreFifo ==
  ASSUME NEW q \in Seq(Conns), q = Queue, NEW r, r = Queue', Moves(q, r)
  PROVE  [AsFifo!Next]_Queue
  <1>1. CASE r = q
    BY <1>1
  <1>2. CASE \E c \in Conns : c \notin {q[i] : i \in 1..Len(q)} /\ r = Append(q, c)
    BY <1>2 DEF AsFifo!Next, AsFifo!Ask, AsFifo!Waiting
  <1>3. CASE q # <<>> /\ r = Tail(q)
    BY <1>3 DEF AsFifo!Next, AsFifo!Turn
  <1>4. CASE \E c \in Conns : \E k \in 1..Len(q) :
               q[k] = c /\ r = SubSeq(q, 1, k - 1) \o SubSeq(q, k + 1, Len(q))
    BY <1>4 DEF AsFifo!Next, AsFifo!Leave, AsFifo!RemoveAt
  <1> QED
    BY <1>1, <1>2, <1>3, <1>4 DEF Moves

\* Under the same condition each connection takes its turn once for each time it
\* asked, in the order of asking, whatever passes begin, end and fail.
THEOREM QueueImplementsSendFifo ==
  ASSUME LastMayClose = FALSE
  PROVE  Spec => ImplementsSendFifo
  <1>1. Init => IInv /\ FifoInv
    BY InitIsRight, InitIsChained
  <1>2. IInv /\ FifoInv /\ [Next]_vars => IInv' /\ FifoInv'
    BY NextKeeps, StaysChained, Zenon
  <1>3. Init => AsFifo!Init
    <2> SUFFICES ASSUME Init PROVE AsFifo!Init
      OBVIOUS
    <2>1. Links(head, next, <<>>)
      BY DEF Init, Links
    <2> QED
      BY <2>1, QueueIs DEF AsFifo!Init
  <1>4. IInv /\ FifoInv /\ [Next]_vars => [AsFifo!Next]_Queue
    <2> SUFFICES ASSUME IInv, FifoInv, [Next]_vars PROVE [AsFifo!Next]_Queue
      OBVIOUS
    <2>1. PICK q : Chain(head, tail, next, insend, q)
      BY DEF FifoInv
    <2>2. PICK r : Chain(head', tail', next', insend', r) /\ Moves(q, r)
      BY <2>1, QueueMoves DEF FifoInv
    <2>3. q = Queue /\ q \in Seq(Conns)
      BY <2>1, QueueIs DEF Chain, Links
    <2>4. r = Queue'
      BY <2>2, QueueWillBe DEF Chain
    <2> QED
      BY <2>2, <2>3, <2>4, MovesAreFifo
  <1> QED
    BY <1>1, <1>2, <1>3, <1>4, PTL DEF Spec, ImplementsSendFifo, AsFifo!Spec
=============================================================================
