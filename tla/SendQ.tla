------------------------------- MODULE SendQ -------------------------------
(***************************************************************************)
(* The sending side of the router: the queue of connections that want to    *)
(* send (src/src/sendq.c), linked through the connections themselves, and   *)
(* the write half of _trip_listen (trip.c:278-377) that gives each its      *)
(* turn, with the one packet the packet interface would not take yet        *)
(* (r->sendlen, r->sendsrc, r->buf).                                       *)
(*                                                                         *)
(* One pass of _trip_listen runs over several steps here.  The code is       *)
(* single threaded: between them come only the calls that the interface     *)
(* makes back into the router while it is in p->send.                      *)
(***************************************************************************)
EXTENDS Integers, FiniteSets

CONSTANTS
  Conns,         \* addresses of connections
  NULL,          \* the null pointer
  MaxConnSend,   \* r->max_connection_send_count
  MaxPacketSend, \* r->max_packet_send_count
  LastMayClose   \* whether the last connection of the queue is ever closed

ASSUME NullIsNoConn == NULL \notin Conns

ASSUME ConnsAreFinite == IsFiniteSet(Conns)

\* Set where the router is made and nowhere else (trip.c:1104).
ASSUME CountsArePositive == MaxConnSend \in Nat \ {0} /\ MaxPacketSend \in Nat \ {0}

VARIABLES
  head, tail,  \* the queue
  next,        \* each connection's link
  insend,      \* the connections marked as being in the queue
  alive,       \* the connections that are allocated
  buf,         \* whose packet r->buf holds unsent (r->sendlen), or NULL
  sendsrc,     \* whose source that packet is to be sent from
  wakeup,      \* a timer for _trip_send_immediately_cb is set
  pass,        \* the pass of _trip_listen under way: see NoPass
  failed       \* the router is in ERROR

queueVars == <<head, tail, next, insend>>

bufVars == <<buf, sendsrc>>

vars == <<queueVars, alive, bufVars, wakeup, pass, failed>>

\* timer: called by _trip_send_immediately_cb; c: whose turn it is; connsent and
\* sent: packets sent in its turn and in all.
NoPass == [at |-> "idle", timer |-> FALSE, c |-> NULL, connsent |-> 0, sent |-> 0]

Init ==
  /\ head = NULL
  /\ tail = NULL
  /\ next = [c \in Conns |-> NULL]
  /\ insend = {}
  /\ alive = {}
  /\ buf = NULL
  /\ sendsrc = NULL
  /\ wakeup = FALSE
  /\ pass = NoPass
  /\ failed = FALSE

\* The n-th connection from the head.
Nth[n \in Nat] ==
  IF n = 0 THEN head
  ELSE IF Nth[n - 1] = NULL THEN NULL
  ELSE next[Nth[n - 1]]

Places == {n \in 0..(Cardinality(Conns) - 1) : Nth[n] # NULL}

Queue == [k \in 1..Cardinality(Places) |-> Nth[k - 1]]

-----------------------------------------------------------------------------
(* sendq.c.                                                                *)

\* Mutant: the tail is kept when the queue becomes empty.
sendq_dq_KeepsTail ==
  /\ head # NULL
  /\ head' = next[head]
  /\ tail' = tail
  /\ next' = [next EXCEPT ![head] = NULL]
  /\ insend' = insend \ {head}

sendq_dq ==
  /\ head # NULL
  /\ head' = next[head]
  /\ tail' = IF next[head] = NULL THEN NULL ELSE tail
  /\ next' = [next EXCEPT ![head] = NULL]
  /\ insend' = insend \ {head}

\* Mutant: a connection in the queue is appended again.
sendq_nq_Again(c) ==
  /\ insend' = insend \cup {c}
  /\ tail' = c
  /\ head' = IF tail = NULL THEN c ELSE head
  /\ next' = [d \in Conns |-> IF d = c THEN NULL ELSE IF d = tail THEN c ELSE next[d]]

\* Mutant: a connection is put at the head.
sendq_nq_Front(c) ==
  \/ /\ c \in insend
     /\ UNCHANGED queueVars
  \/ /\ c \notin insend
     /\ insend' = insend \cup {c}
     /\ head' = c
     /\ next' = [next EXCEPT ![c] = head]
     /\ tail' = IF tail = NULL THEN c ELSE tail

sendq_nq(c) ==
  \/ /\ c \in insend
     /\ UNCHANGED queueVars
  \/ /\ c \notin insend
     /\ insend' = insend \cup {c}
     /\ tail' = c
     /\ head' = IF tail = NULL THEN c ELSE head
     /\ next' = [d \in Conns |->
                   IF d = c THEN NULL ELSE IF d = tail THEN c ELSE next[d]]

\* Unlinks c where it is found from the head on; tail is not looked at.
sendq_del(c) ==
  /\ insend' = insend \ {c}
  /\ head' = IF c \in insend /\ head = c THEN next[c] ELSE head
  /\ next' = [d \in Conns |->
                IF c \in insend /\ next[d] = c /\ \E n \in Places : Nth[n] = d
                  THEN next[c] ELSE next[d]]
  /\ UNCHANGED tail

-----------------------------------------------------------------------------
(* What happens between passes, and while p->send runs: an interface that   *)
(* hands the packet straight to trip_seg (test/reliable_packet.c:105) makes  *)
(* and marks connections from inside it, the one whose turn it is too.      *)

Idle == pass.at = "idle"

InSend == pass.at \in {"resend", "write"}

_tripc_init(c) ==
  /\ Idle \/ InSend
  /\ c \notin alive
  /\ alive' = alive \cup {c}
  /\ next' = [next EXCEPT ![c] = NULL]
  /\ UNCHANGED <<head, tail, insend, bufVars, wakeup, pass, failed>>

\* A timer is set whatever the router's flags: "flag | _TRIPR_FLAG_ALWAYS_READY".
_trip_qconnection(c) ==
  /\ Idle \/ InSend
  /\ c \in alive
  /\ sendq_nq(c)
  /\ wakeup' = TRUE
  /\ UNCHANGED <<alive, bufVars, pass, failed>>

\* _tripc_destroy, then the memory is freed: from a timer, never in p->send.
_trip_close_connection(c) ==
  /\ Idle
  /\ c \in alive
  /\ c = tail => LastMayClose
  /\ sendq_del(c)
  /\ alive' = alive \ {c}
  /\ UNCHANGED <<bufVars, wakeup, pass, failed>>

-----------------------------------------------------------------------------
(* _trip_listen, called by the loop or by a timer.  Of its read half only    *)
(* the failure is here, after which nothing is written.                    *)

Resend == IF buf = NULL THEN "pick" ELSE "resend"

\* A descriptor is ready.
_trip_listen ==
  /\ Idle
  /\ \/ /\ pass' = [NoPass EXCEPT !.at = Resend]
        /\ UNCHANGED failed
     \/ /\ failed' = TRUE
        /\ UNCHANGED pass
  /\ UNCHANGED <<queueVars, alive, bufVars, wakeup>>

\* Mutant: the timer is not set again while connections still wait.
EndPass_NoTimer(q) ==
  /\ pass' = NoPass
  /\ wakeup' = IF pass.timer THEN FALSE ELSE wakeup

\* Back in trip_action, or in _trip_send_immediately_cb, which sets its timer
\* again if there are connections left; q is the head now.  Another timer may be
\* set beside the one that fired.
EndPass(q) ==
  /\ pass' = NoPass
  /\ \/ /\ ~pass.timer
        /\ UNCHANGED wakeup
     \/ /\ pass.timer
        /\ wakeup' \in {TRUE, q # NULL}

_trip_send_immediately_cb ==
  /\ Idle
  /\ wakeup
  /\ \/ /\ pass' = [NoPass EXCEPT !.at = Resend, !.timer = TRUE]
        /\ UNCHANGED <<wakeup, failed>>
     \/ /\ failed' = TRUE
        /\ wakeup' \in {TRUE, head # NULL}
        /\ UNCHANGED pass
  /\ UNCHANGED <<queueVars, alive, bufVars>>

\* "Resend previous attempted packet.", the end of that p->send: if it would block
\* again, the loop still goes on to the next connection.
ResendPacket ==
  /\ pass.at = "resend"
  /\ \/ /\ buf' = NULL
        /\ pass' = [pass EXCEPT !.at = "pick", !.sent = 1]
        /\ UNCHANGED <<wakeup, failed>>
     \/ /\ pass' = [pass EXCEPT !.at = "pick"]
        /\ UNCHANGED <<buf, wakeup, failed>>
     \/ /\ EndPass(head)
        /\ failed' = TRUE
        /\ UNCHANGED buf
  /\ UNCHANGED <<queueVars, alive, sendsrc>>

PickNext ==
  /\ pass.at = "pick"
  /\ sendq_dq
  /\ pass' = [pass EXCEPT !.at = "send", !.c = head, !.connsent = 0]
  /\ UNCHANGED <<alive, bufVars, wakeup, failed>>

NothingToPick ==
  /\ pass.at = "pick"
  /\ head = NULL
  /\ EndPass(NULL)
  /\ UNCHANGED <<queueVars, alive, bufVars, failed>>

\* Mutant: a turn has no end.
InTurn_Endless == pass.at = "send"

InTurn == pass.at = "send" /\ pass.connsent < MaxConnSend

\* Mutant: the pass goes on while there are connections in the queue.
EndTurn_Unlimited(q) ==
  /\ pass' = [pass EXCEPT !.at = "pick"]
  /\ UNCHANGED wakeup

\* The turn is over: the pass ends if enough packets have been sent.
EndTurn(q) ==
  \/ /\ pass.sent > MaxPacketSend
     /\ EndPass(q)
  \/ /\ pass.sent <= MaxPacketSend
     /\ pass' = [pass EXCEPT !.at = "pick"]
     /\ UNCHANGED wakeup

\* _tripc_send makes a packet, and p->send is called with it.
MakePacket ==
  /\ InTurn
  /\ buf' = pass.c
  /\ pass' = [pass EXCEPT !.at = "write"]
  /\ UNCHANGED <<queueVars, alive, sendsrc, wakeup, failed>>

\* p->send returns, the packet is sent.
SendPacket ==
  /\ pass.at = "write"
  /\ buf' = NULL
  /\ pass' = [pass EXCEPT !.at = "send", !.connsent = @ + 1, !.sent = @ + 1]
  /\ UNCHANGED <<queueVars, alive, sendsrc, wakeup, failed>>

\* Mutant: the source of the packet is not kept.
PacketBlocked_NoSource ==
  /\ pass.at = "write"
  /\ EndPass(head)
  /\ UNCHANGED <<queueVars, alive, bufVars, failed>>

\* "Packet not sent and we would block."
PacketBlocked ==
  /\ pass.at = "write"
  /\ sendsrc' = pass.c
  /\ EndPass(head)
  /\ UNCHANGED <<queueVars, alive, buf, failed>>

\* The interface fails: r->sendlen stays set, r->sendsrc is not.
PacketFails ==
  /\ pass.at = "write"
  /\ failed' = TRUE
  /\ EndPass(head)
  /\ UNCHANGED <<queueVars, alive, bufVars>>

\* _tripc_send returns NPOS.
SendError ==
  /\ InTurn
  /\ buf' = NULL
  /\ failed' = TRUE
  /\ EndPass(head)
  /\ UNCHANGED <<queueVars, alive, sendsrc>>

\* "Don't re-enqueue. Done sending."
DoneSending ==
  /\ InTurn
  /\ buf' = NULL
  /\ EndTurn(head)
  /\ UNCHANGED <<queueVars, alive, sendsrc, failed>>

\* The connection has used up its turn and goes to the end of the queue, unless it
\* was marked in p->send and is in it already.
Requeue ==
  /\ pass.at = "send"
  /\ pass.connsent = MaxConnSend
  /\ sendq_nq(pass.c)
  /\ EndTurn(head')
  /\ UNCHANGED <<alive, bufVars, failed>>

Listen ==
  \/ ResendPacket \/ PickNext \/ NothingToPick
  \/ MakePacket \/ SendPacket \/ PacketBlocked \/ PacketFails
  \/ SendError \/ DoneSending \/ Requeue

Next ==
  \/ \E c \in Conns : _tripc_init(c) \/ _trip_qconnection(c) \/ _trip_close_connection(c)
  \/ _trip_listen
  \/ _trip_send_immediately_cb
  \/ Listen

Spec == Init /\ [][Next]_vars

\* Timers that are set are walked, and a pass that has begun is finished.
FairSpec ==
  /\ Spec
  /\ WF_vars(_trip_send_immediately_cb)
  /\ WF_vars(Listen)

-----------------------------------------------------------------------------
(* Correctness.                                                            *)

\* Pointers point to connections, and a pass is where the code can be.
TypeOK ==
  /\ {head, tail, buf, sendsrc} \subseteq Conns \cup {NULL}
  /\ next \in [Conns -> Conns \cup {NULL}]
  /\ insend \subseteq Conns
  /\ alive \subseteq Conns
  /\ wakeup \in BOOLEAN
  /\ pass.at \in {"idle", "resend", "pick", "send", "write"}
  /\ pass.c \in Conns \cup {NULL}
  /\ pass.connsent \in 0..MaxConnSend
  /\ failed \in BOOLEAN

\* The links from head reach exactly the connections marked insend, all of them
\* allocated, and end at tail: a marked connection that cannot be reached is
\* never queued again (sendq.c:42-45) and never sends.
QueueIsMarked ==
  /\ insend = {Nth[n] : n \in Places}
  /\ insend \subseteq alive
  /\ tail = IF Places = {} THEN NULL ELSE Nth[Cardinality(Places) - 1]

\* A pass sends no more than max_packet_send_count and the rest of the turn that
\* was under way: "Rate limit number of sent packets." (trip.c:308)
PassIsBounded == pass.sent <= MaxPacketSend + MaxConnSend

\* A packet that is tried again goes out from the source of the connection that
\* made it, whatever connections had a turn in between (trip.c:284-305); a packet
\* that is in its first p->send is not kept yet.
RetryHasItsSource == buf # NULL /\ ~failed /\ pass.at # "write" => buf = sendsrc

\* The wheel always holds a timer that will come back to a queue with
\* connections in it, so that none waits for a descriptor event (trip.c:96-124).
WaitingHasWakeup == head # NULL => wakeup

\* Each connection takes its turn once for each time it asked, in order.
AsFifo == INSTANCE SendFifo WITH queue <- Queue

ImplementsSendFifo == AsFifo!Spec

\* "Used to round-robin through connections when sending data." (conn.h:111): a
\* connection marked as waiting is in the queue and will have its turn.
MarkedIsReachable == insend \subseteq {Nth[n] : n \in Places}

\* No connection waits for ever behind others that always have more to send.
EveryoneHasATurn == \A c \in Conns : c \in insend ~> (c \notin insend \/ failed)
=============================================================================
