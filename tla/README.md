# libtrp in TLA+

Specifications of libtrp (`src/`), a C library that runs reliable connections
over a packet interface (UDP by default): TLA+ modules translated from the
source, TLC runs on small instances, and TLAPS proofs for every value of the
constants.  `PROJECT.json` lists components, runs, mutants, findings, hazards
and theorems, and maps every definition to the lines it stands for.

## The system

The library is single threaded and driven by events.  An application creates a
*router*, gives it callbacks and a *packet interface*, and drives it with
`trip_run` or with a loop of its own that calls `trip_timeout` and
`trip_action`.  There are no locks: what is hard is the order in which entry
points are called, callbacks that call back into the structure that is calling
them, answers that come inside a call or much later, and timers that hold
pointers to things that have changed or gone since.

| Component | State | Operations | Calls and is called by |
|---|---|---|---|
| Router (`trip.c`, `trip.h`) | `state`, `statedeadline`, `statetimer`, `error`, `packet->router`, the structures below | `trip_start`, `trip_stop`, `trip_timeout`, `trip_action`, `trip_ready`, `trip_unready`, `trip_error`, `_trip_set_state`, `_trip_set_error` | calls `bind`/`unbind`/`read`/`send` of the packet interface, which calls back `trip_ready`, `trip_unready`, `trip_error`, `trip_seg`, `trip_resolve`; timers call `_trip_timeout_router_cb`, `_trip_stop_async_cb` |
| Timer wheel (`timerwheel.c`, `time.c`) | a linked list of deadlines, callbacks, canceled marks | add, cancel, walk | walked by `trip_timeout`; callbacks add and cancel during the walk |
| Poll loop (`trip_poll.c`) | `w->deadline`, descriptors | `trip_run`, `_trip_timeout_cb`, `_trip_watch_cb` | tells the router of time and descriptors; the router tells it the nearest deadline |
| Resolve queue (`resolveq.c`) | array of slots, list of unused slots, `len`, `size` | put, pop, del | a connection's request; `trip_resolve` answers; the connection's timer deletes |
| Send queue and send pass (`sendq.c`, `_trip_listen`) | `head`, `tail`, links through the connections, `sendlen`, `sendsrc`, `buf` | nq, dq, del; a pass over the queue | connections ask; descriptors and zero timers start a pass |
| Connection (`conn.c`) | state, timer, deadline, growth, sequence, peer and self ids and keys | start, resolved, read, send, timeouts, close | the router hands it packets and turns |
| Handshake (`trip_seg`, `conn.c`, `PROTOCOL.md`) | two connections and the packets between them | OPEN, CHAL, PING | over a network that loses, repeats and reorders |
| Connection map, stream map, socket map | slots, free lists, ids | add, del, get | used by the router and the connections |
| Streams and messages (`stream.c`, `messageq.h`) | queues of messages | mostly unfinished in the source | connections |
| Serialisation (`pack.c`) | none | pack, unpack | packets |
| UDP interface (`packet.c`) | sockets, sources | bind, unbind, resolve, read, send | the router |

What makes each correct:

* **Router.**  The pointer to its state timer is valid whenever it is used; each
  waiting state has exactly one running deadline and no other state has any; the
  lifecycle is the documented one; the first error is kept; a router that is
  dead has unbound; a stop ends, a bind is decided.  (Two of these have an
  exception in the code: see `RouterSync` under Findings, and `NotLeftBound`.)
* **Timer wheel.**  Each timer is called once, not early, never after being
  canceled, whatever callbacks do to the list; a walk leaves nothing due behind;
  the loop never sleeps past a timer.
* **Resolve queue.**  An answer reaches the connection that asked or nobody; no
  slot is lost or shared; the array goes when the last request is answered.
* **Send queue.**  Links and marks agree; turns are given in order, nobody is
  forgotten, a pass is bounded; a packet that is tried again is sent from the
  source it was made for.
* **Connection.**  Whatever the router's structures hold refers to a connection
  that exists; an attempt ends, and its user is told once.
* **Handshake, connection map.**  Whoever is taken for a peer has answered the
  one who takes it; an answer is taken once, whatever is lost, repeated, late or
  forgotten; an attempt does not stay unanswered for packets that were lost;
  every live connection, and no other, is found under its id.
* **Serialisation.**  Nothing is written or read outside a buffer; what is read
  is what was written; a packet that was cut short is refused.

## Modules

| Module | What it is |
|---|---|
| `Router` | the router's state machine with its timers, `trip.c` |
| `RouterProofs` | inductive invariant and theorems of `Router` |
| `TimerSet` | what a timer service promises (abstract) |
| `TimerWheel` | the linked list and its walk, `r->mindeadline`, `trip_run`'s sleep; implements `TimerSet` |
| `TimerWheelProofs` | invariant of a walk, theorems and the refinement proof of `TimerWheel` |
| `MCTimerWheel` | instances of `TimerWheel` for TLC |
| `Resolver` | what the resolve queue promises (abstract) |
| `ResolveQ` | the array and its free list; implements `Resolver` |
| `ResolveQProofs` | inductive invariant, theorems and the refinement proof of `ResolveQ` |
| `SendFifo` | what the send queue promises (abstract) |
| `SendQ` | the linked queue and the write half of `_trip_listen`; implements `SendFifo` |
| `SendQProofs` | inductive invariants, theorems and the refinement proof of `SendQ` |
| `Connection` | the connections of a router and everything that points to one; composes `Resolver` and `SendFifo` |
| `ConnectionProofs` | inductive invariant and theorems of `Connection` |
| `ConnMap` | the connection map as operators on a record, `connmap.c` |
| `Session` | what the handshake promises (abstract) |
| `Handshake` | connections, maps and packets of several routers; uses `ConnMap`, implements `Session` |
| `MCHandshake` | an instance of `Handshake` for TLC |
| `HandshakeProofs` | inductive invariants, theorems and the refinement proof of `Handshake`, with what is proved of `ConnMap` |
| `Pack` | `trip_pack`, `trip_unpack`, `trip_pack_len` |
| `MCPack` | formats and values of `Pack` for TLC |
| `PackProofs` | what is proved of `Pack` |
| `ProofFacts` | facts about numbers, sequences and linked lists that the proofs share |

### Router

`r` is the router: one record, because the C functions pass it on and change it
several times within one call.  A call that runs to completion (`_trip_set_state`
with everything it calls) is an operator from a router to a router, and the
entry points are actions that apply it.  Each of the application's, the loop's
and the packet interface's entry points is an action; `trip_timeout`'s walk runs
one callback per step (`phase`, `walk`), so that the clock, and the order in
which callbacks run, are explored.

* *Time* is relative.  An entry of the wheel holds the milliseconds that are
  left, `statedeadline` the milliseconds to the state's deadline (-1: past).
* *The wheel* holds the router's own entries: state timers and stop requests.
  `NewTimer` is the allocator; with no free address it returns NULL, which is
  the code's out of memory.  The connections' entries appear as `SendFails`: the
  only thing they do to the router's state is fail it.
* *The packet interface* answers `bind()` and `unbind()` inside the call (`ok`,
  `error`) or at any later time (`async`, `trip_ready`, `trip_unready`,
  `trip_error`), and may report errors of its own.  The router keeps no record of
  what it has asked, so the model counts the calls that are unanswered: each
  answer may come after any later call and any restart.
* Two things are left out: without memory for a state timer in ERROR, an interface
  that answers `unbind()` inside the call is asked again by the entry code of
  ERROR, recursively; and before `_trip_fill_missing` has set `r->packet`
  (`trip.c:1381`) an error would read through a null pointer (`trip.c:864`), where
  the model has a router that is not bound.

`StopStates`, `FdStates`, `TimeoutActionStates` and `PacketErrorStates` say in
which states the environment calls which entry point.  `RouterAny` lets it call
everything the code does not refuse.  `RouterOrderly` restricts the application
and the loop to the order `trip_run` gives: one stop, of a router that listens,
and `trip_action` for descriptors while it listens or closes.  It does not
restrict the interface, which answers `bind()` and `unbind()` inside the call,
as those of the repository answer `unbind()` (`packet.c:191`,
`test/reliable_packet.c:70`), later, or never.  `RouterSync` is the same with an
interface that always answers `unbind()` inside the call.

*Late answers.*  `NotLeftBound` has one exception, and the code has it too.  If
the deadline of UNBIND passes while `unbind()` is unanswered, the router goes to
END (`trip.c:1463`); if the application then starts it again, `bind()` is
called, and the late `trip_unready(0)` takes the router to END from BIND or
LISTEN (`trip.c:1013-1026`) with the interface told to bind and not to unbind.
`pkt.overtaken` marks that order of calls, and only it is excepted, in END only;
in ERROR there is no exception.  The comment of `trip_stop` says of that timeout
"Packet interfaces are assumed dead after timeout, router ref is NULL'd."
(`trip.c:1552`), and the router never sets the reference to NULL.  No interface
of the repository answers `unbind()` later.

### TimerWheel

The list is the sequence of its entries from the head, and `walk.at` the place
of the link `prev` points to.  Adding during a walk shifts that place by one,
except when `prev` is the head link itself, in which case the new entry is
visited next: the code's "Value inserted".  Callbacks, descriptor handlers and
the application all are `UserCode`.  `mindeadline` is `r->mindeadline`, `poll`
is `w->deadline`, `run` says where `trip_run` is and when `epoll_wait` wakes.
The refinement maps an entry to free, set or canceled by whether it is linked
and marked.

### ResolveQ

Slots are a function of the array's index; the word a slot shares between the
connection and the link of the free list is one field.  C links slots by
pointers into an array `_grow` may move: the array is moved only when the free
list is empty, so the links are indices here.  `asked` is the packet interface:
the keys it still has to answer.  It answers each once.

### SendQ

`head`, `tail`, `next` and `insend` are the fields of `sendq_t` and of the
connections.  A pass of `_trip_listen` is a small program counter (`pass`).  The
C function runs without interruption but for `p->send`, from which an interface
may call back (`InSend`): `test/reliable_packet.c:105` hands the packet straight
to `trip_seg`, which makes, marks and queues connections, the one whose turn it
is too. All other actions need the pass to be idle; closing is a timer's.
`wakeup` says whether the wheel holds a timer for `_trip_send_immediately_cb`.
`_trip_qconnection` sets it whatever the router's flags, since it tests `r->flag
| _TRIPR_FLAG_ALWAYS_READY`, which is never zero.

### Connection

`conn`, `alive` and `mapped` are the connections' fields, the allocated ones and
those in `r->conn`; addresses are used again after a connection is freed.
`wheel` holds the connections' timers, `asked` what the packet interface has
been asked to resolve, `told` what `r->connection` was last told about an
address.  The resolve queue is taken as `Resolver` promises, which `ResolveQ`
implements.  Of the send queue `SendFifo` is what `q->head` reaches; since a
connection may be given up while it is the last in it, what `sendq_del` does not
keep is there as well: `adrift` says that `q->tail` points to freed memory or to
somebody linked behind it, and `lost` holds whoever is marked `insend` and linked
from there (`sendq_nq`, `sendq_dq`, `sendq_del`).
Each callback of `conn.c` and `trip.c` is an action of the timer that fires;
`trip_resolve`, packets and turns of the send queue come at any time.

* *States.*  START, RESOLVE, OPEN, PING, CHAL and ERROR.  READY, READY_PING and
  CLOSE are not reached: `ping.isactive` is never set, so that no PING is sent
  or accepted by the end that opened, and data is refused by a stub.  An
  outgoing connection therefore always ends by giving up.
* *Time* is not counted: a timer that is set may fire at any later step, and
  the deadline of OPEN and PING has passed after `MaxRetry` resends.
* *Turns.*  A connection sends one packet a turn and then has nothing to send;
  that the loop comes to ask it again within the turn assumes that
  `max_connection_send_count` is more than one, as it is by default.
* *Stopping.*  `StopBusy` says whether the router may be stopped while it has
  connections.  `_trip_close(r, 0)` frees them and leaves everything that points
  to them, so the invariants are checked for a router that is stopped without
  connections, and the finding for one that has some.
* Left out: no memory for a connection or its timer (hazards of
  `PROJECT.json`), and what packets carry.

### ConnMap and Handshake

`ConnMap` takes a map to a map, as the functions of `connmap.c` do: a slot is
full and holds a connection, or empty and holds the next link of the free list.
`_connmap_grow` pushes the new slots from the lowest on, so that the highest is
handed out first, and the map gives its memory back with the last connection.
An id is the pair of the slot's index and the random bits above it.  The random
bits are taken not to repeat on a router: they are 33 bits and more, and a
repetition is out of what the code guards against.

`Handshake` puts two of these maps behind a network: a set of packets, from which
one is lost, or stays to arrive again, or arrives long after others, as often as
`MaxFaults` allows.  `map` is `r->conn` of each router; `conn` holds the state,
id, source, peer's id and `_TRIPC_SEND_OPEN`/`_CHAL` mark of each connection;
addresses are used again.  `trip_open_connection`, `_tripc_resolved`, the resend
timer, the deadline (`GiveUp`) and the sending of OPEN and CHAL are actions of a
connection, and each way a packet is taken or refused is one of the network's.

* *Queues and timers* are those of `Connection`: here a connection that has
  something to send may send it at any step, and a timer that is set may fire at
  any step.  That only adds orders.
* *`Restart`* stops and starts a router, which forgets its connections
  (`_trip_close`).  Only a router that nothing waits for restarts: no connection
  of its own, which would have timers, and none marked to send.  What happens
  otherwise is the finding `ConnStop`.
* *PING* is a state and never a packet: no code makes `ping.isactive` true.
* *A repeated OPEN* makes one more connection at the other side, whose CHAL is one
  more offer: `r->connsrc`, which would tell (`trip.c:592`), is never filled.
  `PROTOCOL.md:657-658` says "If a connection is already OPENed then the packet is
  dropped."  `Session` allows many offers to one request, and only the first that
  is taken counts; that a lost CHAL is made good rests on the code's behaviour.
* *Keys and nonces*, and the limits an OPEN carries, are left out.

`Session` knows names only: attempts that wait, requests, offers, sessions.  The
refinement takes the connections in RESOLVE and OPEN for the attempts, what is
in the network for the requests and offers, and PING for a session.

### Pack

One call of `trip_pack` and one of `trip_unpack` of what arrives, a letter a
step.  `size` and `len` are what the C functions return, `at` is how far `buf`
has moved, which is not `len` after a `b`: its data is not copied and `buf`
stays at it.  A byte has `Byte` values, 256 in the code and 4 in the runs; every
boundary of the code (a byte, a sign, a length) is at a power of it.  Data is
shorter than `Byte4 - 5`, so that the sum of `pack.c:432`, which is made in 32
bits, does not wrap.  What is signed or sealed is a block of bytes that is not
looked into.  What a letter adds to `size` (`Counted`) and what it writes
(`Packed`, where `put` says how far `buf` has moved) are two definitions, as
they are two statements in the code; an 'O' writes zeros at `cryptstart`, which
it does not count: behind an 'o' that is where the seal has its room, and
without one it is the start of the buffer (`pack.c:313`), or where an 'e' was
(`pack.c:357`).  A letter `p` is refused by both calls, though `pack.h`
describes it as one for unpacking.

## Runs

| Run | Bounds | What it shows |
|---|---|---|
| `RouterAny` | 3 addresses for timers, timeouts 2/1/0 ms, 2 stops, 2 unanswered calls at a start | any order of calls: `TypeOK`, `StateTimerLive`, `NotLeftBound`, `FirstErrorKept` |
| `RouterOrderly` | 5 addresses, timeouts 2/0/0 ms, 1 stop, every answer | driven in order: `DeadlineFitsState`, `Lifecycle`; liveness `BindDecided`, `StopTerminates` |
| `RouterSync` | same, `unbind()` answered inside the call | END is left for ERROR: finding |
| `TimerWheel` | 3 entries, delays 0, 1, 2 ms, clock to 3 ms | refinement of `TimerSet`; `WalkResolvesAllDue`, `MinIsNearest` |
| `TimerNearest` | same | the loop sleeps past a timer: finding |
| `ResolveQ` | 3 connections, 4 keys | refinement of `Resolver`; `SizeIsAsked`, `NoLostSlot` |
| `SendQ` | 3 connections, 2 packets a turn, 2 a pass, tail not closed | refinement of `SendFifo`; links, bounds, retry, wake-up; liveness `EveryoneHasATurn` |
| `SendTail` | same, tail may be closed | a queued connection is unreachable: finding |
| `Connection` | 2 connections, 3 timers, 2 keys, 1 resend before the deadline; the last in the send queue may be given up | `OneCallback`, `TimerIsOwn`, `AnswerFindsItsOwn`, `SendersAreFit`, `MarkedIsQueued`; liveness `AttemptEnds` |
| `ConnStop` | same, stopped with connections | connections are freed without a word: finding |
| `Handshake` | 2 routers, one opens 2 times, 4 addresses, maps of at most 2, 1 fault | refinement of `Session`; `Agreement`, `MapHoldsLive`, `FreeListWhole`; liveness `OpenEnds` |
| `Pack` | bytes of 4 values, every two fields and the parts of the packets, values at each boundary, buffers of 1, 10, 40 | `InBounds`, `FieldsSurvive`, `CutIsRefused`, `PackLenIsEnough` |

*Why the bounds are enough.*  Three timer addresses hold a current state timer,
an orphan of an earlier state and a stop request at once, and exhausting them
gives the out-of-memory paths; five are more than `RouterOrderly` ever uses, so
that memory never runs out there.  Timeouts of 2, 1 and 0 ms make deadlines pass
before, at and after each event; the shipped router never sets the timeouts of
CLOSE and UNBIND, which are 0 in the other router runs, and the proofs hold for
all values.  Three wheel entries place an entry before, at and after the walk's
position.  Four keys for three connections let a late answer meet a key that
would be given out again.  Three queued connections have a head, a middle and a
tail.  Two connections have a first and a last place in the send queue, compete
for keys, and take each other's address and timers after one is freed; three
timers are one more than the two ever hold.  In `Handshake` a map of two slots
is empty, grows twice, is full, and is given back; two attempts and their
answers reuse each other's slots and addresses, and a third and fourth address
let one OPEN be answered twice.  `OpenEnds` needs one place more than there are
faults (`MaxFaults < MaxConn`): an OPEN whose CHAL is lost takes a place in
vain, and the one that makes it good another.  One fault is one loss, one
repetition, one refusal or one restart at every place it can be; resending makes
repeated OPENs without a fault.  In `Pack` every field stands before and behind
every other, with an 'o' before every 'O' as the formats of `conn.c` have it; a
buffer of 1 byte is too small for nearly all, 10 for some, and 40 for none; a
packet is cut at each byte.

*Fairness.*  `RouterOrderly` assumes that time passes, that `trip_timeout` is
called when an entry stays due and that a walk that has begun goes on: the loop
of `trip_run` does the second whenever `epoll_wait` returns without an event.  A
descriptor that is always ready would starve the timers (`trip_poll.c:254`, a
hazard); the properties hold for traffic with pauses.  `SendQ` assumes that a
zero timer that stays set is walked and that a pass goes on.  `Connection`
assumes that a timer that stays set fires while the router is in LISTEN: a walk
resolves every entry that is due (`WalkResolvesAllDue`).  `AttemptEnds` makes no
assumption about the packet interface or the peer.  `Handshake` assumes of each
connection that the timer of OPEN fires (as `Connection`), that what is marked is
sent, and that some OPEN of it and some CHAL to it arrives if there stays to be
one; losses are bounded by `MaxFaults`, not by fairness.  That what is marked is
sent is assumed only of a router whose application has opened at most one
connection (`TurnComes`): there nobody can be given up as the last of the send
queue with another to come behind it, and `EveryoneHasATurn` applies.  With a
second attempt a turn may never come (`SendTail`), and `OpenEnds` promises nothing:
it is about a single attempt, which is answered or given up although one packet is
lost, repeated or refused, or the other side restarts.

Each property of a passing run has a *mutant*: a definition changed as a
plausible bug would change it, under which the property fails.  The mutants
stand before the definitions they change, with a comment `Mutant:`.

## Findings

1. `RouterSync`: UNBIND calls `unbind()` and sets its timer afterwards
   (`trip.c:850`); an interface that answers inside the call, as `packet.c:191` does,
   has ended the router by then, and the timer takes it from END to ERROR with
   ETIME; `trip.c:1476` says "Done, no further actions."
2. `TimerNearest`: `r->mindeadline` is only updated by a walk, so a later timer
   overwrites the loop's nearer deadline; `trip_poll.c:154` says "The framework
   should always be giving the nearest timeout."
3. `SendTail`: `sendq_del` leaves `tail` pointing to a freed connection, and the
   next one queued is never reached; `conn.h:111` says "Used to round-robin
   through connections when sending data."
4. `ConnStop`: stopping frees every connection at once (`trip.c:403`), without a
   call of `r->connection`; `trip.c:1549` says "-Connections are notified of
   shutdown to close protocols nicely."

What the models do that the comments do not say, with no run of its own because
one step shows it:

* A stop or a late answer after the error runs the entry code of ERROR again and
  calls `unbind()` a second time (`trip.c:866`); `trip.c:1481` says "Error, no
  further actions."
* `trip_ready` outside BIND sets ERROR without an error code (`trip.c:902`).
* A variable integer is written from its lowest byte on (`pack.c:578`) and read from
  its highest (`PackVar`, `VarValue`), so that a sequence number of 256 is read as
  1; `PROTOCOL.md:51` says "Note that the current method is big endian so you can
  easily mask and bitshift."
* An OPEN of a connection that is open already makes another connection;
  `PROTOCOL.md:658` says "If a connection is already OPENed then the packet is
  dropped."
* `trip.c:311` says "After blocking the connection is requeued.", and
  `_trip_listen` returns before it is (`trip.c:351`).

## Proofs

All proofs are for every value of the constants, under their stated assumptions
(NULL is not an address, timeouts are natural numbers, and so on).  Some of
these say more: `max_packet_send_count` and `max_connection_send_count` are
above zero, as `_trip_init_settings` sets them (`trip.c:1104`); connections and
timers are finitely many; the clock stops before the value that stands for
no deadline (`EndIsLast`); and `r->max_conn` is a power of 2, as
`near_pwr2_64` makes it (`MaxConnIsPower`), so that a map that doubles meets it.  A
byte has an even number of values (`ByteIsEven`), a format is a sequence of
letters (`FormatsAreStrings`), sizes are natural numbers (`SizesAreNat`) and what
is packed for a letter is in the range of its C type (`ValuesAreInRange`).

A list that is linked in an array, the free lists of the connection map and the
resolve queue, is `List` of `ProofFacts`: some sequence without repetition runs
from the first along the links to the end and has a given set of members.  Lists
grow and shrink at the front (`ListGrows`, `ListShrinks`), stay when links of
others change (`ListStays`), have as many members as steps (`ListCounts`), and
whatever walks along the links goes through all of them (`WalkIsList`).

*Router.*  `StateTimerLive` is not inductive by itself.  What makes it so is
`Good`: the state timer, if any, is a pending state entry of the wheel (`Live`);
the entry whose callback runs is still allocated and is not the state timer
(`Busy`); and where the packet interface may be up, entering ERROR will find no
state timer and call `unbind()` (`WillUnbind`).  The proof follows the call graph:
one lemma per operator (`LeaveState`, `EnterError`, `_trip_set_error`, ...,
`_trip_set_state`), each with the part of `Good` it needs and gives, then one
step per action.  Theorems, for any environment: `TypeCorrect`,
`StateTimerIsLive`, `NeverLeftBound`, `FirstErrorIsKept`; `NeverLeftBound` with the
exception described under Router, whatever is unanswered.

`Lifecycle` and `DeadlineFitsState` are not true of every order of calls: a
second stop leads from UNBIND back to CLOSE.  They are proved for the
environment of `RouterOrderly` and `RouterSync`, stated as `Orderly`: the
application stops a listening router, once, and leaves `trip_action` for
timeouts to `trip_start`, and descriptors are ready in LISTEN and CLOSE only;
the errors and the answers to `bind()` and `unbind()`, inside the call or later,
are free.  So are the timeouts, but that `TimeoutUnbind` is 0, as it is in the
code, which never sets it, if `unbind()` may be answered inside the call: its
timer is then left in END and due at once, and a restart finds it due.  Both
properties say what such an answer leaves behind: `DeadlineFitsState` that
nothing but UNBIND's timer is pending in END, and `Lifecycle` that END may be
followed by ERROR.  For an interface that answers later they say that nothing is
pending in END, and that START alone follows it. `Tidy` is what makes them
inductive: outside ERROR the only pending state entry is the state timer's,
there is none in LISTEN, and one in START or END is due; a stop waits in LISTEN
or ERROR only and alone.  That a state which must have a deadline gets one is a
matter of memory: canceled entries stay allocated until a walk, so `HasRoom`
bounds them state by state, and a wheel that has memory for three entries
(`Roomy`) is shown to be enough; with two it is not.  Theorems: `DeadlineFits`,
and `StatesFollow`, which needs no memory at all.

*ResolveQ.*  The inductive invariant adds to the type that the free list's links
lead to unused slots or nowhere (`LinksOK`), that the keys in use are the keys
asked for and that they are finitely many, so that `size` counts them.  `ListInv`
says that the unused slots are a `List` from `free` to NULL; the walk `FreeList`
of the model, a recursive function, goes through it.  Theorems: `TypeCorrect`,
`SizeCorrect`, `NoSlotIsLost`, and `Refinement`: every step of `ResolveQ` is a
step of `Resolver` or a stutter, under the mapping of `AsResolver`.

*TimerWheel.*  `WalkFits` relates the list, its entries and a walk: no entry is
linked twice, the one being called is not linked, those the walk found when it
began are still linked or have been called, and behind the walk's position
(`HasPassed`) each of them is not due and no nearer than the one kept as the
minimum, which is behind it as well.  Each operation, adding, canceling,
resolving, keeping, returning, has a lemma that it keeps `WalkFits`; it is there
that adding at the head shifts the position, except for a walk at the head.
Theorems: `TypeCorrect`, `WalkResolvesAllDueHolds`, `MinIsNearestHolds` and
`WheelImplementsTimerSet`.

*SendQ.*  All of it holds with an interface that calls back from `p->send`.
Bounds, retries and the wake-up follow from what each place of a pass has sent
so far (`SentSoFar`) and from the wake-up covering also the connection whose
turn it is (`Covered`).  For the queue, `Chain` says that a sequence of
connections runs from head to tail along the links and is what is marked;
`FifoInv` that there is one, of living connections.  `Nth` is a recursive
function of the model: that it walks along the chain is shown for every place by
a least counterexample (`AllNumbers` of `ProofFacts`).  Theorems: `TypeCorrect`,
`PassIsBoundedHolds`, `RetryHasItsSourceHolds`, `WaitingHasWakeupHolds`, and,
for a tail that is not closed (`LastMayClose = FALSE`; the finding `SendTail` is
what happens otherwise), `QueueIsMarkedHolds` and `QueueImplementsSendFifo`.

*Connection.*  The five invariants are proved together, with what binds them:
the map holds the living connections, every timer in the wheel is a living
connection's (`WheelInv`: one for a connection that was opened, resolving or
resending as its state demands, with its request or without), and the send queue
holds whom its state and its mark let in (`SendInv`; `QueueFit` says how queue,
lost ones and tail go together).  One step per action, and under it the parts it
disturbs.  All are for a router that is not stopped while it has connections
(`StopBusy = FALSE`); the finding `ConnStop` is the other case.  Theorems:
`TypeCorrect`, `OneCallbackHolds`, `TimerIsOwnHolds`, `AnswerFindsItsOwnHolds`,
`SendersAreFitHolds`, `MarkedIsQueuedHolds`.  The last says of a marked
connection that it waits in the queue or was lost behind one that was given up.
`MarkedIsReachedHolds` says that the second comes of nothing else: in a run in
which no connection is given up while it is the last of the queue (`TailStays`,
an assumption on the run and not on the constants), every marked one waits in
the queue.

*Handshake.*  That a peer answered (`Agreement`) does not follow from itself: it
is a matter of packets that were sent long ago.  The inductive invariant says
that the random bits of every id, in a connection or in a packet, have been drawn
by its router (`IdsAreDrawn`); that no two connections of a router have the same
id (`IdsAreUnique`); that the slots of a map hold living connections of its
router, each at the index of its id (`MapsAreRight`); that every
request of an attempt went to one router, the one it was opened to
(`OneIsAsked`), so that no other can answer; that a CHAL in the network, as long
as its sender is there, names the connection the sender answers (`ChalIsTrue`);
and that whoever is in PING has a peer like that (`PeerAnswers`).  `ConnMap` has
lemmas of its own: a map stays a map when it grows, takes and loses a
connection.  A new id is fresh because of its random bits, not because of its
slot.

The other direction, that a living connection is in the map, is `MapInv`, on top
of that invariant: each map is whole (`IsWhole`: its empty slots are a `List` from
`free`, its size counts the others, its capacity divides its limit), and each
living connection is at the index of its id (`AllAreHeld`).  That the limit is a
power of 2 is what makes a full map below its limit double without passing it
(`Doubled`).  Slots and connections are then as many (`HeldIsLive`, by the
bijection between them), and the last connection takes the map with it when no
other is in it.  `TypeInv` adds what the type needs: nobody asks itself, and a
router whose application opens nothing has connections in CHAL only.

The refinement follows the actions: a new connection asks under a name that is
not in use, because its random bits are new (`NewIsUnused`); a repeated OPEN is one
more offer; a CHAL that is taken is an offer to the one that takes it, from the
router it asked (`ChalIsTaken`, from `OneIsAsked`); giving up ends one attempt or
one session, since ids are unique (`GiveUpEnds`); what is lost, refused or
forgotten by a restart fades (`FewerFade`); resolving, resending and sending change
no name (`EndsAreKept`).  Theorems: `HandshakeAgrees`, `MapHoldsLiveAlways`,
`FreeListIsWhole`, `TypeCorrect` and `HandshakeImplementsSession`, for any number
of routers, connections and faults.

*Pack.*  `FixedRoundTrip`: every integer of fixed width, signed or not, is read
as it was written, for bytes of any even number of values.  It rests on the
uniqueness of quotient and remainder (`DivModIsUnique`), from which the halves of
each width come back.

`PackIsInBounds`: what is counted is what is written and neither call goes
beyond its buffer, for every value and size.  That the two agree is a lemma over
the letters (`CountedIsPacked`), but for 'O', which writes what it does not
count.  Its zeros change nothing where a seal has its room: `SealsPaired` says
that every 'O' of a format has an 'o' before it with no 'e' in between, as the
formats of `conn.c` have, and `SealIsThere` is the invariant that the room at
`cryptstart` is in the buffer and holds zeros, so that writing them again
(`WrittenAgain`) leaves it as it was.  Without that hypothesis the theorem is
false: an 'O' alone writes over the fields at the start of the buffer, or behind
a buffer that is shorter than a seal (`pack.c:313`, `352`).
`WhatIsPackedIsRead` and `CutPacketsAreRefused` have the same hypothesis;
`LenIsEnough` does not need it, since what is counted does not depend on what is
written.

What is read is compared with what was written along the places where the fields
end: `Laid(pos, ..)` says that the k-th field is in the buffer between `pos[k-1]`
and `pos[k]`, and one more field moves none of them (`LaidGrows`).  While there
was no data, `trip_unpack` is at the end of a field (`ReadTo`), and there
`FieldIsRead` gives, letter by letter, how far the field takes it and what it
returns.  Variable integers are read for what they are up to one byte only
(`VarIsRead`, with `FewBytes` for the number of bytes); longer ones are read wrong
(see Findings).  Theorems: `WhatIsPackedIsRead` and `CutPacketsAreRefused`.

`LenIsEnough` is for formats whose signatures are paired (`Paired`: an 's'
before every 'S'), as the code's are: without its 's' an 'S' signs from the
start of the buffer, where `sigstart` is set at first (`pack.c:312`), and
`trip_pack_len` counts the signature at the 's' while `trip_pack` writes it at
the 'S'.  The invariant (`Enough`) is that what was written and the signatures
that are open are at most what `trip_pack_len` has counted up to there; the sum
it computes is a `SumTo` of `ProofFacts`.

*Model-checked only.*  Liveness (`BindDecided`, `StopTerminates`,
`EveryoneHasATurn`, `AttemptEnds`, `OpenEnds`), which rests on fairness and is
beyond the prover.  Every other property of a passing run is proved, under the
hypotheses named above.

## Not modelled

* *Streams and messages* (`stream.c`, `streammap.c`, `messageq.h`) are unfinished
  in the source: `tripc_close`, `_tripc_send_data` and the reading of data and
  disconnects are stubs, and programs open streams in READY, which no connection
  reaches.  A model would be of structures nothing drives; their hazard is listed.
* *Socket map* (`sockmap.c`): an array of descriptors and the data `trip_assign`
  gives them, which `trip_watch` hands on.  No control depends on it.
* *Descriptors* of the poll loop and the sockets of `packet.c`, beyond when the
  interface answers.
* *Options, keys, nonces* and the crypto library: data without control here.
* The tests and the echo programs.

See `PROJECT.json` for the status of each component.

## Plan

Done: `Router`, `TimerWheel`, `ResolveQ`, `SendQ`, `Connection`, `ConnMap`,
`Handshake`, `Pack`, and a module of proofs for each.  Next, in this order:

1. `Poll`: descriptors, and the starvation of timers by a descriptor that is
   always ready.
