------------------------------ MODULE SendFifo ------------------------------
(***************************************************************************)
(* What the send queue promises: "Used to round-robin through connections   *)
(* when sending data." (src/src/conn.h:111).  A connection is in the queue  *)
(* at most once, takes its turn in the order it asked, and leaves the queue *)
(* only by its turn or by being closed.                                    *)
(***************************************************************************)
EXTENDS Naturals, Sequences, SequencesExt

CONSTANT Conns

VARIABLE queue  \* the connections that wait to send

Waiting == {queue[k] : k \in 1..Len(queue)}

Init == queue = <<>>

Ask(c) ==
  /\ c \notin Waiting
  /\ queue' = Append(queue, c)

Turn ==
  /\ queue # <<>>
  /\ queue' = Tail(queue)

Leave(c) ==
  /\ \E k \in 1..Len(queue) : queue[k] = c /\ queue' = RemoveAt(queue, k)

Next == Turn \/ \E c \in Conns : Ask(c) \/ Leave(c)

Spec == Init /\ [][Next]_queue
=============================================================================
