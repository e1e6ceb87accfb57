------------------------------ MODULE Resolver ------------------------------
(***************************************************************************)
(* What the resolve queue promises (src/src/resolveq.h): a request handed   *)
(* to the packet interface under a key is answered once, to the connection  *)
(* that made it, or to nobody if that connection has gone meanwhile.  No    *)
(* two requests that wait for an answer share a key.                       *)
(***************************************************************************)
EXTENDS Integers

CONSTANTS
  Keys,   \* what a request may be known by
  Conns,  \* connections
  NULL    \* no connection

VARIABLES
  request,  \* under each key: nothing, a connection, or one that has gone
  answered  \* whom the last answer went to

vars == <<request, answered>>

None == "none"

Gone == "gone"

Init ==
  /\ request = [k \in Keys |-> None]
  /\ answered = NULL

Ask(k, c) ==
  /\ request[k] = None
  /\ request' = [request EXCEPT ![k] = c]
  /\ UNCHANGED answered

Leave(k) ==
  /\ request[k] \in Conns
  /\ request' = [request EXCEPT ![k] = Gone]
  /\ UNCHANGED answered

Answer(k) ==
  /\ request[k] # None
  /\ answered' = IF request[k] = Gone THEN NULL ELSE request[k]
  /\ request' = [request EXCEPT ![k] = None]

\* An answer nobody asked for goes nowhere.
Stray(k) ==
  /\ request[k] = None
  /\ answered' = NULL
  /\ UNCHANGED request

Next ==
  \E k \in Keys : Leave(k) \/ Answer(k) \/ Stray(k) \/ \E c \in Conns : Ask(k, c)

Spec == Init /\ [][Next]_vars
=============================================================================
