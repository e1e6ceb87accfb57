---------------------------- MODULE MCHandshake ----------------------------
(* A small instance of Handshake for TLC.                                  *)
EXTENDS Handshake

\* Each map is empty, has one slot, and has two.
MCMaxConn == [r \in Routers |-> 2]
=============================================================================
