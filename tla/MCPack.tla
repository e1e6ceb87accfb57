------------------------------- MODULE MCPack -------------------------------
(* A small instance of Pack for TLC, with bytes of four values.  Every 'O'    *)
(* has its 'o' before it.                                                   *)
EXTENDS Pack

\* The bounds of each integer and what is next to them, by letter; NULL and
\* another block; no data, a byte of it, and more than a byte can count.
MCValues(l) ==
  CASE l = "c" -> {-2, -1, 0, 1}
    [] l = "C" -> {0, 1, 3}
    [] l = "h" -> {-8, -1, 0, 7}
    [] l = "H" -> {0, 6, 15}
    [] l = "i" -> {-128, -1, 27, 127}
    [] l = "I" -> {0, 27, 255}
    [] l = "q" -> {-32768, -1, 0, 6939, 32767}
    [] l = "Q" -> {0, 6939, 65535}
    [] l = "V" -> {0, 3, 4, 255}
    [] l = "W" -> {0, 3, 27, 65535}
    [] l = "b" -> {<<>>, <<2>>, <<0, 1, 2, 3>>}
    [] l \in Blocks -> {Zeros, [k \in 1..Block |-> 1]}
    [] OTHER -> {"none"}

\* Every two fields, and the parts of OPEN and CHAL as they are read.
MCFormats ==
  {<<l, m>> : l, m \in Fixed \cup Blocks \cup {"V", "W", "b"}} \cup
  {<<"C", "Q", "W">>, <<"H", "b">>, <<"C", "o", "Q", "n", "k", "I", "O">>,
   <<"s", "C", "W", "S">>, <<"e", "n", "Q", "I", "E">>, <<"o", "O", "C", "o", "C", "O">>,
   <<"p">>}
=============================================================================
