---------------------------- MODULE MCTimerWheel ----------------------------
(* Small instances of TimerWheel for TLC.                                  *)
EXTENDS TimerWheel, TLC

\* An indefinite trip_run, and one that returns after a millisecond.
MCRunTimeouts == {-1, 1}

Symmetry == Permutations(Ids)
=============================================================================
