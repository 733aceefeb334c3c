------------------------------- MODULE MCMetro -------------------------------
(* Two metros, so that a handler can start, stop and starve the other.  The  *)
(* interval 1 is clamped to the minimum 2, so that a metro is due at every   *)
(* loop and can throw in each; callbacks come early or late for it, and a    *)
(* count of 2 has a first and a last tick.                                   *)
EXTENDS Metro

MCRequested == {0, 1}
MCCounts == {-1, 2}

==============================================================================
