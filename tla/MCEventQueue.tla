---------------------------- MODULE MCEventQueue ----------------------------
(* A ring of four slots: every pair (w, r) is reached, w and r wrap, and the *)
(* ring is found empty, partly filled and full at each of them.              *)
EXTENDS EventQueue

CONSTANTS noteOn, noteOff, zeros

MCEvent == {zeros, noteOn, noteOff}

============================================================================
