----------------------------- MODULE MCMainLoop -----------------------------
(* Two MIDI events, one key and one encoder event can wait; a batch has up  *)
(* to two lines, so that a line follows a reset or precedes a throwing one; *)
(* handlers throw up to twice, so that a retried event can fail again.      *)
EXTENDS MainLoop

MCCAP == [midi |-> 2, key |-> 1, enc |-> 1]

============================================================================
