----------------------------- MODULE MCGridLink -----------------------------
(* TLC instances of GridLink: one device.                                  *)
EXTENDS GridLink, TLC

\* The calls are interchangeable.
Symmetry == Permutations(Slot)
=============================================================================
