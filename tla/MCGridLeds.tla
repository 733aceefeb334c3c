----------------------------- MODULE MCGridLeds -----------------------------
(***************************************************************************)
(* Blocks of 2 x 2 and a grid of 3 x 1: two blocks, one of them cut by the *)
(* size, and two more that the grid does not have.                         *)
(***************************************************************************)
EXTENDS GridLeds

MCLevel == {-1, 0, 1}
=============================================================================
