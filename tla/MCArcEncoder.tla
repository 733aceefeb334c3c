---------------------------- MODULE MCArcEncoder ----------------------------
(***************************************************************************)
(* Deltas at both ends of an int8_t and small ones that add up slowly;     *)
(* resolutions below, within and above the clamp, and one that wraps.      *)
(***************************************************************************)
EXTENDS ArcEncoder

MCDelta == {-128, -3, -1, 0, 2, 127}
MCDiv == {-1, 0, 2, 5}
=============================================================================
