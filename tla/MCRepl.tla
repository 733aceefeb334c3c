------------------------------- MODULE MCRepl -------------------------------
(***************************************************************************)
(* An upload or a deletion, and a line typed, beside the first file list   *)
(* and the one of the first gesture.  The buffer holds the answer to one   *)
(* capture; a line before it costs it its end token, two the second of its *)
(* lines, four the first, six both.                                        *)
(***************************************************************************)
EXTENDS Repl, TLC

MCOutputLen == <<4, 2>>

MCMayStart == "u1" :> {"upload", "delete"} @@ "u2" :> {"type"}
=============================================================================
