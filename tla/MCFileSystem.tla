---------------------------- MODULE MCFileSystem ----------------------------
(***************************************************************************)
(* Two names in a table with room for two files, two handles: enough for a *)
(* table and handles that are full, for a file open twice, and for a       *)
(* rename that is followed by another file with the old name.  What is     *)
(* written is told from what is not there by the size alone.  A page whose *)
(* caller has misused every name is not followed further: nothing is said  *)
(* of it.                                                                  *)
(***************************************************************************)
EXTENDS FileSystem, TLC

CONSTANTS n1, n2

MCName == {n1, n2}
MCFlags == {{"RDONLY"}, {"WRONLY", "CREAT"}}
SomeNameIsSound == misused # MCName
NameSymmetry == Permutations(MCName)
=============================================================================
