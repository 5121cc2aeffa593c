------------------------------- MODULE MCFileCopy -------------------------------
(***************************************************************************)
(* FileCopy by itself, with files of one block and no other program that   *)
(* touches the source.                                                     *)
(***************************************************************************)
EXTENDS FileCopy

CONSTANTS n1, n2, n3, n4, n5, k1, k2

Nodes5 == {n1, n2, n3, n4, n5}
Cells2 == {k1, k2}
================================================================================
