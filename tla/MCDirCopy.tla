----------------------------- MODULE MCDirCopy ------------------------------
(***************************************************************************)
(* Small instances of the directory copy for TLC: as many files as         *)
(* workers, and one file more than there are workers.                      *)
(***************************************************************************)
EXTENDS DirCopy
=============================================================================
