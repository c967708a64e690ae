---------------------------- MODULE MCFileTable ----------------------------
(***************************************************************************)
(* FileTable with tables small enough to run full: files, descriptors and  *)
(* pages each run out before the others in some state.                     *)
(***************************************************************************)
EXTENDS FileTable
=============================================================================
