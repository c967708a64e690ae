------------------------------ MODULE MCSched ------------------------------
(***************************************************************************)
(* The instances of Sched that TLC checks: three processes, none of which  *)
(* renames (MCSchedMasked), or two of which do (MCSchedRename,             *)
(* MCSchedWindow).                                                         *)
(***************************************************************************)
EXTENDS Sched
=============================================================================
