------------------------------- MODULE MCPmm -------------------------------
(***************************************************************************)
(* Pmm on a small RAM with a hole in it (the reserved region), so that     *)
(* runs start, break and end at every kind of boundary.                    *)
(***************************************************************************)
EXTENDS Pmm
=============================================================================
