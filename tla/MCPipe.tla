------------------------------- MODULE MCPipe -------------------------------
(***************************************************************************)
(* Pipe with a buffer of two bytes and counters that wrap after four, so   *)
(* that a handful of reads and writes takes both around.                   *)
(***************************************************************************)
EXTENDS Pipe
=============================================================================
