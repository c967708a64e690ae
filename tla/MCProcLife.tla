----------------------------- MODULE MCProcLife -----------------------------
(***************************************************************************)
(* The instances of ProcLife that TLC checks.  waitpid is called as init   *)
(* calls it (wait), as the shell calls it for a foreground job (WUNTRACED) *)
(* and between prompts (WNOHANG), and with one pid.                        *)
(***************************************************************************)
EXTENDS ProcLife

MCWants ==
  { AnyChild,
    [AnyChild EXCEPT !.untraced = TRUE],
    [pid |-> 2, nohang |-> TRUE, untraced |-> TRUE] }

MCOnlyWait == {AnyChild}
=============================================================================
