----------------------------- MODULE UserParts -----------------------------
(***************************************************************************)
(* Two parts of the shell's process that share no state: the heap of its   *)
(* library (Malloc) and the line it reads (LineEdit).                      *)
(***************************************************************************)
CONSTANTS
  LIMIT, Sizes,                                      \* of Malloc
  MAX, HISTORY_SIZE, Bytes, Builtins, Listing,       \* of LineEdit
  MaxOps

VARIABLES
  heap, live,         \* of Malloc
  ed, tty, history,   \* of LineEdit
  ops                 \* the calls made, or what was typed, so far

MA == INSTANCE Malloc
LE == INSTANCE LineEdit

(* The heap (libc/malloc.c): every block has what the program wrote to it, and the free list
   holds no block twice, in use, or past the break. *)
HeapExact == MA!HeapExact

(* The line editor (readline of shell.c): the row shows the line that Enter will run. *)
LineShown == LE!LineShown
=============================================================================
