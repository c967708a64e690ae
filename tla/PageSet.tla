------------------------------ MODULE PageSet ------------------------------
(***************************************************************************)
(* What the physical memory allocator promises its callers: a set of free  *)
(* pages.  A request for n pages gets the lowest n consecutive free pages, *)
(* and is refused only when there are none; a page given back is free.     *)
(***************************************************************************)
EXTENDS Naturals

CONSTANTS
  Frames,      \* the pages of RAM that the allocator manages
  MaxRun       \* bound: the longest run that is asked for

VARIABLES
  free,        \* the free pages
  wanted,      \* the length of the run asked for, 0 when there is no request
  got          \* the first page of the last answer, 0 for PMM_INVALID

vars == <<free, wanted, got>>

RunAt(b, n) == b .. b + n - 1

Fits(b, n) == RunAt(b, n) \subseteq free

Init == free = Frames /\ wanted = 0 /\ got = 0

Request(n) == wanted = 0 /\ wanted' = n /\ UNCHANGED <<free, got>>

Grant(b) ==
  /\ wanted # 0
  /\ Fits(b, wanted)
  /\ \A c \in free : Fits(c, wanted) => b <= c
  /\ free' = free \ RunAt(b, wanted)
  /\ got' = b
  /\ wanted' = 0

Refuse ==
  /\ wanted # 0
  /\ \A b \in free : ~Fits(b, wanted)
  /\ got' = 0
  /\ wanted' = 0
  /\ UNCHANGED free

\* A page that is free already may be given back again: nothing happens.
GiveBack(p) == wanted = 0 /\ free' = free \cup {p} /\ UNCHANGED <<wanted, got>>

Next ==
  \/ \E n \in 1 .. MaxRun : Request(n)
  \/ \E p \in Frames : Grant(p) \/ GiveBack(p)
  \/ Refuse

Spec == Init /\ [][Next]_vars
=============================================================================
