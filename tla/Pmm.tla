-------------------------------- MODULE Pmm --------------------------------
(***************************************************************************)
(* The physical memory allocator (kernel/pmm.c): a list of the free pages, *)
(* linked through the pages themselves and kept in address order so that   *)
(* pmm_alloc_contiguous can find a run in one walk.                        *)
(*                                                                         *)
(* A page is its number, 0 is the null pointer.  A pointer to a link (a    *)
(* struct run ** in the code) is the page the link is in, 0 for the        *)
(* variable freelist.  A step is one iteration of a loop.  The allocator   *)
(* is not reentrant, and nothing runs between the steps of one call.       *)
(***************************************************************************)
EXTENDS Naturals, FiniteSets

CONSTANTS
  NPages,      \* the pages of RAM, 1 .. NPages
  Reserved,    \* the pages of the kernel and of the initramfs
  MaxRun       \* bound: the longest run asked for or given back

Pages  == 1 .. NPages
Frames == Pages \ Reserved
Links  == 0 .. NPages

ASSUME PmmAssumption ==
  /\ NPages \in Nat \ {0}
  /\ MaxRun \in Nat \ {0}
  /\ Reserved \subseteq Pages

VARIABLES
  freelist,    \* the first free page
  next,        \* r->next of the page r
  free_count,
  pc,          \* idle, or the loop that the allocator is in
  n,           \* argument of pmm_alloc_contiguous
  run_start,   \* its locals
  base,
  count,
  end,
  i,
  pp,          \* the link that the walk is at, also in pmm_free
  pa,          \* argument of pmm_free
  left,        \* pages that pmm_free_contiguous has yet to free
  ret,         \* the last answer of an allocation
  free,        \* history: the pages on the list
  owned        \* history: the pages that callers hold

list   == <<freelist, next, free_count>>
locals == <<n, run_start, base, count, end, i, pp, pa, left>>
vars   == <<list, pc, locals, ret, free, owned>>

Loops == {"idle", "scan", "cut", "insert"}

TypeOK ==
  /\ freelist \in Links
  /\ next \in [Pages -> Links]
  /\ free_count \in 0 .. NPages
  /\ pc \in Loops
  /\ n \in 0 .. MaxRun
  /\ run_start \in Links
  /\ base \in Links
  /\ count \in 0 .. NPages
  /\ end \in Links
  /\ i \in 0 .. MaxRun
  /\ pp \in Links
  /\ pa \in 0 .. NPages + MaxRun
  /\ left \in 0 .. MaxRun
  /\ ret \in Links
  /\ free \subseteq Frames
  /\ owned \subseteq Frames

\* The least page of S above x, 0 if there is none.
Above(S, x) ==
  IF \E q \in S : q > x
  THEN CHOOSE q \in S : q > x /\ \A r \in S : r > x => q <= r
  ELSE 0

\* pmm_init: every page that is not reserved, in address order.
Init ==
  /\ freelist = Above(Frames, 0)
  /\ next = [p \in Pages |-> IF p \in Frames THEN Above(Frames, p) ELSE 0]
  /\ free_count = Cardinality(Frames)
  /\ pc = "idle"
  /\ n = 0 /\ run_start = 0 /\ base = 0 /\ count = 0 /\ end = 0 /\ i = 0
  /\ pp = 0 /\ pa = 0 /\ left = 0
  /\ ret = 0
  /\ free = Frames
  /\ owned = {}

-----------------------------------------------------------------------------
\* *pp
At(link) == IF link = 0 THEN freelist ELSE next[link]

\* The pages of a run.
RunAt(b, len) == b .. b + len - 1

\* *link = v, with the pages of zeroed cleared.
Store(link, v, zeroed) ==
  /\ freelist' = IF link = 0 THEN v ELSE freelist
  /\ next' = [p \in Pages |-> IF p = link THEN v ELSE IF p \in zeroed THEN 0 ELSE next[p]]

\* A finished call leaves nothing behind.
Idle ==
  /\ pc' = "idle"
  /\ n' = 0 /\ run_start' = 0 /\ base' = 0 /\ count' = 0 /\ end' = 0 /\ i' = 0
  /\ pp' = 0 /\ pa' = 0 /\ left' = 0

\* The call hands the pages of S, the first of them b, to the caller.
HandOut(b, S) ==
  /\ ret' = b
  /\ free' = free \ S
  /\ owned' = owned \cup S

\* pmm_alloc, and pmm_alloc_contiguous(1): the first page of the list.
PmmAlloc ==
  /\ pc = "idle" /\ n = 1
  /\ freelist # 0
  /\ Store(0, next[freelist], {freelist})
  /\ free_count' = free_count - 1
  /\ HandOut(freelist, {freelist})
  /\ Idle

\* The list is empty: PMM_INVALID.
PmmInvalid ==
  /\ pc = "idle" /\ n # 0
  /\ freelist = 0
  /\ ret' = 0
  /\ Idle
  /\ UNCHANGED <<list, free, owned>>

\* A caller asks for len pages.
Call(len) ==
  /\ pc = "idle" /\ n = 0
  /\ n' = len
  /\ UNCHANGED <<list, pc, run_start, base, count, end, i, pp, pa, left, ret, free, owned>>

PmmAllocContiguous ==
  /\ pc = "idle" /\ n > 1
  /\ freelist # 0
  /\ pc' = "scan"
  /\ pp' = 0 /\ run_start' = 0
  /\ base' = freelist
  /\ count' = 1
  /\ UNCHANGED <<list, n, end, i, pa, left, ret, free, owned>>

\* One iteration of the search: the run goes on, or a new one starts.
\* (mutants: a gap does not end the run; a gap does not move its start)
RunGoesOnAny(nxt) == count' = count + 1 /\ UNCHANGED <<run_start, base>>
RunGoesOnStale(nxt) ==
  IF nxt = At(pp) + 1
  THEN count' = count + 1 /\ UNCHANGED <<run_start, base>>
  ELSE count' = 1 /\ base' = nxt /\ UNCHANGED run_start
RunGoesOn(nxt) ==
  IF nxt = At(pp) + 1
  THEN count' = count + 1 /\ UNCHANGED <<run_start, base>>
  ELSE count' = 1 /\ base' = nxt /\ run_start' = At(pp)

Scan ==
  /\ pc = "scan"
  /\ count < n /\ next[At(pp)] # 0
  /\ RunGoesOn(next[At(pp)])
  /\ pp' = At(pp)
  /\ UNCHANGED <<list, pc, n, end, i, pa, left, ret, free, owned>>

\* The list ends before a run of n pages: PMM_INVALID.
ScanFails ==
  /\ pc = "scan"
  /\ count < n /\ next[At(pp)] = 0
  /\ ret' = 0
  /\ Idle
  /\ UNCHANGED <<list, free, owned>>

ScanEnds ==
  /\ pc = "scan"
  /\ count >= n
  /\ end' = At(run_start)
  /\ i' = 0
  /\ pc' = "cut"
  /\ UNCHANGED <<list, n, run_start, base, count, pp, pa, left, ret, free, owned>>

\* end goes to the page after the run.
Cut ==
  /\ pc = "cut"
  /\ i < n
  /\ end' = next[end]
  /\ i' = i + 1
  /\ UNCHANGED <<list, pc, n, run_start, base, count, pp, pa, left, ret, free, owned>>

CutEnds ==
  /\ pc = "cut"
  /\ i = n
  /\ Store(run_start, end, RunAt(base, n))
  /\ free_count' = free_count - n
  /\ HandOut(base, RunAt(base, n))
  /\ Idle

\* pmm_free(p) and pmm_free_contiguous(p, len): a caller gives back pages that it
\* holds, or that are on the list already.
PmmFree(p, len) ==
  /\ pc = "idle" /\ n = 0
  /\ (RunAt(p, len) \cap Pages) \subseteq owned \cup free
  /\ pc' = "insert"
  /\ pa' = p /\ left' = len
  /\ pp' = 0
  /\ UNCHANGED <<list, n, run_start, base, count, end, i, ret, free, owned>>

\* The walk to the place of pa in the list.
\* (mutant: the test for a page that is on the list already is dropped)
OnListNever(p) == FALSE
OnList(p) == At(pp) = p

Walk ==
  /\ pc = "insert" /\ pa \in Pages
  /\ At(pp) # 0 /\ At(pp) < pa
  /\ pp' = At(pp)
  /\ UNCHANGED <<list, pc, n, run_start, base, count, end, i, pa, left, ret, free, owned>>

\* The next page of pmm_free_contiguous, from the start of the list.
NextPage ==
  \/ /\ left > 1
     /\ pa' = pa + 1 /\ left' = left - 1 /\ pp' = 0
     /\ UNCHANGED <<pc, n, run_start, base, count, end, i>>
  \/ left <= 1 /\ Idle

\* pmm_free ignores an address outside RAM and a page that is on the list.
FreeIgnored ==
  /\ pc = "insert"
  /\ pa \notin Pages \/ (~(At(pp) # 0 /\ At(pp) < pa) /\ OnList(pa))
  /\ NextPage
  /\ UNCHANGED <<list, ret, free, owned>>

Insert ==
  /\ pc = "insert" /\ pa \in Pages
  /\ ~(At(pp) # 0 /\ At(pp) < pa)
  /\ ~OnList(pa)
  /\ freelist' = IF pp = 0 THEN pa ELSE freelist
  /\ next' = [p \in Pages |-> IF p = pa THEN At(pp) ELSE IF p = pp THEN pa ELSE next[p]]
  /\ free_count' = free_count + 1
  /\ free' = free \cup {pa}
  /\ owned' = owned \ {pa}
  /\ NextPage
  /\ UNCHANGED ret

Alloc == PmmAlloc \/ PmmInvalid \/ PmmAllocContiguous
         \/ Scan \/ ScanFails \/ ScanEnds \/ Cut \/ CutEnds

Next ==
  \/ \E len \in 1 .. MaxRun : Call(len)
  \/ Alloc
  \/ \E p \in Pages, len \in 1 .. MaxRun : PmmFree(p, len)
  \/ Walk \/ FreeIgnored \/ Insert

Spec == Init /\ [][Next]_vars

\* A call that has begun runs to its end.
FairSpec == Spec /\ WF_vars(Alloc) /\ WF_vars(Walk \/ FreeIgnored \/ Insert)

-----------------------------------------------------------------------------
(* Properties *)

\* y is the first page of the list after x.
IsNext(x, y) ==
  \/ y = 0 /\ \A q \in free : q <= x
  \/ y \in free /\ y > x /\ \A q \in free : q > x => y <= q

\* The list holds the free pages, all of them, in address order, whatever
\* sequence of allocations, frees and double frees led here.
SortedList ==
  /\ IsNext(0, freelist)
  /\ \A x \in free : IsNext(x, next[x])

\* free_count counts the list: a double free does not count twice.
CountExact == free_count = Cardinality(free)

\* No page is both held by a caller and on the list, and none is lost.
NoneSharedNoneLost == owned \cap free = {} /\ owned \cup free = Frames

\* What the search knows between two iterations: the run that it is in, and that
\* no run of n pages starts before it.
ScanInv ==
  pc = "scan" =>
    /\ n > 1
    /\ pp \in free \cup {0} /\ run_start \in free \cup {0}
    /\ base \in free /\ run_start < base /\ At(run_start) = base
    /\ count \in 1 .. n
    /\ At(pp) = base + count - 1
    /\ RunAt(base, count) \subseteq free
    /\ \A b \in free : RunAt(b, n) \subseteq free => base <= b

\* The run is found, and end is i pages behind its start.
CutInv ==
  pc = "cut" =>
    /\ n > 1
    /\ run_start \in free \cup {0}
    /\ base \in free /\ run_start < base /\ At(run_start) = base
    /\ RunAt(base, n) \subseteq free
    /\ \A b \in free : RunAt(b, n) \subseteq free => base <= b
    /\ i <= n
    /\ i < n => end = base + i
    /\ i = n => end = next[base + n - 1]

\* The walk of pmm_free is before the place of pa.
InsertInv ==
  pc = "insert" =>
    /\ n = 0
    /\ pp \in free \cup {0} /\ pp < pa
    /\ left >= 1 /\ pa + left <= NPages + MaxRun
    /\ (RunAt(pa, left) \cap Pages) \subseteq owned \cup free

\* Every call returns: no walk runs in a circle.
Returns == pc # "idle" ~> pc = "idle"

\* The list behaves as a set of pages: an allocation gets the lowest run of its
\* length, and fails only when there is none.
Abstract == INSTANCE PageSet WITH wanted <- n, got <- ret
PageSetSpec == Abstract!Spec
=============================================================================
