------------------------------- MODULE Malloc -------------------------------
(***************************************************************************)
(* The allocator of libc/malloc.c: a first-fit free list over a break that *)
(* only grows.  Memory is counted in units of 16 bytes, so ALIGN_UP and    *)
(* MIN_ALLOC are 1 unit and a header takes two.                            *)
(***************************************************************************)
EXTENDS Integers, Sequences, FiniteSetsExt, SequencesExt

CONSTANTS
  LIMIT,    \* bound: where sbrk fails
  Sizes,    \* the sizes the program asks for, in units; 0 too
  MaxOps    \* bound: how many calls are made

HEADER_SIZE == 2
MIN_ALLOC   == 1
NULL        == -1
Head0       == 0     \* what is in the memory of a header

VARIABLES
  heap,     \* mem: what each unit holds, size: what the header there says, brk, and
            \* list: the headers on free_list, first to last
  live,     \* what the program has written to each block it holds, by pointer
  ops       \* how many calls have been made

vars == <<heap, live, ops>>

Heap(mem, size, brk, list) == [mem |-> mem, size |-> size, brk |-> brk, list |-> list]

Init ==
  /\ heap = Heap([u \in 0 .. LIMIT - 1 |-> -1], [u \in 0 .. LIMIT - 1 |-> 0], 0, <<>>)
  /\ live = <<>>
  /\ ops = 0

-----------------------------------------------------------------------------
Rep(v, n) == [k \in 1 .. n |-> v]

Units(from, n) == from .. from + n - 1

Fill(mem, from, n, v) == [u \in DOMAIN mem |-> IF u \in Units(from, n) THEN v ELSE mem[u]]

SetHeader(h, at, size) ==
  Heap(Fill(h.mem, at, HEADER_SIZE, Head0), [h.size EXCEPT ![at] = size], h.brk, h.list)

\* Whether what is left of a block can be one of its own.
Splits(have, size) == have >= size + HEADER_SIZE + MIN_ALLOC

\* (mutant: the header of the rest is not taken off)
RestSizeWide(have, size) == have - size
RestSize(have, size) == have - size - HEADER_SIZE

\* The first block of the list that is large enough; the rest of it takes its place.
FromList(h, size) ==
  LET k == Min({i \in DOMAIN h.list : h.size[h.list[i]] >= size})
      b == h.list[k]
      rest == b + HEADER_SIZE + size
  IN  [ptr |-> b + HEADER_SIZE,
       h |-> IF Splits(h.size[b], size)
             THEN SetHeader(Heap(h.mem, [h.size EXCEPT ![b] = size], h.brk,
                                 [h.list EXCEPT ![k] = rest]),
                            rest, RestSize(h.size[b], size))
             ELSE [h EXCEPT !.list = RemoveAt(@, k)]]

FromBreak(h, size) ==
  IF h.brk + HEADER_SIZE + size > LIMIT THEN [ptr |-> NULL, h |-> h]
  ELSE [ptr |-> h.brk + HEADER_SIZE,
        h |-> SetHeader([h EXCEPT !.brk = @ + HEADER_SIZE + size], h.brk, size)]

Malloc(h, size) ==
  IF size = 0 THEN [ptr |-> NULL, h |-> h]
  ELSE IF \E i \in DOMAIN h.list : h.size[h.list[i]] >= size THEN FromList(h, size)
  ELSE FromBreak(h, size)

Free(h, ptr) == [h EXCEPT !.list = <<ptr - HEADER_SIZE>> \o @]

\* memcpy(to, from, n)
Copy(mem, to, from, n) ==
  [u \in DOMAIN mem |-> IF u \in Units(to, n) THEN mem[from + u - to] ELSE mem[u]]

\* A block that is large enough stays where it is, and gives up its end for good.
Realloc(h, ptr, size) ==
  LET old == h.size[ptr - HEADER_SIZE]
      r == Malloc(h, size)
  IN
  IF size = 0 THEN [ptr |-> NULL, h |-> Free(h, ptr)]
  ELSE IF old >= size THEN [ptr |-> ptr, h |-> [h EXCEPT !.size[ptr - HEADER_SIZE] = size]]
  ELSE IF r.ptr = NULL THEN r
  ELSE [ptr |-> r.ptr, h |-> Free([r.h EXCEPT !.mem = Copy(@, r.ptr, ptr, old)], ptr)]

-----------------------------------------------------------------------------
(* The calls; the program then writes its own mark to all it was given. *)

Call == ops < MaxOps /\ ops' = ops + 1
Mark == ops + 1

\* The program holds s at ptr too.
Hold(f, ptr, s) == [p \in DOMAIN f \cup {ptr} |-> IF p = ptr THEN s ELSE f[p]]

Use(r, size) == [r.h EXCEPT !.mem = Fill(@, r.ptr, size, Mark)]

malloc(size) ==
  LET r == Malloc(heap, size) IN
  /\ Call
  /\ heap' = IF r.ptr = NULL THEN r.h ELSE Use(r, size)
  /\ live' = IF r.ptr = NULL THEN live ELSE Hold(live, r.ptr, Rep(Mark, size))

free(ptr) ==
  /\ Call
  /\ heap' = Free(heap, ptr)
  /\ live' = Restrict(live, DOMAIN live \ {ptr})

\* What was there is still there, up to the smaller size; the program marks the rest.
realloc(ptr, size) ==
  LET r == Realloc(heap, ptr, size)
      kept == SubSeq(live[ptr], 1, Min({Len(live[ptr]), size}))
      others == Restrict(live, DOMAIN live \ {ptr})
  IN
  /\ Call
  /\ IF r.ptr = NULL
     THEN heap' = r.h /\ live' = IF size = 0 THEN others ELSE live
     ELSE /\ heap' = [r.h EXCEPT !.mem = Fill(@, r.ptr + Len(kept), size - Len(kept), Mark)]
          /\ live' = Hold(others, r.ptr, kept \o Rep(Mark, size - Len(kept)))

\* calloc clears what it returns: the mark of the program is what it finds there.
calloc(count, size) ==
  LET r == Malloc(heap, count * size) IN
  /\ Call
  /\ heap' = IF r.ptr = NULL THEN r.h ELSE [r.h EXCEPT !.mem = Fill(@, r.ptr, count * size, -2)]
  /\ live' = IF r.ptr = NULL THEN live ELSE Hold(live, r.ptr, Rep(-2, count * size))

Next ==
  \/ \E size \in Sizes : malloc(size)
  \/ \E ptr \in DOMAIN live : free(ptr)
  \/ \E ptr \in DOMAIN live, size \in Sizes : realloc(ptr, size)
  \/ \E size \in Sizes : calloc(1, size)

Spec == Init /\ [][Next]_vars

-----------------------------------------------------------------------------
(* Properties *)

\* After any sequence of calls, with blocks split, reused, shrunk and moved: every block
\* the program holds has what the program wrote to it, no header of a block in use or on
\* the free list has been written over, no block is on the list twice or while it is in
\* use, and everything lies below the break.
HeapExact ==
  LET used == {p - HEADER_SIZE : p \in DOMAIN live}
      free0 == ToSet(heap.list)
  IN
  /\ \A p \in DOMAIN live : \A k \in DOMAIN live[p] : heap.mem[p + k - 1] = live[p][k]
  /\ \A b \in used \cup free0 :
       /\ \A u \in Units(b, HEADER_SIZE) : heap.mem[u] = Head0
       /\ b + HEADER_SIZE + heap.size[b] <= heap.brk
  /\ \A p \in DOMAIN live : Len(live[p]) <= heap.size[p - HEADER_SIZE]
  /\ IsInjective(heap.list) /\ used \cap free0 = {}
=============================================================================
