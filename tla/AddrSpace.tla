----------------------------- MODULE AddrSpace -----------------------------
(***************************************************************************)
(* User address spaces: page tables (kernel/vmm.c), loading a program      *)
(* (kernel/elf.c, exec), fork, sbrk, mmap, munmap and the checks of user   *)
(* pointers.                                                               *)
(*                                                                         *)
(* A page has PAGE words and a table FANOUT entries; addresses count       *)
(* words.  pmm_alloc, which Pmm models, hands out the lowest free frame,   *)
(* zeroed.  Calls run with interrupts masked, one at a time.               *)
(*                                                                         *)
(* walk takes the low bits of an address: page PageCount is page 0 again.  *)
(* munmap and sbrk do not test for the end of user memory, mmap does.      *)
(***************************************************************************)
EXTENDS Integers, Sequences, FiniteSetsExt, SequencesExt

CONSTANTS
  Procs,       \* process slots
  NFRAMES,     \* physical pages
  LEVELS, FANOUT, PAGE,
  STACK_PAGES, \* USER_STACK_PAGES
  Programs,    \* executables: segments and the words of the file
  Sizes,       \* lengths for sbrk, mmap and munmap, in words
  MaxOps       \* bound: how many calls are made

Frames     == 1 .. NFRAMES
Slots      == 0 .. FANOUT - 1
PageCount  == FANOUT ^ LEVELS
USER_STACK == PageCount * PAGE
PageUp(a)  == (a + PAGE - 1) \div PAGE
Span(a, b) == [k \in 1 .. b - a |-> a + k - 1]   \* the pages a, ..., b - 1

Invalid  == [pa |-> 0, write |-> FALSE, exec |-> FALSE]
ZeroPage == [k \in 0 .. PAGE - 1 |-> 0]
Unmapped == [write |-> FALSE, exec |-> FALSE, words |-> <<>>]
Nothing  == [va \in 0 .. PageCount - 1 |-> Unmapped]

VARIABLES
  mem,       \* [free, table, page]: the free frames, each frame as a table or a page
  pagetable, \* of each process, 0: none
  sz,        \* the program break
  view,      \* what each process should find at each page
  ops        \* how many calls have been made

vars == <<mem, pagetable, sz, view, ops>>

-----------------------------------------------------------------------------
(* vmm.c.  An operation returns [m |-> the memory after it, ...]. *)

pmm_alloc(m) ==
  IF m.free = {} THEN [m |-> m, pa |-> 0]
  ELSE LET f == Min(m.free) IN
       [m |-> [m EXCEPT !.free = @ \ {f}, !.table[f] = [k \in Slots |-> Invalid],
                        !.page[f] = ZeroPage],
        pa |-> f]

pmm_free(m, frames) == [m EXCEPT !.free = @ \cup frames]

\* The slot of page va in a table of that level.
SlotAt(va, level) == (va \div FANOUT ^ (LEVELS - 1 - level)) % FANOUT

\* The table of the last level, 0 if it is not there; with alloc, made on the way.
\* When memory runs out, what was made is taken back.
RECURSIVE WalkFrom(_, _, _, _, _)
WalkFrom(m, t, va, level, alloc) ==
  LET pa == m.table[t][SlotAt(va, level)].pa
      new == pmm_alloc(m)
  IN  IF level = LEVELS - 1 THEN [m |-> m, table |-> t]
      ELSE IF pa # 0 THEN WalkFrom(m, pa, va, level + 1, alloc)
      ELSE IF ~alloc \/ new.pa = 0 THEN [m |-> m, table |-> 0]
      ELSE WalkFrom([new.m EXCEPT !.table[t][SlotAt(va, level)].pa = new.pa],
                    new.pa, va, level + 1, alloc)

TakenBack(m, r) == IF r.table = 0 THEN [m |-> m, table |-> 0] ELSE r

walk(m, t, va, alloc) == TakenBack(m, WalkFrom(m, t, va, 0, alloc))

\* The entry of page va, Invalid if there is none.
Entry(m, table, k) == IF table = 0 THEN Invalid ELSE m.table[table][k]
Pte(m, t, va) == Entry(m, walk(m, t, va, FALSE).table, SlotAt(va, LEVELS - 1))

SetEntry(r, k, pte) ==
  IF r.table = 0 \/ Entry(r.m, r.table, k).pa # 0 THEN [m |-> r.m, ok |-> FALSE]
  ELSE [m |-> [r.m EXCEPT !.table[r.table][k] = pte], ok |-> TRUE]

vmm_map_page(m, t, va, pte) == SetEntry(walk(m, t, va, TRUE), SlotAt(va, LEVELS - 1), pte)

\* (mutant: the page is forgotten)
ForgetPage(m, pa) == m
DropPage(m, pa) == pmm_free(m, {pa})

\* A new page at va.  If it cannot be mapped it is freed.
Mapped(r, pa) == IF r.ok THEN r ELSE [m |-> DropPage(r.m, pa), ok |-> FALSE]

NewPage(m, t, va, write, exec, words) ==
  LET a == pmm_alloc(m) IN
  IF a.pa = 0 THEN [m |-> m, ok |-> FALSE]
  ELSE Mapped(vmm_map_page([a.m EXCEPT !.page[a.pa] = words], t, va,
                           [pa |-> a.pa, write |-> write, exec |-> exec]), a.pa)

\* vmm_unmap_page and pmm_free of what it returned.
ClearEntry(m, table, k) ==
  IF Entry(m, table, k).pa = 0 THEN m
  ELSE pmm_free([m EXCEPT !.table[table][k] = Invalid], {Entry(m, table, k).pa})

Unmap(m, t, va) == ClearEntry(m, walk(m, t, va, FALSE).table, SlotAt(va, LEVELS - 1))

UnmapAll(m, t, vas) == FoldLeft(LAMBDA n, va : Unmap(n, t, va), m, vas)

\* The frames of a table, and of what is below it.
RECURSIVE Tree(_, _, _)
Tree(m, t, level) ==
  {t} \cup UNION {IF level < LEVELS - 1 THEN Tree(m, pa, level + 1) ELSE {pa} :
                    pa \in {m.table[t][k].pa : k \in Slots} \ {0}}

vmm_free(m, t) == pmm_free(m, Tree(m, t, 0))

RECURSIVE copywalk(_, _, _, _)
copywalk(m, dst, src, level) ==
  LET Copy(r, k) ==
        LET from == r.m.table[src][k]
            a == pmm_alloc(r.m)
            linked == [a.m EXCEPT !.table[dst][k] = [from EXCEPT !.pa = a.pa]]
        IN  IF ~r.ok \/ from.pa = 0 THEN r
            ELSE IF a.pa = 0 THEN [m |-> r.m, ok |-> FALSE]
            ELSE IF level < LEVELS - 1 THEN copywalk(linked, a.pa, from.pa, level + 1)
            ELSE [m |-> [linked EXCEPT !.page[a.pa] = r.m.page[from.pa]], ok |-> TRUE]
  IN  FoldLeft(Copy, [m |-> m, ok |-> TRUE], Span(0, FANOUT))

\* The address space t if all went well, or else nothing of it.
AllOrNothing(r, t) ==
  IF r.ok THEN [pa |-> t] @@ r ELSE [m |-> vmm_free(r.m, t), pa |-> 0]

vmm_copy(m, src) ==
  LET new == pmm_alloc(m) IN
  IF new.pa = 0 THEN new ELSE AllOrNothing(copywalk(new.m, new.pa, src, 0), new.pa)

validate_page(m, t, a) == a < USER_STACK /\ Pte(m, t, a \div PAGE).pa # 0

LastPage(va, len) == (va + len - 1) \div PAGE

vmm_validate(m, t, va, len, write) ==
  \/ len = 0
  \/ /\ va < USER_STACK /\ va + len <= USER_STACK
     /\ \A page \in va \div PAGE .. LastPage(va, len) :
          Pte(m, t, page).pa # 0 /\ (write => Pte(m, t, page).write)

\* The length of the string at va, cut at max - 1, or -1.
vmm_copyinstr(m, t, va, max) ==
  LET Step(r, i) ==
        LET page == Pte(m, t, (va + i) \div PAGE).pa IN
        IF r.stop THEN r
        ELSE IF ~validate_page(m, t, va + i) THEN [n |-> -1, stop |-> TRUE]
        ELSE IF m.page[page][(va + i) % PAGE] = 0 THEN [n |-> i, stop |-> TRUE]
        ELSE [n |-> i + 1, stop |-> FALSE]
  IN  IF ~validate_page(m, t, va) THEN -1
      ELSE FoldLeft(Step, [n |-> 0, stop |-> FALSE], Span(0, max - 1)).n

-----------------------------------------------------------------------------
(* elf.c *)

\* The words of page va of a segment: from the file between the start of the segment
\* and its file size, else 0.
SegmentPage(seg, file, va) ==
  [k \in 0 .. PAGE - 1 |->
     LET a == va * PAGE + k IN
     IF a >= seg.va /\ a < seg.va + seg.filesz THEN file[seg.offset + a - seg.va + 1] ELSE 0]

\* What is read for page va ends within the file.
Readable(seg, file, va) ==
  LET end == Min({seg.va + seg.filesz, (va + 1) * PAGE})
      start == Max({seg.va, va * PAGE})
  IN  end > start => seg.offset + end - seg.va <= Len(file)

elf_load_segments(m, t, prog) ==
  LET Load(r, seg) ==
        LET last == PageUp(seg.va + seg.memsz)
            PageIn(q, va) ==
              IF ~q.ok THEN q
              ELSE IF ~Readable(seg, prog.file, va) THEN [q EXCEPT !.ok = FALSE]
              ELSE NewPage(q.m, t, va, seg.write, seg.exec, SegmentPage(seg, prog.file, va)) @@ q
        IN  [FoldLeft(PageIn, r, Span(seg.va \div PAGE, last)) EXCEPT
               !.brk = IF last * PAGE > @ THEN last * PAGE ELSE @]
  IN  FoldLeft(Load, [m |-> m, ok |-> TRUE, brk |-> 0], prog.segments)

StackPages == [i \in 1 .. STACK_PAGES |-> PageCount - i]

\* A new address space with the program and its stack; pa is 0 when that fails, and
\* everything is freed.
LoadProgram(m, prog) ==
  LET new == pmm_alloc(m)
      PageIn(q, va) == IF q.ok THEN NewPage(q.m, new.pa, va, TRUE, FALSE, ZeroPage) @@ q ELSE q
  IN  IF new.pa = 0 \/ ~prog.valid THEN [m |-> m, pa |-> 0]
      ELSE AllOrNothing(FoldLeft(PageIn, elf_load_segments(new.m, new.pa, prog), StackPages),
                        new.pa)

-----------------------------------------------------------------------------
(* What the calls promise *)

\* The address space of a new program, word by word.
ProgramView(prog) ==
  [va \in 0 .. PageCount - 1 |->
     IF va >= PageCount - STACK_PAGES THEN [write |-> TRUE, exec |-> FALSE, words |-> ZeroPage]
     ELSE LET S == {k \in DOMAIN prog.segments :
                      LET seg == prog.segments[k] IN
                      va >= seg.va \div PAGE /\ va < PageUp(seg.va + seg.memsz)}
          IN  IF S = {} THEN Unmapped
              ELSE LET seg == prog.segments[Min(S)] IN
                   [write |-> seg.write, exec |-> seg.exec,
                    words |-> [k \in 0 .. PAGE - 1 |->
                      IF va * PAGE + k \in seg.va .. seg.va + seg.filesz - 1
                      THEN prog.file[seg.offset + va * PAGE + k - seg.va + 1] ELSE 0]]]

Fresh(v, vas, write) ==
  [va \in DOMAIN v |-> IF va \in vas THEN [write |-> write, exec |-> FALSE, words |-> ZeroPage]
                       ELSE v[va]]

\* What the tables of a process lead to.
Translate(m, t) ==
  [va \in 0 .. PageCount - 1 |->
     LET pte == Pte(m, t, va) IN
     IF t = 0 \/ pte.pa = 0 THEN Unmapped
     ELSE [write |-> pte.write, exec |-> pte.exec, words |-> m.page[pte.pa]]]

-----------------------------------------------------------------------------
(* The calls of process p *)

Runs(p) == pagetable[p] # 0 /\ ops < MaxOps /\ ops' = ops + 1

First == CHOOSE p \in Procs : TRUE
Boot  == CHOOSE prog \in Programs : prog.init

\* init(): the first process.
Init ==
  \E r \in {LoadProgram([free |-> Frames, table |-> [f \in Frames |-> [k \in Slots |-> Invalid]],
                         page |-> [f \in Frames |-> ZeroPage]], Boot)} :
  /\ mem = r.m
  /\ pagetable = [p \in Procs |-> IF p = First THEN r.pa ELSE 0]
  /\ sz = [p \in Procs |-> IF p = First THEN r.brk ELSE 0]
  /\ view = [p \in Procs |-> IF p = First THEN ProgramView(Boot) ELSE Nothing]
  /\ ops = 0

sys_exec(p, prog) ==
  /\ Runs(p)
  /\ \E r \in {LoadProgram(mem, prog)} :
     IF r.pa = 0 THEN mem' = r.m /\ UNCHANGED <<pagetable, sz, view>>
     ELSE /\ mem' = vmm_free(r.m, pagetable[p])
          /\ pagetable' = [pagetable EXCEPT ![p] = r.pa]
          /\ sz' = [sz EXCEPT ![p] = r.brk]
          /\ view' = [view EXCEPT ![p] = ProgramView(prog)]

\* The break of the child is that of proc_alloc.
sys_fork(p) ==
  LET slots == {c \in Procs : pagetable[c] = 0}
      c == CHOOSE x \in slots : TRUE
  IN
  /\ Runs(p)
  /\ \E r \in {vmm_copy(mem, pagetable[p])} :
     \/ /\ r.pa = 0
        /\ mem' = r.m /\ UNCHANGED <<pagetable, sz, view>>
     \/ /\ r.pa # 0 /\ slots = {}
        /\ mem' = vmm_free(r.m, r.pa) /\ UNCHANGED <<pagetable, sz, view>>
     \/ /\ r.pa # 0 /\ slots # {}
        /\ mem' = r.m
        /\ pagetable' = [pagetable EXCEPT ![c] = r.pa]
        /\ sz' = [sz EXCEPT ![c] = 0]
        /\ view' = [view EXCEPT ![c] = view[p]]

\* Exit, and the reaping of the process.
Gone(p) ==
  /\ Runs(p) /\ \E q \in Procs \ {p} : pagetable[q] # 0
  /\ mem' = vmm_free(mem, pagetable[p])
  /\ pagetable' = [pagetable EXCEPT ![p] = 0]
  /\ sz' = [sz EXCEPT ![p] = 0]
  /\ view' = [view EXCEPT ![p] = Nothing]

\* Pages are mapped until one cannot be; [m, ok, n pages].
Counted(q, n) == [n |-> IF q.ok THEN n + 1 ELSE n] @@ q

MapRange(m, t, vas, write) ==
  FoldLeft(LAMBDA r, va :
             IF r.ok THEN Counted(NewPage(r.m, t, va, write, FALSE, ZeroPage), r.n) ELSE r,
           [m |-> m, ok |-> TRUE, n |-> 0], vas)

\* sbrk: a failure keeps the pages mapped so far, and a smaller break keeps all pages.
sys_sbrk(p, n) ==
  LET vas == Span(PageUp(sz[p]), PageUp(sz[p] + n)) IN
  /\ Runs(p) /\ sz[p] + n >= 0
  /\ \E r \in {MapRange(mem, pagetable[p], vas, TRUE)} :
     /\ mem' = r.m
     /\ sz' = IF r.ok THEN [sz EXCEPT ![p] = @ + n] ELSE sz
     /\ view' = [view EXCEPT ![p] = Fresh(@, {vas[k] % PageCount : k \in 1 .. r.n}, TRUE)]
  /\ UNCHANGED pagetable

\* mmap: a failure unmaps what it has mapped.  fixed: the page that is asked for, or -1.
UndoMapping(m, t, vas, n) == UnmapAll(m, t, SubSeq(vas, 1, n))

sys_mmap(p, fixed, len, write) ==
  LET va == IF fixed >= 0 THEN fixed ELSE PageUp(sz[p])
      vas == Span(va, va + PageUp(len))
      end == (va + PageUp(len)) * PAGE
  IN
  /\ Runs(p) /\ len > 0 /\ end <= USER_STACK - PAGE
  /\ \E r \in {MapRange(mem, pagetable[p], vas, write)} :
     IF r.ok
     THEN /\ mem' = r.m
          /\ sz' = [sz EXCEPT ![p] = IF end > @ THEN end ELSE @]
          /\ view' = [view EXCEPT ![p] = Fresh(@, ToSet(vas), write)]
     ELSE mem' = UndoMapping(r.m, pagetable[p], vas, r.n) /\ UNCHANGED <<sz, view>>
  /\ UNCHANGED pagetable

sys_munmap(p, va, len) ==
  LET vas == Span(va, va + PageUp(len)) IN
  /\ Runs(p) /\ len > 0
  /\ mem' = UnmapAll(mem, pagetable[p], vas)
  /\ view' = [view EXCEPT ![p] = [v \in DOMAIN @ |->
                IF \E u \in ToSet(vas) : u % PageCount = v THEN Unmapped ELSE @[v]]]
  /\ UNCHANGED <<pagetable, sz>>

\* The program writes the first word of a page.
Store(p, va) ==
  /\ Runs(p) /\ Pte(mem, pagetable[p], va).write
  /\ mem' = [mem EXCEPT !.page[Pte(mem, pagetable[p], va).pa][0] = 9]
  /\ view' = [view EXCEPT ![p][va].words[0] = 9]
  /\ UNCHANGED <<pagetable, sz>>

Next ==
  \E p \in Procs :
    \/ \E prog \in Programs : sys_exec(p, prog)
    \/ sys_fork(p)
    \/ Gone(p)
    \/ \E n \in Sizes : sys_sbrk(p, n)
    \/ \E fixed \in {-1, 1}, len \in Sizes, write \in BOOLEAN : sys_mmap(p, fixed, len, write)
    \/ \E va \in {1, PageCount - 1}, len \in Sizes : sys_munmap(p, va, len)
    \/ \E va \in {1, PageCount - 1} : Store(p, va)

Spec == Init /\ [][Next]_vars

-----------------------------------------------------------------------------
(* Properties *)

Running == {p \in Procs : pagetable[p] # 0}

\* Every frame that is not free belongs to the tables or pages of one process, in one
\* place, however often calls have run out of memory half way: nothing is lost, nothing
\* is freed while it is mapped, and no page is reached from two entries.
FramesExact ==
  /\ \A p, q \in Running : p # q => Tree(mem, pagetable[p], 0) \cap Tree(mem, pagetable[q], 0) = {}
  /\ Frames \ mem.free = UNION {Tree(mem, pagetable[p], 0) : p \in Running}
  /\ \A f, g \in Frames \ mem.free, j, k \in Slots :
       mem.table[f][j].pa # 0 /\ mem.table[f][j].pa = mem.table[g][k].pa => f = g /\ j = k

\* Every process finds in its memory what it was given by exec, fork, sbrk and mmap and
\* has written since, with the permissions it was given: not what another process wrote,
\* nor what a frame held before.
OwnMemory == \A p \in Procs : Translate(mem, pagetable[p]) = view[p]

\* vmm_validate and vmm_copyinstr accept exactly the ranges and strings whose words are
\* all there, up to the page boundary and the end of user memory.
PointersChecked ==
  \A p \in Running :
    LET There(a, write) == a < USER_STACK /\ view[p][a \div PAGE] # Unmapped
                           /\ (write => view[p][a \div PAGE].write)
        WordAt(a) == view[p][a \div PAGE].words[a % PAGE]
    IN
    /\ \A va \in 0 .. USER_STACK, len \in 0 .. 2 * PAGE, write \in BOOLEAN :
         vmm_validate(mem, pagetable[p], va, len, write)
           <=> \A a \in va .. va + len - 1 : There(a, write)
    /\ \A va \in 0 .. USER_STACK - 1, max \in 2 .. PAGE + 2 :
         LET n == vmm_copyinstr(mem, pagetable[p], va, max) IN
         IF n = -1
         THEN \E a \in va .. va + max - 1 : ~There(a, FALSE)
         ELSE /\ n <= max - 1
              /\ \A a \in va .. va + n - 1 : There(a, FALSE) /\ WordAt(a) # 0
              /\ n < max - 1 => WordAt(va + n) = 0
=============================================================================
