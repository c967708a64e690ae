--------------------------------- MODULE Ld ---------------------------------
(***************************************************************************)
(* The linker cmd/ld and the archiver cmd/ar: definitions and archives,    *)
(* merging of sections, addresses, relocations and the output file, and    *)
(* the loading of that file.                                               *)
(*                                                                         *)
(* An object has secs (kind, size, align, nobits), syms (name, bind, sec,  *)
(* value; sec 0 is undefined, ABS absolute) and relas (sec, off, sym, type *)
(* and add).  A byte of a section is where it came from, <<object, sec,    *)
(* offset>>; a relocated place is the field the instruction gets, of as    *)
(* many bits as it has.  The boot code and the tables of a kernel fit      *)
(* BOOT_SIZE, which the code does not check.                               *)
(***************************************************************************)
EXTENDS Integers, Sequences, FiniteSetsExt, SequencesExt

CONSTANTS
  Inputs,        \* command lines: [objs, archives (sequences of objects), mode, entry, binary]
  PAGE_SIZE,     \* a power of 2
  TEXT_BASE, PHYS_BASE, VIRT_BASE, BOOT_SIZE, STACK_SIZE,
  CALL_BITS,     \* the width of the field of a branch: 26
  ADR_BITS       \* the width of the field of adr and adrp: 21

SECTION_ALIGN == 8
ABS == -1
Zero == <<0, 0, 0>>     \* a byte that no object has: padding

VARIABLES
  phase,     \* "start", "collect", "archives", "check", "merge", "relocate", "write", "done" or "error"
  in,        \* the command line
  objects,   \* the objects that are linked, in order
  taken,     \* members extracted: <<archive, member>>
  global,    \* the symbol table: name -> [value, bind, obj, sec]
  out,       \* the output sections, in order: [kind, size, align, addr, lma, data, pieces]
  image      \* the output file: its bytes, its segments and its entry

vars == <<phase, in, objects, taken, global, out, image>>

NoInput == [objs |-> <<>>, archives |-> <<>>, mode |-> "user", entry |-> "", binary |-> FALSE]
NoImage == [bytes |-> <<>>, segs |-> <<>>, entry |-> 0]

Init ==
  /\ phase = "start" /\ in = NoInput
  /\ objects = <<>> /\ taken = {}
  /\ global = <<>> /\ out = <<>>
  /\ image = NoImage

Go(from, to) == phase = from /\ phase' = to

Load(input) ==
  /\ Go("start", "collect")
  /\ in' = input /\ objects' = input.objs
  /\ UNCHANGED <<taken, global, out, image>>

-----------------------------------------------------------------------------
(* symbol.c *)

Defines(sym) == sym.bind # "local" /\ sym.sec # 0
Refers(sym)  == sym.bind # "local" /\ sym.sec = 0

\* A strong definition takes the place of a weak one; two strong ones are an error.
\* (mutant: a later weak definition takes the place of the first)
TakesOverLast(old, new) == TRUE
TakesOver(old, new) == old.bind = "weak" /\ new.bind = "global"

AddDefinition(g, obj, sym) ==
  LET new == [value |-> sym.value, bind |-> sym.bind, obj |-> obj, sec |-> sym.sec, out |-> 0] IN
  IF sym.name \notin DOMAIN g.tab THEN [g EXCEPT !.tab = @ @@ (sym.name :> new)]
  ELSE IF TakesOver(g.tab[sym.name], new) THEN [g EXCEPT !.tab[sym.name] = new]
  ELSE IF g.tab[sym.name].bind = "global" /\ new.bind = "global" THEN [g EXCEPT !.err = TRUE]
  ELSE g

\* collect_definitions, of the objects with these numbers
collect_definitions(objs, nums, tab) ==
  LET Obj(g, n) == FoldLeft(LAMBDA h, s : AddDefinition(h, n, s), g, SelectSeq(objs[n].syms, Defines))
  IN  FoldLeft(Obj, [tab |-> tab, err |-> FALSE], nums)

Collected(r, next) ==
  /\ global' = r.tab
  /\ phase' = IF r.err THEN "error" ELSE next

Collect ==
  /\ phase = "collect"
  /\ Collected(collect_definitions(objects, [k \in DOMAIN objects |-> k], global), "archives")
  /\ UNCHANGED <<in, objects, taken, out, image>>

-----------------------------------------------------------------------------
(* ar, and archive.c.  An archive is a sequence of chunks, each a header and a body that  *)
(* is padded to an even length: the index, if there is one, and the members.              *)

AR_MAGIC_LEN == 8
AR_HEADER    == 60
NameSize     == 3     \* of a name in the index, with its end
Even(n)      == n + (n % 2)
Total(s)     == FoldLeft(LAMBDA sum, n : sum + n, 0, s)

\* Stands for the size of an object file.
ObjectSize(obj) ==
  Len(obj.relas) + Total([k \in DOMAIN obj.secs |-> IF obj.secs[k].nobits THEN 0 ELSE obj.secs[k].size])

\* The definitions of the members, in order.
extract_symbols(objs) ==
  FlattenSeq([n \in DOMAIN objs |->
    LET defs == SelectSeq(objs[n].syms, Defines) IN [k \in DOMAIN defs |-> [name |-> defs[k].name, member |-> n]]])

\* The index has the offset of a member's header, worked out before anything is written.
ar(objs) ==
  LET syms == extract_symbols(objs)
      symtab_size == 4 + (4 + NameSize) * Len(syms)
      first == AR_MAGIC_LEN + (IF syms = <<>> THEN 0 ELSE AR_HEADER + Even(symtab_size))
      Offset(n) == first + Total([k \in 1 .. n - 1 |-> AR_HEADER + Even(ObjectSize(objs[k]))])
      index == [kind |-> "index", size |-> symtab_size, obj |-> 0,
                syms |-> [k \in DOMAIN syms |-> [name |-> syms[k].name, offset |-> Offset(syms[k].member)]]]
  IN  (IF syms = <<>> THEN <<>> ELSE <<index>>)
        \o [n \in DOMAIN objs |-> [kind |-> "member", size |-> ObjectSize(objs[n]), obj |-> n, syms |-> <<>>]]

\* The members by the offset of their headers, and the index with the members it means.
archive_open(file) ==
  LET Offset(k) == FoldLeft(LAMBDA at, c : Even(at + AR_HEADER + c.size), AR_MAGIC_LEN, SubSeq(file, 1, k - 1))
      At(offset) == {k \in DOMAIN file : file[k].kind = "member" /\ Offset(k) = offset}
      index == SelectSeq(file, LAMBDA c : c.kind = "index")
  IN  IF index = <<>> THEN <<>>
      ELSE [k \in DOMAIN index[1].syms |->
              LET at == At(index[1].syms[k].offset) IN
              [name |-> index[1].syms[k].name, member |-> IF at = {} THEN 0 ELSE file[Min(at)].obj]]

\* The member of the first entry of that name, or 0.
archive_find_symbol(objs, name) ==
  LET found == SelectSeq(archive_open(ar(objs)), LAMBDA s : s.name = name) IN
  IF found = <<>> THEN 0 ELSE found[1].member

\* The names looked for, in order: the entry point, then the undefined ones.
Wanted ==
  <<in.entry>> \o FlattenSeq([n \in DOMAIN objects |->
     LET refs == SelectSeq(objects[n].syms, Refers) IN [k \in DOMAIN refs |-> refs[k].name]])

\* The first archive that has the name, as a sequence of one <<archive, member>>; a member
\* only once, and none for a name that is defined.
Extractable(name) ==
  LET found == SelectSeq([a \in DOMAIN in.archives |-> <<a, archive_find_symbol(in.archives[a], name)>>],
                         LAMBDA am : am[2] > 0)
  IN  IF name \in DOMAIN global \/ found = <<>> \/ Head(found) \in taken THEN <<>>
      ELSE <<Head(found)>>

\* resolve_archives, one member at a time.
ResolveArchives ==
  /\ phase = "archives"
  /\ \E todo \in {FlattenSeq([k \in DOMAIN Wanted |-> Extractable(Wanted[k])])} :
     IF todo = <<>> THEN phase' = "check" /\ UNCHANGED <<objects, taken, global>>
     ELSE /\ objects' = Append(objects, in.archives[todo[1][1]][todo[1][2]])
          /\ taken' = taken \cup {todo[1]}
          /\ Collected(collect_definitions(objects', <<Len(objects')>>, global), "archives")
  /\ UNCHANGED <<in, out, image>>

KernelSymbols == {"__phys_base", "__virt_base", "__bss_start", "__bss_end", "__stack_top"}

\* add_kernel_symbol_placeholders, check_undefined
Check ==
  LET tab == IF in.mode # "kernel" THEN global
             ELSE [n \in KernelSymbols |->
                     [value |-> 0, bind |-> "global", obj |-> 0, sec |-> ABS, out |-> 0]] @@ global
      Missing(sym) == Refers(sym) /\ sym.bind = "global" /\ sym.name \notin DOMAIN tab
  IN
  /\ phase = "check"
  /\ global' = tab
  /\ phase' = IF in.entry \notin DOMAIN tab
                 \/ \E n \in DOMAIN objects : SelectSeq(objects[n].syms, Missing) # <<>>
              THEN "error" ELSE "merge"
  /\ UNCHANGED <<in, objects, taken, out, image>>

-----------------------------------------------------------------------------
(* section.c *)

align_up(val, a) == IF a = 0 THEN val ELSE ((val + a - 1) \div a) * a

\* The kinds of output sections, and the one an input section goes to; 0: none.
Kinds == IF in.mode = "kernel" THEN <<"text.boot", "tables", "text", "rodata", "data", "bss">>
         ELSE <<"text", "rodata", "data", "bss">>

categorize_section(kind) ==
  LET k == IF in.mode # "kernel" /\ kind = "text.boot" THEN "text" ELSE kind
      is == {i \in DOMAIN Kinds : Kinds[i] = k}
  IN  IF is = {} THEN 0 ELSE Min(is)

NewSection(kind) == [kind |-> kind, size |-> 0, align |-> SECTION_ALIGN, addr |-> 0, lma |-> 0,
                     data |-> <<>>, pieces |-> <<>>]

Pad(n) == [k \in 1 .. n |-> Zero]

AddPiece(o, n, j) ==
  LET s == objects[n].secs[j]
      al == IF s.align = 0 THEN 1 ELSE s.align
      off == align_up(o.size, al)
  IN  [o EXCEPT !.align = Max({@, al}), !.size = off + s.size,
                !.pieces = Append(@, [obj |-> n, sec |-> j, off |-> off, size |-> s.size]),
                !.data = IF s.nobits THEN @
                         ELSE @ \o Pad(off - o.size) \o [b \in 1 .. s.size |-> <<n, j, b - 1>>]]

merge_sections ==
  LET Sec(secs, nj) ==
        LET c == categorize_section(objects[nj[1]].secs[nj[2]].kind) IN
        IF c = 0 THEN secs ELSE [secs EXCEPT ![c] = AddPiece(@, nj[1], nj[2])]
      all == FlattenSeq([n \in DOMAIN objects |-> [j \in DOMAIN objects[n].secs |-> <<n, j>>]])
  IN  FoldLeft(Sec, [k \in DOMAIN Kinds |-> NewSection(Kinds[k])], all)

\* Sections from addr and lma on; a section without bytes gets no address, and the
\* data of a program starts on a page.
Place(secs, from, addr, lma, paged) ==
  LET Step(r, k) ==
        LET page == IF paged /\ r.secs[k].kind = "data" THEN PAGE_SIZE ELSE 1
            a == align_up(align_up(r.addr, page), r.secs[k].align)
            l == align_up(align_up(r.lma, page), r.secs[k].align)
        IN  IF r.secs[k].size = 0
            THEN [r EXCEPT !.addr = align_up(@, page), !.lma = align_up(@, page)]
            ELSE [secs |-> [r.secs EXCEPT ![k].addr = a, ![k].lma = l],
                  addr |-> a + r.secs[k].size, lma |-> l + r.secs[k].size]
  IN  FoldLeft(Step, [secs |-> secs, addr |-> addr, lma |-> lma],
               [k \in 1 .. Len(secs) - from + 1 |-> from + k - 1]).secs

\* The kernel's boot code and tables are at their physical place, the rest above both.
PlaceKernel(secs) ==
  LET tables == align_up(PHYS_BASE + secs[1].size, PAGE_SIZE)
      low == [secs EXCEPT ![1].addr = IF secs[1].size > 0 THEN PHYS_BASE ELSE 0, ![1].lma = IF secs[1].size > 0 THEN PHYS_BASE ELSE 0,
                          ![2].addr = IF secs[2].size > 0 THEN tables ELSE 0, ![2].lma = IF secs[2].size > 0 THEN tables ELSE 0]
  IN  Place(low, 3, VIRT_BASE + BOOT_SIZE, PHYS_BASE + BOOT_SIZE, FALSE)

assign_addresses(secs) ==
  CASE in.mode = "kernel" -> PlaceKernel(secs)
    [] in.mode = "bootloader" -> Place(secs, 1, 0, 0, FALSE)
    [] OTHER -> Place(secs, 1, TEXT_BASE, TEXT_BASE, TRUE)

\* find_piece: where byte off of a section of an object is; off when it is in none.
AddressOf(secs, n, j, off) ==
  LET ps == {<<k, i>> \in UNION {{k} \X DOMAIN secs[k].pieces : k \in DOMAIN secs} :
               secs[k].pieces[i].obj = n /\ secs[k].pieces[i].sec = j}
      p == CHOOSE x \in ps : TRUE
  IN  IF ps = {} \/ j = ABS THEN off ELSE secs[p[1]].addr + secs[p[1]].pieces[p[2]].off + off

\* define_kernel_symbols
KernelValue(secs, name) ==
  LET bss == secs[Len(secs)] IN
  CASE name = "__phys_base" -> PHYS_BASE
    [] name = "__virt_base" -> VIRT_BASE
    [] name = "__bss_start" -> bss.addr
    [] name = "__bss_end" -> bss.addr + bss.size
    [] name = "__stack_top" -> align_up(bss.addr + bss.size, 16) + STACK_SIZE

\* Sections, addresses, and update_symbol_values.
Merge ==
  /\ Go("merge", "relocate")
  /\ out' = assign_addresses(merge_sections)
  /\ global' = [n \in DOMAIN global |->
       [global[n] EXCEPT !.value = IF global[n].obj = 0 THEN KernelValue(out', n)
                                   ELSE AddressOf(out', global[n].obj, global[n].sec, @)]]
  /\ UNCHANGED <<in, objects, taken, image>>

-----------------------------------------------------------------------------
(* reloc.c *)

Local(n, sym) == IF sym.sec = 0 THEN 0 ELSE AddressOf(out, n, sym.sec, sym.value)

resolve_reloc_symbol(n, k) ==
  LET sym == objects[n].syms[k] IN
  IF sym.bind # "local" /\ sym.name \in DOMAIN global THEN global[sym.name].value ELSE Local(n, sym)

Scale(type) == CASE type = "ldst16" -> 2 [] type = "ldst32" -> 4 [] type = "ldst64" -> 8 [] OTHER -> 1

\* The field that goes into the place at p, for the target x; the one of adr and adrp is
\* in two parts.
Halves(n) == [lo |-> n % 4, hi |-> (n \div 4) % 2 ^ (ADR_BITS - 2)]

Field(type, x, p) ==
  CASE type = "abs64" -> x
    [] type \in {"call26", "jump26"} -> ((x - p) \div 4) % 2 ^ CALL_BITS
    [] type = "prel21" -> Halves(x - p)
    [] type = "page21" -> Halves((x \div PAGE_SIZE) - (p \div PAGE_SIZE))
    [] OTHER -> (x % PAGE_SIZE) \div Scale(type)

\* A target that is too far, or not aligned as the instruction needs it, is an error.
Signed(n, bits) == n \in -(2 ^ (bits - 1)) .. 2 ^ (bits - 1) - 1

Fits(type, x, p) ==
  CASE type = "abs64" -> TRUE
    [] type \in {"call26", "jump26"} -> Signed(x - p, CALL_BITS + 2) /\ (x - p) % 4 = 0
    [] type = "prel21" -> Signed(x - p, ADR_BITS)
    [] type = "page21" -> Signed((x \div PAGE_SIZE) - (p \div PAGE_SIZE), ADR_BITS)
    [] OTHER -> (x % PAGE_SIZE) % Scale(type) = 0

\* The relocations of an object whose section is in the output, with place and target.
Places(n) ==
  LET rs == objects[n].relas IN
  [k \in DOMAIN rs |-> [at |-> AddressOf(out, n, rs[k].sec, rs[k].off), type |-> rs[k].type,
                        to |-> resolve_reloc_symbol(n, rs[k].sym) + rs[k].add, rela |-> rs[k], obj |-> n]]

AllPlaces ==
  SelectSeq(FlattenSeq([n \in DOMAIN objects |-> Places(n)]),
            LAMBDA r : categorize_section(objects[r.obj].secs[r.rela.sec].kind) > 0)

\* The fields are kept by place; the bytes are still those of the objects.
Relocate ==
  /\ phase = "relocate"
  /\ phase' = IF \E r \in ToSet(AllPlaces) : ~Fits(r.type, r.to, r.at)
              THEN "error" ELSE "write"
  /\ UNCHANGED <<in, objects, taken, global, out, image>>

FieldAt(r) == Field(r.type, r.to, r.at)

-----------------------------------------------------------------------------
(* output.c, and the loader that reads the file: each segment's bytes at its address, and
   zeroes up to its size in memory. *)

\* The sections are taken by their numbers in a program, whatever the mode.
write_executable ==
  LET text == out[1]
      rodata == out[2]
      data == out[3]
      bss == out[4]
      code == text.data \o rodata.data
      from == align_up(PAGE_SIZE + Len(code), PAGE_SIZE)
  IN  [bytes |-> Pad(PAGE_SIZE) \o code \o Pad(from - PAGE_SIZE - Len(code)) \o data.data,
       segs |-> <<[off |-> PAGE_SIZE, addr |-> text.addr, filesz |-> Len(code), memsz |-> Len(code)],
                  [off |-> from, addr |-> IF data.size = 0 /\ bss.size > 0 THEN bss.addr ELSE data.addr,
                   filesz |-> data.size, memsz |-> data.size + bss.size]>>,
       entry |-> global[in.entry].value]

\* The sections from the lowest on, each at its distance from it.
write_binary ==
  LET ks == {k \in DOMAIN out : out[k].size > 0 /\ out[k].kind # "bss"}
      base == Min({out[k].lma : k \in ks})
      size == Max({out[k].lma - base + out[k].size : k \in ks})
      Put(bytes, k) == IF k \notin ks THEN bytes
                       ELSE [b \in DOMAIN bytes |->
                               IF b - 1 + base \in out[k].lma .. out[k].lma + out[k].size - 1
                               THEN out[k].data[b + base - out[k].lma] ELSE bytes[b]]
  IN  [bytes |-> FoldLeft(Put, Pad(size), [k \in DOMAIN out |-> k]),
       segs |-> <<[off |-> 0, addr |-> base, filesz |-> size, memsz |-> size]>>,
       entry |-> global[in.entry].value]

Loadable == \E k \in DOMAIN out : out[k].size > 0 /\ out[k].kind # "bss"

Write ==
  /\ phase = "write"
  /\ IF in.binary /\ ~Loadable THEN phase' = "error" /\ UNCHANGED image
     ELSE phase' = "done" /\ image' = IF in.binary THEN write_binary ELSE write_executable
  /\ UNCHANGED <<in, objects, taken, global, out>>

Next ==
  \/ \E input \in Inputs : Load(input)
  \/ Collect \/ ResolveArchives \/ Check \/ Merge \/ Relocate \/ Write

Spec == Init /\ [][Next]_vars

-----------------------------------------------------------------------------
(* Properties *)

\* What is in memory at an address, before any instruction runs; the kernel's own addresses
\* are those it is loaded at, moved up.
Loaded(addr) ==
  LET a == IF in.mode = "kernel" /\ addr >= VIRT_BASE THEN addr - VIRT_BASE + PHYS_BASE ELSE addr
      ss == {k \in DOMAIN image.segs : a \in image.segs[k].addr .. image.segs[k].addr + image.segs[k].memsz - 1}
      s == image.segs[Min(ss)]
  IN  IF ss = {} THEN <<>>
      ELSE IF a - s.addr < s.filesz THEN image.bytes[s.off + a - s.addr + 1] ELSE Zero

\* What an instruction with a field refers to, as the processor computes it: an address, a
\* page, or the low bits of an address; and what it should.
SignExtend(n, bits) == IF n >= 2 ^ (bits - 1) THEN n - 2 ^ bits ELSE n

Computed(type, f, p) ==
  CASE type = "abs64" -> f
    [] type \in {"call26", "jump26"} -> p + 4 * SignExtend(f, CALL_BITS)
    [] type = "prel21" -> p + SignExtend(4 * f.hi + f.lo, ADR_BITS)
    [] type = "page21" -> PAGE_SIZE * ((p \div PAGE_SIZE) + SignExtend(4 * f.hi + f.lo, ADR_BITS))
    [] OTHER -> f * Scale(type)

Needed(type, x) ==
  CASE type \in {"abs64", "call26", "jump26", "prel21"} -> x
    [] type = "page21" -> x - (x % PAGE_SIZE)
    [] OTHER -> x % PAGE_SIZE

\* The definition a name means: the strong one, or else the first weak one.
Meant(name) ==
  LET ds == {<<n, k>> \in UNION {{n} \X DOMAIN objects[n].syms : n \in DOMAIN objects} :
               Defines(objects[n].syms[k]) /\ objects[n].syms[k].name = name}
      strong == {d \in ds : objects[d[1]].syms[d[2]].bind = "global"}
      first == IF strong # {} THEN strong ELSE ds
  IN  IF ds = {} THEN <<0, 0>>
      ELSE CHOOSE d \in first : \A e \in first : d[1] < e[1] \/ (d[1] = e[1] /\ d[2] <= e[2])

\* An executable has .rodata right behind .text and .bss behind .data, without the padding
\* there is between their addresses (output.c:50): so far below its address is a section.
Displaced(kind) ==
  IF in.binary \/ kind # "rodata" THEN 0 ELSE out[2].addr - (out[1].addr + out[1].size)
DataEnd == image.segs[2].addr + image.segs[2].memsz

\* What the loaded program has at the place of byte off of a section; the executable of a
\* kernel is made of the wrong sections, and only the binary is one.
Found(d, def) ==
  LET sec == objects[d[1]].secs[def.sec]
      at == AddressOf(out, d[1], def.sec, def.value)
  IN  IF sec.nobits THEN Loaded(at) = IF in.binary \/ at >= DataEnd THEN <<>> ELSE Zero
      ELSE Loaded(at - Displaced(sec.kind)) = <<d[1], def.sec, def.value>>

\* The objects that may end up in the program: those given, and those of the archives.
Given == ToSet(in.objs) \cup UNION {ToSet(in.archives[a]) : a \in DOMAIN in.archives}

DefinedIn(name, objs) == {o \in objs : \E k \in DOMAIN o.syms : Defines(o.syms[k]) /\ o.syms[k].name = name}

\* A link fails before its sections are laid out only for one of two reasons.
Clash == \E m, n \in DOMAIN objects : \E j \in DOMAIN objects[m].syms, k \in DOMAIN objects[n].syms :
           LET a == objects[m].syms[j]
               b == objects[n].syms[k]
           IN  m # n /\ Defines(a) /\ Defines(b) /\ a.name = b.name /\ a.bind = "global" /\ b.bind = "global"

Undefined == \/ DefinedIn(in.entry, Given) = {}
             \/ \E n \in DOMAIN objects : \E k \in DOMAIN objects[n].syms :
                  LET s == objects[n].syms[k] IN
                  Refers(s) /\ s.bind = "global" /\ DefinedIn(s.name, Given) = {}

\* A linked program does what its objects say, whatever mix of strong, weak and archived
\* definitions, alignments and relocations they have: every reference leads to the address
\* of the definition it means, through the bits its instruction has, or the link fails; in
\* the loaded file the bytes of that definition are there, or as far below as the padding
\* that is left out; no two sections overlap.  And what ar has put in an archive is found:
\* a link fails for want of a name only if no object and no member of an archive has it.
LinkExact ==
  /\ (phase = "error" /\ out = <<>>) => Clash \/ Undefined
  /\ phase = "done" =>
    /\ \A k \in DOMAIN AllPlaces :
         LET r == AllPlaces[k]
             sym == objects[r.obj].syms[r.rela.sym]
             d == IF sym.bind = "local" THEN <<r.obj, r.rela.sym>> ELSE Meant(sym.name)
             def == objects[d[1]].syms[d[2]]
         IN  /\ Computed(r.type, FieldAt(r), r.at) = Needed(r.type, r.to)
             /\ d = <<0, 0>> => sym.bind = "weak" \/ sym.name \in KernelSymbols
             /\ (d # <<0, 0>> /\ def.sec = ABS) => r.to = def.value + r.rela.add
             /\ (d # <<0, 0>> /\ def.sec # ABS) =>
                  /\ r.to = AddressOf(out, d[1], def.sec, def.value) + r.rela.add
                  /\ in.mode # "kernel" \/ in.binary => Found(d, def)
    /\ \A i, j \in DOMAIN out : (i < j /\ out[i].size > 0 /\ out[j].size > 0) =>
         out[i].addr + out[i].size <= out[j].addr /\ out[i].lma + out[i].size <= out[j].lma
=============================================================================
