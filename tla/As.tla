--------------------------------- MODULE As ---------------------------------
(***************************************************************************)
(* The assembler's two passes and its object file: cmd/as/parser.c (pass1, *)
(* handle_directive, pass2, handle_directive_p2, the symbol operands of    *)
(* handle_instruction, emit_literal_pool), symtab.c, section.c, literal.c, *)
(* reloc.c, macro.c and elf_write.c.                                       *)
(*                                                                         *)
(* Pass 1 gives every label a position by counting the bytes it expects;   *)
(* pass 2 emits the bytes, computes branches and literal loads from pass   *)
(* 1's positions, and leaves the rest to relocations, whose symbol indexes *)
(* elf_write renumbers.  The program is chosen line by line while pass 1   *)
(* reads it.  A line is a record of its kind, its symbol and its number;   *)
(* the words themselves are module Encode's subject, and only their places *)
(* and what they refer to are kept here.                                   *)
(***************************************************************************)
EXTENDS Integers, Sequences, FiniteSets, SequencesExt

CONSTANTS
    Slots,       \* Slots[i] is the set of lines the program may have at line i
    MacroBody    \* the lines of the one macro; the symbol "arg" is its parameter

VARIABLES
    pass,     \* "one", "two", "elf", "done" or "failed"
    prog,     \* the lines read by pass 1
    line,     \* the next line of pass 2
    st,       \* the assembler's tables, below
    obj       \* what elf_write produced

vars == <<pass, prog, line, st, obj>>

Sections == {"text", "data", "bss"}

\* st.sec      the current section          st.lc       pass 1's positions
\* st.syms     the symbol table, in order   st.pool     the literal pool, in order
\* st.macro    the macro is defined         st.base     literal_pool_base
\* st.size     bytes emitted per section    st.align    alignment per section
\* st.relocs   relocations, in order        st.items    what was emitted, and where
Start ==
    [sec |-> "text", lc |-> [s \in Sections |-> 0], syms |-> <<>>, pool |-> <<>>,
     macro |-> FALSE, base |-> 0, size |-> [s \in Sections |-> 0],
     align |-> [s \in Sections |-> IF s = "text" THEN 2 ELSE 3],
     relocs |-> <<>>, items |-> {}]

(***************************************************************************)
(* The symbol table.                                                       *)
(***************************************************************************)

\* The index of a name, or 0.
symtab_lookup(t, name) ==
    IF \E i \in 1..Len(t) : t[i].name = name
    THEN CHOOSE i \in 1..Len(t) : t[i].name = name ELSE 0

symtab_add(t, name) ==
    IF symtab_lookup(t, name) # 0 THEN t
    ELSE Append(t, [name |-> name, section |-> "none", value |-> 0, binding |-> "local",
                    defined |-> FALSE, explicit |-> FALSE])

\* Add a symbol and change it.
WithSymbol(t, name, section, value, defined, binding, explicit) ==
    LET u == symtab_add(t, name)
        i == symtab_lookup(u, name)
    IN  [u EXCEPT ![i] = [name |-> name, section |-> section, value |-> value,
                          binding |-> binding, defined |-> defined, explicit |-> explicit]]

\* The symbol of a name, with the values of a new one if there is none.
Symbol(t, name) == LET u == symtab_add(t, name) IN u[symtab_lookup(u, name)]

\* An absolute constant, defined by .equ.
Absolute(sym) == sym.defined /\ sym.section = "none"

(***************************************************************************)
(* Positions, the literal pool, macros.                                    *)
(***************************************************************************)

RoundUp(x, unit) == ((x + unit - 1) \div unit) * unit

advance_lc(s, bytes) == [s EXCEPT !.lc[s.sec] = @ + bytes]

align_lc(s, unit) == [s EXCEPT !.lc[s.sec] = RoundUp(@, unit)]

\* A literal is a number or a symbol; equal ones share an entry.
Literal(s, l) ==
    IF l.sym = "" THEN [sym |-> "", val |-> l.n]
    ELSE IF Absolute(Symbol(s.syms, l.sym))
         THEN [sym |-> "", val |-> Symbol(s.syms, l.sym).value]
         ELSE [sym |-> l.sym, val |-> 0]

literal_pool_add(pool, lit) == IF lit \in ToSet(pool) THEN pool ELSE Append(pool, lit)

PoolOffset(pool, lit) == 8 * ((CHOOSE i \in 1..Len(pool) : pool[i] = lit) - 1)

\* The lines a use of the macro stands for, its argument put in.
expand_macro(l) ==
    [i \in 1..Len(MacroBody) |->
        [MacroBody[i] EXCEPT !.sym = IF @ = "arg" THEN l.sym ELSE @]]

(***************************************************************************)
(* Pass 1.                                                                 *)
(***************************************************************************)

\* The bytes pass 1 expects of a line that is no directive of another kind.
Expected(l) ==
    CASE l.kind \in {"quad", "quadsum"} -> 8
      [] l.kind \in {"ascii", "space"} -> l.n
      [] OTHER -> 4

Boundary(s, l) == IF l.sym = "" THEN l.n ELSE Symbol(s.syms, l.sym).value

\* .equ: a symbol of no section.
DefineConstant(s, l) ==
    LET old == Symbol(s.syms, l.sym)
    IN  [s EXCEPT !.syms = WithSymbol(@, l.sym, "none", l.n, TRUE, old.binding, old.explicit)]

\* .section, and the definition of a macro; any section but .data and .bss is the one text
\* section.  Left out: it takes the name of the last such line, and its padding is nops
\* only where that name begins with .text.
OtherDirective(s, l) ==
    IF l.kind = "section" THEN [s EXCEPT !.sec = l.sym] ELSE [s EXCEPT !.macro = TRUE]

handle_directive(s, l) ==
    LET old == Symbol(s.syms, l.sym) IN
    CASE l.kind \in {"section", "macro"} -> OtherDirective(s, l)
      [] l.kind = "globl" ->
            [s EXCEPT !.syms = WithSymbol(@, l.sym, old.section, old.value, old.defined,
                                          "global", old.explicit)]
      [] l.kind = "local" ->
            [s EXCEPT !.syms = WithSymbol(@, l.sym, old.section, old.value, old.defined,
                                          "local", TRUE)]
      [] l.kind = "equ" -> DefineConstant(s, l)
      [] l.kind \in {"align", "balign"} -> align_lc(s, Boundary(s, l))
      [] OTHER -> advance_lc(s, Expected(l))

Directives == {"section", "globl", "local", "equ", "align", "balign", "macro",
               "quad", "quadsum", "ascii", "space"}

\* One line of pass 1, macros aside.
Count(s, l) ==
    CASE l.kind = "label" ->
            LET old == Symbol(s.syms, l.sym)
            IN  [s EXCEPT !.syms = WithSymbol(@, l.sym, s.sec, s.lc[s.sec], TRUE,
                                              old.binding, old.explicit)]
      [] l.kind \in Directives -> handle_directive(s, l)
      [] l.kind = "ldr" ->
            advance_lc([s EXCEPT !.pool = literal_pool_add(@, Literal(s, l))], 4)
      [] OTHER -> advance_lc(s, 4)

\* A macro that is not defined yet is taken for an instruction.
pass1(s, l) ==
    IF l.kind = "use" /\ s.macro THEN FoldLeft(Count, s, expand_macro(l)) ELSE Count(s, l)

(***************************************************************************)
(* Pass 2.  An item records the section, the place and the kind of what is *)
(* emitted, the symbol the line names and the place or value computed.     *)
(***************************************************************************)

\* Nothing is emitted in .bss.
Buffered(s) == s.sec \in {"text", "data"}

Item(s, l, to) == [sec |-> s.sec, at |-> s.size[s.sec], kind |-> l.kind, sym |-> l.sym,
                   n |-> l.n, to |-> to]

section_emit(s, l, to, bytes) ==
    IF ~Buffered(s) THEN s
    ELSE [s EXCEPT !.items = @ \cup {Item(s, l, to)}, !.size[s.sec] = @ + bytes]

emit_reloc(s, type, name, addend) ==
    LET u == symtab_add(s.syms, name)
    IN  IF ~Buffered(s) THEN [s EXCEPT !.syms = u]
        ELSE [s EXCEPT !.syms = u,
                       !.relocs = Append(@, [sec |-> s.sec, at |-> s.size[s.sec], type |-> type,
                                             idx |-> symtab_lookup(u, name), addend |-> addend])]

\* The mutant forgets the header.
AlignSilently(s, l, unit) ==
    IF ~Buffered(s) THEN s
    ELSE LET t == [s EXCEPT !.size[s.sec] = RoundUp(@, unit)]
         IN  [t EXCEPT !.items = @ \cup {Item(t, l, unit)}]

\* The largest alignment is kept for the section header.
section_align(s, l, unit) ==
    IF ~Buffered(s) THEN s
    ELSE LET power == CHOOSE p \in 0..12 : 2^p = unit
             t == [s EXCEPT !.align[s.sec] = IF power > @ THEN power ELSE @,
                            !.size[s.sec] = RoundUp(@, unit)]
         IN  [t EXCEPT !.items = @ \cup {Item(t, l, unit)}]

\* b and bl to a local label of this section are direct, others are relocated.
Branch(s, l) ==
    LET sym == Symbol(s.syms, l.sym)
        here == sym.defined /\ sym.section = s.sec
    IN  CASE l.kind \in {"b", "bl"} /\ here /\ sym.binding = "local" ->
                section_emit(s, l, sym.value, 4)
          [] l.kind \in {"b", "bl"} /\ ~(here /\ sym.binding = "local") ->
                section_emit(emit_reloc(s, IF l.kind = "b" THEN "JUMP26" ELSE "CALL26", l.sym, 0),
                             l, -1, 4)
          [] l.kind = "bcond" ->
                section_emit(s, l, IF here THEN sym.value ELSE s.size[s.sec], 4)

\* ldr of a literal: the pool's place was fixed by pass 1.
LoadLiteral(s, l) ==
    LET lit == Literal(s, l)
        pool == literal_pool_add(s.pool, lit)
    IN  section_emit([s EXCEPT !.pool = pool], l, s.base + PoolOffset(pool, lit), 4)

\* .quad: a number, a constant, or a relocation; one against a name that no
\* table holds is made against the empty name.
Quad(s, l) ==
    LET sym == Symbol(s.syms, l.sym)
        known == symtab_lookup(s.syms, l.sym) # 0
    IN  CASE l.sym = "" -> section_emit(s, l, l.n, 8)
          [] l.sym # "" /\ Absolute(sym) -> section_emit(s, l, sym.value + l.n, 8)
          [] OTHER ->
                section_emit(emit_reloc(s, "ABS64", IF known THEN l.sym ELSE "", l.n), l, -1, 8)

\* .space, .fill, .align and .balign.
EmitSpace(s, l) ==
    IF l.kind = "space" THEN section_emit(s, l, 0, l.n) ELSE section_align(s, l, Boundary(s, l))

\* One line of pass 2, macros aside.  Labels and symbol directives do nothing;
\* the item of a label records where it really is.
EmitLine(s, l) ==
    CASE l.kind = "label" ->
            [s EXCEPT !.items = IF Buffered(s) THEN @ \cup {Item(s, l, 0)} ELSE @]
      [] l.kind = "section" -> [s EXCEPT !.sec = l.sym]
      [] l.kind \in {"globl", "local", "equ", "macro"} -> s
      [] l.kind \in {"align", "balign", "space"} -> EmitSpace(s, l)
      [] l.kind = "quad" -> Quad(s, l)
      [] l.kind = "quadsum" -> section_emit(s, l, l.n, 16)
      [] l.kind = "ascii" -> section_emit(s, l, 0, l.n)
      [] l.kind \in {"b", "bl", "bcond"} -> Branch(s, l)
      [] l.kind = "adrp" -> section_emit(emit_reloc(s, "ADR_PREL_PG_HI21", l.sym, 0), l, -1, 4)
      [] l.kind = "lo12" -> section_emit(emit_reloc(s, "ADD_ABS_LO12_NC", l.sym, 0), l, -1, 4)
      [] l.kind = "ldr" -> LoadLiteral(s, l)
      [] l.kind = "mov" -> section_emit(s, l, 0, 4 * l.n)
      [] OTHER -> section_emit(s, l, 0, 4)

\* By now every macro is defined.
pass2(s, l) ==
    IF l.kind = "use" /\ s.macro THEN FoldLeft(EmitLine, s, expand_macro(l)) ELSE EmitLine(s, l)

\* The pool, in the order of its entries, at an aligned place behind the code.
PoolEntry(s, lit) ==
    LET l == [kind |-> "literal", sym |-> lit.sym, n |-> lit.val]
    IN  IF lit.sym # "" THEN section_emit(emit_reloc(s, "ABS64", lit.sym, 0), l, -1, 8)
        ELSE section_emit(s, l, lit.val, 8)

emit_literal_pool(s) ==
    IF s.pool = <<>> THEN s
    ELSE LET pad == [kind |-> "pad", sym |-> "", n |-> 0]
         IN  FoldLeft(PoolEntry, section_align([s EXCEPT !.sec = "text"], pad, 8), s.pool)

check_undefined_symbols(t) == ~\E i \in 1..Len(t) : t[i].explicit /\ ~t[i].defined

(***************************************************************************)
(* elf_write: the null symbol and three section symbols, the defined local *)
(* symbols, then the global and the undefined ones; relocations follow.    *)
(***************************************************************************)

IsLocal(sym) == sym.binding = "local" /\ sym.defined

\* The table of the file: for each entry after the first four, an index of syms.
ElfOrder(t) ==
    LET all == [i \in 1..Len(t) |-> i]
    IN  SelectSeq(all, LAMBDA i : IsLocal(t[i])) \o SelectSeq(all, LAMBDA i : ~IsLocal(t[i]))

SymToElf(t, i) == 3 + CHOOSE e \in 1..Len(t) : ElfOrder(t)[e] = i

\* The places of the parts of the file, in bytes; a name takes NameSize.
NameSize == 2

Layout(s) ==
    LET count(sec) == Len(SelectSeq(s.relocs, LAMBDA r : r.sec = sec))
        text == 64
        data == RoundUp(text + s.size["text"], 8)
        symtab == RoundUp(data + s.size["data"], 8)
        strtab == symtab + 24 * (4 + Len(s.syms))
        shstrtab == strtab + 1 + NameSize * (3 + Len(s.syms))
        relaText == RoundUp(shstrtab + 1 + NameSize * 8, 8)
        relaData == relaText + 24 * count("text")
        shdr == RoundUp(relaData + 24 * count("data"), 8)
    IN  <<text, data, symtab, strtab, shstrtab, relaText, relaData, shdr>>

elf_write(s) ==
    [symbols |-> [e \in 1..Len(s.syms) |->
                    LET sym == s.syms[ElfOrder(s.syms)[e]]
                    IN  [name |-> sym.name, value |-> sym.value, shndx |->
                            IF sym.section # "none" THEN sym.section
                            ELSE IF sym.defined THEN "abs" ELSE "undef",
                         binding |-> IF IsLocal(sym) THEN "local" ELSE "global"]],
     firstGlobal |-> 4 + Cardinality({i \in 1..Len(s.syms) : IsLocal(s.syms[i])}),
     relas |-> [r \in 1..Len(s.relocs) |->
                    [sec |-> s.relocs[r].sec, at |-> s.relocs[r].at, type |-> s.relocs[r].type,
                     sym |-> SymToElf(s.syms, s.relocs[r].idx), addend |-> s.relocs[r].addend]],
     align |-> [sec \in Sections |-> IF sec = "bss" THEN 8 ELSE 2^(s.align[sec])],
     layout |-> Layout(s)]

(***************************************************************************)
(* The run of the assembler.                                               *)
(***************************************************************************)

Init ==
    /\ pass = "one" /\ prog = <<>> /\ line = 1 /\ st = Start
    /\ obj = <<>>

\* A balign of an undefined symbol or of no power of two is an error.
BadBoundary(s, l) ==
    /\ l.kind = "balign"
    /\ \/ l.sym # "" /\ ~Symbol(s.syms, l.sym).defined
       \/ Boundary(s, l) \notin {2^p : p \in 0..12}

ReadLine ==
    /\ pass = "one" /\ Len(prog) < Len(Slots)
    /\ \E l \in Slots[Len(prog) + 1] :
          /\ prog' = Append(prog, l)
          /\ IF BadBoundary(st, l) THEN pass' = "failed" /\ UNCHANGED st
             ELSE st' = pass1(st, l) /\ UNCHANGED pass
    /\ UNCHANGED <<line, obj>>

\* The end of pass 1 fixes the pool's place; pass 2 starts in .text.
EndPass1 ==
    /\ pass = "one" /\ Len(prog) = Len(Slots)
    /\ pass' = "two"
    /\ st' = [st EXCEPT !.base = RoundUp(st.lc["text"], 8), !.sec = "text"]
    /\ UNCHANGED <<prog, line, obj>>

\* A line that is no macro and no instruction stops the assembler.
EmitNext ==
    /\ pass = "two" /\ line <= Len(prog)
    /\ IF prog[line].kind = "use" /\ ~st.macro THEN pass' = "failed" /\ UNCHANGED <<st, line>>
       ELSE /\ st' = pass2(st, prog[line])
            /\ line' = line + 1
            /\ UNCHANGED pass
    /\ UNCHANGED <<prog, obj>>

EndPass2 ==
    /\ pass = "two" /\ line > Len(prog)
    /\ st' = emit_literal_pool(st)
    /\ pass' = IF check_undefined_symbols(st'.syms) THEN "elf" ELSE "failed"
    /\ UNCHANGED <<prog, line, obj>>

WriteElf ==
    /\ pass = "elf" /\ pass' = "done"
    /\ obj' = elf_write(st)
    /\ UNCHANGED <<prog, line, st>>

Next == ReadLine \/ EndPass1 \/ EmitNext \/ EndPass2 \/ WriteElf

Spec == Init /\ [][Next]_vars

TypeOK ==
    /\ pass \in {"one", "two", "elf", "done", "failed"}
    /\ line \in 1..(Len(Slots) + 1)
    /\ st.sec \in Sections
    /\ \A s \in Sections : st.lc[s] \in Nat /\ st.size[s] \in Nat

(***************************************************************************)
(* The programs on which the passes agree.  Each line below names a known  *)
(* gap of the assembler (see the README): it accepts such programs.        *)
(***************************************************************************)

LinesOf(kinds) == {i \in 1..Len(prog) : prog[i].kind \in kinds}

\* Everything a line defines or places, macro expanded.
Names(l) ==
    CASE l.kind = "label" -> {l.sym}
      [] l.kind = "equ" -> {l.sym}
      [] l.kind = "use" -> {e.sym : e \in {f \in ToSet(expand_macro(l)) : f.kind = "label"}}
      [] OTHER -> {}

NoLongMove == \A i \in LinesOf({"mov"}) : prog[i].n = 1

MacroFirst == \A i \in LinesOf({"use"}) : \E j \in LinesOf({"macro"}) : j < i

DefinedOnce == \A i, j \in 1..Len(prog) : i # j => Names(prog[i]) \cap Names(prog[j]) = {}

NoSum == LinesOf({"quadsum"}) = {}

Agreeing == NoLongMove /\ MacroFirst /\ DefinedOnce /\ NoSum

\* Where pass 2 met a label of .text or .data.
PlaceOf(name) == {<<x.sec, x.at>> : x \in {y \in st.items : y.kind = "label" /\ y.sym = name}}

ElfSymbol(r) == obj.symbols[r.sym - 3]

\* What an item refers to is found, through the file's tables, where the program
\* says it is.
Resolved(x) ==
    LET rela == {obj.relas[k] : k \in 1..Len(obj.relas)}
        mine == {r \in rela : r.sec = x.sec /\ r.at = x.at}
        By(type, addend) ==
            \E r \in mine : /\ mine = {r} /\ r.type = type /\ r.addend = addend
                            /\ r.sym > 3 /\ ElfSymbol(r).name = x.sym
        Direct == mine = {} /\ <<x.sec, x.to>> \in PlaceOf(x.sym)
        \* The name of a constant, whose value is known when the line is emitted.
        constant == Absolute(Symbol(st.syms, x.sym))
    IN  CASE x.kind = "b" -> Direct \/ By("JUMP26", 0)
          [] x.kind = "bl" -> Direct \/ By("CALL26", 0)
          [] x.kind = "bcond" -> Direct
          [] x.kind = "adrp" -> By("ADR_PREL_PG_HI21", 0)
          [] x.kind = "lo12" -> By("ADD_ABS_LO12_NC", 0)
          [] x.kind = "quad" ->
                IF x.sym = "" THEN mine = {} /\ x.to = x.n
                ELSE IF constant THEN mine = {} /\ x.to = Symbol(st.syms, x.sym).value + x.n
                ELSE By("ABS64", x.n)
          [] x.kind = "literal" -> IF x.sym = "" THEN mine = {} ELSE By("ABS64", 0)
          [] x.kind = "ldr" ->
                \E y \in st.items :
                    /\ y.kind = "literal" /\ y.sec = x.sec /\ y.at = x.to
                    /\ IF x.sym # "" /\ ~constant THEN y.sym = x.sym
                       ELSE y.sym = "" /\ y.n = IF constant THEN Symbol(st.syms, x.sym).value
                                                ELSE x.n
          [] x.kind \in {"align", "balign"} ->
                x.at % x.to = 0 /\ obj.align[x.sec] % x.to = 0
          [] OTHER -> TRUE

\* A conditional branch to a label that is not in its section goes nowhere, a
\* literal outside .text is looked for in the wrong section, and .quad of a name
\* that nothing else mentions loses the name: known gaps too.
Supported(x) ==
    CASE x.kind = "bcond" -> \E p \in PlaceOf(x.sym) : p[1] = x.sec
      [] x.kind = "ldr" -> x.sec = "text"
      [] x.kind = "quad" -> x.sym = "" \/ ~\E i \in 1..Len(st.syms) : st.syms[i].name = ""
      [] OTHER -> TRUE

\* In the object file of a program whose passes agree, every label has the value
\* of the place where pass 2 put it; every branch, literal load, address and
\* alignment means what the program says, through relocations whose symbol
\* numbers survived the renumbering; local symbols come first and undefined ones
\* are global, as the linker expects; and the parts of the file do not overlap.
AsExact ==
    pass = "done" /\ Agreeing =>
        /\ \A k \in 1..Len(obj.symbols) :
              LET e == obj.symbols[k]
              IN  /\ e.shndx \in {"text", "data"} => PlaceOf(e.name) = {<<e.shndx, e.value>>}
                  /\ e.shndx = "undef" => e.binding = "global"
                  /\ (k + 3 < obj.firstGlobal) <=> (e.binding = "local")
        /\ \A x \in st.items : Supported(x) => Resolved(x)
        /\ \A k \in 1..7 : obj.layout[k] <= obj.layout[k + 1]
        /\ obj.layout[1] + st.size["text"] <= obj.layout[2]
        /\ obj.layout[2] + st.size["data"] <= obj.layout[3]
        /\ st.size["text"] >= st.lc["text"] /\ st.size["data"] = st.lc["data"]

=============================================================================
