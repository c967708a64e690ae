------------------------------- MODULE Encode -------------------------------
(***************************************************************************)
(* handle_instruction of cmd/as/parser.c, which chooses an encoder of      *)
(* cmd/as/encode.c (module Insn) from a mnemonic and its operands.  One    *)
(* step assembles one instruction.                                         *)
(*                                                                         *)
(* Register operands have the kind the mnemonic asks for; branch targets   *)
(* and literals are offsets (module As resolves them), and an ADRP offset  *)
(* is counted in pages.                                                    *)
(***************************************************************************)
EXTENDS Decode

VARIABLES
    ins,   \* the instruction just read: mnemonic, width, registers, value
    out    \* the words emitted for it, or the empty sequence after an error

vars == <<ins, out>>

(***************************************************************************)
(* The instructions that are tried: every mnemonic, with registers that    *)
(* differ from each other and values on both sides of every limit, those   *)
(* the code does not check included.                                       *)
(***************************************************************************)

Widths == 0..1

Regs == {[d |-> 1, n |-> 2, m |-> 4, a |-> 8], [d |-> 31, n |-> 0, m |-> 30, a |-> 16],
         [d |-> 16, n |-> 31, m |-> 1, a |-> 0]}

Modes == {"base", "off", "pre", "post"}

Imm12s == {0, 1, 4095, 4096, 4097, 4095 * 4096, 4096 * 4096, -1, -4096, -4097}

Offsets == {-257, -256, -1, 0, 255, 256}

PairOffsets == {u * k : u \in {4, 8}, k \in {-65, -64, -1, 0, 63, 64}} \cup {2}

UnsignedOffsets == {-8, 0, 1} \cup {u * k : u \in {1, 2, 4, 8}, k \in {1, 4095, 4096}}

Far(limit) == {-limit - 4, -limit, -4, 0, 2, 4, limit - 4, limit}

Conds == {encode_cond[c] : c \in {"eq", "ne", "hs", "lo", "ge", "lt", "le"}}

\* Runs of ones: of every period, some rotated, and two that are no run.
Patterns ==
    {{b \in 0..63 : ((b + rot) % size) < ones} :
        size \in {2, 8, 32, 64}, rot \in {0, 1, 30}, ones \in {1, 2, 7, 31}}
    \cup {{0, 2}, {5, 6, 9}}

Parts == [1..4 -> {0, 1, 65535}]

\* Assemble an instruction: remember what was asked and what was emitted.
Assemble(i, code) == ins' = i /\ out' = code

I(mn, sf, r, v) == [mn |-> mn, fp |-> FALSE, mode |-> "none", sf |-> sf, r |-> r, v |-> v]

Mem(mn, fp, mode, sf, r, v) ==
    [mn |-> mn, fp |-> fp, mode |-> mode, sf |-> sf, r |-> r, v |-> v]

(***************************************************************************)
(* One action per family of mnemonics.                                     *)
(***************************************************************************)

NoReg == [d |-> 0, n |-> 0, m |-> 0, a |-> 0]

FixedIns ==
    \/ \E mn \in {"nop", "isb", "dsb_sy", "tlbi_vmalle1", "eret", "wfe", "wfi"} :
          Assemble(I(mn, 1, NoReg, 0), Encode(mn, 1, NoReg, 0))
    \/ \E mn \in {"svc", "hvc"}, v \in {0, 1, 65535, 65536} :
          Assemble(I(mn, 1, NoReg, v), Encode(mn, 1, NoReg, v))
    \/ \E r \in Regs : Assemble(I("tlbi_vaae1is", 1, r, 0), Encode("tlbi_vaae1is", 1, r, 0))

SystemRegIns ==
    \/ \E mn \in {"msr", "mrs"}, r \in Regs, s \in DOMAIN sysregs :
          Assemble(I(mn, 1, r, s), Emit(mn, 1, r, [sysreg |-> sysregs[s][1]]))
    \/ \E p \in {"daifset", "daifclr", "spsel"}, v \in {0, 2, 15, 16, 18} :
          LET f == [daifset |-> <<3, 6>>, daifclr |-> <<3, 7>>, spsel |-> <<0, 5>>][p]
          IN  Assemble(I(p, 1, NoReg, v),
                       Emit("msr_pstate", 1, NoReg,
                            [op1 |-> f[1], op2 |-> f[2], imm4 |-> v % 16]))

\* ret without a register returns through x30.
JumpRegIns ==
    \/ Assemble(I("ret", 1, [NoReg EXCEPT !.n = 30], 0),
                Encode("ret", 1, [NoReg EXCEPT !.n = 30], 0))
    \/ \E mn \in {"ret", "blr", "br"}, r \in Regs :
          Assemble(I(mn, 1, r, 0), Encode(mn, 1, r, 0))

BranchIns ==
    \/ \E mn \in {"b", "bl"}, v \in Far(2^27) :
          Assemble(I(mn, 1, NoReg, v), Encode(mn, 1, NoReg, v))
    \/ \E c \in Conds, v \in Far(2^20) :
          Assemble(I("bcond", 1, [d |-> c], v),
                   Emit("bcond", 1, NoReg, Over([bcond |-> c], Immediate("bcond", 1, v))))
    \/ \E mn \in {"cbz", "cbnz", "ldr_literal"}, sf \in Widths, r \in Regs, v \in Far(2^20) :
          Assemble(I(mn, sf, r, v), Encode(mn, sf, r, v))

AddressIns ==
    \E mn \in {"adr", "adrp"}, r \in Regs, v \in Far(2^20) :
        Assemble(I(mn, 1, r, v), Encode(mn, 1, r, v))

AddSubIns ==
    \E mn \in {"add", "sub", "adds", "subs"}, sf \in Widths, r \in Regs :
        \/ Assemble(I(mn \o "_reg", sf, r, 0), Encode(mn \o "_reg", sf, r, 0))
        \/ \E v \in Imm12s : Assemble(I(mn, sf, r, v), AddSub(mn, sf, r, v))

CompareIns ==
    \E mn \in {"cmp", "cmn"}, sf \in Widths, r \in Regs :
        LET name == IF mn = "cmp" THEN "subs" ELSE "adds" IN
        \/ Assemble(I(mn \o "_reg", sf, r, 0), Encode(name \o "_reg", sf, Discard(r), 0))
        \/ \E v \in Imm12s :
              Assemble(I(mn, sf, r, v), Encode(name \o "_imm", sf, Discard(r), v))

MultiplyIns ==
    \E sf \in Widths, r \in Regs :
        \/ \E mn \in {"mul", "sdiv", "udiv", "madd", "msub", "negs"} :
              Assemble(I(mn, sf, r, 0), Encode(mn, sf, r, 0))
        \/ Assemble(I("neg", sf, r, 0), neg(sf, r))

LogicalIns ==
    \E sf \in Widths, r \in Regs :
        \/ \E mn \in {"mvn", "bic"} : Assemble(I(mn, sf, r, 0), Encode(mn, sf, r, 0))
        \/ \E mn \in {"and", "orr", "eor", "ands"} :
              \/ Assemble(I(mn \o "_reg", sf, r, 0), Encode(mn \o "_reg", sf, r, 0))
              \/ \E p \in Patterns :
                    LET val == IF sf = 1 THEN p ELSE p \cap (0..31)
                    IN  Assemble(I(mn, sf, r, val), LogicalImm(mn \o "_imm", sf, r, val))
        \/ Assemble(I("tst_reg", sf, r, 0), Encode("ands_reg", sf, Discard(r), 0))
        \/ \E p \in Patterns :
              LET val == IF sf = 1 THEN p ELSE p \cap (0..31)
              IN  Assemble(I("tst", sf, r, val), LogicalImm("ands_imm", sf, Discard(r), val))

ShiftIns ==
    \E sf \in Widths, r \in Regs :
        \/ \E mn \in {"lsl_reg", "lsr_reg", "asr_reg"} :
              Assemble(I(mn, sf, r, 0), Encode(mn, sf, r, 0))
        \/ \E v \in {0, 1, 16, 31 + 32 * sf, 32 + 32 * sf} :
              \/ Assemble(I("lsl", sf, r, v), lsl_imm(sf, r, v))
              \/ Assemble(I("lsr", sf, r, v), lsr_imm("lsr_imm", sf, r, v))
              \/ Assemble(I("asr", sf, r, v), lsr_imm("asr_imm", sf, r, v))

\* mov between registers; one that names the stack pointer is an addition of 0.
MoveRegIns ==
    \E sf \in Widths, r \in Regs :
        \/ Assemble(I("mov_reg", sf, r, 0), Encode("mov_reg", sf, r, 0))
        \/ Assemble(I("mov_from_sp", sf, r, 0), Encode("add_imm", sf, [r EXCEPT !.n = 31], 0))
        \/ Assemble(I("mov_to_sp", sf, r, 0),
                    Encode("add_imm", sf, [r EXCEPT !.d = 31, !.n = r.m], 0))

MoveIns ==
    \E sf \in Widths, r \in Regs :
        \/ \E c \in Parts, symbol \in BOOLEAN :
              Assemble(Mem("mov", FALSE, IF symbol THEN "symbol" ELSE "none", sf, r, c),
                       MoveNumber(sf, r, c, symbol))
        \/ \E mn \in {"movz", "movk", "movn"}, v \in {0, 1, 65535, 65536}, hw \in 0..4 :
              Assemble(I(mn, sf, r, <<v, hw>>), MoveWide(mn, sf, r, v, hw))

CondIns ==
    \E sf \in Widths, r \in Regs, c \in Conds :
        \/ \E mn \in {"cset", "csetm"} :
              Assemble(I(mn, sf, r, c), Emit(mn, sf, r, [cond |-> invert_cond(c)]))
        \/ \E mn \in {"csinc", "csel", "csinv", "csneg"} :
              Assemble(I(mn, sf, r, c), Emit(mn, sf, r, [cond |-> c]))
        \/ Assemble(I("cinc", sf, r, c), cinc(sf, r, c))

ExtendIns ==
    \E r \in Regs :
        \/ Assemble(I("sxtw", 1, r, 0), Encode("sxtw", 1, r, 0))
        \/ \E mn \in {"sxtb", "sxth"}, sf \in Widths :
              Assemble(I(mn, sf, r, 0), Encode(mn, sf, r, 0))
        \/ \E mn \in {"uxtb", "uxth"} : Assemble(I(mn, 0, r, 0), Encode(mn, 0, r, 0))

LoadStoreIns ==
    \E mn \in {"ldr", "str"}, fp \in BOOLEAN, sf \in Widths, r \in Regs, mode \in Modes :
        \E v \in UnsignedOffsets \cup Offsets :
            Assemble(Mem(mn, fp, mode, sf, r, v), LoadStore(mn, fp, mode, sf, r, v))

LoadPartIns ==
    \E mn \in {"ldrb", "strb", "ldrh", "strh", "ldrsw", "ldrsb", "ldrsh"},
       sf \in Widths, r \in Regs, mode \in Modes, v \in UnsignedOffsets :
        Assemble(Mem(mn, FALSE, mode, sf, r, v), LoadPart(mn, mode, sf, r, v))

LoadPairIns ==
    \E mn \in {"stp", "ldp"}, sf \in Widths, r \in Regs, mode \in Modes, v \in PairOffsets :
        Assemble(Mem(mn, FALSE, mode, sf, r, v), LoadPair(mn, mode, sf, r, v))

UnscaledIns ==
    \E sf \in Widths, r \in Regs, mode \in Modes, v \in Offsets :
        \/ \E mn \in {"stur", "ldur"}, fp \in BOOLEAN :
              Assemble(Mem(mn, fp, mode, sf, r, v), Unscaled(mn, fp, mode, sf, r, v))
        \/ \E mn \in {"sturb", "ldurb", "sturh", "ldurh", "ldursw", "ldursb", "ldursh"} :
              Assemble(Mem(mn, FALSE, mode, sf, r, v), Unscaled(mn, FALSE, mode, sf, r, v))

FloatIns ==
    \E sf \in Widths, r \in Regs :
        \E mn \in {"fadd", "fsub", "fmul", "fdiv", "fneg", "fcmp_reg", "fcmp_zero"} :
              Assemble(I(mn, sf, r, 0), Encode(mn, sf, r, 0))

\* A conversion has a width on each side: sf is the integer's, s the other's.
ConvertIns ==
    \E sf \in Widths, r \in Regs :
        \/ \E mn \in {"scvtf", "ucvtf", "fcvtzs", "fcvtzu"}, s \in {"_s", "_d"} :
              Assemble(I(mn \o s, sf, r, 0), Encode(mn \o s, sf, r, 0))
        \/ LET mn == IF sf = 1 THEN "fcvt_d_s" ELSE "fcvt_s_d"
           IN  Assemble(I(mn, 1, r, 0), Encode(mn, 1, r, 0))
        \/ Assemble(I("fmov", sf, r, 0), Encode("fmov", sf, r, 0))

Init == ins = I("none", 1, NoReg, 0) /\ out = <<>>

Next ==
    /\ ins.mn = "none"
    /\ \/ FixedIns \/ SystemRegIns \/ JumpRegIns \/ BranchIns \/ AddressIns
       \/ AddSubIns \/ CompareIns \/ MultiplyIns \/ LogicalIns \/ ShiftIns
       \/ MoveRegIns \/ MoveIns \/ CondIns \/ ExtendIns
       \/ LoadStoreIns \/ LoadPartIns \/ LoadPairIns \/ UnscaledIns \/ FloatIns
       \/ ConvertIns

Spec == Init /\ [][Next]_vars

TypeOK ==
    /\ out \in Seq(SUBSET (0..31))
    /\ Len(out) <= 4

(***************************************************************************)
(* Properties                                                              *)
(***************************************************************************)

\* A number a w register can hold: 32 bits, or a short negative one.  The code
\* also takes longer negative numbers, and symbols with a negative value, and
\* then emits movk with a shift that a w register does not have: a known gap.
HeldByRegister ==
    LET c == ins.v
    IN  \/ ins.sf = 1
        \/ c[3] = 0 /\ c[4] = 0
        \/ ins.mode # "symbol" /\ \A j \in 2..4 : c[j] = 65535

MoveRight ==
    HeldByRegister =>
        /\ out # <<>>
        /\ \A k \in 1..Len(out) : \E m \in Readings(out[k]) :
              /\ Readings(out[k]) = {m}
              /\ m.op \in {"movz", "movk", "movn"} /\ m.sf = ins.sf
              /\ m.regs = [d |-> ins.r.d] /\ m.v[2] < 2 + 2 * ins.sf
        /\ After(out, ins.sf) = [j \in 1..4 |-> IF j <= 2 + 2 * ins.sf THEN ins.v[j] ELSE 0]

LogicalMnemonics == {"and", "orr", "eor", "ands", "tst"}

\* Values the code puts into their field without a look at its width: 16 bits of svc, hvc,
\* movz, movk and movn and 4 of msr, which it cuts; and shifts, which it does not.
Unchecked == {"svc", "hvc", "movz", "movk", "movn", "daifset", "daifclr", "spsel",
              "lsl", "lsr", "asr"}

\* Every word the assembler emits reads back, in exactly one way, as the
\* instruction it was asked for: no field overlaps another or the opcode, no
\* alias names the wrong instruction, every sign and scale is right; and a value
\* is refused only when the instruction has no room for it (a logical immediate
\* may be refused for nothing: see the README).  A value there is no room for is
\* refused, or it is one of those the code does not check, and then its low bits
\* are what the instruction gets.
EncodeExact ==
    LET asked == Asked(Widened(ins))
    IN
    \/ ins.mn = "none"
    \/ ins.mn = "mov" /\ MoveRight
    \/ /\ ins.mn \notin {"none", "mov"}
       /\ \/ IndexDropped(ins)
          \/ IF out = <<>> THEN ins.mn \in LogicalMnemonics \/ ~Fits(asked)
             ELSE /\ Len(out) = 1
                  /\ Fits(Cut(asked)) => Readings(out[1]) = {Cut(asked)}
                  /\ ~Fits(asked) => ins.mn \in Unchecked

=============================================================================
