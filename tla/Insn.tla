-------------------------------- MODULE Insn --------------------------------
(***************************************************************************)
(* The instruction encoders of the assembler, cmd/as/encode.c, and the     *)
(* tables of cmd/as/parser.c that say which one a mnemonic takes.  A       *)
(* 32-bit word is the set of its bits that are one, so that the encoders'  *)
(* unmasked "or" of a field is a union, and a field that is too wide runs  *)
(* into its neighbours as it does in the code.                             *)
(*                                                                         *)
(* An encoder is a row <<name, high half of the 64-bit base, high half of  *)
(* the 32-bit base, low half, fields>>; for floating point the two bases   *)
(* are double and single.                                                  *)
(***************************************************************************)
EXTENDS Integers, Sequences, FiniteSets

(***************************************************************************)
(* Bits and fields.                                                        *)
(***************************************************************************)

Bits(v) == {i \in 0..30 : (v \div 2^i) % 2 = 1}

At(v, shift) == {shift + i : i \in Bits(v)} \cap (0..31)

ValueOf(bits) == LET f[i \in 0..32] == IF i = 32 THEN 0
                       ELSE (IF i \in bits THEN 1 ELSE 0) + 2 * f[i + 1]
                 IN  f[0]

\* First bit and width of every field the encoders fill.
Field == [d |-> <<0, 5>>, n |-> <<5, 5>>, m |-> <<16, 5>>, a |-> <<10, 5>>,
          imm12 |-> <<10, 12>>, sh |-> <<22, 1>>, imm16 |-> <<5, 16>>,
          hw |-> <<21, 2>>, N |-> <<22, 1>>, immr |-> <<16, 6>>,
          imms |-> <<10, 6>>, cond |-> <<12, 4>>, bcond |-> <<0, 4>>,
          imm26 |-> <<0, 26>>, imm19 |-> <<5, 19>>, imm9 |-> <<12, 9>>,
          imm7 |-> <<15, 7>>, immlo |-> <<29, 2>>, immhi |-> <<5, 19>>,
          sysreg |-> <<5, 15>>, op1 |-> <<16, 3>>, imm4 |-> <<8, 4>>,
          op2 |-> <<5, 3>>]

RegFields == {"d", "n", "m", "a"}

(***************************************************************************)
(* The encoders.                                                           *)
(***************************************************************************)

DNM == {"d", "n", "m"}

ArithRows == {
    <<"add_reg", \h8B00, \h0B00, 0, DNM>>,
    <<"add_imm", \h9100, \h1100, 0, {"d", "n", "imm12", "sh"}>>,
    <<"sub_reg", \hCB00, \h4B00, 0, DNM>>,
    <<"sub_imm", \hD100, \h5100, 0, {"d", "n", "imm12", "sh"}>>,
    <<"mov_reg", \hAA00, \h2A00, \h03E0, {"d", "m"}>>,
    <<"movz", \hD280, \h5280, 0, {"d", "imm16", "hw"}>>,
    <<"movk", \hF280, \h7280, 0, {"d", "imm16", "hw"}>>,
    <<"movn", \h9280, \h1280, 0, {"d", "imm16", "hw"}>>}

BranchRows == {
    <<"b", \h1400, \h1400, 0, {"imm26"}>>,
    <<"bl", \h9400, \h9400, 0, {"imm26"}>>,
    <<"bcond", \h5400, \h5400, 0, {"imm19", "bcond"}>>,
    <<"cbz", \hB400, \h3400, 0, {"d", "imm19"}>>,
    <<"cbnz", \hB500, \h3500, 0, {"d", "imm19"}>>,
    <<"ret", \hD65F, \hD65F, 0, {"n"}>>,
    <<"blr", \hD63F, \hD63F, 0, {"n"}>>,
    <<"br", \hD61F, \hD61F, 0, {"n"}>>}

Uoff == {"d", "n", "imm12"}

UoffRows == {
    <<"ldr_uoff", \hF940, \hB940, 0, Uoff>>,
    <<"str_uoff", \hF900, \hB900, 0, Uoff>>,
    <<"ldrb_uoff", \h3940, \h3940, 0, Uoff>>,
    <<"strb_uoff", \h3900, \h3900, 0, Uoff>>,
    <<"ldrh_uoff", \h7940, \h7940, 0, Uoff>>,
    <<"strh_uoff", \h7900, \h7900, 0, Uoff>>,
    <<"ldrsw_uoff", \hB980, \hB980, 0, Uoff>>,
    <<"ldrsb64_uoff", \h3980, \h3980, 0, Uoff>>,
    <<"ldrsb32_uoff", \h39C0, \h39C0, 0, Uoff>>,
    <<"ldrsh64_uoff", \h7980, \h7980, 0, Uoff>>,
    <<"ldrsh32_uoff", \h79C0, \h79C0, 0, Uoff>>}

Simm9 == {"d", "n", "imm9"}

IndexRows == {
    <<"ldr_pre", \hF840, \hB840, \h0C00, Simm9>>,
    <<"str_pre", \hF800, \hB800, \h0C00, Simm9>>,
    <<"ldr_post", \hF840, \hB840, \h0400, Simm9>>,
    <<"str_post", \hF800, \hB800, \h0400, Simm9>>}

UnscaledRows == {
    <<"stur", \hF800, \hB800, 0, Simm9>>,
    <<"ldur", \hF840, \hB840, 0, Simm9>>,
    <<"stur_fp", \hFC00, \hBC00, 0, Simm9>>,
    <<"ldur_fp", \hFC40, \hBC40, 0, Simm9>>,
    <<"sturb", \h3800, \h3800, 0, Simm9>>,
    <<"ldurb", \h3840, \h3840, 0, Simm9>>,
    <<"sturh", \h7800, \h7800, 0, Simm9>>,
    <<"ldurh", \h7840, \h7840, 0, Simm9>>,
    <<"ldursw", \hB880, \hB880, 0, Simm9>>,
    <<"ldursb64", \h3880, \h3880, 0, Simm9>>,
    <<"ldursb32", \h38C0, \h38C0, 0, Simm9>>,
    <<"ldursh64", \h7880, \h7880, 0, Simm9>>,
    <<"ldursh32", \h78C0, \h78C0, 0, Simm9>>}

\* The second register of a pair is in the field "a".
Pair == {"d", "a", "n", "imm7"}

PairRows == {
    <<"stp_pre", \hA980, \h2980, 0, Pair>>,
    <<"ldp_post", \hA8C0, \h28C0, 0, Pair>>,
    <<"stp_off", \hA900, \h2900, 0, Pair>>,
    <<"ldp_off", \hA940, \h2940, 0, Pair>>,
    <<"stp_post", \hA880, \h2880, 0, Pair>>,
    <<"ldp_pre", \hA9C0, \h29C0, 0, Pair>>}

DataRows == {
    <<"ldr_literal", \h5800, \h1800, 0, {"d", "imm19"}>>,
    <<"mul", \h9B00, \h1B00, \h7C00, DNM>>,
    <<"sdiv", \h9AC0, \h1AC0, \h0C00, DNM>>,
    <<"udiv", \h9AC0, \h1AC0, \h0800, DNM>>,
    <<"msub", \h9B00, \h1B00, \h8000, DNM \cup {"a"}>>,
    <<"madd", \h9B00, \h1B00, 0, DNM \cup {"a"}>>,
    <<"negs", \hEB00, \h6B00, \h03E0, {"d", "m"}>>,
    <<"subs_reg", \hEB00, \h6B00, 0, DNM>>,
    <<"subs_imm", \hF100, \h7100, 0, {"d", "n", "imm12", "sh"}>>,
    <<"adds_reg", \hAB00, \h2B00, 0, DNM>>,
    <<"adds_imm", \hB100, \h3100, 0, {"d", "n", "imm12", "sh"}>>,
    <<"and_reg", \h8A00, \h0A00, 0, DNM>>,
    <<"orr_reg", \hAA00, \h2A00, 0, DNM>>,
    <<"eor_reg", \hCA00, \h4A00, 0, DNM>>,
    <<"mvn", \hAA20, \h2A20, \h03E0, {"d", "m"}>>,
    <<"bic", \h8A20, \h0A20, 0, DNM>>,
    <<"ands_reg", \hEA00, \h6A00, 0, DNM>>}

Logical == {"d", "n", "N", "immr", "imms"}

Bitfield == {"d", "n", "immr", "imms"}

LogicRows == {
    <<"and_imm", \h9200, \h1200, 0, Logical>>,
    <<"orr_imm", \hB200, \h3200, 0, Logical>>,
    <<"eor_imm", \hD200, \h5200, 0, Logical>>,
    <<"ands_imm", \hF200, \h7200, 0, Logical>>,
    <<"lsl_reg", \h9AC0, \h1AC0, \h2000, DNM>>,
    <<"lsr_reg", \h9AC0, \h1AC0, \h2400, DNM>>,
    <<"asr_reg", \h9AC0, \h1AC0, \h2800, DNM>>,
    <<"lsl_imm", \hD340, \h5300, 0, Bitfield>>,
    <<"lsr_imm", \hD340, \h5300, 0, Bitfield>>,
    <<"asr_imm", \h9340, \h1300, 0, Bitfield>>}

CondRows == {
    <<"cset", \h9A9F, \h1A9F, \h07E0, {"d", "cond"}>>,
    <<"csetm", \hDA9F, \h5A9F, \h03E0, {"d", "cond"}>>,
    <<"csinc", \h9A80, \h1A80, \h0400, DNM \cup {"cond"}>>,
    <<"csel", \h9A80, \h1A80, 0, DNM \cup {"cond"}>>,
    <<"csinv", \hDA80, \h5A80, 0, DNM \cup {"cond"}>>,
    <<"csneg", \hDA80, \h5A80, \h0400, DNM \cup {"cond"}>>}

ExtendRows == {
    <<"sxtb", \h9340, \h9340, \h1C00, {"d", "n"}>>,
    <<"sxth", \h9340, \h9340, \h3C00, {"d", "n"}>>,
    <<"sxtw", \h9340, \h9340, \h7C00, {"d", "n"}>>,
    <<"uxtb", \h5300, \h5300, \h1C00, {"d", "n"}>>,
    <<"uxth", \h5300, \h5300, \h3C00, {"d", "n"}>>,
    <<"adrp", \h9000, \h9000, 0, {"d", "immlo", "immhi"}>>,
    <<"adr", \h1000, \h1000, 0, {"d", "immlo", "immhi"}>>,
    <<"nop", \hD503, \hD503, \h201F, {}>>}

\* The suffix of a conversion is the width of its floating-point side.
FloatRows == {
    <<"fmov", \h9E67, \h1E27, 0, {"d", "n"}>>,
    <<"fadd", \h1E60, \h1E20, \h2800, DNM>>,
    <<"fsub", \h1E60, \h1E20, \h3800, DNM>>,
    <<"fmul", \h1E60, \h1E20, \h0800, DNM>>,
    <<"fdiv", \h1E60, \h1E20, \h1800, DNM>>,
    <<"fneg", \h1E61, \h1E21, \h4000, {"d", "n"}>>,
    <<"fcmp_reg", \h1E60, \h1E20, \h2000, {"n", "m"}>>,
    <<"fcmp_zero", \h1E60, \h1E20, \h2008, {"n"}>>,
    <<"scvtf_d", \h9E62, \h1E62, 0, {"d", "n"}>>,
    <<"scvtf_s", \h9E22, \h1E22, 0, {"d", "n"}>>,
    <<"ucvtf_d", \h9E63, \h1E63, 0, {"d", "n"}>>,
    <<"ucvtf_s", \h9E23, \h1E23, 0, {"d", "n"}>>,
    <<"fcvtzs_d", \h9E78, \h1E78, 0, {"d", "n"}>>,
    <<"fcvtzs_s", \h9E38, \h1E38, 0, {"d", "n"}>>,
    <<"fcvtzu_d", \h9E79, \h1E79, 0, {"d", "n"}>>,
    <<"fcvtzu_s", \h9E39, \h1E39, 0, {"d", "n"}>>,
    <<"fcvt_d_s", \h1E22, \h1E22, \hC000, {"d", "n"}>>,
    <<"fcvt_s_d", \h1E62, \h1E62, \h4000, {"d", "n"}>>}

FloatMemRows == {
    <<"ldr_fp_uoff", \hFD40, \hBD40, 0, Uoff>>,
    <<"str_fp_uoff", \hFD00, \hBD00, 0, Uoff>>,
    <<"ldr_fp_pre", \hFC40, \hBC40, \h0C00, Simm9>>,
    <<"str_fp_pre", \hFC00, \hBC00, \h0C00, Simm9>>,
    <<"ldr_fp_post", \hFC40, \hBC40, \h0400, Simm9>>,
    <<"str_fp_post", \hFC00, \hBC00, \h0400, Simm9>>}

SystemRows == {
    <<"svc", \hD400, \hD400, 1, {"imm16"}>>,
    <<"hvc", \hD400, \hD400, 2, {"imm16"}>>,
    <<"isb", \hD503, \hD503, \h3FDF, {}>>,
    <<"dsb_sy", \hD503, \hD503, \h3F9F, {}>>,
    <<"tlbi_vmalle1", \hD508, \hD508, \h871F, {}>>,
    <<"tlbi_vaae1is", \hD508, \hD508, \h8320, {"d"}>>,
    <<"eret", \hD69F, \hD69F, \h03E0, {}>>,
    <<"wfe", \hD503, \hD503, \h205F, {}>>,
    <<"wfi", \hD503, \hD503, \h207F, {}>>,
    <<"msr", \hD510, \hD510, 0, {"d", "sysreg"}>>,
    <<"mrs", \hD530, \hD530, 0, {"d", "sysreg"}>>,
    <<"msr_pstate", \hD500, \hD500, \h401F, {"op1", "imm4", "op2"}>>}

\* The system registers: the number the table holds, and the five numbers
\* op0, op1, CRn, CRm, op2 by which the architecture names the register.
sysregs == [
    sctlr_el1 |-> <<\h4080, <<3, 0, 1, 0, 0>>>>,
    mair_el1 |-> <<\h4510, <<3, 0, 10, 2, 0>>>>,
    tcr_el1 |-> <<\h4102, <<3, 0, 2, 0, 2>>>>,
    ttbr0_el1 |-> <<\h4100, <<3, 0, 2, 0, 0>>>>,
    ttbr1_el1 |-> <<\h4101, <<3, 0, 2, 0, 1>>>>,
    vbar_el1 |-> <<\h4600, <<3, 0, 12, 0, 0>>>>,
    cpacr_el1 |-> <<\h4082, <<3, 0, 1, 0, 2>>>>,
    sp_el0 |-> <<\h4208, <<3, 0, 4, 1, 0>>>>,
    elr_el1 |-> <<\h4201, <<3, 0, 4, 0, 1>>>>,
    spsr_el1 |-> <<\h4200, <<3, 0, 4, 0, 0>>>>,
    esr_el1 |-> <<\h4290, <<3, 0, 5, 2, 0>>>>,
    far_el1 |-> <<\h4300, <<3, 0, 6, 0, 0>>>>,
    daif |-> <<\h5A11, <<3, 3, 4, 2, 1>>>>,
    cntfrq_el0 |-> <<\h5F00, <<3, 3, 14, 0, 0>>>>,
    cntp_tval_el0 |-> <<\h5F10, <<3, 3, 14, 2, 0>>>>,
    cntp_ctl_el0 |-> <<\h5F11, <<3, 3, 14, 2, 1>>>>]

Rows == UNION {ArithRows, BranchRows, UoffRows, IndexRows, UnscaledRows, PairRows, DataRows,
               LogicRows, CondRows, ExtendRows, FloatRows, FloatMemRows,
               SystemRows}

Row(name) == CHOOSE entry \in Rows : entry[1] = name

Base(entry, sf) == At(IF sf = 1 THEN entry[2] ELSE entry[3], 16) \cup Bits(entry[4])

(***************************************************************************)
(* Immediates: the field, or -1 when the value does not fit.               *)
(***************************************************************************)

\* The 12 bits and the shift by 12; a shifted field is what add and sub use.
encode_imm12(val) ==
    CASE val < 0 -> <<-1, 0>>
      [] val \in 0..4095 -> <<val, 0>>
      [] val > 4095 /\ val % 4096 = 0 /\ val \div 4096 <= 4095 ->
            <<val \div 4096, 1>>
      [] OTHER -> <<-1, 0>>

\* The mutant accepts one value too many.
Imm9Wide(val) == IF val < -256 \/ val > 256 THEN -1 ELSE val % 512

encode_imm9(val) == IF val < -256 \/ val > 255 THEN -1 ELSE val % 512

encode_imm7(val, scale) ==
    LET imm == val \div 2^scale
    IN  IF val % 2^scale # 0 \/ imm < -64 \/ imm > 63 THEN -1 ELSE imm % 128

encode_imm12_unsigned(val, scale) ==
    IF val < 0 \/ val % 2^scale # 0 \/ val \div 2^scale > 4095 THEN -1
    ELSE val \div 2^scale

AdrOffset(val) == IF val < -(2^20) \/ val >= 2^20 THEN -1 ELSE val % 2^21

encode_branch26(offset) ==
    LET imm == offset \div 4
    IN  IF offset % 4 # 0 \/ imm < -(2^25) \/ imm >= 2^25 THEN -1
        ELSE imm % 2^26

encode_branch19(offset) ==
    LET imm == offset \div 4
    IN  IF offset % 4 # 0 \/ imm < -(2^18) \/ imm >= 2^18 THEN -1
        ELSE imm % 2^19

\* The condition codes by name; hs and lo are cs and cc.
encode_cond == [eq |-> 0, ne |-> 1, cs |-> 2, hs |-> 2, cc |-> 3, lo |-> 3, mi |-> 4,
                pl |-> 5, vs |-> 6, vc |-> 7, hi |-> 8, ls |-> 9, ge |-> 10, lt |-> 11,
                gt |-> 12, le |-> 13, al |-> 14]

\* Conditions come in pairs that differ in the lowest bit.
invert_cond(cond) == IF cond % 2 = 0 THEN cond + 1 ELSE cond - 1

\* The largest power of two an unsigned offset is divided by.
Scale(name, sf) ==
    CASE name \in {"ldr_uoff", "str_uoff", "ldr_fp_uoff", "str_fp_uoff"} -> 2 + sf
      [] name = "ldrsw_uoff" -> 2
      [] name \in {"ldrh_uoff", "strh_uoff", "ldrsh64_uoff", "ldrsh32_uoff"} -> 1
      [] OTHER -> 0

\* The immediate fields of a row for a value; -1 marks a refused value.
Immediate(name, sf, v) ==
    LET f == Row(name)[5]
    IN  CASE "sh" \in f -> LET e == encode_imm12(v)
                           IN  [imm12 |-> e[1], sh |-> e[2]]
          [] "imm12" \in f /\ "sh" \notin f ->
                [imm12 |-> encode_imm12_unsigned(v, Scale(name, sf))]
          [] "imm9" \in f -> [imm9 |-> encode_imm9(v)]
          [] "imm7" \in f -> [imm7 |-> encode_imm7(v, 2 + sf)]
          [] "imm26" \in f -> [imm26 |-> encode_branch26(v)]
          [] "imm19" \in f -> [imm19 |-> encode_branch19(v)]
          [] "immhi" \in f ->
                LET e == AdrOffset(v)
                IN  IF e = -1 THEN [immlo |-> -1]
                    ELSE [immlo |-> e % 4, immhi |-> e \div 4]
          [] "imm16" \in f -> [imm16 |-> v % 2^16]
          [] OTHER -> [f0 \in {} |-> 0]

(***************************************************************************)
(* Logical immediates.  A value is the set of its bits among 0..63.        *)
(***************************************************************************)

Smallest(S) == CHOOSE x \in S : \A y \in S : x <= y

\* The value repeats with period size.
Repeats(val, size) == \A b \in 0..63 : (b \in val) <=> ((b % size) \in val)

\* The fields n, immr and imms of a value, or n = -1 when it is refused.  The
\* search of the period stops below the operand's width, and a 32-bit operand
\* with no shorter period is then treated as one 64-bit element.
encode_logical_imm(sf, val32) ==
    LET width == IF sf = 1 THEN 64 ELSE 32
        val == IF sf = 1 THEN val32 ELSE val32 \cup {b + 32 : b \in val32}
        short == {s \in {2, 4, 8, 16, 32} : s < width /\ Repeats(val, s)}
        size == IF short # {} THEN Smallest(short) ELSE 64
        elem == val \cap (0..(size - 1))
        rotation == Smallest(elem)
        rotated == {b - rotation : b \in elem}
        ones == Smallest((0..64) \ rotated)
        sizeBits == CASE size = 2 -> 60 [] size = 4 -> 56 [] size = 8 -> 48
                      [] size = 16 -> 32 [] OTHER -> 0
    IN  IF val = {} \/ val = 0..63 THEN [N |-> -1]
        ELSE IF rotated # 0..(ones - 1) \/ ones = size THEN [N |-> -1]
        ELSE [N |-> IF size = 64 THEN 1 ELSE 0,
              immr |-> (size - rotation) % size, imms |-> sizeBits + (ones - 1)]

(***************************************************************************)
(* Emitting a word.                                                        *)
(***************************************************************************)

Over(f, g) == [x \in DOMAIN f \cup DOMAIN g |-> IF x \in DOMAIN f THEN f[x] ELSE g[x]]

\* The word of an encoder: its base, or-ed with its fields.
Word(name, sf, val) ==
    Base(Row(name), sf)
        \cup UNION {At(val[f], Field[f][1]) : f \in Row(name)[5]}

\* The encoder's result: one word, or none after error().
Emit(name, sf, r, imm) ==
    IF \E f \in DOMAIN imm : imm[f] = -1 THEN <<>>
    ELSE <<Word(name, sf, Over(imm, r))>>

Encode(name, sf, r, v) == Emit(name, sf, r, Immediate(name, sf, v))

(***************************************************************************)
(* Aliases: encoders written as calls of other encoders.                   *)
(***************************************************************************)

neg(sf, r) == Encode("sub_reg", sf, [r EXCEPT !.n = 31], 0)

\* tst, cmp and cmn discard the result.
Discard(r) == [r EXCEPT !.d = 31]

\* A shift is not checked; one that is too long runs into the bits beside its field.
lsl_imm(sf, r, shift) ==
    LET width == 32 + 32 * sf
    IN  <<Word("lsl_imm", sf, Over([immr |-> (-shift) % width, imms |-> width - 1 - shift], r))>>

lsr_imm(name, sf, r, shift) ==
    Emit(name, sf, r, [immr |-> shift, imms |-> 31 + 32 * sf])

cinc(sf, r, cond) ==
    Emit("csinc", sf, [r EXCEPT !.m = r.n], [cond |-> invert_cond(cond)])

(***************************************************************************)
(* handle_instruction: what each mnemonic emits.                           *)
(***************************************************************************)

\* An immediate of add, sub, adds or subs: a negative one swaps the operation.
AddSub(mn, sf, r, v) ==
    LET other == [add |-> "sub_imm", sub |-> "add_imm", adds |-> "subs_imm",
                  subs |-> "adds_imm"][mn]
    IN  IF v < 0 THEN Encode(other, sf, r, -v) ELSE Encode(mn \o "_imm", sf, r, v)

LogicalImm(name, sf, r, val) == Emit(name, sf, r, encode_logical_imm(sf, val))

MoveWide(name, sf, r, imm, hw) == Emit(name, sf, r, [imm16 |-> imm % 2^16, hw |-> hw])

\* mov of a number: c is the value as four 16-bit parts, lowest first; the sign
\* is that of the token, which for a symbol is never negative.  One part that
\* holds the value alone, then a short negative number, then a sequence.
MoveNumber(sf, r, c, symbol) ==
    LET alone(i) == \A j \in (1..4) \ {i} : c[j] = 0
        short == ~symbol /\ \A j \in 2..4 : c[j] = 65535
        rest == SelectSeq(<<2, 3, 4>>, LAMBDA j : c[j] # 0)
        keep == [k \in 1..Len(rest) |->
                    MoveWide("movk", sf, r, c[rest[k]], rest[k] - 1)[1]]
    IN  CASE \E i \in 1..4 : alone(i) ->
                LET i == Smallest({j \in 1..4 : alone(j)})
                IN  MoveWide("movz", sf, r, c[i], i - 1)
          [] short /\ ~\E i \in 1..4 : alone(i) ->
                MoveWide("movn", sf, r, 65535 - c[1], 0)
          [] OTHER -> MoveWide("movz", sf, r, c[1], 0) \o keep

\* Loads and stores of a whole register: the addressing mode picks the encoder.
LoadStore(mn, fp, mode, sf, r, v) ==
    LET name == mn \o (IF fp THEN "_fp" ELSE "")
                   \o (CASE mode \in {"base", "off"} -> "_uoff"
                         [] mode = "pre" -> "_pre" [] mode = "post" -> "_post")
    IN  Encode(name, sf, r, IF mode = "base" THEN 0 ELSE v)

\* Bytes, halfwords and signed loads stop reading at the closing bracket: what
\* follows it is dropped.
LoadPart(mn, mode, sf, r, v) ==
    LET wide == IF mn \in {"ldrsb", "ldrsh"} THEN (IF sf = 1 THEN "64" ELSE "32") ELSE ""
    IN  Encode(mn \o wide \o "_uoff", sf, r, IF mode \in {"base", "post"} THEN 0 ELSE v)

Unscaled(mn, fp, mode, sf, r, v) ==
    LET suffix == IF fp THEN "_fp"
                  ELSE IF mn \in {"ldursb", "ldursh"} THEN (IF sf = 1 THEN "64" ELSE "32")
                  ELSE ""
    IN  Encode(mn \o suffix, sf, r, IF mode \in {"base", "post"} THEN 0 ELSE v)

LoadPair(mn, mode, sf, r, v) ==
    Encode(mn \o (CASE mode \in {"base", "off"} -> "_off" [] mode = "pre" -> "_pre"
                    [] mode = "post" -> "_post"),
           sf, r, IF mode = "base" THEN 0 ELSE v)

=============================================================================
