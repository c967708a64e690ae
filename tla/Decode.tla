------------------------------- MODULE Decode -------------------------------
(***************************************************************************)
(* What the words of the assembler mean to the machine: the reference that *)
(* module Encode holds the encoders of module Insn against.                *)
(***************************************************************************)
EXTENDS Insn

(***************************************************************************)
(* Reading a word back.  An instruction of the machine is one of the       *)
(* encoders that are no alias; its meaning is a record of its name, its    *)
(* width, its registers and its value.                                     *)
(***************************************************************************)

AliasRows == {"mov_reg", "mul", "negs", "cset", "csetm", "lsl_imm",
              "sxtb", "sxth", "sxtw", "uxtb", "uxth"}

MachineRows == {entry \in Rows : entry[1] \notin AliasRows}

\* The bits that no field of a row covers.
Opcode(entry) ==
    (0..31) \ UNION {Field[f][1]..(Field[f][1] + Field[f][2] - 1) : f \in entry[5]}

\* Every machine instruction: its row, its width, its fixed bits, their values.
Forms ==
    {<<entry, sf, Opcode(entry), Base(entry, sf)>> : entry \in MachineRows, sf \in {1}}
    \cup {<<entry, sf, Opcode(entry), Base(entry, sf)>> :
            entry \in {w \in MachineRows : w[2] # w[3]}, sf \in {0}}

FieldOf(word, f) ==
    ValueOf({b - Field[f][1] : b \in word \cap (Field[f][1]..(Field[f][1] + Field[f][2] - 1))})

Signed(x, width) == IF x < 2^(width - 1) THEN x ELSE x - 2^width

\* The element that immr and imms describe, repeated over 64 bits.
BitMask(N, immr, imms) ==
    LET top == 64 * N + (63 - imms)
        len == CHOOSE l \in 0..6 : 2^l <= top /\ top < 2^(l + 1)
        esize == 2^len
        s == imms % esize
        elem == {(i - immr) % esize : i \in 0..s}
    IN  {b \in 0..63 : (b % esize) \in elem}

\* The value a word carries besides its registers.
ReadValue(word, entry, sf) ==
    LET f == entry[5]
        F(name) == FieldOf(word, name)
        width == 32 + 32 * sf
    IN  CASE "sh" \in f -> F("imm12") * 4096^F("sh")
          [] "imm12" \in f /\ "sh" \notin f -> F("imm12") * 2^Scale(entry[1], sf)
          [] "imm9" \in f -> Signed(F("imm9"), 9)
          [] "imm7" \in f -> Signed(F("imm7"), 7) * 2^(2 + sf)
          [] "imm26" \in f -> Signed(F("imm26"), 26) * 4
          [] "bcond" \in f -> <<F("bcond"), Signed(F("imm19"), 19) * 4>>
          [] "imm19" \in f /\ "bcond" \notin f -> Signed(F("imm19"), 19) * 4
          [] "immhi" \in f -> Signed(4 * F("immhi") + F("immlo"), 21)
          [] "hw" \in f -> <<F("imm16"), F("hw")>>
          [] "imm16" \in f /\ "hw" \notin f -> F("imm16")
          [] "N" \in f ->
                BitMask(F("N"), F("immr"), F("imms")) \cap (0..(width - 1))
          [] "immr" \in f /\ "N" \notin f ->
                IF F("imms") = width - 1 THEN <<"right", F("immr")>>
                ELSE IF (F("imms") + 1) % width = F("immr") THEN <<"left", width - F("immr")>>
                ELSE <<"extend", F("immr"), F("imms") + 1>>
          [] "cond" \in f -> F("cond")
          [] "sysreg" \in f ->
                <<2 + (F("sysreg") \div 2^14), (F("sysreg") \div 2^11) % 8,
                  (F("sysreg") \div 2^7) % 16, (F("sysreg") \div 8) % 16, F("sysreg") % 8>>
          [] "op1" \in f -> <<F("op1"), F("op2"), F("imm4")>>
          [] OTHER -> 0

Meaning(entry, sf, regs, v) ==
    [op |-> entry[1], sf |-> IF entry[2] = entry[3] THEN 1 ELSE sf,
     regs |-> [f \in entry[5] \cap RegFields |-> regs[f]], v |-> v]

\* Every reading of a word; there must be exactly one.
Readings(word) ==
    {Meaning(form[1], form[2], [f \in RegFields |-> FieldOf(word, f)],
             ReadValue(word, form[1], form[2])) :
        form \in {g \in Forms : word \cap g[3] = g[4]}}

(***************************************************************************)
(* What the programmer asked for, as a machine instruction.                *)
(***************************************************************************)

Asked(i) ==
    LET M(op, r, v) == Meaning(Row(op), i.sf, r, v)
        r == i.r
        v == i.v
        Opposite == [add |-> "sub_imm", sub |-> "add_imm", adds |-> "subs_imm",
                     subs |-> "adds_imm"]
        flipped == IF v % 2 = 0 THEN v + 1 ELSE v - 1
        At31(f) == [r EXCEPT ![f] = 31]
        index == IF i.mode \in {"base", "off"} THEN "_uoff" ELSE "_" \o i.mode
        offset == IF i.mode = "base" THEN 0 ELSE v
        size == IF i.sf = 1 THEN "64" ELSE "32"
        fp == IF i.fp THEN "_fp" ELSE ""
    IN  CASE i.mn \in {"add", "sub", "adds", "subs"} ->
                IF v < 0 THEN M(Opposite[i.mn], r, -v) ELSE M(i.mn \o "_imm", r, v)
          [] i.mn = "cmp" -> M("subs_imm", At31("d"), v)
          [] i.mn = "cmn" -> M("adds_imm", At31("d"), v)
          [] i.mn = "cmp_reg" -> M("subs_reg", At31("d"), v)
          [] i.mn = "cmn_reg" -> M("adds_reg", At31("d"), v)
          [] i.mn = "tst_reg" -> M("ands_reg", At31("d"), v)
          [] i.mn = "tst" -> M("ands_imm", At31("d"), v)
          [] i.mn \in {"and", "orr", "eor", "ands"} -> M(i.mn \o "_imm", r, v)
          [] i.mn = "neg" -> M("sub_reg", At31("n"), 0)
          [] i.mn = "negs" -> M("subs_reg", At31("n"), 0)
          [] i.mn = "mul" -> M("madd", At31("a"), 0)
          [] i.mn = "mov_reg" -> M("orr_reg", At31("n"), 0)
          [] i.mn = "mov_from_sp" -> M("add_imm", At31("n"), 0)
          [] i.mn = "mov_to_sp" -> M("add_imm", [At31("d") EXCEPT !.n = r.m], 0)
          [] i.mn = "cset" -> M("csinc", [At31("n") EXCEPT !.m = 31], flipped)
          [] i.mn = "csetm" -> M("csinv", [At31("n") EXCEPT !.m = 31], flipped)
          [] i.mn = "cinc" -> M("csinc", [r EXCEPT !.m = r.n], flipped)
          [] i.mn = "lsl" -> M("lsr_imm", r, IF v = 0 THEN <<"right", 0>> ELSE <<"left", v>>)
          [] i.mn = "lsr" -> M("lsr_imm", r, <<"right", v>>)
          [] i.mn = "asr" -> M("asr_imm", r, <<"right", v>>)
          [] i.mn \in {"sxtb", "sxth", "sxtw"} ->
                M("asr_imm", r, <<"extend", 0, [sxtb |-> 8, sxth |-> 16, sxtw |-> 32][i.mn]>>)
          [] i.mn \in {"uxtb", "uxth"} ->
                M("lsr_imm", r, <<"extend", 0, [uxtb |-> 8, uxth |-> 16][i.mn]>>)
          [] i.mn \in {"msr", "mrs"} -> M(i.mn, r, sysregs[v][2])
          [] i.mn = "daifset" -> M("msr_pstate", r, <<3, 6, v>>)
          [] i.mn = "daifclr" -> M("msr_pstate", r, <<3, 7, v>>)
          [] i.mn = "spsel" -> M("msr_pstate", r, <<0, 5, v>>)
          [] i.mn = "bcond" -> M("bcond", r, <<r.d, v>>)
          [] i.mn \in {"ldr", "str"} -> M(i.mn \o fp \o index, r, offset)
          [] i.mn \in {"ldrb", "strb", "ldrh", "strh", "ldrsw"} -> M(i.mn \o "_uoff", r, offset)
          [] i.mn \in {"ldrsb", "ldrsh"} -> M(i.mn \o size \o "_uoff", r, offset)
          [] i.mn \in {"ldursb", "ldursh"} -> M(i.mn \o size, r, offset)
          [] i.mn \in {"stp", "ldp"} ->
                M(i.mn \o (IF index = "_uoff" THEN "_off" ELSE index), r, offset)
          [] i.mn \in {"stur", "ldur"} -> M(i.mn \o fp, r, offset)
          [] i.mode # "none" /\ i.mn \in {"sturb", "ldurb", "sturh", "ldurh", "ldursw"} ->
                M(i.mn, r, offset)
          [] OTHER -> M(i.mn, r, v)

\* The value is one that some setting of the instruction's fields stands for.
Fits(asked) ==
    LET f == Row(asked.op)[5]
        v == asked.v
        scaled(unit, low, high) == v % unit = 0 /\ v \div unit \in low..high
    IN  CASE "sh" \in f -> scaled(1, 0, 4095) \/ scaled(4096, 0, 4095)
          [] "imm12" \in f /\ "sh" \notin f -> scaled(2^Scale(asked.op, asked.sf), 0, 4095)
          [] "imm9" \in f -> scaled(1, -256, 255)
          [] "imm7" \in f -> scaled(2^(2 + asked.sf), -64, 63)
          [] "imm26" \in f -> scaled(4, -(2^25), 2^25 - 1)
          [] "bcond" \in f -> v[2] % 4 = 0 /\ v[2] \div 4 \in -(2^18)..(2^18 - 1)
          [] "imm19" \in f /\ "bcond" \notin f -> scaled(4, -(2^18), 2^18 - 1)
          [] "immhi" \in f -> scaled(1, -(2^20), 2^20 - 1)
          [] "hw" \in f -> v[1] \in 0..65535 /\ v[2] \in 0..(1 + 2 * asked.sf)
          [] "imm16" \in f /\ "hw" \notin f -> v \in 0..65535
          [] "op1" \in f -> v[3] \in 0..15
          [] "immr" \in f /\ "N" \notin f -> v[1] = "extend" \/ v[2] \in 0..(31 + 32 * asked.sf)
          [] OTHER -> TRUE

\* What is left of it in the fields of 16 and of 4 bits, which the code cuts to their width.
Cut(asked) ==
    LET f == Row(asked.op)[5]
    IN  CASE "hw" \in f -> [asked EXCEPT !.v = <<@[1] % 65536, @[2]>>]
          [] "imm16" \in f /\ "hw" \notin f -> [asked EXCEPT !.v = @ % 65536]
          [] "op1" \in f -> [asked EXCEPT !.v = <<@[1], @[2], @[3] % 16>>]
          [] OTHER -> asked

\* sxtb and sxth extend to 64 bits, also where a w register is asked for, whose upper half
\* is then not 0: a known gap of the parser.
Widened(i) == IF i.mn \in {"sxtb", "sxth"} THEN [i EXCEPT !.sf = 1] ELSE i

\* Byte, halfword, signed and unscaled accesses have no indexed form here, and
\* the writeback a program asks for is dropped: a known gap of the parser.
IndexDropped(i) ==
    i.mode \in {"pre", "post"} /\ i.mn \notin {"ldr", "str", "ldp", "stp"}

\* The register after a sequence of movz, movk and movn, as four parts.
After(words, sf) ==
    LET step(part, reading) ==
            LET k == reading.v[2] + 1
            IN  CASE reading.op = "movz" -> [j \in 1..4 |-> IF j = k THEN reading.v[1] ELSE 0]
                  [] reading.op = "movk" -> [part EXCEPT ![k] = reading.v[1]]
                  [] reading.op = "movn" -> [j \in 1..4 |->
                        IF j > 2 + 2 * sf THEN 0
                        ELSE IF j = k THEN 65535 - reading.v[1] ELSE 65535]
        run[k \in 0..Len(words)] ==
            IF k = 0 THEN [j \in 1..4 |-> 0]
            ELSE step(run[k - 1], CHOOSE m \in Readings(words[k]) : TRUE)
    IN  run[Len(words)]

=============================================================================
