------------------------------- MODULE Stdio -------------------------------
(***************************************************************************)
(* The streams and the formatted output of libc/stdio_file.c, over one     *)
(* file and one descriptor of the kernel.                                  *)
(*                                                                         *)
(* The program keeps C's rule for streams that read and write: it calls    *)
(* fseek between reading and writing, and fseek or fflush between writing  *)
(* and reading; and it does not seek past the end of the file, where the   *)
(* kernel does not write.  It may write on after a failed write: fputc     *)
(* then runs past the end of a full buffer, and what comes after that is   *)
(* not in the model.  The kernel's write takes all or fails: that fflush   *)
(* does not notice a write that takes a part is not in the model either.   *)
(***************************************************************************)
EXTENDS Integers, Sequences, FiniteSetsExt, SequencesExt

CONSTANTS
  BUFSIZ,   \* size of a buffer
  MEMSIZ,   \* first size of the buffer of open_memstream
  Content,  \* what the file holds at first
  Chunks,   \* what the program writes at once
  Counts,   \* how much it reads at once
  Formats,  \* conversions with their arguments
  MaxOps    \* bound: how many calls are made

NL  == 10   \* '\n'
EOF == -1

VARIABLES
  file,     \* the file: its data, the offset of the descriptor, broken: writes fail
  stream,   \* the FILE, with kind "none" when it is closed
  text, pos,\* what the program has made of the file, and where it is in it
  turn,     \* "get" or "put": what the last call did; "any" after a seek
  answer,   \* what the last call returned, and what it should return
  ops       \* how many calls have been made

vars == <<file, stream, text, pos, turn, answer, ops>>

Modes == {"r", "r+", "w", "w+", "a", "a+"}

Closed == [kind |-> "none", read |-> FALSE, write |-> FALSE, append |-> FALSE, unbuf |-> FALSE,
           line |-> FALSE, rbuf |-> <<>>, wbuf |-> <<>>, wsize |-> 0, eof |-> FALSE, error |-> FALSE]

Init ==
  /\ file = [data |-> Content, off |-> 0, broken |-> FALSE]
  /\ stream = Closed
  /\ text = <<>> /\ pos = 0 /\ turn = "any"
  /\ answer = <<0, 0>>
  /\ ops = 0

-----------------------------------------------------------------------------
(* The kernel's read, write and lseek, as FileBlocks models them. *)

\* bytes over data at offset off.
Over(data, off, bytes) ==
  [k \in 1 .. Max({Len(data), off + Len(bytes)}) |->
     IF k > off /\ k <= off + Len(bytes) THEN bytes[k - off] ELSE data[k]]

sys_write(f, append, bytes) ==
  LET off == IF append THEN Len(f.data) ELSE f.off IN
  [f EXCEPT !.data = Over(f.data, off, bytes), !.off = off + Len(bytes)]

sys_read(f, n) == SubSeq(f.data, f.off + 1, Min({f.off + n, Len(f.data)}))

-----------------------------------------------------------------------------
(* stdio_file.c.  x is [file, stream]; ret is what the function returns. *)

X == [file |-> file, stream |-> stream]

\* What is buffered is written; a stream of memory only publishes it.
fflush(x) ==
  LET s == x.stream IN
  IF ~s.write \/ s.kind = "mem" \/ s.wbuf = <<>> THEN [x |-> x, ret |-> 0]
  ELSE IF x.file.broken THEN [x |-> [x EXCEPT !.stream.error = TRUE], ret |-> EOF]
  ELSE [x |-> [x EXCEPT !.file = sys_write(@, s.append, s.wbuf), !.stream.wbuf = <<>>], ret |-> 0]

\* (mutant: the buffer is flushed when it is past its end)
FullLate(s) == Len(s.wbuf) > s.wsize
Full(s) == Len(s.wbuf) >= s.wsize

fputc(x, c) ==
  LET s == x.stream
      put == [x EXCEPT !.stream.wbuf = Append(@, c),
                       !.stream.wsize = IF s.kind = "mem" /\ Len(s.wbuf) >= @ - 1 THEN 2 * @ ELSE @]
      r == fflush(put)
  IN  IF ~s.write THEN [x |-> x, ret |-> EOF]
      ELSE IF s.unbuf /\ x.file.broken THEN [x |-> [x EXCEPT !.stream.error = TRUE], ret |-> EOF]
      ELSE IF s.unbuf THEN [x |-> [x EXCEPT !.file = sys_write(@, s.append, <<c>>)], ret |-> c]
      ELSE IF s.kind # "mem" /\ (Full(put.stream) \/ (s.line /\ c = NL))
           THEN [x |-> r.x, ret |-> IF r.ret = EOF THEN EOF ELSE c]
      ELSE [x |-> put, ret |-> c]

fgetc(x) ==
  LET s == x.stream
      new == sys_read(x.file, BUFSIZ)
      more == [x EXCEPT !.stream.rbuf = new, !.file.off = @ + Len(new)]
      y == IF s.rbuf = <<>> THEN more ELSE x
  IN  IF ~s.read THEN [x |-> x, ret |-> EOF]
      ELSE IF y.stream.rbuf = <<>> THEN [x |-> [x EXCEPT !.stream.eof = TRUE], ret |-> EOF]
      ELSE [x |-> [y EXCEPT !.stream.rbuf = Tail(@)], ret |-> Head(y.stream.rbuf)]

\* fputs and fwrite: n is the number of characters that were taken.
PutAll(x, cs) ==
  LET Step(r, c) ==
        LET p == fputc(r.x, c) IN
        IF r.stop THEN r
        ELSE [x |-> p.x, n |-> IF p.ret = EOF THEN r.n ELSE r.n + 1, stop |-> p.ret = EOF]
  IN  FoldLeft(Step, [x |-> x, n |-> 0, stop |-> FALSE], cs)

\* fread, and fgets and getline, which stop after a newline.
GetUpTo(x, n, line) ==
  LET Step(r, k) ==
        LET g == fgetc(r.x) IN
        IF r.stop THEN r
        ELSE IF g.ret = EOF THEN [r EXCEPT !.x = g.x, !.stop = TRUE]
        ELSE [x |-> g.x, got |-> Append(r.got, g.ret), stop |-> line /\ g.ret = NL]
  IN  FoldLeft(Step, [x |-> x, got |-> <<>>, stop |-> FALSE], [k \in 1 .. n |-> k])

\* What the program reads is ahead of what it has been given.
Logical(x) == x.file.off - Len(x.stream.rbuf)

\* ret: the new offset, -1 for a negative one.
fseek(x, offset, whence) ==
  LET y == fflush(x).x
      to == offset + (CASE whence = 0 -> 0 [] whence = 1 -> Logical(y) [] whence = 2 -> Len(y.file.data))
      z == [y EXCEPT !.stream.rbuf = <<>>, !.stream.eof = FALSE]
  IN  IF to < 0 THEN [x |-> z, ret |-> -1] ELSE [x |-> [z EXCEPT !.file.off = to], ret |-> 0]

ftell(x) == Logical(x) + Len(x.stream.wbuf)

Opened(mode) ==
  [Closed EXCEPT !.kind = "file", !.read = mode \in {"r", "r+", "w+", "a+"}, !.write = mode # "r",
                 !.append = mode \in {"a", "a+"}, !.wsize = BUFSIZ]

-----------------------------------------------------------------------------
(* The calls of the program *)

\* A byte was written behind the buffer.
Overrun(s) == s.kind # "none" /\ Len(s.wbuf) > s.wsize

Call(kind) == stream.kind \in kind /\ ~Overrun(stream) /\ ops < MaxOps /\ ops' = ops + 1

fopen(mode) ==
  LET data == IF mode \in {"w", "w+"} THEN <<>> ELSE file.data IN
  /\ Call({"none"})
  /\ stream' = Opened(mode)
  /\ file' = [data |-> data, off |-> 0, broken |-> FALSE]
  /\ text' = data /\ pos' = 0 /\ turn' = "any"
  /\ UNCHANGED answer

\* stdout and stderr, on a file that starts empty.
Standard(fd) ==
  /\ Call({"none"})
  /\ stream' = [Opened("w") EXCEPT !.line = fd = 1, !.unbuf = fd = 2]
  /\ file' = [data |-> <<>>, off |-> 0, broken |-> FALSE]
  /\ text' = <<>> /\ pos' = 0 /\ turn' = "any"
  /\ UNCHANGED answer

open_memstream ==
  /\ Call({"none"})
  /\ stream' = [Opened("w") EXCEPT !.kind = "mem", !.wsize = MEMSIZ]
  /\ text' = <<>> /\ pos' = 0 /\ turn' = "any"
  /\ UNCHANGED <<file, answer>>

Write(cs) ==
  LET r == PutAll(X, cs)
      at == IF stream.append THEN Len(text) ELSE pos
  IN
  /\ Call({"file", "mem"}) /\ stream.write /\ turn # "get"
  /\ file' = r.x.file /\ stream' = r.x.stream
  /\ text' = Over(text, at, SubSeq(cs, 1, r.n))
  /\ pos' = at + r.n /\ turn' = "put"
  /\ answer' = <<r.n, IF file.broken THEN r.n ELSE Len(cs)>>

Read(n, line) ==
  LET r == GetUpTo(X, n, line)
      rest == SubSeq(text, pos + 1, Min({pos + n, Len(text)}))
      ends == {k \in DOMAIN rest : rest[k] = NL}
  IN
  /\ Call({"file"}) /\ stream.read /\ turn # "put"
  /\ file' = r.x.file /\ stream' = r.x.stream
  /\ pos' = pos + Len(r.got) /\ turn' = "get"
  /\ answer' = <<r.got, IF line /\ ends # {} THEN SubSeq(rest, 1, Min(ends)) ELSE rest>>
  /\ UNCHANGED text

Seek(offset, whence) ==
  LET r == fseek(X, offset, whence)
      to == offset + (CASE whence = 0 -> 0 [] whence = 1 -> pos [] whence = 2 -> Len(text))
  IN
  /\ Call({"file"}) /\ ~file.broken /\ to <= Len(text)
  /\ file' = r.x.file /\ stream' = r.x.stream
  /\ pos' = IF to < 0 THEN r.x.file.off ELSE to
  /\ turn' = "any"
  /\ answer' = <<r.ret, IF to < 0 THEN -1 ELSE 0>>
  /\ UNCHANGED text

Flush ==
  LET r == fflush(X) IN
  /\ Call({"file", "mem"})
  /\ file' = r.x.file /\ stream' = r.x.stream
  /\ turn' = IF turn = "put" /\ r.ret = 0 THEN "any" ELSE turn
  /\ answer' = <<r.ret, IF file.broken /\ stream.wbuf # <<>> THEN EOF ELSE 0>>
  /\ UNCHANGED <<text, pos>>

\* The answer is what is on the file once it is closed.
fclose ==
  LET r == fflush(X) IN
  /\ Call({"file", "mem"})
  /\ file' = [r.x.file EXCEPT !.broken = FALSE]
  /\ stream' = Closed
  /\ text' = <<>> /\ pos' = 0 /\ turn' = "any"
  /\ answer' = IF stream.kind = "mem" THEN <<r.x.stream.wbuf, text>>
               ELSE <<r.x.file.data, IF file.broken THEN r.x.file.data ELSE text>>

\* From now on writes fail: the other end of a pipe is closed.
Break ==
  /\ Call({"file"}) /\ stream.write /\ ~file.broken
  /\ file' = [file EXCEPT !.broken = TRUE]
  /\ UNCHANGED <<stream, text, pos, turn, answer>>

-----------------------------------------------------------------------------
(* vprintf_core.  A text is a sequence of one-character strings. *)

Rep(c, n) == [k \in 1 .. (IF n > 0 THEN n ELSE 0) |-> c]

DigitOf == <<"0", "1", "2", "3", "4", "5", "6", "7", "8", "9", "a", "b", "c", "d", "e", "f">>

\* format_uint, format_hex, format_octal
RECURSIVE Digits(_, _)
Digits(n, base) ==
  IF n < base THEN <<DigitOf[n + 1]>> ELSE Append(Digits(n \div base, base), DigitOf[(n % base) + 1])

\* A negative width comes from '*': it aligns to the left.
Normal(spec) ==
  LET left == spec.left \/ spec.width < 0 IN
  [spec EXCEPT !.left = left, !.zero = spec.zero /\ ~left, !.width = IF @ < 0 THEN -@ ELSE @]

\* Blanks, prefix, zeroes, digits, blanks.
PadOf(s, prefix, body) == s.width - Len(prefix) - Len(body)

Layout(s, prefix, body) ==
  LET pad == PadOf(s, prefix, body) IN
  Rep(" ", IF s.left \/ s.zero THEN 0 ELSE pad) \o prefix
    \o Rep("0", IF ~s.left /\ s.zero THEN pad ELSE 0) \o body
    \o Rep(" ", IF s.left THEN pad ELSE 0)

\* h and hh cut the argument to 16 and 8 bits; for d with its sign.
Cut(s, val) ==
  LET w == CASE s.length = -1 -> 2 ^ 16 [] s.length = -2 -> 2 ^ 8 [] OTHER -> 0 IN
  IF w = 0 THEN val
  ELSE IF s.conv = "d" /\ val % w >= w \div 2 THEN (val % w) - w ELSE val % w

Convert(spec) ==
  LET s == Normal(spec)
      v == Cut(s, s.val)
      plain == [s EXCEPT !.zero = FALSE]
      sign == IF v < 0 THEN <<"-">> ELSE IF s.plus THEN <<"+">> ELSE IF s.space THEN <<" ">> ELSE <<>>
  IN
  CASE s.conv = "d" -> Layout(s, sign, Digits(IF v < 0 THEN -v ELSE v, 10))
    [] s.conv = "u" -> Layout(s, <<>>, Digits(v, 10))
    [] s.conv = "o" -> Layout(s, IF s.alt /\ v # 0 THEN <<"0">> ELSE <<>>, Digits(v, 8))
    [] s.conv = "x" -> Layout(s, IF s.alt /\ v # 0 THEN <<"0", "x">> ELSE <<>>, Digits(v, 16))
    [] s.conv = "p" -> Layout(plain, <<"0", "x">>, Rep("0", 16 - Len(Digits(v, 16))) \o Digits(v, 16))
    [] s.conv = "s" -> Layout(plain, <<>>, SubSeq(s.str, 1, IF s.prec >= 0 /\ s.prec < Len(s.str)
                                                            THEN s.prec ELSE Len(s.str)))
    [] s.conv = "c" -> Layout(plain, <<>>, <<Head(s.str)>>)
    [] s.conv = "%" -> <<"%">>
    [] OTHER -> <<"%", s.conv>>

\* vsnprintf: what is in the buffer of that size, and the length of the whole.
vsnprintf(spec, size) ==
  LET out == Convert(spec) IN
  [buf |-> SubSeq(out, 1, Min({Len(out), IF size = 0 THEN 0 ELSE size - 1})), ret |-> Len(out)]

-----------------------------------------------------------------------------
(* What the standard says of a conversion. *)

Natural(s) ==
  LET v == Cut(s, s.val) IN
  CASE s.conv = "d" -> (IF v < 0 THEN <<"-">> ELSE IF s.plus THEN <<"+">>
                        ELSE IF s.space THEN <<" ">> ELSE <<>>) \o Digits(IF v < 0 THEN -v ELSE v, 10)
    [] s.conv = "u" -> Digits(v, 10)
    [] s.conv = "o" -> (IF s.alt /\ v # 0 THEN <<"0">> ELSE <<>>) \o Digits(v, 8)
    [] s.conv = "x" -> (IF s.alt /\ v # 0 THEN <<"0", "x">> ELSE <<>>) \o Digits(v, 16)
    [] OTHER -> Convert([s EXCEPT !.width = 0])

\* The field is as wide as asked for, or as what it holds; what it holds is at its left
\* or its right end, and otherwise there are blanks, or zeroes within a number.
FieldRight(s, out) ==
  LET w == IF s.width < 0 THEN -s.width ELSE s.width
      nat == Natural(s)
      n == Len(out) - Len(nat)
      numeric == s.conv \in {"d", "u", "o", "x"}
  IN
  IF s.conv \in {"d", "u", "o", "x", "s", "c"} THEN
    /\ Len(out) = Max({w, Len(nat)})
    /\ IF s.left \/ s.width < 0 THEN out = nat \o Rep(" ", n)
       ELSE IF ~(s.zero /\ numeric) THEN out = Rep(" ", n) \o nat
       ELSE \E k \in 0 .. 2 : k <= Len(nat) /\ out = SubSeq(nat, 1, k) \o Rep("0", n)
                                                  \o SubSeq(nat, k + 1, Len(nat))
  ELSE TRUE

\* snprintf of a conversion, and the answer the standard gives.
snprintf(spec, size) ==
  LET r == vsnprintf(spec, size)
      whole == vsnprintf(spec, 1000)
  IN
  /\ Call({"none"}) /\ ops = 0
  /\ answer' = <<r, [buf |-> IF Len(r.buf) < size \/ size = 0 THEN SubSeq(whole.buf, 1, Len(r.buf)) ELSE <<>>,
                     ret |-> IF FieldRight(spec, whole.buf) THEN Len(whole.buf) ELSE -1]>>
  /\ UNCHANGED <<file, stream, text, pos, turn>>

Next ==
  \/ \E mode \in Modes : fopen(mode)
  \/ \E fd \in {1, 2} : Standard(fd)
  \/ open_memstream
  \/ \E cs \in Chunks : Write(cs)
  \/ \E n \in Counts, line \in BOOLEAN : Read(n, line)
  \/ \E offset \in -1 .. 1, whence \in 0 .. 2 : Seek(offset, whence)
  \/ Flush \/ fclose \/ Break
  \/ \E spec \in Formats, size \in {0, 2, 9} : snprintf(spec, size)

Spec == Init /\ [][Next]_vars

-----------------------------------------------------------------------------
(* Properties *)

\* Through both buffers, in every mode and after any sequence of calls, the program
\* reads what the file holds and what it has written, at the place it has reached;
\* every call returns what it should; and no call leaves a full buffer, behind whose end the
\* next character would go, unless a write has failed.
StreamExact ==
  /\ answer[1] = answer[2]
  /\ stream.kind = "file" /\ ~file.broken =>
       /\ text = sys_write(file, stream.append, stream.wbuf).data
       /\ ~(stream.append /\ stream.wbuf # <<>>) => ftell(X) = pos
  /\ stream.kind = "mem" => stream.wbuf = text /\ Len(stream.wbuf) < stream.wsize
  /\ stream.kind # "none" /\ Len(stream.wbuf) >= stream.wsize => stream.error /\ file.broken
=============================================================================
