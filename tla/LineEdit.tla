------------------------------ MODULE LineEdit ------------------------------
(***************************************************************************)
(* The line editor of cmd/shell/shell.c: read_key, readline, line_replace, *)
(* tab_complete and the history, with the terminal that shows the line.    *)
(*                                                                         *)
(* The terminal is external: a character is put at the cursor, which moves *)
(* right; a backspace moves it left; a newline starts an empty row.  Only  *)
(* the columns after the prompt are kept.                                  *)
(***************************************************************************)
EXTENDS Integers, Sequences, FiniteSetsExt, SequencesExt

CONSTANTS
  MAX,           \* size of the line's buffer
  HISTORY_SIZE,  \* lines kept
  Bytes,         \* what is typed at once: a byte, or the three of an arrow key
  Builtins,      \* names of the builtins, in order
  Listing,       \* directory -> sequence of [name, dir] as readdir gives them
  MaxOps         \* bound: how often something is typed

VARIABLES
  ed,       \* the line: buf, pos, hidx, saved; last_was_tab; and whether the row is its own
  tty,      \* row: the characters shown, cur: how many are left of the cursor
  history,  \* the lines entered, oldest first
  ops

vars == <<ed, tty, history, ops>>

Blank == " "
MAX_COMPLETIONS == 64

Line(buf, pos, hidx, saved, tab, own) ==
  [buf |-> buf, pos |-> pos, hidx |-> hidx, saved |-> saved, tab |-> tab, own |-> own]

Empty == [row |-> <<>>, cur |-> 0]

Init ==
  /\ ed = Line(<<>>, 0, -1, <<>>, FALSE, TRUE)
  /\ tty = Empty
  /\ history = <<>>
  /\ ops = 0

-----------------------------------------------------------------------------
(* write(1, ...) on the terminal *)

Put(t, s) ==
  [row |-> [k \in 1 .. Max({Len(t.row), t.cur + Len(s)}) |->
              IF k > t.cur /\ k <= t.cur + Len(s) THEN s[k - t.cur] ELSE t.row[k]],
   cur |-> t.cur + Len(s)]

Back(t, n) == [t EXCEPT !.cur = IF n > 0 THEN @ - n ELSE @]

Spaces(n) == [k \in 1 .. Max({n, 0}) |-> Blank]

\* Blanks over n columns, and back.
Wipe(t, n) == Back(Put(t, Spaces(n)), n)

-----------------------------------------------------------------------------
(* The line *)

Left(e)  == SubSeq(e.buf, 1, e.pos)
Right(e) == SubSeq(e.buf, e.pos + 1, Len(e.buf))

\* x is what readline works on: the line ed, the terminal tty and the history.
Edit(x, buf, pos, t) ==
  [ed |-> Line(buf, pos, x.ed.hidx, x.ed.saved, x.ed.tab, x.ed.own),
   tty |-> t, history |-> x.history]

Tabbed(x, tab) == [x EXCEPT !.ed = [x.ed EXCEPT !.tab = tab]]

\* line_replace
Replace(x, entry) ==
  Edit(x, entry, Len(entry),
       Wipe(Put(Back(x.tty, x.ed.pos), entry), Len(x.ed.buf) - Len(entry)))

\* What is put after the cursor's character is moved back over.
\* (mutant: the cursor stays behind the rest of the line)
ShowRestAtEnd(t, rest) == Put(t, rest)
ShowRest(t, rest) == Back(Put(t, rest), Len(rest))

Insert(x, c) ==
  Edit(Tabbed(x, FALSE), Left(x.ed) \o <<c>> \o Right(x.ed), x.ed.pos + 1,
       ShowRest(Put(x.tty, <<c>>), Right(x.ed)))

Backspace(x) ==
  IF x.ed.pos = 0 THEN x
  ELSE Edit(x, SubSeq(x.ed.buf, 1, x.ed.pos - 1) \o Right(x.ed), x.ed.pos - 1,
            Back(Wipe(Put(Back(x.tty, 1), Right(x.ed)), 1), Len(Right(x.ed))))

ArrowLeft(x) ==
  IF x.ed.pos = 0 THEN x ELSE Edit(x, x.ed.buf, x.ed.pos - 1, Back(x.tty, 1))

ArrowRight(x) ==
  IF x.ed.pos = Len(x.ed.buf) THEN x
  ELSE Edit(x, x.ed.buf, x.ed.pos + 1, Put(x.tty, <<x.ed.buf[x.ed.pos + 1]>>))

\* The recalled line is h lines back; saved is the line it all began with.
Recall(x, h, saved, entry) ==
  Replace([x EXCEPT !.ed = Line(x.ed.buf, x.ed.pos, h, saved, x.ed.tab, x.ed.own)], entry)

ArrowUp(x) ==
  LET h == x.ed.hidx + 1 IN
  IF h >= Len(x.history) THEN x
  ELSE Recall(x, h, IF h = 0 THEN x.ed.buf ELSE x.ed.saved, x.history[Len(x.history) - h])

ArrowDown(x) ==
  LET h == x.ed.hidx - 1 IN
  IF x.ed.hidx < 0 THEN x
  ELSE Recall(x, h, x.ed.saved, IF h = -1 THEN x.ed.saved ELSE x.history[Len(x.history) - h])

-----------------------------------------------------------------------------
(* tab_complete *)

\* The word that ends at the cursor, and the part of it after its last slash.
LastAt(s, c) == Max({k \in DOMAIN s : s[k] = c} \cup {0})

Token(e) == SubSeq(e.buf, LastAt(Left(e), Blank) + 1, e.pos)

Dir(tok) == SubSeq(tok, 1, LastAt(tok, "/"))
Prefix(tok) == SubSeq(tok, LastAt(tok, "/") + 1, Len(tok))

Entries(dir) == IF dir \in DOMAIN Listing THEN Listing[dir] ELSE <<>>
Names(es) == [k \in DOMAIN es |-> es[k].name]

\* Where names are looked for: builtins and /bin for the first word, then the directory.
Candidates(e) ==
  LET tok == Token(e)
      dir == Dir(tok)
  IN  (IF Len(tok) = e.pos /\ dir = <<>> THEN Builtins \o Names(Entries(<<"/", "b", "/">>)) ELSE <<>>)
        \o Names(Entries(IF dir = <<>> THEN <<".">> ELSE dir))

\* The names that go on as the word does; each is taken once, until the table is full.
Matches(e) ==
  LET all == Candidates(e)
      fit == {k \in DOMAIN all : IsPrefix(Prefix(Token(e)), all[k])}
  IN  {all[k] : k \in {k \in fit :
                 Cardinality({all[j] : j \in {j \in fit : j < k}}) < MAX_COMPLETIONS}}

Common(names) ==
  LET m == CHOOSE m \in names : TRUE
  IN  SubSeq(m, 1, Max({k \in 0 .. Len(m) : \A n \in names : IsPrefix(SubSeq(m, 1, k), n)}))

\* A name that stat finds to be a directory: in the word's directory, or here.
IsDir(dir, name) ==
  LET es == Entries(IF dir = <<>> THEN <<".">> ELSE dir) IN
  \E k \in DOMAIN es : es[k].name = name /\ es[k].dir

\* The word becomes full, on the screen too: back to its start, full, blanks over what
\* was longer, and the rest of the line after it.
Substitute(x, full) ==
  LET e == x.ed
      start == e.pos - Len(Token(e))
      t == Wipe(Put(Back(x.tty, Len(Token(e))), full), Len(e.buf) - start - Len(full))
  IN  Edit(x, SubSeq(e.buf, 1, start) \o full \o Right(e), start + Len(full),
           ShowRest(t, Right(e)))

TabComplete(x) ==
  LET e == x.ed
      dir == Dir(Token(e))
      ms == Matches(e)
      only == CHOOSE n \in ms : TRUE
  IN
  IF ms = {} THEN x
  ELSE IF ms = {only} THEN Substitute(x, dir \o only \o (IF IsDir(dir, only) THEN <<"/">> ELSE <<>>))
  ELSE IF Len(Common(ms)) > Len(Prefix(Token(e)))
       THEN Tabbed(Substitute(x, dir \o Common(ms)), FALSE)
  ELSE IF ~e.tab THEN Tabbed(x, TRUE)
  ELSE \* the names, and the line again on a row of its own
       [ed |-> [e EXCEPT !.own = TRUE], tty |-> Back(Put(Empty, e.buf), Len(Right(e))),
        history |-> x.history]

-----------------------------------------------------------------------------
(* read_key: the keys that bytes make, when the one at index late comes after the
   50 ms that poll waits (0: none does). *)

Arrow(c) == CASE c = "A" -> "UP" [] c = "B" -> "DOWN" [] c = "C" -> "RIGHT" [] c = "D" -> "LEFT"
              [] OTHER -> "ESC"

read_key(bs, late) ==
  IF bs[1] # "ESC" \/ late = 2 THEN bs
  ELSE IF bs[2] # "[" THEN <<"ESC">> \o SubSeq(bs, 3, Len(bs))
  ELSE IF late = 3 THEN <<"ESC">> \o SubSeq(bs, 3, Len(bs))
  ELSE <<Arrow(bs[3])>> \o SubSeq(bs, 4, Len(bs))

history_add(h, line) ==
  IF Len(h) > 0 /\ Last(h) = line THEN h
  ELSE Append(IF Len(h) >= HISTORY_SIZE THEN Tail(h) ELSE h, line)

\* readline returns: what main keeps of the line, and the prompt for the next one.
Return(x, newline, keep) ==
  [ed |-> Line(<<>>, 0, -1, <<>>, x.ed.tab, newline),
   tty |-> Empty,
   history |-> IF keep /\ x.ed.buf # <<>> THEN history_add(x.history, x.ed.buf) ELSE x.history]

\* The switch in readline.
Handle(x, key) ==
  CASE key = "ENTER" -> Return(x, TRUE, TRUE)
    [] key \in {"CTRL_C", "CTRL"} -> Return(x, TRUE, FALSE)
    [] key = "CTRL_D" -> x
    [] key = "BS" -> Backspace(x)
    [] key = "LEFT" -> ArrowLeft(x)
    [] key = "RIGHT" -> ArrowRight(x)
    [] key = "UP" -> ArrowUp(x)
    [] key = "DOWN" -> ArrowDown(x)
    [] key = "TAB" -> TabComplete(x)
    [] key = "ESC" -> Tabbed(x, FALSE)
    [] OTHER -> Insert(x, key)

\* A full line is taken without Enter, and the row it is on goes on.
Key(x, key) ==
  LET y == Handle(x, key) IN IF Len(y.ed.buf) >= MAX - 1 THEN Return(y, FALSE, TRUE) ELSE y

\* The k-th of the keys ks, if there is one.
Press(x, ks, k) == IF k <= Len(ks) THEN Key(x, ks[k]) ELSE x

\* Bounds: at most three bytes come at once; a completion fits the buffer, whose length
\* readline does not look at there.
Type(bs, late) ==
  LET x == [ed |-> ed, tty |-> tty, history |-> history]
      ks == read_key(bs, late)
      y == Press(Press(Press(x, ks, 1), ks, 2), ks, 3)
  IN
  /\ ops < MaxOps /\ ops' = ops + 1
  /\ late > 0 => Len(bs) > 1
  /\ bs = <<"TAB">> => Len(TabComplete(x).ed.buf) < MAX
  /\ ed' = y.ed /\ tty' = y.tty /\ history' = y.history

Next == \E bs \in Bytes, late \in {0, 2, 3} : Type(bs, late)

Spec == Init /\ [][Next]_vars

-----------------------------------------------------------------------------
(* Properties *)

\* After any keys, arrow keys cut in two by a slow line, completions and recalled lines
\* included, the row shows exactly the line that Enter will run, with the cursor where the
\* next character goes; only a row that goes on after a full line may show more.
LineShown ==
  /\ tty.cur = ed.pos
  /\ ed.pos \in 0 .. Len(ed.buf)
  /\ ed.own => tty.row = ed.buf \o Spaces(Len(tty.row) - Len(ed.buf))
=============================================================================
