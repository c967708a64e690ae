--------------------------------- MODULE Ed ---------------------------------
(***************************************************************************)
(* The screen editor cmd/ed/ed.c: rows, cursor and scrolling, the keys,    *)
(* find mode, and saving.  Rows hold no tabs, so that a row is what is     *)
(* shown of it; highlighting and the drawing of the screen are left out.   *)
(*                                                                         *)
(* Beside the editor's state the module keeps doc, the document as one     *)
(* text that the keys insert to, delete from and move in.  In four cases   *)
(* the code puts the cursor where no text is shown, or reads past its      *)
(* rows; a behaviour goes up to such a step, which makes doc.astray true.  *)
(***************************************************************************)
EXTENDS Integers, Sequences, FiniteSetsExt, SequencesExt

CONSTANTS
  screenrows, screencols,
  Chars,        \* the characters that are typed
  Saved,        \* what the file may hold when the editor starts
  MaxOps        \* bound: how many keys are pressed

NL == "NL"
KILO_QUIT_TIMES == 3

VARIABLES
  row,          \* the rows
  cur,          \* the cursor: cx, cy on the screen, rowoff, coloff
  dirty,        \* whether there are changes since the last save
  quit_times,
  file,         \* what is on disk, and whether the last save failed
  find,         \* find mode: on, query, last_match, and the cursor to go back to
  doc,          \* the document: its text, where the next character goes, where it went when
                \* find mode was entered, and whether the cursor is astray
  mode,         \* "edit", "find" or "gone"
  ops

vars == <<row, cur, dirty, quit_times, file, find, doc, mode, ops>>

Home == [cx |-> 0, cy |-> 0, rowoff |-> 0, coloff |-> 0]
NoFind == [query |-> <<>>, last |-> -1, back |-> Home]

-----------------------------------------------------------------------------
(* Rows and text *)

\* editorOpen: getline, with the newline cut off; a last line without one is a row too.
Rows(text) ==
  LET ends == SelectSeq([k \in DOMAIN text |-> k], LAMBDA k : text[k] = NL)
                \o (IF text # <<>> /\ Last(text) # NL THEN <<Len(text) + 1>> ELSE <<>>)
  IN  [k \in DOMAIN ends |-> SubSeq(text, (IF k = 1 THEN 0 ELSE ends[k - 1]) + 1, ends[k] - 1)]

\* editorRowsToString
Text(rows) == FlattenSeq([k \in DOMAIN rows |-> Append(rows[k], NL)])

Init ==
  /\ file \in [text : Saved, failed : {FALSE}]
  /\ row = Rows(file.text)
  /\ cur = Home /\ dirty = FALSE /\ quit_times = KILO_QUIT_TIMES
  /\ find = NoFind
  /\ doc = [text |-> Text(Rows(file.text)), at |-> 0, back |-> 0, astray |-> FALSE]
  /\ mode = "edit" /\ ops = 0

FileRow(c) == c.rowoff + c.cy
FileCol(c) == c.coloff + c.cx
Size(rows, k) == IF k \in 0 .. Len(rows) - 1 THEN Len(rows[k + 1]) ELSE 0

\* Where a row and column are in the text; below the last row, as if there were empty rows.
Place(rows, k, col) ==
  IF k >= Len(rows) THEN Len(Text(rows)) + k - Len(rows) ELSE Len(Text(SubSeq(rows, 1, k))) + col
Offset(rows, c) == Place(rows, FileRow(c), FileCol(c))

-----------------------------------------------------------------------------
(* Editing.  x is [row, cur]. *)

Down(c) == IF c.cy = screenrows - 1 THEN [c EXCEPT !.rowoff = @ + 1] ELSE [c EXCEPT !.cy = @ + 1]

\* A character: empty rows down to the cursor first, blanks up to it.
editorInsertChar(x, ch) ==
  LET k == FileRow(x.cur) + 1
      col == FileCol(x.cur)
      rows == x.row \o [i \in 1 .. Max({k - Len(x.row), 0}) |-> <<>>]
      pad == [i \in 1 .. Max({col - Len(rows[k]), 0}) |-> " "]
      r == rows[k] \o pad
  IN  [row |-> [rows EXCEPT ![k] = Append(SubSeq(r, 1, col), ch) \o SubSeq(r, col + 1, Len(r))],
       cur |-> IF x.cur.cx = screencols - 1 THEN [x.cur EXCEPT !.coloff = @ + 1]
               ELSE [x.cur EXCEPT !.cx = @ + 1]]

editorInsertNewline(x) ==
  LET k == FileRow(x.cur) + 1
      col == Min({FileCol(x.cur), Size(x.row, k - 1)})
      next == [Down(x.cur) EXCEPT !.cx = 0, !.coloff = 0]
  IN
  IF k > Len(x.row) + 1 THEN x
  ELSE IF k = Len(x.row) + 1 \/ col = 0 THEN [row |-> InsertAt(x.row, k, <<>>), cur |-> next]
  ELSE [row |-> InsertAt([x.row EXCEPT ![k] = SubSeq(@, 1, col)], k + 1,
                         SubSeq(x.row[k], col + 1, Len(x.row[k]))),
        cur |-> next]

\* The first character of a row goes to the end of the row before it.
JoinRow(x) ==
  LET k == FileRow(x.cur) + 1
      col == Size(x.row, k - 2)
      shift == IF col >= screencols THEN screencols - col + 1 ELSE 0
      up == IF x.cur.cy = 0 THEN [x.cur EXCEPT !.rowoff = @ - 1] ELSE [x.cur EXCEPT !.cy = @ - 1]
  IN  [row |-> RemoveAt([x.row EXCEPT ![k - 1] = @ \o x.row[k]], k),
       cur |-> [up EXCEPT !.cx = col - shift, !.coloff = @ + shift]]

\* (mutant: the character under the cursor goes, not the one before it)
DelAtUnder(col) == col + 1
DelAt(col) == col

editorDelChar(x) ==
  LET k == FileRow(x.cur) + 1
      col == FileCol(x.cur)
  IN
  IF k > Len(x.row) \/ (col = 0 /\ k = 1) THEN x
  ELSE IF col = 0 THEN JoinRow(x)
  ELSE [row |-> IF DelAt(col) <= Len(x.row[k]) THEN [x.row EXCEPT ![k] = RemoveAt(@, DelAt(col))] ELSE x.row,
        cur |-> IF x.cur.cx = 0 /\ x.cur.coloff > 0 THEN [x.cur EXCEPT !.coloff = @ - 1]
                ELSE [x.cur EXCEPT !.cx = @ - 1]]

\* A cursor past the end of its row goes back to it.
FixCursor(rows, c) ==
  LET over == FileCol(c) - Size(rows, FileRow(c))
      cx == c.cx - over
  IN  IF over <= 0 THEN c
      ELSE IF cx < 0 THEN [c EXCEPT !.coloff = @ + cx, !.cx = 0] ELSE [c EXCEPT !.cx = cx]

\* What E.row[filerow - 1].size may be: below the last row but one that is past the array.
PastRows(rows, c) == FileRow(c) > Len(rows)
SizesAbove(rows, c) == IF PastRows(rows, c) THEN {-1, 0, screencols + 1} ELSE {Size(rows, FileRow(c) - 1)}

MoveLeft(c, size) ==
  IF c.cx > 0 THEN [c EXCEPT !.cx = @ - 1]
  ELSE IF c.coloff > 0 THEN [c EXCEPT !.coloff = @ - 1]
  ELSE IF FileRow(c) = 0 THEN c
  ELSE IF size > screencols - 1
       THEN [c EXCEPT !.cy = @ - 1, !.cx = screencols - 1, !.coloff = size - screencols + 1]
  ELSE [c EXCEPT !.cy = @ - 1, !.cx = size]

MoveRight(rows, c) ==
  LET k == FileRow(c) IN
  IF k < Len(rows) /\ FileCol(c) < Size(rows, k)
  THEN IF c.cx = screencols - 1 THEN [c EXCEPT !.coloff = @ + 1] ELSE [c EXCEPT !.cx = @ + 1]
  ELSE IF k < Len(rows) /\ FileCol(c) = Size(rows, k) THEN Down([c EXCEPT !.cx = 0, !.coloff = 0])
  ELSE c

MoveUp(c) ==
  IF c.cy > 0 THEN [c EXCEPT !.cy = @ - 1]
  ELSE IF c.rowoff > 0 THEN [c EXCEPT !.rowoff = @ - 1] ELSE c

editorMoveCursor(rows, c, key, size) ==
  FixCursor(rows, CASE key = "LEFT" -> MoveLeft(c, size)
                    [] key = "RIGHT" -> MoveRight(rows, c)
                    [] key = "UP" -> MoveUp(c)
                    [] key = "DOWN" -> IF FileRow(c) < Len(rows) THEN Down(c) ELSE c)

\* To the edge of the screen, and as many rows as it has.
Page(rows, c, key) ==
  LET edge == [c EXCEPT !.cy = IF key = "UP" THEN 0 ELSE screenrows - 1]
      Step(d, i) == editorMoveCursor(rows, d, key, 0)
  IN  FoldLeft(Step, edge, [i \in 1 .. screenrows |-> i])

-----------------------------------------------------------------------------
(* The keys outside find mode *)

Press(m) == mode = m /\ ~doc.astray /\ ops < MaxOps /\ ops' = ops + 1

Edited(x) ==
  /\ row' = x.row /\ cur' = x.cur
  /\ quit_times' = KILO_QUIT_TIMES
  /\ UNCHANGED <<file, find, mode>>

\* What a document does with a character, below its end too.
DocInsert(d, ch) ==
  LET t == d.text \o [i \in 1 .. d.at - Len(d.text) |-> NL] \o <<ch>> IN
  [d EXCEPT !.at = @ + 1,
            !.text = IF d.at < Len(@) THEN InsertAt(@, d.at + 1, ch) ELSE IF ch = NL THEN t ELSE Append(t, NL)]

\* Where the arrows and pages lead to: one character on or back; or to row k in the same
\* column, or at the end of the shortest of the rows on the way.
DocRow(d) == Cardinality({i \in 1 .. Min({d.at, Len(d.text)}) : d.text[i] = NL}) + Max({d.at - Len(d.text), 0})

DocTo(d, k, way) ==
  LET lines == Rows(d.text)
      col == d.at - Place(lines, DocRow(d), 0)
  IN  Place(lines, k, Min({col} \cup {Size(lines, i) : i \in way}))

DocMove(d, key) ==
  LET k == DocRow(d) IN
  CASE key = "LEFT" -> Max({d.at - 1, 0})
    [] key = "RIGHT" -> IF d.at < Len(d.text) THEN d.at + 1 ELSE d.at
    [] key = "UP" -> IF k = 0 THEN d.at ELSE DocTo(d, k - 1, {k - 1})
    [] key = "DOWN" -> IF d.at >= Len(d.text) THEN d.at ELSE DocTo(d, k + 1, {k + 1})

\* A page: from the first or the last row shown, as many rows on as are shown.
DocPage(d, key, top) ==
  LET n == Len(Rows(d.text))
      edge == top + screenrows - 1
      k == IF key = "UP" THEN Max({top - screenrows, 0})
           ELSE IF edge >= n THEN edge ELSE Min({edge + screenrows, n})
  IN  DocTo(d, k, IF key = "UP" THEN k .. Max({top - 1, 0}) ELSE Min({edge + 1, k}) .. k)

Char(ch) ==
  /\ Press("edit")
  /\ Edited(editorInsertChar([row |-> row, cur |-> cur], ch))
  /\ dirty' = TRUE
  /\ doc' = DocInsert(doc, ch)

Enter ==
  /\ Press("edit")
  /\ Edited(editorInsertNewline([row |-> row, cur |-> cur]))
  /\ dirty' = (dirty \/ FileRow(cur) <= Len(row))
  /\ doc' = IF doc.at > Len(doc.text) THEN doc ELSE DocInsert(doc, NL)

\* A row joined to one that is wider than the screen: the code moves the window to the
\* left of the text (ed.c:902).
JoinsWide == /\ FileCol(cur) = 0 /\ FileRow(cur) \in 1 .. Len(row) - 1
             /\ Size(row, FileRow(cur) - 1) > screencols

Backspace ==
  LET nothing == FileRow(cur) >= Len(row) \/ doc.at = 0 IN
  /\ Press("edit")
  /\ Edited(editorDelChar([row |-> row, cur |-> cur]))
  /\ dirty' = (dirty \/ ~nothing)
  /\ doc' = IF nothing THEN doc
            ELSE [doc EXCEPT !.text = RemoveAt(@, doc.at), !.at = @ - 1, !.astray = JoinsWide]

\* From the first column of the top row, with rows scrolled off above it, to the left: the
\* code puts the cursor above the screen (ed.c:1274).  Further below the last row it reads
\* past the array (ed.c:1275).
LeavesScreen == cur.cy = 0 /\ cur.rowoff > 0
Column0 == cur.cx = 0 /\ cur.coloff = 0

Move(key) ==
  \E size \in SizesAbove(row, cur) :
    /\ Press("edit")
    /\ Edited([row |-> row, cur |-> editorMoveCursor(row, cur, key, size)])
    /\ doc' = [doc EXCEPT !.at = DocMove(doc, key),
                          !.astray = key = "LEFT" /\ Column0 /\ (LeavesScreen \/ PastRows(row, cur))]
    /\ UNCHANGED dirty

\* The read past the array may also end the editor.
ReadFaults ==
  /\ Press("edit") /\ Column0 /\ PastRows(row, cur)
  /\ mode' = "gone" /\ doc' = [doc EXCEPT !.astray = TRUE]
  /\ UNCHANGED <<row, cur, dirty, quit_times, file, find>>

MovePage(key) ==
  /\ Press("edit")
  /\ Edited([row |-> row, cur |-> Page(row, cur, key)])
  /\ doc' = [doc EXCEPT !.at = DocPage(doc, key, cur.rowoff)]
  /\ UNCHANGED dirty

\* editorSave: open, ftruncate and one write; each may fail, and then the file has what
\* it had, or is cut, or has a part of the text.
editorSave ==
  LET text == Text(row)
      old == file.text
      cut == SubSeq(old, 1, Min({Len(old), Len(text)}))
  IN
  /\ Press("edit")
  /\ \/ file' = [text |-> text, failed |-> FALSE] /\ dirty' = FALSE
     \/ /\ \E t \in {old, cut, SubSeq(text, 1, Len(text) \div 2)} : file' = [text |-> t, failed |-> TRUE]
        /\ UNCHANGED dirty
  /\ quit_times' = KILO_QUIT_TIMES
  /\ UNCHANGED <<row, cur, find, doc, mode>>

Quit ==
  /\ Press("edit")
  /\ IF dirty /\ quit_times > 0
     THEN quit_times' = quit_times - 1 /\ UNCHANGED mode
     ELSE mode' = "gone" /\ UNCHANGED quit_times
  /\ UNCHANGED <<row, cur, dirty, file, find, doc>>

\* Ctrl-C, Ctrl-L, ESC
Ignored ==
  /\ Press("edit") /\ quit_times' = KILO_QUIT_TIMES
  /\ UNCHANGED <<row, cur, dirty, file, find, doc, mode>>

-----------------------------------------------------------------------------
(* editorFind *)

OpenFind ==
  /\ Press("edit")
  /\ mode' = "find" /\ find' = [NoFind EXCEPT !.back = cur]
  /\ doc' = [doc EXCEPT !.back = doc.at]
  /\ UNCHANGED <<row, cur, dirty, quit_times, file>>

\* strstr
At(r, query) == {k \in 0 .. Len(r) : IsPrefix(query, SubSeq(r, k + 1, Len(r)))}

\* The rows in the order of the search, from the one after (or before) the last match.
Tries(last, dir) ==
  LET n == Len(row) IN
  [i \in 1 .. n |-> IF dir = 1 THEN (last + i) % n
                    ELSE ((IF last = -1 THEN 0 ELSE last) - i + n) % n]

Search(f, dir) ==
  LET hits == {i \in DOMAIN row : At(row[Tries(f.last, dir)[i] + 1], f.query) # {}}
      k == Tries(f.last, dir)[Min(hits)]
      cx == Min(At(row[k + 1], f.query))
      off == IF cx > screencols THEN cx - screencols ELSE 0
  IN
  IF hits = {} THEN [find |-> f, cur |-> cur]
  ELSE [find |-> [f EXCEPT !.last = k],
        cur |-> [cy |-> 0, rowoff |-> k, cx |-> cx - off, coloff |-> off]]

\* A key in find mode: the query changes, or an arrow asks for another match.  A match that
\* begins at the right edge is not scrolled to (ed.c:1248): the cursor is beside the screen.
FindKey(query, dir) ==
  LET r == Search([find EXCEPT !.query = query, !.last = IF dir = 0 THEN -1 ELSE @],
                  IF dir = 0 \/ find.last = -1 THEN 1 ELSE dir)
  IN
  /\ Press("find")
  /\ find' = r.find /\ cur' = r.cur
  /\ doc' = [doc EXCEPT !.at = Offset(row, r.cur), !.astray = FileCol(r.cur) >= screencols /\ r.cur # cur]
  /\ UNCHANGED <<row, dirty, quit_times, file, mode>>

FindMore(ch) == FindKey(Append(find.query, ch), 0)
FindLess == FindKey(IF find.query = <<>> THEN <<>> ELSE Front(find.query), 0)

CloseFind(restore) ==
  LET c == IF restore THEN find.back ELSE cur IN
  /\ Press("find")
  /\ mode' = "edit" /\ find' = NoFind /\ cur' = c
  /\ doc' = IF restore THEN [doc EXCEPT !.at = doc.back] ELSE doc
  /\ quit_times' = KILO_QUIT_TIMES
  /\ UNCHANGED <<row, dirty, file>>

Next ==
  \/ \E ch \in Chars : Char(ch)
  \/ Enter \/ Backspace
  \/ \E key \in {"LEFT", "RIGHT", "UP", "DOWN"} : Move(key)
  \/ \E key \in {"UP", "DOWN"} : MovePage(key)
  \/ ReadFaults \/ editorSave \/ Quit \/ Ignored \/ OpenFind
  \/ \E ch \in Chars : FindMore(ch)
  \/ FindLess
  \/ \E dir \in {1, -1} : FindKey(find.query, dir)
  \/ \E restore \in BOOLEAN : CloseFind(restore)

Spec == Init /\ [][Next]_vars

-----------------------------------------------------------------------------
(* Properties *)

\* Through scrolling, splitting and joining rows, keys below the end of the file, and find
\* mode, the rows are the document the keys made.  Up to a step that leads astray, the next
\* character goes where the keys have moved to, which is where the cursor is shown, on the
\* screen; and on a match while one is being looked for.  When the editor holds no changes
\* and the last save did not fail, the file has the text; and the editor ends only without
\* changes, or on the last of four Ctrl-Q in a row.
EditorExact ==
  /\ doc.text = Text(row)
  /\ ~dirty /\ ~file.failed => Text(Rows(file.text)) = Text(row)
  /\ ~doc.astray =>
       /\ doc.at = Offset(row, cur)
       /\ FileRow(cur) < Len(row) => FileCol(cur) <= Size(row, FileRow(cur))
       /\ cur.cy \in 0 .. screenrows - 1 /\ cur.cx \in 0 .. screencols - 1
       /\ cur.rowoff >= 0 /\ cur.coloff >= 0
       /\ mode = "find" /\ find.last >= 0 =>
            LET r == row[FileRow(cur) + 1] IN
            IsPrefix(find.query, SubSeq(r, FileCol(cur) + 1, Len(r)))
       /\ mode = "gone" => ~dirty \/ quit_times = 0
=============================================================================
