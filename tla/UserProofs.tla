----------------------------- MODULE UserProofs -----------------------------
(***************************************************************************)
(* Safety of two parts of a user program for every size: the heap of       *)
(* malloc.c (Malloc) and the line editor of the shell (LineEdit).          *)
(*                                                                         *)
(* Heap.  HeapExact compares what the program put into blocks with what it *)
(* finds there.  That alone is not inductive: a block on the free list     *)
(* that overlaps another, or that is on the list twice, does no harm until *)
(* it is handed out.  Sound adds that all blocks, used and free, lie apart *)
(* below the break with whole headers, and that the list has each once.    *)
(* Each function of malloc.c has a lemma from Sound to Sound (Grants: what *)
(* an allocation gives and leaves alone).                                  *)
(*                                                                         *)
(* Line.  LineShown compares the row of the terminal with the buffer.      *)
(* LineInv adds what the history keys take back: the saved line and the    *)
(* entries of the history are lines, and the index is in the history.  The *)
(* output of a key is a sequence of writes; Painted says what the row is   *)
(* after each, and a key's lemma composes them.                            *)
(***************************************************************************)
EXTENDS UserParts, Integers, Sequences, TLAPS, WellFoundedInduction

CONSTANT Char  \* the character set

Units0 == 0 .. LIMIT - 1

HeapType ==
  [mem : [Units0 -> Int], size : [Units0 -> Nat], brk : 0 .. LIMIT, list : Seq(Units0)]

\* The unit after a block.
End(h, b) == b + MA!HEADER_SIZE + h.size[b]

OnList(h) == {h.list[i] : i \in 1 .. Len(h.list)}

\* A block in use or on the list: it lies below the break and its header is whole.
Whole(h, b) ==
  /\ End(h, b) <= h.brk
  /\ h.mem[b] = MA!Head0 /\ h.mem[b + 1] = MA!Head0

Apart(h, a, b) == End(h, a) <= b \/ End(h, b) <= a

\* The blocks, those of the program at used and those on the list, tile a part of what is
\* below the break.
Sound(h, used) ==
  /\ h \in HeapType
  /\ used \subseteq Units0
  /\ \A b \in used \cup OnList(h) : Whole(h, b)
  /\ \A a, b \in used \cup OnList(h) : a # b => Apart(h, a, b)
  /\ \A i, j \in 1 .. Len(h.list) : h.list[i] = h.list[j] => i = j
  /\ \A b \in used : b \notin OnList(h)

\* From h to g nothing of block b changes: its size, header and contents.
Kept(h, g, b) ==
  /\ g.size[b] = h.size[b]
  /\ \A u \in b .. End(h, b) - 1 : g.mem[u] = h.mem[u]

\* From h to g the program gets the block b with room for size units; nothing that it
\* held before changes.
Grants(h, used, size, g, b) ==
  /\ b \in Units0 /\ b \notin used
  /\ Sound(g, used \cup {b})
  /\ size <= g.size[b]
  /\ \A a \in used : Kept(h, g, a)

\* What the program wrote at p is there.
Held(h, p, s) ==
  /\ s \in Seq(Int)
  /\ Len(s) <= h.size[p - MA!HEADER_SIZE]
  /\ \A k \in 1 .. Len(s) : h.mem[p + k - 1] = s[k]

Used(f) == {p - MA!HEADER_SIZE : p \in DOMAIN f}

\* The heap h is sound for a program that holds f, and f is what is in it.
HeapInv(h, f) ==
  /\ DOMAIN f \subseteq Int
  /\ Sound(h, Used(f))
  /\ \A p \in DOMAIN f : Held(h, p, f[p])

Inv == ops \in Nat /\ HeapInv(heap, live)

-----------------------------------------------------------------------------
(* The operators *)

\* m is mem with n units from the unit from on holding v.
Filled(m, mem, from, n, v) ==
  /\ m \in [Units0 -> Int]
  /\ \A u \in Units0 : m[u] = IF from <= u /\ u < from + n THEN v ELSE mem[u]

\* Only what is written changes when a run of units is filled.
LEMMA FillMem ==
  ASSUME NEW mem \in [Units0 -> Int], NEW from \in Int, NEW n \in Int, NEW v \in Int
  PROVE  Filled(MA!Fill(mem, from, n, v), mem, from, n, v)
BY DEF Filled, MA!Fill, MA!Units, Units0

\* The fields of a heap.
LEMMA HeapFields ==
  ASSUME NEW h \in HeapType
  PROVE  /\ h = MA!Heap(h.mem, h.size, h.brk, h.list)
         /\ h.mem \in [Units0 -> Int] /\ h.size \in [Units0 -> Nat]
         /\ h.brk \in 0 .. LIMIT /\ h.list \in Seq(Units0)
BY DEF MA!Heap, HeapType

\* One field of a heap is replaced.
LEMMA FieldSet ==
  ASSUME NEW h \in HeapType
  PROVE  /\ \A m : [h EXCEPT !.mem = m] = MA!Heap(m, h.size, h.brk, h.list)
         /\ \A z : [h EXCEPT !.size = z] = MA!Heap(h.mem, z, h.brk, h.list)
         /\ \A b : [h EXCEPT !.brk = b] = MA!Heap(h.mem, h.size, b, h.list)
         /\ \A l : [h EXCEPT !.list = l] = MA!Heap(h.mem, h.size, h.brk, l)
<1>1. PICK m0, z0, b0, l0 : h = [mem |-> m0, size |-> z0, brk |-> b0, list |-> l0]
  BY HeapFields DEF MA!Heap
<1>2. h.mem = m0 /\ h.size = z0 /\ h.brk = b0 /\ h.list = l0
  BY <1>1
<1>3. ASSUME NEW m PROVE [h EXCEPT !.mem = m] = [mem |-> m, size |-> z0, brk |-> b0, list |-> l0]
  BY ONLY <1>1
<1>4. ASSUME NEW z PROVE [h EXCEPT !.size = z] = [mem |-> m0, size |-> z, brk |-> b0, list |-> l0]
  BY ONLY <1>1
<1>5. ASSUME NEW b PROVE [h EXCEPT !.brk = b] = [mem |-> m0, size |-> z0, brk |-> b, list |-> l0]
  BY ONLY <1>1
<1>6. ASSUME NEW l PROVE [h EXCEPT !.list = l] = [mem |-> m0, size |-> z0, brk |-> b0, list |-> l]
  BY ONLY <1>1
<1> QED BY <1>2, <1>3, <1>4, <1>5, <1>6 DEF MA!Heap

LEMMA FieldSetMade ==
  ASSUME NEW m, NEW z, NEW b, NEW l, NEW x
  PROVE  /\ [MA!Heap(m, z, b, l) EXCEPT !.mem = x] = MA!Heap(x, z, b, l)
         /\ [MA!Heap(m, z, b, l) EXCEPT !.list = x] = MA!Heap(m, z, b, x)
         /\ MA!Heap(m, z, b, l).list = l
<1>1. [MA!Heap(m, z, b, l) EXCEPT !.mem = x] = MA!Heap(x, z, b, l)
  BY DEF MA!Heap
<1>2. [MA!Heap(m, z, b, l) EXCEPT !.list = x] = MA!Heap(m, z, b, x)
  BY DEF MA!Heap
<1>3. MA!Heap(m, z, b, l).list = l
  BY DEF MA!Heap
<1> QED BY <1>1, <1>2, <1>3

\* A header is two units and a size.
LEMMA HeaderSet ==
  ASSUME LIMIT \in Nat, NEW h \in HeapType, NEW at \in Units0, NEW size \in Nat
  PROVE  LET g == MA!SetHeader(h, at, size) IN
         /\ g \in HeapType
         /\ g.brk = h.brk /\ g.list = h.list
         /\ g.size = [h.size EXCEPT ![at] = size]
         /\ \A u \in Units0 : g.mem[u] = IF u = at \/ u = at + 1 THEN MA!Head0 ELSE h.mem[u]
<1> DEFINE m == MA!Fill(h.mem, at, MA!HEADER_SIZE, MA!Head0)
           z == [h.size EXCEPT ![at] = size]
<1>1. /\ h.mem \in [Units0 -> Int] /\ h.size \in [Units0 -> Nat]
      /\ h.brk \in 0 .. LIMIT /\ h.list \in Seq(Units0)
  BY HeapFields
<1>2. at \in Int /\ MA!HEADER_SIZE = 2 /\ MA!Head0 = 0
  BY DEF MA!HEADER_SIZE, MA!Head0, Units0
<1>3. /\ m \in [Units0 -> Int]
      /\ \A u \in Units0 : m[u] = IF at <= u /\ u < at + MA!HEADER_SIZE THEN MA!Head0 ELSE h.mem[u]
  <2>1. 2 \in Int /\ 0 \in Int
    OBVIOUS
  <2>2. Filled(MA!Fill(h.mem, at, 2, 0), h.mem, at, 2, 0)
    BY ONLY <1>1, <1>2, <2>1, FillMem
  <2> QED BY ONLY <1>2, <2>2 DEF Filled
<1>4. z \in [Units0 -> Nat]
  BY <1>1
<1>5. MA!SetHeader(h, at, size) = MA!Heap(m, z, h.brk, h.list)
  BY DEF MA!SetHeader
<1> HIDE DEF m
<1>6. \A u \in Units0 : m[u] = IF u = at \/ u = at + 1 THEN MA!Head0 ELSE h.mem[u]
  BY <1>2, <1>3 DEF Units0
<1> HIDE DEF z
<1> DEFINE g == MA!SetHeader(h, at, size)
<1> HIDE DEF g
<1>7. g.mem = m /\ g.size = z /\ g.brk = h.brk /\ g.list = h.list /\ g \in HeapType
  <2>1. g = MA!Heap(m, z, h.brk, h.list)
    BY <1>5 DEF g
  <2> QED BY <1>1, <1>3, <1>4, <2>1 DEF MA!Heap, HeapType
<1> QED BY <1>6, <1>7 DEF z, g

\* The least index of those that fit is one of them.
LEMMA FirstFit ==
  ASSUME NEW S, S \subseteq Nat, S # {}
  PROVE  MA!Min(S) \in S
<1>1. PICK x \in S : \A y \in S : ~(<<y, x>> \in OpToRel(<, Nat))
  BY NatLessThanWellFounded, WFMin
<1>2. ASSUME NEW y \in S PROVE x <= y
  <2>1. ~(y < x)
    BY <1>1 DEF OpToRel
  <2> QED BY <2>1
<1> QED BY <1>2 DEF MA!Min

\* One sequence after another.
LEMMA ListConcat ==
  ASSUME NEW S, NEW p \in Seq(S), NEW q \in Seq(S)
  PROVE  /\ p \o q \in Seq(S)
         /\ Len(p \o q) = Len(p) + Len(q)
         /\ \A i \in 1 .. Len(p) + Len(q) :
              (p \o q)[i] = IF i <= Len(p) THEN p[i] ELSE q[i - Len(p)]
OBVIOUS

\* Where the entries of a list of n go when the one at k is taken off.
LEMMA SkipOne ==
  ASSUME NEW n \in Nat, NEW k \in 1 .. n
  PROVE  /\ \A i \in 1 .. n - 1 : /\ (IF i < k THEN i ELSE i + 1) \in 1 .. n
                                  /\ (IF i < k THEN i ELSE i + 1) # k
         /\ \A i, j \in 1 .. n - 1 :
              (IF i < k THEN i ELSE i + 1) = (IF j < k THEN j ELSE j + 1) => i = j
         /\ \A j \in 1 .. n : j # k => \E i \in 1 .. n - 1 : j = IF i < k THEN i ELSE i + 1
<1>1. ASSUME NEW j \in 1 .. n, j # k PROVE \E i \in 1 .. n - 1 : j = IF i < k THEN i ELSE i + 1
  <2>1. CASE j < k
    <3>1. j \in 1 .. n - 1
      BY <2>1
    <3> QED BY <2>1, <3>1
  <2>2. CASE j > k
    <3>1. j - 1 \in 1 .. n - 1 /\ ~(j - 1 < k) /\ (j - 1) + 1 = j
      BY <2>2
    <3> QED BY <3>1
  <2> QED BY <1>1, <2>1, <2>2
<1> QED BY <1>1

\* Which headers are on a list after one is replaced, taken off or put in front.
LEMMA ListReplace ==
  ASSUME NEW S, NEW l \in Seq(S), NEW k \in 1 .. Len(l), NEW x \in S
  PROVE  LET m == [l EXCEPT ![k] = x] IN
         /\ m \in Seq(S) /\ Len(m) = Len(l) /\ m[k] = x
         /\ \A i \in 1 .. Len(l) : i # k => m[i] = l[i]
OBVIOUS

LEMMA ListRemove ==
  ASSUME NEW S, NEW l \in Seq(S), NEW k \in 1 .. Len(l)
  PROVE  LET m == MA!RemoveAt(l, k) IN
         /\ m \in Seq(S) /\ Len(m) = Len(l) - 1
         /\ \A i \in 1 .. Len(m) : m[i] = l[IF i < k THEN i ELSE i + 1]
<1> DEFINE p == SubSeq(l, 1, k - 1)
           q == SubSeq(l, k + 1, Len(l))
<1>1. Len(l) \in Nat
  OBVIOUS
<1>2. p \in Seq(S) /\ Len(p) = k - 1 /\ \A i \in 1 .. k - 1 : p[i] = l[i]
  BY <1>1
<1>3. q \in Seq(S) /\ Len(q) = Len(l) - k /\ \A i \in 1 .. Len(l) - k : q[i] = l[k + i]
  BY <1>1
<1>4. MA!RemoveAt(l, k) = p \o q
  BY DEF MA!RemoveAt
<1> HIDE DEF p, q
<1>5. p \o q \in Seq(S) /\ Len(p \o q) = Len(l) - 1
  <2>1. p \o q \in Seq(S) /\ Len(p \o q) = Len(p) + Len(q)
    BY <1>2, <1>3, ListConcat
  <2> QED BY <1>1, <1>2, <1>3, <2>1
<1>6. ASSUME NEW i \in 1 .. Len(l) - 1 PROVE (p \o q)[i] = l[IF i < k THEN i ELSE i + 1]
  <2>1. CASE i < k
    BY <1>1, <1>2, <1>3, <2>1
  <2>2. CASE ~(i < k)
    <3>1. (p \o q)[i] = q[i - (k - 1)]
      BY <1>1, <1>2, <1>3, <2>2
    <3>2. q[i - (k - 1)] = l[k + (i - (k - 1))]
      BY <1>1, <1>3, <2>2
    <3> QED BY <1>1, <2>2, <3>1, <3>2
  <2> QED BY <2>1, <2>2
<1> QED BY <1>1, <1>4, <1>5, <1>6

LEMMA ListPush ==
  ASSUME NEW S, NEW l \in Seq(S), NEW x \in S
  PROVE  LET m == <<x>> \o l IN
         /\ m \in Seq(S) /\ Len(m) = Len(l) + 1 /\ m[1] = x
         /\ \A i \in 2 .. Len(m) : m[i] = l[i - 1]
OBVIOUS

-----------------------------------------------------------------------------
(* One step on the blocks *)

\* Where a block is, in numbers.
LEMMA BlockPlace ==
  ASSUME LIMIT \in Nat, NEW h, NEW used, Sound(h, used), NEW b \in used \cup OnList(h)
  PROVE  /\ b \in Units0 /\ b + 1 \in Units0
         /\ b \in Nat /\ h.size[b] \in Nat /\ h.brk \in Nat /\ h.brk <= LIMIT
         /\ End(h, b) = b + 2 + h.size[b]
         /\ End(h, b) <= h.brk
<1>1. b \in Units0
  BY HeapFields DEF Sound, OnList
<1>2. h.size[b] \in Nat /\ h.brk \in 0 .. LIMIT /\ End(h, b) <= h.brk
  BY <1>1, HeapFields DEF Sound, Whole
<1>3. End(h, b) = b + 2 + h.size[b]
  BY DEF End, MA!HEADER_SIZE
<1> QED BY <1>1, <1>2, <1>3 DEF Units0

\* Writing to the body of a block of the program disturbs no header and no other block.
LEMMA WriteBody ==
  ASSUME LIMIT \in Nat, NEW h, NEW used, Sound(h, used), NEW b \in used,
         NEW m \in [Units0 -> Int],
         \A u \in Units0 : u < b + 2 \/ u >= End(h, b) => m[u] = h.mem[u]
  PROVE  LET g == MA!Heap(m, h.size, h.brk, h.list) IN
         /\ Sound(g, used)
         /\ \A a \in used \ {b} : Kept(h, g, a)
<1> DEFINE g == MA!Heap(m, h.size, h.brk, h.list)
<1>0. /\ h.mem \in [Units0 -> Int] /\ h.size \in [Units0 -> Nat]
      /\ h.brk \in 0 .. LIMIT /\ h.list \in Seq(Units0)
  BY HeapFields DEF Sound
<1> HIDE DEF g
<1>1. g.mem = m /\ g.size = h.size /\ g.brk = h.brk /\ g.list = h.list /\ g \in HeapType
  BY <1>0 DEF g, MA!Heap, HeapType
<1>2. OnList(g) = OnList(h) /\ \A a : End(g, a) = End(h, a)
  BY <1>1 DEF OnList, End
<1>3. \A a \in used \cup OnList(h) : a # b => Apart(h, a, b)
  BY DEF Sound
<1>4. ASSUME NEW a \in used \cup OnList(h) PROVE Whole(g, a)
  <2>1. m[a] = h.mem[a] /\ m[a + 1] = h.mem[a + 1]
    BY <1>3, BlockPlace DEF Apart
  <2>2. Whole(h, a)
    BY DEF Sound
  <2> QED BY <1>1, <1>2, <2>1, <2>2 DEF Whole
<1>5. ASSUME NEW a \in used \ {b} PROVE Kept(h, g, a)
  <2>1. ASSUME NEW u \in a .. End(h, a) - 1 PROVE m[u] = h.mem[u]
    <3>1. a \in Nat /\ h.brk \in Nat /\ h.brk <= LIMIT /\ End(h, a) \in Nat /\ End(h, a) <= h.brk
      BY BlockPlace
    <3>2. u \in Units0
      BY <3>1 DEF Units0
    <3> QED BY <1>3, <3>2, BlockPlace DEF Apart
  <2> QED BY <1>1, <2>1 DEF Kept
<1>6. \A x, y \in used \cup OnList(h) : x # y => Apart(g, x, y)
  BY <1>2 DEF Sound, Apart
<1>7. Sound(g, used)
  BY <1>1, <1>2, <1>4, <1>6 DEF Sound
<1> QED BY <1>5, <1>7 DEF g

\* A block of the program that gives up its end keeps what it has left.
LEMMA Shrink ==
  ASSUME LIMIT \in Nat, NEW h, NEW used, Sound(h, used), NEW b \in used,
         NEW size \in Nat, size <= h.size[b]
  PROVE  LET g == MA!Heap(h.mem, [h.size EXCEPT ![b] = size], h.brk, h.list) IN
         /\ Sound(g, used)
         /\ g.size[b] = size
         /\ \A a \in used \ {b} : Kept(h, g, a)
<1> DEFINE z == [h.size EXCEPT ![b] = size]
           g == MA!Heap(h.mem, z, h.brk, h.list)
<1>1. b \in Units0 /\ h.size \in [Units0 -> Nat]
  BY HeapFields DEF Sound
<1>2. z \in [Units0 -> Nat] /\ z[b] = size /\ \A a \in Units0 \ {b} : z[a] = h.size[a]
  BY <1>1
<1> HIDE DEF z
<1>0. /\ h.mem \in [Units0 -> Int] /\ h.size \in [Units0 -> Nat]
      /\ h.brk \in 0 .. LIMIT /\ h.list \in Seq(Units0)
  BY HeapFields DEF Sound
<1> HIDE DEF g
<1>3. g.mem = h.mem /\ g.size = z /\ g.brk = h.brk /\ g.list = h.list /\ g \in HeapType
  BY <1>0, <1>2 DEF g, MA!Heap, HeapType
<1>4. OnList(g) = OnList(h)
  BY <1>3 DEF OnList
<1>5. ASSUME NEW a \in used \cup OnList(h)
      PROVE  End(g, a) \in Nat /\ End(h, a) \in Nat /\ End(g, a) <= End(h, a)
  <2>1. a \in Units0 /\ a \in Nat /\ h.size[a] \in Nat
    BY BlockPlace
  <2>2. g.size[a] \in Nat /\ g.size[a] <= h.size[a]
    BY <1>2, <1>3, <2>1
  <2> QED BY <2>1, <2>2 DEF End, MA!HEADER_SIZE
<1>6. ASSUME NEW a \in used \cup OnList(h) PROVE Whole(g, a)
  <2>1. Whole(h, a)
    BY DEF Sound
  <2> QED BY <1>3, <1>5, <2>1, BlockPlace DEF Whole
<1>7. ASSUME NEW x \in used \cup OnList(h), NEW y \in used \cup OnList(h), x # y
      PROVE  Apart(g, x, y)
  <2>1. Apart(h, x, y)
    BY <1>7 DEF Sound
  <2>2. x \in Nat /\ y \in Nat
    BY BlockPlace
  <2> QED BY <1>5, <2>1, <2>2 DEF Apart
<1>8. Sound(g, used)
  BY <1>3, <1>4, <1>6, <1>7 DEF Sound
<1>9. \A a \in used \ {b} : Kept(h, g, a)
  BY <1>2, <1>3, BlockPlace DEF Kept
<1> QED BY <1>2, <1>3, <1>8, <1>9 DEF g, z

\* A block of the program goes to the list.
LEMMA FreeSound ==
  ASSUME LIMIT \in Nat, NEW h, NEW used, Sound(h, used), NEW p \in Int, p - 2 \in used
  PROVE  /\ Sound(MA!Free(h, p), used \ {p - 2})
         /\ \A a \in used \ {p - 2} : Kept(h, MA!Free(h, p), a)
<1> DEFINE b == p - 2
           l == <<b>> \o h.list
           g == MA!Heap(h.mem, h.size, h.brk, l)
<1>0. /\ h.mem \in [Units0 -> Int] /\ h.size \in [Units0 -> Nat]
      /\ h.brk \in 0 .. LIMIT /\ h.list \in Seq(Units0) /\ b \in Units0
  BY HeapFields DEF Sound
<1>1. MA!Free(h, p) = g
  BY FieldSet DEF MA!Free, MA!HEADER_SIZE, Sound
<1>2. /\ l \in Seq(Units0) /\ Len(l) = Len(h.list) + 1 /\ l[1] = b /\ Len(h.list) \in Nat
      /\ \A i \in 2 .. Len(l) : l[i] = h.list[i - 1]
  BY <1>0, ListPush
<1>3. b \in used
  OBVIOUS
<1> HIDE DEF b, l, g
<1>4. g.mem = h.mem /\ g.size = h.size /\ g.brk = h.brk /\ g.list = l /\ g \in HeapType
  BY <1>0, <1>2 DEF g, MA!Heap, HeapType
<1>5. OnList(g) = OnList(h) \cup {b}
  <2>1. ASSUME NEW x \in OnList(g) PROVE x \in OnList(h) \cup {b}
    <3>1. PICK i \in 1 .. Len(l) : x = l[i]
      BY <1>4 DEF OnList
    <3>2. CASE i = 1
      BY <1>2, <3>1, <3>2
    <3>3. CASE i # 1
      <4>1. i \in 2 .. Len(l) /\ i - 1 \in 1 .. Len(h.list)
        BY <1>2, <3>3
      <4> QED BY <1>2, <3>1, <4>1 DEF OnList
    <3> QED BY <3>2, <3>3
  <2>2. b \in OnList(g)
    BY <1>2, <1>4 DEF OnList
  <2>3. ASSUME NEW x \in OnList(h) PROVE x \in OnList(g)
    <3>1. PICK i \in 1 .. Len(h.list) : x = h.list[i]
      BY DEF OnList
    <3>2. i + 1 \in 2 .. Len(l) /\ i + 1 \in 1 .. Len(l) /\ (i + 1) - 1 = i
      BY <1>2
    <3>3. l[i + 1] = x
      BY <1>2, <3>1, <3>2
    <3> QED BY <1>4, <3>2, <3>3 DEF OnList
  <2> QED BY <2>1, <2>2, <2>3
<1>6. (used \ {b}) \cup OnList(g) = used \cup OnList(h)
  BY <1>3, <1>5
<1>7. \A a \in used \cup OnList(h) : Whole(g, a)
  BY <1>4 DEF Sound, Whole, End
<1>8. \A x, y \in used \cup OnList(h) : x # y => Apart(g, x, y)
  BY <1>4 DEF Sound, Apart, End
<1>9. ASSUME NEW i \in 1 .. Len(l), NEW j \in 1 .. Len(l), l[i] = l[j] PROVE i = j
  <2>1. \A k \in 2 .. Len(l) : k - 1 \in 1 .. Len(h.list) /\ l[k] = h.list[k - 1] /\ l[k] # b
    BY <1>2, <1>3 DEF Sound, OnList
  <2>2. CASE i = 1 \/ j = 1
    BY <1>2, <1>9, <2>1, <2>2
  <2>3. CASE i # 1 /\ j # 1
    <3>1. i \in 2 .. Len(l) /\ j \in 2 .. Len(l)
      BY <1>2, <2>3
    <3>2. i - 1 = j - 1
      BY <1>9, <2>1, <3>1 DEF Sound
    <3> QED BY <3>2
  <2> QED BY <2>2, <2>3
<1>10. \A a \in used \ {b} : a \notin OnList(g)
  BY <1>5 DEF Sound
<1>11. used \ {b} \subseteq Units0
  BY DEF Sound
<1>12. Sound(g, used \ {b})
  BY <1>4, <1>6, <1>7, <1>8, <1>9, <1>10, <1>11 DEF Sound
<1>13. \A a \in used \ {b} : Kept(h, g, a)
  BY <1>4 DEF Kept
<1> QED BY <1>1, <1>12, <1>13 DEF b

\* A new block at the break.
LEMMA BreakSound ==
  ASSUME LIMIT \in Nat, NEW h, NEW used, Sound(h, used), NEW size \in Nat,
         NEW b \in Nat, h.brk = b, b + 2 + size <= LIMIT
  PROVE  \E g :
           /\ MA!FromBreak(h, size) = [ptr |-> b + 2, h |-> g]
           /\ Grants(h, used, size, g, b)
<1> DEFINE g0 == MA!Heap(h.mem, h.size, b + 2 + size, h.list)
           g == MA!SetHeader(g0, b, size)
<1>0. /\ h.mem \in [Units0 -> Int] /\ h.size \in [Units0 -> Nat]
      /\ b \in Nat /\ h.list \in Seq(Units0)
  BY HeapFields DEF Sound
<1>1. b \in Units0 /\ b + 1 \in Units0 /\ b + 2 + size \in 0 .. LIMIT
  BY <1>0 DEF Units0
<1>2. MA!FromBreak(h, size) = [ptr |-> b + 2, h |-> g]
  <2>1. [h EXCEPT !.brk = b + 2 + size] = g0
    BY FieldSet DEF Sound
  <2>2. ~(h.brk + MA!HEADER_SIZE + size > LIMIT)
    BY <1>0 DEF MA!HEADER_SIZE
  <2> QED BY <2>1, <2>2 DEF MA!FromBreak, MA!HEADER_SIZE
<1> HIDE DEF g0
<1>3. /\ g0.mem = h.mem /\ g0.size = h.size /\ g0.brk = b + 2 + size /\ g0.list = h.list
      /\ g0 \in HeapType
  BY <1>0, <1>1 DEF g0, MA!Heap, HeapType
<1>4. /\ g \in HeapType /\ g.brk = b + 2 + size /\ g.list = h.list
      /\ g.size = [h.size EXCEPT ![b] = size]
      /\ \A u \in Units0 : g.mem[u] = IF u = b \/ u = b + 1 THEN MA!Head0 ELSE h.mem[u]
  BY <1>1, <1>3, HeaderSet
<1> HIDE DEF g
<1>5. g.size[b] = size /\ \A a \in Units0 \ {b} : g.size[a] = h.size[a]
  BY <1>0, <1>1, <1>4
<1>6. OnList(g) = OnList(h)
  BY <1>4 DEF OnList
<1>7. ASSUME NEW a \in used \cup OnList(h)
      PROVE  /\ a \in Units0 /\ a + 1 \in Units0 /\ a \in Nat /\ a + 2 <= b /\ a # b
             /\ End(g, a) = End(h, a) /\ End(h, a) \in Nat /\ End(h, a) <= b
  <2>1. /\ a \in Units0 /\ a + 1 \in Units0 /\ a \in Nat /\ h.size[a] \in Nat
        /\ End(h, a) = a + 2 + h.size[a] /\ End(h, a) <= b
    BY BlockPlace
  <2>2. a + 2 <= b /\ a # b
    BY <1>0, <2>1
  <2>3. g.size[a] = h.size[a]
    BY <1>5, <2>1, <2>2
  <2> QED BY <2>1, <2>2, <2>3 DEF End
<1>8. End(g, b) = b + 2 + size
  BY <1>5 DEF End, MA!HEADER_SIZE
<1>9. ASSUME NEW a \in used \cup OnList(h) PROVE Whole(g, a)
  <2>1. g.mem[a] = h.mem[a] /\ g.mem[a + 1] = h.mem[a + 1]
    <3>1. a \in Units0 /\ a + 1 \in Units0 /\ a \in Nat /\ a + 2 <= b
      BY <1>7
    <3>2. a # b /\ a # b + 1 /\ a + 1 # b /\ a + 1 # b + 1
      BY <1>0, <3>1
    <3> QED BY <1>4, <3>1, <3>2
  <2>2. Whole(h, a)
    BY DEF Sound
  <2> QED BY <1>0, <1>4, <1>7, <2>1, <2>2 DEF Whole
<1>10. Whole(g, b)
  BY <1>0, <1>1, <1>4, <1>8 DEF Whole
<1>11. ASSUME NEW x \in used \cup {b} \cup OnList(h), NEW y \in used \cup {b} \cup OnList(h), x # y
       PROVE  Apart(g, x, y)
  <2>1. CASE x = b \/ y = b
    BY <1>7, <1>11, <2>1 DEF Apart
  <2>2. CASE x # b /\ y # b
    <3>1. Apart(h, x, y)
      BY <1>11, <2>2 DEF Sound
    <3> QED BY <1>7, <1>11, <2>2, <3>1 DEF Apart
  <2> QED BY <2>1, <2>2
<1>12. b \notin used /\ b \notin OnList(h)
  BY <1>7
<1>13. Sound(g, used \cup {b})
  <2>1. used \cup {b} \subseteq Units0
    BY <1>1 DEF Sound
  <2>2. \A a \in used \cup {b} : a \notin OnList(g)
    BY <1>6, <1>12 DEF Sound
  <2>3. \A i, j \in 1 .. Len(g.list) : g.list[i] = g.list[j] => i = j
    BY <1>4 DEF Sound
  <2> QED BY <1>4, <1>6, <1>9, <1>10, <1>11, <2>1, <2>2, <2>3 DEF Sound
<1>14. ASSUME NEW a \in used PROVE Kept(h, g, a)
  <2>1. ASSUME NEW u \in a .. End(h, a) - 1 PROVE g.mem[u] = h.mem[u]
    <3>1. u \in Units0 /\ u < b
      <4>1. a \in Nat /\ End(h, a) \in Nat /\ End(h, a) <= b
        BY <1>7
      <4>2. u \in Int /\ a <= u /\ u < End(h, a)
        BY ONLY <2>1, <4>1
      <4>3. u \in Nat /\ u < b
        BY ONLY <4>1, <4>2, b \in Nat
      <4>4. b < LIMIT
        BY ONLY <1>1, LIMIT \in Nat DEF Units0
      <4> QED BY ONLY <4>3, <4>4, b \in Nat, LIMIT \in Nat DEF Units0
    <3>2. u # b /\ u # b + 1
      BY ONLY <1>0, <3>1, b \in Nat DEF Units0
    <3> QED BY ONLY <1>4, <3>1, <3>2
  <2> QED BY <1>5, <1>7, <2>1 DEF Kept
<1>15. Grants(h, used, size, g, b)
  BY <1>1, <1>5, <1>12, <1>13, <1>14 DEF Grants
<1> QED BY <1>2, <1>15

\* A block of the list, taken as it is.
LEMMA TakeSound ==
  ASSUME LIMIT \in Nat, NEW h, NEW used, Sound(h, used), NEW k \in 1 .. Len(h.list),
         NEW size \in Nat, size <= h.size[h.list[k]]
  PROVE  Grants(h, used, size, MA!Heap(h.mem, h.size, h.brk, MA!RemoveAt(h.list, k)), h.list[k])
<1> DEFINE b == h.list[k]
           l == MA!RemoveAt(h.list, k)
           g == MA!Heap(h.mem, h.size, h.brk, l)
<1>0. /\ h.mem \in [Units0 -> Int] /\ h.size \in [Units0 -> Nat]
      /\ h.brk \in 0 .. LIMIT /\ h.list \in Seq(Units0) /\ b \in Units0
      /\ Len(h.list) \in Nat
  BY HeapFields DEF Sound
<1>1. /\ l \in Seq(Units0) /\ Len(l) = Len(h.list) - 1
      /\ \A i \in 1 .. Len(l) : l[i] = h.list[IF i < k THEN i ELSE i + 1]
  BY <1>0, ListRemove
<1>2. b \in OnList(h) /\ b \notin used
  BY DEF Sound, OnList
<1>3. \A i \in 1 .. Len(h.list) : h.list[i] = b => i = k
  BY DEF Sound
<1> HIDE DEF b, l, g
<1>4. g.mem = h.mem /\ g.size = h.size /\ g.brk = h.brk /\ g.list = l /\ g \in HeapType
  BY <1>0, <1>1 DEF g, MA!Heap, HeapType
<1>5. ASSUME NEW i \in 1 .. Len(l)
      PROVE  /\ (IF i < k THEN i ELSE i + 1) \in 1 .. Len(h.list)
             /\ (IF i < k THEN i ELSE i + 1) # k
  BY <1>0, <1>1, SkipOne
<1>6. OnList(g) = OnList(h) \ {b}
  <2>1. ASSUME NEW x \in OnList(g) PROVE x \in OnList(h) \ {b}
    <3>1. PICK i \in 1 .. Len(l) : x = l[i]
      BY <1>4 DEF OnList
    <3>2. PICK j \in 1 .. Len(h.list) : x = h.list[j] /\ j # k
      BY <1>1, <1>5, <3>1
    <3> QED BY <1>3, <3>2 DEF OnList
  <2>2. ASSUME NEW x \in OnList(h), x # b PROVE x \in OnList(g)
    <3>1. PICK j \in 1 .. Len(h.list) : x = h.list[j]
      BY DEF OnList
    <3>2. j # k
      BY <2>2, <3>1 DEF b
    <3>3. PICK i \in 1 .. Len(l) : j = IF i < k THEN i ELSE i + 1
      <4>1. \E i \in 1 .. Len(h.list) - 1 : j = IF i < k THEN i ELSE i + 1
        <5>1. ASSUME NEW n \in Nat, n = Len(h.list)
              PROVE  \E i \in 1 .. n - 1 : j = IF i < k THEN i ELSE i + 1
          BY <3>2, <5>1, SkipOne
        <5> QED BY <1>0, <5>1
      <4> QED BY <1>1, <4>1
    <3> QED BY <1>1, <1>4, <3>1, <3>3 DEF OnList
  <2> QED BY <2>1, <2>2
<1>7. used \cup {b} \cup OnList(g) = used \cup OnList(h)
  BY <1>2, <1>6
<1>8. \A a \in used \cup OnList(h) : Whole(g, a)
  BY <1>4 DEF Sound, Whole, End
<1>9. \A x, y \in used \cup OnList(h) : x # y => Apart(g, x, y)
  BY <1>4 DEF Sound, Apart, End
<1>10. ASSUME NEW i \in 1 .. Len(l), NEW j \in 1 .. Len(l), l[i] = l[j] PROVE i = j
  <2>1. (IF i < k THEN i ELSE i + 1) = (IF j < k THEN j ELSE j + 1)
    BY <1>1, <1>5, <1>10 DEF Sound
  <2> QED BY <1>0, <1>1, <2>1, SkipOne
<1>11. Sound(g, used \cup {b})
  <2>1. used \cup {b} \subseteq Units0
    BY <1>0 DEF Sound
  <2>2. \A a \in used \cup {b} : a \notin OnList(g)
    BY <1>6 DEF Sound
  <2> QED BY <1>4, <1>7, <1>8, <1>9, <1>10, <2>1, <2>2 DEF Sound
<1>12. \A a \in used : Kept(h, g, a)
  BY <1>4 DEF Kept
<1>13. size <= g.size[b]
  BY <1>4 DEF b
<1>14. Grants(h, used, size, g, b)
  BY <1>0, <1>2, <1>11, <1>12, <1>13 DEF Grants
<1> QED BY <1>14 DEF b, g, l

\* The block b at place k of the list has room for size units, a header and left more.
CanCut(h, k, size, b, have, rest, left) ==
  /\ k \in 1 .. Len(h.list) /\ h.list[k] = b /\ h.size[b] = have
  /\ rest = b + 2 + size /\ have = size + 2 + left /\ left >= 1

CutHeap(h, k, size, b, rest, left) ==
  MA!SetHeader(MA!Heap(h.mem, [h.size EXCEPT ![b] = size], h.brk, [h.list EXCEPT ![k] = rest]), rest, left)

\* A block of the list is cut in two: the program takes the front, the rest takes its
\* place on the list.
LEMMA SplitSound ==
  ASSUME LIMIT \in Nat, NEW h, NEW used, Sound(h, used), NEW k, NEW size \in Nat, NEW b \in Nat,
         NEW have \in Nat, NEW rest \in Nat, NEW left \in Nat,
         CanCut(h, k, size, b, have, rest, left)
  PROVE  Grants(h, used, size, CutHeap(h, k, size, b, rest, left), b)
<1>N. /\ b \in Nat /\ size \in Nat /\ have \in Nat /\ rest \in Nat /\ left \in Nat /\ LIMIT \in Nat
      /\ rest = b + 2 + size /\ have = size + 2 + left /\ left >= 1
  BY DEF CanCut
<1>S. Sound(h, used)
  OBVIOUS
<1>K. k \in 1 .. Len(h.list) /\ b = h.list[k] /\ have = h.size[b]
  BY DEF CanCut
<1> DEFINE z0 == [h.size EXCEPT ![b] = size]
           l == [h.list EXCEPT ![k] = rest]
           g0 == MA!Heap(h.mem, z0, h.brk, l)
           g == MA!SetHeader(g0, rest, left)
<1>0. /\ h.mem \in [Units0 -> Int] /\ h.size \in [Units0 -> Nat]
      /\ h.brk \in 0 .. LIMIT /\ h.list \in Seq(Units0) /\ Len(h.list) \in Nat
  BY ONLY <1>S, HeapFields DEF Sound
<1>1. b \in OnList(h) /\ b \notin used /\ \A i \in 1 .. Len(h.list) : h.list[i] = b => i = k
  BY <1>K DEF Sound, OnList
<1>2. /\ b \in Nat /\ b \in Units0 /\ b + 1 \in Units0
      /\ End(h, b) = b + 2 + have /\ b + 2 + have <= h.brk /\ h.brk \in Nat /\ h.brk <= LIMIT
      /\ b + 2 + have <= LIMIT
  <2>1. /\ b \in Nat /\ b \in Units0 /\ b + 1 \in Units0
        /\ End(h, b) = b + 2 + have /\ End(h, b) <= h.brk /\ h.brk \in Nat /\ h.brk <= LIMIT
    BY <1>1, <1>K, BlockPlace
  <2> QED BY ONLY <1>N, <2>1
<1>3. rest \in Units0 /\ rest + 1 \in Units0 /\ rest # b /\ rest + 2 + left = b + 2 + have
  BY ONLY <1>N, <1>2 DEF Units0
<1>4. z0 \in [Units0 -> Nat] /\ z0[b] = size /\ \A a \in Units0 \ {b} : z0[a] = h.size[a]
  BY <1>0, <1>2
<1>5. /\ l \in Seq(Units0) /\ Len(l) = Len(h.list) /\ l[k] = rest
      /\ \A i \in 1 .. Len(h.list) : i # k => l[i] = h.list[i]
  <2>1. k \in 1 .. Len(h.list)
    BY ONLY <1>K
  <2> QED BY ONLY <1>0, <1>3, <2>1, ListReplace
<1> HIDE DEF z0, l, g0
<1>6. g0.mem = h.mem /\ g0.size = z0 /\ g0.brk = h.brk /\ g0.list = l /\ g0 \in HeapType
  BY <1>0, <1>4, <1>5 DEF g0, MA!Heap, HeapType
<1>7. /\ g \in HeapType /\ g.brk = h.brk /\ g.list = l
      /\ g.size = [z0 EXCEPT ![rest] = left]
      /\ \A u \in Units0 : g.mem[u] = IF u = rest \/ u = rest + 1 THEN MA!Head0 ELSE h.mem[u]
  BY ONLY <1>N, <1>3, <1>6, HeaderSet
<1> HIDE DEF g
<1>8. /\ g.size[b] = size /\ g.size[rest] = left
      /\ \A a \in Units0 : a # b /\ a # rest => g.size[a] = h.size[a]
  BY <1>2, <1>3, <1>4, <1>7
<1>9. End(g, b) = rest /\ End(g, rest) = End(h, b)
  BY ONLY <1>N, <1>2, <1>3, <1>8 DEF End, MA!HEADER_SIZE
\* The other blocks are apart from all of the old one.
<1>10. ASSUME NEW a \in used \cup OnList(h), a # b
       PROVE  /\ a \in Units0 /\ a + 1 \in Units0 /\ a \in Nat /\ a # rest
              /\ End(g, a) = End(h, a) /\ End(h, a) \in Nat /\ End(h, a) <= h.brk
              /\ a + 2 <= End(h, a)
              /\ End(h, a) <= b \/ b + 2 + have <= a
  <2>1. /\ a \in Units0 /\ a + 1 \in Units0 /\ a \in Nat /\ h.size[a] \in Nat
        /\ End(h, a) = a + 2 + h.size[a] /\ End(h, a) <= h.brk
    BY BlockPlace
  <2>2. End(h, a) <= b \/ b + 2 + have <= a
    BY <1>1, <1>2, <1>10 DEF Sound, Apart
  <2>3. a # rest
    BY ONLY <1>N, <2>1, <2>2
  <2>4. g.size[a] = h.size[a]
    BY <1>8, <1>10, <2>1, <2>3
  <2>5. End(g, a) = End(h, a)
    BY ONLY <2>4 DEF End
  <2> QED BY ONLY <2>1, <2>2, <2>3, <2>5
<1>11. ASSUME NEW a \in used \cup OnList(h), a # b PROVE Whole(g, a)
  <2>1. a # rest /\ a # rest + 1 /\ a + 1 # rest /\ a + 1 # rest + 1
    <3>1. a \in Nat /\ End(h, a) \in Nat /\ a + 2 <= End(h, a) /\ (End(h, a) <= b \/ b + 2 + have <= a)
      BY <1>10, <1>11
    <3> QED BY ONLY <1>N, <3>1
  <2>2. g.mem[a] = h.mem[a] /\ g.mem[a + 1] = h.mem[a + 1]
    BY <1>7, <1>10, <1>11, <2>1
  <2>3. Whole(h, a)
    BY DEF Sound
  <2> QED BY <1>7, <1>10, <1>11, <2>2, <2>3 DEF Whole
<1>12. Whole(g, b)
  <2>1. b # rest /\ b # rest + 1 /\ b + 1 # rest /\ b + 1 # rest + 1
    BY ONLY <1>N
  <2>2. g.mem[b] = h.mem[b] /\ g.mem[b + 1] = h.mem[b + 1]
    BY <1>2, <1>7, <2>1
  <2>3. Whole(h, b)
    BY <1>1 DEF Sound
  <2>4. rest <= h.brk
    BY ONLY <1>N, <1>2
  <2> QED BY <1>7, <1>9, <2>2, <2>3, <2>4 DEF Whole
<1>13. Whole(g, rest)
  BY <1>2, <1>3, <1>7, <1>9 DEF Whole
<1>14. OnList(g) = (OnList(h) \ {b}) \cup {rest}
  <2>1. ASSUME NEW x \in OnList(g) PROVE x \in (OnList(h) \ {b}) \cup {rest}
    <3>1. PICK i \in 1 .. Len(h.list) : x = l[i]
      BY <1>5, <1>7 DEF OnList
    <3> QED BY <1>1, <1>5, <3>1 DEF OnList
  <2>2. rest \in OnList(g)
    BY <1>K, <1>5, <1>7 DEF OnList
  <2>3. ASSUME NEW x \in OnList(h), x # b PROVE x \in OnList(g)
    <3>1. PICK i \in 1 .. Len(h.list) : x = h.list[i]
      BY DEF OnList
    <3> QED BY <1>K, <1>5, <1>7, <2>3, <3>1 DEF OnList
  <2> QED BY <2>1, <2>2, <2>3
<1> DEFINE Others == (used \cup OnList(h)) \ {b}
<1>15. used \cup {b} \cup OnList(g) = Others \cup {b, rest}
  BY <1>1, <1>14
<1>16. rest \notin Others /\ b \notin Others
  BY <1>10
<1>17. ASSUME NEW a \in Others PROVE Apart(g, a, b) /\ Apart(g, a, rest) /\ Apart(g, b, a) /\ Apart(g, rest, a)
  <2>1. /\ a \in Nat /\ End(g, a) = End(h, a) /\ End(h, a) \in Nat /\ a + 2 <= End(h, a)
        /\ End(h, a) <= b \/ b + 2 + have <= a
    BY <1>10
  <2> QED BY ONLY <1>N, <1>2, <1>9, <2>1 DEF Apart
<1>18. Apart(g, b, rest) /\ Apart(g, rest, b)
  BY <1>3, <1>9 DEF Apart
<1>19. ASSUME NEW x \in Others, NEW y \in Others, x # y PROVE Apart(g, x, y)
  <2>1. Apart(h, x, y)
    BY <1>19 DEF Sound
  <2> QED BY <1>10, <2>1 DEF Apart
<1>20. \A x, y \in used \cup {b} \cup OnList(g) : x # y => Apart(g, x, y)
  <2> HIDE DEF Others
  <2> QED BY <1>15, <1>17, <1>18, <1>19
<1>21. \A a \in used \cup {b} \cup OnList(g) : Whole(g, a)
  BY <1>11, <1>12, <1>13, <1>15
<1>22. ASSUME NEW i \in 1 .. Len(l), NEW j \in 1 .. Len(l), l[i] = l[j] PROVE i = j
  <2>1. \A n \in 1 .. Len(h.list) : n # k => h.list[n] \in Others
    BY <1>1, <1>K DEF OnList
  <2>2. \A n \in 1 .. Len(h.list) : n # k => l[n] # rest
    BY <1>5, <1>16, <2>1
  <2>3. CASE i = k \/ j = k
    BY <1>5, <1>22, <2>2, <2>3
  <2>4. CASE i # k /\ j # k
    BY <1>5, <1>22, <2>4 DEF Sound
  <2> QED BY <2>3, <2>4
<1>23. Sound(g, used \cup {b})
  <2>1. used \cup {b} \subseteq Units0
    BY <1>2 DEF Sound
  <2>2. \A a \in used \cup {b} : a \notin OnList(g)
    BY <1>3, <1>10, <1>14 DEF Sound
  <2> QED BY <1>7, <1>20, <1>21, <1>22, <2>1, <2>2 DEF Sound
<1>24. ASSUME NEW a \in used PROVE Kept(h, g, a)
  <2>1. a # b
    BY <1>1
  <2>2. /\ a \in Units0 /\ a \in Nat /\ a # rest /\ End(h, a) \in Nat /\ End(h, a) <= h.brk
        /\ End(h, a) <= b \/ b + 2 + have <= a
    BY <1>10, <2>1
  <2>3. ASSUME NEW u \in a .. End(h, a) - 1 PROVE g.mem[u] = h.mem[u]
    <3>1. u \in Units0
      BY <1>2, <2>2 DEF Units0
    <3>2. u # rest /\ u # rest + 1
      BY ONLY <1>N, <2>2
    <3> QED BY <1>7, <3>1, <3>2
  <2> QED BY <1>8, <2>1, <2>2, <2>3 DEF Kept
<1>25. Grants(h, used, size, g, b)
  BY <1>1, <1>2, <1>8, <1>23, <1>24 DEF Grants
<1> QED BY ONLY <1>25 DEF g, g0, z0, l, CutHeap

\* The first block of the list that is large enough.
LEMMA ListGrants ==
  ASSUME LIMIT \in Nat, NEW h, NEW used, Sound(h, used), NEW size \in Nat,
         \E i \in DOMAIN h.list : h.size[h.list[i]] >= size
  PROVE  \E b \in Nat : \E g : MA!FromList(h, size) = [ptr |-> b + 2, h |-> g]
                            /\ Grants(h, used, size, g, b)
<1>S. LIMIT \in Nat /\ Sound(h, used) /\ size \in Nat
  OBVIOUS
<1>0. /\ h.mem \in [Units0 -> Int] /\ h.size \in [Units0 -> Nat] /\ h \in HeapType
      /\ h.brk \in 0 .. LIMIT /\ h.list \in Seq(Units0) /\ Len(h.list) \in Nat
      /\ DOMAIN h.list = 1 .. Len(h.list)
  BY ONLY <1>S, HeapFields DEF Sound
<1> DEFINE Fit == {i \in DOMAIN h.list : h.size[h.list[i]] >= size}
           k == MA!Min(Fit)
<1>1. k \in Fit
  <2>0. Fit \subseteq Nat
    BY ONLY <1>0
  <2>1. Fit \subseteq Nat /\ Fit # {}
    BY <2>0
  <2> HIDE DEF Fit
  <2> QED BY <2>1, FirstFit
<1>2. k \in 1 .. Len(h.list) /\ h.size[h.list[k]] >= size
  BY ONLY <1>0, <1>1
<1> HIDE DEF k
<1>3. h.list[k] \in OnList(h)
  BY ONLY <1>2 DEF OnList
<1>4. PICK b \in Nat : b = h.list[k]
  BY ONLY <1>S, <1>3, BlockPlace
<1>5. PICK have \in Nat : have = h.size[b]
  BY ONLY <1>S, <1>3, <1>4, BlockPlace
<1>6. have >= size
  BY ONLY <1>2, <1>4, <1>5
<1>7. CASE MA!Splits(have, size)
  <2>1. have >= size + 3
    BY ONLY <1>7 DEF MA!Splits, MA!HEADER_SIZE, MA!MIN_ALLOC
  <2>2. PICK rest \in Nat : rest = b + 2 + size
    BY ONLY <1>S
  <2>3. PICK left \in Nat : left = have - size - 2 /\ have = size + 2 + left /\ left >= 1
    <3>1. have - size - 2 \in Nat /\ have = size + 2 + (have - size - 2) /\ have - size - 2 >= 1
      BY ONLY <1>S, <2>1
    <3> QED BY ONLY <3>1
  <2>4. CanCut(h, k, size, b, have, rest, left)
    BY ONLY <1>2, <1>4, <1>5, <2>2, <2>3 DEF CanCut
  <2>5. Grants(h, used, size, CutHeap(h, k, size, b, rest, left), b)
    BY ONLY <1>S, <2>4, SplitSound
  <2>6. MA!FromList(h, size) = [ptr |-> b + 2, h |-> CutHeap(h, k, size, b, rest, left)]
    BY ONLY <1>4, <1>5, <1>7, <2>2, <2>3 DEF MA!FromList, k, Fit, MA!HEADER_SIZE, MA!RestSize, CutHeap
  <2> QED BY ONLY <2>5, <2>6
<1>8. CASE ~ MA!Splits(have, size)
  <2> DEFINE g == MA!Heap(h.mem, h.size, h.brk, MA!RemoveAt(h.list, k))
  <2>1. [h EXCEPT !.list = MA!RemoveAt(h.list, k)] = g
    BY ONLY <1>0, FieldSet
  <2>2. MA!FromList(h, size) = [ptr |-> b + 2, h |-> [h EXCEPT !.list = MA!RemoveAt(h.list, k)]]
    BY ONLY <1>4, <1>5, <1>8 DEF MA!FromList, k, Fit, MA!HEADER_SIZE
  <2>3. size <= h.size[h.list[k]]
    BY ONLY <1>4, <1>5, <1>6
  <2>4. Grants(h, used, size, g, b)
    BY ONLY <1>S, <1>2, <1>4, <2>3, TakeSound
  <2> HIDE DEF g
  <2> QED BY ONLY <2>1, <2>2, <2>4
<1> QED BY <1>7, <1>8

\* malloc: nothing, or a block of its own.
LEMMA MallocGrants ==
  ASSUME LIMIT \in Nat, NEW h, NEW used, Sound(h, used), NEW size \in Nat
  PROVE  \/ MA!Malloc(h, size) = [ptr |-> MA!NULL, h |-> h]
         \/ /\ size # 0
            /\ \E b \in Nat : \E g : /\ MA!Malloc(h, size) = [ptr |-> b + 2, h |-> g]
                                    /\ Grants(h, used, size, g, b)
<1>S. LIMIT \in Nat /\ Sound(h, used) /\ size \in Nat
  OBVIOUS
<1>1. CASE size = 0
  BY <1>1 DEF MA!Malloc
<1>2. CASE size # 0 /\ \E i \in DOMAIN h.list : h.size[h.list[i]] >= size
  <2>1. MA!Malloc(h, size) = MA!FromList(h, size)
    BY ONLY <1>2 DEF MA!Malloc
  <2> QED BY ONLY <1>S, <1>2, <2>1, ListGrants
<1>3. CASE size # 0 /\ ~ \E i \in DOMAIN h.list : h.size[h.list[i]] >= size
  <2>1. MA!Malloc(h, size) = MA!FromBreak(h, size)
    BY ONLY <1>3 DEF MA!Malloc
  <2>2. PICK b \in Nat : h.brk = b
    BY ONLY <1>S, HeapFields DEF Sound
  <2>3. CASE b + 2 + size > LIMIT
    BY ONLY <2>1, <2>2, <2>3 DEF MA!FromBreak, MA!HEADER_SIZE
  <2>4. CASE ~(b + 2 + size > LIMIT)
    <3>1. b + 2 + size <= LIMIT
      BY ONLY <1>S, <2>4
    <3> QED BY ONLY <1>S, <1>3, <2>1, <2>2, <3>1, BreakSound
  <2> QED BY <2>3, <2>4
<1> QED BY <1>1, <1>2, <1>3

-----------------------------------------------------------------------------
(* The blocks and what the program holds *)

\* What the program holds after it gives back a block.
LEMMA DropFields ==
  ASSUME NEW f, NEW p \in Int, DOMAIN f \subseteq Int
  PROVE  LET o == MA!Restrict(f, DOMAIN f \ {p}) IN
         /\ DOMAIN o = DOMAIN f \ {p}
         /\ \A q \in DOMAIN f \ {p} : o[q] = f[q]
         /\ Used(o) = Used(f) \ {p - 2}
<1> DEFINE o == MA!Restrict(f, DOMAIN f \ {p})
<1>1. DOMAIN o = DOMAIN f \ {p} /\ \A q \in DOMAIN f \ {p} : o[q] = f[q]
  BY DEF MA!Restrict
<1> HIDE DEF o
<1>2. Used(o) = Used(f) \ {p - 2}
  <2>1. ASSUME NEW x \in Used(o) PROVE x \in Used(f) \ {p - 2}
    <3>1. PICK q \in DOMAIN f \ {p} : x = q - 2
      BY <1>1 DEF Used, MA!HEADER_SIZE
    <3>2. q \in Int /\ q # p
      BY <3>1
    <3>3. x # p - 2
      BY ONLY <3>1, <3>2
    <3> QED BY <3>1, <3>3 DEF Used, MA!HEADER_SIZE
  <2>2. ASSUME NEW x \in Used(f), x # p - 2 PROVE x \in Used(o)
    <3>1. PICK q \in DOMAIN f : x = q - 2
      BY DEF Used, MA!HEADER_SIZE
    <3>2. q # p
      BY <2>2, <3>1
    <3> QED BY <1>1, <3>1, <3>2 DEF Used, MA!HEADER_SIZE
  <2> QED BY <2>1, <2>2
<1> QED BY <1>1, <1>2 DEF o

\* Fewer blocks of the program are as sound.
LEMMA SoundFewer ==
  ASSUME NEW h, NEW used, Sound(h, used), NEW fewer, fewer \subseteq used
  PROVE  Sound(h, fewer)
BY DEF Sound

\* What the program wrote to a block that nothing touched is still there.
LEMMA HeldKept ==
  ASSUME LIMIT \in Nat, NEW h, NEW used, Sound(h, used), NEW g, NEW p \in Int, p - 2 \in used,
         NEW s, Held(h, p, s), Kept(h, g, p - 2)
  PROVE  Held(g, p, s)
<1>S. LIMIT \in Nat /\ Sound(h, used) /\ p - 2 \in used \cup OnList(h) /\ Held(h, p, s) /\ Kept(h, g, p - 2)
  OBVIOUS
<1>1. PICK n \in Nat : n = h.size[p - 2] /\ End(h, p - 2) = (p - 2) + 2 + n
  BY ONLY <1>S, BlockPlace
<1>2. PICK len \in Nat : len = Len(s)
  BY ONLY <1>S DEF Held
<1>3. len <= n
  BY ONLY <1>S, <1>1, <1>2 DEF Held, MA!HEADER_SIZE
<1>4. ASSUME NEW k \in 1 .. len PROVE g.mem[p + k - 1] = s[k]
  <2>1. p + k - 1 \in (p - 2) .. ((p - 2) + 2 + n) - 1
    BY ONLY <1>3
  <2>2. g.mem[p + k - 1] = h.mem[p + k - 1]
    BY ONLY <1>S, <1>1, <2>1 DEF Kept
  <2>3. h.mem[p + k - 1] = s[k]
    BY ONLY <1>S, <1>2 DEF Held
  <2> QED BY <2>2, <2>3
<1>5. g.size[p - 2] = h.size[p - 2]
  BY ONLY <1>S DEF Kept
<1> QED BY ONLY <1>S, <1>2, <1>4, <1>5 DEF Held, MA!HEADER_SIZE

\* The program gives a block back.
LEMMA DropBlock ==
  ASSUME LIMIT \in Nat, NEW h, NEW f, HeapInv(h, f), NEW p \in DOMAIN f
  PROVE  HeapInv(MA!Free(h, p), MA!Restrict(f, DOMAIN f \ {p}))
<1> DEFINE o == MA!Restrict(f, DOMAIN f \ {p})
           g == MA!Free(h, p)
<1>S. LIMIT \in Nat /\ DOMAIN f \subseteq Int /\ Sound(h, Used(f)) /\ p \in Int
  BY DEF HeapInv
<1>1. /\ DOMAIN o = DOMAIN f \ {p} /\ \A q \in DOMAIN f \ {p} : o[q] = f[q]
      /\ Used(o) = Used(f) \ {p - 2}
  BY ONLY <1>S, DropFields
<1> HIDE DEF o
<1>2. \A q \in DOMAIN f : q - 2 \in Used(f)
  BY DEF Used, MA!HEADER_SIZE
<1>3. p - 2 \in Used(f)
  BY <1>2
<1>4. Sound(g, Used(f) \ {p - 2}) /\ \A a \in Used(f) \ {p - 2} : Kept(h, g, a)
  BY ONLY <1>S, <1>3, FreeSound
<1> HIDE DEF g
<1>5. ASSUME NEW q \in DOMAIN o PROVE Held(g, q, o[q])
  <2>1. q \in DOMAIN f /\ q # p /\ q \in Int /\ o[q] = f[q]
    BY <1>S, <1>1
  <2>2. q - 2 # p - 2
    BY ONLY <1>S, <2>1
  <2>3. Kept(h, g, q - 2) /\ q - 2 \in Used(f)
    BY <1>2, <1>4, <2>1, <2>2
  <2>4. Held(h, q, f[q])
    BY <2>1 DEF HeapInv
  <2> QED BY ONLY <1>S, <2>1, <2>3, <2>4, HeldKept
<1>6. DOMAIN o \subseteq Int
  BY <1>S, <1>1
<1>7. HeapInv(g, o)
  BY ONLY <1>1, <1>4, <1>5, <1>6 DEF HeapInv
<1> QED BY <1>7 DEF o, g

\* The program gets, or keeps, the block b, and s is in it when all is written: m is the
\* memory of g except in that block.
LEMMA AddBlock ==
  ASSUME LIMIT \in Nat, NEW h, NEW f, HeapInv(h, f), NEW b \in Nat, NEW size \in Nat, NEW g,
         Grants(h, Used(f), size, g, b), NEW m \in [Units0 -> Int], NEW s,
         \A u \in Units0 : u < b + 2 \/ u >= End(g, b) => m[u] = g.mem[u],
         Held(MA!Heap(m, g.size, g.brk, g.list), b + 2, s)
  PROVE  HeapInv(MA!Heap(m, g.size, g.brk, g.list), MA!Hold(f, b + 2, s))
<1> DEFINE g2 == MA!Heap(m, g.size, g.brk, g.list)
           p == b + 2
           o == MA!Hold(f, p, s)
<1>S. /\ LIMIT \in Nat /\ DOMAIN f \subseteq Int /\ Sound(h, Used(f)) /\ b \in Used(f) \cup {b}
      /\ p \in Int /\ p - 2 = b
  BY DEF HeapInv
<1>G. /\ b \notin Used(f) /\ Sound(g, Used(f) \cup {b}) /\ \A a \in Used(f) : Kept(h, g, a)
  BY DEF Grants
<1>1. /\ DOMAIN o = DOMAIN f \cup {p} /\ o[p] = s
      /\ \A q \in DOMAIN f : q # p => o[q] = f[q]
      /\ Used(o) = Used(f) \cup {b}
  <2> HIDE DEF p
  <2>1. /\ DOMAIN o = DOMAIN f \cup {p} /\ o[p] = s
        /\ \A q \in DOMAIN f : q # p => o[q] = f[q]
    BY ONLY DEF MA!Hold
  <2> HIDE DEF o
  <2>2. Used(o) = Used(f) \cup {p - 2}
    BY ONLY <2>1 DEF Used, MA!HEADER_SIZE
  <2> QED BY ONLY <1>S, <2>1, <2>2
<1> HIDE DEF o
<1>2. Sound(g2, Used(f) \cup {b}) /\ \A a \in (Used(f) \cup {b}) \ {b} : Kept(g, g2, a)
  <2>1. \A u \in Units0 : u < b + 2 \/ u >= End(g, b) => m[u] = g.mem[u]
    OBVIOUS
  <2>2. m \in [Units0 -> Int]
    OBVIOUS
  <2> QED BY ONLY <1>S, <1>G, <2>1, <2>2, WriteBody
<1>3. Held(g2, p, s)
  OBVIOUS
<1> HIDE DEF g2
<1>4. ASSUME NEW q \in DOMAIN f PROVE q # p /\ Held(g2, q, f[q])
  <2>1. q \in Int /\ q - 2 \in Used(f) /\ q - 2 \in Used(f) \cup {b} /\ q - 2 # b
    BY <1>S, <1>G DEF Used, MA!HEADER_SIZE
  <2>2. q # p
    BY ONLY <1>S, <2>1
  <2>3. Held(h, q, f[q])
    BY DEF HeapInv
  <2>4. Kept(h, g, q - 2) /\ Kept(g, g2, q - 2)
    BY <1>G, <1>2, <2>1
  <2>5. Held(g, q, f[q])
    BY ONLY <1>S, <2>1, <2>3, <2>4, HeldKept
  <2>6. Held(g2, q, f[q])
    BY ONLY <1>S, <1>G, <2>1, <2>4, <2>5, HeldKept
  <2> QED BY <2>2, <2>6
<1>5. \A q \in DOMAIN o : Held(g2, q, o[q])
  BY ONLY <1>1, <1>3, <1>4
<1>6. DOMAIN o \subseteq Int
  BY ONLY <1>S, <1>1
<1>7. HeapInv(g2, o)
  BY ONLY <1>1, <1>2, <1>5, <1>6 DEF HeapInv
<1> QED BY <1>7 DEF g2, o

-----------------------------------------------------------------------------
(* The calls *)

\* n units with v in each.
LEMMA RepFields ==
  ASSUME NEW v \in Int, NEW n \in Nat
  PROVE  /\ MA!Rep(v, n) \in Seq(Int) /\ Len(MA!Rep(v, n)) = n
         /\ \A k \in 1 .. n : MA!Rep(v, n)[k] = v
BY DEF MA!Rep

\* malloc and calloc: the block that was granted is filled with v.
LEMMA FilledBlock ==
  ASSUME LIMIT \in Nat, NEW h, NEW f, HeapInv(h, f), NEW b \in Nat, NEW size \in Nat, NEW g,
         Grants(h, Used(f), size, g, b), NEW v \in Int
  PROVE  HeapInv([g EXCEPT !.mem = MA!Fill(g.mem, b + 2, size, v)], MA!Hold(f, b + 2, MA!Rep(v, size)))
<1>S. LIMIT \in Nat /\ HeapInv(h, f) /\ Grants(h, Used(f), size, g, b)
  OBVIOUS
<1>G. b \in Units0 /\ Sound(g, Used(f) \cup {b}) /\ size <= g.size[b] /\ g \in HeapType
  BY ONLY <1>S DEF Grants, Sound
<1>0. /\ g.mem \in [Units0 -> Int] /\ g.size \in [Units0 -> Nat]
      /\ g.brk \in 0 .. LIMIT /\ g.list \in Seq(Units0)
  BY ONLY <1>G, HeapFields
<1> DEFINE m == MA!Fill(g.mem, b + 2, size, v)
           g2 == MA!Heap(m, g.size, g.brk, g.list)
           s == MA!Rep(v, size)
<1>1. /\ m \in [Units0 -> Int]
      /\ \A u \in Units0 : m[u] = IF b + 2 <= u /\ u < (b + 2) + size THEN v ELSE g.mem[u]
  <2>1. b + 2 \in Int /\ size \in Int
    OBVIOUS
  <2>2. Filled(m, g.mem, b + 2, size, v)
    BY ONLY <1>0, <2>1, v \in Int, FillMem
  <2> QED BY ONLY <2>2 DEF Filled
<1>2. [g EXCEPT !.mem = m] = g2
  BY ONLY <1>G, FieldSet
<1> HIDE DEF m
<1>3. s \in Seq(Int) /\ Len(s) = size /\ \A k \in 1 .. size : s[k] = v
  BY RepFields
<1>4. PICK n \in Nat : n = g.size[b] /\ End(g, b) = b + 2 + n /\ b + 2 + n <= LIMIT
  <2>1. b \in (Used(f) \cup {b}) \cup OnList(g)
    OBVIOUS
  <2>2. /\ g.size[b] \in Nat /\ g.brk \in Nat /\ g.brk <= LIMIT
        /\ End(g, b) = b + 2 + g.size[b] /\ End(g, b) <= g.brk
    BY ONLY <1>S, <1>G, <2>1, BlockPlace
  <2> QED BY ONLY <1>S, <2>2
<1>5. size <= n
  BY ONLY <1>G, <1>4
<1>6. \A u \in Units0 : u < b + 2 \/ u >= End(g, b) => m[u] = g.mem[u]
  BY ONLY <1>1, <1>4, <1>5 DEF Units0
<1>7. g2.mem = m /\ g2.size = g.size
  BY DEF MA!Heap
<1> HIDE DEF g2, s
<1>8. Held(g2, b + 2, s)
  <2>1. ASSUME NEW k \in 1 .. size PROVE m[(b + 2) + k - 1] = v
    <3>1. (b + 2) + k - 1 \in Units0 /\ b + 2 <= (b + 2) + k - 1 /\ (b + 2) + k - 1 < (b + 2) + size
      BY ONLY <1>S, <1>4, <1>5 DEF Units0
    <3> QED BY ONLY <1>1, <3>1
  <2>2. (b + 2) - 2 = b
    OBVIOUS
  <2> QED BY ONLY <1>3, <1>G, <1>7, <2>1, <2>2 DEF Held, MA!HEADER_SIZE
<1>9. HeapInv(g2, MA!Hold(f, b + 2, s))
  BY ONLY <1>S, <1>1, <1>6, <1>8, AddBlock DEF g2
<1> QED BY ONLY <1>2, <1>9 DEF s, m

\* realloc: the block has the start of the old one; its end is filled with v.
LEMMA TailFilled ==
  ASSUME LIMIT \in Nat, NEW h, NEW f, HeapInv(h, f), NEW b \in Nat, NEW size \in Nat, NEW g,
         Grants(h, Used(f), size, g, b), NEW v \in Int,
         NEW m0 \in [Units0 -> Int],
         \A u \in Units0 : u < b + 2 \/ u >= End(g, b) => m0[u] = g.mem[u],
         NEW kept \in Seq(Int), NEW len \in Nat, len = Len(kept), len <= size,
         \A k \in 1 .. len : m0[(b + 2) + k - 1] = kept[k]
  PROVE  HeapInv(MA!Heap(MA!Fill(m0, (b + 2) + len, size - len, v), g.size, g.brk, g.list),
                 MA!Hold(f, b + 2, kept \o MA!Rep(v, size - len)))
<1>S. LIMIT \in Nat /\ HeapInv(h, f) /\ Grants(h, Used(f), size, g, b)
  OBVIOUS
<1>K. len = Len(kept) /\ len <= size /\ kept \in Seq(Int)
  OBVIOUS
<1>M. /\ m0 \in [Units0 -> Int]
      /\ \A u \in Units0 : u < b + 2 \/ u >= End(g, b) => m0[u] = g.mem[u]
      /\ \A k \in 1 .. len : m0[(b + 2) + k - 1] = kept[k]
  OBVIOUS
<1>G. b \in Units0 /\ Sound(g, Used(f) \cup {b}) /\ size <= g.size[b] /\ g \in HeapType
  BY ONLY <1>S DEF Grants, Sound
<1> DEFINE m == MA!Fill(m0, (b + 2) + len, size - len, v)
           g2 == MA!Heap(m, g.size, g.brk, g.list)
           t == MA!Rep(v, size - len)
           s == kept \o t
<1>1. /\ m \in [Units0 -> Int]
      /\ \A u \in Units0 : m[u] = IF (b + 2) + len <= u /\ u < ((b + 2) + len) + (size - len)
                                  THEN v ELSE m0[u]
  <2>1. (b + 2) + len \in Int /\ size - len \in Int
    OBVIOUS
  <2>2. Filled(m, m0, (b + 2) + len, size - len, v)
    BY ONLY <1>M, <2>1, v \in Int, FillMem
  <2> QED BY ONLY <2>2 DEF Filled
<1> HIDE DEF m
<1>2. t \in Seq(Int) /\ Len(t) = size - len /\ \A k \in 1 .. size - len : t[k] = v
  <2>1. size - len \in Nat
    BY ONLY <1>K
  <2> QED BY ONLY <2>1, RepFields
<1> HIDE DEF t
<1>3. /\ s \in Seq(Int) /\ Len(s) = size
      /\ \A k \in 1 .. size : s[k] = IF k <= len THEN kept[k] ELSE v
  <2>1. /\ s \in Seq(Int) /\ Len(s) = Len(kept) + Len(t)
        /\ \A i \in 1 .. Len(kept) + Len(t) : s[i] = IF i <= Len(kept) THEN kept[i] ELSE t[i - Len(kept)]
    BY ONLY <1>K, <1>2, ListConcat
  <2>2. Len(kept) + Len(t) = size
    BY ONLY <1>K, <1>2
  <2> HIDE DEF s
  <2>3. ASSUME NEW k \in 1 .. size, ~(k <= len) PROVE t[k - len] = v
    <3>1. k - len \in 1 .. size - len
      BY ONLY <1>K, <2>3
    <3> QED BY ONLY <1>2, <3>1
  <2> QED BY ONLY <1>K, <2>1, <2>2, <2>3
<1>4. PICK n \in Nat : n = g.size[b] /\ End(g, b) = b + 2 + n /\ b + 2 + n <= LIMIT
  <2>1. b \in (Used(f) \cup {b}) \cup OnList(g)
    OBVIOUS
  <2>2. /\ g.size[b] \in Nat /\ g.brk \in Nat /\ g.brk <= LIMIT
        /\ End(g, b) = b + 2 + g.size[b] /\ End(g, b) <= g.brk
    BY ONLY <1>S, <1>G, <2>1, BlockPlace
  <2> QED BY ONLY <1>S, <2>2
<1>5. size <= n
  BY ONLY <1>G, <1>4
<1>6. ASSUME NEW u \in Units0, u < b + 2 \/ u >= End(g, b) PROVE m[u] = g.mem[u]
  <2>1. ~((b + 2) + len <= u /\ u < ((b + 2) + len) + (size - len))
    BY ONLY <1>K, <1>4, <1>5, <1>6 DEF Units0
  <2> QED BY ONLY <1>M, <1>1, <1>6, <2>1
<1>7. g2.mem = m /\ g2.size = g.size
  BY DEF MA!Heap
<1> HIDE DEF g2, s
<1>8. Held(g2, b + 2, s)
  <2>1. ASSUME NEW k \in 1 .. size PROVE m[(b + 2) + k - 1] = s[k]
    <3>1. (b + 2) + k - 1 \in Units0
      BY ONLY <1>S, <1>4, <1>5 DEF Units0
    <3>2. CASE k <= len
      <4>1. ~((b + 2) + len <= (b + 2) + k - 1) /\ k \in 1 .. len
        BY ONLY <1>K, <3>2
      <4> QED BY ONLY <1>M, <1>1, <1>3, <3>1, <3>2, <4>1
    <3>3. CASE ~(k <= len)
      <4>1. (b + 2) + len <= (b + 2) + k - 1 /\ (b + 2) + k - 1 < ((b + 2) + len) + (size - len)
        BY ONLY <1>K, <3>3
      <4> QED BY ONLY <1>1, <1>3, <3>1, <3>3, <4>1
    <3> QED BY <3>2, <3>3
  <2>2. (b + 2) - 2 = b
    OBVIOUS
  <2> QED BY ONLY <1>3, <1>G, <1>7, <2>1, <2>2 DEF Held, MA!HEADER_SIZE
<1>9. HeapInv(g2, MA!Hold(f, b + 2, s))
  BY ONLY <1>S, <1>1, <1>6, <1>8, AddBlock DEF g2
<1> QED BY ONLY <1>9 DEF s, t, m, g2

\* What realloc keeps of what the program wrote.
LEMMA KeptFields ==
  ASSUME NEW s \in Seq(Int), NEW size \in Nat, NEW len \in Nat, len = MA!Min({Len(s), size})
  PROVE  /\ SubSeq(s, 1, len) \in Seq(Int) /\ Len(SubSeq(s, 1, len)) = len
         /\ len <= size /\ len <= Len(s)
         /\ \A k \in 1 .. len : SubSeq(s, 1, len)[k] = s[k]
<1>1. PICK n \in Nat : n = Len(s)
  OBVIOUS
<1>2. MA!Min({n, size}) = IF n <= size THEN n ELSE size
  BY DEF MA!Min
<1>3. len <= size /\ len <= n
  BY ONLY <1>1, <1>2, len = MA!Min({Len(s), size})
<1>4. /\ SubSeq(s, 1, len) \in Seq(Int) /\ Len(SubSeq(s, 1, len)) = len
      /\ \A k \in 1 .. len : SubSeq(s, 1, len)[k] = s[k]
  BY ONLY <1>1, <1>3, s \in Seq(Int)
<1> QED BY ONLY <1>1, <1>3, <1>4

LEMMA MinNat ==
  ASSUME NEW s \in Seq(Int), NEW size \in Nat
  PROVE  MA!Min({Len(s), size}) \in Nat
<1>1. PICK n \in Nat : n = Len(s)
  OBVIOUS
<1>2. MA!Min({n, size}) = IF n <= size THEN n ELSE size
  BY DEF MA!Min
<1> QED BY ONLY <1>1, <1>2

\* realloc leaves the block where it is.
LEMMA InPlace ==
  ASSUME LIMIT \in Nat, NEW h, NEW f, HeapInv(h, f), NEW b \in Nat, b + 2 \in DOMAIN f,
         NEW size \in Nat, size <= h.size[b], NEW v \in Int, NEW len \in Nat,
         len = MA!Min({Len(f[b + 2]), size})
  PROVE  HeapInv(MA!Heap(MA!Fill(h.mem, (b + 2) + len, size - len, v), [h.size EXCEPT ![b] = size],
                      h.brk, h.list),
                 MA!Hold(MA!Restrict(f, DOMAIN f \ {b + 2}), b + 2,
                      SubSeq(f[b + 2], 1, len) \o MA!Rep(v, size - len)))
<1>S. LIMIT \in Nat /\ HeapInv(h, f) /\ b + 2 \in DOMAIN f /\ b + 2 \in Int /\ (b + 2) - 2 = b
  OBVIOUS
<1>Z. size <= h.size[b]
  OBVIOUS
<1>L. len = MA!Min({Len(f[b + 2]), size})
  OBVIOUS
<1> DEFINE z == [h.size EXCEPT ![b] = size]
           g == MA!Heap(h.mem, z, h.brk, h.list)
           o == MA!Restrict(f, DOMAIN f \ {b + 2})
           kept == SubSeq(f[b + 2], 1, len)
<1>1. Sound(h, Used(f)) /\ DOMAIN f \subseteq Int /\ Held(h, b + 2, f[b + 2])
  BY ONLY <1>S DEF HeapInv
<1>2. b \in Used(f)
  BY ONLY <1>S DEF Used, MA!HEADER_SIZE
<1>3. /\ DOMAIN o = DOMAIN f \ {b + 2} /\ \A q \in DOMAIN f \ {b + 2} : o[q] = f[q]
      /\ Used(o) = Used(f) \ {b}
  <2>1. Used(o) = Used(f) \ {(b + 2) - 2}
    BY ONLY <1>S, <1>1, DropFields
  <2> QED BY ONLY <1>S, <1>1, <2>1, DropFields
<1> HIDE DEF o
<1>4. HeapInv(h, o)
  <2>1. Sound(h, Used(o))
    BY ONLY <1>1, <1>3, SoundFewer
  <2> QED BY ONLY <1>S, <1>3, <2>1 DEF HeapInv
<1>5. Sound(g, Used(f)) /\ g.size[b] = size /\ \A a \in Used(f) \ {b} : Kept(h, g, a)
  BY ONLY <1>S, <1>1, <1>2, <1>Z, Shrink
<1>6. h \in HeapType /\ b \in Units0 /\ h.mem \in [Units0 -> Int] /\ g.mem = h.mem
  BY ONLY <1>1, <1>2, HeapFields DEF Sound, MA!Heap
<1>7. g.size = z /\ g.brk = h.brk /\ g.list = h.list
  BY DEF MA!Heap
<1> HIDE DEF g, z
<1>8. Grants(h, Used(o), size, g, b)
  <2>1. Used(o) \cup {b} = Used(f)
    BY ONLY <1>2, <1>3
  <2>2. size <= size
    OBVIOUS
  <2> QED BY ONLY <1>3, <1>5, <1>6, <2>1, <2>2 DEF Grants
<1>9. f[b + 2] \in Seq(Int) /\ \A k \in 1 .. Len(f[b + 2]) : h.mem[(b + 2) + k - 1] = f[b + 2][k]
  BY ONLY <1>1 DEF Held
<1>10. /\ kept \in Seq(Int) /\ Len(kept) = len /\ len <= size /\ len <= Len(f[b + 2])
       /\ \A k \in 1 .. len : kept[k] = f[b + 2][k]
  BY ONLY <1>9, <1>L, KeptFields
<1> HIDE DEF kept
<1>11. ASSUME NEW k \in 1 .. len PROVE h.mem[(b + 2) + k - 1] = kept[k]
  <2>1. k \in 1 .. Len(f[b + 2])
    BY ONLY <1>9, <1>10
  <2> QED BY ONLY <1>9, <1>10, <2>1
<1>12. HeapInv(MA!Heap(MA!Fill(h.mem, (b + 2) + len, size - len, v), g.size, g.brk, g.list),
               MA!Hold(o, b + 2, kept \o MA!Rep(v, size - len)))
  <2>1. \A u \in Units0 : u < b + 2 \/ u >= End(g, b) => h.mem[u] = g.mem[u]
    BY ONLY <1>6
  <2> QED BY ONLY <1>S, <1>4, <1>6, <1>8, <1>10, <1>11, <2>1, TailFilled
<1> QED BY ONLY <1>7, <1>12 DEF o, kept, z

\* realloc moves the block to b, and then frees the old one.
LEMMA Moved ==
  ASSUME LIMIT \in Nat, NEW h, NEW f, HeapInv(h, f), NEW p \in DOMAIN f,
         NEW size \in Nat, NEW old \in Nat, old = h.size[p - 2], old < size, NEW v \in Int,
         NEW b \in Nat, NEW g, Grants(h, Used(f), size, g, b), NEW len \in Nat,
         len = MA!Min({Len(f[p]), size})
  PROVE  HeapInv(MA!Free(MA!Heap(MA!Fill(MA!Copy(g.mem, b + 2, p, old), (b + 2) + len, size - len, v),
                           g.size, g.brk, g.list), p),
                 MA!Hold(MA!Restrict(f, DOMAIN f \ {p}), b + 2, SubSeq(f[p], 1, len) \o MA!Rep(v, size - len)))
<1>S. LIMIT \in Nat /\ HeapInv(h, f) /\ p \in DOMAIN f /\ p \in Int /\ Grants(h, Used(f), size, g, b)
  BY DEF HeapInv
<1>Z. old = h.size[p - 2] /\ old < size
  OBVIOUS
<1>L. len = MA!Min({Len(f[p]), size})
  OBVIOUS
<1> DEFINE m0 == MA!Copy(g.mem, b + 2, p, old)
           kept == SubSeq(f[p], 1, len)
           s == kept \o MA!Rep(v, size - len)
           g2 == MA!Heap(MA!Fill(m0, (b + 2) + len, size - len, v), g.size, g.brk, g.list)
<1>1. Sound(h, Used(f)) /\ DOMAIN f \subseteq Int /\ Held(h, p, f[p])
  BY ONLY <1>S DEF HeapInv
<1>G. /\ b \in Units0 /\ b \notin Used(f) /\ Sound(g, Used(f) \cup {b}) /\ size <= g.size[b]
      /\ \A a \in Used(f) : Kept(h, g, a)
      /\ g.mem \in [Units0 -> Int]
  BY ONLY <1>S, HeapFields DEF Grants, Sound
<1>2. p - 2 \in Used(f) /\ b + 2 # p
  <2>1. p - 2 \in Used(f)
    BY ONLY <1>S DEF Used, MA!HEADER_SIZE
  <2>2. p - 2 # b
    BY ONLY <1>G, <2>1
  <2> QED BY ONLY <1>S, <2>1, <2>2
<1>3. PICK n \in Nat : n = g.size[b] /\ End(g, b) = b + 2 + n /\ b + 2 + n <= LIMIT /\ size <= n
  <2>1. b \in (Used(f) \cup {b}) \cup OnList(g)
    OBVIOUS
  <2>2. /\ g.size[b] \in Nat /\ g.brk \in Nat /\ g.brk <= LIMIT
        /\ End(g, b) = b + 2 + g.size[b] /\ End(g, b) <= g.brk
    BY ONLY <1>S, <1>G, <2>1, BlockPlace
  <2> QED BY ONLY <1>S, <1>G, <2>2
<1>4. p - 2 \in Nat /\ p + old <= LIMIT
  <2>1. p - 2 \in Used(f) \cup OnList(h)
    BY ONLY <1>2
  <2>2. /\ p - 2 \in Nat /\ h.size[p - 2] \in Nat /\ h.brk \in Nat /\ h.brk <= LIMIT
        /\ End(h, p - 2) = (p - 2) + 2 + h.size[p - 2] /\ End(h, p - 2) <= h.brk
    BY ONLY <1>S, <1>1, <2>1, BlockPlace
  <2>3. (p - 2) + 2 + old <= LIMIT
    BY ONLY <1>S, <1>Z, <2>2
  <2> QED BY ONLY <1>S, <2>2, <2>3
\* The copy reads the old block, writes the new one, and neither leaves the heap.
<1>5. /\ m0 \in [Units0 -> Int]
      /\ \A u \in Units0 : m0[u] = IF b + 2 <= u /\ u < (b + 2) + old
                                   THEN g.mem[p + u - (b + 2)] ELSE g.mem[u]
  <2>1. ASSUME NEW u \in Units0, b + 2 <= u, u < (b + 2) + old PROVE p + u - (b + 2) \in Units0
    BY ONLY <1>S, <1>4, <2>1 DEF Units0
  <2>2. \A u \in Units0 : u \in MA!Units(b + 2, old) <=> b + 2 <= u /\ u < (b + 2) + old
    BY DEF MA!Units, Units0
  <2>3. DOMAIN g.mem = Units0
    BY ONLY <1>G
  <2>4. m0 = [u \in Units0 |-> IF u \in MA!Units(b + 2, old) THEN g.mem[p + u - (b + 2)] ELSE g.mem[u]]
    BY ONLY <2>3 DEF MA!Copy
  <2> HIDE DEF m0
  <2> QED BY ONLY <1>G, <2>1, <2>2, <2>4
<1> HIDE DEF m0
<1>6. \A u \in Units0 : u < b + 2 \/ u >= End(g, b) => m0[u] = g.mem[u]
  BY ONLY <1>Z, <1>3, <1>5, SMTT(30) DEF Units0
<1>7. Held(g, p, f[p])
  BY ONLY <1>S, <1>1, <1>2, <1>G, HeldKept
<1>8. /\ f[p] \in Seq(Int) /\ Len(f[p]) <= old
      /\ \A k \in 1 .. Len(f[p]) : g.mem[p + k - 1] = f[p][k]
  BY ONLY <1>Z, <1>1, <1>7 DEF Held, MA!HEADER_SIZE
<1>9. /\ kept \in Seq(Int) /\ Len(kept) = len /\ len <= size /\ len <= Len(f[p])
      /\ \A k \in 1 .. len : kept[k] = f[p][k]
  BY ONLY <1>8, <1>L, KeptFields, ZenonT(30)
<1> HIDE DEF kept
<1>10. len <= old
  BY ONLY <1>8, <1>9
<1>11. ASSUME NEW k \in 1 .. len PROVE m0[(b + 2) + k - 1] = kept[k]
  <2>1. /\ (b + 2) + k - 1 \in Units0 /\ b + 2 <= (b + 2) + k - 1 /\ (b + 2) + k - 1 < (b + 2) + old
        /\ p + ((b + 2) + k - 1) - (b + 2) = p + k - 1
    BY ONLY <1>S, <1>Z, <1>3, <1>10 DEF Units0
  <2>2. m0[(b + 2) + k - 1] = g.mem[p + k - 1]
    BY ONLY <1>5, <2>1
  <2>3. k \in 1 .. Len(f[p])
    BY ONLY <1>8, <1>9
  <2> QED BY ONLY <1>8, <1>9, <2>2, <2>3
<1>12. HeapInv(g2, MA!Hold(f, b + 2, s))
  <2>1. len <= size /\ len = Len(kept)
    BY ONLY <1>9
  <2> QED BY ONLY <1>S, <1>5, <1>6, <1>9, <1>11, <2>1, TailFilled
<1> HIDE DEF s, g2
<1> DEFINE o == MA!Hold(f, b + 2, s)
<1>13. DOMAIN o = DOMAIN f \cup {b + 2} /\ p \in DOMAIN o
  BY ONLY <1>S DEF MA!Hold
<1>14. HeapInv(MA!Free(g2, p), MA!Restrict(o, DOMAIN o \ {p}))
  <2> HIDE DEF o
  <2> QED BY ONLY <1>S, <1>12, <1>13, DropBlock DEF o
<1>15. MA!Restrict(o, DOMAIN o \ {p}) = MA!Hold(MA!Restrict(f, DOMAIN f \ {p}), b + 2, s)
  BY ONLY <1>2 DEF MA!Restrict, MA!Hold
<1> QED BY ONLY <1>14, <1>15 DEF s, g2, kept, m0

LEMMA InitInv == LIMIT \in Nat /\ MA!Init => Inv
<1> SUFFICES ASSUME LIMIT \in Nat, MA!Init PROVE Inv
  OBVIOUS
<1>1. heap.mem = [u \in Units0 |-> -1] /\ heap.size = [u \in Units0 |-> 0] /\ heap.brk = 0
      /\ heap.list = <<>> /\ heap \in HeapType
  BY DEF MA!Init, MA!Heap, HeapType, Units0
<1>2. DOMAIN live = {}
  BY DEF MA!Init
<1>3. Used(live) = {} /\ OnList(heap) = {}
  BY <1>1, <1>2 DEF Used, OnList
<1>4. Sound(heap, Used(live))
  BY <1>1, <1>3 DEF Sound
<1> QED BY <1>2, <1>4 DEF Inv, HeapInv, MA!Init

\* malloc and calloc, with the value that the block is filled with.
LEMMA AllocStep ==
  ASSUME LIMIT \in Nat, Inv, NEW size \in Nat, NEW v \in Int,
         LET r == MA!Malloc(heap, size) IN
         /\ heap' = IF r.ptr = MA!NULL THEN r.h ELSE [r.h EXCEPT !.mem = MA!Fill(@, r.ptr, size, v)]
         /\ live' = IF r.ptr = MA!NULL THEN live ELSE MA!Hold(live, r.ptr, MA!Rep(v, size))
  PROVE  HeapInv(heap, live)'
<1> DEFINE r == MA!Malloc(heap, size)
<1>S. LIMIT \in Nat /\ HeapInv(heap, live) /\ Sound(heap, Used(live))
  BY DEF Inv, HeapInv
<1>A. /\ heap' = IF r.ptr = MA!NULL THEN r.h ELSE [r.h EXCEPT !.mem = MA!Fill(r.h.mem, r.ptr, size, v)]
      /\ live' = IF r.ptr = MA!NULL THEN live ELSE MA!Hold(live, r.ptr, MA!Rep(v, size))
  OBVIOUS
<1>1. CASE r = [ptr |-> MA!NULL, h |-> heap]
  <2> HIDE DEF r
  <2>1. heap' = heap /\ live' = live
    BY ONLY <1>A, <1>1
  <2>2. HeapInv(heap', live')
    BY ONLY <1>S, <2>1
  <2> QED BY ONLY <2>2 DEF HeapInv, Sound, Used, Held, HeapType, Whole, Apart, OnList, End
<1>2. CASE \E b \in Nat : \E g : r = [ptr |-> b + 2, h |-> g] /\ Grants(heap, Used(live), size, g, b)
  <2> HIDE DEF r
  <2>0. PICK b \in Nat : \E g : r = [ptr |-> b + 2, h |-> g] /\ Grants(heap, Used(live), size, g, b)
    BY ONLY <1>2
  <2>1. PICK g : r = [ptr |-> b + 2, h |-> g] /\ Grants(heap, Used(live), size, g, b)
    BY ONLY <2>0
  <2>2. r.ptr = b + 2 /\ r.h = g /\ b + 2 # MA!NULL
    BY ONLY <2>1 DEF MA!NULL
  <2>3. /\ heap' = [g EXCEPT !.mem = MA!Fill(g.mem, b + 2, size, v)]
        /\ live' = MA!Hold(live, b + 2, MA!Rep(v, size))
    BY ONLY <1>A, <2>2
  <2>4. HeapInv(heap', live')
    <3>1. HeapInv([g EXCEPT !.mem = MA!Fill(g.mem, b + 2, size, v)], MA!Hold(live, b + 2, MA!Rep(v, size)))
      BY ONLY <1>S, <2>1, FilledBlock
    <3> QED BY ONLY <2>3, <3>1
  <2> QED BY ONLY <2>4 DEF HeapInv, Sound, Used, Held, HeapType, Whole, Apart, OnList, End
<1> QED BY ONLY <1>S, <1>1, <1>2, MallocGrants

LEMMA FreeStep ==
  ASSUME LIMIT \in Nat, Inv, NEW p \in DOMAIN live, MA!free(p)
  PROVE  HeapInv(heap, live)'
<1>1. HeapInv(MA!Free(heap, p), MA!Restrict(live, DOMAIN live \ {p}))
  BY DropBlock DEF Inv
<1>2. HeapInv(heap', live')
  BY <1>1 DEF MA!free
<1> QED BY ONLY <1>2 DEF HeapInv, Sound, Used, Held, HeapType, Whole, Apart, OnList, End

LEMMA ReallocStep ==
  ASSUME LIMIT \in Nat, Inv, NEW p \in DOMAIN live, NEW size \in Nat, MA!realloc(p, size)
  PROVE  HeapInv(heap, live)'
<1>S. /\ LIMIT \in Nat /\ HeapInv(heap, live) /\ Sound(heap, Used(live)) /\ p \in Int /\ p \in DOMAIN live
      /\ heap \in HeapType /\ MA!Mark \in Int
  BY DEF Inv, HeapInv, Sound, MA!Mark
<1> DEFINE r == MA!Realloc(heap, p, size)
           q == MA!Malloc(heap, size)
           len == MA!Min({Len(live[p]), size})
           kept == SubSeq(live[p], 1, len)
           others == MA!Restrict(live, DOMAIN live \ {p})
<1>1. live[p] \in Seq(Int)
  BY ONLY <1>S DEF HeapInv, Held
<1>2. len \in Nat /\ Len(kept) = len
  <2>1. len \in Nat
    BY ONLY <1>1, MinNat
  <2> HIDE DEF len
  <2> QED BY ONLY <1>1, <2>1, KeptFields DEF len
<1>A. IF r.ptr = MA!NULL
      THEN heap' = r.h /\ live' = IF size = 0 THEN others ELSE live
      ELSE /\ heap' = [r.h EXCEPT !.mem = MA!Fill(r.h.mem, r.ptr + len, size - len, MA!Mark)]
           /\ live' = MA!Hold(others, r.ptr, kept \o MA!Rep(MA!Mark, size - len))
  <2>1. MA!realloc(p, size)
    OBVIOUS
  <2>2. IF r.ptr = MA!NULL
        THEN heap' = r.h /\ live' = IF size = 0 THEN others ELSE live
        ELSE /\ heap' = [r.h EXCEPT !.mem = MA!Fill(r.h.mem, r.ptr + Len(kept), size - Len(kept), MA!Mark)]
             /\ live' = MA!Hold(others, r.ptr, kept \o MA!Rep(MA!Mark, size - Len(kept)))
    BY ONLY <2>1 DEF MA!realloc
  <2> HIDE DEF kept, len, r, others
  <2> QED BY ONLY <1>2, <2>2
<1>3. p - 2 \in Used(live) /\ p - 2 \in Used(live) \cup OnList(heap)
  BY ONLY <1>S DEF Used, MA!HEADER_SIZE
<1>4. PICK b \in Nat : b = p - 2 /\ p = b + 2
  <2>1. p - 2 \in Nat
    BY ONLY <1>S, <1>3, BlockPlace
  <2> QED BY ONLY <1>S, <2>1
<1>5. PICK old \in Nat : old = heap.size[b]
  <2>1. heap.size[p - 2] \in Nat
    BY ONLY <1>S, <1>3, BlockPlace
  <2> QED BY ONLY <1>4, <2>1
<1>6. CASE size = 0
  <2>1. r.ptr = MA!NULL /\ r.h = MA!Free(heap, p)
    BY ONLY <1>6 DEF MA!Realloc
  <2> HIDE DEF r, others
  <2>2. heap' = MA!Free(heap, p) /\ live' = others
    BY ONLY <1>A, <1>6, <2>1
  <2>3. HeapInv(heap', live')
    <3>1. HeapInv(MA!Free(heap, p), others)
      BY ONLY <1>S, DropBlock DEF others
    <3> QED BY ONLY <2>2, <3>1
  <2> QED BY ONLY <2>3 DEF HeapInv, Sound, Used, Held, HeapType, Whole, Apart, OnList, End
<1>7. CASE size # 0 /\ old >= size
  <2> DEFINE z == [heap.size EXCEPT ![b] = size]
             m == MA!Fill(heap.mem, p + len, size - len, MA!Mark)
  <2>1. r.ptr = p /\ r.h = [heap EXCEPT !.size = z]
    BY ONLY <1>4, <1>5, <1>7 DEF MA!Realloc, MA!HEADER_SIZE
  <2>2. [heap EXCEPT !.size = z] = MA!Heap(heap.mem, z, heap.brk, heap.list)
    BY ONLY <1>S, FieldSet
  <2>3. MA!Heap(heap.mem, z, heap.brk, heap.list) \in HeapType
    <3>1. /\ heap.mem \in [Units0 -> Int] /\ heap.size \in [Units0 -> Nat]
          /\ heap.brk \in 0 .. LIMIT /\ heap.list \in Seq(Units0)
      BY ONLY <1>S, HeapFields
    <3>2. z \in [Units0 -> Nat]
      BY ONLY <3>1
    <3> HIDE DEF z
    <3> QED BY ONLY <3>1, <3>2 DEF MA!Heap, HeapType
  <2> HIDE DEF r, z, m
  <2>4. r.h.mem = heap.mem /\ r.h.size = z /\ r.h.brk = heap.brk /\ r.h.list = heap.list /\ r.h \in HeapType
    BY ONLY <2>1, <2>2, <2>3 DEF MA!Heap
  <2>5. [r.h EXCEPT !.mem = m] = MA!Heap(m, z, heap.brk, heap.list)
    BY ONLY <2>4, FieldSet
  <2>6. p # MA!NULL
    BY ONLY <1>4 DEF MA!NULL
  <2> HIDE DEF others, kept
  <2>7. heap' = MA!Heap(m, z, heap.brk, heap.list) /\ live' = MA!Hold(others, p, kept \o MA!Rep(MA!Mark, size - len))
    BY ONLY <1>A, <2>1, <2>4, <2>5, <2>6 DEF m
  <2>8. HeapInv(MA!Heap(m, z, heap.brk, heap.list), MA!Hold(others, p, kept \o MA!Rep(MA!Mark, size - len)))
    <3>1. size <= heap.size[b] /\ b + 2 \in DOMAIN live
      BY ONLY <1>S, <1>4, <1>5, <1>7
    <3>2. PICK n \in Nat : n = len /\ n = MA!Min({Len(live[b + 2]), size})
      BY ONLY <1>2, <1>4
    <3>3. HeapInv(MA!Heap(MA!Fill(heap.mem, (b + 2) + n, size - n, MA!Mark), z, heap.brk, heap.list),
                  MA!Hold(MA!Restrict(live, DOMAIN live \ {b + 2}), b + 2,
                       SubSeq(live[b + 2], 1, n) \o MA!Rep(MA!Mark, size - n)))
      BY ONLY <1>S, <3>1, <3>2, InPlace DEF z
    <3> QED BY ONLY <1>4, <3>2, <3>3 DEF m, kept, others
  <2>9. HeapInv(heap', live')
    BY ONLY <2>7, <2>8
  <2> QED BY ONLY <2>9 DEF HeapInv, Sound, Used, Held, HeapType, Whole, Apart, OnList, End
<1>8. CASE size # 0 /\ ~(old >= size)
  <2>1. q.ptr = MA!NULL => r = q
    BY ONLY <1>4, <1>5, <1>8 DEF MA!Realloc, MA!HEADER_SIZE
  <2>2. q.ptr # MA!NULL => r = [ptr |-> q.ptr, h |-> MA!Free([q.h EXCEPT !.mem = MA!Copy(q.h.mem, q.ptr, p, old)], p)]
    BY ONLY <1>4, <1>5, <1>8 DEF MA!Realloc, MA!HEADER_SIZE
  <2> HIDE DEF r
  <2>3. CASE q = [ptr |-> MA!NULL, h |-> heap]
    <3> HIDE DEF q, others, kept
    <3>1. heap' = heap /\ live' = live
      BY ONLY <1>A, <1>8, <2>1, <2>3
    <3>2. HeapInv(heap', live')
      BY ONLY <1>S, <3>1
    <3> QED BY ONLY <3>2 DEF HeapInv, Sound, Used, Held, HeapType, Whole, Apart, OnList, End
  <2>4. CASE \E a \in Nat : \E g : q = [ptr |-> a + 2, h |-> g] /\ Grants(heap, Used(live), size, g, a)
    <3> HIDE DEF q
    <3>0. PICK a \in Nat : \E g : q = [ptr |-> a + 2, h |-> g] /\ Grants(heap, Used(live), size, g, a)
      BY ONLY <2>4
    <3>1. PICK g : q = [ptr |-> a + 2, h |-> g] /\ Grants(heap, Used(live), size, g, a)
      BY ONLY <3>0
    <3>2. q.ptr = a + 2 /\ q.h = g /\ a + 2 # MA!NULL
      BY ONLY <3>1 DEF MA!NULL
    <3> DEFINE m0 == MA!Copy(g.mem, a + 2, p, old)
               m == MA!Fill(m0, (a + 2) + len, size - len, MA!Mark)
               l == <<p - 2>> \o g.list
    <3>3. g \in HeapType /\ p - 2 \in Units0
      BY ONLY <1>S, <1>3, <3>1 DEF Grants, Sound
    <3>4. r = [ptr |-> a + 2, h |-> MA!Free([g EXCEPT !.mem = m0], p)]
      BY ONLY <2>2, <3>2
    <3>5. [g EXCEPT !.mem = m0] = MA!Heap(m0, g.size, g.brk, g.list)
      BY ONLY <3>3, FieldSet
    <3> HIDE DEF m0, m
    <3>6. r.h = MA!Heap(m0, g.size, g.brk, l)
      BY ONLY <3>4, <3>5 DEF MA!Free, MA!Heap, MA!HEADER_SIZE
    <3>7. MA!Free(MA!Heap(m, g.size, g.brk, g.list), p) = MA!Heap(m, g.size, g.brk, l)
      <4> DEFINE H == MA!Heap(m, g.size, g.brk, g.list)
      <4>1. H.list = g.list
        BY ONLY FieldSetMade
      <4>2. [H EXCEPT !.list = l] = MA!Heap(m, g.size, g.brk, l)
        <5> HIDE DEF l
        <5> QED BY ONLY FieldSetMade
      <4> HIDE DEF H
      <4>3. MA!Free(H, p) = [H EXCEPT !.list = l]
        BY ONLY <4>1 DEF MA!Free, MA!HEADER_SIZE
      <4> QED BY ONLY <4>2, <4>3 DEF H
    <3>8. [r.h EXCEPT !.mem = m] = MA!Heap(m, g.size, g.brk, l) /\ r.h.mem = m0 /\ r.ptr = a + 2
      <4>1. r.h.mem = m0 /\ r.ptr = a + 2
        BY ONLY <3>4, <3>6 DEF MA!Heap
      <4>2. [r.h EXCEPT !.mem = m] = MA!Heap(m, g.size, g.brk, l)
        BY ONLY <3>6, FieldSetMade
      <4> QED BY ONLY <4>1, <4>2
    <3> HIDE DEF others, kept
    <3>9. /\ heap' = MA!Free(MA!Heap(m, g.size, g.brk, g.list), p)
          /\ live' = MA!Hold(others, a + 2, kept \o MA!Rep(MA!Mark, size - len))
      BY ONLY <1>A, <3>2, <3>7, <3>8 DEF m
    <3>10. HeapInv(MA!Free(MA!Heap(m, g.size, g.brk, g.list), p),
                   MA!Hold(others, a + 2, kept \o MA!Rep(MA!Mark, size - len)))
      <4>1. old = heap.size[p - 2] /\ old < size
        <5>1. old < size
          BY ONLY <1>8
        <5>2. old = heap.size[p - 2]
          BY ONLY <1>4, <1>5
        <5> QED BY ONLY <5>1, <5>2
      <4>2. PICK n \in Nat : n = len /\ n = MA!Min({Len(live[p]), size})
        BY ONLY <1>2
      <4>3. HeapInv(MA!Free(MA!Heap(MA!Fill(MA!Copy(g.mem, a + 2, p, old), (a + 2) + n, size - n, MA!Mark),
                              g.size, g.brk, g.list), p),
                    MA!Hold(MA!Restrict(live, DOMAIN live \ {p}), a + 2,
                         SubSeq(live[p], 1, n) \o MA!Rep(MA!Mark, size - n)))
        BY ONLY <1>S, <3>1, <4>1, <4>2, Moved
      <4> QED BY ONLY <4>2, <4>3 DEF m, m0, kept, others
    <3>11. HeapInv(heap', live')
      BY ONLY <3>9, <3>10
    <3> QED BY ONLY <3>11 DEF HeapInv, Sound, Used, Held, HeapType, Whole, Apart, OnList, End
  <2> QED BY ONLY <1>S, <2>3, <2>4, MallocGrants
<1> QED BY ONLY <1>6, <1>7, <1>8

\* One call.
LEMMA NextInv ==
  ASSUME LIMIT \in Nat, Sizes \subseteq Nat, Inv, [MA!Next]_MA!vars
  PROVE  Inv'
<1>C. MA!Call => ops' \in Nat
  BY DEF MA!Call, Inv
<1>1. ASSUME NEW size \in Sizes, MA!malloc(size) PROVE Inv'
  <2>1. size \in Nat /\ MA!Mark \in Int /\ ops' \in Nat
    BY <1>C, <1>1 DEF MA!Mark, Inv, MA!malloc
  <2>2. LET r == MA!Malloc(heap, size) IN
        /\ heap' = IF r.ptr = MA!NULL THEN r.h ELSE [r.h EXCEPT !.mem = MA!Fill(@, r.ptr, size, MA!Mark)]
        /\ live' = IF r.ptr = MA!NULL THEN live ELSE MA!Hold(live, r.ptr, MA!Rep(MA!Mark, size))
    BY <1>1 DEF MA!malloc, MA!Use
  <2>3. HeapInv(heap, live)'
    BY <2>1, <2>2, AllocStep
  <2> QED BY <2>1, <2>3 DEF Inv
<1>2. ASSUME NEW p \in DOMAIN live, MA!free(p) PROVE Inv'
  <2>1. HeapInv(heap, live)'
    BY <1>2, FreeStep
  <2> QED BY <1>C, <1>2, <2>1 DEF Inv, MA!free
<1>3. ASSUME NEW p \in DOMAIN live, NEW size \in Sizes, MA!realloc(p, size) PROVE Inv'
  <2>1. size \in Nat
    OBVIOUS
  <2>2. HeapInv(heap, live)'
    BY <1>3, <2>1, ReallocStep
  <2> QED BY <1>C, <1>3, <2>2 DEF Inv, MA!realloc
<1>4. ASSUME NEW size \in Sizes, MA!calloc(1, size) PROVE Inv'
  <2>1. size \in Nat /\ 1 * size = size /\ -2 \in Int /\ ops' \in Nat
    BY <1>C, <1>4 DEF MA!calloc
  <2>2. LET r == MA!Malloc(heap, size) IN
        /\ heap' = IF r.ptr = MA!NULL THEN r.h ELSE [r.h EXCEPT !.mem = MA!Fill(@, r.ptr, size, -2)]
        /\ live' = IF r.ptr = MA!NULL THEN live ELSE MA!Hold(live, r.ptr, MA!Rep(-2, size))
    BY <1>4, <2>1 DEF MA!calloc
  <2>3. HeapInv(heap, live)'
    BY <2>1, <2>2, AllocStep
  <2> QED BY <2>1, <2>3 DEF Inv
<1>5. CASE UNCHANGED MA!vars
  <2>1. heap' = heap /\ live' = live /\ ops' = ops
    BY <1>5 DEF MA!vars
  <2>2. HeapInv(heap', live')
    BY <2>1 DEF Inv
  <2>3. HeapInv(heap, live)'
    BY ONLY <2>2 DEF HeapInv, Sound, Used, Held, HeapType, Whole, Apart, OnList, End
  <2> QED BY <2>1, <2>3 DEF Inv
<1> QED BY <1>1, <1>2, <1>3, <1>4, <1>5 DEF MA!Next

LEMMA InvExact ==
  ASSUME LIMIT \in Nat, Inv
  PROVE  MA!HeapExact
<1>S. LIMIT \in Nat /\ Sound(heap, Used(live)) /\ DOMAIN live \subseteq Int
  BY DEF Inv, HeapInv
<1>0. heap.list \in Seq(Units0) /\ DOMAIN heap.list = 1 .. Len(heap.list)
  BY <1>S, HeapFields DEF Sound
<1>1. {p - MA!HEADER_SIZE : p \in DOMAIN live} = Used(live) /\ MA!ToSet(heap.list) = OnList(heap)
  BY <1>0 DEF Used, MA!ToSet, OnList
<1>2. ASSUME NEW p \in DOMAIN live
      PROVE  /\ \A k \in DOMAIN live[p] : heap.mem[p + k - 1] = live[p][k]
             /\ Len(live[p]) <= heap.size[p - MA!HEADER_SIZE]
  <2>1. Held(heap, p, live[p])
    BY DEF Inv, HeapInv
  <2>2. DOMAIN live[p] = 1 .. Len(live[p])
    BY <2>1 DEF Held
  <2> QED BY ONLY <2>1, <2>2 DEF Held
<1>3. ASSUME NEW b \in Used(live) \cup OnList(heap)
      PROVE  /\ \A u \in MA!Units(b, MA!HEADER_SIZE) : heap.mem[u] = MA!Head0
             /\ b + MA!HEADER_SIZE + heap.size[b] <= heap.brk
  <2>1. Whole(heap, b)
    BY <1>S DEF Sound
  <2>2. b \in Nat
    BY <1>S, BlockPlace
  <2>3. \A u \in MA!Units(b, MA!HEADER_SIZE) : u = b \/ u = b + 1
    BY ONLY <2>2 DEF MA!Units, MA!HEADER_SIZE
  <2> QED BY ONLY <2>1, <2>3 DEF Whole, End
<1>4. MA!IsInjective(heap.list)
  BY <1>S, <1>0 DEF Sound, MA!IsInjective
<1>5. Used(live) \cap OnList(heap) = {}
  BY <1>S DEF Sound
<1> QED BY ONLY <1>1, <1>2, <1>3, <1>4, <1>5 DEF MA!HeapExact

\* malloc, free, realloc and calloc (libc/malloc.c) for every size of the heap, every set
\* of sizes and any number of calls: what the program wrote to a block stays there, no
\* header is written over, no block is on the free list twice or while it is in use.
THEOREM HeapCorrect ==
  ASSUME LIMIT \in Nat, Sizes \subseteq Nat
  PROVE  MA!Spec => []HeapExact
<1>1. MA!Init => Inv
  BY InitInv
<1>2. Inv /\ [MA!Next]_MA!vars => Inv'
  BY NextInv
<1>3. Inv => MA!HeapExact
  BY InvExact
<1> QED BY <1>1, <1>2, <1>3, PTL DEF MA!Spec, HeapExact

-----------------------------------------------------------------------------
(* The line editor *)

Text == Seq(Char)

Terminal == [row : Text, cur : Nat]

\* The row shows s up to the cursor, and behind it what is left of the line old.
Painted(t, s, old) ==
  /\ t \in Terminal /\ s \in Text /\ old \in Text
  /\ t.cur = Len(s)
  /\ Len(s) <= Len(t.row) /\ Len(old) <= Len(t.row)
  /\ \A k \in 1 .. Len(t.row) :
       t.row[k] = IF k <= Len(s) THEN s[k] ELSE IF k <= Len(old) THEN old[k] ELSE LE!Blank

\* The row shows the line buf, and the cursor is behind its first pos characters.
Shown(t, buf, pos) ==
  /\ t \in Terminal /\ buf \in Text
  /\ pos \in Nat /\ pos <= Len(buf) /\ t.cur = pos
  /\ Len(buf) <= Len(t.row)
  /\ \A k \in 1 .. Len(t.row) : t.row[k] = IF k <= Len(buf) THEN buf[k] ELSE LE!Blank

LEMMA MaxOfTwo ==
  ASSUME NEW a \in Nat, NEW b \in Nat
  PROVE  LE!Max({a, b}) \in Nat /\ LE!Max({a, b}) = IF a >= b THEN a ELSE b
BY DEF LE!Max

\* What is written one after the other.
LEMMA Joined ==
  ASSUME NEW a \in Text, NEW b \in Text
  PROVE  /\ Len(a) \in Nat /\ Len(b) \in Nat
         /\ a \o b \in Text /\ Len(a \o b) = Len(a) + Len(b)
         /\ \A k \in 1 .. Len(a) + Len(b) :
              (a \o b)[k] = IF k <= Len(a) THEN a[k] ELSE b[k - Len(a)]
BY DEF Text

LEMMA PutPaints ==
  ASSUME NEW t, NEW s, NEW old, NEW r, Painted(t, s, old), r \in Text
  PROVE  Painted(LE!Put(t, r), s \o r, old)
<1> DEFINE row == LE!Put(t, r).row
<1>S. /\ t.row \in Text /\ s \in Text /\ old \in Text /\ r \in Text /\ t.cur = Len(s)
      /\ Len(s) <= Len(t.row) /\ Len(old) <= Len(t.row)
  BY DEF Painted, Terminal
<1>1. PICK n \in Nat, m \in Nat, l \in Nat, w \in Nat :
         n = Len(s) /\ m = Len(r) /\ l = Len(t.row) /\ w = Len(old)
  BY <1>S DEF Text
<1>2. PICK z \in Nat : z = IF l >= n + m THEN l ELSE n + m
  OBVIOUS
<1>3. LE!Put(t, r) = [row |-> [k \in 1 .. z |-> IF k > n /\ k <= n + m THEN r[k - n] ELSE t.row[k]],
                      cur |-> n + m]
  <2>1. LE!Max({Len(t.row), t.cur + Len(r)}) = z
    BY ONLY <1>S, <1>1, <1>2, MaxOfTwo
  <2> QED BY ONLY <1>S, <1>1, <2>1 DEF LE!Put
<1>4. /\ s \o r \in Text /\ Len(s \o r) = n + m
      /\ \A k \in 1 .. n + m : (s \o r)[k] = IF k <= n THEN s[k] ELSE r[k - n]
  BY ONLY <1>S, <1>1 DEF Text
<1>5. [k \in 1 .. z |-> IF k > n /\ k <= n + m THEN r[k - n] ELSE t.row[k]] \in Text
  BY ONLY <1>S, <1>1, <1>2 DEF Text
<1>6. /\ LE!Put(t, r) \in Terminal /\ LE!Put(t, r).cur = n + m
      /\ LE!Put(t, r).row = [k \in 1 .. z |-> IF k > n /\ k <= n + m THEN r[k - n] ELSE t.row[k]]
  BY ONLY <1>3, <1>5 DEF Terminal
<1>7. Len(row) = z
  BY ONLY <1>2, <1>6 DEF Text
<1>8. \A k \in 1 .. l : t.row[k] = IF k <= n THEN s[k] ELSE IF k <= w THEN old[k] ELSE LE!Blank
  BY <1>1 DEF Painted
<1>9. ASSUME NEW k \in 1 .. z
      PROVE row[k] = IF k <= n + m THEN (s \o r)[k] ELSE IF k <= w THEN old[k] ELSE LE!Blank
  BY ONLY <1>S, <1>1, <1>2, <1>4, <1>6, <1>8
<1> HIDE DEF row
<1>10. /\ n + m <= z /\ w <= z
  BY ONLY <1>S, <1>1, <1>2
<1> QED BY ONLY <1>S, <1>1, <1>4, <1>6, <1>7, <1>9, <1>10 DEF Painted, row

\* A text with blanks after it.
IsPadded(s, l, sp, m) ==
  /\ sp \in Text /\ Len(sp) = m /\ s \o sp \in Text /\ Len(s \o sp) = l + m
  /\ \A k \in 1 .. l + m : (s \o sp)[k] = IF k <= l THEN s[k] ELSE LE!Blank

LEMMA Padded ==
  ASSUME LE!Blank \in Char, NEW s \in Text, NEW l \in Nat, l = Len(s), NEW m \in Nat
  PROVE  IsPadded(s, l, LE!Spaces(m), m)
<1> DEFINE sp == LE!Spaces(m)
<1>1. sp = [k \in 1 .. m |-> LE!Blank]
  <2>1. LE!Max({m, 0}) = m
    BY ONLY m \in Nat DEF LE!Max
  <2> QED BY ONLY <2>1 DEF LE!Spaces
<1>2. sp \in Text /\ Len(sp) = m
  BY ONLY <1>1, LE!Blank \in Char, m \in Nat DEF Text
<1>3. \A k \in 1 .. m : sp[k] = LE!Blank
  BY ONLY <1>1
<1> HIDE DEF sp
<1>4. /\ s \o sp \in Text /\ Len(s \o sp) = l + m
      /\ \A k \in 1 .. l + m : (s \o sp)[k] = IF k <= l THEN s[k] ELSE sp[k - l]
  BY ONLY <1>2, s \in Text, l = Len(s), Joined
<1>5. \A k \in 1 .. l + m : ~(k <= l) => k - l \in 1 .. m
  BY ONLY l \in Nat, m \in Nat
<1>6. \A k \in 1 .. l + m : (s \o sp)[k] = IF k <= l THEN s[k] ELSE LE!Blank
  BY ONLY <1>3, <1>4, <1>5
<1> QED BY ONLY <1>2, <1>4, <1>6 DEF sp, IsPadded

LEMMA BackSteps ==
  ASSUME NEW t \in Terminal, NEW n \in Nat, n <= t.cur
  PROVE  LE!Back(t, n) \in Terminal /\ LE!Back(t, n).row = t.row /\ LE!Back(t, n).cur = t.cur - n
<1>1. PICK row \in Text, cur \in Nat : t = [row |-> row, cur |-> cur]
  BY DEF Terminal
<1>2. [t EXCEPT !.cur = IF n > 0 THEN @ - n ELSE @] = [row |-> row, cur |-> IF n > 0 THEN cur - n ELSE cur]
  BY ONLY <1>1
<1>3. (IF n > 0 THEN cur - n ELSE cur) = cur - n /\ cur - n \in Nat
  BY <1>1
<1>4. LE!Back(t, n) = [row |-> row, cur |-> cur - n]
  BY ONLY <1>2, <1>3 DEF LE!Back
<1> QED BY ONLY <1>1, <1>3, <1>4 DEF Terminal

\* Blanks are put over what the line was longer by, and the cursor comes back.
LEMMA WipeClears ==
  ASSUME LE!Blank \in Char,
         NEW t, NEW s, NEW old, NEW n \in Int, Painted(t, s, old), Len(s) + n >= Len(old)
  PROVE  Painted(LE!Wipe(t, n), s, s)
<1>S. /\ t \in Terminal /\ t.row \in Text /\ s \in Text /\ old \in Text /\ t.cur = Len(s)
      /\ Len(s) <= Len(t.row) /\ Painted(t, s, old)
  BY DEF Painted, Terminal
<1>1. PICK l \in Nat, w \in Nat : l = Len(s) /\ w = Len(old)
  BY ONLY <1>S DEF Text
<1>2. PICK m \in Nat : m = (IF n >= 0 THEN n ELSE 0) /\ l + m >= w
  BY ONLY <1>1, n \in Int, Len(s) + n >= Len(old)
<1> DEFINE sp == LE!Spaces(m)
           u == LE!Put(t, sp)
<1>3. LE!Spaces(n) = sp
  <2>1. LE!Max({n, 0}) = m /\ LE!Max({m, 0}) = m
    BY ONLY <1>2, n \in Int DEF LE!Max
  <2> QED BY ONLY <2>1 DEF LE!Spaces
<1>4. /\ sp \in Text /\ Len(sp) = m /\ s \o sp \in Text /\ Len(s \o sp) = l + m
      /\ \A k \in 1 .. l + m : (s \o sp)[k] = IF k <= l THEN s[k] ELSE LE!Blank
  <2>1. s \in Text /\ l = Len(s)
    BY ONLY <1>S, <1>1
  <2>2. IsPadded(s, l, sp, m)
    BY ONLY <2>1, l \in Nat, LE!Blank \in Char, m \in Nat, Padded
  <2> QED BY ONLY <2>2 DEF IsPadded
<1>5. Painted(u, s \o sp, old)
  BY ONLY <1>S, <1>4, PutPaints
<1> HIDE DEF sp, u
<1>7. /\ u \in Terminal /\ u.cur = l + m /\ l + m <= Len(u.row) /\ u.row \in Text
      /\ \A k \in 1 .. Len(u.row) : u.row[k] = IF k <= l + m THEN (s \o sp)[k]
                                               ELSE IF k <= w THEN old[k] ELSE LE!Blank
  BY ONLY <1>1, <1>4, <1>5 DEF Painted, Terminal
<1>8. PICK z \in Nat : z = Len(u.row)
  BY ONLY <1>7 DEF Text
<1>9. \A k \in 1 .. z : u.row[k] = IF k <= l THEN s[k] ELSE LE!Blank
  BY ONLY <1>1, <1>2, <1>4, <1>7, <1>8, SMTT(30)
<1>10. LE!Wipe(t, n) \in Terminal /\ LE!Wipe(t, n).row = u.row /\ LE!Wipe(t, n).cur = l
  <2>1. LE!Back(u, m) = LE!Back(u, n)
    BY ONLY <1>2, n \in Int DEF LE!Back
  <2>2. LE!Wipe(t, n) = LE!Back(u, n)
    BY ONLY <1>3 DEF LE!Wipe, u
  <2>3. /\ LE!Back(u, m) \in Terminal /\ LE!Back(u, m).row = u.row
        /\ LE!Back(u, m).cur = u.cur - m
    <3>1. m <= u.cur
      BY ONLY <1>1, <1>2, <1>7
    <3> QED BY ONLY <1>7, <3>1, m \in Nat, BackSteps
  <2> QED BY ONLY <1>1, <1>2, <1>7, <2>1, <2>2, <2>3
<1> QED
  <2>1. l <= z
    BY ONLY <1>1, <1>2, <1>7, <1>8
  <2> QED BY ONLY <1>S, <1>1, <1>8, <1>9, <1>10, <2>1 DEF Painted

\* A line that is shown has been painted as far as the cursor goes back.
LEMMA BackPaints ==
  ASSUME NEW t, NEW buf, NEW pos, NEW n \in Nat, Shown(t, buf, pos), n <= pos
  PROVE  Painted(LE!Back(t, n), SubSeq(buf, 1, pos - n), buf)
<1>S. /\ t \in Terminal /\ t.row \in Text /\ buf \in Text /\ pos \in Nat /\ pos <= Len(buf)
      /\ t.cur = pos /\ Len(buf) <= Len(t.row) /\ n \in Nat /\ n <= pos
      /\ \A k \in 1 .. Len(t.row) : t.row[k] = IF k <= Len(buf) THEN buf[k] ELSE LE!Blank
  BY DEF Shown, Terminal
<1>1. PICK l \in Nat, w \in Nat, p \in Nat : l = Len(buf) /\ w = Len(t.row) /\ p = pos - n
  BY ONLY <1>S DEF Text
<1>2. /\ LE!Back(t, n) \in Terminal /\ LE!Back(t, n).row = t.row /\ LE!Back(t, n).cur = p
  BY ONLY <1>S, <1>1, BackSteps
<1>3. /\ SubSeq(buf, 1, p) \in Text /\ Len(SubSeq(buf, 1, p)) = p /\ p <= l
      /\ \A k \in 1 .. p : SubSeq(buf, 1, p)[k] = buf[k]
  BY ONLY <1>S, <1>1 DEF Text
<1>4. \A k \in 1 .. w : t.row[k] = IF k <= p THEN SubSeq(buf, 1, p)[k]
                                   ELSE IF k <= l THEN buf[k] ELSE LE!Blank
  BY ONLY <1>S, <1>1, <1>3
<1>5. p <= w /\ l <= w
  BY ONLY <1>S, <1>1, <1>3
<1> QED BY ONLY <1>S, <1>1, <1>2, <1>3, <1>4, <1>5 DEF Painted

\* A painted line that covers the old one is shown, wherever the cursor goes back to.
LEMMA PaintedShows ==
  ASSUME NEW t, NEW s, NEW old, NEW n \in Nat, Painted(t, s, old), Len(old) <= Len(s), n <= Len(s)
  PROVE  Shown(LE!Back(t, n), s, Len(s) - n)
<1>S. /\ t \in Terminal /\ t.row \in Text /\ s \in Text /\ old \in Text /\ t.cur = Len(s)
      /\ Len(s) <= Len(t.row) /\ Len(old) <= Len(s) /\ n \in Nat /\ n <= Len(s)
      /\ \A k \in 1 .. Len(t.row) :
           t.row[k] = IF k <= Len(s) THEN s[k] ELSE IF k <= Len(old) THEN old[k] ELSE LE!Blank
  BY DEF Painted, Terminal
<1>1. PICK l \in Nat, w \in Nat, o \in Nat : l = Len(s) /\ w = Len(t.row) /\ o = Len(old)
  BY ONLY <1>S DEF Text
<1>2. /\ LE!Back(t, n) \in Terminal /\ LE!Back(t, n).row = t.row /\ LE!Back(t, n).cur = l - n
  BY ONLY <1>S, <1>1, BackSteps
<1>3. \A k \in 1 .. w : t.row[k] = IF k <= l THEN s[k] ELSE LE!Blank
  BY ONLY <1>S, <1>1
<1>4. l <= w /\ l - n \in Nat /\ l - n <= l
  BY ONLY <1>S, <1>1
<1> QED BY ONLY <1>S, <1>1, <1>2, <1>3, <1>4 DEF Shown

\* The cursor over a line that was shown moves right.
LEMMA PaintedSame ==
  ASSUME NEW t, NEW buf, NEW p \in Nat, NEW s, Painted(t, s, buf), s = SubSeq(buf, 1, p), p <= Len(buf)
  PROVE  Shown(t, buf, p)
<1>S. /\ t \in Terminal /\ t.row \in Text /\ buf \in Text /\ t.cur = Len(s)
      /\ Len(buf) <= Len(t.row) /\ p <= Len(buf)
      /\ \A k \in 1 .. Len(t.row) :
           t.row[k] = IF k <= Len(s) THEN s[k] ELSE IF k <= Len(buf) THEN buf[k] ELSE LE!Blank
  BY DEF Painted, Terminal
<1>1. PICK l \in Nat, w \in Nat : l = Len(buf) /\ w = Len(t.row)
  BY ONLY <1>S DEF Text
<1>2. Len(s) = p /\ \A k \in 1 .. p : s[k] = buf[k]
  BY ONLY <1>S, p \in Nat, s = SubSeq(buf, 1, p) DEF Text
<1>3. \A k \in 1 .. w : t.row[k] = IF k <= l THEN buf[k] ELSE LE!Blank
  BY ONLY <1>S, <1>1, <1>2, p \in Nat
<1> QED BY ONLY <1>S, <1>1, <1>2, <1>3, p \in Nat DEF Shown

LEMMA BackNone ==
  ASSUME NEW t \in Terminal
  PROVE  LE!Back(t, 0) = t
<1>1. PICK row \in Text, cur \in Nat : t = [row |-> row, cur |-> cur]
  BY DEF Terminal
<1>2. LE!Back(t, 0) = [t EXCEPT !.cur = cur]
  BY ONLY <1>1 DEF LE!Back
<1> QED BY ONLY <1>1, <1>2

\* A line that was painted over all of the old one is shown.
LEMMA PaintedWhole ==
  ASSUME NEW t, NEW s, NEW old, Painted(t, s, old), Len(old) <= Len(s)
  PROVE  Shown(t, s, Len(s))
<1>1. t \in Terminal /\ s \in Text /\ Len(s) \in Nat
  BY DEF Painted, Text
<1>2. 0 \in Nat /\ 0 <= Len(s) /\ Len(s) - 0 = Len(s)
  BY ONLY <1>1
<1>3. Shown(LE!Back(t, 0), s, Len(s) - 0)
  BY <1>2, PaintedShows
<1> QED BY ONLY <1>1, <1>2, <1>3, BackNone

\* The characters before the cursor and those from it on make the line.
LEMMA Halves ==
  ASSUME NEW buf \in Text, NEW pos \in Nat, pos <= Len(buf), NEW p \in Nat, p <= Len(buf)
  PROVE  /\ SubSeq(buf, 1, p) \in Text /\ Len(SubSeq(buf, 1, p)) = p
         /\ SubSeq(buf, pos + 1, Len(buf)) \in Text
         /\ Len(SubSeq(buf, pos + 1, Len(buf))) = Len(buf) - pos
         /\ Len(buf) \in Nat
BY DEF Text

LEMMA AllOf ==
  ASSUME NEW s \in Text
  PROVE  SubSeq(s, 1, 0) = <<>> /\ <<>> \o s = s
<1>1. SubSeq(s, 1, 0) = <<>>
  BY DEF Text
<1>2. <<>> \o s = s
  BY DEF Text
<1> QED BY ONLY <1>1, <1>2

LEMMA ShownPaints ==
  ASSUME NEW t, NEW buf, NEW pos, Shown(t, buf, pos)
  PROVE  Painted(t, SubSeq(buf, 1, pos), buf)
<1>1. 0 \in Nat /\ 0 <= pos /\ pos - 0 = pos /\ t \in Terminal
  BY DEF Shown
<1>2. Painted(LE!Back(t, 0), SubSeq(buf, 1, pos - 0), buf)
  BY <1>1, BackPaints
<1> QED BY ONLY <1>1, <1>2, BackNone

\* line_replace: the entry, and blanks over what the line was longer by.
LEMMA ReplaceShows ==
  ASSUME LE!Blank \in Char, NEW t, NEW buf, NEW pos, Shown(t, buf, pos), NEW entry \in Text
  PROVE  Shown(LE!Wipe(LE!Put(LE!Back(t, pos), entry), Len(buf) - Len(entry)), entry, Len(entry))
<1>S. buf \in Text /\ pos \in Nat /\ Len(buf) \in Nat /\ Len(entry) \in Nat
  BY DEF Shown, Text
<1>1. pos <= pos /\ pos - pos = 0
  BY ONLY <1>S
<1>2. Painted(LE!Back(t, pos), SubSeq(buf, 1, pos - pos), buf)
  BY <1>S, <1>1, BackPaints
<1>3. Painted(LE!Back(t, pos), <<>>, buf)
  BY ONLY <1>S, <1>1, <1>2, AllOf
<1>4. Painted(LE!Put(LE!Back(t, pos), entry), <<>> \o entry, buf)
  BY ONLY <1>3, entry \in Text, PutPaints
<1>5. Painted(LE!Put(LE!Back(t, pos), entry), entry, buf)
  BY ONLY <1>4, entry \in Text, AllOf
<1>6. Len(buf) - Len(entry) \in Int /\ Len(entry) + (Len(buf) - Len(entry)) >= Len(buf)
      /\ Len(entry) <= Len(entry)
  BY ONLY <1>S
<1>7. Painted(LE!Wipe(LE!Put(LE!Back(t, pos), entry), Len(buf) - Len(entry)), entry, entry)
  BY ONLY <1>5, <1>6, LE!Blank \in Char, WipeClears
<1> QED BY ONLY <1>6, <1>7, PaintedWhole

\* A character at the cursor, and the rest of the line after it.
LEMMA InsertShows ==
  ASSUME NEW t, NEW buf, NEW pos, Shown(t, buf, pos), NEW c \in Char
  PROVE  LET right == SubSeq(buf, pos + 1, Len(buf)) IN
         Shown(LE!ShowRest(LE!Put(t, <<c>>), right), SubSeq(buf, 1, pos) \o <<c>> \o right, pos + 1)
<1> DEFINE left == SubSeq(buf, 1, pos)
           right == SubSeq(buf, pos + 1, Len(buf))
           t2 == LE!Put(LE!Put(t, <<c>>), right)
<1>S. buf \in Text /\ pos \in Nat /\ pos <= Len(buf) /\ t \in Terminal /\ Shown(t, buf, pos)
  BY DEF Shown
<1>1. /\ left \in Text /\ Len(left) = pos /\ right \in Text /\ Len(right) = Len(buf) - pos
      /\ Len(buf) \in Nat
  BY ONLY <1>S, Halves
<1>2. <<c>> \in Text /\ Len(<<c>>) = 1
  BY ONLY c \in Char DEF Text
<1>3. Painted(t, left, buf)
  BY ONLY <1>S, ShownPaints
<1>4. Painted(LE!Put(t, <<c>>), left \o <<c>>, buf)
  BY ONLY <1>2, <1>3, PutPaints
<1>5. Painted(t2, (left \o <<c>>) \o right, buf)
  BY ONLY <1>1, <1>4, PutPaints
<1> HIDE DEF left, right, t2
<1>6. left \o <<c>> \in Text /\ Len(left \o <<c>>) = pos + 1
  BY ONLY <1>1, <1>2, Joined
<1>7. Len((left \o <<c>>) \o right) = (pos + 1) + Len(right)
  BY ONLY <1>1, <1>6, Joined
<1>8. /\ Len(right) \in Nat /\ Len(buf) <= (pos + 1) + Len(right) /\ Len(right) <= (pos + 1) + Len(right)
      /\ ((pos + 1) + Len(right)) - Len(right) = pos + 1
  BY ONLY <1>S, <1>1
<1>9. Shown(LE!Back(t2, Len(right)), (left \o <<c>>) \o right, Len((left \o <<c>>) \o right) - Len(right))
  BY ONLY <1>5, <1>7, <1>8, PaintedShows
<1>10. Shown(LE!Back(t2, Len(right)), (left \o <<c>>) \o right, pos + 1)
  BY ONLY <1>7, <1>8, <1>9
<1> QED BY ONLY <1>10 DEF LE!ShowRest, left, right, t2

\* A character is taken from before the cursor: the rest moves left, and a blank after it.
LEMMA BackspaceShows ==
  ASSUME LE!Blank \in Char, NEW t, NEW buf, NEW pos, Shown(t, buf, pos), pos # 0
  PROVE  LET right == SubSeq(buf, pos + 1, Len(buf)) IN
         Shown(LE!Back(LE!Wipe(LE!Put(LE!Back(t, 1), right), 1), Len(right)),
               SubSeq(buf, 1, pos - 1) \o right, pos - 1)
<1> DEFINE left == SubSeq(buf, 1, pos - 1)
           right == SubSeq(buf, pos + 1, Len(buf))
           t2 == LE!Put(LE!Back(t, 1), right)
<1>S. /\ buf \in Text /\ pos \in Nat /\ pos <= Len(buf) /\ t \in Terminal /\ Shown(t, buf, pos)
      /\ LE!Blank \in Char /\ Len(buf) \in Nat
  BY DEF Shown, Text
<1>0. pos - 1 \in Nat /\ pos - 1 <= Len(buf) /\ 1 \in Nat /\ 1 <= pos
  BY ONLY <1>S, pos # 0
<1>1. left \in Text /\ Len(left) = pos - 1 /\ right \in Text /\ Len(right) = Len(buf) - pos
  BY ONLY <1>S, <1>0, Halves
<1>3. Painted(LE!Back(t, 1), left, buf)
  BY ONLY <1>S, <1>0, BackPaints
<1>4. Painted(t2, left \o right, buf)
  BY ONLY <1>1, <1>3, PutPaints
<1> HIDE DEF left, right, t2
<1>5. Len(left \o right) = (pos - 1) + Len(right)
  BY ONLY <1>1, Joined
<1>6. /\ 1 \in Int /\ ((pos - 1) + Len(right)) + 1 >= Len(buf) /\ Len(right) \in Nat
      /\ (pos - 1) + Len(right) \in Nat
      /\ Len(right) <= (pos - 1) + Len(right) /\ ((pos - 1) + Len(right)) - Len(right) = pos - 1
      /\ (pos - 1) + Len(right) <= (pos - 1) + Len(right)
  BY ONLY <1>S, <1>0, <1>1
<1>7. Painted(LE!Wipe(t2, 1), left \o right, left \o right)
  BY ONLY <1>S, <1>4, <1>5, <1>6, WipeClears
<1>8. Shown(LE!Back(LE!Wipe(t2, 1), Len(right)), left \o right, Len(left \o right) - Len(right))
  BY ONLY <1>5, <1>6, <1>7, PaintedShows
<1>9. Shown(LE!Back(LE!Wipe(t2, 1), Len(right)), left \o right, pos - 1)
  BY ONLY <1>5, <1>6, <1>8
<1> QED BY ONLY <1>9 DEF left, right, t2

\* The cursor moves left over a line that is shown.
LEMMA LeftShows ==
  ASSUME NEW t, NEW buf, NEW pos, Shown(t, buf, pos), pos # 0
  PROVE  Shown(LE!Back(t, 1), buf, pos - 1)
<1>S. buf \in Text /\ pos \in Nat /\ pos <= Len(buf) /\ Shown(t, buf, pos) /\ Len(buf) \in Nat
  BY DEF Shown, Text
<1>0. pos - 1 \in Nat /\ pos - 1 <= Len(buf) /\ 1 \in Nat /\ 1 <= pos
  BY ONLY <1>S, pos # 0
<1>1. Painted(LE!Back(t, 1), SubSeq(buf, 1, pos - 1), buf)
  BY ONLY <1>S, <1>0, BackPaints
<1> QED BY ONLY <1>0, <1>1, PaintedSame

\* The character under the cursor is written again.
LEMMA RightShows ==
  ASSUME NEW t, NEW buf, NEW pos, Shown(t, buf, pos), pos # Len(buf)
  PROVE  Shown(LE!Put(t, <<buf[pos + 1]>>), buf, pos + 1)
<1>S. /\ buf \in Text /\ pos \in Nat /\ pos <= Len(buf) /\ Shown(t, buf, pos) /\ Len(buf) \in Nat
      /\ pos # Len(buf)
  BY DEF Shown, Text
<1>0. pos + 1 \in Nat /\ pos + 1 <= Len(buf) /\ pos + 1 \in 1 .. Len(buf)
  BY ONLY <1>S
<1>1. Painted(t, SubSeq(buf, 1, pos), buf)
  BY ONLY <1>S, ShownPaints
<1>2. <<buf[pos + 1]>> \in Text
  BY ONLY <1>S, <1>0 DEF Text
<1>3. Painted(LE!Put(t, <<buf[pos + 1]>>), SubSeq(buf, 1, pos) \o <<buf[pos + 1]>>, buf)
  BY ONLY <1>1, <1>2, PutPaints
<1>4. SubSeq(buf, 1, pos) \o <<buf[pos + 1]>> = SubSeq(buf, 1, pos + 1)
  BY ONLY <1>S, <1>0 DEF Text
<1> QED BY ONLY <1>0, <1>3, <1>4, PaintedSame

\* The last n characters before the cursor become full, and the rest is written again.
LEMMA SubstituteShows ==
  ASSUME LE!Blank \in Char, NEW t, NEW buf, NEW pos, Shown(t, buf, pos),
         NEW n \in Nat, n <= pos, NEW full \in Text
  PROVE  LET right == SubSeq(buf, pos + 1, Len(buf))
             start == pos - n
             u == LE!Wipe(LE!Put(LE!Back(t, n), full), Len(buf) - start - Len(full))
         IN  Shown(LE!ShowRest(u, right), SubSeq(buf, 1, start) \o full \o right, start + Len(full))
<1> DEFINE right == SubSeq(buf, pos + 1, Len(buf))
           start == pos - n
           left == SubSeq(buf, 1, start)
           k == Len(buf) - start - Len(full)
           t1 == LE!Put(LE!Back(t, n), full)
           t2 == LE!Wipe(t1, k)
           t3 == LE!Put(t2, right)
<1>S. /\ buf \in Text /\ pos \in Nat /\ pos <= Len(buf) /\ t \in Terminal /\ Shown(t, buf, pos)
      /\ LE!Blank \in Char /\ Len(buf) \in Nat /\ full \in Text /\ Len(full) \in Nat
      /\ n \in Nat /\ n <= pos
  BY DEF Shown, Text
<1>0. start \in Nat /\ start <= Len(buf) /\ k \in Int /\ (start + Len(full)) + k >= Len(buf)
  BY ONLY <1>S
<1>1. left \in Text /\ Len(left) = start /\ right \in Text /\ Len(right) = Len(buf) - pos
  <2> HIDE DEF start
  <2> QED BY ONLY <1>S, <1>0, Halves
<1>2. Painted(LE!Back(t, n), left, buf)
  BY ONLY <1>S, BackPaints
<1>3. Painted(t1, left \o full, buf)
  BY ONLY <1>S, <1>2, PutPaints
<1> HIDE DEF left, right, start, k
<1>4. left \o full \in Text /\ Len(left \o full) = start + Len(full)
  BY ONLY <1>S, <1>1, Joined
<1>5. Painted(t2, left \o full, left \o full)
  <2> HIDE DEF t1
  <2> QED BY ONLY <1>S, <1>0, <1>3, <1>4, WipeClears
<1>6. Painted(t3, (left \o full) \o right, left \o full)
  BY ONLY <1>1, <1>5, PutPaints
<1>7. Len((left \o full) \o right) = (start + Len(full)) + Len(right)
  BY ONLY <1>1, <1>4, Joined
<1>8. /\ Len(right) \in Nat /\ start + Len(full) <= (start + Len(full)) + Len(right)
      /\ Len(right) <= (start + Len(full)) + Len(right)
      /\ ((start + Len(full)) + Len(right)) - Len(right) = start + Len(full)
  BY ONLY <1>S, <1>0, <1>1
<1> HIDE DEF t3
<1>9. Shown(LE!Back(t3, Len(right)), (left \o full) \o right,
            Len((left \o full) \o right) - Len(right))
  BY ONLY <1>4, <1>6, <1>7, <1>8, PaintedShows
<1>10. Shown(LE!Back(t3, Len(right)), (left \o full) \o right, start + Len(full))
  BY ONLY <1>7, <1>8, <1>9
<1> QED BY ONLY <1>10 DEF LE!ShowRest, left, right, start, k, t1, t2, t3

\* The line on a row of its own.
LEMMA RedrawShows ==
  ASSUME NEW buf \in Text, NEW pos \in Nat, pos <= Len(buf)
  PROVE  /\ Shown(LE!Empty, <<>>, 0)
         /\ Shown(LE!Back(LE!Put(LE!Empty, buf), Len(SubSeq(buf, pos + 1, Len(buf)))), buf, pos)
<1> DEFINE right == SubSeq(buf, pos + 1, Len(buf))
<1>0. <<>> \in Text /\ Len(<<>>) = 0
  BY DEF Text
<1>1. LE!Empty \in Terminal /\ LE!Empty.row = <<>> /\ LE!Empty.cur = 0
  BY <1>0 DEF LE!Empty, Terminal
<1>2. Painted(LE!Empty, <<>>, <<>>)
  BY ONLY <1>0, <1>1 DEF Painted
<1>3. Shown(LE!Empty, <<>>, 0)
  BY ONLY <1>0, <1>1 DEF Shown
<1>4. Painted(LE!Put(LE!Empty, buf), <<>> \o buf, <<>>)
  BY ONLY <1>2, buf \in Text, PutPaints
<1>5. Painted(LE!Put(LE!Empty, buf), buf, <<>>)
  BY ONLY <1>4, buf \in Text, AllOf
<1>6. Len(right) = Len(buf) - pos /\ Len(buf) \in Nat
  BY Halves
<1> HIDE DEF right
<1>7. Len(right) \in Nat /\ Len(right) <= Len(buf) /\ Len(buf) - Len(right) = pos /\ Len(<<>>) <= Len(buf)
  BY ONLY <1>0, <1>6, pos \in Nat, pos <= Len(buf)
<1>8. Shown(LE!Back(LE!Put(LE!Empty, buf), Len(right)), buf, Len(buf) - Len(right))
  BY ONLY <1>5, <1>7, PaintedShows
<1> QED BY ONLY <1>3, <1>7, <1>8 DEF right

\* What readline works on: the line, the terminal and the history.
Session(e, t, h) == [ed |-> e, tty |-> t, history |-> h]

\* The row shows the line, and what ArrowUp and ArrowDown recall is in the history.
LineInv(x) ==
  /\ x = Session(LE!Line(x.ed.buf, x.ed.pos, x.ed.hidx, x.ed.saved, x.ed.tab, x.ed.own),
                 x.tty, x.history)
  /\ Shown(x.tty, x.ed.buf, x.ed.pos)
  /\ x.ed.saved \in Text /\ x.history \in Seq(Text)
  /\ x.ed.hidx \in Int /\ -1 <= x.ed.hidx /\ x.ed.hidx < Len(x.history)

\* A line with its fields.
LEMMA LineMade ==
  ASSUME NEW buf, NEW pos, NEW hidx, NEW saved, NEW tab, NEW own
  PROVE  LET e == LE!Line(buf, pos, hidx, saved, tab, own) IN
         /\ e.buf = buf /\ e.pos = pos /\ e.hidx = hidx /\ e.saved = saved
         /\ e.tab = tab /\ e.own = own
BY DEF LE!Line

LEMMA SessionMade ==
  ASSUME NEW e, NEW t, NEW h
  PROVE  Session(e, t, h).ed = e /\ Session(e, t, h).tty = t /\ Session(e, t, h).history = h
BY DEF Session

LEMMA LineInvMade ==
  ASSUME NEW buf, NEW pos, NEW hidx \in Int, NEW saved \in Text, NEW tab, NEW own, NEW t,
         NEW h \in Seq(Text), -1 <= hidx, hidx < Len(h), Shown(t, buf, pos)
  PROVE  LineInv(Session(LE!Line(buf, pos, hidx, saved, tab, own), t, h))
BY LineMade, SessionMade DEF LineInv

LEMMA EditInv ==
  ASSUME NEW x, LineInv(x), NEW buf, NEW pos, NEW t, Shown(t, buf, pos)
  PROVE  LineInv(LE!Edit(x, buf, pos, t))
<1>1. LE!Edit(x, buf, pos, t) =
        Session(LE!Line(buf, pos, x.ed.hidx, x.ed.saved, x.ed.tab, x.ed.own), t, x.history)
  BY DEF LE!Edit, Session
<1> QED BY <1>1, LineInvMade, SMTT(30) DEF LineInv

\* Only the flag changes.
LEMMA TabInv ==
  ASSUME NEW x, LineInv(x), NEW tab
  PROVE  /\ LineInv(LE!Tabbed(x, tab))
         /\ LE!Tabbed(x, tab).tty = x.tty /\ LE!Tabbed(x, tab).ed.buf = x.ed.buf
         /\ LE!Tabbed(x, tab).ed.pos = x.ed.pos
<1> DEFINE e == LE!Line(x.ed.buf, x.ed.pos, x.ed.hidx, x.ed.saved, tab, x.ed.own)
<1>1. [LE!Line(x.ed.buf, x.ed.pos, x.ed.hidx, x.ed.saved, x.ed.tab, x.ed.own) EXCEPT !.tab = tab] = e
  BY DEF LE!Line
<1>2. x.ed = LE!Line(x.ed.buf, x.ed.pos, x.ed.hidx, x.ed.saved, x.ed.tab, x.ed.own)
  BY SessionMade DEF LineInv
<1>3. [x EXCEPT !.ed = e] = Session(e, x.tty, x.history)
  <2> HIDE DEF e
  <2>1. PICK f, t, h : x = Session(f, t, h)
    BY DEF LineInv
  <2> QED BY <2>1 DEF Session
<1>4. LE!Tabbed(x, tab) = Session(e, x.tty, x.history)
  BY <1>1, <1>2, <1>3 DEF LE!Tabbed
<1>5. LineInv(Session(e, x.tty, x.history))
  BY LineInvMade DEF LineInv
<1>6. e.buf = x.ed.buf /\ e.pos = x.ed.pos
  BY LineMade
<1> HIDE DEF e
<1> QED BY ONLY <1>4, <1>5, <1>6, SessionMade

LEMMA ReplaceInv ==
  ASSUME LE!Blank \in Char, NEW x, LineInv(x), NEW entry \in Text
  PROVE  LineInv(LE!Replace(x, entry))
<1>1. Shown(x.tty, x.ed.buf, x.ed.pos)
  BY DEF LineInv
<1>2. Shown(LE!Wipe(LE!Put(LE!Back(x.tty, x.ed.pos), entry), Len(x.ed.buf) - Len(entry)),
            entry, Len(entry))
  BY <1>1, ReplaceShows
<1> QED BY <1>2, EditInv DEF LE!Replace

LEMMA InsertInv ==
  ASSUME NEW x, LineInv(x), NEW c \in Char
  PROVE  LineInv(LE!Insert(x, c))
<1> DEFINE right == SubSeq(x.ed.buf, x.ed.pos + 1, Len(x.ed.buf))
           t == LE!ShowRest(LE!Put(x.tty, <<c>>), right)
           buf == SubSeq(x.ed.buf, 1, x.ed.pos) \o <<c>> \o right
<1>1. Shown(x.tty, x.ed.buf, x.ed.pos)
  BY DEF LineInv
<1>2. Shown(t, buf, x.ed.pos + 1)
  BY ONLY <1>1, c \in Char, InsertShows
<1>3. LE!Insert(x, c) = LE!Edit(LE!Tabbed(x, FALSE), buf, x.ed.pos + 1, t)
  BY DEF LE!Insert, LE!Left, LE!Right
<1> HIDE DEF t, buf
<1>4. LineInv(LE!Tabbed(x, FALSE))
  BY TabInv
<1> QED BY ONLY <1>2, <1>3, <1>4, EditInv

LEMMA BackspaceInv ==
  ASSUME LE!Blank \in Char, NEW x, LineInv(x)
  PROVE  LineInv(LE!Backspace(x))
<1> DEFINE right == SubSeq(x.ed.buf, x.ed.pos + 1, Len(x.ed.buf))
           t == LE!Back(LE!Wipe(LE!Put(LE!Back(x.tty, 1), right), 1), Len(right))
           buf == SubSeq(x.ed.buf, 1, x.ed.pos - 1) \o right
<1>1. CASE x.ed.pos = 0
  BY <1>1 DEF LE!Backspace
<1>2. CASE x.ed.pos # 0
  <2>1. Shown(x.tty, x.ed.buf, x.ed.pos)
    BY DEF LineInv
  <2>2. Shown(t, buf, x.ed.pos - 1)
    BY ONLY LE!Blank \in Char, <1>2, <2>1, BackspaceShows
  <2>3. LE!Backspace(x) = LE!Edit(x, buf, x.ed.pos - 1, t)
    BY <1>2 DEF LE!Backspace, LE!Right
  <2> HIDE DEF t, buf
  <2> QED BY ONLY <2>2, <2>3, LineInv(x), EditInv
<1> QED BY <1>1, <1>2

LEMMA ArrowLeftInv ==
  ASSUME NEW x, LineInv(x)
  PROVE  LineInv(LE!ArrowLeft(x))
<1>1. CASE x.ed.pos = 0
  BY <1>1 DEF LE!ArrowLeft
<1>2. CASE x.ed.pos # 0
  <2>1. Shown(x.tty, x.ed.buf, x.ed.pos)
    BY DEF LineInv
  <2>2. Shown(LE!Back(x.tty, 1), x.ed.buf, x.ed.pos - 1)
    BY ONLY <1>2, <2>1, LeftShows
  <2> QED BY <1>2, <2>2, EditInv DEF LE!ArrowLeft
<1> QED BY <1>1, <1>2

LEMMA ArrowRightInv ==
  ASSUME NEW x, LineInv(x)
  PROVE  LineInv(LE!ArrowRight(x))
<1>1. CASE x.ed.pos = Len(x.ed.buf)
  BY <1>1 DEF LE!ArrowRight
<1>2. CASE x.ed.pos # Len(x.ed.buf)
  <2>1. Shown(x.tty, x.ed.buf, x.ed.pos)
    BY DEF LineInv
  <2>2. Shown(LE!Put(x.tty, <<x.ed.buf[x.ed.pos + 1]>>), x.ed.buf, x.ed.pos + 1)
    BY ONLY <1>2, <2>1, RightShows
  <2> QED BY <1>2, <2>2, EditInv DEF LE!ArrowRight
<1> QED BY <1>1, <1>2

LEMMA RecallInv ==
  ASSUME LE!Blank \in Char, NEW x, LineInv(x), NEW h \in Int, -1 <= h, h < Len(x.history),
         NEW saved \in Text, NEW entry \in Text
  PROVE  LineInv(LE!Recall(x, h, saved, entry))
<1> DEFINE e == LE!Line(x.ed.buf, x.ed.pos, h, saved, x.ed.tab, x.ed.own)
<1>1. LineInv(Session(e, x.tty, x.history))
  BY LineInvMade DEF LineInv
<1>2. [x EXCEPT !.ed = e] = Session(e, x.tty, x.history)
  <2> HIDE DEF e
  <2>1. PICK f, t, l : x = Session(f, t, l)
    BY DEF LineInv
  <2> QED BY <2>1 DEF Session
<1>3. LE!Recall(x, h, saved, entry) = LE!Replace([x EXCEPT !.ed = e], entry)
  BY DEF LE!Recall
<1> HIDE DEF e
<1> QED BY <1>1, <1>2, <1>3, ReplaceInv

\* The entries that the arrows recall are in the history.
LEMMA ArrowUpInv ==
  ASSUME LE!Blank \in Char, NEW x, LineInv(x)
  PROVE  LineInv(LE!ArrowUp(x))
<1> DEFINE h == x.ed.hidx + 1
           saved == IF h = 0 THEN x.ed.buf ELSE x.ed.saved
           entry == x.history[Len(x.history) - h]
<1>S. /\ x.history \in Seq(Text) /\ Len(x.history) \in Nat /\ x.ed.hidx \in Int /\ -1 <= x.ed.hidx
      /\ x.ed.saved \in Text /\ x.ed.buf \in Text
  BY DEF LineInv, Shown
<1>1. CASE h >= Len(x.history)
  BY <1>1 DEF LE!ArrowUp
<1>2. CASE ~(h >= Len(x.history))
  <2>0. PICK n \in Nat, i \in Int : n = Len(x.history) /\ i = x.ed.hidx
    BY ONLY <1>S
  <2>1. h \in Int /\ -1 <= h /\ h < Len(x.history) /\ Len(x.history) - h \in 1 .. Len(x.history)
    <3>1. -1 <= i /\ i + 1 < n /\ h = i + 1
      BY ONLY <1>S, <1>2, <2>0
    <3>2. i + 1 \in Int /\ -1 <= i + 1 /\ n - (i + 1) \in 1 .. n
      BY ONLY <3>1
    <3> QED BY ONLY <2>0, <3>1, <3>2
  <2>2. saved \in Text /\ entry \in Text
    BY ONLY <1>S, <2>1
  <2>3. LE!ArrowUp(x) = LE!Recall(x, h, saved, entry)
    BY <1>2 DEF LE!ArrowUp
  <2> HIDE DEF h, saved, entry
  <2> QED BY <2>1, <2>2, <2>3, RecallInv
<1> QED BY <1>1, <1>2

LEMMA ArrowDownInv ==
  ASSUME LE!Blank \in Char, NEW x, LineInv(x)
  PROVE  LineInv(LE!ArrowDown(x))
<1> DEFINE h == x.ed.hidx - 1
           entry == IF h = -1 THEN x.ed.saved ELSE x.history[Len(x.history) - h]
<1>S. /\ x.history \in Seq(Text) /\ Len(x.history) \in Nat /\ x.ed.hidx \in Int /\ -1 <= x.ed.hidx
      /\ x.ed.saved \in Text /\ x.ed.hidx < Len(x.history)
  BY DEF LineInv, Shown
<1>1. CASE x.ed.hidx < 0
  BY <1>1 DEF LE!ArrowDown
<1>2. CASE ~(x.ed.hidx < 0)
  <2>1. /\ h \in Int /\ -1 <= h /\ h < Len(x.history)
        /\ h # -1 => Len(x.history) - h \in 1 .. Len(x.history)
    BY ONLY <1>S, <1>2
  <2>2. entry \in Text
    BY ONLY <1>S, <2>1
  <2>3. LE!ArrowDown(x) = LE!Recall(x, h, x.ed.saved, entry)
    BY <1>2 DEF LE!ArrowDown
  <2> HIDE DEF h, entry
  <2> QED BY <1>S, <2>1, <2>2, <2>3, RecallInv
<1> QED BY <1>1, <1>2

\* The greatest of some numbers up to n is one of them.
LEMMA GreatestIn ==
  ASSUME NEW n \in Nat, NEW S, S \subseteq 0 .. n, S # {}
  PROVE  LE!Max(S) \in S
<1> DEFINE T == {n - x : x \in S}
<1>0. \A x \in S : x \in 0 .. n
  OBVIOUS
<1>1. T \subseteq Nat /\ T # {}
  <2>1. \A x \in S : n - x \in Nat
    BY ONLY <1>0, n \in Nat
  <2> QED BY <2>1
<1>2. PICK m \in T : \A y \in T : ~(<<y, m>> \in OpToRel(<, Nat))
  <2> HIDE DEF T
  <2> QED BY <1>1, NatLessThanWellFounded, WFMin
<1>3. \A y \in T : ~(y < m)
  <2> HIDE DEF T
  <2> QED BY ONLY <1>1, <1>2 DEF OpToRel
<1>4. PICK x \in S : m = n - x
  BY <1>2
<1>5. ASSUME NEW y \in S PROVE x >= y
  <2>1. ~(n - y < n - x)
    BY <1>3, <1>4
  <2>2. x \in Nat /\ y \in Nat
    BY <1>0
  <2> QED BY ONLY <2>1, <2>2, n \in Nat
<1> QED BY <1>5 DEF LE!Max

\* The last place of a character is a place of the text, or 0.
LEMMA LastAtIn ==
  ASSUME NEW s \in Text, NEW c
  PROVE  LE!LastAt(s, c) \in Nat /\ LE!LastAt(s, c) <= Len(s) /\ Len(s) \in Nat
<1> DEFINE S == {k \in DOMAIN s : s[k] = c} \cup {0}
<1>1. Len(s) \in Nat /\ DOMAIN s = 1 .. Len(s)
  BY DEF Text
<1>2. S \subseteq 0 .. Len(s) /\ S # {}
  BY ONLY <1>1
<1>3. LE!LastAt(s, c) = LE!Max(S)
  BY DEF LE!LastAt
<1> HIDE DEF S
<1>4. LE!Max(S) \in S
  BY ONLY <1>1, <1>2, GreatestIn
<1>5. LE!LastAt(s, c) \in 0 .. Len(s)
  BY ONLY <1>2, <1>3, <1>4
<1> QED BY ONLY <1>1, <1>5

LEMMA SubText ==
  ASSUME NEW s \in Text, NEW a \in Nat, NEW b \in Nat, a <= b, b <= Len(s)
  PROVE  SubSeq(s, a + 1, b) \in Text /\ Len(SubSeq(s, a + 1, b)) = b - a
BY DEF Text

\* The word before the cursor is a part of the line, and its directory of the word.
LEMMA TokenIn ==
  ASSUME NEW e, e.buf \in Text, e.pos \in Nat, e.pos <= Len(e.buf)
  PROVE  /\ LE!Token(e) \in Text /\ Len(LE!Token(e)) \in Nat /\ Len(LE!Token(e)) <= e.pos
         /\ LE!Dir(LE!Token(e)) \in Text
<1> DEFINE left == SubSeq(e.buf, 1, e.pos)
           a == LE!LastAt(left, LE!Blank)
           tok == LE!Token(e)
           d == LE!LastAt(tok, "/")
<1>1. left \in Text /\ Len(left) = e.pos
  BY Halves
<1>2. a \in Nat /\ a <= e.pos
  <2> HIDE DEF left
  <2> QED BY ONLY <1>1, LastAtIn
<1>3. tok = SubSeq(e.buf, a + 1, e.pos)
  BY DEF LE!Token, LE!Left
<1>4. tok \in Text /\ Len(tok) = e.pos - a
  <2> HIDE DEF a, tok
  <2> QED BY <1>2, <1>3, SubText
<1>5. d \in Nat /\ d <= Len(tok) /\ Len(tok) \in Nat
  <2> HIDE DEF tok
  <2> QED BY ONLY <1>4, LastAtIn
<1>6. LE!Dir(tok) = SubSeq(tok, 0 + 1, d)
  BY DEF LE!Dir
<1>7. SubSeq(tok, 0 + 1, d) \in Text
  <2> HIDE DEF tok, d
  <2>1. 0 \in Nat /\ 0 <= d
    BY ONLY <1>5
  <2> QED BY ONLY <1>4, <1>5, <2>1, SubText
<1>8. Len(tok) <= e.pos
  <2> HIDE DEF tok, a
  <2> QED BY ONLY <1>2, <1>4, e.pos \in Nat
<1> QED BY ONLY <1>4, <1>5, <1>6, <1>7, <1>8

Dirs == [name : Text, dir : BOOLEAN]

\* What the line editor is given: bytes of a character set, and names written in it.
LineConsts ==
  /\ LE!Blank \in Char /\ "/" \in Char
  /\ HISTORY_SIZE \in Nat \ {0}
  /\ \A bs \in Bytes : bs \in Text
  /\ Builtins \in Seq(Text)
  /\ \A d \in DOMAIN Listing : Listing[d] \in Seq(Dirs)

LEMMA NamesIn ==
  ASSUME LineConsts, NEW d
  PROVE  LE!Names(LE!Entries(d)) \in Seq(Text)
<1>1. LE!Entries(d) \in Seq(Dirs)
  BY DEF LE!Entries, LineConsts
<1>2. PICK es \in Seq(Dirs) : es = LE!Entries(d)
  BY <1>1
<1>3. DOMAIN es = 1 .. Len(es) /\ Len(es) \in Nat /\ \A k \in 1 .. Len(es) : es[k].name \in Text
  <2>1. \A r \in Dirs : r.name \in Text
    BY DEF Dirs
  <2>2. DOMAIN es = 1 .. Len(es) /\ Len(es) \in Nat /\ \A k \in 1 .. Len(es) : es[k] \in Dirs
    BY ONLY <1>2
  <2> QED BY ONLY <2>1, <2>2
<1>4. [k \in 1 .. Len(es) |-> es[k].name] \in Seq(Text)
  BY ONLY <1>3
<1> QED BY ONLY <1>2, <1>3, <1>4 DEF LE!Names

LEMMA ConcatIn ==
  ASSUME NEW S, NEW p \in Seq(S), NEW q \in Seq(S)
  PROVE  p \o q \in Seq(S)
OBVIOUS

LEMMA MatchesIn ==
  ASSUME LineConsts, NEW e
  PROVE  LE!Matches(e) \subseteq Text
<1> DEFINE dir == LE!Dir(LE!Token(e))
           bin == LE!Names(LE!Entries(<<"/", "b", "/">>))
           here == LE!Names(LE!Entries(IF dir = <<>> THEN <<".">> ELSE dir))
           first == IF Len(LE!Token(e)) = e.pos /\ dir = <<>> THEN Builtins \o bin ELSE <<>>
<1>1. bin \in Seq(Text) /\ here \in Seq(Text) /\ Builtins \in Seq(Text)
  BY NamesIn DEF LineConsts
<1>2. LE!Candidates(e) = first \o here
  BY DEF LE!Candidates
<1>3. first \in Seq(Text)
  <2> HIDE DEF bin, dir
  <2>1. Builtins \o bin \in Seq(Text)
    BY ONLY <1>1, ConcatIn
  <2> QED BY ONLY <2>1
<1>4. LE!Candidates(e) \in Seq(Text)
  <2> HIDE DEF first, here
  <2> QED BY ONLY <1>1, <1>2, <1>3, ConcatIn
<1>5. PICK all \in Seq(Text) : all = LE!Candidates(e)
  BY ONLY <1>4
<1>6. \A k \in DOMAIN all : all[k] \in Text
  BY ONLY <1>5
<1>7. \A n \in LE!Matches(e) : \E k \in DOMAIN all : n = all[k]
  BY ONLY <1>5 DEF LE!Matches
<1> QED BY ONLY <1>6, <1>7

\* What the names have in common is the start of one of them.
LEMMA CommonIn ==
  ASSUME NEW ms, ms \subseteq Text, ms # {}
  PROVE  LE!Common(ms) \in Text
<1> DEFINE m == CHOOSE m \in ms : TRUE
           S == {k \in 0 .. Len(m) : \A n \in ms : LE!IsPrefix(SubSeq(m, 1, k), n)}
<1>1. m \in Text
  BY ms \subseteq Text, ms # {}
<1>C. LE!Common(ms) = SubSeq(m, 1, LE!Max(S))
  BY DEF LE!Common
<1> HIDE DEF m
<1>2. Len(m) \in Nat
  BY ONLY <1>1 DEF Text
<1>3. 0 \in S
  <2>1. ASSUME NEW n \in ms PROVE LE!IsPrefix(SubSeq(m, 1, 0), n)
    <3>1. n \in Text /\ Len(n) \in Nat
      BY <2>1 DEF Text
    <3>2. SubSeq(m, 1, 0) = <<>> /\ SubSeq(n, 1, 0) = <<>> /\ Len(<<>>) = 0
      BY ONLY <1>1, <3>1, AllOf
    <3>3. SubSeq(<<>>, 1, 0) = <<>>
      <4>1. <<>> \in Text
        BY DEF Text
      <4> QED BY ONLY <4>1, AllOf
    <3> QED BY ONLY <3>1, <3>2, <3>3 DEF LE!IsPrefix
  <2> QED BY ONLY <1>2, <2>1
<1>4. S \subseteq 0 .. Len(m)
  OBVIOUS
<1> HIDE DEF S
<1>5. LE!Max(S) \in S
  BY ONLY <1>2, <1>3, <1>4, GreatestIn
<1>6. LE!Max(S) \in Nat /\ LE!Max(S) <= Len(m)
  <2>1. LE!Max(S) \in 0 .. Len(m)
    BY ONLY <1>4, <1>5
  <2> QED BY ONLY <1>2, <2>1
<1> QED BY ONLY <1>1, <1>C, <1>6, Halves

LEMMA SubstituteInv ==
  ASSUME LineConsts, NEW x, LineInv(x), NEW full \in Text
  PROVE  LineInv(LE!Substitute(x, full))
<1> DEFINE n == Len(LE!Token(x.ed))
           right == SubSeq(x.ed.buf, x.ed.pos + 1, Len(x.ed.buf))
           start == x.ed.pos - n
           u == LE!Wipe(LE!Put(LE!Back(x.tty, n), full), Len(x.ed.buf) - start - Len(full))
           t == LE!ShowRest(u, right)
           buf == SubSeq(x.ed.buf, 1, start) \o full \o right
<1>S. /\ Shown(x.tty, x.ed.buf, x.ed.pos) /\ LE!Blank \in Char
      /\ x.ed.buf \in Text /\ x.ed.pos \in Nat /\ x.ed.pos <= Len(x.ed.buf)
  BY DEF LineInv, LineConsts, Shown
<1>1. n \in Nat /\ n <= x.ed.pos
  BY ONLY <1>S, TokenIn
<1>2. Shown(t, buf, start + Len(full))
  <2> HIDE DEF n
  <2> QED BY ONLY <1>S, <1>1, full \in Text, SubstituteShows
<1>3. LE!Substitute(x, full) = LE!Edit(x, buf, start + Len(full), t)
  BY DEF LE!Substitute, LE!Right
<1> HIDE DEF t, buf, start
<1> QED BY ONLY <1>2, <1>3, LineInv(x), EditInv

\* The row is the line's own again.
LEMMA RedrawInv ==
  ASSUME NEW x, LineInv(x)
  PROVE  LineInv([ed |-> [x.ed EXCEPT !.own = TRUE],
                  tty |-> LE!Back(LE!Put(LE!Empty, x.ed.buf), Len(LE!Right(x.ed))),
                  history |-> x.history])
<1> DEFINE t == LE!Back(LE!Put(LE!Empty, x.ed.buf), Len(LE!Right(x.ed)))
           e == LE!Line(x.ed.buf, x.ed.pos, x.ed.hidx, x.ed.saved, x.ed.tab, TRUE)
<1>1. [LE!Line(x.ed.buf, x.ed.pos, x.ed.hidx, x.ed.saved, x.ed.tab, x.ed.own) EXCEPT !.own = TRUE] = e
  <2>1. ASSUME NEW own
        PROVE [LE!Line(x.ed.buf, x.ed.pos, x.ed.hidx, x.ed.saved, x.ed.tab, x.ed.own) EXCEPT !.own = own]
                = LE!Line(x.ed.buf, x.ed.pos, x.ed.hidx, x.ed.saved, x.ed.tab, own)
    BY DEF LE!Line
  <2> QED BY ONLY <2>1, Zenon
<1>2. x.ed = LE!Line(x.ed.buf, x.ed.pos, x.ed.hidx, x.ed.saved, x.ed.tab, x.ed.own)
  BY SessionMade DEF LineInv
<1>3. [x.ed EXCEPT !.own = TRUE] = e
  BY ONLY <1>1, <1>2
<1>4. x.ed.buf \in Text /\ x.ed.pos \in Nat /\ x.ed.pos <= Len(x.ed.buf)
  BY DEF LineInv, Shown
<1>5. Shown(t, x.ed.buf, x.ed.pos)
  BY ONLY <1>4, RedrawShows DEF LE!Right
<1> HIDE DEF t
<1>6. LineInv(Session(e, t, x.history))
  BY <1>5, LineInvMade DEF LineInv
<1> QED BY ONLY <1>3, <1>6 DEF Session, t

LEMMA TabCompleteInv ==
  ASSUME LineConsts, NEW x, LineInv(x)
  PROVE  LineInv(LE!TabComplete(x))
<1> DEFINE dir == LE!Dir(LE!Token(x.ed))
           ms == LE!Matches(x.ed)
           only == CHOOSE n \in ms : TRUE
           slash == IF LE!IsDir(dir, only) THEN <<"/">> ELSE <<>>
<1>S. LineConsts /\ LineInv(x)
  OBVIOUS
<1>1. dir \in Text
  BY TokenIn DEF LineInv, Shown
<1>2. ms \subseteq Text
  BY MatchesIn
<1>3. slash \in Text
  <2> HIDE DEF dir, only
  <2>1. <<"/">> \in Text /\ <<>> \in Text
    BY ONLY <1>S DEF LineConsts, Text
  <2> QED BY ONLY <2>1
<1>4. CASE ms = {}
  BY <1>4 DEF LE!TabComplete
<1>5. CASE ms # {} /\ ms = {only}
  <2>1. LE!TabComplete(x) = LE!Substitute(x, dir \o only \o slash)
    BY <1>5 DEF LE!TabComplete
  <2>2. only \in Text
    BY <1>2, <1>5
  <2> HIDE DEF dir, only, slash
  <2>3. dir \o only \in Text
    BY ONLY <1>1, <2>2, Joined
  <2>4. dir \o only \o slash \in Text
    BY ONLY <1>3, <2>3, Joined
  <2> QED BY ONLY <1>S, <2>1, <2>4, SubstituteInv
<1>6. CASE ms # {} /\ ms # {only} /\ Len(LE!Common(ms)) > Len(LE!Prefix(LE!Token(x.ed)))
  <2>1. LE!TabComplete(x) = LE!Tabbed(LE!Substitute(x, dir \o LE!Common(ms)), FALSE)
    BY <1>6 DEF LE!TabComplete
  <2> HIDE DEF dir, ms
  <2>2. LE!Common(ms) \in Text
    BY <1>2, <1>6, CommonIn
  <2>3. dir \o LE!Common(ms) \in Text
    BY ONLY <1>1, <2>2, Joined
  <2>4. LineInv(LE!Substitute(x, dir \o LE!Common(ms)))
    BY ONLY <1>S, <2>3, SubstituteInv
  <2> QED BY ONLY <2>1, <2>4, TabInv
<1>7. CASE /\ ms # {} /\ ms # {only} /\ ~(Len(LE!Common(ms)) > Len(LE!Prefix(LE!Token(x.ed))))
           /\ ~x.ed.tab
  <2>1. LE!TabComplete(x) = LE!Tabbed(x, TRUE)
    BY <1>7 DEF LE!TabComplete
  <2> QED BY ONLY <1>S, <2>1, TabInv
<1>8. CASE /\ ms # {} /\ ms # {only} /\ ~(Len(LE!Common(ms)) > Len(LE!Prefix(LE!Token(x.ed))))
           /\ x.ed.tab
  <2>1. LE!TabComplete(x) = [ed |-> [x.ed EXCEPT !.own = TRUE],
                             tty |-> LE!Back(LE!Put(LE!Empty, x.ed.buf), Len(LE!Right(x.ed))),
                             history |-> x.history]
    BY <1>8 DEF LE!TabComplete
  <2> QED BY ONLY <1>S, <2>1, RedrawInv
<1> QED BY ONLY <1>4, <1>5, <1>6, <1>7, <1>8

LEMMA HistoryIn ==
  ASSUME LineConsts, NEW h \in Seq(Text), NEW line \in Text
  PROVE  LE!history_add(h, line) \in Seq(Text)
<1>1. HISTORY_SIZE \in Nat /\ HISTORY_SIZE > 0
  BY DEF LineConsts
<1>2. CASE Len(h) >= HISTORY_SIZE
  <2>1. Tail(h) \in Seq(Text)
    BY ONLY <1>1, <1>2, h \in Seq(Text)
  <2>2. Append(Tail(h), line) \in Seq(Text)
    BY ONLY <2>1, line \in Text
  <2> QED BY ONLY <1>2, <2>2, h \in Seq(Text) DEF LE!history_add
<1>3. CASE ~(Len(h) >= HISTORY_SIZE)
  <2>1. Append(h, line) \in Seq(Text)
    BY ONLY h \in Seq(Text), line \in Text
  <2> QED BY ONLY <1>3, <2>1, h \in Seq(Text) DEF LE!history_add
<1> QED BY ONLY <1>2, <1>3

\* readline returns, and the next line is read on an empty row.
LEMMA ReturnInv ==
  ASSUME LineConsts, NEW x, LineInv(x), NEW newline, NEW keep
  PROVE  LineInv(LE!Return(x, newline, keep))
<1> DEFINE h == IF keep /\ x.ed.buf # <<>> THEN LE!history_add(x.history, x.ed.buf) ELSE x.history
<1>S. x.ed.buf \in Text /\ x.history \in Seq(Text)
  BY DEF LineInv, Shown
<1>1. LE!history_add(x.history, x.ed.buf) \in Seq(Text)
  BY <1>S, HistoryIn
<1>2. h \in Seq(Text)
  BY ONLY <1>S, <1>1
<1>3. LE!Return(x, newline, keep) = Session(LE!Line(<<>>, 0, -1, <<>>, x.ed.tab, newline), LE!Empty, h)
  BY DEF LE!Return, Session
<1> HIDE DEF h
<1>4. <<>> \in Text /\ 0 \in Nat /\ 0 <= Len(<<>>) /\ -1 \in Int /\ -1 <= -1 /\ -1 < Len(h)
  <2>1. Len(h) \in Nat /\ Len(<<>>) = 0
    BY ONLY <1>2
  <2> QED BY ONLY <2>1 DEF Text
<1>5. Shown(LE!Empty, <<>>, 0)
  BY ONLY <1>4, RedrawShows
<1> QED BY ONLY <1>2, <1>3, <1>4, <1>5, LineInvMade

\* What read_key returns: a byte, or the key that three bytes are.
Keys == Char \cup {"ESC", "UP", "DOWN", "LEFT", "RIGHT"}

LEMMA HandleInv ==
  ASSUME LineConsts, NEW x, LineInv(x), NEW key \in Keys
  PROVE  LineInv(LE!Handle(x, key))
<1>B. LE!Blank \in Char
  BY DEF LineConsts
<1>1. CASE key = "ENTER"
  <2>1. LE!Handle(x, key) = LE!Return(x, TRUE, TRUE)
    BY <1>1 DEF LE!Handle
  <2> QED BY <2>1, ReturnInv
<1>2. CASE key \in {"CTRL_C", "CTRL"}
  <2>1. LE!Handle(x, key) = LE!Return(x, TRUE, FALSE)
    BY <1>2 DEF LE!Handle
  <2> QED BY <2>1, ReturnInv
<1>3. CASE key = "CTRL_D"
  BY <1>3 DEF LE!Handle
<1>4. CASE key = "BS"
  <2>1. LE!Handle(x, key) = LE!Backspace(x)
    BY <1>4 DEF LE!Handle
  <2> QED BY <1>B, <2>1, BackspaceInv
<1>5. CASE key = "LEFT"
  <2>1. LE!Handle(x, key) = LE!ArrowLeft(x)
    BY <1>5 DEF LE!Handle
  <2> QED BY <2>1, ArrowLeftInv
<1>6. CASE key = "RIGHT"
  <2>1. LE!Handle(x, key) = LE!ArrowRight(x)
    BY <1>6 DEF LE!Handle
  <2> QED BY <2>1, ArrowRightInv
<1>7. CASE key = "UP"
  <2>1. LE!Handle(x, key) = LE!ArrowUp(x)
    BY <1>7 DEF LE!Handle
  <2> QED BY <1>B, <2>1, ArrowUpInv
<1>8. CASE key = "DOWN"
  <2>1. LE!Handle(x, key) = LE!ArrowDown(x)
    BY <1>8 DEF LE!Handle
  <2> QED BY <1>B, <2>1, ArrowDownInv
<1>9. CASE key = "TAB"
  <2>1. LE!Handle(x, key) = LE!TabComplete(x)
    BY <1>9 DEF LE!Handle
  <2> QED BY <2>1, TabCompleteInv
<1>10. CASE key = "ESC"
  <2>1. LE!Handle(x, key) = LE!Tabbed(x, FALSE)
    BY <1>10 DEF LE!Handle
  <2> QED BY <2>1, TabInv
<1>11. CASE key \notin {"ENTER", "CTRL_C", "CTRL", "CTRL_D", "BS", "LEFT", "RIGHT", "UP", "DOWN",
                        "TAB", "ESC"}
  <2>1. LE!Handle(x, key) = LE!Insert(x, key)
    BY <1>11 DEF LE!Handle
  <2>2. key \in Char
    BY <1>11 DEF Keys
  <2> QED BY <2>1, <2>2, InsertInv
<1> QED BY ONLY <1>1, <1>2, <1>3, <1>4, <1>5, <1>6, <1>7, <1>8, <1>9, <1>10, <1>11

LEMMA PressInv ==
  ASSUME LineConsts, NEW x, LineInv(x), NEW ks \in Seq(Keys), NEW k \in Nat \ {0}
  PROVE  LineInv(LE!Press(x, ks, k))
<1>1. CASE ~(k <= Len(ks))
  BY <1>1 DEF LE!Press
<1>2. CASE k <= Len(ks)
  <2>1. ks[k] \in Keys
    BY <1>2
  <2> DEFINE y == LE!Handle(x, ks[k])
  <2>2. LineInv(y)
    BY <2>1, HandleInv
  <2>3. LE!Press(x, ks, k) = IF Len(y.ed.buf) >= MAX - 1 THEN LE!Return(y, FALSE, TRUE) ELSE y
    BY <1>2 DEF LE!Press, LE!Key
  <2> HIDE DEF y
  <2>4. LineInv(LE!Return(y, FALSE, TRUE))
    BY <2>2, ReturnInv
  <2> QED BY ONLY <2>2, <2>3, <2>4
<1> QED BY <1>1, <1>2

LEMMA KeysIn ==
  ASSUME NEW bs \in Text, NEW late
  PROVE  LE!read_key(bs, late) \in Seq(Keys)
<1>1. bs \in Seq(Keys)
  BY DEF Text, Keys
<1>2. SubSeq(bs, 3, Len(bs)) \in Seq(Keys) /\ SubSeq(bs, 4, Len(bs)) \in Seq(Keys)
  BY ONLY <1>1
<1>3. "ESC" \in Keys /\ LE!Arrow(bs[3]) \in Keys
  BY DEF Keys, LE!Arrow
<1>4. <<"ESC">> \in Seq(Keys) /\ <<LE!Arrow(bs[3])>> \in Seq(Keys)
  BY ONLY <1>3
<1>5. /\ <<"ESC">> \o SubSeq(bs, 3, Len(bs)) \in Seq(Keys)
      /\ <<LE!Arrow(bs[3])>> \o SubSeq(bs, 4, Len(bs)) \in Seq(Keys)
  BY ONLY <1>2, <1>4, ConcatIn
<1> QED BY ONLY <1>1, <1>5 DEF LE!read_key

\* What is shown is exactly the line, with blanks after it.
LEMMA ShownExact ==
  ASSUME NEW t, NEW buf, NEW pos, Shown(t, buf, pos), LE!Blank \in Char
  PROVE  /\ t.cur = pos /\ pos \in 0 .. Len(buf)
         /\ t.row = buf \o LE!Spaces(Len(t.row) - Len(buf))
<1>S. /\ t.row \in Text /\ buf \in Text /\ pos \in Nat /\ pos <= Len(buf) /\ t.cur = pos
      /\ Len(buf) <= Len(t.row)
      /\ \A k \in 1 .. Len(t.row) : t.row[k] = IF k <= Len(buf) THEN buf[k] ELSE LE!Blank
  BY DEF Shown, Terminal
<1>1. PICK l \in Nat, w \in Nat : l = Len(buf) /\ w = Len(t.row) /\ l <= w
  BY ONLY <1>S DEF Text
<1>2. PICK n \in Nat : n = w - l
  BY ONLY <1>1
<1> DEFINE s == buf \o LE!Spaces(n)
<1>3. /\ s \in Text /\ Len(s) = l + n
      /\ \A k \in 1 .. l + n : s[k] = IF k <= l THEN buf[k] ELSE LE!Blank
  <2>1. buf \in Text /\ l = Len(buf)
    BY ONLY <1>S, <1>1
  <2>2. IsPadded(buf, l, LE!Spaces(n), n)
    BY ONLY <2>1, l \in Nat, LE!Blank \in Char, n \in Nat, Padded
  <2> QED BY ONLY <2>2 DEF IsPadded
<1> HIDE DEF s
<1>4. l + n = w
  BY ONLY <1>1, <1>2
<1>7. \A k \in 1 .. w : s[k] = t.row[k]
  BY ONLY <1>S, <1>1, <1>3, <1>4
<1>8. t.row = s
  BY ONLY <1>S, <1>1, <1>3, <1>4, <1>7, SMTT(30) DEF Text
<1>9. t.row = buf \o LE!Spaces(Len(t.row) - Len(buf))
  BY ONLY <1>1, <1>2, <1>8 DEF s
<1>10. pos \in 0 .. Len(buf)
  BY ONLY <1>S, <1>1
<1> QED BY ONLY <1>S, <1>9, <1>10

\* Whatever is typed, in any order, at any pace and for any buffer, history, builtins and
\* directories, the row shows exactly the line that Enter will run, with the cursor where the
\* next character goes: readline, line_replace and tab_complete write to the terminal just what
\* they do to the buffer.
THEOREM LineCorrect ==
  ASSUME LineConsts
  PROVE  LE!Spec => []LineShown
<1> DEFINE x == Session(ed, tty, history)
           Inv2 == LineInv(x)
<1>1. LE!Init => Inv2
  <2> SUFFICES ASSUME LE!Init PROVE Inv2
    OBVIOUS
  <2>1. x = Session(LE!Line(<<>>, 0, -1, <<>>, FALSE, TRUE), LE!Empty, <<>>)
    BY DEF LE!Init
  <2>2. /\ <<>> \in Text /\ <<>> \in Seq(Text) /\ 0 \in Nat /\ 0 <= Len(<<>>) /\ -1 \in Int
        /\ -1 <= -1 /\ -1 < Len(<<>>)
    BY DEF Text
  <2>3. Shown(LE!Empty, <<>>, 0)
    BY ONLY <2>2, RedrawShows
  <2> QED BY ONLY <2>1, <2>2, <2>3, LineInvMade
<1>2. Inv2 /\ [LE!Next]_LE!vars => Inv2'
  <2> SUFFICES ASSUME Inv2, [LE!Next]_LE!vars PROVE Inv2'
    OBVIOUS
  <2>1. CASE UNCHANGED LE!vars
    BY <2>1 DEF LE!vars
  <2>2. ASSUME NEW bs \in Bytes, NEW late, LE!Type(bs, late) PROVE Inv2'
    <3> DEFINE ks == LE!read_key(bs, late)
               y1 == LE!Press(x, ks, 1)
               y2 == LE!Press(y1, ks, 2)
               y3 == LE!Press(y2, ks, 3)
    <3>1. ks \in Seq(Keys)
      BY <2>2, KeysIn DEF LineConsts
    <3> HIDE DEF ks
    <3>2. LineInv(y1)
      BY <3>1, PressInv
    <3> HIDE DEF y1
    <3>3. LineInv(y2)
      BY <3>1, <3>2, PressInv
    <3> HIDE DEF y2
    <3>4. LineInv(y3)
      BY <3>1, <3>3, PressInv
    <3>5. ed' = y3.ed /\ tty' = y3.tty /\ history' = y3.history
      BY <2>2 DEF LE!Type, Session, ks, y1, y2
    <3> HIDE DEF y3
    <3>6. y3 = Session(y3.ed, y3.tty, y3.history)
      BY ONLY <3>4, SessionMade DEF LineInv
    <3> QED BY ONLY <3>4, <3>5, <3>6
  <2> QED BY <2>1, <2>2 DEF LE!Next
<1>3. Inv2 => LE!LineShown
  <2> SUFFICES ASSUME Inv2 PROVE LE!LineShown
    OBVIOUS
  <2>1. Shown(tty, ed.buf, ed.pos)
    BY SessionMade DEF LineInv
  <2> QED BY <2>1, ShownExact DEF LE!LineShown, LineConsts
<1> QED BY <1>1, <1>2, <1>3, PTL DEF LE!Spec, LineShown
=============================================================================
