----------------------------- MODULE FileBlocks -----------------------------
(***************************************************************************)
(* The blocks of files: allocation, the index blocks, reading, writing and *)
(* truncation (kernel/fs.c), through an open file (kernel/file.c, lseek    *)
(* and ftruncate of kernel/syscall.c), on an image that mkfs has written.  *)
(*                                                                         *)
(* cache is what bio_read and fs_ilock show, disk what bio_write and       *)
(* fs_iupdate have written: a buffer may be evicted, and an inode leave    *)
(* the inode table, whenever no call uses it.  The lock of the inode makes *)
(* each call one step.  The disk does not fail.                            *)
(*                                                                         *)
(* fs_itrunc_to leaves a double index block that it changed and kept       *)
(* unwritten.  lost says that the buffer of such a block was evicted: the  *)
(* file then has its old pointers back, to blocks that are free.           *)
(***************************************************************************)
EXTENDS DiskImage

CONSTANTS
  Lens,    \* how many words a call reads or writes
  Offsets, \* the offsets that lseek is given
  Cuts,    \* lengths for ftruncate
  MaxOps   \* bound: how many calls are made

VARIABLES
  fs,      \* [blk, ino] of the cache, [dblk, dino] of the disk, the bitmap, and lost
  file,    \* the open file: inode, offset, append
  data,    \* what the files contain: the words of each
  ops      \* how many calls have been made

vars == <<fs, file, data, ops>>

Files == DOMAIN data

\* mkfs has written the image; the words of its files are read as the boot loader does.
Init ==
  /\ \E im \in {mkfs} :
     /\ im.ok
     /\ fs = [blk |-> im.blk, ino |-> im.ino, dblk |-> im.blk, dino |-> im.ino, bits |-> im.bits,
             lost |-> FALSE]
     /\ data = [i \in {j \in Inums : im.ino[j].type = "file"} |-> [k \in 1 .. im.ino[i].size |->
                  im.blk[boot_bmap(im.blk, im.ino[i], (k - 1) \div BSIZE)][(k - 1) % BSIZE]]]
  /\ file = [ip |-> Min(Files), off |-> 0, append |-> FALSE]
  /\ ops = 0

-----------------------------------------------------------------------------
(* fs.c *)

\* The buffer of b gets a word, in the cache only; bio_write.
Set(s, b, k, word) == [s EXCEPT !.blk[b][k] = word]
bio_write(s, b) == [s EXCEPT !.dblk[b] = s.blk[b]]

fs_iupdate(s, i) == [s EXCEPT !.dino[i] = s.ino[i]]

\* A block is marked in the bitmap and zeroed.  addr 0: there is none.
balloc(s) ==
  LET b == Min((0 .. SIZE - 1) \ s.bits) IN
  IF 0 .. SIZE - 1 \subseteq s.bits THEN [s |-> s, addr |-> 0]
  ELSE [s |-> [s EXCEPT !.bits = @ \cup {b}, !.blk[b] = Zeroes, !.dblk[b] = Zeroes], addr |-> b]

bfree(s, bs) == [s EXCEPT !.bits = @ \ bs]

\* A new pointer is written with its index block.
\* (mutant: it stays in the buffer)
PutPointerLazy(s, b, k, addr) == Set(s, b, k, addr)
PutPointer(s, b, k, addr) == bio_write(Set(s, b, k, addr), b)

\* Down the index blocks from b.
RECURSIVE Descend(_, _, _)
Descend(s, b, rest) ==
  LET old == s.blk[b][Head(rest)]
      new == balloc(s)
  IN  IF rest = <<>> THEN [s |-> s, addr |-> b]
      ELSE IF old # 0 THEN Descend(s, old, Tail(rest))
      ELSE IF new.addr = 0 THEN new
      ELSE Descend(PutPointer(new.s, b, Head(rest), new.addr), new.addr, Tail(rest))

fs_bmap(s, i, bn) ==
  LET slot == Head(Index(bn))
      old == s.ino[i].addrs[slot]
      new == balloc(s)
  IN  IF bn >= MAXFILE THEN [s |-> s, addr |-> 0]
      ELSE IF old # 0 THEN Descend(s, old, Tail(Index(bn)))
      ELSE IF new.addr = 0 THEN new
      ELSE Descend([new.s EXCEPT !.ino[i].addrs[slot] = new.addr], new.addr, Tail(Index(bn)))

\* Word by word, up to a block that cannot be had.
GetWord(r, m, k) ==
  IF m.addr = 0 THEN [r EXCEPT !.s = m.s, !.stop = TRUE]
  ELSE [r EXCEPT !.s = m.s, !.words = Append(@, m.s.blk[m.addr][k])]

fs_readi(s, i, off, n) ==
  LET size == s.ino[i].size
      Step(r, o) == IF r.stop THEN r ELSE GetWord(r, fs_bmap(r.s, i, o \div BSIZE), o % BSIZE)
      len == IF off > size THEN 0 ELSE IF off + n > size THEN size - off ELSE n
  IN  FoldLeft(Step, [s |-> s, words |-> <<>>, stop |-> FALSE], [k \in 1 .. len |-> off + k - 1])

PutWord(r, m, k, word) ==
  IF m.addr = 0 THEN [r EXCEPT !.s = m.s, !.stop = TRUE]
  ELSE [r EXCEPT !.s = bio_write(Set(m.s, m.addr, k, word), m.addr), !.tot = @ + 1]

\* The size of a file that has been written up to end, and its inode.
Sized(r, i, off) ==
  LET end == off + r.tot IN
  [s |-> fs_iupdate([r.s EXCEPT !.ino[i].size = IF end > @ THEN end ELSE @], i), tot |-> r.tot]

fs_writei(s, i, off, words) ==
  LET Step(r, k) ==
        IF r.stop THEN r
        ELSE PutWord(r, fs_bmap(r.s, i, (off + k - 1) \div BSIZE), (off + k - 1) % BSIZE, words[k])
  IN  IF off > s.ino[i].size \/ off + Len(words) > MAXFILE * BSIZE THEN [s |-> s, tot |-> -1]
      ELSE Sized(FoldLeft(Step, [s |-> s, tot |-> 0, stop |-> FALSE],
                          [k \in 1 .. Len(words) |-> k]), i, off)

\* The block b and those it leads to: level 0 data, 1 an index block, 2 one of those.
RECURSIVE Tree(_, _, _)
Tree(s, b, level) ==
  IF b = 0 THEN {}
  ELSE IF level = 0 THEN {b}
  ELSE {b} \cup UNION {Tree(s, s.blk[b][k], level - 1) : k \in DOMAIN Zeroes}

LevelOf(slot) == IF slot < NDIRECT THEN 0 ELSE slot - NDIRECT + 1
BlocksOf(s, i) == UNION {Tree(s, s.ino[i].addrs[k], LevelOf(k)) : k \in 0 .. NDIRECT + 1}

fs_itrunc(s, i) ==
  fs_iupdate([bfree(s, BlocksOf(s, i)) EXCEPT !.ino[i] = [Din(@.type, @.nlink) EXCEPT !.size = 0]], i)

\* The pointers of index block b from slot start on go, with what they lead to; the
\* block too when start is 0, and otherwise it is written.
CutIndex(s, b, start) ==
  LET gone == UNION {Tree(s, s.blk[b][k], 0) : k \in {j \in DOMAIN Zeroes : j >= start}}
      cut == [bfree(s, gone) EXCEPT !.blk[b] = [k \in DOMAIN Zeroes |-> IF k >= start THEN 0 ELSE @[k]]]
  IN  IF start = 0 THEN bfree(cut, {b}) ELSE bio_write(cut, b)

\* The double index block b, where the first `start' blocks stay: index blocks that
\* keep nothing go, and b with the last of them.
CutDouble(s, b, start) ==
  LET Kept(i) == IF i < start \div NINDIRECT THEN NINDIRECT
                 ELSE IF i = start \div NINDIRECT THEN start % NINDIRECT ELSE 0
      Keeps(i) == \E j \in DOMAIN Zeroes : j < Kept(i) /\ s.blk[s.blk[b][i]][j] # 0
      Step(t, i) ==
        IF s.blk[b][i] = 0 \/ Kept(i) = NINDIRECT THEN t
        ELSE IF Keeps(i) THEN CutIndex(t, s.blk[b][i], Kept(i))
        ELSE Set(CutIndex(t, s.blk[b][i], 0), b, i, 0)
      all == ~\E i \in DOMAIN Zeroes : s.blk[b][i] # 0 /\ (Kept(i) = NINDIRECT \/ Keeps(i))
      cut == FoldLeft(Step, s, [k \in 1 .. NINDIRECT |-> k - 1])
  IN  [s |-> IF all THEN bfree(cut, {b}) ELSE cut, all |-> all]

\* The blocks that stay are numbered below this.
FirstFree(len) == (len - 1) \div BSIZE + 1

fs_itrunc_to(s, i, len) ==
  LET first == FirstFree(len)
      last == first - 1
      addrs == s.ino[i].addrs
      From(k) == IF first > k THEN first - k ELSE 0
      zeroed == IF len % BSIZE = 0 \/ last >= NDIRECT \/ addrs[last] = 0 THEN s
                ELSE bio_write([s EXCEPT !.blk[addrs[last]] =
                       [k \in DOMAIN Zeroes |-> IF k >= len % BSIZE THEN 0 ELSE @[k]]], addrs[last])
      gone == {k \in first .. NDIRECT - 1 : addrs[k] # 0}
      direct == [bfree(zeroed, {addrs[k] : k \in gone}) EXCEPT
                   !.ino[i].addrs = [k \in DOMAIN @ |-> IF k \in gone THEN 0 ELSE @[k]]]
      cuts1 == first <= NDIRECT + NINDIRECT - 1 /\ addrs[NDIRECT] # 0
      single == IF ~cuts1 THEN direct
                ELSE [CutIndex(direct, addrs[NDIRECT], From(NDIRECT)) EXCEPT
                        !.ino[i].addrs[NDIRECT] = IF From(NDIRECT) = 0 THEN 0 ELSE @]
      Unlinked(cut) == [cut.s EXCEPT !.ino[i].addrs[NDIRECT + 1] = IF cut.all THEN 0 ELSE @]
      double == IF first > MAXFILE - 1 \/ addrs[NDIRECT + 1] = 0 THEN single
                ELSE Unlinked(CutDouble(single, addrs[NDIRECT + 1], From(NDIRECT + NINDIRECT)))
  IN  IF len >= s.ino[i].size THEN s
      ELSE IF len = 0 THEN fs_itrunc(s, i)
      ELSE fs_iupdate([double EXCEPT !.ino[i].size = len], i)

-----------------------------------------------------------------------------
(* file.c and syscall.c: calls on the open file *)

\* No call follows on a disk that has lost a change.
Call == ~fs.lost /\ ops < MaxOps /\ ops' = ops + 1

Words(n) == [k \in 1 .. n |-> ops + 1]

filewrite(n) ==
  LET off == IF file.append THEN fs.ino[file.ip].size ELSE file.off
      old == data[file.ip]
  IN
  /\ Call
  /\ \E r \in {fs_writei(fs, file.ip, off, Words(n))} :
     /\ fs' = r.s
     /\ file' = [file EXCEPT !.off = IF r.tot > 0 THEN off + r.tot ELSE off]
     /\ data' = [data EXCEPT ![file.ip] =
                   IF r.tot <= 0 THEN old
                   ELSE [k \in 1 .. Max({off + r.tot, Len(old)}) |->
                           IF k > off /\ k <= off + r.tot THEN ops + 1 ELSE old[k]]]

fileread(n) ==
  /\ Call
  /\ \E r \in {fs_readi(fs, file.ip, file.off, n)} :
     fs' = r.s /\ file' = [file EXCEPT !.off = @ + Len(r.words)]
  /\ UNCHANGED data

sys_lseek(whence, offset) ==
  LET newoff == offset + (CASE whence = 0 -> 0 [] whence = 1 -> file.off
                            [] whence = 2 -> fs.ino[file.ip].size)
  IN
  /\ Call
  /\ newoff >= 0
  /\ file' = [file EXCEPT !.off = newoff]
  /\ UNCHANGED <<fs, data>>

sys_ftruncate(len) ==
  /\ Call
  /\ fs' = fs_itrunc_to(fs, file.ip, len)
  /\ data' = [data EXCEPT ![file.ip] = IF len < Len(@) THEN SubSeq(@, 1, len) ELSE @]
  /\ UNCHANGED file

\* The file is closed and another opened; O_TRUNC, O_APPEND.
sys_open(i, trunc, append) ==
  /\ Call
  /\ fs' = IF trunc THEN fs_itrunc(fs, i) ELSE fs
  /\ data' = IF trunc THEN [data EXCEPT ![i] = <<>>] ELSE data
  /\ file' = [ip |-> i, off |-> 0, append |-> append]

\* A buffer is reused for another block, and the inode leaves the table.
Evict(b) ==
  /\ fs.blk[b] # fs.dblk[b]
  /\ fs' = [fs EXCEPT !.blk[b] = fs.dblk[b], !.lost = @ \/ b \in fs.bits]
  /\ UNCHANGED <<file, data, ops>>

Next ==
  \/ \E n \in Lens : filewrite(n) \/ fileread(n)
  \/ \E whence \in 0 .. 2, offset \in Offsets : sys_lseek(whence, offset)
  \/ \E len \in Cuts : sys_ftruncate(len)
  \/ \E i \in Files, trunc, append \in BOOLEAN : sys_open(i, trunc, append)
  \/ \E b \in 0 .. SIZE - 1 : Evict(b)

Spec == Init /\ [][Next]_vars

-----------------------------------------------------------------------------
(* Properties *)

\* Where block numbers are kept: slots of inodes and of index blocks.
Pointers ==
  {<<"inode", i, k>> : i \in Inums, k \in 0 .. NDIRECT + 1}
    \cup {<<"block", b, k>> : b \in UNION {UNION {
             LET a == fs.ino[i].addrs[k] IN
             CASE LevelOf(k) = 1 /\ a # 0 -> {a}
               [] LevelOf(k) = 2 /\ a # 0 -> {a} \cup ({fs.blk[a][j] : j \in DOMAIN Zeroes} \ {0})
               [] OTHER -> {} : k \in 0 .. NDIRECT + 1} : i \in Inums}, k \in DOMAIN Zeroes}

At(p) == IF p[1] = "inode" THEN fs.ino[p[2]].addrs[p[3]] ELSE fs.blk[p[2]][p[3]]

\* The double index block that a truncation kept, and an entry it cleared.
ClearedByCut(b) ==
  /\ \E i \in Files : fs.ino[i].addrs[NDIRECT + 1] = b
  /\ \A k \in DOMAIN Zeroes : fs.blk[b][k] \in {0, fs.dblk[b][k]}

\* The bitmap marks the metadata and the blocks that some pointer leads to, and nothing
\* else, and no two pointers lead to one block: whatever mkfs laid out and whatever
\* order of writes, truncations and evictions follows, no block of a file is free, none
\* is shared and none is lost, a disk that fills up in the middle of a write included.
\* Only a double index block that fs_itrunc_to cut may differ from the disk, and it holds
\* until such a block is evicted.
BlocksExact ==
  /\ \A b \in fs.bits : fs.blk[b] # fs.dblk[b] => ClearedByCut(b)
  /\ ~fs.lost =>
       /\ fs.bits = (0 .. nmeta - 1) \cup {At(p) : p \in {q \in Pointers : At(q) # 0}}
       /\ \A p, q \in Pointers : At(p) # 0 /\ At(p) = At(q) => p = q

\* The blocks and inodes on the disk hold, for the kernel and for the boot loader which
\* reads the disk without the kernel's cache, exactly what was written to each file, also
\* when a truncation has left an index block unwritten.
FileContents ==
  /\ \A i \in Files :
       /\ fs.dino[i] = fs.ino[i]
       /\ fs_readi(fs, i, 0, fs.ino[i].size).words = data[i]
  /\ \A spec \in {Specs[k] : k \in DOMAIN Specs} : spec.kind = "file" =>
       fs_read_file(fs.dblk, fs.dino, spec.path, MAXFILE * BSIZE)
         = data[fs_file_exists(fs.dblk, fs.dino, spec.path)]
=============================================================================
