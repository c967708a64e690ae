----------------------------- MODULE DiskImage -----------------------------
(***************************************************************************)
(* The layout of the disk (kernel/fs.h), the image that cmd/mkfs writes,   *)
(* and the file reader of the boot loader (boot/fs.c).                     *)
(*                                                                         *)
(* A block holds NINDIRECT words.  A word is a block number, a word of a   *)
(* file, or an entry of a directory; 0 is none of them.  The bitmap is the *)
(* set of the blocks in use.  A path is a sequence of names.               *)
(***************************************************************************)
EXTENDS Integers, Sequences, FiniteSetsExt, SequencesExt

CONSTANTS
  NDIRECT, NINDIRECT, \* pointers in an inode, pointers in a block
  SIZE, NINODES,      \* blocks and inodes of the disk
  IPB, BPB,           \* inodes, and bits of the bitmap, in a block
  Specs,              \* the arguments of mkfs: files, directories, devices, trees
  Ignored             \* the names that .mkfsignore matches

ROOTINO == 1
BSIZE   == NINDIRECT
MAXFILE == NDIRECT + NINDIRECT + NINDIRECT * NINDIRECT
Inums   == 1 .. NINODES - 1

\* An entry of a directory, with names from 1 to 9: inode, name.
Dirent(inum, name) == 10 * inum + name
Dot    == 1
DotDot == 2

Zeroes == [k \in 0 .. NINDIRECT - 1 |-> 0]

Din(type, nlink) ==
  [type |-> type, nlink |-> nlink, size |-> 0, addrs |-> [k \in 0 .. NDIRECT + 1 |-> 0]]

\* The slot of the inode, then those of index blocks, that lead to block bn of a file.
Index(bn) ==
  LET k == bn - NDIRECT - NINDIRECT IN
  IF bn < NDIRECT THEN <<bn>>
  ELSE IF bn < NDIRECT + NINDIRECT THEN <<NDIRECT, bn - NDIRECT>>
  ELSE <<NDIRECT + 1, k \div NINDIRECT, k % NINDIRECT>>

-----------------------------------------------------------------------------
(* mkfs: an image under construction is *)
(* [blk, bits, ino, freeblock, freeinode, ok]. *)

RoundUp(n, d) == (n + d - 1) \div d

nmeta == 2 + RoundUp(NINODES, IPB) + RoundUp(SIZE, BPB)

Blank ==
  [blk |-> [b \in 0 .. SIZE - 1 |-> Zeroes], bits |-> {}, ino |-> [i \in Inums |-> Din("free", 0)],
   freeblock |-> nmeta, freeinode |-> 1, ok |-> TRUE]

Exit(im) == [im EXCEPT !.ok = FALSE]

ialloc(im, type) ==
  IF im.freeinode >= NINODES THEN Exit(im)
  ELSE [im EXCEPT !.ino[im.freeinode] = Din(type, 1), !.freeinode = @ + 1]

\* The last inode that was allocated.
Newest(im) == im.freeinode - 1

\* The block that the slots rest lead to from block b; a new one for every slot that
\* is 0.  The image was zeroed, so a new index block is.
RECURSIVE Reach(_, _, _)
Reach(im, b, rest) ==
  IF rest = <<>> THEN [im |-> im, block |-> b]
  ELSE LET old == im.blk[b][Head(rest)]
           new == [im EXCEPT !.blk[b][Head(rest)] = im.freeblock, !.freeblock = @ + 1]
       IN  IF old = 0 THEN Reach(new, im.freeblock, Tail(rest)) ELSE Reach(im, old, Tail(rest))

\* The first of those blocks, from the inode.
TopBlock(im, inum, slot) ==
  IF im.ino[inum].addrs[slot] # 0 THEN im
  ELSE [im EXCEPT !.ino[inum].addrs[slot] = im.freeblock, !.freeblock = @ + 1]

FillWord(r, inum, off, word) ==
  [r.im EXCEPT !.blk[r.block][off % BSIZE] = word, !.ino[inum].size = off + 1]

iappendWord(im, inum, word) ==
  LET off == im.ino[inum].size
      idx == Index(off \div BSIZE)
      From(top) == Reach(top, top.ino[inum].addrs[idx[1]], Tail(idx))
  IN  FillWord(From(TopBlock(im, inum, idx[1])), inum, off, word)

iappend(im, inum, words) == FoldLeft(LAMBDA m, w : iappendWord(m, inum, w), im, words)

\* The words of a directory as mkfs looks through them: direct and indirect blocks, up
\* to one that is not there.
BlockOf(im, din, bn) ==
  IF bn < NDIRECT THEN din.addrs[bn]
  ELSE IF din.addrs[NDIRECT] = 0 THEN 0 ELSE im.blk[din.addrs[NDIRECT]][bn - NDIRECT]

Entries(im, din) ==
  {im.blk[BlockOf(im, din, off \div BSIZE)][off % BSIZE] :
     off \in {o \in 0 .. din.size - 1 :
                \A bn \in 0 .. o \div BSIZE : BlockOf(im, din, bn) # 0}}

lookup_in_dir(im, d, name) ==
  LET hits == {w \in Entries(im, im.ino[d]) : w \div 10 # 0 /\ w % 10 = name} IN
  IF im.ino[d].type # "dir" \/ hits = {} THEN 0 ELSE Min(hits) \div 10

lookup_dir(im, path) ==
  FoldLeft(LAMBDA d, name : IF d = 0 THEN 0 ELSE lookup_in_dir(im, d, name), ROOTINO, path)

create_dir(im, parent, name) ==
  LET a == ialloc(im, "dir")
      i == Newest(a)
  IN  IF ~a.ok THEN a
      ELSE [iappend(iappend(a, i, <<Dirent(i, Dot), Dirent(parent, DotDot)>>),
                    parent, <<Dirent(i, name)>>) EXCEPT !.ino[parent].nlink = @ + 1]

create_device(im, parent, name, type) ==
  LET i == im.freeinode IN
  iappend([im EXCEPT !.ino[i] = Din(type, 1), !.freeinode = @ + 1], parent, <<Dirent(i, name)>>)

copy_file_to_image(im, parent, name, words) ==
  LET a == ialloc(im, "file") IN
  IF ~a.ok THEN a
  ELSE iappend(iappend(a, parent, <<Dirent(Newest(a), name)>>), Newest(a), words)

Made(im) == [im |-> im, dir |-> Newest(im)]

lookup_or_create_path(im, path) ==
  FoldLeft(LAMBDA r, name :
             LET found == lookup_in_dir(r.im, r.dir, name) IN
             IF ~r.im.ok THEN r
             ELSE IF found # 0 THEN [r EXCEPT !.dir = found]
             ELSE Made(create_dir(r.im, r.dir, name)),
           [im |-> im, dir |-> ROOTINO], path)

\* tree: the entries of a directory of the host, each a file or a directory.
RECURSIVE sync_source_dir(_, _, _)
sync_source_dir(im, tree, path) ==
  LET Copy(m, dir, e) ==
        IF ~m.ok \/ e.name \in Ignored THEN m
        ELSE IF e.kind = "dir" THEN sync_source_dir(m, e.tree, Append(path, e.name))
        ELSE copy_file_to_image(m, dir, e.name, e.words)
      Into(start) == FoldLeft(LAMBDA m, e : Copy(m, start.dir, e), start.im, tree)
  IN  Into(lookup_or_create_path(im, path))

\* One argument of mkfs: the parent of the path has to be there.
Argument(im, spec) ==
  LET parent == lookup_dir(im, Front(spec.path))
      name == Last(spec.path)
  IN  IF ~im.ok \/ spec.kind = "tree" THEN im
      ELSE IF parent = 0 THEN Exit(im)
      ELSE IF spec.kind = "dir" THEN create_dir(im, parent, name)
      ELSE IF spec.kind = "file" THEN copy_file_to_image(im, parent, name, spec.words)
      ELSE create_device(im, parent, name, spec.kind)

\* The trees of -m are copied last.
Mapping(im, spec) ==
  IF ~im.ok \/ spec.kind # "tree" THEN im ELSE sync_source_dir(im, spec.tree, spec.path)

\* The root is grown to whole blocks, and the bitmap is written.
UsedBlocks(im) == 0 .. im.freeblock - 1

Finish(im) ==
  [im EXCEPT !.ino[ROOTINO].size = (@ \div BSIZE + 1) * BSIZE, !.bits = UsedBlocks(im)]

mkfs ==
  LET root == iappend(ialloc(Blank, "dir"), ROOTINO,
                      <<Dirent(ROOTINO, Dot), Dirent(ROOTINO, DotDot)>>)
  IN  Finish(FoldLeft(Mapping, FoldLeft(Argument, root, Specs), Specs))

-----------------------------------------------------------------------------
(* The boot loader, on the blocks and inodes of a disk. *)

boot_bmap(blk, din, bn) ==
  LET idx == Index(bn)
      one == din.addrs[idx[1]]
  IN  IF Len(idx) = 1 THEN one
      ELSE IF Len(idx) = 2 THEN blk[one][idx[2]]
      ELSE blk[blk[one][idx[2]]][idx[3]]

boot_dirlookup(blk, din, name) ==
  LET Holds(bn) == IF bn < din.size \div BSIZE THEN BSIZE ELSE din.size % BSIZE
      hits == {w \in UNION {{blk[boot_bmap(blk, din, bn)][k] : k \in 0 .. Holds(bn) - 1} :
                              bn \in {n \in 0 .. din.size \div BSIZE : boot_bmap(blk, din, n) # 0}} :
                 w \div 10 # 0 /\ w % 10 = name}
  IN  IF hits = {} THEN 0 ELSE Min(hits) \div 10

\* The inode of a path, or 0.
fs_file_exists(blk, ino, path) ==
  FoldLeft(LAMBDA i, name : IF i = 0 \/ ino[i].type # "dir" THEN 0
                            ELSE boot_dirlookup(blk, ino[i], name),
           ROOTINO, path)

\* The words of the file, or <<>> when it cannot be read.
fs_read_file(blk, ino, path, max) ==
  LET i == fs_file_exists(blk, ino, path)
      Block(off) == boot_bmap(blk, ino[i], off \div BSIZE)
  IN  IF i = 0 \/ ino[i].type # "file" \/ ino[i].size > max THEN <<>>
      ELSE IF \E off \in 0 .. ino[i].size - 1 : Block(off) <= 0 THEN <<>>
      ELSE [k \in 1 .. ino[i].size |-> blk[Block(k - 1)][(k - 1) % BSIZE]]
=============================================================================
