------------------------------- MODULE Names -------------------------------
(***************************************************************************)
(* Inodes and directories: the inode table of kernel/fs.c, path lookup,    *)
(* and the calls open(O_CREAT), mkdir, mknod, link, unlink and rename      *)
(* of kernel/syscall.c, by several processes.                              *)
(*                                                                         *)
(* Another process runs where a call waits: for the lock of an inode, for  *)
(* rename_lock, and for the disk in every bio_write.  A step runs up to    *)
(* such a wait.  A lookup under a lock is one step: whoever changes a      *)
(* directory holds its lock.  So is the freeing of an inode, which nobody  *)
(* else can find any more.  The current directory of every process is the  *)
(* root, and the buffer cache does what Bio's properties say: the blocks   *)
(* of inodes are read and written, which fs_ilock and fs_iupdate rely on.  *)
(*                                                                         *)
(* sys_rename goes wrong on paths that end in . or .. and on the root, and *)
(* when the write of an entry fails, which it does not notice.  Those      *)
(* steps are in the model, marked by spoilt; what comes after them is not. *)
(***************************************************************************)
EXTENDS Integers, FiniteSets, Sequences

CONSTANTS
  Procs,       \* processes
  NINODES,     \* the inodes of the disk
  Elems,       \* names of files, other than . and ..
  Requests,    \* the calls with their paths; a path is a sequence of names, <<>> is "/"
  MaxCalls     \* bound: how many calls are made

Inums   == 1 .. NINODES
ROOTINO == 1
NoInode == 0
NoProc  == "none"

\* Entries that every directory has.
DotNames == {".", ".."}

Pathnames == Seq(Elems \cup DotNames)

ASSUME NamesAssumption ==
  /\ NINODES \in Nat \ {0}
  /\ IsFiniteSet(Procs) /\ NoProc \notin Procs
  /\ IsFiniteSet(Elems) /\ Elems \cap DotNames = {}
  /\ \A q \in Requests :
       /\ q.call \in {"creat", "mkdir", "mknod", "link", "unlink", "rename"}
       /\ q.old \in Pathnames /\ q.new \in Pathnames
  /\ MaxCalls \in Nat

VARIABLES
  fs,          \* the disk and the inode table: see TypeOK
  rename_lock, \* holder of rename_lock
  proc,        \* for each process: the call, its place in it and its locals
  calls,       \* how many calls have been made
  spoilt       \* whether a rename has left the disk, or its locks, in disorder

vars == <<fs, rename_lock, proc, calls, spoilt>>

Empty == [n \in Elems |-> NoInode]

Dinode(t, n) == [type |-> t, nlink |-> n]

\* An entry of the inode table with r references, before the inode is read.
Slot(r) == [ref |-> r, valid |-> FALSE, lock |-> NoProc, type |-> "free", nlink |-> 0]

\* old, new: the arguments.  at, rest, parent, then: the walk of namex, and where
\* it leads.  at, ip, target: inodes that the call holds a reference to.
Idle == [pc |-> "user", call |-> "none", old |-> <<>>, new |-> <<>>,
         at |-> NoInode, rest |-> <<>>, parent |-> FALSE, then |-> "none",
         ip |-> NoInode, target |-> NoInode, newdir |-> NoInode]

\* disk: the inodes on the disk; dirs: the names in each directory, an inode or 0;
\* up: the entry .. of each; ic: the inode table.
TypeOK ==
  /\ fs.disk \in [Inums -> [type : {"free", "file", "dev", "dir"}, nlink : Nat]]
  /\ fs.dirs \in [Inums -> [Elems -> Inums \cup {NoInode}]]
  /\ fs.up \in [Inums -> Inums \cup {NoInode}]
  /\ \A i \in Inums : fs.ic[i].ref \in Nat /\ fs.ic[i].lock \in Procs \cup {NoProc}
  /\ rename_lock \in Procs \cup {NoProc}
  /\ \A p \in Procs : {proc[p].at, proc[p].ip, proc[p].target} \subseteq Inums \cup {NoInode}
  /\ calls \in 0 .. MaxCalls
  /\ spoilt \in BOOLEAN

\* The inode table after boot: the root is the current directory.
Booted == [i \in Inums |-> Slot(IF i = ROOTINO THEN 1 ELSE 0)]

\* mkfs: an empty root.
Init ==
  /\ fs = [disk |-> [i \in Inums |-> IF i = ROOTINO THEN Dinode("dir", 1) ELSE Dinode("free", 0)],
           dirs |-> [i \in Inums |-> Empty],
           up |-> [i \in Inums |-> IF i = ROOTINO THEN ROOTINO ELSE NoInode],
           ic |-> Booted]
  /\ rename_lock = NoProc
  /\ proc = [p \in Procs |-> Idle]
  /\ calls = 0
  /\ spoilt = FALSE

-----------------------------------------------------------------------------
(* fs.c: functions of the file system *)

Iget(f, i) ==
  IF f.ic[i].ref > 0 THEN [f EXCEPT !.ic[i].ref = @ + 1] ELSE [f EXCEPT !.ic[i] = Slot(1)]

Ilock(f, p, i) ==
  [f EXCEPT !.ic[i] =
     IF @.valid THEN [@ EXCEPT !.lock = p]
     ELSE [@ EXCEPT !.lock = p, !.valid = TRUE,
                    !.type = f.disk[i].type, !.nlink = f.disk[i].nlink]]

Iunlock(f, i) == [f EXCEPT !.ic[i].lock = NoProc]

Iupdate(f, i) == [f EXCEPT !.disk[i] = Dinode(f.ic[i].type, f.ic[i].nlink)]

\* The last reference to an inode without a name frees it.
\* (mutant: whether others still hold it is not asked)
LastHolderAny(f, i) == f.ic[i].valid /\ f.ic[i].nlink = 0
LastHolder(f, i) == f.ic[i].ref = 1 /\ f.ic[i].valid /\ f.ic[i].nlink = 0

Iput(f, i) ==
  IF LastHolder(f, i)
  THEN [f EXCEPT !.disk[i] = Dinode("free", 0), !.dirs[i] = Empty, !.up[i] = NoInode,
                 !.ic[i] = Slot(0)]
  ELSE [f EXCEPT !.ic[i].ref = @ - 1]

Iunlockput(f, i) == Iput(Iunlock(f, i), i)

\* ip->nlink += d; fs_iupdate(ip)
Count(f, i, d) == Iupdate([f EXCEPT !.ic[i].nlink = @ + d], i)

\* fs_dirlookup, without its fs_iget: of a name, and of any element of a path.
Lookup(f, d, n) == IF f.ic[d].type = "dir" THEN f.dirs[d][n] ELSE NoInode

Find(f, d, n) ==
  IF n \notin DotNames THEN Lookup(f, d, n)
  ELSE IF f.ic[d].type # "dir" THEN NoInode
  ELSE IF n = "." THEN d ELSE f.up[d]

\* fs_writei of one entry.
Entry(f, d, n, i) == [f EXCEPT !.dirs[d][n] = i]

IsDirEmpty(f, d) == f.dirs[d] = Empty

\* fs_ialloc: the first free inode.
FreeInodes(f) == {i \in Inums : f.disk[i].type = "free"}
Lowest(S) == CHOOSE x \in S : \A y \in S : x <= y

-----------------------------------------------------------------------------
(* Steps of a call *)

Unlocked(i) == fs.ic[i].lock = NoProc

At(p, place) == proc[p].pc = place

Go(p, f, r) ==
  /\ fs' = f
  /\ proc' = [proc EXCEPT ![p] = r]
  /\ UNCHANGED <<rename_lock, spoilt>>

\* The call returns; rename gives rename_lock back.
Return(p, f) ==
  /\ fs' = f
  /\ proc' = [proc EXCEPT ![p] = Idle]
  /\ rename_lock' = IF rename_lock = p THEN NoProc ELSE rename_lock
  /\ UNCHANGED spoilt

\* A rename that spoils the disk or the order of locks: the last step that is looked at.
Spoil(f) ==
  /\ fs' = f /\ spoilt' = TRUE
  /\ UNCHANGED <<proc, rename_lock>>

\* namex begins at the root, and is there at once if the path has no element.
Start(r, path, parent, then) ==
  [r EXCEPT !.pc = IF path = <<>> THEN then ELSE "walk", !.at = ROOTINO, !.rest = path,
            !.parent = parent, !.then = then]
Namei(p, f, r, path, then) == Go(p, Iget(f, ROOTINO), Start(r, path, FALSE, then))

\* The walk for r.then found nothing: what each call does then.  Only a path that has
\* elements is not found, and open goes on to make its last one.
NotFound(p, f, r) ==
  \/ r.call = "creat" /\ r.then = "found"
     /\ Go(p, Iget(f, ROOTINO), Start(r, r.old, TRUE, "create"))
  \/ r.then \in {"dirlink", "cycle"} /\ Go(p, f, [r EXCEPT !.pc = "unref"])
  \/ r.then = "old" /\ Return(p, Iput(f, r.ip))
  \/ ~(r.call = "creat" /\ r.then = "found") /\ r.then \notin {"dirlink", "cycle", "old"}
     /\ Return(p, f)

\* The root has no parent that a name could be in.
NameiParent(p, f, r, path, then) ==
  \/ path # <<>> /\ Go(p, Iget(f, ROOTINO), Start(r, path, TRUE, then))
  \/ path = <<>> /\ NotFound(p, f, [r EXCEPT !.at = NoInode, !.then = then])

Begin(p, q) ==
  LET r == [Idle EXCEPT !.call = q.call, !.old = q.old, !.new = q.new] IN
  /\ At(p, "user") /\ calls < MaxCalls
  /\ calls' = calls + 1
  /\ \/ q.call = "creat" /\ Namei(p, fs, r, q.old, "found")
     \/ q.call = "link" /\ Namei(p, fs, r, q.old, "source")
     \/ q.call \in {"mkdir", "mknod"} /\ NameiParent(p, fs, r, q.old, "create")
     \/ q.call = "unlink" /\ NameiParent(p, fs, r, q.old, "unlink")
     \/ q.call = "rename" /\ Go(p, fs, [r EXCEPT !.pc = "lock"])

\* One element of the path.
Walk(p) ==
  LET r == proc[p]
      f == Ilock(fs, p, r.at)
      next == Find(f, r.at, Head(r.rest))
      nowhere == [r EXCEPT !.at = NoInode]
  IN
  /\ At(p, "walk") /\ Unlocked(r.at)
  /\ \/ /\ f.ic[r.at].type # "dir"
        /\ NotFound(p, Iunlockput(f, r.at), nowhere)
     \/ /\ f.ic[r.at].type = "dir" /\ r.parent /\ Len(r.rest) = 1
        /\ Go(p, Iunlock(f, r.at), [r EXCEPT !.pc = r.then])
     \/ /\ f.ic[r.at].type = "dir" /\ ~(r.parent /\ Len(r.rest) = 1)
        /\ \/ next = NoInode /\ NotFound(p, Iunlockput(f, r.at), nowhere)
           \/ next # NoInode
              /\ Go(p, Iunlockput(Iget(f, next), r.at),
                    [r EXCEPT !.at = next, !.rest = Tail(@),
                              !.pc = IF Len(r.rest) = 1 THEN r.then ELSE "walk"])

\* open of what is there: the reference is kept in a file.
Found(p) ==
  LET r == proc[p]
      f == Ilock(fs, p, r.at)
  IN
  /\ At(p, "found") /\ Unlocked(r.at)
  /\ Go(p, Iunlock(f, r.at), [r EXCEPT !.pc = "open"])

Close(p) == At(p, "open") /\ Return(p, Iput(fs, proc[p].at))

-----------------------------------------------------------------------------
(* fs_create *)

TypeOf(call) == CASE call = "mkdir" -> "dir" [] call = "mknod" -> "dev" [] OTHER -> "file"

Create(p) ==
  LET r == proc[p]
      f == Ilock(fs, p, r.at)
      ip == Find(f, r.at, Head(r.rest))
      new == Lowest(FreeInodes(f))
  IN
  /\ At(p, "create") /\ Unlocked(r.at)
  /\ \/ /\ ip # NoInode
        /\ Go(p, Iunlockput(Iget(f, ip), r.at), [r EXCEPT !.pc = "exists", !.at = ip])
     \/ /\ ip = NoInode /\ FreeInodes(f) = {}
        /\ Return(p, Iunlockput(f, r.at))
     \/ /\ ip = NoInode /\ FreeInodes(f) # {}
        /\ Go(p, Iget([f EXCEPT !.disk[new] = Dinode(TypeOf(r.call), 0)], new),
              [r EXCEPT !.pc = "ialloc", !.ip = new])

\* The name is there by now.
Exists(p) ==
  LET r == proc[p]
      f == Ilock(fs, p, r.at)
  IN
  /\ At(p, "exists") /\ Unlocked(r.at)
  /\ \/ /\ r.call = "creat" /\ f.ic[r.at].type = "file"
        /\ Go(p, Iunlock(f, r.at), [r EXCEPT !.pc = "open"])
     \/ /\ ~(r.call = "creat" /\ f.ic[r.at].type = "file")
        /\ Return(p, Iunlockput(f, r.at))

\* The new inode has one name.
\* (mutant: the name is written before the count)
NewCountLate == 0
NewCount == 1

Ialloc(p) ==
  LET r == proc[p] IN
  /\ At(p, "ialloc") /\ Unlocked(r.ip)
  /\ Go(p, Count(Ilock(fs, p, r.ip), r.ip, NewCount),
        [r EXCEPT !.pc = IF r.call = "mkdir" THEN "count" ELSE "entry"])

\* The parent of a new directory gets a link for its .. entry.
CountParent(p) ==
  /\ At(p, "count")
  /\ Go(p, Count(fs, proc[p].at, 1), [proc[p] EXCEPT !.pc = "dots"])

\* A dirlink that fails (no block for the entry): the counts are put back, and the
\* new inode is freed with its last reference.
UndoCreate(p) ==
  LET r == proc[p]
      f == IF r.call = "mkdir" THEN Count(fs, r.at, -1) ELSE fs
  IN  Return(p, Iunlockput(Iunlockput(Count(f, r.ip, -1), r.ip), r.at))

Dots(p) ==
  /\ At(p, "dots")
  /\ \/ Go(p, [fs EXCEPT !.up[proc[p].ip] = proc[p].at], [proc[p] EXCEPT !.pc = "entry"])
     \/ UndoCreate(p)

NewEntry(p) ==
  LET r == proc[p]
      f == Iunlockput(Entry(fs, r.at, Head(r.rest), r.ip), r.at)
  IN
  /\ At(p, "entry")
  /\ \/ /\ r.call \in {"mkdir", "mknod"}
        /\ Return(p, Iunlockput(f, r.ip))
     \/ /\ r.call = "creat"
        /\ Go(p, Iunlock(f, r.ip), [r EXCEPT !.pc = "open", !.at = r.ip, !.ip = NoInode])
     \/ UndoCreate(p)

-----------------------------------------------------------------------------
(* sys_unlink *)

Unlink(p) ==
  LET r == proc[p]
      f == Ilock(fs, p, r.at)
      ip == Find(f, r.at, Head(r.rest))
  IN
  /\ At(p, "unlink") /\ Unlocked(r.at)
  /\ \/ (Head(r.rest) \in DotNames \/ ip = NoInode) /\ Return(p, Iunlockput(f, r.at))
     \/ /\ Head(r.rest) \notin DotNames /\ ip # NoInode
        /\ Go(p, Iget(f, ip), [r EXCEPT !.pc = "victim", !.ip = ip])

Victim(p) ==
  LET r == proc[p]
      f == Ilock(fs, p, r.ip)
      full == f.ic[r.ip].type = "dir" /\ ~IsDirEmpty(f, r.ip)
  IN
  /\ At(p, "victim") /\ Unlocked(r.ip)
  /\ \/ full /\ Return(p, Iunlockput(Iunlockput(f, r.ip), r.at))
     \/ ~full /\ Go(p, f, [r EXCEPT !.pc = "clear"])

\* The entry is cleared, or the write fails.
Clear(p) ==
  LET r == proc[p] IN
  /\ At(p, "clear")
  /\ \/ Go(p, Entry(fs, r.at, Head(r.rest), NoInode),
           [r EXCEPT !.pc = IF fs.ic[r.ip].type = "dir" THEN "uncount" ELSE "drop"])
     \/ Return(p, Iunlockput(Iunlockput(fs, r.ip), r.at))

UncountParent(p) ==
  /\ At(p, "uncount")
  /\ Go(p, Count(fs, proc[p].at, -1), [proc[p] EXCEPT !.pc = "drop"])

Drop(p) ==
  LET r == proc[p] IN
  /\ At(p, "drop")
  /\ Return(p, Iunlockput(Count(Iunlockput(fs, r.at), r.ip, -1), r.ip))

-----------------------------------------------------------------------------
(* sys_link, and what sys_rename has in common with it *)

\* The inode gets a link before the name is made.
ExtraLink == 1

\* Its lock is not held while the new directory is looked up.
\* (mutant: it is)
KeepSource(f, i) == f
ReleaseSource(f, i) == Iunlock(f, i)

Source(p) ==
  LET r == proc[p]
      f == Ilock(fs, p, r.at)
  IN
  /\ At(p, "source") /\ Unlocked(r.at)
  /\ \/ /\ r.call = "link" /\ f.ic[r.at].type = "dir"
        /\ Return(p, Iunlockput(f, r.at))
     \/ /\ ~(r.call = "link" /\ f.ic[r.at].type = "dir")
        /\ NameiParent(p, ReleaseSource(Count(f, r.at, ExtraLink), r.at), [r EXCEPT !.ip = r.at],
                       r.new, IF r.call = "link" THEN "dirlink" ELSE "cycle")

\* fs_dirlink of the new name; it fails if the name is there or no block is left.
DirLink(p) ==
  LET r == proc[p]
      f == Ilock(fs, p, r.at)
      n == Head(r.rest)
  IN
  /\ At(p, "dirlink") /\ Unlocked(r.at)
  /\ \/ /\ Find(f, r.at, n) = NoInode
        /\ Return(p, Iput(Iunlockput(Entry(f, r.at, n, r.ip), r.at), r.ip))
     \/ Go(p, Iunlockput(f, r.at), [r EXCEPT !.pc = "unref", !.at = NoInode])

\* The end of rename, and of a link or rename that failed: the extra link goes.
Unref(p) ==
  LET r == proc[p] IN
  /\ At(p, "unref") /\ Unlocked(r.ip)
  /\ Return(p, Iunlockput(Count(Ilock(fs, p, r.ip), r.ip, -ExtraLink), r.ip))

-----------------------------------------------------------------------------
(* sys_rename *)

\* (mutant: renames are not serialised)
NotHeld == TRUE
RenameFree == rename_lock = NoProc

RenameLock(p) ==
  /\ At(p, "lock") /\ RenameFree
  /\ rename_lock' = p /\ UNCHANGED spoilt
  /\ fs' = Iget(fs, ROOTINO)
  /\ proc' = [proc EXCEPT ![p] = Start(@, proc[p].old, FALSE, "source")]

\* The failure after new_dp was found, in the file system f.
GiveUp(p, f) == Go(p, f, [proc[p] EXCEPT !.pc = "unref", !.at = NoInode, !.target = NoInode])

IsDir(p) == fs.ic[proc[p].ip].type = "dir"

\* From new_dp to the root, looking for the directory that moves.
Cycle(p) ==
  LET r == proc[p]
      check == IF r.target = NoInode THEN r.at ELSE r.target
      f == IF r.target = NoInode THEN Iget(fs, r.at) ELSE fs
      g == Ilock(f, p, check)
      parent == IF g.ic[check].type = "dir" THEN g.up[check] ELSE NoInode
  IN
  /\ At(p, "cycle")
  /\ \/ /\ ~IsDir(p)
        /\ Go(p, fs, [r EXCEPT !.pc = "target"])
     \/ /\ IsDir(p) /\ check = ROOTINO
        /\ Go(p, Iput(f, check), [r EXCEPT !.pc = "target", !.target = NoInode])
     \/ /\ IsDir(p) /\ check # ROOTINO /\ check = r.ip
        /\ GiveUp(p, Iput(Iput(f, check), r.at))
     \/ /\ IsDir(p) /\ check \notin {ROOTINO, r.ip} /\ Unlocked(check)
        /\ \/ /\ parent = NoInode
              /\ GiveUp(p, Iput(Iunlockput(g, check), r.at))
           \/ /\ parent # NoInode
              /\ Go(p, Iunlockput(Iget(g, parent), check), [r EXCEPT !.target = parent])

\* The new directory is locked; what has the new name is to go.
Target(p) ==
  LET r == proc[p]
      f == Ilock(fs, p, r.at)
      existing == Lookup(f, r.at, Head(r.rest))
      q == [r EXCEPT !.newdir = r.at]
  IN
  /\ At(p, "target") /\ Unlocked(r.at) /\ Head(r.rest) \notin DotNames
  /\ \/ existing = NoInode /\ Go(p, f, [q EXCEPT !.pc = "relink"])
     \/ existing # NoInode
        /\ Go(p, Iget(f, existing), [q EXCEPT !.pc = "replace", !.target = existing])

\* The new name is . or ..: rename has the new directory and waits for itself, or for
\* what is above.
TargetDots(p) ==
  LET r == proc[p] IN
  /\ At(p, "target") /\ Unlocked(r.at) /\ Head(r.rest) \in DotNames
  /\ Spoil(Ilock(fs, p, r.at))

Replace(p) ==
  LET r == proc[p]
      f == Ilock(fs, p, r.target)
  IN
  /\ At(p, "replace") /\ Unlocked(r.target)
  /\ \/ /\ f.ic[r.target].type = "dir"
        /\ GiveUp(p, Iunlockput(Iunlockput(f, r.target), r.at))
     \/ /\ f.ic[r.target].type # "dir"
        /\ Go(p, Entry(f, r.at, Head(r.rest), NoInode), [r EXCEPT !.pc = "replaced"])

\* The old entry is not cleared, and its inode has a link less all the same.
ReplaceFails(p) ==
  LET r == proc[p]
      f == Ilock(fs, p, r.target)
  IN
  /\ At(p, "replace") /\ Unlocked(r.target) /\ f.ic[r.target].type # "dir"
  /\ Spoil(Count(f, r.target, -1))

Replaced(p) ==
  LET r == proc[p] IN
  /\ At(p, "replaced")
  /\ Go(p, Iunlockput(Count(fs, r.target, -1), r.target),
        [r EXCEPT !.pc = "relink", !.target = NoInode])

\* The new name.
Relink(p) ==
  LET r == proc[p]
      f == Entry(fs, r.at, Head(r.rest), r.ip)
  IN
  /\ At(p, "relink")
  /\ \/ IsDir(p) /\ r.ip # ROOTINO /\ Go(p, f, [r EXCEPT !.pc = "recount"])
     \/ ~IsDir(p) /\ NameiParent(p, Iunlockput(f, r.at), r, r.old, "old")
     \/ GiveUp(p, Iunlockput(fs, r.at))

\* The climb does not compare the root, which is now below itself.
RelinkRoot(p) ==
  LET r == proc[p] IN
  /\ At(p, "relink") /\ IsDir(p) /\ r.ip = ROOTINO
  /\ Spoil(Entry(fs, r.at, Head(r.rest), r.ip))

Recount(p) ==
  LET r == proc[p] IN
  /\ At(p, "recount")
  /\ NameiParent(p, Iunlockput(Count(fs, r.at, 1), r.at), r, r.old, "old")

\* The old name, if it still names the inode.
Old(p) ==
  LET r == proc[p]
      f == Ilock(fs, p, r.at)
      n == Head(r.rest)
      cleared == Entry(f, r.at, n, NoInode)
  IN
  /\ At(p, "old") /\ Unlocked(r.at)
  /\ \/ /\ Find(f, r.at, n) # r.ip
        /\ Return(p, Iput(Iunlockput(f, r.at), r.ip))
     \/ /\ Find(f, r.at, n) = r.ip /\ n \notin DotNames /\ IsDir(p)
        /\ Go(p, cleared, [r EXCEPT !.pc = "olddir"])
     \/ /\ Find(f, r.at, n) = r.ip /\ n \notin DotNames /\ ~IsDir(p)
        /\ Go(p, Iunlockput(cleared, r.at), [r EXCEPT !.pc = "unref", !.at = NoInode])

\* The old entry is . or .., and is cleared; or it is not cleared because the write fails.
\* The parent of a directory has a link less in any case.
OldSpoils(p) ==
  LET r == proc[p]
      f == Ilock(fs, p, r.at)
      g == IF Head(r.rest) = ".." THEN [f EXCEPT !.up[r.at] = NoInode] ELSE f
  IN
  /\ At(p, "old") /\ Unlocked(r.at)
  /\ Find(f, r.at, Head(r.rest)) = r.ip
  /\ Spoil(IF IsDir(p) THEN Count(g, r.at, -1) ELSE g)

OldDir(p) ==
  LET r == proc[p] IN
  /\ At(p, "olddir")
  /\ Go(p, Iunlockput(Count(fs, r.at, -1), r.at), [r EXCEPT !.pc = "dotdot", !.at = NoInode])

DotDot(p) ==
  LET r == proc[p] IN
  /\ At(p, "dotdot") /\ Unlocked(r.ip)
  /\ \/ Go(p, [Iunlock(Ilock(fs, p, r.ip), r.ip) EXCEPT !.up[r.ip] = r.newdir],
           [r EXCEPT !.pc = "unref"])
     \/ Go(p, Iunlock(Ilock(fs, p, r.ip), r.ip), [r EXCEPT !.pc = "unref"])  \* the write fails

-----------------------------------------------------------------------------
Step(p) ==
  \/ Walk(p) \/ Found(p) \/ Close(p)
  \/ Create(p) \/ Exists(p) \/ Ialloc(p) \/ CountParent(p) \/ Dots(p) \/ NewEntry(p)
  \/ Unlink(p) \/ Victim(p) \/ Clear(p) \/ UncountParent(p) \/ Drop(p)
  \/ Source(p) \/ DirLink(p) \/ Unref(p)
  \/ RenameLock(p) \/ Cycle(p) \/ Target(p) \/ Replace(p) \/ Replaced(p)
  \/ Relink(p) \/ Recount(p) \/ Old(p) \/ OldDir(p) \/ DotDot(p)

Spoils(p) == TargetDots(p) \/ ReplaceFails(p) \/ RelinkRoot(p) \/ OldSpoils(p)

Next ==
  /\ ~spoilt
  /\ \/ (\E p \in Procs : Step(p) \/ Spoils(p)) /\ UNCHANGED calls
     \/ \E p \in Procs, q \in Requests : Begin(p, q)

Spec == Init /\ [][Next]_vars

-----------------------------------------------------------------------------
(* Properties, up to the first step that spoils the disk or the locks *)

\* The names of an inode, in all directories of the disk.
NamesOf(i) == {dn \in Inums \X Elems : fs.dirs[dn[1]][dn[2]] = i}

\* On the disk, at every moment at which the machine may stop, every name leads to
\* an inode that is in use and whose count covers all of its names: no call, and no
\* rename that races an unlink, leaves a name to an inode that will be freed.
NamesCounted ==
  ~spoilt => \A i \in Inums : NamesOf(i) # {} =>
    /\ fs.disk[i].type # "free"
    /\ fs.disk[i].nlink >= Cardinality(NamesOf(i))

\* Every path through every call gives back the references and locks that it took.
RefsExact ==
  ~spoilt =>
  /\ \A i \in Inums :
       fs.ic[i].ref = (IF i = ROOTINO THEN 1 ELSE 0)
                      + Cardinality({p \in Procs : proc[p].at = i})
                      + Cardinality({p \in Procs : proc[p].ip = i})
                      + Cardinality({p \in Procs : proc[p].target = i})
  /\ \A i \in Inums, p \in Procs :
       fs.ic[i].lock = p => i \in {proc[p].at, proc[p].ip, proc[p].target}
  /\ \A p \in Procs : rename_lock = p => proc[p].call = "rename"

\* The directories that d has below it.
Below(d) == {fs.dirs[d][n] : n \in Elems} \ {NoInode}
DirsIn(S) == {i \in S : fs.disk[i].type = "dir"}

\* "ensure we don't hit ip (would create unreachable cycle)", sys_rename: no directory is
\* below itself: among any directories there is one that has none of the others below it.
NoCycle ==
  \A S \in (SUBSET DirsIn(Inums)) \ {{}} : \E d \in S : Below(d) \cap S = {}

\* A directory whose .. is not one that it is in, and no rename under way that will set it.
Stale(i) ==
  /\ \E d \in Inums : i \in Below(d) /\ fs.up[i] # d
  /\ \A p \in Procs : proc[p].call = "rename" => proc[p].ip # i

\* Every .. is right, or about to be set.
NoneStale == \A i \in DirsIn(Inums) : ~Stale(i)

\* The check of sys_rename climbs by the .. entries, and it is as good as they are: no
\* directory comes to be below itself, however renames cross and names come and go, as
\* long as no earlier rename has left a stale .. behind.
ClimbSound == ~spoilt /\ NoneStale => NoCycle

\* The inode whose lock the next step of p may need.
Wanted(p) ==
  LET r == proc[p] IN
  CASE r.pc \in {"walk", "found", "create", "exists", "unlink", "source", "dirlink",
                 "target", "old"} -> r.at
    [] r.pc \in {"ialloc", "victim", "unref", "dotdot"} -> r.ip
    [] r.pc = "replace" -> r.target
    [] r.pc = "cycle" -> IF r.target = NoInode THEN r.at ELSE r.target
    [] OTHER -> NoInode

\* p waits for q.
WaitsFor(p, q) ==
  \/ Wanted(p) # NoInode /\ fs.ic[Wanted(p)].lock = q
  \/ At(p, "lock") /\ rename_lock = q

\* As long as no directory is below itself, no set of processes waits for locks of its
\* own: unlink and rename take the lock of a directory before that of what is in it, and
\* rename_lock before both.
NoDeadlock ==
  ~spoilt /\ NoCycle => \A S \in (SUBSET Procs) \ {{}} : \E p \in S : \A q \in S : ~WaitsFor(p, q)
=============================================================================
