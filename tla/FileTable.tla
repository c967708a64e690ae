----------------------------- MODULE FileTable -----------------------------
(***************************************************************************)
(* Descriptors, the table of open files and what a file refers to          *)
(* (kernel/file.c, pipealloc and pipeclose of kernel/pipe.c, and the calls *)
(* pipe, open, dup, close, fork and exit).                                 *)
(*                                                                         *)
(* A file refers to one end of a pipe or holds a reference to an inode.    *)
(* The operations on the table are functions from table to table, so that  *)
(* the paths that undo half an operation are the code's own.  A call that  *)
(* can wait for the disk (open, and a close that drops an inode) is cut    *)
(* in two there.                                                           *)
(***************************************************************************)
EXTENDS Integers, FiniteSets

CONSTANTS
  NFILE,       \* entries of the file table
  NOFILE,      \* descriptors of a process
  NPIPE,       \* pages of memory that pipes may have
  Procs,       \* processes
  Init0        \* the first of them

Files == 1 .. NFILE
Fds   == 1 .. NOFILE
Pipes == 1 .. NPIPE
None  == 0

ASSUME FileAssumption ==
  /\ NFILE \in Nat \ {0}
  /\ NOFILE \in Nat \ {0}
  /\ NPIPE \in Nat
  /\ IsFiniteSet(Procs)
  /\ Init0 \in Procs

VARIABLES
  table,       \* the file table, the pipes and the inode references: see Tables
  ofile,       \* p->ofile[fd]
  live,        \* the processes there are
  opening,     \* the file that sys_open has allocated and not yet installed
  leaving      \* exiting processes: the descriptor whose fileclose is under way

vars == <<table, ofile, live, opening, leaving>>

\* console: a file without an inode, as init.c opens for the first process.
Kinds == {"none", "console", "read", "write", "inode"}

\* A file: f->ref, what it is, and the pipe of a pipe end.
FileRecs == [ref : Nat, kind : Kinds, pipe : Pipes \cup {None}]

\* file: the table; reading, writing: the pipes with readopen, writeopen set;
\* pages: the pipes that hold a page; irefs: inode references of open files.
Tables ==
  [file : [Files -> FileRecs], reading : SUBSET Pipes, writing : SUBSET Pipes,
   pages : SUBSET Pipes, irefs : Nat]

Closed == [ref |-> 0, kind |-> "none", pipe |-> None]

NotLeaving == -1

TypeOK ==
  /\ table \in Tables
  /\ ofile \in [Procs -> [Fds -> Files \cup {None}]]
  /\ live \subseteq Procs
  /\ opening \in [Procs -> Files \cup {None}]
  /\ leaving \in [Procs -> Fds \cup {None, NotLeaving}]

Console == [ref |-> 1, kind |-> "console", pipe |-> None]

\* The first process starts with the console as its first descriptor (one file
\* stands for the three that init.c opens).
Init ==
  /\ table = [file |-> [f \in Files |-> IF f = 1 THEN Console ELSE Closed], reading |-> {}, writing |-> {},
              pages |-> {}, irefs |-> 0]
  /\ ofile = [p \in Procs |-> [fd \in Fds |-> IF p = Init0 /\ fd = 1 THEN 1 ELSE None]]
  /\ live = {Init0}
  /\ opening = [p \in Procs |-> None]
  /\ leaving = [p \in Procs |-> NotLeaving]

-----------------------------------------------------------------------------
(* file.c and pipe.c: functions of a table *)

Lowest(S) == CHOOSE x \in S : \A y \in S : x <= y

FreeFiles(t) == {f \in Files : t.file[f].ref = 0}

\* filealloc, when there is a free entry: the first one.
FileAlloc(t) ==
  [t EXCEPT !.file[Lowest(FreeFiles(t))] = [ref |-> 1, kind |-> "none", pipe |-> None]]

\* filedup, k times.
FileDup(t, f, k) == [t EXCEPT !.file[f].ref = IF @ < 1 THEN @ ELSE @ + k]

\* pipeclose: the page is freed when both ends are closed.
\* (mutant: the page is freed with the first end)
PipeCloseEarly(t, pi, writable) ==
  [t EXCEPT !.reading = IF writable THEN @ ELSE @ \ {pi},
            !.writing = IF writable THEN @ \ {pi} ELSE @,
            !.pages = @ \ {pi}]
PipeClose(t, pi, writable) ==
  LET rd == IF writable THEN t.reading ELSE t.reading \ {pi}
      wr == IF writable THEN t.writing \ {pi} ELSE t.writing
  IN  [t EXCEPT !.reading = rd, !.writing = wr,
                !.pages = IF pi \in rd \cup wr THEN @ ELSE @ \ {pi}]

\* What the last close of a file does to the thing behind it.
LetGo(t, r) ==
  CASE r.kind = "read"  -> PipeClose(t, r.pipe, FALSE)
    [] r.kind = "write" -> PipeClose(t, r.pipe, TRUE)
    [] r.kind = "inode" -> [t EXCEPT !.irefs = @ - 1]
    [] OTHER            -> t

FileClose(t, f) ==
  CASE t.file[f].ref < 1 -> t
    [] t.file[f].ref > 1 -> [t EXCEPT !.file[f].ref = @ - 1]
    [] OTHER -> LetGo([t EXCEPT !.file[f] = Closed], t.file[f])

\* pipealloc: the table and the two files, or the table as its "bad:" path leaves
\* it, with None.  There is a page iff page is one.
PipeAlloc(t, page) ==
  LET f0 == Lowest(FreeFiles(t))
      t0 == FileAlloc(t)
      f1 == Lowest(FreeFiles(t0))
      t1 == FileAlloc(t0)
      end(kind) == [ref |-> 1, kind |-> kind, pipe |-> page]
      bad(u) == [table |-> u, rf |-> None, wf |-> None]
  IN  IF FreeFiles(t) = {} THEN bad(t)
      ELSE IF FreeFiles(t0) = {} THEN bad(FileClose(t0, f0))
      ELSE IF page = None THEN bad(FileClose(FileClose(t1, f0), f1))
      ELSE [table |-> [t1 EXCEPT !.file[f0] = end("read"), !.file[f1] = end("write"),
                                 !.reading = @ \cup {page}, !.writing = @ \cup {page},
                                 !.pages = @ \cup {page}],
            rf |-> f0, wf |-> f1]

-----------------------------------------------------------------------------
(* The calls *)

InUser(p) == p \in live /\ opening[p] = None /\ leaving[p] = NotLeaving

FreeFds(p) == {fd \in Fds : ofile[p][fd] = None}

\* sys_pipe.  Any free page may be the one that pmm_alloc returns, or none.
\* (mutant: the second fdalloc's failure forgets to close the write end)
UndoRead(t, rf, wf) == FileClose(t, rf)
Undo(t, rf, wf) == FileClose(FileClose(t, rf), wf)

SysPipe(p, page) ==
  /\ InUser(p)
  /\ page \notin table.pages
  /\ LET a  == PipeAlloc(table, page)
         fds == FreeFds(p)
     IN  \/ /\ a.rf = None
            /\ table' = a.table
            /\ UNCHANGED ofile
         \/ /\ a.rf # None /\ Cardinality(fds) < 2
            /\ table' = Undo(a.table, a.rf, a.wf)
            /\ UNCHANGED ofile
         \/ /\ a.rf # None /\ Cardinality(fds) >= 2
            /\ table' = a.table
            /\ LET fd0 == Lowest(fds)
                   fd1 == Lowest(fds \ {fd0})
               IN  ofile' = [ofile EXCEPT ![p][fd0] = a.rf, ![p][fd1] = a.wf]
  /\ UNCHANGED <<live, opening, leaving>>

\* fs_namei and fs_create return an inode with a reference; fs_iunlockput puts it.
Named(t) == [t EXCEPT !.irefs = @ + 1]
\* (mutant: an open without a file keeps it)
IunlockputNot(t) == t
Iunlockput(t) == [t EXCEPT !.irefs = @ - 1]

\* sys_open from the inode that the lookup or the creation has returned up to the
\* point where it may wait; -ENOMEM without a free file, when the inode is put again.
SysOpen(p) ==
  LET t == Named(table)
      f == Lowest(FreeFiles(t))
  IN
  /\ InUser(p)
  /\ \/ /\ FreeFiles(t) = {}
        /\ table' = Iunlockput(t)
        /\ UNCHANGED opening
     \/ /\ FreeFiles(t) # {}
        /\ table' = [FileAlloc(t) EXCEPT !.file[f].kind = "inode"]
        /\ opening' = [opening EXCEPT ![p] = f]
  /\ UNCHANGED <<ofile, live, leaving>>

\* sys_open goes on: the file gets a descriptor or is closed.
OpenEnds(p) ==
  /\ opening[p] # None
  /\ \/ /\ FreeFds(p) # {}
        /\ ofile' = [ofile EXCEPT ![p][Lowest(FreeFds(p))] = opening[p]]
        /\ UNCHANGED table
     \/ /\ FreeFds(p) = {}
        /\ table' = FileClose(table, opening[p])
        /\ UNCHANGED ofile
  /\ opening' = [opening EXCEPT ![p] = None]
  /\ UNCHANGED <<live, leaving>>

\* sys_dup; -ENOMEM, without a change, when no descriptor is free.
Dup(t, f, k) == FileDup(t, f, k)

SysDup(p, fd) ==
  /\ InUser(p)
  /\ ofile[p][fd] # None
  /\ FreeFds(p) # {}
  /\ ofile' = [ofile EXCEPT ![p][Lowest(FreeFds(p))] = ofile[p][fd]]
  /\ table' = Dup(table, ofile[p][fd], 1)
  /\ UNCHANGED <<live, opening, leaving>>

\* sys_close: the descriptor goes first.
SysClose(p, fd) ==
  /\ InUser(p)
  /\ ofile[p][fd] # None
  /\ ofile' = [ofile EXCEPT ![p][fd] = None]
  /\ table' = FileClose(table, ofile[p][fd])
  /\ UNCHANGED <<live, opening, leaving>>

\* sys_fork: the child gets the descriptors, and each file that many references.
SysFork(p, q) ==
  /\ InUser(p)
  /\ q \notin live
  /\ live' = live \cup {q}
  /\ ofile' = [ofile EXCEPT ![q] = ofile[p]]
  /\ table' = [table EXCEPT !.file = [f \in Files |->
       FileDup(table, f, Cardinality({fd \in Fds : ofile[p][fd] = f})).file[f]]]
  /\ UNCHANGED <<opening, leaving>>

\* proc_cleanup: for each descriptor the file is closed, which may wait for the
\* disk, and then the descriptor is cleared.
Exit(p) ==
  /\ InUser(p)
  /\ leaving' = [leaving EXCEPT ![p] = None]
  /\ UNCHANGED <<table, ofile, live, opening>>

CleanupClose(p) ==
  /\ leaving[p] = None
  /\ \E fd \in Fds :
       /\ ofile[p][fd] # None
       /\ \A e \in Fds : e < fd => ofile[p][e] = None
       /\ table' = FileClose(table, ofile[p][fd])
       /\ leaving' = [leaving EXCEPT ![p] = fd]
  /\ UNCHANGED <<ofile, live, opening>>

CleanupClear(p) ==
  /\ leaving[p] \in Fds
  /\ ofile' = [ofile EXCEPT ![p][leaving[p]] = None]
  /\ leaving' = [leaving EXCEPT ![p] = None]
  /\ UNCHANGED <<table, live, opening>>

\* Nothing is open any more: the process is gone.
CleanupEnds(p) ==
  /\ leaving[p] = None
  /\ \A fd \in Fds : ofile[p][fd] = None
  /\ live' = live \ {p}
  /\ leaving' = [leaving EXCEPT ![p] = NotLeaving]
  /\ UNCHANGED <<table, ofile, opening>>

Cleanup(p) == CleanupClose(p) \/ CleanupClear(p) \/ CleanupEnds(p)

Next ==
  \E p \in Procs :
    \/ \E page \in Pipes \cup {None} : SysPipe(p, page)
    \/ SysOpen(p) \/ OpenEnds(p)
    \/ \E fd \in Fds : SysDup(p, fd) \/ SysClose(p, fd)
    \/ \E q \in Procs : SysFork(p, q)
    \/ Exit(p) \/ Cleanup(p)

Spec == Init /\ [][Next]_vars

-----------------------------------------------------------------------------
(* Properties *)

\* The holders of a file: descriptors, other than the one whose close is under
\* way, and an open that has not installed it yet.
Holders(f) ==
  {h \in Procs \X Fds : ofile[h[1]][h[2]] = f /\ leaving[h[1]] # h[2]}
    \cup {<<p, None>> : p \in {q \in Procs : opening[q] = f}}

\* f->ref is the number of holders: no file is closed under one, none leaks,
\* whatever fails on the way.
RefCounts == \A f \in Files : table.file[f].ref = Cardinality(Holders(f))

\* A pipe end is open iff some file is that end, and a pipe has its page as long
\* as one of its ends is open.
PipeEnds ==
  /\ \A pi \in Pipes :
       /\ pi \in table.reading <=>
            \E f \in Files : table.file[f].kind = "read" /\ table.file[f].pipe = pi
       /\ pi \in table.writing <=>
            \E f \in Files : table.file[f].kind = "write" /\ table.file[f].pipe = pi
  /\ table.pages = table.reading \cup table.writing

\* Open files hold one inode reference each.
InodeRefs == table.irefs = Cardinality({f \in Files : table.file[f].kind = "inode"})
=============================================================================
