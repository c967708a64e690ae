-------------------------- MODULE FileTableProofs --------------------------
(***************************************************************************)
(* Proofs about FileTable: the counts of the file table are exact for every*)
(* number of processes, files, descriptors and pages.                      *)
(*                                                                         *)
(* RefCounts, PipeEnds and InodeRefs are proved together.  The inductive   *)
(* invariant adds what they need: free entries refer to nothing and no two *)
(* files are the same end of a pipe (Entries), and a process that is not   *)
(* there holds nothing (Gone).                                             *)
(***************************************************************************)
EXTENDS FileTable, TLAPS, FiniteSetTheorems, WellFoundedInduction

\* What the entries of a table say of themselves: a free entry is as filealloc
\* and fileclose leave it, an open one refers to something, and no two files are
\* the same end of a pipe.
Entries(t) ==
  /\ \A f \in Files : t.file[f].ref = 0 => t.file[f] = Closed
  /\ \A f \in Files : t.file[f].ref # 0 => t.file[f].kind # "none"
  /\ \A f \in Files : t.file[f].kind \in {"read", "write"} => t.file[f].pipe \in Pipes
  /\ \A f, g \in Files :
       t.file[f].kind = t.file[g].kind /\ t.file[f].kind \in {"read", "write"}
         /\ t.file[f].pipe = t.file[g].pipe => f = g

IsEnd(t, kind, pi) == \E f \in Files : t.file[f].kind = kind /\ t.file[f].pipe = pi

\* PipeEnds and InodeRefs of any table.
Ends(t) ==
  /\ \A pi \in Pipes : /\ pi \in t.reading <=> IsEnd(t, "read", pi)
                       /\ pi \in t.writing <=> IsEnd(t, "write", pi)
  /\ t.pages = t.reading \cup t.writing

InodeFiles(t) == {f \in Files : t.file[f].kind = "inode"}

Inodes(t) == t.irefs = Cardinality(InodeFiles(t))

Sound(t) == t \in Tables /\ Entries(t) /\ Ends(t) /\ Inodes(t)

\* What the proofs use of the constants: None and NotLeaving are neither files nor
\* descriptors, and there are finitely many of each.
LEMMA Consts ==
  /\ None = 0 /\ None \notin Files /\ None \notin Fds /\ None \notin Pipes
  /\ NotLeaving \notin Fds /\ NotLeaving # None
  /\ IsFiniteSet(Files) /\ IsFiniteSet(Fds) /\ IsFiniteSet(Procs)
<1>1. IsFiniteSet(Files) /\ IsFiniteSet(Fds)
  BY FileAssumption, FS_Interval DEF FileAssumption, Files, Fds
<1> QED BY <1>1, FileAssumption DEF FileAssumption, None, Files, Fds, Pipes, NotLeaving

\* The lowest of some numbers is one of them.
LEMMA LowestIn ==
  ASSUME NEW S, S \subseteq Nat, S # {}
  PROVE  Lowest(S) \in S
<1>1. PICK x \in S : \A y \in S : ~(<<y, x>> \in OpToRel(<, Nat))
  BY NatLessThanWellFounded, WFMin
<1>2. ASSUME NEW y \in S PROVE x <= y
  <2>1. ~(y < x)
    BY <1>1 DEF OpToRel
  <2> QED BY <2>1
<1> QED BY <1>2 DEF Lowest


-----------------------------------------------------------------------------
(* file.c *)

\* An entry of the table is replaced.
Put(t, f, r) == [t EXCEPT !.file[f] = r]

\* The rest of the table stays.
LEMMA PutKeeps ==
  ASSUME NEW t \in Tables, NEW f \in Files, NEW r \in FileRecs
  PROVE  /\ Put(t, f, r) \in Tables
         /\ Put(t, f, r).reading = t.reading
         /\ Put(t, f, r).writing = t.writing
         /\ Put(t, f, r).pages = t.pages
         /\ Put(t, f, r).irefs = t.irefs
BY DEF Put, Tables

\* So do the other files.
LEMMA PutAt ==
  ASSUME NEW t \in Tables, NEW f \in Files, NEW r \in FileRecs
  PROVE  /\ Put(t, f, r).file[f] = r
         /\ \A g \in Files \ {f} : Put(t, f, r).file[g] = t.file[g]
BY DEF Put, Tables

\* A count changes: the rest of what a table says of itself does not.
LEMMA RecountSound ==
  ASSUME NEW t, Sound(t), NEW f \in Files, t.file[f].ref # 0,
         NEW r \in FileRecs, r.ref # 0, r.kind = t.file[f].kind, r.pipe = t.file[f].pipe
  PROVE  Sound(Put(t, f, r))
<1> DEFINE u == Put(t, f, r)
<1>1. t \in Tables
  BY DEF Sound
<1>2. /\ u \in Tables
      /\ u.reading = t.reading /\ u.writing = t.writing /\ u.pages = t.pages /\ u.irefs = t.irefs
      /\ u.file[f] = r /\ \A g \in Files : g # f => u.file[g] = t.file[g]
  BY <1>1, PutKeeps, PutAt
<1> HIDE DEF u
<1>3. \A g \in Files : u.file[g].kind = t.file[g].kind /\ u.file[g].pipe = t.file[g].pipe
  BY <1>2
<1>4. Entries(u)
  BY <1>2, <1>3 DEF Sound, Entries
<1>5. Ends(u)
  BY <1>2, <1>3 DEF Sound, Ends, IsEnd
<1>6. Inodes(u)
  <2>1. InodeFiles(u) = InodeFiles(t)
    BY <1>3 DEF InodeFiles
  <2> QED BY <1>2, <2>1 DEF Sound, Inodes
<1> QED BY <1>2, <1>4, <1>5, <1>6 DEF Sound, u

\* The inode files are finitely many.
LEMMA InodeFilesFinite ==
  ASSUME NEW t
  PROVE  IsFiniteSet(InodeFiles(t)) /\ Cardinality(InodeFiles(t)) \in Nat
<1>1. InodeFiles(t) \subseteq Files
  BY DEF InodeFiles
<1> QED BY <1>1, Consts, FS_Subset, FS_CardinalityType

\* pipeclose of a read end and of a write end.
LEMMA PipeCloseRead ==
  ASSUME NEW t \in Tables, NEW pi \in Pipes
  PROVE  /\ PipeClose(t, pi, FALSE) \in Tables
         /\ PipeClose(t, pi, FALSE).file = t.file
         /\ PipeClose(t, pi, FALSE).irefs = t.irefs
         /\ PipeClose(t, pi, FALSE).reading = t.reading \ {pi}
         /\ PipeClose(t, pi, FALSE).writing = t.writing
         /\ pi \in t.writing => PipeClose(t, pi, FALSE).pages = t.pages
         /\ pi \notin t.writing => PipeClose(t, pi, FALSE).pages = t.pages \ {pi}
BY DEF PipeClose, Tables

LEMMA PipeCloseWrite ==
  ASSUME NEW t \in Tables, NEW pi \in Pipes
  PROVE  /\ PipeClose(t, pi, TRUE) \in Tables
         /\ PipeClose(t, pi, TRUE).file = t.file
         /\ PipeClose(t, pi, TRUE).irefs = t.irefs
         /\ PipeClose(t, pi, TRUE).reading = t.reading
         /\ PipeClose(t, pi, TRUE).writing = t.writing \ {pi}
         /\ pi \in t.reading => PipeClose(t, pi, TRUE).pages = t.pages
         /\ pi \notin t.reading => PipeClose(t, pi, TRUE).pages = t.pages \ {pi}
BY DEF PipeClose, Tables

\* fileclose of the last reference frees the entry and lets go of what it refers to.
LEMMA CloseIs ==
  ASSUME NEW t, NEW f, t.file[f].ref = 1
  PROVE  FileClose(t, f) = LetGo(Put(t, f, Closed), t.file[f])
BY DEF FileClose, Put

\* It leaves a sound table.
LEMMA CloseLast ==
  ASSUME NEW t, Sound(t), NEW f \in Files, t.file[f].ref = 1
  PROVE  /\ Sound(FileClose(t, f))
         /\ FileClose(t, f).file[f] = Closed
         /\ \A g \in Files \ {f} : FileClose(t, f).file[g] = t.file[g]
<1> DEFINE r == t.file[f]
           v == Put(t, f, Closed)
           u == FileClose(t, f)
<1>1. t \in Tables /\ r \in FileRecs /\ Entries(t) /\ Ends(t) /\ Inodes(t)
  BY DEF Sound, Tables
<1>2. Closed \in FileRecs /\ Closed.ref = 0 /\ Closed.kind = "none" /\ Closed.pipe = None
  BY DEF Closed, FileRecs, Kinds
<1>3. /\ v \in Tables
      /\ v.reading = t.reading /\ v.writing = t.writing /\ v.pages = t.pages /\ v.irefs = t.irefs
      /\ v.file[f] = Closed /\ \A g \in Files : g # f => v.file[g] = t.file[g]
  BY <1>1, <1>2, PutKeeps, PutAt
<1>4. u = LetGo(v, r)
  BY CloseIs
<1>5. r.kind \in {"read", "write", "console", "inode"}
  BY <1>1 DEF Entries, FileRecs, Kinds
<1> HIDE DEF v, u
<1>6. ASSUME NEW x, x.file = v.file PROVE Entries(x)
  BY <1>1, <1>2, <1>3, <1>6 DEF Entries
<1>7. ASSUME r.kind # "inode" PROVE InodeFiles(v) = InodeFiles(t)
  BY <1>2, <1>3, <1>7 DEF InodeFiles
<1>8. CASE r.kind = "read"
  <2>1. r.pipe \in Pipes
    BY <1>1, <1>8 DEF Entries
  <2>2. u = PipeClose(v, r.pipe, FALSE)
    BY <1>4, <1>8 DEF LetGo
  <2>3. /\ u \in Tables /\ u.file = v.file /\ u.irefs = t.irefs
        /\ u.reading = t.reading \ {r.pipe} /\ u.writing = t.writing
        /\ r.pipe \in t.writing => u.pages = t.pages
        /\ r.pipe \notin t.writing => u.pages = t.pages \ {r.pipe}
    <3>1. u \in Tables /\ u.file = v.file /\ u.irefs = v.irefs
      BY <1>3, <2>1, <2>2, PipeCloseRead
    <3>2. u.reading = v.reading \ {r.pipe} /\ u.writing = v.writing
      BY <1>3, <2>1, <2>2, PipeCloseRead
    <3>3. /\ r.pipe \in v.writing => u.pages = v.pages
          /\ r.pipe \notin v.writing => u.pages = v.pages \ {r.pipe}
      BY <1>3, <2>1, <2>2, PipeCloseRead
    <3> QED BY <1>3, <3>1, <3>2, <3>3
  <2>4. Inodes(u)
    BY <1>1, <1>7, <1>8, <2>3 DEF Inodes, InodeFiles
  <2>5. ASSUME NEW pi \in Pipes PROVE pi \in u.reading <=> IsEnd(u, "read", pi)
    BY <1>1, <1>2, <1>3, <1>8, <2>1, <2>3, <2>5 DEF Ends, IsEnd, Entries
  <2>6. ASSUME NEW pi \in Pipes PROVE pi \in u.writing <=> IsEnd(u, "write", pi)
    BY <1>1, <1>2, <1>3, <1>8, <2>1, <2>3, <2>6 DEF Ends, IsEnd
  <2>7. u.pages = u.reading \cup u.writing
    BY <1>1, <2>3 DEF Ends
  <2> QED BY <1>3, <1>6, <2>3, <2>4, <2>5, <2>6, <2>7 DEF Sound, Ends, u
<1>9. CASE r.kind = "write"
  <2>1. r.pipe \in Pipes
    BY <1>1, <1>9 DEF Entries
  <2>2. u = PipeClose(v, r.pipe, TRUE)
    BY <1>4, <1>9 DEF LetGo
  <2>3. /\ u \in Tables /\ u.file = v.file /\ u.irefs = t.irefs
        /\ u.reading = t.reading /\ u.writing = t.writing \ {r.pipe}
        /\ r.pipe \in t.reading => u.pages = t.pages
        /\ r.pipe \notin t.reading => u.pages = t.pages \ {r.pipe}
    <3>1. u \in Tables /\ u.file = v.file /\ u.irefs = v.irefs
      BY <1>3, <2>1, <2>2, PipeCloseWrite
    <3>2. u.reading = v.reading /\ u.writing = v.writing \ {r.pipe}
      BY <1>3, <2>1, <2>2, PipeCloseWrite
    <3>3. /\ r.pipe \in v.reading => u.pages = v.pages
          /\ r.pipe \notin v.reading => u.pages = v.pages \ {r.pipe}
      BY <1>3, <2>1, <2>2, PipeCloseWrite
    <3> QED BY <1>3, <3>1, <3>2, <3>3
  <2>4. Inodes(u)
    BY <1>1, <1>7, <1>9, <2>3 DEF Inodes, InodeFiles
  <2>5. ASSUME NEW pi \in Pipes PROVE pi \in u.reading <=> IsEnd(u, "read", pi)
    BY <1>1, <1>2, <1>3, <1>9, <2>1, <2>3, <2>5 DEF Ends, IsEnd
  <2>6. ASSUME NEW pi \in Pipes PROVE pi \in u.writing <=> IsEnd(u, "write", pi)
    BY <1>1, <1>2, <1>3, <1>9, <2>1, <2>3, <2>6 DEF Ends, IsEnd, Entries
  <2>7. u.pages = u.reading \cup u.writing
    BY <1>1, <2>3 DEF Ends
  <2> QED BY <1>3, <1>6, <2>3, <2>4, <2>5, <2>6, <2>7 DEF Sound, Ends, u
<1>10. CASE r.kind = "inode"
  <2>1. u = [v EXCEPT !.irefs = @ - 1]
    BY <1>4, <1>10 DEF LetGo
  <2>2. InodeFiles(v) = InodeFiles(t) \ {f} /\ f \in InodeFiles(t)
    BY <1>2, <1>3, <1>10 DEF InodeFiles
  <2>3. t.irefs \in Nat /\ t.irefs # 0 /\ t.irefs - 1 = Cardinality(InodeFiles(v))
    <3>1. IsFiniteSet(InodeFiles(t)) /\ t.irefs = Cardinality(InodeFiles(t)) /\ t.irefs \in Nat
      BY <1>1, InodeFilesFinite DEF Inodes
    <3>2. Cardinality(InodeFiles(v)) = Cardinality(InodeFiles(t)) - 1
      BY <2>2, <3>1, FS_RemoveElement
    <3>3. Cardinality(InodeFiles(v)) \in Nat
      BY InodeFilesFinite
    <3> QED BY <3>1, <3>2, <3>3
  <2>4. /\ u \in Tables /\ u.file = v.file /\ u.irefs = t.irefs - 1
        /\ u.reading = v.reading /\ u.writing = v.writing /\ u.pages = v.pages
    BY <1>3, <2>1, <2>3 DEF Tables
  <2>5. Inodes(u)
    BY <2>3, <2>4 DEF Inodes, InodeFiles
  <2>6. Ends(u)
    BY <1>1, <1>2, <1>3, <1>10, <2>4 DEF Ends, IsEnd
  <2> QED BY <1>3, <1>6, <2>4, <2>5, <2>6 DEF Sound, u
<1>11. CASE r.kind = "console"
  <2>1. u = v
    BY <1>4, <1>11 DEF LetGo
  <2>2. Inodes(u)
    BY <1>1, <1>3, <1>7, <1>11, <2>1 DEF Inodes
  <2>3. Ends(u)
    BY <1>1, <1>2, <1>3, <1>11, <2>1 DEF Ends, IsEnd, Tables
  <2> QED BY <1>3, <1>6, <2>1, <2>2, <2>3 DEF Sound, u
<1> QED BY <1>5, <1>8, <1>9, <1>10, <1>11

\* fileclose gives back one reference and leaves a sound table, whichever close it is.
LEMMA CloseSound ==
  ASSUME NEW t, Sound(t), NEW f \in Files, t.file[f].ref # 0
  PROVE  /\ Sound(FileClose(t, f))
         /\ FileClose(t, f).file[f].ref = t.file[f].ref - 1
         /\ \A g \in Files : g # f => FileClose(t, f).file[g].ref = t.file[g].ref
<1>1. t \in Tables /\ t.file[f] \in FileRecs /\ t.file[f].ref \in Nat
  BY DEF Sound, Tables, FileRecs
<1>2. CASE t.file[f].ref = 1
  <2>1. Closed.ref = 0
    BY DEF Closed
  <2> QED BY <1>1, <1>2, <2>1, CloseLast
<1>3. CASE t.file[f].ref > 1
  <2>1. PICK r \in FileRecs : /\ r.ref = t.file[f].ref - 1 /\ r.kind = t.file[f].kind
                              /\ r.pipe = t.file[f].pipe /\ FileClose(t, f) = Put(t, f, r)
    <3> DEFINE r == [t.file[f] EXCEPT !.ref = t.file[f].ref - 1]
    <3>1. r \in FileRecs /\ r.ref = t.file[f].ref - 1 /\ r.kind = t.file[f].kind /\ r.pipe = t.file[f].pipe
      BY <1>1, <1>3 DEF FileRecs
    <3>2. FileClose(t, f) = Put(t, f, r)
      BY <1>1, <1>3 DEF FileClose, Put, Tables, FileRecs
    <3> QED BY <3>1, <3>2
  <2>2. Sound(Put(t, f, r))
    BY <1>1, <1>3, <2>1, RecountSound
  <2> QED BY <1>1, <2>1, <2>2, PutKeeps, PutAt
<1> QED BY <1>1, <1>2, <1>3

-----------------------------------------------------------------------------
(* filealloc, pipealloc and the paths that undo them *)

Fresh == [ref |-> 1, kind |-> "none", pipe |-> None]

EndOf(kind, page) == [ref |-> 1, kind |-> kind, pipe |-> page]

\* Entries that the code writes.
LEMMA Recs ==
  /\ Fresh \in FileRecs /\ Fresh.ref = 1 /\ Fresh.kind = "none" /\ Fresh.pipe = None
  /\ Closed \in FileRecs /\ Closed.ref = 0 /\ Closed.kind = "none" /\ Closed.pipe = None
BY DEF Fresh, Closed, FileRecs, Kinds

\* So are the ends of a pipe.
LEMMA EndRecs ==
  ASSUME NEW kind \in {"read", "write"}, NEW page \in Pipes
  PROVE  /\ EndOf(kind, page) \in FileRecs /\ EndOf(kind, page).ref = 1
         /\ EndOf(kind, page).kind = kind /\ EndOf(kind, page).pipe = page
BY DEF EndOf, FileRecs, Kinds

\* Tables with the same fields are the same.
LEMMA SameTable ==
  ASSUME NEW t \in Tables, NEW u \in Tables,
         \A f \in Files : t.file[f] = u.file[f],
         t.reading = u.reading, t.writing = u.writing, t.pages = u.pages, t.irefs = u.irefs
  PROVE  t = u
<1>1. t.file = u.file
  BY DEF Tables
<1> QED BY <1>1 DEF Tables

\* filealloc takes a free entry.
LEMMA AllocIs ==
  ASSUME NEW t \in Tables, FreeFiles(t) # {}
  PROVE  /\ Lowest(FreeFiles(t)) \in FreeFiles(t)
         /\ FileAlloc(t) = Put(t, Lowest(FreeFiles(t)), Fresh)
<1>1. FreeFiles(t) \subseteq Nat
  BY DEF FreeFiles, Files
<1>2. Lowest(FreeFiles(t)) \in FreeFiles(t)
  BY <1>1, LowestIn
<1> QED BY <1>2 DEF FileAlloc, Put, Fresh

\* fileclose of a file that refers to nothing yet just frees the entry.
LEMMA CloseFresh ==
  ASSUME NEW t \in Tables, NEW f \in Files, t.file[f] = Fresh
  PROVE  FileClose(t, f) = Put(t, f, Closed)
BY Recs DEF FileClose, LetGo, Put

\* An entry that was free is free again.
LEMMA PutBack ==
  ASSUME NEW t \in Tables, NEW f \in Files, NEW r \in FileRecs, t.file[f] = Closed
  PROVE  Put(Put(t, f, r), f, Closed) = t
<1> DEFINE u == Put(t, f, r)
           v == Put(u, f, Closed)
<1>1. /\ u \in Tables /\ u.reading = t.reading /\ u.writing = t.writing /\ u.pages = t.pages
      /\ u.irefs = t.irefs /\ \A g \in Files \ {f} : u.file[g] = t.file[g]
  BY PutKeeps, PutAt
<1> HIDE DEF u
<1>2. /\ v \in Tables /\ v.reading = t.reading /\ v.writing = t.writing /\ v.pages = t.pages
      /\ v.irefs = t.irefs /\ v.file[f] = Closed /\ \A g \in Files \ {f} : v.file[g] = u.file[g]
  BY <1>1, Recs, PutKeeps, PutAt
<1> HIDE DEF v
<1>3. \A g \in Files : v.file[g] = t.file[g]
  BY <1>1, <1>2
<1>4. v = t
  BY <1>2, <1>3, SameTable
<1> QED BY <1>4 DEF u, v

\* Two changes of different entries commute.
LEMMA PutSwap ==
  ASSUME NEW t \in Tables, NEW f \in Files, NEW g \in Files, f # g,
         NEW r \in FileRecs, NEW q \in FileRecs
  PROVE  Put(Put(t, f, r), g, q) = Put(Put(t, g, q), f, r)
<1>1. Put(Put(t, f, r), g, q) = [t EXCEPT !.file = [t.file EXCEPT ![f] = r, ![g] = q]]
  BY DEF Put, Tables
<1>2. Put(Put(t, g, q), f, r) = [t EXCEPT !.file = [t.file EXCEPT ![g] = q, ![f] = r]]
  BY DEF Put, Tables
<1>3. [t.file EXCEPT ![f] = r, ![g] = q] = [t.file EXCEPT ![g] = q, ![f] = r]
  BY DEF Tables
<1> QED BY <1>1, <1>2, <1>3

\* pipealloc's failures leave the table as it was.
LEMMA PipeAllocBad ==
  ASSUME NEW t, Sound(t), NEW page \in Pipes \cup {None}, PipeAlloc(t, page).rf = None
  PROVE  PipeAlloc(t, page).table = t
<1> DEFINE f0 == Lowest(FreeFiles(t))
           t0 == FileAlloc(t)
           f1 == Lowest(FreeFiles(t0))
           t1 == FileAlloc(t0)
<1>1. t \in Tables /\ Entries(t)
  BY DEF Sound
<1>2. CASE FreeFiles(t) = {}
  BY <1>2 DEF PipeAlloc
<1>3. CASE FreeFiles(t) # {}
  <2>1. f0 \in Files /\ t.file[f0] = Closed /\ t0 = Put(t, f0, Fresh)
    BY <1>1, <1>3, AllocIs DEF FreeFiles, Entries
  <2> HIDE DEF f0, t0
  <2>2. /\ t0 \in Tables /\ t0.file[f0] = Fresh
        /\ \A g \in Files \ {f0} : t0.file[g] = t.file[g]
    BY <1>1, <2>1, Recs, PutKeeps, PutAt
  <2>3. FileClose(t0, f0) = t
    <3>1. FileClose(t0, f0) = Put(t0, f0, Closed)
      BY <2>1, <2>2, CloseFresh
    <3> QED BY <1>1, <2>1, <3>1, Recs, PutBack
  <2>4. CASE FreeFiles(t0) = {}
    BY <1>3, <2>3, <2>4 DEF PipeAlloc, f0, t0
  <2>5. CASE FreeFiles(t0) # {}
    <3>1. f1 \in Files /\ t0.file[f1].ref = 0 /\ t1 = Put(t0, f1, Fresh)
      BY <2>2, <2>5, AllocIs DEF FreeFiles
    <3>2. f1 # f0 /\ t.file[f1] = Closed
      BY <1>1, <2>1, <2>2, <3>1, Recs DEF Entries
    <3> HIDE DEF f1, t1
    <3>3. t1 \in Tables /\ t1.file[f0] = Fresh /\ t1.file[f1] = Fresh
      BY <2>1, <2>2, <3>1, <3>2, Recs, PutKeeps, PutAt
    <3>4. FileClose(t1, f0) = Put(t, f1, Fresh)
      <4>1. FileClose(t1, f0) = Put(t1, f0, Closed)
        BY <2>1, <3>3, CloseFresh
      <4>2. t1 = Put(Put(t, f1, Fresh), f0, Fresh)
        BY <1>1, <2>1, <3>1, <3>2, Recs, PutSwap
      <4>3. Put(t, f1, Fresh) \in Tables /\ Put(t, f1, Fresh).file[f0] = Closed
        BY <1>1, <2>1, <3>1, <3>2, Recs, PutKeeps, PutAt
      <4> QED BY <2>1, <4>1, <4>2, <4>3, Recs, PutBack
    <3>5. FileClose(FileClose(t1, f0), f1) = t
      <4>1. Put(t, f1, Fresh) \in Tables /\ Put(t, f1, Fresh).file[f1] = Fresh
        BY <1>1, <3>1, Recs, PutKeeps, PutAt
      <4>2. FileClose(Put(t, f1, Fresh), f1) = Put(Put(t, f1, Fresh), f1, Closed)
        BY <3>1, <4>1, CloseFresh
      <4> QED BY <1>1, <3>1, <3>2, <3>4, <4>2, Recs, PutBack
    <3>6. CASE page = None
      BY <1>3, <2>5, <3>5, <3>6 DEF PipeAlloc, f0, t0, f1, t1
    <3>7. CASE page # None
      <4>1. PipeAlloc(t, page).rf = f0
        BY <1>3, <2>5, <3>7 DEF PipeAlloc, f0, t0, f1, t1
      <4> QED BY <2>1, <4>1, Consts
    <3> QED BY <3>6, <3>7
  <2> QED BY <2>4, <2>5
<1> QED BY <1>2, <1>3

\* The table u is t with a new pipe, whose ends are f and g.
Piped(t, u, f, g, page) ==
  /\ u \in Tables
  /\ u.file[f] = EndOf("read", page)
  /\ u.file[g] = EndOf("write", page)
  /\ \A h \in Files \ {f, g} : u.file[h] = t.file[h]
  /\ u.reading = t.reading \cup {page}
  /\ u.writing = t.writing \cup {page}
  /\ u.pages = t.pages \cup {page}
  /\ u.irefs = t.irefs

\* What pipealloc does when it succeeds.
LEMMA PipeAllocGood ==
  ASSUME NEW t, Sound(t), NEW page \in Pipes \cup {None}, PipeAlloc(t, page).rf # None
  PROVE  \E f, g \in Files :
           /\ f # g /\ t.file[f] = Closed /\ t.file[g] = Closed /\ page \in Pipes
           /\ PipeAlloc(t, page).rf = f /\ PipeAlloc(t, page).wf = g
           /\ Piped(t, PipeAlloc(t, page).table, f, g, page)
<1> DEFINE f0 == Lowest(FreeFiles(t))
           t0 == FileAlloc(t)
           f1 == Lowest(FreeFiles(t0))
           t1 == FileAlloc(t0)
<1>1. t \in Tables /\ Entries(t)
  BY DEF Sound
<1>2. FreeFiles(t) # {} /\ FreeFiles(t0) # {} /\ page # None
  BY DEF PipeAlloc
<1>3. f0 \in Files /\ t.file[f0] = Closed /\ t0 = Put(t, f0, Fresh)
  BY <1>1, <1>2, AllocIs DEF FreeFiles, Entries
<1>4. /\ PipeAlloc(t, page).rf = f0 /\ PipeAlloc(t, page).wf = f1
      /\ PipeAlloc(t, page).table =
           [t1 EXCEPT !.file[f0] = EndOf("read", page), !.file[f1] = EndOf("write", page),
                      !.reading = @ \cup {page}, !.writing = @ \cup {page}, !.pages = @ \cup {page}]
  BY <1>2 DEF PipeAlloc, EndOf
<1> HIDE DEF f0, t0
<1>5. /\ t0 \in Tables /\ t0.file[f0] = Fresh
      /\ \A h \in Files \ {f0} : t0.file[h] = t.file[h]
  BY <1>1, <1>3, Recs, PutKeeps, PutAt
<1>6. f1 \in Files /\ t0.file[f1].ref = 0 /\ t1 = Put(t0, f1, Fresh)
  BY <1>2, <1>5, AllocIs DEF FreeFiles
<1> HIDE DEF f1, t1
<1>7. f1 # f0 /\ t.file[f1] = Closed
  BY <1>1, <1>3, <1>5, <1>6, Recs DEF Entries
<1>8. /\ t1 \in Tables /\ t1.reading = t.reading /\ t1.writing = t.writing
      /\ t1.pages = t.pages /\ t1.irefs = t.irefs
      /\ \A h \in Files \ {f0, f1} : t1.file[h] = t.file[h]
  <2>1. /\ t0.reading = t.reading /\ t0.writing = t.writing /\ t0.pages = t.pages
        /\ t0.irefs = t.irefs
    BY <1>1, <1>3, Recs, PutKeeps
  <2>2. /\ t1 \in Tables /\ t1.reading = t0.reading /\ t1.writing = t0.writing
        /\ t1.pages = t0.pages /\ t1.irefs = t0.irefs
    BY <1>5, <1>6, Recs, PutKeeps
  <2>3. \A h \in Files \ {f1} : t1.file[h] = t0.file[h]
    BY <1>5, <1>6, Recs, PutAt
  <2> QED BY <1>5, <2>1, <2>2, <2>3
<1> DEFINE u == PipeAlloc(t, page).table
           r == EndOf("read", page)
           q == EndOf("write", page)
<1>9. r \in FileRecs /\ q \in FileRecs
  BY <1>2, EndRecs
<1>10. u = [t1 EXCEPT !.file[f0] = r, !.file[f1] = q,
              !.reading = @ \cup {page}, !.writing = @ \cup {page}, !.pages = @ \cup {page}]
  BY <1>4
<1> HIDE DEF u, r, q
<1>11. u = [file |-> [t1.file EXCEPT ![f0] = r, ![f1] = q],
            reading |-> t1.reading \cup {page}, writing |-> t1.writing \cup {page},
            pages |-> t1.pages \cup {page}, irefs |-> t1.irefs]
  BY <1>2, <1>3, <1>6, <1>7, <1>8, <1>10 DEF Tables
<1>12. [t1.file EXCEPT ![f0] = r, ![f1] = q] \in [Files -> FileRecs]
  BY <1>3, <1>6, <1>8, <1>9 DEF Tables
<1>13. u \in Tables /\ u.file = [t1.file EXCEPT ![f0] = r, ![f1] = q]
  BY <1>2, <1>8, <1>11, <1>12 DEF Tables
<1>14. /\ u.reading = t1.reading \cup {page} /\ u.writing = t1.writing \cup {page}
       /\ u.pages = t1.pages \cup {page} /\ u.irefs = t1.irefs
  BY <1>11
<1>15. /\ u.file[f0] = r /\ u.file[f1] = q
       /\ \A h \in Files \ {f0, f1} : u.file[h] = t1.file[h]
  BY <1>3, <1>6, <1>7, <1>8, <1>13 DEF Tables
<1>16. Piped(t, u, f0, f1, page)
  BY <1>8, <1>13, <1>14, <1>15 DEF Piped, r, q
<1> QED BY <1>2, <1>3, <1>4, <1>6, <1>7, <1>16 DEF u

\* A new pipe leaves a sound table, whose pages the new one was not among.
LEMMA PipedSound ==
  ASSUME NEW t, Sound(t), NEW page \in Pipes, page \notin t.pages,
         NEW f \in Files, NEW g \in Files, f # g, t.file[f] = Closed, t.file[g] = Closed,
         NEW u, Piped(t, u, f, g, page)
  PROVE  Sound(u)
<1> DEFINE r == EndOf("read", page)
           q == EndOf("write", page)
<1>1. /\ r.ref = 1 /\ r.kind = "read" /\ r.pipe = page
      /\ q.ref = 1 /\ q.kind = "write" /\ q.pipe = page
  BY EndRecs
<1>2. /\ u \in Tables /\ u.file[f] = r /\ u.file[g] = q
      /\ \A h \in Files \ {f, g} : u.file[h] = t.file[h]
      /\ u.reading = t.reading \cup {page} /\ u.writing = t.writing \cup {page}
      /\ u.pages = t.pages \cup {page} /\ u.irefs = t.irefs
  BY DEF Piped
<1> HIDE DEF r, q
<1>3. Entries(t) /\ Ends(t) /\ Inodes(t) /\ page \notin t.reading /\ page \notin t.writing
  BY DEF Sound, Ends
<1>4. \A h \in Files : /\ t.file[h].kind = "read" => t.file[h].pipe # page
                       /\ t.file[h].kind = "write" => t.file[h].pipe # page
  BY <1>3 DEF Ends, IsEnd
<1>5. Entries(u)
  BY <1>1, <1>2, <1>3, <1>4 DEF Entries
<1>6. ASSUME NEW pi \in Pipes
      PROVE  /\ pi \in u.reading <=> IsEnd(u, "read", pi)
             /\ pi \in u.writing <=> IsEnd(u, "write", pi)
  BY <1>1, <1>2, <1>3, <1>6, Recs DEF Ends, IsEnd
<1>7. u.pages = u.reading \cup u.writing
  BY <1>2, <1>3 DEF Ends
<1>8. InodeFiles(u) = InodeFiles(t)
  BY <1>1, <1>2, Recs DEF InodeFiles
<1> QED BY <1>2, <1>3, <1>5, <1>6, <1>7, <1>8 DEF Sound, Ends, Inodes

\* sys_pipe without two free descriptors closes both ends and the pipe is gone.
LEMMA PipeUndone ==
  ASSUME NEW t, Sound(t), NEW page \in Pipes, page \notin t.pages,
         NEW f \in Files, NEW g \in Files, f # g, t.file[f] = Closed, t.file[g] = Closed,
         NEW u, Piped(t, u, f, g, page)
  PROVE  Undo(u, f, g) = t
<1> DEFINE r == EndOf("read", page)
           q == EndOf("write", page)
<1>1. /\ r.ref = 1 /\ r.kind = "read" /\ r.pipe = page
      /\ q.ref = 1 /\ q.kind = "write" /\ q.pipe = page
  BY EndRecs
<1>2. /\ u \in Tables /\ u.file[f] = r /\ u.file[g] = q
      /\ \A h \in Files \ {f, g} : u.file[h] = t.file[h]
      /\ u.reading = t.reading \cup {page} /\ u.writing = t.writing \cup {page}
      /\ u.pages = t.pages \cup {page} /\ u.irefs = t.irefs
  BY DEF Piped
<1> HIDE DEF r, q
<1>3. t \in Tables /\ page \notin t.reading /\ page \notin t.writing
  BY DEF Sound, Ends
<1> DEFINE v == Put(u, f, Closed)
           x == PipeClose(v, page, FALSE)
           y == Put(x, g, Closed)
           z == PipeClose(y, page, TRUE)
<1>4. FileClose(u, f) = x
  <2>1. FileClose(u, f) = LetGo(v, r)
    BY <1>1, <1>2, CloseIs
  <2> QED BY <1>1, <2>1 DEF LetGo
<1>5. /\ v \in Tables /\ v.reading = u.reading /\ v.writing = u.writing /\ v.pages = u.pages
      /\ v.irefs = u.irefs /\ v.file[f] = Closed
      /\ \A h \in Files \ {f} : v.file[h] = u.file[h]
  <2>1. u \in Tables /\ Closed \in FileRecs
    BY <1>2, Recs
  <2>2. /\ v \in Tables /\ v.reading = u.reading /\ v.writing = u.writing /\ v.pages = u.pages
        /\ v.irefs = u.irefs
    BY <2>1, PutKeeps
  <2>3. v.file[f] = Closed /\ \A h \in Files \ {f} : v.file[h] = u.file[h]
    BY <2>1, PutAt
  <2> HIDE DEF v
  <2> QED BY <2>2, <2>3
<1> HIDE DEF v
<1>6. /\ x \in Tables /\ x.file = v.file /\ x.irefs = v.irefs
      /\ x.reading = v.reading \ {page} /\ x.writing = v.writing
  BY <1>5, PipeCloseRead
<1>7. x.pages = v.pages
  BY <1>2, <1>5, PipeCloseRead
<1> HIDE DEF x
<1>8. FileClose(x, g) = z
  <2>1. x.file[g] = q
    BY <1>2, <1>5, <1>6
  <2>2. FileClose(x, g) = LetGo(y, q)
    BY <1>1, <2>1, CloseIs
  <2> QED BY <1>1, <2>2 DEF LetGo
<1>9. /\ y \in Tables /\ y.reading = x.reading /\ y.writing = x.writing /\ y.pages = x.pages
      /\ y.irefs = x.irefs /\ y.file[g] = Closed
      /\ \A h \in Files \ {g} : y.file[h] = x.file[h]
  <2>1. x \in Tables /\ Closed \in FileRecs
    BY <1>6, Recs
  <2> QED BY <2>1, PutKeeps, PutAt
<1> HIDE DEF y
<1>10. /\ z \in Tables /\ z.file = y.file /\ z.irefs = y.irefs
       /\ z.reading = y.reading /\ z.writing = y.writing \ {page}
  BY <1>9, PipeCloseWrite
<1>11. page \notin y.reading
  BY <1>6, <1>9
<1>12. z.pages = y.pages \ {page}
  BY <1>9, <1>11, PipeCloseWrite
<1> HIDE DEF z
<1>13. /\ z.reading = t.reading /\ z.writing = t.writing /\ z.pages = t.pages /\ z.irefs = t.irefs
  BY <1>2, <1>3, <1>5, <1>6, <1>7, <1>9, <1>10, <1>12
<1>14. \A h \in Files : z.file[h] = t.file[h]
  BY <1>2, <1>5, <1>6, <1>9, <1>10
<1>15. z = t
  BY <1>3, <1>10, <1>13, <1>14, SameTable
<1> QED BY <1>4, <1>8, <1>15 DEF Undo

\* sys_open's new file holds the inode reference that the lookup has returned.
LEMMA OpenSound ==
  ASSUME NEW t, Sound(t), FreeFiles(t) # {}
  PROVE  LET f == Lowest(FreeFiles(t))
             u == [FileAlloc(t) EXCEPT !.file[f].kind = "inode", !.irefs = @ + 1]
         IN  /\ f \in Files /\ t.file[f].ref = 0 /\ Sound(u) /\ u.file[f].ref = 1
             /\ \A g \in Files : g # f => u.file[g].ref = t.file[g].ref
<1> DEFINE f == Lowest(FreeFiles(t))
           v == FileAlloc(t)
           u == [v EXCEPT !.file[f].kind = "inode", !.irefs = @ + 1]
           r == [ref |-> 1, kind |-> "inode", pipe |-> None]
<1>1. t \in Tables /\ Entries(t) /\ Ends(t) /\ Inodes(t)
  BY DEF Sound
<1>2. f \in Files /\ t.file[f].ref = 0 /\ t.file[f] = Closed /\ v = Put(t, f, Fresh)
  BY <1>1, AllocIs DEF FreeFiles, Entries
<1> HIDE DEF f, v
<1>3. /\ v \in Tables /\ v.reading = t.reading /\ v.writing = t.writing /\ v.pages = t.pages
      /\ v.irefs = t.irefs /\ v.file[f] = Fresh
      /\ \A g \in Files \ {f} : v.file[g] = t.file[g]
  BY <1>1, <1>2, Recs, PutKeeps, PutAt
<1>4. r \in FileRecs /\ r.ref = 1 /\ r.kind = "inode"
  BY DEF FileRecs, Kinds
<1>5. [v.file[f] EXCEPT !.kind = "inode"] = r
  BY <1>3 DEF Fresh
<1>6. u.file = [v.file EXCEPT ![f] = r]
  <2>1. v \in Tables
    BY <1>3
  <2>2. u.file = [v.file EXCEPT ![f] = [v.file[f] EXCEPT !.kind = "inode"]]
    BY <1>2, <2>1 DEF Tables, FileRecs
  <2> QED BY <1>5, <2>2
<1>7. /\ u.irefs = v.irefs + 1 /\ u.reading = v.reading /\ u.writing = v.writing
      /\ u.pages = v.pages
  <2>1. v \in Tables
    BY <1>3
  <2> QED BY <1>2, <2>1 DEF Tables, FileRecs
<1>8. u \in Tables
  <2>1. v \in Tables /\ [v.file[f] EXCEPT !.kind = "inode"] \in FileRecs
    BY <1>3, <1>4, <1>5
  <2>2. v.irefs + 1 \in Nat
    BY <2>1 DEF Tables
  <2> QED BY <1>2, <2>1, <2>2 DEF Tables
<1> HIDE DEF r, u
<1>9. u.file[f] = r /\ \A g \in Files \ {f} : u.file[g] = t.file[g]
  BY <1>2, <1>3, <1>6 DEF Tables
<1>10. Entries(u)
  BY <1>1, <1>4, <1>9 DEF Entries
<1>11. Ends(u)
  BY <1>1, <1>2, <1>3, <1>4, <1>7, <1>9, Recs DEF Ends, IsEnd
<1>12. InodeFiles(u) = InodeFiles(t) \cup {f} /\ f \notin InodeFiles(t)
  BY <1>2, <1>4, <1>9, Recs DEF InodeFiles
<1>13. Inodes(u)
  <2>1. Cardinality(InodeFiles(u)) = Cardinality(InodeFiles(t)) + 1
    BY <1>12, InodeFilesFinite, FS_AddElement
  <2> QED BY <1>1, <1>3, <1>7, <2>1 DEF Inodes
<1> QED BY <1>2, <1>4, <1>8, <1>9, <1>10, <1>11, <1>13 DEF Sound, f, v, u

-----------------------------------------------------------------------------
(* Holders *)

\* Descriptor k of process p holds file f; None stands for its open under way.
HeldAt(of, lv, op, f, p, k) ==
  \/ k \in Fds /\ of[p][k] = f /\ lv[p] # k
  \/ k = None /\ op[p] = f

Places == Procs \X (Fds \cup {None})

Held(of, lv, op, f) == {h \in Places : HeldAt(of, lv, op, f, h[1], h[2])}

\* Finitely many.
LEMMA HeldFinite ==
  ASSUME NEW of, NEW lv, NEW op, NEW f
  PROVE  IsFiniteSet(Held(of, lv, op, f)) /\ Cardinality(Held(of, lv, op, f)) \in Nat
<1>1. IsFiniteSet(Fds \cup {None})
  BY Consts, FS_AddElement
<1>2. IsFiniteSet(Places)
  BY <1>1, Consts, FS_Product DEF Places
<1>3. Held(of, lv, op, f) \subseteq Places
  BY DEF Held
<1> QED BY <1>2, <1>3, FS_Subset, FS_CardinalityType

\* The holders of the specification.
LEMMA HoldersHeld ==
  ASSUME NEW f
  PROVE  Holders(f) = Held(ofile, leaving, opening, f)
<1>1. ASSUME NEW h \in Holders(f) PROVE h \in Held(ofile, leaving, opening, f)
  <2>1. CASE h \in Procs \X Fds /\ ofile[h[1]][h[2]] = f /\ leaving[h[1]] # h[2]
    BY <2>1 DEF Held, HeldAt, Places
  <2>2. ASSUME NEW p \in Procs, opening[p] = f, h = <<p, None>>
        PROVE  h \in Held(ofile, leaving, opening, f)
    BY <2>2 DEF Held, HeldAt, Places
  <2> QED BY <1>1, <2>1, <2>2 DEF Holders
<1>2. ASSUME NEW h \in Held(ofile, leaving, opening, f) PROVE h \in Holders(f)
  BY <1>2, Consts DEF Held, HeldAt, Places, Holders
<1> QED BY <1>1, <1>2

\* The holders after a step.
LEMMA HoldersHeldNext ==
  ASSUME NEW f
  PROVE  Holders(f)' = Held(ofile', leaving', opening', f)
<1>1. ASSUME NEW h \in Holders(f)' PROVE h \in Held(ofile', leaving', opening', f)
  <2>1. CASE h \in Procs \X Fds /\ ofile'[h[1]][h[2]] = f /\ leaving'[h[1]] # h[2]
    BY <2>1 DEF Held, HeldAt, Places
  <2>2. ASSUME NEW p \in Procs, opening'[p] = f, h = <<p, None>>
        PROVE  h \in Held(ofile', leaving', opening', f)
    BY <2>2 DEF Held, HeldAt, Places
  <2> QED BY <1>1, <2>1, <2>2 DEF Holders
<1>2. ASSUME NEW h \in Held(ofile', leaving', opening', f) PROVE h \in Holders(f)'
  BY <1>2, Consts DEF Held, HeldAt, Places, Holders
<1> QED BY <1>1, <1>2

\* A place more.
LEMMA HeldMore ==
  ASSUME NEW of, NEW lv, NEW op, NEW of2, NEW lv2, NEW op2, NEW f,
         NEW p \in Procs, NEW k \in Fds \cup {None},
         ~HeldAt(of, lv, op, f, p, k), HeldAt(of2, lv2, op2, f, p, k),
         \A q \in Procs, j \in Fds \cup {None} :
           <<q, j>> # <<p, k>> => (HeldAt(of2, lv2, op2, f, q, j) <=> HeldAt(of, lv, op, f, q, j))
  PROVE  Cardinality(Held(of2, lv2, op2, f)) = Cardinality(Held(of, lv, op, f)) + 1
<1>1. /\ Held(of2, lv2, op2, f) = Held(of, lv, op, f) \cup {<<p, k>>}
      /\ <<p, k>> \notin Held(of, lv, op, f)
  BY DEF Held, Places
<1> QED BY <1>1, HeldFinite, FS_AddElement

\* A place less.
LEMMA HeldLess ==
  ASSUME NEW of, NEW lv, NEW op, NEW of2, NEW lv2, NEW op2, NEW f,
         NEW p \in Procs, NEW k \in Fds \cup {None},
         HeldAt(of, lv, op, f, p, k), ~HeldAt(of2, lv2, op2, f, p, k),
         \A q \in Procs, j \in Fds \cup {None} :
           <<q, j>> # <<p, k>> => (HeldAt(of2, lv2, op2, f, q, j) <=> HeldAt(of, lv, op, f, q, j))
  PROVE  Cardinality(Held(of2, lv2, op2, f)) = Cardinality(Held(of, lv, op, f)) - 1
<1>1. /\ Held(of2, lv2, op2, f) = Held(of, lv, op, f) \ {<<p, k>>}
      /\ <<p, k>> \in Held(of, lv, op, f)
  BY DEF Held, Places
<1> DEFINE H == Held(of, lv, op, f)
<1>2. IsFiniteSet(H) /\ Cardinality(H) \in Nat
  BY HeldFinite
<1> HIDE DEF H
<1>3. Cardinality(H \ {<<p, k>>}) = Cardinality(H) - 1
  BY <1>1, <1>2, FS_RemoveElement DEF H
<1> QED BY <1>1, <1>3 DEF H

\* The same places.
LEMMA HeldSame ==
  ASSUME NEW of, NEW lv, NEW op, NEW of2, NEW lv2, NEW op2, NEW f,
         \A q \in Procs, j \in Fds \cup {None} :
           HeldAt(of2, lv2, op2, f, q, j) <=> HeldAt(of, lv, op, f, q, j)
  PROVE  Held(of2, lv2, op2, f) = Held(of, lv, op, f)
BY DEF Held, Places

\* fork adds a place for each descriptor of the parent.
LEMMA HeldFork ==
  ASSUME NEW of, NEW lv, NEW op, NEW of2, NEW f, NEW q \in Procs, NEW S \in SUBSET Fds,
         \A k \in Fds \cup {None} : ~HeldAt(of, lv, op, f, q, k),
         \A k \in Fds \cup {None} : HeldAt(of2, lv, op, f, q, k) <=> k \in S,
         \A p \in Procs \ {q}, k \in Fds \cup {None} :
           HeldAt(of2, lv, op, f, p, k) <=> HeldAt(of, lv, op, f, p, k)
  PROVE  Cardinality(Held(of2, lv, op, f)) = Cardinality(Held(of, lv, op, f)) + Cardinality(S)
<1> DEFINE H == Held(of, lv, op, f)
           T == {q} \X S
<1>1. Held(of2, lv, op, f) = H \cup T /\ H \cap T = {}
  BY DEF Held, Places
<1>2. IsFiniteSet(S) /\ Cardinality(S) \in Nat
  BY Consts, FS_Subset, FS_CardinalityType
<1>3. IsFiniteSet({q}) /\ Cardinality({q}) = 1
  BY FS_Singleton
<1>4. IsFiniteSet(T) /\ Cardinality(T) = Cardinality(S)
  <2>1. IsFiniteSet(T) /\ Cardinality(T) = Cardinality({q}) * Cardinality(S)
    BY <1>2, <1>3, FS_Product
  <2> QED BY <1>2, <1>3, <2>1
<1>5. IsFiniteSet(H) /\ Cardinality(H) \in Nat
  BY HeldFinite
<1>6. Cardinality(H \cap T) = 0
  BY <1>1, FS_EmptySet
<1> HIDE DEF H, T
<1>7. Cardinality(H \cup T) = Cardinality(H) + Cardinality(T) - Cardinality(H \cap T)
  BY <1>4, <1>5, FS_Union
<1> QED BY <1>1, <1>2, <1>4, <1>5, <1>6, <1>7 DEF H

-----------------------------------------------------------------------------
(* The inductive invariant *)

\* The types of what is not the table.
OtherTypes ==
  /\ ofile \in [Procs -> [Fds -> Files \cup {None}]]
  /\ live \subseteq Procs
  /\ opening \in [Procs -> Files \cup {None}]
  /\ leaving \in [Procs -> Fds \cup {None, NotLeaving}]

\* A process that is not there holds nothing, and a process does not exit in the
\* middle of an open.
Gone ==
  /\ \A p \in Procs \ live : /\ opening[p] = None /\ leaving[p] = NotLeaving
                             /\ \A fd \in Fds : ofile[p][fd] = None
  /\ \A p \in Procs : opening[p] # None => leaving[p] = NotLeaving

Inv == OtherTypes /\ Sound(table) /\ RefCounts /\ Gone

\* A file with a holder is open.
LEMMA HeldIsOpen ==
  ASSUME Inv, NEW f \in Files, NEW p \in Procs, NEW k \in Fds \cup {None},
         HeldAt(ofile, leaving, opening, f, p, k)
  PROVE  table.file[f].ref # 0
<1>1. <<p, k>> \in Held(ofile, leaving, opening, f)
  BY DEF Held, Places
<1>2. Cardinality(Held(ofile, leaving, opening, f)) # 0
  BY <1>1, HeldFinite, FS_EmptySet
<1> QED BY <1>2, HoldersHeld DEF Inv, RefCounts

\* A file without a reference has no holder.
LEMMA FreeNotHeld ==
  ASSUME Inv, NEW f \in Files, table.file[f].ref = 0, NEW p \in Procs, NEW k \in Fds \cup {None}
  PROVE  ~HeldAt(ofile, leaving, opening, f, p, k)
BY HeldIsOpen

\* What is to be shown of a step about the counts.
LEMMA CountsNext ==
  ASSUME Inv,
         \A f \in Files : table'.file[f].ref - table.file[f].ref =
           Cardinality(Held(ofile', leaving', opening', f))
             - Cardinality(Held(ofile, leaving, opening, f)),
         Sound(table')
  PROVE  RefCounts'
<1> SUFFICES ASSUME NEW f \in Files
             PROVE  table'.file[f].ref = Cardinality(Holders(f)')
  BY DEF RefCounts
<1>1. table.file[f].ref = Cardinality(Held(ofile, leaving, opening, f))
  BY HoldersHeld DEF Inv, RefCounts
<1>2. table'.file[f].ref \in Nat
  BY DEF Sound, Tables, FileRecs
<1> QED BY <1>1, <1>2, HeldFinite, HoldersHeldNext

\* A step in which file f, and no other, gets one holder more at place k of p, and
\* one reference more.
LEMMA CountsMore ==
  ASSUME Inv, Sound(table'), NEW f \in Files, NEW p \in Procs, NEW k \in Fds \cup {None},
         ~HeldAt(ofile, leaving, opening, f, p, k), HeldAt(ofile', leaving', opening', f, p, k),
         \A g \in Files, q \in Procs, j \in Fds \cup {None} : <<g, q, j>> # <<f, p, k>> =>
           (HeldAt(ofile', leaving', opening', g, q, j) <=> HeldAt(ofile, leaving, opening, g, q, j)),
         table'.file[f].ref = table.file[f].ref + 1,
         \A g \in Files : g # f => table'.file[g].ref = table.file[g].ref
  PROVE  RefCounts'
<1> SUFFICES ASSUME NEW g \in Files
             PROVE  table'.file[g].ref - table.file[g].ref =
                      Cardinality(Held(ofile', leaving', opening', g))
                        - Cardinality(Held(ofile, leaving, opening, g))
  BY CountsNext
<1>1. table.file[g].ref \in Nat /\ table'.file[g].ref \in Nat
  BY DEF Inv, Sound, Tables, FileRecs
<1>2. CASE g = f
  <2>1. Cardinality(Held(ofile', leaving', opening', f))
          = Cardinality(Held(ofile, leaving, opening, f)) + 1
    BY HeldMore
  <2> QED BY <1>1, <1>2, <2>1, HeldFinite
<1>3. CASE g # f
  <2>1. Held(ofile', leaving', opening', g) = Held(ofile, leaving, opening, g)
    BY <1>3, HeldSame
  <2> QED BY <1>1, <1>3, <2>1, HeldFinite
<1> QED BY <1>2, <1>3

\* The same with one less.
LEMMA CountsLess ==
  ASSUME Inv, Sound(table'), NEW f \in Files, NEW p \in Procs, NEW k \in Fds \cup {None},
         HeldAt(ofile, leaving, opening, f, p, k), ~HeldAt(ofile', leaving', opening', f, p, k),
         \A g \in Files, q \in Procs, j \in Fds \cup {None} : <<g, q, j>> # <<f, p, k>> =>
           (HeldAt(ofile', leaving', opening', g, q, j) <=> HeldAt(ofile, leaving, opening, g, q, j)),
         table'.file[f].ref = table.file[f].ref - 1,
         \A g \in Files : g # f => table'.file[g].ref = table.file[g].ref
  PROVE  RefCounts'
<1> SUFFICES ASSUME NEW g \in Files
             PROVE  table'.file[g].ref - table.file[g].ref =
                      Cardinality(Held(ofile', leaving', opening', g))
                        - Cardinality(Held(ofile, leaving, opening, g))
  BY CountsNext
<1>1. table.file[g].ref \in Nat /\ table'.file[g].ref \in Nat
  BY DEF Inv, Sound, Tables, FileRecs
<1>2. CASE g = f
  <2>1. Cardinality(Held(ofile', leaving', opening', f))
          = Cardinality(Held(ofile, leaving, opening, f)) - 1
    BY HeldLess
  <2> QED BY <1>1, <1>2, <2>1, HeldFinite
<1>3. CASE g # f
  <2>1. Held(ofile', leaving', opening', g) = Held(ofile, leaving, opening, g)
    BY <1>3, HeldSame
  <2> QED BY <1>1, <1>3, <2>1, HeldFinite
<1> QED BY <1>2, <1>3

\* The same with no change.
LEMMA CountsSame ==
  ASSUME Inv, table' = table,
         \A g \in Files, q \in Procs, j \in Fds \cup {None} :
           HeldAt(ofile', leaving', opening', g, q, j) <=> HeldAt(ofile, leaving, opening, g, q, j)
  PROVE  RefCounts'
<1>1. ASSUME NEW g \in Files
      PROVE  table'.file[g].ref - table.file[g].ref =
               Cardinality(Held(ofile', leaving', opening', g))
                 - Cardinality(Held(ofile, leaving, opening, g))
  <2>1. table.file[g].ref \in Nat
    BY DEF Inv, Sound, Tables, FileRecs
  <2>2. Held(ofile', leaving', opening', g) = Held(ofile, leaving, opening, g)
    BY HeldSame
  <2> QED BY <2>1, <2>2, HeldFinite
<1>2. Sound(table')
  BY DEF Inv
<1> QED BY <1>1, <1>2, CountsNext

-----------------------------------------------------------------------------
(* The steps *)

\* fdalloc returns a descriptor that is free.
LEMMA FreeFd ==
  ASSUME NEW p, FreeFds(p) # {}
  PROVE  Lowest(FreeFds(p)) \in Fds /\ ofile[p][Lowest(FreeFds(p))] = None
<1>1. FreeFds(p) \subseteq Nat
  BY DEF FreeFds, Fds
<1>2. Lowest(FreeFds(p)) \in FreeFds(p)
  BY <1>1, LowestIn
<1> QED BY <1>2 DEF FreeFds

\* sys_open, first half.
LEMMA OpenStep ==
  ASSUME Inv, NEW p \in Procs, SysOpen(p)
  PROVE  Inv'
<1>1. InUser(p) /\ UNCHANGED <<ofile, live, leaving>>
  BY DEF SysOpen
<1>0. /\ FreeFiles(Named(table)) = FreeFiles(table) /\ Iunlockput(Named(table)) = table
      /\ [FileAlloc(Named(table)) EXCEPT !.file[Lowest(FreeFiles(table))].kind = "inode"]
           = [FileAlloc(table) EXCEPT !.file[Lowest(FreeFiles(table))].kind = "inode", !.irefs = @ + 1]
  <2>1. table \in Tables
    BY DEF Inv, Sound
  <2>2. FreeFiles(Named(table)) = FreeFiles(table)
    BY <2>1 DEF FreeFiles, Named, Tables
  <2> DEFINE Row(n, files) == [file |-> files, reading |-> table.reading, writing |-> table.writing,
                               pages |-> table.pages, irefs |-> n]
             k == table.irefs
  <2>3. table = Row(k, table.file) /\ k \in Nat
    BY <2>1 DEF Tables
  <2>4. Named(table) = Row(k + 1, table.file)
    BY <2>3 DEF Named
  <2>5. Iunlockput(Row(k + 1, table.file)) = Row((k + 1) - 1, table.file)
    BY DEF Iunlockput
  <2>6. (k + 1) - 1 = k
    BY <2>3
  <2>7. [FileAlloc(Named(table)) EXCEPT !.file[Lowest(FreeFiles(table))].kind = "inode"]
          = [FileAlloc(table) EXCEPT !.file[Lowest(FreeFiles(table))].kind = "inode", !.irefs = @ + 1]
    <3> DEFINE f == Lowest(FreeFiles(table))
               e == [table.file EXCEPT ![f] = [ref |-> 1, kind |-> "none", pipe |-> None]]
    <3>1. FileAlloc(Named(table)) = Row(k + 1, e)
      BY <2>2, <2>4 DEF FileAlloc
    <3>2. FileAlloc(table) = Row(k, e)
      BY <2>3 DEF FileAlloc
    <3> HIDE DEF e, f, k
    <3>3. [Row(k + 1, e) EXCEPT !.file[f].kind = "inode"] = Row(k + 1, [e EXCEPT ![f].kind = "inode"])
      OBVIOUS
    <3>4. [Row(k, e) EXCEPT !.file[f].kind = "inode", !.irefs = @ + 1] = Row(k + 1, [e EXCEPT ![f].kind = "inode"])
      <4>1. [Row(k, e) EXCEPT !.file[f].kind = "inode"] = Row(k, [e EXCEPT ![f].kind = "inode"])
        OBVIOUS
      <4>2. [Row(k, [e EXCEPT ![f].kind = "inode"]) EXCEPT !.irefs = @ + 1] = Row(k + 1, [e EXCEPT ![f].kind = "inode"])
        OBVIOUS
      <4>3. [Row(k, e) EXCEPT !.file[f].kind = "inode", !.irefs = @ + 1]
              = [[Row(k, e) EXCEPT !.file[f].kind = "inode"] EXCEPT !.irefs = @ + 1]
        OBVIOUS
      <4> QED BY <4>1, <4>2, <4>3
    <3> HIDE DEF Row
    <3> QED BY <3>1, <3>2, <3>3, <3>4 DEF f
  <2> HIDE DEF Row, k
  <2>8. Iunlockput(Named(table)) = table
    BY <2>3, <2>4, <2>5, <2>6
  <2> QED BY <2>2, <2>7, <2>8
<1>2. CASE FreeFiles(table) = {}
  <2>1. UNCHANGED <<table, opening>>
    BY <1>0, <1>2 DEF SysOpen
  <2>2. RefCounts'
    BY <1>1, <2>1, CountsSame
  <2> QED BY <1>1, <2>1, <2>2 DEF Inv, OtherTypes, Gone
<1>3. CASE FreeFiles(table) # {}
  <2> DEFINE f == Lowest(FreeFiles(table))
             u == [FileAlloc(table) EXCEPT !.file[f].kind = "inode", !.irefs = @ + 1]
  <2>1. table' = u /\ opening' = [opening EXCEPT ![p] = f]
    BY <1>0, <1>3 DEF SysOpen
  <2>2. /\ f \in Files /\ table.file[f].ref = 0 /\ Sound(u) /\ u.file[f].ref = 1
        /\ \A g \in Files : g # f => u.file[g].ref = table.file[g].ref
    BY <1>3, OpenSound DEF Inv
  <2> HIDE DEF f, u
  <2>3. ~HeldAt(ofile, leaving, opening, f, p, None) /\ HeldAt(ofile', leaving', opening', f, p, None)
    BY <1>1, <2>1, <2>2, FreeNotHeld DEF HeldAt, Inv, OtherTypes
  <2>4. ASSUME NEW g \in Files, NEW q \in Procs, NEW j \in Fds \cup {None}, <<g, q, j>> # <<f, p, None>>
        PROVE  HeldAt(ofile', leaving', opening', g, q, j) <=> HeldAt(ofile, leaving, opening, g, q, j)
    BY <1>1, <2>1, <2>4, Consts DEF HeldAt, Inv, OtherTypes, InUser
  <2>5. RefCounts'
    <3>1. /\ Sound(table') /\ f \in Files /\ table'.file[f].ref = table.file[f].ref + 1
          /\ \A g \in Files : g # f => table'.file[g].ref = table.file[g].ref
      BY <2>1, <2>2
    <3> QED BY <2>3, <2>4, <3>1, CountsMore
  <2>6. OtherTypes' /\ Gone'
    BY <1>1, <2>1, <2>2, Consts DEF Inv, OtherTypes, Gone, InUser
  <2> QED BY <2>1, <2>2, <2>5, <2>6 DEF Inv
<1> QED BY <1>2, <1>3

\* sys_open, second half.
LEMMA OpenEndsStep ==
  ASSUME Inv, NEW p \in Procs, OpenEnds(p)
  PROVE  Inv'
<1> DEFINE f == opening[p]
<1>1. /\ f \in Files /\ opening' = [opening EXCEPT ![p] = None] /\ UNCHANGED <<live, leaving>>
      /\ p \in live /\ leaving[p] = NotLeaving
  BY DEF OpenEnds, Inv, OtherTypes, Gone
<1>2. CASE FreeFds(p) # {}
  <2> DEFINE fd == Lowest(FreeFds(p))
  <2>1. UNCHANGED table /\ ofile' = [ofile EXCEPT ![p][fd] = f]
    BY <1>2 DEF OpenEnds
  <2>2. fd \in Fds /\ ofile[p][fd] = None
    BY <1>2, FreeFd
  <2> HIDE DEF f, fd
  <2>3. ASSUME NEW g \in Files
        PROVE  table'.file[g].ref - table.file[g].ref =
                 Cardinality(Held(ofile', leaving', opening', g))
                   - Cardinality(Held(ofile, leaving, opening, g))
    <3>1. table.file[g].ref \in Nat
      BY DEF Inv, Sound, Tables, FileRecs
    <3>2. CASE g = f
      <4>1. Cardinality(Held(ofile', leaving, opening, f)) = Cardinality(Held(ofile, leaving, opening, f)) + 1
        <5>1. ~HeldAt(ofile, leaving, opening, f, p, fd) /\ HeldAt(ofile', leaving, opening, f, p, fd)
          BY <1>1, <2>1, <2>2, Consts DEF HeldAt, Inv, OtherTypes
        <5>2. ASSUME NEW q \in Procs, NEW j \in Fds \cup {None}, <<q, j>> # <<p, fd>>
              PROVE  HeldAt(ofile', leaving, opening, f, q, j) <=> HeldAt(ofile, leaving, opening, f, q, j)
          BY <1>1, <2>1, <2>2, <5>2, Consts DEF HeldAt, Inv, OtherTypes
        <5> QED BY <2>2, <5>1, <5>2, HeldMore
      <4>2. Cardinality(Held(ofile', leaving', opening', f)) = Cardinality(Held(ofile', leaving, opening, f)) - 1
        <5>1. HeldAt(ofile', leaving, opening, f, p, None) /\ ~HeldAt(ofile', leaving', opening', f, p, None)
          BY <1>1, Consts DEF HeldAt, Inv, OtherTypes, f
        <5>2. ASSUME NEW q \in Procs, NEW j \in Fds \cup {None}, <<q, j>> # <<p, None>>
              PROVE  HeldAt(ofile', leaving', opening', f, q, j) <=> HeldAt(ofile', leaving, opening, f, q, j)
          BY <1>1, <5>2, Consts DEF HeldAt, Inv, OtherTypes
        <5> QED BY <5>1, <5>2, HeldLess
      <4> QED BY <2>1, <3>1, <3>2, <4>1, <4>2, HeldFinite
    <3>3. CASE g # f
      <4>1. ASSUME NEW q \in Procs, NEW j \in Fds \cup {None}
            PROVE  HeldAt(ofile', leaving', opening', g, q, j) <=> HeldAt(ofile, leaving, opening, g, q, j)
        BY <1>1, <2>1, <2>2, <3>3, Consts DEF HeldAt, Inv, OtherTypes, f
      <4>2. Held(ofile', leaving', opening', g) = Held(ofile, leaving, opening, g)
        BY <4>1, HeldSame
      <4> QED BY <2>1, <3>1, <4>2, HeldFinite
    <3> QED BY <3>2, <3>3
  <2>4. Sound(table')
    BY <2>1 DEF Inv
  <2>5. RefCounts'
    BY <2>3, <2>4, CountsNext
  <2>6. OtherTypes' /\ Gone'
    BY <1>1, <2>1, <2>2, Consts DEF Inv, OtherTypes, Gone
  <2> QED BY <2>4, <2>5, <2>6 DEF Inv
<1>3. CASE FreeFds(p) = {}
  <2>1. table' = FileClose(table, f) /\ UNCHANGED ofile
    BY <1>3 DEF OpenEnds
  <2>2. HeldAt(ofile, leaving, opening, f, p, None) /\ ~HeldAt(ofile', leaving', opening', f, p, None)
    BY <1>1, Consts DEF HeldAt, Inv, OtherTypes
  <2>3. /\ Sound(table') /\ table'.file[f].ref = table.file[f].ref - 1
        /\ \A g \in Files : g # f => table'.file[g].ref = table.file[g].ref
    BY <1>1, <2>1, <2>2, HeldIsOpen, CloseSound DEF Inv
  <2>4. ASSUME NEW g \in Files, NEW q \in Procs, NEW j \in Fds \cup {None}, <<g, q, j>> # <<f, p, None>>
        PROVE  HeldAt(ofile', leaving', opening', g, q, j) <=> HeldAt(ofile, leaving, opening, g, q, j)
    BY <1>1, <2>1, <2>4, Consts DEF HeldAt, Inv, OtherTypes
  <2> HIDE DEF f
  <2>5. RefCounts'
    BY <1>1, <2>2, <2>3, <2>4, CountsLess
  <2>6. OtherTypes' /\ Gone'
    BY <1>1, <2>1, Consts DEF Inv, OtherTypes, Gone
  <2> QED BY <2>3, <2>5, <2>6 DEF Inv
<1> QED BY <1>2, <1>3

\* sys_dup.
LEMMA DupStep ==
  ASSUME Inv, NEW p \in Procs, NEW fd \in Fds, SysDup(p, fd)
  PROVE  Inv'
<1> DEFINE f == ofile[p][fd]
           e == Lowest(FreeFds(p))
<1>1. /\ f \in Files /\ ofile' = [ofile EXCEPT ![p][e] = f] /\ table' = FileDup(table, f, 1)
      /\ InUser(p) /\ UNCHANGED <<live, opening, leaving>>
  BY DEF SysDup, Dup, Inv, OtherTypes
<1>2. e \in Fds /\ ofile[p][e] = None
  BY FreeFd DEF SysDup
<1>3. HeldAt(ofile, leaving, opening, f, p, fd)
  BY <1>1, Consts DEF HeldAt, InUser
<1>4. table.file[f].ref # 0 /\ table.file[f] \in FileRecs /\ table.file[f].ref \in Nat /\ table \in Tables
  BY <1>1, <1>3, HeldIsOpen DEF Inv, Sound, Tables, FileRecs
<1> HIDE DEF e
<1>5. PICK r \in FileRecs : /\ r.ref = table.file[f].ref + 1 /\ r.kind = table.file[f].kind
                            /\ r.pipe = table.file[f].pipe /\ table' = Put(table, f, r)
  <2> DEFINE r == [table.file[f] EXCEPT !.ref = table.file[f].ref + 1]
  <2>1. r \in FileRecs /\ r.ref = table.file[f].ref + 1 /\ r.kind = table.file[f].kind /\ r.pipe = table.file[f].pipe
    BY <1>4 DEF FileRecs
  <2>2. table' = Put(table, f, r)
    BY <1>1, <1>4, SMTT(30) DEF FileDup, Put, Tables, FileRecs
  <2> QED BY <2>1, <2>2
<1> HIDE DEF f
<1>6. Sound(table')
  BY <1>1, <1>4, <1>5, RecountSound DEF Inv
<1>7. table'.file[f].ref = table.file[f].ref + 1 /\ \A g \in Files : g # f => table'.file[g].ref = table.file[g].ref
  BY <1>1, <1>4, <1>5, PutAt
<1>8. ~HeldAt(ofile, leaving, opening, f, p, e) /\ HeldAt(ofile', leaving', opening', f, p, e)
  BY <1>1, <1>2, Consts DEF HeldAt, Inv, OtherTypes, InUser
<1>9. ASSUME NEW g \in Files, NEW q \in Procs, NEW j \in Fds \cup {None}, <<g, q, j>> # <<f, p, e>>
      PROVE  HeldAt(ofile', leaving', opening', g, q, j) <=> HeldAt(ofile, leaving, opening, g, q, j)
  BY <1>1, <1>2, <1>9, Consts DEF HeldAt, Inv, OtherTypes
<1>10. RefCounts'
  <2>1. f \in Files /\ e \in Fds \cup {None}
    BY <1>1, <1>2
  <2> QED BY <1>6, <1>7, <1>8, <1>9, <2>1, CountsMore
<1>11. OtherTypes' /\ Gone'
  BY <1>1, <1>2, Consts DEF Inv, OtherTypes, Gone, InUser
<1> QED BY <1>6, <1>10, <1>11 DEF Inv

\* sys_close.
LEMMA CloseStep ==
  ASSUME Inv, NEW p \in Procs, NEW fd \in Fds, SysClose(p, fd)
  PROVE  Inv'
<1> DEFINE f == ofile[p][fd]
<1>1. /\ f \in Files /\ ofile' = [ofile EXCEPT ![p][fd] = None] /\ table' = FileClose(table, f)
      /\ InUser(p) /\ UNCHANGED <<live, opening, leaving>>
  BY DEF SysClose, Inv, OtherTypes
<1>2. HeldAt(ofile, leaving, opening, f, p, fd)
  BY Consts, <1>1 DEF HeldAt, InUser
<1> HIDE DEF f
<1>3. ~HeldAt(ofile', leaving', opening', f, p, fd)
  BY <1>1, Consts DEF HeldAt, Inv, OtherTypes
<1>4. /\ Sound(table') /\ table'.file[f].ref = table.file[f].ref - 1
      /\ \A g \in Files : g # f => table'.file[g].ref = table.file[g].ref
  BY <1>1, <1>2, HeldIsOpen, CloseSound DEF Inv
<1>5. ASSUME NEW g \in Files, NEW q \in Procs, NEW j \in Fds \cup {None}, <<g, q, j>> # <<f, p, fd>>
      PROVE  HeldAt(ofile', leaving', opening', g, q, j) <=> HeldAt(ofile, leaving, opening, g, q, j)
  BY <1>1, <1>5, Consts DEF HeldAt, Inv, OtherTypes, f
<1>6. RefCounts'
  <2>1. f \in Files /\ fd \in Fds \cup {None}
    BY <1>1
  <2>2. \A g \in Files, q \in Procs, j \in Fds \cup {None} : <<g, q, j>> # <<f, p, fd>> =>
          (HeldAt(ofile', leaving', opening', g, q, j) <=> HeldAt(ofile, leaving, opening, g, q, j))
    BY <1>5
  <2> QED BY <1>2, <1>3, <1>4, <2>1, <2>2, CountsLess
<1>7. OtherTypes' /\ Gone'
  BY <1>1, Consts DEF Inv, OtherTypes, Gone, InUser
<1> QED BY <1>4, <1>6, <1>7 DEF Inv

\* exit begins.
LEMMA ExitStep ==
  ASSUME Inv, NEW p \in Procs, Exit(p)
  PROVE  Inv'
<1>1. InUser(p) /\ leaving' = [leaving EXCEPT ![p] = None] /\ UNCHANGED <<table, ofile, live, opening>>
  BY DEF Exit
<1>2. ASSUME NEW g \in Files, NEW q \in Procs, NEW j \in Fds \cup {None}
      PROVE  HeldAt(ofile', leaving', opening', g, q, j) <=> HeldAt(ofile, leaving, opening, g, q, j)
  BY <1>1, Consts DEF HeldAt, Inv, OtherTypes, InUser
<1>3. RefCounts'
  BY <1>1, <1>2, CountsSame
<1> QED BY <1>1, <1>3, Consts DEF Inv, OtherTypes, Gone, InUser

\* proc_cleanup: the file of a descriptor is closed, the descriptor cleared, the
\* process gone.
LEMMA CleanupStep ==
  ASSUME Inv, NEW p \in Procs, Cleanup(p)
  PROVE  Inv'
<1>1. CASE CleanupClose(p)
  <2>1. PICK fd \in Fds : /\ ofile[p][fd] # None /\ table' = FileClose(table, ofile[p][fd])
                          /\ leaving' = [leaving EXCEPT ![p] = fd]
    BY <1>1 DEF CleanupClose
  <2> DEFINE f == ofile[p][fd]
  <2>2. /\ f \in Files /\ leaving[p] = None /\ p \in live /\ opening[p] = None
        /\ UNCHANGED <<ofile, live, opening>>
    BY <1>1, <2>1, Consts DEF CleanupClose, Inv, OtherTypes, Gone
  <2>3. HeldAt(ofile, leaving, opening, f, p, fd) /\ ~HeldAt(ofile', leaving', opening', f, p, fd)
    BY <2>1, <2>2, Consts DEF HeldAt, Inv, OtherTypes
  <2>4. /\ Sound(table') /\ table'.file[f].ref = table.file[f].ref - 1
        /\ \A g \in Files : g # f => table'.file[g].ref = table.file[g].ref
    BY <2>1, <2>2, <2>3, HeldIsOpen, CloseSound DEF Inv
  <2>5. ASSUME NEW g \in Files, NEW q \in Procs, NEW j \in Fds \cup {None}, <<g, q, j>> # <<f, p, fd>>
        PROVE  HeldAt(ofile', leaving', opening', g, q, j) <=> HeldAt(ofile, leaving, opening, g, q, j)
    BY <2>1, <2>2, <2>5, Consts DEF HeldAt, Inv, OtherTypes
  <2> HIDE DEF f
  <2>6. RefCounts'
    BY <2>2, <2>3, <2>4, <2>5, CountsLess
  <2>7. OtherTypes' /\ Gone'
    BY <2>1, <2>2, Consts DEF Inv, OtherTypes, Gone
  <2> QED BY <2>4, <2>6, <2>7 DEF Inv
<1>2. CASE CleanupClear(p)
  <2>1. /\ leaving[p] \in Fds /\ ofile' = [ofile EXCEPT ![p][leaving[p]] = None]
        /\ leaving' = [leaving EXCEPT ![p] = None] /\ UNCHANGED <<table, live, opening>>
        /\ p \in live /\ opening[p] = None
    BY <1>2, Consts DEF CleanupClear, Inv, Gone
  <2>2. ASSUME NEW g \in Files, NEW q \in Procs, NEW j \in Fds \cup {None}
        PROVE  HeldAt(ofile', leaving', opening', g, q, j) <=> HeldAt(ofile, leaving, opening, g, q, j)
    BY <2>1, Consts DEF HeldAt, Inv, OtherTypes
  <2>3. RefCounts'
    BY <2>1, <2>2, CountsSame
  <2> QED BY <2>1, <2>3, Consts DEF Inv, OtherTypes, Gone
<1>3. CASE CleanupEnds(p)
  <2>1. /\ leaving[p] = None /\ (\A fd \in Fds : ofile[p][fd] = None) /\ live' = live \ {p}
        /\ leaving' = [leaving EXCEPT ![p] = NotLeaving] /\ UNCHANGED <<table, ofile, opening>>
        /\ p \in live /\ opening[p] = None
    BY <1>3, Consts DEF CleanupEnds, Inv, OtherTypes, Gone
  <2>2. ASSUME NEW g \in Files, NEW q \in Procs, NEW j \in Fds \cup {None}
        PROVE  HeldAt(ofile', leaving', opening', g, q, j) <=> HeldAt(ofile, leaving, opening, g, q, j)
    BY <2>1, Consts DEF HeldAt, Inv, OtherTypes
  <2>3. RefCounts'
    BY <2>1, <2>2, CountsSame
  <2> QED BY <2>1, <2>3, Consts DEF Inv, OtherTypes, Gone
<1> QED BY <1>1, <1>2, <1>3 DEF Cleanup

\* With two free descriptors, sys_pipe's two calls of fdalloc return two of them.
LEMMA TwoFds ==
  ASSUME NEW p, Cardinality(FreeFds(p)) >= 2
  PROVE  LET fd0 == Lowest(FreeFds(p))
             fd1 == Lowest(FreeFds(p) \ {fd0})
         IN  /\ fd0 \in Fds /\ fd1 \in Fds /\ fd0 # fd1
             /\ ofile[p][fd0] = None /\ ofile[p][fd1] = None
<1> DEFINE S == FreeFds(p)
           fd0 == Lowest(S)
           T == S \ {fd0}
<1>1. S \subseteq Fds /\ S \subseteq Nat
  BY DEF FreeFds, Fds
<1>2. IsFiniteSet(S) /\ Cardinality(S) \in Nat
  BY <1>1, Consts, FS_Subset, FS_CardinalityType
<1>3. S # {}
  BY FS_EmptySet
<1>4. fd0 \in S
  BY <1>1, <1>3, LowestIn
<1> HIDE DEF fd0, S
<1>5. Cardinality(T) = Cardinality(S) - 1
  BY <1>2, <1>4, FS_RemoveElement
<1>6. Cardinality(T) # 0
  BY <1>2, <1>5 DEF S
<1>7. T # {}
  BY <1>6, FS_EmptySet
<1>8. T \subseteq Nat
  BY <1>1
<1>9. Lowest(T) \in T
  BY <1>7, <1>8, LowestIn
<1> QED BY <1>1, <1>4, <1>9 DEF fd0, S, FreeFds

\* sys_pipe: the pipe and its two descriptors, or nothing.
LEMMA PipeStep ==
  ASSUME Inv, NEW p \in Procs, NEW page \in Pipes \cup {None}, SysPipe(p, page)
  PROVE  Inv'
<1> DEFINE a == PipeAlloc(table, page)
           fds == FreeFds(p)
<1>1. InUser(p) /\ page \notin table.pages /\ UNCHANGED <<live, opening, leaving>> /\ Sound(table)
  BY DEF SysPipe, Inv
<1>2. ASSUME UNCHANGED <<table, ofile>> PROVE Inv'
  <2>1. RefCounts'
    BY <1>1, <1>2, CountsSame
  <2> QED BY <1>1, <1>2, <2>1 DEF Inv, OtherTypes, Gone
<1>3. CASE a.rf = None
  <2>1. a.table = table
    BY <1>1, <1>3, PipeAllocBad
  <2>2. table' = a.table /\ ofile' = ofile
    BY <1>3 DEF SysPipe
  <2> QED BY <1>2, <2>1, <2>2
<1>4. CASE a.rf # None
  <2>1. PICK f \in Files, g \in Files :
          /\ f # g /\ table.file[f] = Closed /\ table.file[g] = Closed /\ page \in Pipes
          /\ a.rf = f /\ a.wf = g /\ Piped(table, a.table, f, g, page)
    BY <1>1, <1>4, PipeAllocGood
  <2>2. Cardinality(fds) \in Nat
    <3>1. fds \subseteq Fds
      BY DEF FreeFds
    <3> QED BY <3>1, Consts, FS_Subset, FS_CardinalityType
  <2>3. CASE Cardinality(fds) < 2
    <3>1. table' = Undo(a.table, a.rf, a.wf) /\ UNCHANGED ofile
      BY <1>4, <2>2, <2>3 DEF SysPipe
    <3>2. Undo(a.table, f, g) = table
      BY <1>1, <2>1, PipeUndone
    <3> QED BY <1>2, <2>1, <3>1, <3>2
  <2>4. CASE Cardinality(fds) >= 2
    <3> DEFINE fd0 == Lowest(fds)
               fd1 == Lowest(fds \ {fd0})
    <3>1. table' = a.table /\ ofile' = [ofile EXCEPT ![p][fd0] = a.rf, ![p][fd1] = a.wf]
      BY <1>4, <2>2, <2>4 DEF SysPipe
    <3>2. fd0 \in Fds /\ fd1 \in Fds /\ fd0 # fd1 /\ ofile[p][fd0] = None /\ ofile[p][fd1] = None
      BY <2>4, TwoFds
    <3> HIDE DEF a, fds, fd0, fd1
    <3>3. Sound(table')
      BY <1>1, <2>1, <3>1, PipedSound
    <3>4. /\ ofile' \in [Procs -> [Fds -> Files \cup {None}]]
          /\ \A q \in Procs \ {p} : ofile'[q] = ofile[q]
          /\ ofile'[p][fd0] = f /\ ofile'[p][fd1] = g
          /\ \A j \in Fds \ {fd0, fd1} : ofile'[p][j] = ofile[p][j]
      BY <2>1, <3>1, <3>2 DEF Inv, OtherTypes
    <3>5. /\ table.file[f].ref = 0 /\ table.file[g].ref = 0
          /\ table'.file[f].ref = 1 /\ table'.file[g].ref = 1
          /\ \A h \in Files \ {f, g} : table'.file[h].ref = table.file[h].ref
      BY <2>1, <3>1, Recs, EndRecs DEF Piped
    <3>6. ASSUME NEW h \in Files
          PROVE  table'.file[h].ref - table.file[h].ref =
                   Cardinality(Held(ofile', leaving', opening', h))
                     - Cardinality(Held(ofile, leaving, opening, h))
      <4>1. table.file[h].ref \in Nat
        BY DEF Inv, Sound, Tables, FileRecs
      <4>2. CASE h = f
        <5>1. ~HeldAt(ofile, leaving, opening, f, p, fd0) /\ HeldAt(ofile', leaving', opening', f, p, fd0)
          BY <1>1, <3>2, <3>4, <3>5, FreeNotHeld, Consts DEF HeldAt, InUser
        <5>2. ASSUME NEW q \in Procs, NEW j \in Fds \cup {None}, <<q, j>> # <<p, fd0>>
              PROVE  HeldAt(ofile', leaving', opening', f, q, j) <=> HeldAt(ofile, leaving, opening, f, q, j)
          BY <1>1, <2>1, <3>2, <3>4, <5>2, Consts DEF HeldAt
        <5>3. Cardinality(Held(ofile', leaving', opening', f)) = Cardinality(Held(ofile, leaving, opening, f)) + 1
          BY <3>2, <5>1, <5>2, HeldMore
        <5> QED BY <3>5, <4>2, <5>3, HeldFinite
      <4>3. CASE h = g
        <5>1. ~HeldAt(ofile, leaving, opening, g, p, fd1) /\ HeldAt(ofile', leaving', opening', g, p, fd1)
          BY <1>1, <3>2, <3>4, <3>5, FreeNotHeld, Consts DEF HeldAt, InUser
        <5>2. ASSUME NEW q \in Procs, NEW j \in Fds \cup {None}, <<q, j>> # <<p, fd1>>
              PROVE  HeldAt(ofile', leaving', opening', g, q, j) <=> HeldAt(ofile, leaving, opening, g, q, j)
          BY <1>1, <2>1, <3>2, <3>4, <5>2, Consts DEF HeldAt
        <5>3. Cardinality(Held(ofile', leaving', opening', g)) = Cardinality(Held(ofile, leaving, opening, g)) + 1
          BY <3>2, <5>1, <5>2, HeldMore
        <5> QED BY <3>5, <4>3, <5>3, HeldFinite
      <4>4. CASE h # f /\ h # g
        <5>1. ASSUME NEW q \in Procs, NEW j \in Fds \cup {None}
              PROVE  HeldAt(ofile', leaving', opening', h, q, j) <=> HeldAt(ofile, leaving, opening, h, q, j)
          BY <1>1, <2>1, <3>2, <3>4, <4>4, Consts DEF HeldAt
        <5>2. Held(ofile', leaving', opening', h) = Held(ofile, leaving, opening, h)
          BY <5>1, HeldSame
        <5> QED BY <3>5, <4>1, <4>4, <5>2, HeldFinite
      <4> QED BY <4>2, <4>3, <4>4
    <3>7. RefCounts'
      BY <3>3, <3>6, CountsNext
    <3>8. OtherTypes' /\ Gone'
      BY <1>1, <3>4 DEF Inv, OtherTypes, Gone, InUser
    <3> QED BY <3>3, <3>7, <3>8 DEF Inv
  <2> QED BY <2>2, <2>3, <2>4
<1> QED BY <1>3, <1>4

\* Counts of several files change, none to or from zero.
LEMMA RecountAll ==
  ASSUME NEW t, Sound(t), NEW u \in Tables,
         u.reading = t.reading, u.writing = t.writing, u.pages = t.pages, u.irefs = t.irefs,
         \A f \in Files : /\ u.file[f].kind = t.file[f].kind /\ u.file[f].pipe = t.file[f].pipe
                          /\ t.file[f].ref = 0 => u.file[f] = t.file[f]
                          /\ t.file[f].ref # 0 => u.file[f].ref # 0
  PROVE  Sound(u)
<1>1. Entries(u)
  BY DEF Sound, Entries
<1>2. Ends(u)
  BY DEF Sound, Ends, IsEnd
<1>3. InodeFiles(u) = InodeFiles(t)
  BY DEF InodeFiles
<1> QED BY <1>1, <1>2, <1>3 DEF Sound, Inodes

\* sys_fork: the child's descriptors are counted, file by file.
LEMMA ForkStep ==
  ASSUME Inv, NEW p \in Procs, NEW q \in Procs, SysFork(p, q)
  PROVE  Inv'
<1> DEFINE S(f) == {fd \in Fds : ofile[p][fd] = f}
           k(f) == Cardinality(S(f))
           tf == [f \in Files |-> FileDup(table, f, k(f)).file[f]]
<1>1. /\ InUser(p) /\ q \notin live /\ live' = live \cup {q} /\ ofile' = [ofile EXCEPT ![q] = ofile[p]]
      /\ table' = [table EXCEPT !.file = tf]
      /\ UNCHANGED <<opening, leaving>>
  BY DEF SysFork
<1>2. ASSUME NEW f \in Files PROVE IsFiniteSet(S(f)) /\ k(f) \in Nat
  <2>1. S(f) \subseteq Fds
    OBVIOUS
  <2> QED BY <2>1, Consts, FS_Subset, FS_CardinalityType
<1>3. ASSUME NEW f \in Files, table.file[f].ref = 0 PROVE k(f) = 0
  <2>1. S(f) = {}
    BY <1>1, <1>3, FreeNotHeld, Consts DEF HeldAt, InUser
  <2> QED BY <2>1, FS_EmptySet
<1>4. table \in Tables
  BY DEF Inv, Sound
<1> HIDE DEF S
<1>5. ASSUME NEW f \in Files
      PROVE  /\ tf[f] \in FileRecs /\ tf[f].kind = table.file[f].kind /\ tf[f].pipe = table.file[f].pipe
             /\ table.file[f].ref = 0 => tf[f] = table.file[f]
             /\ table.file[f].ref # 0 => tf[f].ref # 0
             /\ tf[f].ref = table.file[f].ref + k(f)
  <2> DEFINE n == k(f)
  <2>1. n \in Nat /\ (table.file[f].ref = 0 => n = 0)
    BY <1>2, <1>3
  <2>2. table.file[f] \in FileRecs /\ table.file[f].ref \in Nat
    BY <1>4 DEF Tables, FileRecs
  <2>3. tf[f] = FileDup(table, f, n).file[f]
    OBVIOUS
  <2> HIDE DEF n, tf
  <2>4. tf[f] = [table.file[f] EXCEPT !.ref = IF @ < 1 THEN @ ELSE @ + n]
    BY <1>4, <2>3 DEF FileDup, Tables
  <2> QED BY <2>1, <2>2, <2>4 DEF FileRecs, n
<1>6. tf \in [Files -> FileRecs]
  BY <1>5
<1> HIDE DEF tf
<1>7. /\ table' \in Tables /\ table'.file = tf /\ table'.reading = table.reading
      /\ table'.writing = table.writing /\ table'.pages = table.pages /\ table'.irefs = table.irefs
  BY <1>1, <1>4, <1>6 DEF Tables
<1>8. Sound(table')
  BY <1>5, <1>7, RecountAll DEF Inv
<1>9. ASSUME NEW f \in Files
      PROVE  table'.file[f].ref - table.file[f].ref =
               Cardinality(Held(ofile', leaving', opening', f))
                 - Cardinality(Held(ofile, leaving, opening, f))
  <2>1. table'.file[f].ref = table.file[f].ref + k(f) /\ table.file[f].ref \in Nat
    BY <1>4, <1>5, <1>7 DEF Tables, FileRecs
  <2>2. \A j \in Fds \cup {None} : ~HeldAt(ofile, leaving, opening, f, q, j)
    BY <1>1, Consts DEF HeldAt, Inv, Gone
  <2>3. \A j \in Fds \cup {None} : HeldAt(ofile', leaving, opening, f, q, j) <=> j \in S(f)
    BY <1>1, Consts DEF HeldAt, Inv, Gone, OtherTypes, S
  <2>4. \A r \in Procs \ {q}, j \in Fds \cup {None} :
          HeldAt(ofile', leaving, opening, f, r, j) <=> HeldAt(ofile, leaving, opening, f, r, j)
    BY <1>1 DEF HeldAt, Inv, OtherTypes
  <2>5. S(f) \in SUBSET Fds
    BY DEF S
  <2>6. Cardinality(Held(ofile', leaving, opening, f)) = Cardinality(Held(ofile, leaving, opening, f)) + k(f)
    BY <2>2, <2>3, <2>4, <2>5, HeldFork
  <2>7. leaving' = leaving /\ opening' = opening
    BY <1>1
  <2> QED BY <1>2, <2>1, <2>6, <2>7, HeldFinite
<1>10. RefCounts'
  BY <1>8, <1>9, CountsNext
<1>11. OtherTypes' /\ Gone'
  BY <1>1 DEF Inv, OtherTypes, Gone, InUser
<1> QED BY <1>8, <1>10, <1>11 DEF Inv

\* Every step preserves the invariant.
LEMMA InvStep == Inv /\ [Next]_vars => Inv'
<1> SUFFICES ASSUME Inv, [Next]_vars PROVE Inv'
  OBVIOUS
<1>1. CASE UNCHANGED vars
  <2>1. RefCounts'
    BY <1>1, CountsSame DEF vars
  <2> QED BY <1>1, <2>1 DEF vars, Inv, OtherTypes, Gone
<1>2. ASSUME NEW p \in Procs, NEW page \in Pipes \cup {None}, SysPipe(p, page) PROVE Inv'
  BY <1>2, PipeStep
<1>3. ASSUME NEW p \in Procs, SysOpen(p) \/ OpenEnds(p) PROVE Inv'
  BY <1>3, OpenStep, OpenEndsStep
<1>4. ASSUME NEW p \in Procs, NEW fd \in Fds, SysDup(p, fd) \/ SysClose(p, fd) PROVE Inv'
  BY <1>4, DupStep, CloseStep
<1>5. ASSUME NEW p \in Procs, NEW q \in Procs, SysFork(p, q) PROVE Inv'
  BY <1>5, ForkStep
<1>6. ASSUME NEW p \in Procs, Exit(p) \/ Cleanup(p) PROVE Inv'
  BY <1>6, ExitStep, CleanupStep
<1> QED BY <1>1, <1>2, <1>3, <1>4, <1>5, <1>6 DEF Next

\* It holds at the start: the console, held by the first process.
LEMMA InvInit == Init => Inv
<1> SUFFICES ASSUME Init PROVE Inv
  OBVIOUS
<1>1. 1 \in Files /\ 1 \in Fds /\ Init0 \in Procs
  BY FileAssumption DEF FileAssumption, Files, Fds
<1>2. OtherTypes /\ Gone
  BY <1>1, Consts DEF Init, OtherTypes, Gone
<1>3. Console \in FileRecs /\ Console.ref = 1 /\ Console.kind = "console"
  BY DEF Console, FileRecs, Kinds
<1>4. /\ table.file = [f \in Files |-> IF f = 1 THEN Console ELSE Closed]
      /\ table.reading = {} /\ table.writing = {} /\ table.pages = {} /\ table.irefs = 0
  BY DEF Init
<1>5. table \in Tables
  <2>1. [f \in Files |-> IF f = 1 THEN Console ELSE Closed] \in [Files -> FileRecs]
    BY <1>3, Recs
  <2> HIDE DEF Closed, Console
  <2> QED BY <2>1 DEF Init, Tables
<1>6. \A f \in Files : (f = 1 => table.file[f] = Console) /\ (f # 1 => table.file[f] = Closed)
  BY <1>4
<1>7. Entries(table)
  BY <1>3, <1>6, Recs DEF Entries
<1>8. Ends(table)
  BY <1>3, <1>4, <1>6, Recs DEF Ends, IsEnd
<1>9. InodeFiles(table) = {}
  BY <1>3, <1>6, Recs DEF InodeFiles
<1>10. Inodes(table)
  BY <1>4, <1>9, FS_EmptySet DEF Inodes
<1>11. ASSUME NEW f \in Files PROVE table.file[f].ref = Cardinality(Holders(f))
  <2>1. CASE f = 1
    <3>1. Held(ofile, leaving, opening, f) = {<<Init0, 1>>}
      BY <1>1, <2>1, Consts DEF Init, Held, HeldAt, Places
    <3> QED BY <1>3, <1>6, <2>1, <3>1, HoldersHeld, FS_Singleton
  <2>2. CASE f # 1
    <3>1. Held(ofile, leaving, opening, f) = {}
      BY <1>1, <2>2, Consts DEF Init, Held, HeldAt, Places
    <3> QED BY <1>6, <2>2, <3>1, Recs, HoldersHeld, FS_EmptySet
  <2> QED BY <2>1, <2>2
<1> QED BY <1>2, <1>5, <1>7, <1>8, <1>10, <1>11 DEF Inv, Sound, RefCounts

\* The invariant of all behaviours.
LEMMA Invariance == Spec => []Inv
BY InvInit, InvStep, PTL DEF Spec

-----------------------------------------------------------------------------
(* The theorems *)

\* The file table, the descriptors and what a call has under way keep their types.
THEOREM TypeCorrect == Spec => []TypeOK
<1>1. Inv => TypeOK
  BY DEF Inv, OtherTypes, Sound, TypeOK
<1> QED BY <1>1, Invariance, PTL

\* f->ref is the number of holders of the file (filealloc, filedup and fileclose,
\* in pipe, open, dup, close, fork and exit, with the paths that undo half a call).
THEOREM ReferencesExact == Spec => []RefCounts
<1>1. Inv => RefCounts
  BY DEF Inv
<1> QED BY <1>1, Invariance, PTL

\* A pipe end is open iff some file is that end, and the pipe has its page as long
\* as one is (pipealloc, pipeclose).
THEOREM EndsExact == Spec => []PipeEnds
<1>1. Inv => PipeEnds
  BY DEF Inv, Sound, Ends, IsEnd, PipeEnds
<1> QED BY <1>1, Invariance, PTL

\* Each open file of an inode holds one reference to it (sys_open, fileclose).
THEOREM InodesHeld == Spec => []InodeRefs
<1>1. Inv => InodeRefs
  BY DEF Inv, Sound, Inodes, InodeFiles, InodeRefs
<1> QED BY <1>1, Invariance, PTL
=============================================================================
