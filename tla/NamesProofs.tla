---------------------------- MODULE NamesProofs ----------------------------
(***************************************************************************)
(* Proofs about Names, for every number of processes, inodes, names, paths *)
(* and calls.                                                              *)
(*                                                                         *)
(* The inductive invariant Inv has a part for the file system (Disk,       *)
(* References, Ledger) and one for each process (Uses, Fresh): what its    *)
(* place in a call says about the inodes, locks and names it has in hand.  *)
(* A step of p is followed operation by operation: Mid relates the file    *)
(* system in the middle of the step to what p has in hand there (the       *)
(* references R, the locks K, the links L it still has to account for).    *)
(*                                                                         *)
(* TreeInv is for the climb of rename.  That there is no cycle is not      *)
(* inductive: the step that gives a directory a second parent is the last  *)
(* of many, and what excludes a cycle there is what the climb saw before.  *)
(* Climbs keeps it as a set of directories that is closed upwards; the     *)
(* steps of others may only shrink the tree or add to it where the set     *)
(* stays closed, since rename_lock keeps other renames out.                *)
(***************************************************************************)
EXTENDS Names, TLAPS, FiniteSetTheorems, WellFoundedInduction

Ptrs == Inums \cup {NoInode}

Types == {"free", "file", "dev", "dir"}

Slots == [ref : Nat, valid : BOOLEAN, lock : Procs \cup {NoProc}, type : Types, nlink : Int]

Fs == [disk : [Inums -> [type : Types, nlink : Int]], dirs : [Inums -> [Elems -> Ptrs]],
       up : [Inums -> Ptrs], ic : [Inums -> Slots]]

\* The inodes of the table that are referred to and read from the disk.
Live(f) == {i \in Inums : f.ic[i].ref > 0 /\ f.ic[i].valid}

-----------------------------------------------------------------------------
(* What the place of a process in its call says *)

Walks == {"found", "source", "create", "unlink", "dirlink", "cycle", "old"}

Making   == {"ialloc", "count", "dots", "entry"}
Removing == {"victim", "clear", "uncount", "drop"}
Moving   == {"target", "replace", "replaced", "relink", "recount", "olddir", "dotdot"}

PCs == Walks \cup Making \cup Removing \cup Moving
       \cup {"user", "walk", "open", "exists", "unref", "lock"}

Locals == [pc : PCs, call : {"none", "creat", "mkdir", "mknod", "link", "unlink", "rename"},
           old : Seq(Elems), new : Seq(Elems), at : Ptrs, rest : Seq(Elems),
           parent : BOOLEAN, then : Walks \cup {"none"},
           ip : Ptrs, target : Ptrs, newdir : Ptrs]

\* Where the walk leads, or the place itself.
Stage(r) == IF r.pc = "walk" THEN r.then ELSE r.pc

\* The stages of a call, its arguments, and which inodes it refers to at each.
Shape(r) ==
  /\ r.pc = "walk" => r.then \in Walks /\ (r.parent <=> r.then \notin {"found", "source"})
  /\ r.at = NoInode <=> r.pc \in {"user", "lock", "unref", "dotdot"}
  /\ r.ip = NoInode <=> Stage(r) \in {"user", "lock", "found", "source", "create", "exists",
                                       "unlink", "open"}
  /\ r.target # NoInode => r.pc \in {"cycle", "replace", "replaced"}
  /\ r.pc \in {"replace", "replaced"} => r.target # NoInode
  /\ r.rest = <<>> => r.pc \in {"user", "lock", "found", "source", "exists", "open", "unref",
                                "dotdot"}
  /\ r.pc = "walk" /\ r.then = "found" => r.old # <<>>
  /\ r.call = "none" <=> r.pc = "user"
  /\ Stage(r) = "found" => r.call = "creat"
  /\ Stage(r) \in {"create", "exists"} \cup Making => r.call \in {"creat", "mkdir", "mknod"}
  /\ r.pc \in {"count", "dots"} => r.call = "mkdir"
  /\ Stage(r) \in {"source", "unref"} => r.call \in {"link", "rename"}
  /\ Stage(r) = "dirlink" => r.call = "link"
  /\ Stage(r) \in {"lock", "cycle", "old"} \cup Moving => r.call = "rename"

\* The inodes whose lock the process has.
LockAt == Making \cup Removing \cup {"replace", "replaced", "relink", "recount", "olddir"}
LockIp == {"count", "dots", "entry", "clear", "uncount", "drop"}

\* Where at is known to be a directory.
Parents == LockAt \cup {"create", "unlink", "dirlink", "cycle", "target", "old"}

Locks(r) ==
  {i \in Inums : \/ i = r.at /\ r.pc \in LockAt
                 \/ i = r.ip /\ r.pc \in LockIp
                 \/ i = r.target /\ r.pc = "replaced"}

One(i, j) == IF i = j THEN 1 ELSE 0

\* The references that the process has.
Own(r) == [i \in Inums |-> One(i, r.at) + One(i, r.ip) + One(i, r.target)]

\* The links that are counted for the process and not for a name: the one of a new
\* inode, of a name just removed, of a rename or link under way; the one that mkdir
\* gives its parent; and the one that rename still has to give the new parent.
IpLink(r) ==
  IF Stage(r) \in {"count", "dots", "entry", "uncount", "drop", "dirlink", "unref", "cycle",
                   "target", "replace", "replaced", "relink", "olddir", "dotdot"}
  THEN r.ip ELSE NoInode
AtLink(r) ==
  IF r.pc \in {"dots", "uncount", "olddir"} \/ (r.pc = "entry" /\ r.call = "mkdir")
  THEN r.at ELSE NoInode
TargetLink(r) == IF r.pc = "replaced" THEN r.target ELSE NoInode
Missing(r) == IF r.pc = "recount" THEN r.at ELSE NoInode
Claims(r) ==
  [i \in Inums |-> One(i, IpLink(r)) + One(i, AtLink(r)) + One(i, TargetLink(r))
                   - One(i, Missing(r))]

Known == {"count", "dots", "entry", "clear", "uncount", "drop", "dirlink", "unref", "cycle", "old"}
         \cup Moving

\* What a process at r relies on in the file system f.
Relies(r, f) ==
  /\ Shape(r)
  /\ Stage(r) \in Known => r.ip \in Live(f)
  /\ r.at # NoInode => f.disk[r.at].type # "free"
  /\ r.ip # NoInode => f.disk[r.ip].type # "free"
  /\ r.target # NoInode /\ r.pc # "cycle" => f.disk[r.target].type # "free"
  /\ r.pc = "cycle" /\ r.target # NoInode => f.disk[r.ip].type = "dir"
  /\ r.pc \in Making => f.disk[r.ip].type = TypeOf(r.call)
  /\ Stage(r) = "dirlink" => f.disk[r.ip].type # "dir"
  /\ r.pc \in LockIp \cup Making => r.at # r.ip
  /\ r.pc = "replaced" => r.at # r.target
  /\ r.pc \in Parents => f.disk[r.at].type = "dir"
  /\ r.pc \in {"victim", "clear"} => f.dirs[r.at][Head(r.rest)] = r.ip
  /\ r.pc = "replace" => f.dirs[r.at][Head(r.rest)] = r.target
  /\ r.pc \in Making \cup {"replaced", "relink"} => f.dirs[r.at][Head(r.rest)] = NoInode
  /\ r.pc = "recount" => f.dirs[r.at][Head(r.rest)] = r.ip /\ f.disk[r.ip].type = "dir"

\* The locks it has, and the rest.
Uses(p, r, f) ==
  /\ \A i \in Inums : f.ic[i].lock = p <=> i \in Locks(r)
  /\ Locks(r) \subseteq Live(f)
  /\ Relies(r, f)

-----------------------------------------------------------------------------
(* The file system *)

NamesIn(f, i) == {dn \in Inums \X Elems : f.dirs[dn[1]][dn[2]] = i}
DirsOf(f, d) == {n \in Elems : f.dirs[d][n] # NoInode /\ f.disk[f.dirs[d][n]].type = "dir"}

\* What was read of an inode is what is on the disk; a free inode is empty, and
\* nobody has read it.
Disk(f) ==
  /\ f \in Fs
  /\ \A i \in Live(f) : f.ic[i].type = f.disk[i].type /\ f.ic[i].nlink = f.disk[i].nlink
  /\ f.disk[ROOTINO].type = "dir"
  /\ \A i \in Inums : f.disk[i].type = "free" =>
       f.disk[i].nlink = 0 /\ f.dirs[i] = Empty /\ i \notin Live(f)

\* The references of the processes in P, and the links that are counted for them, if
\* pr is where the processes are.
Boot(i) == One(i, ROOTINO)
RefsBy(pr, P, i) == Boot(i) + Cardinality({q \in P : pr[q].at = i})
                            + Cardinality({q \in P : pr[q].ip = i})
                            + Cardinality({q \in P : pr[q].target = i})
LinksBy(pr, P, i) == Cardinality({q \in P : IpLink(pr[q]) = i})
                     + Cardinality({q \in P : AtLink(pr[q]) = i})
                     + Cardinality({q \in P : TargetLink(pr[q]) = i})
                     - Cardinality({q \in P : Missing(pr[q]) = i})
Refs(P, i) == RefsBy(proc, P, i)
Links(P, i) == LinksBy(proc, P, i)

References == \A i \in Inums : fs.ic[i].ref = Refs(Procs, i)

\* The count of an inode covers its names, the .. entries of the directories in it,
\* and the links of the processes.
Ledger ==
  \A i \in Inums : fs.disk[i].nlink >= Cardinality(NamesIn(fs, i)) + Cardinality(DirsOf(fs, i))
                                       + Links(Procs, i)

\* An inode that a process makes is not known to the others: it has no name yet.  Only
\* the climb of rename, which follows stale .. entries too, may have come across it.
Fresh(p) ==
  proc[p].pc \in Making =>
    /\ proc[p].ip # ROOTINO
    /\ \A d \in Inums, n \in Elems : fs.dirs[d][n] # proc[p].ip
    /\ \A q \in Procs \ {p} :
         /\ proc[q].at # proc[p].ip /\ proc[q].ip # proc[p].ip
         /\ proc[q].target = proc[p].ip => proc[q].pc = "cycle"

Renaming ==
  \A p \in Procs : rename_lock = p <=> proc[p].call = "rename" /\ proc[p].pc # "lock"

Inv ==
  /\ Disk(fs)
  /\ proc \in [Procs -> Locals]
  /\ rename_lock \in Procs \cup {NoProc}
  /\ calls \in 0 .. MaxCalls
  /\ \A p \in Procs : Uses(p, proc[p], fs) /\ Fresh(p)
  /\ References
  /\ Ledger
  /\ Renaming

-----------------------------------------------------------------------------
(* In the middle of a step of p *)

Others(p) == Procs \ {p}

\* Nothing that q relies on changes between f and g.
Keeps(q, f, g) ==
  /\ \A i \in Inums : g.ic[i].lock = q <=> f.ic[i].lock = q
  /\ \A i \in Inums : f.ic[i].lock = q => g.dirs[i] = f.dirs[i]
  /\ \A i \in Inums : i \in {proc[q].at, proc[q].ip, proc[q].target} =>
       /\ i \in Live(f) => i \in Live(g)
       /\ f.disk[i].type # "free" => g.disk[i].type = f.disk[i].type
  /\ proc[q].pc \in Making =>
       \A d \in Inums, n \in Elems : g.dirs[d][n] = proc[q].ip => f.dirs[d][n] = proc[q].ip

\* The names and directories that the count of an inode has to cover.
Covers(f, i) == Cardinality(NamesIn(f, i)) + Cardinality(DirsOf(f, i))

\* f is the file system, and R, K and L are the references, locks and links of p.
Mid(p, f, R, K, L) ==
  /\ Disk(f)
  /\ R \in [Inums -> Nat] /\ L \in [Inums -> Int] /\ K \subseteq Inums
  /\ \A i \in Inums : f.ic[i].ref = Refs(Others(p), i) + R[i]
  /\ \A i \in Inums : f.ic[i].lock = p <=> i \in K
  /\ \A i \in K : R[i] > 0 /\ i \in Live(f)
  /\ \A q \in Others(p) : Keeps(q, fs, f)
  /\ \A i \in Inums : f.disk[i].nlink >= Covers(f, i) + Links(Others(p), i) + L[i]

-----------------------------------------------------------------------------
(* Constants and counts *)

\* What the proofs use of the constants.
LEMMA Consts ==
  /\ IsFiniteSet(Procs) /\ IsFiniteSet(Elems) /\ IsFiniteSet(Inums)
  /\ NoProc \notin Procs /\ ROOTINO \in Inums /\ NoInode \notin Inums
  /\ Inums \subseteq Nat /\ IsFiniteSet(Inums \X Elems)
<1>1. NINODES \in Nat /\ NINODES # 0 /\ Inums = 1..NINODES
  BY NamesAssumption DEF NamesAssumption, Inums
<1>2. IsFiniteSet(Inums)
  BY <1>1, FS_Interval
<1>3. IsFiniteSet(Procs) /\ IsFiniteSet(Elems) /\ NoProc \notin Procs
  BY NamesAssumption DEF NamesAssumption
<1>4. IsFiniteSet(Inums \X Elems)
  BY <1>2, <1>3, FS_Product
<1>5. ROOTINO \in Inums /\ NoInode \notin Inums /\ Inums \subseteq Nat
  BY <1>1 DEF ROOTINO, NoInode
<1> QED BY <1>2, <1>3, <1>4, <1>5

\* Processes can be counted.
LEMMA Counted ==
  ASSUME NEW S \in SUBSET Procs
  PROVE  IsFiniteSet(S) /\ Cardinality(S) \in Nat /\ (S # {} => Cardinality(S) >= 1)
<1>1. IsFiniteSet(S)
  BY Consts, FS_Subset
<1>2. Cardinality(S) \in Nat /\ (Cardinality(S) = 0 <=> S = {})
  BY <1>1, FS_CardinalityType, FS_EmptySet
<1> QED BY <1>1, <1>2

\* One process apart from the others.
LEMMA CountApart ==
  ASSUME NEW p \in Procs, NEW c, NEW i
  PROVE  Cardinality({q \in Procs : c[q] = i})
           = Cardinality({q \in Others(p) : c[q] = i}) + One(c[p], i)
<1> DEFINE S == {q \in Procs : c[q] = i}
           T == {q \in Others(p) : c[q] = i}
<1>0. T \in SUBSET Procs
  BY DEF Others
<1>1. IsFiniteSet(T) /\ Cardinality(T) \in Nat
  BY <1>0, Counted
<1>2. CASE c[p] = i
  <2>1. S = T \cup {p} /\ p \notin T
    BY <1>2 DEF Others
  <2>2. Cardinality(S) = Cardinality(T) + 1
    BY <1>1, <2>1, FS_AddElement
  <2> QED BY <1>2, <2>2 DEF One
<1>3. CASE c[p] # i
  <2>1. S = T
    BY <1>3 DEF Others
  <2> QED BY <1>1, <1>3, <2>1 DEF One
<1> QED BY <1>2, <1>3

\* The references and links of all processes, with those of p apart.
LEMMA RefsByApart ==
  ASSUME NEW pr \in [Procs -> Locals], NEW p \in Procs, NEW i \in Inums
  PROVE  /\ RefsBy(pr, Others(p), i) \in Nat /\ LinksBy(pr, Others(p), i) \in Int
         /\ RefsBy(pr, Procs, i) = RefsBy(pr, Others(p), i) + Own(pr[p])[i]
         /\ LinksBy(pr, Procs, i) = LinksBy(pr, Others(p), i) + Claims(pr[p])[i]
<1> DEFINE a == [q \in Procs |-> pr[q].at]
           b == [q \in Procs |-> pr[q].ip]
           c == [q \in Procs |-> pr[q].target]
           u == [q \in Procs |-> IpLink(pr[q])]
           v == [q \in Procs |-> AtLink(pr[q])]
           w == [q \in Procs |-> TargetLink(pr[q])]
           z == [q \in Procs |-> Missing(pr[q])]
           Of(P, g) == {q \in P : g[q] = i}
<1>0. Others(p) \subseteq Procs /\ Others(p) \in SUBSET Procs /\ Procs \in SUBSET Procs
  BY DEF Others
<1>1. ASSUME NEW P \in SUBSET Procs
      PROVE /\ {q \in P : pr[q].at = i} = Of(P, a)
            /\ {q \in P : pr[q].ip = i} = Of(P, b)
            /\ {q \in P : pr[q].target = i} = Of(P, c)
            /\ {q \in P : IpLink(pr[q]) = i} = Of(P, u)
            /\ {q \in P : AtLink(pr[q]) = i} = Of(P, v)
            /\ {q \in P : TargetLink(pr[q]) = i} = Of(P, w)
            /\ {q \in P : Missing(pr[q]) = i} = Of(P, z)
  OBVIOUS
<1>2. ASSUME NEW P \in SUBSET Procs
      PROVE  /\ RefsBy(pr, P, i) = Boot(i) + Cardinality(Of(P, a)) + Cardinality(Of(P, b))
                             + Cardinality(Of(P, c))
             /\ LinksBy(pr, P, i) = Cardinality(Of(P, u)) + Cardinality(Of(P, v))
                              + Cardinality(Of(P, w)) - Cardinality(Of(P, z))
  BY <1>1 DEF RefsBy, LinksBy
<1>3. ASSUME NEW g PROVE /\ Cardinality(Of(Others(p), g)) \in Nat
                         /\ Cardinality(Of(Procs, g)) = Cardinality(Of(Others(p), g)) + One(g[p], i)
  <2>1. Of(Others(p), g) \in SUBSET Procs
    BY <1>0
  <2>2. Cardinality(Of(Others(p), g)) \in Nat
    BY <2>1, Counted
  <2>3. Cardinality(Of(Procs, g)) = Cardinality(Of(Others(p), g)) + One(g[p], i)
    BY CountApart
  <2> QED BY <2>2, <2>3
<1>4. /\ a[p] = pr[p].at /\ b[p] = pr[p].ip /\ c[p] = pr[p].target
      /\ u[p] = IpLink(pr[p]) /\ v[p] = AtLink(pr[p]) /\ w[p] = TargetLink(pr[p])
      /\ z[p] = Missing(pr[p])
  OBVIOUS
<1>5. /\ Own(pr[p])[i] = One(i, pr[p].at) + One(i, pr[p].ip) + One(i, pr[p].target)
      /\ Claims(pr[p])[i] = One(i, IpLink(pr[p])) + One(i, AtLink(pr[p]))
                              + One(i, TargetLink(pr[p])) - One(i, Missing(pr[p]))
  BY DEF Own, Claims
<1>6. \A x : One(i, x) = One(x, i) /\ One(x, i) \in {0, 1}
  BY DEF One
<1>7. Boot(i) \in {0, 1}
  BY DEF Boot, One
<1> HIDE DEF a, b, c, u, v, w, z, Of
<1>8. /\ RefsBy(pr, Others(p), i) = Boot(i) + Cardinality(Of(Others(p), a)) + Cardinality(Of(Others(p), b))
                             + Cardinality(Of(Others(p), c))
      /\ LinksBy(pr, Others(p), i) = Cardinality(Of(Others(p), u)) + Cardinality(Of(Others(p), v))
                              + Cardinality(Of(Others(p), w)) - Cardinality(Of(Others(p), z))
      /\ RefsBy(pr, Procs, i) = Boot(i) + Cardinality(Of(Procs, a)) + Cardinality(Of(Procs, b))
                             + Cardinality(Of(Procs, c))
      /\ LinksBy(pr, Procs, i) = Cardinality(Of(Procs, u)) + Cardinality(Of(Procs, v))
                              + Cardinality(Of(Procs, w)) - Cardinality(Of(Procs, z))
  BY <1>0, <1>2
<1>9. RefsBy(pr, Others(p), i) \in Nat /\ LinksBy(pr, Others(p), i) \in Int
  BY <1>3, <1>7, <1>8
<1>10. RefsBy(pr, Procs, i) = RefsBy(pr, Others(p), i) + Own(pr[p])[i]
  BY <1>3, <1>4, <1>5, <1>6, <1>7, <1>8
<1>11. LinksBy(pr, Procs, i) = LinksBy(pr, Others(p), i) + Claims(pr[p])[i]
  <2>1. /\ Cardinality(Of(Procs, u)) = Cardinality(Of(Others(p), u)) + One(u[p], i)
        /\ Cardinality(Of(Procs, v)) = Cardinality(Of(Others(p), v)) + One(v[p], i)
        /\ Cardinality(Of(Procs, w)) = Cardinality(Of(Others(p), w)) + One(w[p], i)
        /\ Cardinality(Of(Procs, z)) = Cardinality(Of(Others(p), z)) + One(z[p], i)
        /\ Cardinality(Of(Others(p), u)) \in Nat /\ Cardinality(Of(Others(p), v)) \in Nat
        /\ Cardinality(Of(Others(p), w)) \in Nat /\ Cardinality(Of(Others(p), z)) \in Nat
    BY <1>3
  <2> QED BY <1>4, <1>5, <1>6, <1>8, <2>1
<1> QED BY <1>9, <1>10, <1>11

\* The same where the processes are now.
LEMMA RefsApart ==
  ASSUME proc \in [Procs -> Locals], NEW p \in Procs, NEW i \in Inums
  PROVE  /\ Refs(Others(p), i) \in Nat /\ Links(Others(p), i) \in Int
         /\ Refs(Procs, i) = Refs(Others(p), i) + Own(proc[p])[i]
         /\ Links(Procs, i) = Links(Others(p), i) + Claims(proc[p])[i]
BY RefsByApart DEF Refs, Links

\* An inode that another process uses has a reference of that process, and the root
\* has one of the kernel; without references there are no links to account for.
LEMMA RefsUsed ==
  ASSUME proc \in [Procs -> Locals], NEW p \in Procs, NEW i \in Inums
  PROVE  /\ \A q \in Others(p) : i \in {proc[q].at, proc[q].ip, proc[q].target} =>
              Refs(Others(p), i) >= 1
         /\ i = ROOTINO => Refs(Others(p), i) >= 1
         /\ Refs(Others(p), i) = 0 => Links(Others(p), i) = 0
<1> DEFINE P == Others(p)
           A == {q \in P : proc[q].at = i}
           B == {q \in P : proc[q].ip = i}
           C == {q \in P : proc[q].target = i}
<1>0. P \in SUBSET Procs
  BY DEF Others
<1>1. A \in SUBSET Procs /\ B \in SUBSET Procs /\ C \in SUBSET Procs
  BY <1>0
<1>2. Cardinality(A) \in Nat /\ (A # {} => Cardinality(A) >= 1)
  BY <1>1, Counted
<1>3. Cardinality(B) \in Nat /\ (B # {} => Cardinality(B) >= 1)
  BY <1>1, Counted
<1>4. Cardinality(C) \in Nat /\ (C # {} => Cardinality(C) >= 1)
  BY <1>1, Counted
<1>5. Refs(P, i) = Boot(i) + Cardinality(A) + Cardinality(B) + Cardinality(C)
  BY DEF Refs, RefsBy
<1>6. Boot(i) \in {0, 1} /\ (i = ROOTINO => Boot(i) = 1)
  BY DEF Boot, One
<1>7. ASSUME NEW q \in P, i \in {proc[q].at, proc[q].ip, proc[q].target}
      PROVE  Refs(P, i) >= 1
  <2>1. A # {} \/ B # {} \/ C # {}
    BY <1>7
  <2> HIDE DEF A, B, C
  <2> QED BY <1>2, <1>3, <1>4, <1>5, <1>6, <2>1
<1>8. ASSUME Refs(P, i) = 0 PROVE Links(P, i) = 0
  <2>1. ASSUME NEW q \in P PROVE i \notin {proc[q].at, proc[q].ip, proc[q].target}
    BY <1>7, <1>8, <2>1
  <2>2. i # NoInode
    BY Consts
  <2>3. /\ {q \in P : IpLink(proc[q]) = i} = {} /\ {q \in P : AtLink(proc[q]) = i} = {}
        /\ {q \in P : TargetLink(proc[q]) = i} = {} /\ {q \in P : Missing(proc[q]) = i} = {}
    BY <2>1, <2>2 DEF IpLink, AtLink, TargetLink, Missing
  <2>4. Cardinality({}) = 0
    BY FS_EmptySet
  <2> QED BY <2>3, <2>4 DEF Links, LinksBy
<1>9. i = ROOTINO => Refs(P, i) >= 1
  <2> HIDE DEF A, B, C
  <2> QED BY <1>2, <1>3, <1>4, <1>5, <1>6
<1> QED BY <1>7, <1>8, <1>9

-----------------------------------------------------------------------------
(* What the operations of fs.c change *)

\* fs_iget
LEMMA IgetEffect ==
  ASSUME NEW f \in Fs, NEW i \in Inums
  PROVE  LET g == Iget(f, i) IN
         /\ g \in Fs /\ g.disk = f.disk /\ g.dirs = f.dirs /\ g.up = f.up
         /\ \A j \in Inums : j # i => g.ic[j] = f.ic[j]
         /\ g.ic[i] = IF f.ic[i].ref > 0 THEN [f.ic[i] EXCEPT !.ref = @ + 1] ELSE Slot(1)
<1>1. f.ic \in [Inums -> Slots] /\ f.ic[i] \in Slots /\ f.ic[i].ref \in Nat
  BY DEF Fs, Slots
<1>2. Slot(1) \in Slots
  BY DEF Slot, Slots, Types
<1>3. [f.ic[i] EXCEPT !.ref = @ + 1] \in Slots
  BY <1>1 DEF Slots
<1>4. CASE f.ic[i].ref > 0
  <2>1. Iget(f, i) = [f EXCEPT !.ic[i].ref = @ + 1]
    BY <1>4 DEF Iget
  <2> DEFINE g == Iget(f, i)
             c == [f.ic[i] EXCEPT !.ref = @ + 1]
  <2>2. g.ic = [f.ic EXCEPT ![i] = c] /\ g.disk = f.disk /\ g.dirs = f.dirs /\ g.up = f.up
        /\ g = [disk |-> g.disk, dirs |-> g.dirs, up |-> g.up, ic |-> g.ic]
    BY <2>1 DEF Fs
  <2>3. c \in Slots
    BY <1>3
  <2> HIDE DEF g, c
  <2>4. g.ic \in [Inums -> Slots] /\ g.ic[i] = c /\ \A j \in Inums : j # i => g.ic[j] = f.ic[j]
    BY <1>1, <2>2, <2>3
  <2>5. g \in Fs
    BY <2>2, <2>4 DEF Fs
  <2> QED BY <1>4, <2>2, <2>4, <2>5 DEF g, c
<1>5. CASE ~(f.ic[i].ref > 0)
  <2>1. Iget(f, i) = [f EXCEPT !.ic[i] = Slot(1)]
    BY <1>5 DEF Iget
  <2> DEFINE g == Iget(f, i)
             c == Slot(1)
  <2>2. g.ic = [f.ic EXCEPT ![i] = c] /\ g.disk = f.disk /\ g.dirs = f.dirs /\ g.up = f.up
        /\ g = [disk |-> g.disk, dirs |-> g.dirs, up |-> g.up, ic |-> g.ic]
    BY <2>1 DEF Fs
  <2>3. c \in Slots
    BY <1>2
  <2> HIDE DEF g, c
  <2>4. g.ic \in [Inums -> Slots] /\ g.ic[i] = c /\ \A j \in Inums : j # i => g.ic[j] = f.ic[j]
    BY <1>1, <2>2, <2>3
  <2>5. g \in Fs
    BY <2>2, <2>4 DEF Fs
  <2> QED BY <1>5, <2>2, <2>4, <2>5 DEF g, c
<1> QED BY <1>4, <1>5

\* fs_ilock: the inode is read, unless it has been.
LEMMA IlockEffect ==
  ASSUME NEW f \in Fs, NEW i \in Inums, NEW p \in Procs
  PROVE  LET g == Ilock(f, p, i) IN
         /\ g \in Fs /\ g.disk = f.disk /\ g.dirs = f.dirs /\ g.up = f.up
         /\ \A j \in Inums : j # i => g.ic[j] = f.ic[j]
         /\ g.ic[i].ref = f.ic[i].ref /\ g.ic[i].lock = p /\ g.ic[i].valid = TRUE
         /\ f.ic[i].valid => g.ic[i].type = f.ic[i].type /\ g.ic[i].nlink = f.ic[i].nlink
         /\ ~f.ic[i].valid => g.ic[i].type = f.disk[i].type /\ g.ic[i].nlink = f.disk[i].nlink
<1> DEFINE s == IF f.ic[i].valid THEN [f.ic[i] EXCEPT !.lock = p]
                ELSE [f.ic[i] EXCEPT !.lock = p, !.valid = TRUE,
                                     !.type = f.disk[i].type, !.nlink = f.disk[i].nlink]
<1>1. f.ic \in [Inums -> Slots] /\ f.ic[i] \in Slots /\ f.disk[i] \in [type : Types, nlink : Int]
  BY DEF Fs
<1>2. /\ s \in Slots /\ s.ref = f.ic[i].ref /\ s.lock = p /\ s.valid = TRUE
      /\ f.ic[i].valid => s.type = f.ic[i].type /\ s.nlink = f.ic[i].nlink
      /\ ~f.ic[i].valid => s.type = f.disk[i].type /\ s.nlink = f.disk[i].nlink
  BY <1>1 DEF Slots
<1>3. Ilock(f, p, i) = [f EXCEPT !.ic[i] = s]
  BY DEF Ilock
<1> HIDE DEF s
<1> DEFINE g == Ilock(f, p, i)
<1>4. /\ g.ic = [f.ic EXCEPT ![i] = s] /\ g.disk = f.disk /\ g.dirs = f.dirs /\ g.up = f.up
      /\ g = [disk |-> g.disk, dirs |-> g.dirs, up |-> g.up, ic |-> g.ic]
  BY <1>3 DEF Fs
<1>5. g.ic[i] = s /\ \A j \in Inums : j # i => g.ic[j] = f.ic[j]
  BY <1>1, <1>4
<1>6. g.ic \in [Inums -> Slots]
  BY <1>1, <1>2, <1>4
<1> HIDE DEF g
<1>7. g \in Fs
  BY <1>4, <1>6 DEF Fs
<1>8. g.ic[i].ref = f.ic[i].ref /\ g.ic[i].lock = p /\ g.ic[i].valid = TRUE
  BY <1>2, <1>5
<1>9. f.ic[i].valid => g.ic[i].type = f.ic[i].type /\ g.ic[i].nlink = f.ic[i].nlink
  BY <1>2, <1>5
<1>10. ~f.ic[i].valid => g.ic[i].type = f.disk[i].type /\ g.ic[i].nlink = f.disk[i].nlink
  BY <1>2, <1>5
<1> QED BY <1>4, <1>5, <1>7, <1>8, <1>9, <1>10 DEF g

\* fs_iunlock
LEMMA IunlockEffect ==
  ASSUME NEW f \in Fs, NEW i \in Inums
  PROVE  LET g == Iunlock(f, i) IN
         /\ g \in Fs /\ g.disk = f.disk /\ g.dirs = f.dirs /\ g.up = f.up
         /\ \A j \in Inums : j # i => g.ic[j] = f.ic[j]
         /\ g.ic[i] = [f.ic[i] EXCEPT !.lock = NoProc]
<1>1. f.ic \in [Inums -> Slots] /\ f.ic[i] \in Slots
  BY DEF Fs
<1>2. [f.ic[i] EXCEPT !.lock = NoProc] \in Slots
  BY <1>1 DEF Slots
<1> QED BY <1>1, <1>2 DEF Fs, Iunlock

\* fs_iput
LEMMA IputEffect ==
  ASSUME NEW f \in Fs, NEW i \in Inums, f.ic[i].ref > 0
  PROVE  LET g == Iput(f, i) IN
         /\ g \in Fs
         /\ \A j \in Inums : j # i =>
              /\ g.ic[j] = f.ic[j] /\ g.disk[j] = f.disk[j] /\ g.dirs[j] = f.dirs[j]
              /\ g.up[j] = f.up[j]
         /\ LastHolder(f, i) => /\ g.ic[i] = Slot(0) /\ g.disk[i] = Dinode("free", 0)
                                /\ g.dirs[i] = Empty
         /\ ~LastHolder(f, i) => /\ g.ic[i] = [f.ic[i] EXCEPT !.ref = @ - 1]
                                 /\ g.disk = f.disk /\ g.dirs = f.dirs /\ g.up = f.up
<1>1. /\ f.ic \in [Inums -> Slots] /\ f.ic[i] \in Slots /\ f.ic[i].ref \in Nat
      /\ f.disk \in [Inums -> [type : Types, nlink : Int]] /\ f.dirs \in [Inums -> [Elems -> Ptrs]]
      /\ f.up \in [Inums -> Ptrs]
  BY DEF Fs, Slots
<1>2. Slot(0) \in Slots /\ Dinode("free", 0) \in [type : Types, nlink : Int] /\ Empty \in [Elems -> Ptrs]
      /\ NoInode \in Ptrs
  BY DEF Slot, Slots, Types, Dinode, Empty, Ptrs
<1>3. [f.ic[i] EXCEPT !.ref = @ - 1] \in Slots
  BY <1>1, SMTT(30) DEF Slots
<1>4. CASE LastHolder(f, i)
  <2>1. Iput(f, i) = [f EXCEPT !.disk[i] = Dinode("free", 0), !.dirs[i] = Empty, !.up[i] = NoInode,
                               !.ic[i] = Slot(0)]
    BY <1>4 DEF Iput
  <2> DEFINE g == Iput(f, i)
  <2>2. /\ g.ic = [f.ic EXCEPT ![i] = Slot(0)] /\ g.disk = [f.disk EXCEPT ![i] = Dinode("free", 0)]
        /\ g.dirs = [f.dirs EXCEPT ![i] = Empty] /\ g.up = [f.up EXCEPT ![i] = NoInode]
        /\ g = [disk |-> g.disk, dirs |-> g.dirs, up |-> g.up, ic |-> g.ic]
    BY <2>1 DEF Fs
  <2> HIDE DEF g
  <2>3. /\ g.ic \in [Inums -> Slots] /\ g.disk \in [Inums -> [type : Types, nlink : Int]]
        /\ g.dirs \in [Inums -> [Elems -> Ptrs]] /\ g.up \in [Inums -> Ptrs]
    BY <1>1, <1>2, <2>2
  <2>4. g \in Fs
    BY <2>2, <2>3 DEF Fs
  <2>5. \A j \in Inums : j # i => g.ic[j] = f.ic[j] /\ g.disk[j] = f.disk[j]
                                 /\ g.dirs[j] = f.dirs[j] /\ g.up[j] = f.up[j]
    BY <1>1, <2>2
  <2>6. g.ic[i] = Slot(0) /\ g.disk[i] = Dinode("free", 0) /\ g.dirs[i] = Empty
    BY <1>1, <2>2
  <2> QED BY <1>4, <2>4, <2>5, <2>6 DEF g
<1>5. CASE ~LastHolder(f, i)
  <2>1. Iput(f, i) = [f EXCEPT !.ic[i].ref = @ - 1]
    BY <1>5 DEF Iput
  <2> DEFINE g == Iput(f, i)
             c == [f.ic[i] EXCEPT !.ref = @ - 1]
  <2>2. g.ic = [f.ic EXCEPT ![i] = c] /\ g.disk = f.disk /\ g.dirs = f.dirs /\ g.up = f.up
        /\ g = [disk |-> g.disk, dirs |-> g.dirs, up |-> g.up, ic |-> g.ic]
    BY <2>1 DEF Fs
  <2>3. c \in Slots
    BY <1>3
  <2> HIDE DEF g, c
  <2>4. g.ic \in [Inums -> Slots] /\ g.ic[i] = c /\ \A j \in Inums : j # i => g.ic[j] = f.ic[j]
    BY <1>1, <2>2, <2>3
  <2>5. g \in Fs
    BY <2>2, <2>4 DEF Fs
  <2> QED BY <1>5, <2>2, <2>4, <2>5 DEF g, c
<1> QED BY <1>4, <1>5

\* A change of the link count, and fs_iupdate.
LEMMA CountEffect ==
  ASSUME NEW f \in Fs, NEW i \in Inums, NEW d \in Int
  PROVE  LET g == Count(f, i, d) IN
         /\ g \in Fs /\ g.dirs = f.dirs /\ g.up = f.up
         /\ \A j \in Inums : j # i => g.ic[j] = f.ic[j] /\ g.disk[j] = f.disk[j]
         /\ g.ic[i] = [f.ic[i] EXCEPT !.nlink = f.ic[i].nlink + d]
         /\ g.disk[i] = Dinode(f.ic[i].type, f.ic[i].nlink + d)
<1> DEFINE h == [f EXCEPT !.ic[i].nlink = @ + d]
<1>1. /\ f.ic \in [Inums -> Slots] /\ f.ic[i] \in Slots /\ f.ic[i].nlink \in Int
      /\ f.disk \in [Inums -> [type : Types, nlink : Int]] /\ f.ic[i].type \in Types
  BY DEF Fs, Slots
<1>2. /\ [f.ic[i] EXCEPT !.nlink = f.ic[i].nlink + d] \in Slots
      /\ Dinode(f.ic[i].type, f.ic[i].nlink + d) \in [type : Types, nlink : Int]
  BY <1>1 DEF Slots, Dinode
<1>3. /\ h \in Fs /\ h.disk = f.disk /\ h.dirs = f.dirs /\ h.up = f.up
      /\ \A j \in Inums : j # i => h.ic[j] = f.ic[j]
      /\ h.ic[i] = [f.ic[i] EXCEPT !.nlink = f.ic[i].nlink + d]
  BY <1>1, <1>2 DEF Fs
<1>4. h.ic[i].type = f.ic[i].type /\ h.ic[i].nlink = f.ic[i].nlink + d
  BY <1>1, <1>3 DEF Slots
<1>5. Count(f, i, d) = [h EXCEPT !.disk[i] = Dinode(h.ic[i].type, h.ic[i].nlink)]
  BY DEF Count, Iupdate
<1> HIDE DEF h
<1> DEFINE g == Count(f, i, d)
<1>6. /\ g.ic = h.ic /\ g.dirs = h.dirs /\ g.up = h.up
      /\ g.disk = [f.disk EXCEPT ![i] = Dinode(f.ic[i].type, f.ic[i].nlink + d)]
      /\ g = [disk |-> g.disk, dirs |-> g.dirs, up |-> g.up, ic |-> g.ic]
  BY <1>3, <1>4, <1>5 DEF Fs
<1> HIDE DEF g
<1>7. g.disk \in [Inums -> [type : Types, nlink : Int]]
  BY <1>1, <1>2, <1>6
<1>8. g \in Fs
  BY <1>3, <1>6, <1>7 DEF Fs
<1>9. /\ g.disk[i] = Dinode(f.ic[i].type, f.ic[i].nlink + d)
      /\ \A j \in Inums : j # i => g.disk[j] = f.disk[j]
  BY <1>1, <1>6
<1>10. /\ g.ic[i] = [f.ic[i] EXCEPT !.nlink = f.ic[i].nlink + d]
       /\ \A j \in Inums : j # i => g.ic[j] = f.ic[j]
  BY <1>3, <1>6
<1> QED BY <1>3, <1>6, <1>8, <1>9, <1>10 DEF g

\* fs_writei of an entry.
LEMMA EntryEffect ==
  ASSUME NEW f \in Fs, NEW d \in Inums, NEW n \in Elems, NEW i \in Ptrs
  PROVE  LET g == Entry(f, d, n, i) IN
         /\ g \in Fs /\ g.disk = f.disk /\ g.up = f.up /\ g.ic = f.ic
         /\ \A j \in Inums : j # d => g.dirs[j] = f.dirs[j]
         /\ g.dirs[d][n] = i
         /\ \A m \in Elems : m # n => g.dirs[d][m] = f.dirs[d][m]
<1>1. f.dirs \in [Inums -> [Elems -> Ptrs]] /\ f.dirs[d] \in [Elems -> Ptrs]
  BY DEF Fs
<1>2. [f.dirs[d] EXCEPT ![n] = i] \in [Elems -> Ptrs]
  BY <1>1
<1> QED BY <1>1, <1>2 DEF Fs, Entry

-----------------------------------------------------------------------------
(* Operations in the middle of a step *)

\* Names can be counted.
LEMMA CoversNat ==
  ASSUME NEW f, NEW i
  PROVE  /\ IsFiniteSet(NamesIn(f, i)) /\ Cardinality(NamesIn(f, i)) \in Nat
         /\ IsFiniteSet(DirsOf(f, i)) /\ Cardinality(DirsOf(f, i)) \in Nat
         /\ Covers(f, i) \in Nat
<1>1. NamesIn(f, i) \subseteq Inums \X Elems /\ DirsOf(f, i) \subseteq Elems
  BY DEF NamesIn, DirsOf
<1>2. IsFiniteSet(NamesIn(f, i)) /\ IsFiniteSet(DirsOf(f, i))
  BY <1>1, Consts, FS_Subset
<1>3. Cardinality(NamesIn(f, i)) \in Nat /\ Cardinality(DirsOf(f, i)) \in Nat
  BY <1>2, FS_CardinalityType
<1> QED BY <1>2, <1>3 DEF Covers

\* The counts depend on the names and the types.
LEMMA SameCovers ==
  ASSUME NEW f \in Fs, NEW g \in Fs, NEW i \in Inums, g.dirs = f.dirs,
         \A j \in Inums : g.disk[j].type = f.disk[j].type
  PROVE  Covers(g, i) = Covers(f, i)
<1>1. NamesIn(g, i) = NamesIn(f, i)
  BY DEF NamesIn
<1>2. \A n \in Elems : f.dirs[i][n] \in Inums \/ f.dirs[i][n] = NoInode
  BY DEF Fs, Ptrs
<1>3. DirsOf(g, i) = DirsOf(f, i)
  BY <1>2 DEF DirsOf
<1> QED BY <1>1, <1>3 DEF Covers

\* Nothing that q relies on changes, step by step.
LEMMA KeepsTrans ==
  ASSUME NEW q, NEW f, NEW g, NEW h, Keeps(q, f, g), Keeps(q, g, h)
  PROVE  Keeps(q, f, h)
BY DEF Keeps

\* A lock that p does not have, or a reference, is another's.
LEMMA MidOthers ==
  ASSUME Inv, NEW p \in Procs, NEW f, NEW R, NEW K, NEW L, Mid(p, f, R, K, L), NEW i \in Inums
  PROVE  /\ f.ic[i].ref \in Nat /\ Refs(Others(p), i) \in Nat /\ R[i] \in Nat
         /\ f.ic[i].ref = Refs(Others(p), i) + R[i]
         /\ f.ic[i].lock \notin {p, NoProc} => Refs(Others(p), i) >= 1
         /\ f.ic[i].ref = 0 => f.ic[i].lock = NoProc
<1>1. /\ f.ic[i].ref \in Nat /\ f.ic[i].lock \in Procs \cup {NoProc} /\ R[i] \in Nat
      /\ f.ic[i].ref = Refs(Others(p), i) + R[i]
  BY DEF Mid, Disk, Fs, Slots
<1>2. Refs(Others(p), i) \in Nat
  BY RefsApart DEF Inv
<1>3. ASSUME f.ic[i].lock \notin {p, NoProc} PROVE Refs(Others(p), i) >= 1
  <2>1. PICK q \in Others(p) : f.ic[i].lock = q
    BY <1>1, <1>3 DEF Others
  <2>2. fs.ic[i].lock = q
    BY <2>1 DEF Mid, Keeps
  <2>3. q \in Procs /\ i \in Locks(proc[q])
    BY <2>2 DEF Inv, Uses, Others
  <2>4. i \in {proc[q].at, proc[q].ip, proc[q].target}
    BY <2>3 DEF Locks
  <2> QED BY <2>4, RefsUsed DEF Inv
<1>4. ASSUME f.ic[i].lock = p PROVE R[i] > 0
  BY <1>4 DEF Mid
<1> QED BY <1>1, <1>2, <1>3, <1>4

\* Operations on the inode table that leave the disk alone.
LEMMA TableStep ==
  ASSUME Inv, NEW p \in Procs, NEW f, NEW R, NEW K, NEW L, Mid(p, f, R, K, L),
         NEW g, Disk(g), g.disk = f.disk, g.dirs = f.dirs,
         NEW R2 \in [Inums -> Nat], NEW K2 \in SUBSET Inums,
         \A j \in Inums : g.ic[j].ref = f.ic[j].ref + R2[j] - R[j],
         \A j \in Inums : g.ic[j].lock = p <=> j \in K2,
         \A j \in Inums : \A q \in Others(p) : g.ic[j].lock = q <=> f.ic[j].lock = q,
         \A j \in K2 : R2[j] > 0 /\ j \in Live(g),
         \A j \in Inums : j \in Live(f) => j \in Live(g)
  PROVE  Mid(p, g, R2, K2, L)
<1>1. f \in Fs /\ g \in Fs
  BY DEF Mid, Disk
<1>2. \A j \in Inums : g.ic[j].ref = Refs(Others(p), j) + R2[j]
  <2> SUFFICES ASSUME NEW j \in Inums PROVE g.ic[j].ref = Refs(Others(p), j) + R2[j]
    OBVIOUS
  <2>1. /\ R[j] \in Nat /\ Refs(Others(p), j) \in Nat /\ f.ic[j].ref = Refs(Others(p), j) + R[j]
    BY MidOthers
  <2> QED BY <2>1
<1>3. ASSUME NEW q \in Others(p) PROVE Keeps(q, fs, g)
  <2>1. Keeps(q, f, g)
    BY DEF Keeps
  <2>2. Keeps(q, fs, f)
    BY DEF Mid
  <2> QED BY <2>1, <2>2, KeepsTrans
<1>4. \A j \in Inums : Covers(g, j) = Covers(f, j)
  BY <1>1, SameCovers
<1>5. \A j \in Inums : g.disk[j].nlink >= Covers(g, j) + Links(Others(p), j) + L[j]
  BY <1>4 DEF Mid
<1>6. L \in [Inums -> Int]
  BY DEF Mid
<1> QED BY <1>2, <1>3, <1>5, <1>6 DEF Mid

\* fs_iget
LEMMA MidIget ==
  ASSUME Inv, NEW p \in Procs, NEW f, NEW R, NEW K, NEW L, Mid(p, f, R, K, L),
         NEW i \in Inums, NEW R2 \in [Inums -> Nat], \A j \in Inums : R2[j] = R[j] + One(j, i)
  PROVE  /\ Mid(p, Iget(f, i), R2, K, L)
         /\ Iget(f, i).disk = f.disk /\ Iget(f, i).dirs = f.dirs /\ Iget(f, i).up = f.up
         /\ Live(Iget(f, i)) = Live(f)
         /\ \A j \in Inums : Iget(f, i).ic[j].lock = f.ic[j].lock
<1> DEFINE g == Iget(f, i)
<1>1. f \in Fs /\ Disk(f)
  BY DEF Mid, Disk
<1>2. /\ g \in Fs /\ g.disk = f.disk /\ g.dirs = f.dirs /\ g.up = f.up
      /\ \A j \in Inums : j # i => g.ic[j] = f.ic[j]
      /\ g.ic[i] = IF f.ic[i].ref > 0 THEN [f.ic[i] EXCEPT !.ref = @ + 1] ELSE Slot(1)
  BY <1>1, IgetEffect
<1> HIDE DEF g
<1>3. f.ic[i] \in Slots /\ f.ic[i].ref \in Nat /\ (f.ic[i].ref = 0 => f.ic[i].lock = NoProc)
  BY <1>1, MidOthers DEF Fs, Slots
<1>4. /\ g.ic[i].ref = f.ic[i].ref + 1 /\ g.ic[i].lock = f.ic[i].lock
      /\ f.ic[i].ref > 0 => /\ g.ic[i].valid = f.ic[i].valid /\ g.ic[i].type = f.ic[i].type
                            /\ g.ic[i].nlink = f.ic[i].nlink
      /\ f.ic[i].ref = 0 => ~g.ic[i].valid
  <2>1. CASE f.ic[i].ref > 0
    <3>1. g.ic[i] = [f.ic[i] EXCEPT !.ref = @ + 1]
      BY <1>2, <2>1
    <3> QED BY <1>3, <2>1, <3>1 DEF Slots
  <2>2. CASE f.ic[i].ref = 0
    <3>1. g.ic[i] = Slot(1)
      BY <1>2, <2>2
    <3> QED BY <1>3, <2>2, <3>1 DEF Slot
  <2> QED BY <1>3, <2>1, <2>2
<1>5. Live(g) = Live(f)
  <2>1. i \in Live(g) <=> i \in Live(f)
    BY <1>3, <1>4 DEF Live
  <2>2. \A j \in Inums : j # i => (j \in Live(g) <=> j \in Live(f))
    BY <1>2 DEF Live
  <2> QED BY <2>1, <2>2 DEF Live
<1>6. Disk(g)
  <2>1. ASSUME NEW j \in Live(g) PROVE g.ic[j].type = f.ic[j].type /\ g.ic[j].nlink = f.ic[j].nlink
    BY <1>2, <1>3, <1>4, <1>5 DEF Live
  <2> QED BY <1>1, <1>2, <1>5, <2>1 DEF Disk
<1>7. ASSUME NEW j \in Inums PROVE g.ic[j].lock = f.ic[j].lock
  BY <1>2, <1>4
<1>8. ASSUME NEW j \in Inums PROVE g.ic[j].ref = f.ic[j].ref + R2[j] - R[j]
  <2>1. R[j] \in Nat /\ f.ic[j].ref \in Nat
    BY MidOthers
  <2>2. CASE j = i
    <3>1. R2[j] = R[j] + 1
      BY <2>2 DEF One
    <3> QED BY <1>4, <2>1, <2>2, <3>1
  <2>3. CASE j # i
    <3>1. R2[j] = R[j] /\ g.ic[j] = f.ic[j]
      BY <1>2, <2>1, <2>3 DEF One
    <3> QED BY <2>1, <3>1
  <2> QED BY <2>2, <2>3
<1>9. K \in SUBSET Inums /\ \A j \in Inums : g.ic[j].lock = p <=> j \in K
  BY <1>7 DEF Mid
<1>10. ASSUME NEW j \in K PROVE R2[j] > 0 /\ j \in Live(g)
  <2>1. R[j] > 0 /\ j \in Live(f) /\ j \in Inums /\ R[j] \in Nat
    BY DEF Mid
  <2> QED BY <1>5, <2>1 DEF One
<1>11. Mid(p, g, R2, K, L)
  BY <1>2, <1>5, <1>6, <1>7, <1>8, <1>9, <1>10, TableStep
<1> QED BY <1>2, <1>5, <1>7, <1>11 DEF g

\* fs_ilock of an inode that is in use: it is known from here on.
LEMMA MidIlock ==
  ASSUME Inv, NEW p \in Procs, NEW f, NEW R, NEW K, NEW L, Mid(p, f, R, K, L),
         NEW i \in Inums, f.ic[i].lock = NoProc, R[i] > 0, f.disk[i].type # "free"
  PROVE  LET g == Ilock(f, p, i) IN
         /\ Mid(p, g, R, K \cup {i}, L)
         /\ g.disk = f.disk /\ g.dirs = f.dirs /\ g.up = f.up
         /\ Live(g) = Live(f) \cup {i}
         /\ g.ic[i].type = f.disk[i].type
         /\ \A j \in Inums : j # i => g.ic[j] = f.ic[j]
<1> DEFINE g == Ilock(f, p, i)
<1>1. f \in Fs /\ Disk(f)
  BY DEF Mid, Disk
<1>2. /\ g \in Fs /\ g.disk = f.disk /\ g.dirs = f.dirs /\ g.up = f.up
      /\ \A j \in Inums : j # i => g.ic[j] = f.ic[j]
      /\ g.ic[i].ref = f.ic[i].ref /\ g.ic[i].lock = p /\ g.ic[i].valid = TRUE
      /\ f.ic[i].valid => g.ic[i].type = f.ic[i].type /\ g.ic[i].nlink = f.ic[i].nlink
      /\ ~f.ic[i].valid => g.ic[i].type = f.disk[i].type /\ g.ic[i].nlink = f.disk[i].nlink
  BY <1>1, IlockEffect
<1> HIDE DEF g
<1>3. f.ic[i].ref \in Nat /\ f.ic[i].ref > 0
  BY MidOthers
<1>4. Live(g) = Live(f) \cup {i}
  BY <1>2, <1>3 DEF Live
<1>5. g.ic[i].type = f.disk[i].type /\ g.ic[i].nlink = f.disk[i].nlink
  <2>1. CASE f.ic[i].valid
    <3>1. i \in Live(f)
      BY <1>3, <2>1 DEF Live
    <3> QED BY <1>1, <1>2, <2>1, <3>1 DEF Disk
  <2>2. CASE ~f.ic[i].valid
    BY <1>2, <2>2
  <2> QED BY <2>1, <2>2
<1>6. Disk(g)
  <2>1. ASSUME NEW j \in Live(g) PROVE g.ic[j].type = f.disk[j].type /\ g.ic[j].nlink = f.disk[j].nlink
    <3>1. CASE j = i
      BY <1>5, <3>1
    <3>2. CASE j # i
      <4>1. j \in Live(f) /\ j \in Inums
        BY <1>4, <3>2 DEF Live
      <4> QED BY <1>1, <1>2, <3>2, <4>1 DEF Disk
    <3> QED BY <3>1, <3>2
  <2> QED BY <1>1, <1>2, <1>4, <2>1 DEF Disk
<1>7. p # NoProc /\ p \notin Others(p) /\ NoProc \notin Others(p)
  BY Consts DEF Others
<1>8. ASSUME NEW j \in Inums
      PROVE  /\ g.ic[j].ref = f.ic[j].ref + R[j] - R[j]
             /\ g.ic[j].lock = p <=> j \in K \cup {i}
             /\ \A q \in Others(p) : g.ic[j].lock = q <=> f.ic[j].lock = q
  <2>1. R[j] \in Nat /\ f.ic[j].ref \in Nat
    BY MidOthers
  <2>2. f.ic[j].lock = p <=> j \in K
    BY DEF Mid
  <2>3. CASE j = i
    BY <1>2, <1>7, <2>1, <2>3
  <2>4. CASE j # i
    BY <1>2, <2>1, <2>2, <2>4
  <2> QED BY <2>3, <2>4
<1>9. /\ K \cup {i} \in SUBSET Inums /\ R \in [Inums -> Nat]
      /\ \A j \in K \cup {i} : R[j] > 0 /\ j \in Live(g)
  BY <1>4 DEF Mid
<1>10. Mid(p, g, R, K \cup {i}, L)
  BY <1>2, <1>4, <1>6, <1>8, <1>9, TableStep
<1> QED BY <1>2, <1>4, <1>5, <1>10 DEF g

\* fs_iunlock
LEMMA MidIunlock ==
  ASSUME Inv, NEW p \in Procs, NEW f, NEW R, NEW K, NEW L, Mid(p, f, R, K, L), NEW i \in K
  PROVE  LET g == Iunlock(f, i) IN
         /\ Mid(p, g, R, K \ {i}, L)
         /\ g.disk = f.disk /\ g.dirs = f.dirs /\ g.up = f.up
         /\ Live(g) = Live(f)
         /\ g.ic[i].lock = NoProc /\ g.ic[i].type = f.ic[i].type
         /\ \A j \in Inums : j # i => g.ic[j] = f.ic[j]
<1> DEFINE g == Iunlock(f, i)
<1>1. f \in Fs /\ Disk(f) /\ i \in Inums
  BY DEF Mid, Disk
<1>2. /\ g \in Fs /\ g.disk = f.disk /\ g.dirs = f.dirs /\ g.up = f.up
      /\ \A j \in Inums : j # i => g.ic[j] = f.ic[j]
      /\ g.ic[i] = [f.ic[i] EXCEPT !.lock = NoProc]
  BY <1>1, IunlockEffect
<1> HIDE DEF g
<1>3. f.ic[i] \in Slots
  BY <1>1 DEF Fs
<1>4. /\ g.ic[i].ref = f.ic[i].ref /\ g.ic[i].lock = NoProc /\ g.ic[i].valid = f.ic[i].valid
      /\ g.ic[i].type = f.ic[i].type /\ g.ic[i].nlink = f.ic[i].nlink
  BY <1>2, <1>3 DEF Slots
<1>5. Live(g) = Live(f)
  BY <1>2, <1>4 DEF Live
<1>6. Disk(g)
  <2>1. ASSUME NEW j \in Live(g) PROVE g.ic[j].type = f.ic[j].type /\ g.ic[j].nlink = f.ic[j].nlink
    BY <1>2, <1>4 DEF Live
  <2> QED BY <1>1, <1>2, <1>5, <2>1 DEF Disk
<1>7. p # NoProc /\ p \notin Others(p) /\ NoProc \notin Others(p)
  BY Consts DEF Others
<1>8. ASSUME NEW j \in Inums
      PROVE  /\ g.ic[j].ref = f.ic[j].ref + R[j] - R[j]
             /\ g.ic[j].lock = p <=> j \in K \ {i}
             /\ \A q \in Others(p) : g.ic[j].lock = q <=> f.ic[j].lock = q
  <2>1. R[j] \in Nat /\ f.ic[j].ref \in Nat
    BY MidOthers
  <2>2. f.ic[j].lock = p <=> j \in K
    BY DEF Mid
  <2>3. CASE j = i
    BY <1>4, <1>7, <2>1, <2>2, <2>3
  <2>4. CASE j # i
    BY <1>2, <2>1, <2>2, <2>4
  <2> QED BY <2>3, <2>4
<1>9. /\ K \ {i} \in SUBSET Inums /\ R \in [Inums -> Nat]
      /\ \A j \in K \ {i} : R[j] > 0 /\ j \in Live(g)
  BY <1>5 DEF Mid
<1>10. Mid(p, g, R, K \ {i}, L)
  BY <1>2, <1>5, <1>6, <1>8, <1>9, TableStep
<1> QED BY <1>2, <1>4, <1>5, <1>10 DEF g

\* An inode that is freed has no names, so nobody's count changes but those of the
\* inodes it named.
LEMMA FreeCovers ==
  ASSUME NEW f \in Fs, NEW g \in Fs, NEW i \in Inums, NEW j \in Inums,
         \A k \in Inums : k # i => g.disk[k] = f.disk[k] /\ g.dirs[k] = f.dirs[k],
         g.dirs[i] = Empty, NamesIn(f, i) = {}
  PROVE  Covers(g, j) <= Covers(f, j) /\ (j = i => Covers(g, j) = 0)
<1>0. NoInode \notin Inums
  BY Consts
<1>1. ASSUME NEW k \in Inums, NEW d \in Inums, NEW n \in Elems, g.dirs[d][n] = k
      PROVE  d # i /\ f.dirs[d][n] = k /\ k # i
  <2>1. d # i
    BY <1>0, <1>1 DEF Empty
  <2>2. f.dirs[d][n] = k
    BY <1>1, <2>1
  <2>3. k # i
    <3>1. SUFFICES ASSUME k = i PROVE FALSE
      OBVIOUS
    <3>2. <<d, n>> \in NamesIn(f, i)
      BY <2>2, <3>1 DEF NamesIn
    <3> QED BY <3>2
  <2> QED BY <2>1, <2>2, <2>3
<1>2. NamesIn(g, j) \subseteq NamesIn(f, j) /\ (j = i => NamesIn(g, j) = {})
  BY <1>1 DEF NamesIn
<1>3. DirsOf(g, j) \subseteq DirsOf(f, j) /\ (j = i => DirsOf(g, j) = {})
  <2>1. ASSUME NEW n \in DirsOf(g, j) PROVE n \in DirsOf(f, j) /\ j # i
    <3>1. n \in Elems /\ g.dirs[j][n] # NoInode /\ g.disk[g.dirs[j][n]].type = "dir"
      BY DEF DirsOf
    <3>2. PICK k \in Inums : g.dirs[j][n] = k
      BY <3>1 DEF Fs, Ptrs
    <3>3. j # i /\ f.dirs[j][n] = k /\ k # i
      BY <1>1, <3>1, <3>2
    <3> QED BY <1>0, <3>1, <3>2, <3>3 DEF DirsOf
  <2> QED BY <2>1
<1>4. IsFiniteSet(NamesIn(f, j)) /\ IsFiniteSet(DirsOf(f, j))
  BY CoversNat
<1>5. /\ Cardinality(NamesIn(g, j)) <= Cardinality(NamesIn(f, j))
      /\ Cardinality(DirsOf(g, j)) <= Cardinality(DirsOf(f, j))
  BY <1>2, <1>3, <1>4, FS_Subset
<1>6. /\ Cardinality(NamesIn(g, j)) \in Nat /\ Cardinality(NamesIn(f, j)) \in Nat
      /\ Cardinality(DirsOf(g, j)) \in Nat /\ Cardinality(DirsOf(f, j)) \in Nat
  BY CoversNat
<1>7. j = i => Cardinality(NamesIn(g, j)) = 0 /\ Cardinality(DirsOf(g, j)) = 0
  BY <1>2, <1>3, FS_EmptySet
<1> QED BY <1>5, <1>6, <1>7 DEF Covers

\* fs_iput
LEMMA MidIput ==
  ASSUME Inv, NEW p \in Procs, NEW f, NEW R, NEW K, NEW L, Mid(p, f, R, K, L),
         NEW i \in Inums, R[i] > 0, i \notin K,
         NEW R2 \in [Inums -> Nat], \A j \in Inums : R2[j] = R[j] - One(j, i),
         R2[i] = 0 => L[i] = 0
  PROVE  LET g == Iput(f, i) IN
         /\ Mid(p, g, R2, K, L)
         /\ \A j \in Inums : j # i \/ R2[i] > 0 =>
              /\ g.disk[j] = f.disk[j] /\ g.dirs[j] = f.dirs[j] /\ g.up[j] = f.up[j]
              /\ j \in Live(g) <=> j \in Live(f)
              /\ g.ic[j].type = f.ic[j].type
         /\ \A j \in Inums : g.ic[j].lock = f.ic[j].lock
         /\ \A d \in Inums, n \in Elems : g.dirs[d][n] # NoInode => g.dirs[d][n] = f.dirs[d][n]
<1> DEFINE g == Iput(f, i)
<1>1. f \in Fs /\ Disk(f)
  BY DEF Mid, Disk
<1>2. /\ f.ic[i].ref \in Nat /\ Refs(Others(p), i) \in Nat /\ R[i] \in Nat
      /\ f.ic[i].ref = Refs(Others(p), i) + R[i] /\ f.ic[i].ref > 0
      /\ f.ic[i].lock \notin {p, NoProc} => Refs(Others(p), i) >= 1
  BY MidOthers
<1>3. f.ic[i].lock # p
  BY DEF Mid
<1>4. R2[i] = R[i] - 1
  BY DEF One
<1>5. ASSUME f.ic[i].ref = 1
      PROVE  /\ R2[i] = 0 /\ L[i] = 0 /\ Links(Others(p), i) = 0 /\ f.ic[i].lock = NoProc /\ i # ROOTINO
             /\ \A q \in Others(p) : i \notin {proc[q].at, proc[q].ip, proc[q].target}
  <2>1. Refs(Others(p), i) = 0 /\ R[i] = 1
    BY <1>2, <1>5
  <2>2. /\ Links(Others(p), i) = 0 /\ i # ROOTINO
        /\ \A q \in Others(p) : i \notin {proc[q].at, proc[q].ip, proc[q].target}
    BY <2>1, RefsUsed DEF Inv
  <2> QED BY <1>2, <1>3, <1>4, <2>1, <2>2
<1>6. /\ g \in Fs
      /\ \A j \in Inums : j # i =>
           /\ g.ic[j] = f.ic[j] /\ g.disk[j] = f.disk[j] /\ g.dirs[j] = f.dirs[j]
           /\ g.up[j] = f.up[j]
      /\ LastHolder(f, i) => /\ g.ic[i] = Slot(0) /\ g.disk[i] = Dinode("free", 0)
                             /\ g.dirs[i] = Empty
      /\ ~LastHolder(f, i) => /\ g.ic[i] = [f.ic[i] EXCEPT !.ref = @ - 1]
                              /\ g.disk = f.disk /\ g.dirs = f.dirs /\ g.up = f.up
  BY <1>1, <1>2, IputEffect
<1> HIDE DEF g
<1>7. f.ic[i] \in Slots
  BY <1>1 DEF Fs
<1>8. /\ g.ic[i].ref = f.ic[i].ref - 1 /\ g.ic[i].lock = f.ic[i].lock
      /\ ~LastHolder(f, i) => /\ g.ic[i].valid = f.ic[i].valid /\ g.ic[i].type = f.ic[i].type
                              /\ g.ic[i].nlink = f.ic[i].nlink
  <2>1. CASE LastHolder(f, i)
    <3>1. f.ic[i].ref = 1 /\ f.ic[i].lock = NoProc
      BY <1>5, <2>1 DEF LastHolder
    <3> QED BY <1>6, <2>1, <3>1 DEF Slot
  <2>2. CASE ~LastHolder(f, i)
    <3>1. g.ic[i] = [f.ic[i] EXCEPT !.ref = f.ic[i].ref - 1]
      BY <1>6, <2>2
    <3> QED BY <1>7, <2>2, <3>1 DEF Slots
  <2> QED BY <2>1, <2>2
<1>9. LastHolder(f, i) => f.ic[i].ref = 1 /\ i \in Live(f) /\ f.disk[i].nlink = 0
  BY <1>1 DEF LastHolder, Live, Disk
<1>10. ASSUME NEW j \in Inums, j # i \/ f.ic[i].ref > 1
       PROVE  j \in Live(g) <=> j \in Live(f)
  <2>1. CASE j # i
    BY <1>6, <2>1 DEF Live
  <2>2. CASE j = i /\ f.ic[i].ref > 1
    <3>1. ~LastHolder(f, i)
      BY <2>2, <1>9
    <3> QED BY <1>2, <1>8, <2>2, <3>1 DEF Live
  <2> QED BY <1>10, <2>1, <2>2
<1>11. f.ic[i].ref = 1 => i \notin Live(g)
  BY <1>8 DEF Live
<1>12. Live(g) \subseteq Live(f)
  BY <1>2, <1>10, <1>11 DEF Live
<1>13. LastHolder(f, i) => NamesIn(f, i) = {}
  <2>1. SUFFICES ASSUME LastHolder(f, i) PROVE NamesIn(f, i) = {}
    OBVIOUS
  <2>2. f.disk[i].nlink = 0 /\ Links(Others(p), i) = 0 /\ L[i] = 0
    BY <1>5, <1>9, <2>1
  <2>3. 0 >= Covers(f, i)
    <3>1. f.disk[i].nlink >= Covers(f, i) + Links(Others(p), i) + L[i]
      BY DEF Mid
    <3>2. Covers(f, i) \in Nat
      BY CoversNat
    <3> QED BY <2>2, <3>1, <3>2
  <2>4. Cardinality(NamesIn(f, i)) = 0
    BY <2>3, CoversNat DEF Covers
  <2> QED BY <2>4, CoversNat, FS_EmptySet
<1>14. Disk(g)
  <2>1. ASSUME NEW j \in Live(g) PROVE g.ic[j].type = g.disk[j].type /\ g.ic[j].nlink = g.disk[j].nlink
    <3>1. j \in Inums /\ j \in Live(f)
      BY <1>12 DEF Live
    <3>2. f.ic[j].type = f.disk[j].type /\ f.ic[j].nlink = f.disk[j].nlink
      BY <1>1, <3>1 DEF Disk
    <3>3. CASE j # i
      BY <1>6, <3>1, <3>2, <3>3
    <3>4. CASE j = i
      <4>1. ~LastHolder(f, i)
        BY <1>9, <1>11, <3>4
      <4> QED BY <1>6, <1>8, <3>2, <3>4, <4>1
    <3> QED BY <3>3, <3>4
  <2>2. g.disk[ROOTINO].type = "dir"
    <3>1. CASE LastHolder(f, i)
      <4>1. ROOTINO # i /\ ROOTINO \in Inums
        BY <1>5, <1>9, <3>1, Consts
      <4> QED BY <1>1, <1>6, <4>1 DEF Disk
    <3>2. CASE ~LastHolder(f, i)
      BY <1>1, <1>6, <3>2 DEF Disk
    <3> QED BY <3>1, <3>2
  <2>3. ASSUME NEW j \in Inums, g.disk[j].type = "free"
        PROVE  g.disk[j].nlink = 0 /\ g.dirs[j] = Empty /\ j \notin Live(g)
    <3>1. CASE LastHolder(f, i) /\ j = i
      BY <1>6, <1>9, <1>11, <3>1 DEF Dinode
    <3>2. CASE ~(LastHolder(f, i) /\ j = i)
      <4>1. g.disk[j] = f.disk[j] /\ g.dirs[j] = f.dirs[j]
        BY <1>6, <3>2
      <4> QED BY <1>1, <1>12, <2>3, <4>1 DEF Disk
    <3> QED BY <3>1, <3>2
  <2> QED BY <1>6, <2>1, <2>2, <2>3 DEF Disk
<1>15. ASSUME NEW j \in Inums
       PROVE  /\ g.ic[j].ref = Refs(Others(p), j) + R2[j] /\ g.ic[j].lock = f.ic[j].lock
  <2>1. CASE j = i
    BY <1>2, <1>4, <1>8, <2>1
  <2>2. CASE j # i
    <3>1. R2[j] = R[j] /\ f.ic[j].ref = Refs(Others(p), j) + R[j]
      BY <2>2, MidOthers DEF One
    <3> QED BY <1>6, <2>2, <3>1
  <2> QED BY <2>1, <2>2
<1>16. ASSUME NEW d \in Inums, NEW n \in Elems, g.dirs[d][n] # NoInode
       PROVE  g.dirs[d][n] = f.dirs[d][n]
  BY <1>6, <1>16 DEF Empty
<1>17. ASSUME NEW q \in Others(p) PROVE Keeps(q, fs, g)
  <2>1. ASSUME NEW j \in Inums, f.ic[j].lock = q PROVE g.dirs[j] = f.dirs[j]
    <3>1. CASE LastHolder(f, i) /\ j = i
      <4>1. f.ic[i].lock = NoProc /\ NoProc \notin Others(p)
        BY <1>5, <1>9, <3>1, Consts DEF Others
      <4> QED BY <2>1, <3>1, <4>1
    <3>2. CASE ~(LastHolder(f, i) /\ j = i)
      BY <1>6, <3>2
    <3> QED BY <3>1, <3>2
  <2>2. ASSUME NEW j \in Inums, j \in {proc[q].at, proc[q].ip, proc[q].target}
        PROVE  (j \in Live(f) => j \in Live(g)) /\ g.disk[j] = f.disk[j]
    <3>1. j # i \/ f.ic[i].ref # 1
      BY <1>5, <2>2
    <3>2. j # i \/ f.ic[i].ref > 1
      BY <1>2, <3>1
    <3>3. g.disk[j] = f.disk[j]
      BY <1>6, <1>9, <3>1
    <3> QED BY <1>10, <3>2, <3>3
  <2>3. proc[q].pc \in Making => proc[q].ip # NoInode
    BY DEF Inv, Uses, Relies, Shape, Stage, Others, Making
  <2>4. Keeps(q, f, g)
    BY <1>15, <1>16, <2>1, <2>2, <2>3 DEF Keeps
  <2>5. Keeps(q, fs, f)
    BY DEF Mid
  <2> QED BY <2>4, <2>5, KeepsTrans
<1>18. ASSUME NEW j \in Inums
       PROVE  g.disk[j].nlink >= Covers(g, j) + Links(Others(p), j) + L[j]
  <2>1. /\ f.disk[j].nlink >= Covers(f, j) + Links(Others(p), j) + L[j] /\ L[j] \in Int
        /\ f.disk[j].nlink \in Int /\ Links(Others(p), j) \in Int
    BY <1>1, RefsApart DEF Mid, Inv, Fs
  <2>2. Covers(f, j) \in Nat /\ Covers(g, j) \in Nat
    BY CoversNat
  <2>3. CASE LastHolder(f, i)
    <3>1. Covers(g, j) <= Covers(f, j) /\ (j = i => Covers(g, j) = 0)
      BY <1>1, <1>6, <1>13, <2>3, FreeCovers
    <3>2. CASE j = i
      <4>1. g.disk[j].nlink = 0 /\ Links(Others(p), j) = 0 /\ L[j] = 0
        BY <1>5, <1>6, <1>9, <2>3, <3>2 DEF Dinode
      <4> QED BY <3>1, <3>2, <4>1
    <3>3. CASE j # i
      <4>1. g.disk[j] = f.disk[j]
        BY <1>6, <3>3
      <4> QED BY <2>1, <2>2, <3>1, <4>1
    <3> QED BY <3>2, <3>3
  <2>4. CASE ~LastHolder(f, i)
    <3>1. Covers(g, j) = Covers(f, j)
      BY <1>1, <1>6, <2>4, SameCovers
    <3> QED BY <1>6, <2>1, <2>4, <3>1
  <2> QED BY <2>3, <2>4
<1>19. ASSUME NEW j \in K PROVE R2[j] > 0 /\ j \in Live(g)
  <2>1. j \in Inums /\ R[j] > 0 /\ j \in Live(f) /\ j # i /\ R[j] \in Nat
    BY DEF Mid
  <2> QED BY <1>10, <2>1 DEF One
<1>20. Mid(p, g, R2, K, L)
  <2>1. /\ L \in [Inums -> Int] /\ K \subseteq Inums
        /\ \A j \in Inums : g.ic[j].lock = p <=> j \in K
    BY <1>15 DEF Mid
  <2> QED BY <1>14, <1>15, <1>17, <1>18, <1>19, <2>1 DEF Mid
<1>21. ASSUME NEW j \in Inums, j # i \/ R2[i] > 0
       PROVE  /\ g.disk[j] = f.disk[j] /\ g.dirs[j] = f.dirs[j] /\ g.up[j] = f.up[j]
              /\ j \in Live(g) <=> j \in Live(f)
              /\ g.ic[j].type = f.ic[j].type
  <2>1. R2[i] > 0 => f.ic[i].ref > 1 /\ ~LastHolder(f, i)
    BY <1>2, <1>4, <1>9
  <2>2. /\ g.disk[j] = f.disk[j] /\ g.dirs[j] = f.dirs[j] /\ g.up[j] = f.up[j]
        /\ g.ic[j].type = f.ic[j].type
    BY <1>6, <1>8, <1>21, <2>1
  <2> QED BY <1>10, <1>21, <2>1, <2>2
<1> QED BY <1>15, <1>16, <1>20, <1>21 DEF g

\* A change of the link count of a locked inode.
LEMMA MidCount ==
  ASSUME Inv, NEW p \in Procs, NEW f, NEW R, NEW K, NEW L, Mid(p, f, R, K, L),
         NEW i \in K, NEW d \in Int,
         NEW L2 \in [Inums -> Int], L2[i] = L[i] + d, \A j \in Inums : j # i => L2[j] = L[j]
  PROVE  LET g == Count(f, i, d) IN
         /\ Mid(p, g, R, K, L2)
         /\ g.dirs = f.dirs /\ g.up = f.up /\ Live(g) = Live(f)
         /\ \A j \in Inums : g.disk[j].type = f.disk[j].type /\ g.ic[j].type = f.ic[j].type
                             /\ g.ic[j].lock = f.ic[j].lock
<1> DEFINE g == Count(f, i, d)
<1>1. f \in Fs /\ Disk(f) /\ i \in Inums /\ i \in Live(f)
  BY DEF Mid, Disk
<1>2. /\ g \in Fs /\ g.dirs = f.dirs /\ g.up = f.up
      /\ \A j \in Inums : j # i => g.ic[j] = f.ic[j] /\ g.disk[j] = f.disk[j]
      /\ g.ic[i] = [f.ic[i] EXCEPT !.nlink = f.ic[i].nlink + d]
      /\ g.disk[i] = Dinode(f.ic[i].type, f.ic[i].nlink + d)
  BY <1>1, CountEffect
<1> HIDE DEF g
<1>3. f.ic[i] \in Slots /\ f.disk[i].nlink \in Int
  BY <1>1 DEF Fs
<1>4. f.ic[i].type = f.disk[i].type /\ f.ic[i].nlink = f.disk[i].nlink /\ f.disk[i].type # "free"
  BY <1>1 DEF Disk
<1>5. /\ g.ic[i].ref = f.ic[i].ref /\ g.ic[i].lock = f.ic[i].lock /\ g.ic[i].valid = f.ic[i].valid
      /\ g.ic[i].type = f.ic[i].type /\ g.ic[i].nlink = f.ic[i].nlink + d
      /\ g.disk[i].type = f.ic[i].type /\ g.disk[i].nlink = f.ic[i].nlink + d
  BY <1>2, <1>3 DEF Slots, Dinode
<1>6. Live(g) = Live(f)
  BY <1>2, <1>5 DEF Live
<1>7. \A j \in Inums : /\ g.disk[j].type = f.disk[j].type /\ g.ic[j].type = f.ic[j].type
                       /\ g.ic[j].lock = f.ic[j].lock /\ g.ic[j].ref = f.ic[j].ref
  BY <1>2, <1>4, <1>5
<1>8. Disk(g)
  <2>1. ASSUME NEW j \in Live(g) PROVE g.ic[j].type = g.disk[j].type /\ g.ic[j].nlink = g.disk[j].nlink
    <3>1. j \in Inums /\ j \in Live(f)
      BY <1>6 DEF Live
    <3>2. f.ic[j].type = f.disk[j].type /\ f.ic[j].nlink = f.disk[j].nlink
      BY <1>1, <3>1 DEF Disk
    <3> QED BY <1>2, <1>5, <3>1, <3>2
  <2>2. g.disk[ROOTINO].type = "dir"
    BY <1>1, <1>7, Consts DEF Disk
  <2>3. ASSUME NEW j \in Inums, g.disk[j].type = "free"
        PROVE  g.disk[j].nlink = 0 /\ g.dirs[j] = Empty /\ j \notin Live(g)
    <3>1. j # i /\ f.disk[j].type = "free"
      BY <1>4, <1>7, <2>3
    <3> QED BY <1>1, <1>2, <1>6, <3>1 DEF Disk
  <2> QED BY <1>2, <2>1, <2>2, <2>3 DEF Disk
<1>9. ASSUME NEW q \in Others(p) PROVE Keeps(q, fs, g)
  <2>1. Keeps(q, f, g)
    BY <1>2, <1>6, <1>7 DEF Keeps
  <2>2. Keeps(q, fs, f)
    BY DEF Mid
  <2> QED BY <2>1, <2>2, KeepsTrans
<1>10. ASSUME NEW j \in Inums
       PROVE  g.disk[j].nlink >= Covers(g, j) + Links(Others(p), j) + L2[j]
  <2>1. /\ f.disk[j].nlink >= Covers(f, j) + Links(Others(p), j) + L[j] /\ L[j] \in Int
        /\ f.disk[j].nlink \in Int /\ Links(Others(p), j) \in Int
    BY <1>1, RefsApart DEF Mid, Inv, Fs
  <2>2. Covers(g, j) = Covers(f, j)
    BY <1>1, <1>2, <1>7, SameCovers
  <2>3. Covers(f, j) \in Nat
    BY CoversNat
  <2>4. CASE j = i
    <3>1. L2[j] = L[j] + d /\ g.disk[j].nlink = f.disk[j].nlink + d
      BY <1>3, <1>4, <1>5, <2>1, <2>4 DEF One
    <3> QED BY <2>1, <2>2, <2>3, <3>1
  <2>5. CASE j # i
    <3>1. L2[j] = L[j] /\ g.disk[j] = f.disk[j]
      BY <1>2, <2>1, <2>5 DEF One
    <3> QED BY <2>1, <2>2, <3>1
  <2> QED BY <2>4, <2>5
<1>11. Mid(p, g, R, K, L2)
  <2>1. /\ R \in [Inums -> Nat] /\ K \subseteq Inums
        /\ \A j \in Inums : g.ic[j].ref = Refs(Others(p), j) + R[j]
        /\ \A j \in Inums : g.ic[j].lock = p <=> j \in K
        /\ \A j \in K : R[j] > 0 /\ j \in Live(g)
    BY <1>6, <1>7 DEF Mid
  <2> QED BY <1>8, <1>9, <1>10, <2>1 DEF Mid
<1> QED BY <1>2, <1>6, <1>7, <1>11 DEF g

\* Whether i is a directory in d.
Sub(f, j, d, i) == IF j = d /\ f.disk[i].type = "dir" THEN 1 ELSE 0

\* f and g differ in one name: g has it.
LEMMA OneName ==
  ASSUME NEW f \in Fs, NEW g \in Fs, g.disk = f.disk, NEW d \in Inums, NEW n \in Elems,
         NEW i \in Inums, NEW j \in Inums, f.dirs[d][n] = NoInode, g.dirs[d][n] = i,
         \A e \in Inums : e # d => g.dirs[e] = f.dirs[e],
         \A m \in Elems : m # n => g.dirs[d][m] = f.dirs[d][m]
  PROVE  Covers(g, j) = Covers(f, j) + One(j, i) + Sub(f, j, d, i)
<1>0. NoInode \notin Inums
  BY Consts
<1>1. \A e \in Inums, m \in Elems : <<e, m>> # <<d, n>> => g.dirs[e][m] = f.dirs[e][m]
  OBVIOUS
<1>2. /\ IsFiniteSet(NamesIn(f, j)) /\ Cardinality(NamesIn(f, j)) \in Nat
      /\ IsFiniteSet(DirsOf(f, j)) /\ Cardinality(DirsOf(f, j)) \in Nat
  BY CoversNat
<1>3. Cardinality(NamesIn(g, j)) = Cardinality(NamesIn(f, j)) + One(j, i)
  <2>1. CASE j = i
    <3>1. NamesIn(g, j) = NamesIn(f, j) \cup {<<d, n>>} /\ <<d, n>> \notin NamesIn(f, j)
      BY <1>0, <1>1, <2>1 DEF NamesIn
    <3>2. Cardinality(NamesIn(g, j)) = Cardinality(NamesIn(f, j)) + 1
      BY <1>2, <3>1, FS_AddElement
    <3> QED BY <2>1, <3>2 DEF One
  <2>2. CASE j # i
    <3>1. NamesIn(g, j) = NamesIn(f, j)
      BY <1>0, <1>1, <2>2 DEF NamesIn
    <3> QED BY <1>2, <2>2, <3>1 DEF One
  <2> QED BY <2>1, <2>2
<1>4. Cardinality(DirsOf(g, j)) = Cardinality(DirsOf(f, j)) + Sub(f, j, d, i)
  <2>1. CASE j = d /\ f.disk[i].type = "dir"
    <3>1. DirsOf(g, j) = DirsOf(f, j) \cup {n} /\ n \notin DirsOf(f, j)
      BY <1>0, <2>1 DEF DirsOf
    <3>2. Cardinality(DirsOf(g, j)) = Cardinality(DirsOf(f, j)) + 1
      BY <1>2, <3>1, FS_AddElement
    <3> QED BY <2>1, <3>2 DEF Sub
  <2>2. CASE ~(j = d /\ f.disk[i].type = "dir")
    <3>1. DirsOf(g, j) = DirsOf(f, j)
      BY <1>0, <2>2 DEF DirsOf
    <3> QED BY <1>2, <2>2, <3>1 DEF Sub
  <2> QED BY <2>1, <2>2
<1>5. One(j, i) \in {0, 1} /\ Sub(f, j, d, i) \in {0, 1}
  BY DEF One, Sub
<1> QED BY <1>2, <1>3, <1>4, <1>5 DEF Covers

\* An entry of a locked directory is written; L2 accounts for the difference.
LEMMA MidEntry ==
  ASSUME Inv, NEW p \in Procs, NEW f, NEW R, NEW K, NEW L, Mid(p, f, R, K, L),
         NEW d \in K, NEW n \in Elems, NEW x \in Ptrs, NEW L2 \in [Inums -> Int],
         \A q \in Others(p) : proc[q].pc \in Making => proc[q].ip # x,
         \A j \in Inums : Covers(Entry(f, d, n, x), j) + L2[j] = Covers(f, j) + L[j]
  PROVE  Mid(p, Entry(f, d, n, x), R, K, L2)
<1> DEFINE g == Entry(f, d, n, x)
<1>1. f \in Fs /\ Disk(f) /\ d \in Inums /\ d \in Live(f) /\ f.ic[d].lock = p
  BY DEF Mid, Disk
<1>2. /\ g \in Fs /\ g.disk = f.disk /\ g.up = f.up /\ g.ic = f.ic
      /\ \A j \in Inums : j # d => g.dirs[j] = f.dirs[j]
      /\ g.dirs[d][n] = x
      /\ \A m \in Elems : m # n => g.dirs[d][m] = f.dirs[d][m]
  BY <1>1, EntryEffect
<1>0. \A j \in Inums : Covers(g, j) + L2[j] = Covers(f, j) + L[j]
  OBVIOUS
<1> HIDE DEF g
<1>3. Live(g) = Live(f)
  BY <1>2 DEF Live
<1>4. Disk(g)
  BY <1>1, <1>2, <1>3 DEF Disk
<1>5. ASSUME NEW q \in Others(p) PROVE Keeps(q, fs, g)
  <2>1. q # p
    BY DEF Others
  <2>2. \A j \in Inums : f.ic[j].lock = q => g.dirs[j] = f.dirs[j]
    BY <1>1, <1>2, <2>1
  <2>3. proc[q].pc \in Making =>
          \A e \in Inums, m \in Elems : g.dirs[e][m] = proc[q].ip => f.dirs[e][m] = proc[q].ip
    BY <1>2
  <2>4. Keeps(q, f, g)
    BY <1>2, <1>3, <2>2, <2>3 DEF Keeps
  <2>5. Keeps(q, fs, f)
    BY DEF Mid
  <2> QED BY <2>4, <2>5, KeepsTrans
<1>6. ASSUME NEW j \in Inums
      PROVE  g.disk[j].nlink >= Covers(g, j) + Links(Others(p), j) + L2[j]
  <2>1. /\ f.disk[j].nlink >= Covers(f, j) + Links(Others(p), j) + L[j] /\ L[j] \in Int
        /\ f.disk[j].nlink \in Int /\ Links(Others(p), j) \in Int
    BY <1>1, RefsApart DEF Mid, Inv, Fs
  <2>2. Covers(f, j) \in Nat /\ Covers(g, j) \in Nat /\ L2[j] \in Int
    BY CoversNat
  <2>3. Covers(g, j) + L2[j] = Covers(f, j) + L[j]
    BY <1>0
  <2> QED BY <1>2, <2>1, <2>2, <2>3
<1>7. /\ R \in [Inums -> Nat] /\ K \subseteq Inums
      /\ \A j \in Inums : g.ic[j].ref = Refs(Others(p), j) + R[j]
      /\ \A j \in Inums : g.ic[j].lock = p <=> j \in K
      /\ \A j \in K : R[j] > 0 /\ j \in Live(g)
  BY <1>2, <1>3 DEF Mid
<1>8. Mid(p, g, R, K, L2)
  BY <1>4, <1>5, <1>6, <1>7 DEF Mid
<1> QED BY <1>8 DEF g

\* A new name.
LEMMA MidLink ==
  ASSUME Inv, NEW p \in Procs, NEW f, NEW R, NEW K, NEW L, Mid(p, f, R, K, L),
         NEW d \in K, NEW n \in Elems, NEW i \in Inums, f.dirs[d][n] = NoInode,
         \A q \in Others(p) : proc[q].pc \in Making => proc[q].ip # i,
         NEW L2 \in [Inums -> Int],
         \A j \in Inums : L2[j] = L[j] - One(j, i) - Sub(f, j, d, i)
  PROVE  Mid(p, Entry(f, d, n, i), R, K, L2)
<1> DEFINE g == Entry(f, d, n, i)
<1>1. f \in Fs /\ d \in Inums /\ i \in Ptrs
  BY DEF Mid, Disk, Ptrs
<1>2. /\ g \in Fs /\ g.disk = f.disk
      /\ \A j \in Inums : j # d => g.dirs[j] = f.dirs[j]
      /\ g.dirs[d][n] = i
      /\ \A m \in Elems : m # n => g.dirs[d][m] = f.dirs[d][m]
  BY <1>1, EntryEffect
<1> HIDE DEF g
<1>3. ASSUME NEW j \in Inums PROVE Covers(g, j) + L2[j] = Covers(f, j) + L[j]
  <2>1. Covers(g, j) = Covers(f, j) + One(j, i) + Sub(f, j, d, i)
    BY <1>1, <1>2, OneName
  <2>2. Covers(f, j) \in Nat /\ L[j] \in Int /\ One(j, i) \in Int /\ Sub(f, j, d, i) \in Int
    BY CoversNat DEF Mid, One, Sub
  <2>3. L2[j] = L[j] - One(j, i) - Sub(f, j, d, i)
    OBVIOUS
  <2> QED BY <2>1, <2>2, <2>3
<1> QED BY <1>1, <1>3, MidEntry DEF g

\* A name is cleared.
LEMMA MidUnlink ==
  ASSUME Inv, NEW p \in Procs, NEW f, NEW R, NEW K, NEW L, Mid(p, f, R, K, L),
         NEW d \in K, NEW n \in Elems, NEW i \in Inums, f.dirs[d][n] = i,
         NEW L2 \in [Inums -> Int],
         \A j \in Inums : L2[j] = L[j] + One(j, i) + Sub(f, j, d, i)
  PROVE  Mid(p, Entry(f, d, n, NoInode), R, K, L2)
<1> DEFINE g == Entry(f, d, n, NoInode)
<1>1. f \in Fs /\ d \in Inums /\ NoInode \in Ptrs
  BY DEF Mid, Disk, Ptrs
<1>2. /\ g \in Fs /\ g.disk = f.disk
      /\ \A j \in Inums : j # d => g.dirs[j] = f.dirs[j]
      /\ g.dirs[d][n] = NoInode
      /\ \A m \in Elems : m # n => g.dirs[d][m] = f.dirs[d][m]
  BY <1>1, EntryEffect
<1> HIDE DEF g
<1>3. ASSUME NEW j \in Inums PROVE Covers(g, j) + L2[j] = Covers(f, j) + L[j]
  <2>0. f.disk = g.disk /\ (\A e \in Inums : e # d => f.dirs[e] = g.dirs[e])
        /\ (\A m \in Elems : m # n => f.dirs[d][m] = g.dirs[d][m])
    BY <1>2
  <2>1. Covers(f, j) = Covers(g, j) + One(j, i) + Sub(g, j, d, i)
    BY <1>1, <1>2, <2>0, OneName
  <2>2. Covers(g, j) \in Nat /\ L[j] \in Int /\ One(j, i) \in Int /\ Sub(f, j, d, i) \in Int
    BY CoversNat DEF Mid, One, Sub
  <2>3. L2[j] = L[j] + One(j, i) + Sub(f, j, d, i) /\ Sub(g, j, d, i) = Sub(f, j, d, i)
    BY <1>2 DEF Sub
  <2> QED BY <2>1, <2>2, <2>3
<1>4. \A q \in Others(p) : proc[q].pc \in Making => proc[q].ip # NoInode
  BY DEF Inv, Uses, Relies, Shape, Stage, Others, Making
<1> QED BY <1>1, <1>3, <1>4, MidEntry DEF g

\* Nobody but a climbing rename has a free inode in hand, and it has no names.
LEMMA MidFree ==
  ASSUME Inv, NEW p \in Procs, NEW f, NEW R, NEW K, NEW L, Mid(p, f, R, K, L),
         NEW i \in Inums, f.disk[i].type = "free", L[i] >= 0
  PROVE  /\ \A q \in Others(p) : /\ proc[q].at # i /\ proc[q].ip # i
                                 /\ proc[q].target = i => proc[q].pc = "cycle"
         /\ NamesIn(f, i) = {}
         /\ Links(Others(p), i) = 0
<1>1. f \in Fs /\ Disk(f) /\ L[i] \in Int
  BY DEF Mid, Disk
<1>2. ASSUME NEW q \in Others(p)
      PROVE  /\ proc[q].at # i /\ proc[q].ip # i
             /\ proc[q].target = i => proc[q].pc = "cycle"
  <2>1. q \in Procs /\ Keeps(q, fs, f) /\ Uses(q, proc[q], fs)
    BY DEF Others, Mid, Inv
  <2>2. i \in {proc[q].at, proc[q].ip, proc[q].target} => fs.disk[i].type = "free"
    BY <2>1 DEF Keeps
  <2>3. i # NoInode
    BY Consts
  <2> QED BY <2>1, <2>2, <2>3 DEF Uses, Relies
<1>3. Links(Others(p), i) = 0
  <2>1. i # NoInode
    BY Consts
  <2>2. /\ {q \in Others(p) : IpLink(proc[q]) = i} = {} /\ {q \in Others(p) : AtLink(proc[q]) = i} = {}
        /\ {q \in Others(p) : TargetLink(proc[q]) = i} = {} /\ {q \in Others(p) : Missing(proc[q]) = i} = {}
    BY <1>2, <2>1 DEF IpLink, AtLink, TargetLink, Missing
  <2>3. Cardinality({}) = 0
    BY FS_EmptySet
  <2> QED BY <2>2, <2>3 DEF Links, LinksBy
<1>4. 0 >= Covers(f, i)
  <2>1. f.disk[i].nlink = 0
    BY <1>1 DEF Disk
  <2>2. f.disk[i].nlink >= Covers(f, i) + Links(Others(p), i) + L[i]
    BY DEF Mid
  <2>3. Covers(f, i) \in Nat
    BY CoversNat
  <2> QED BY <1>1, <1>3, <2>1, <2>2, <2>3
<1>5. Cardinality(NamesIn(f, i)) = 0
  BY <1>4, CoversNat DEF Covers
<1>6. NamesIn(f, i) = {}
  BY <1>5, CoversNat, FS_EmptySet
<1> QED BY <1>2, <1>3, <1>6

\* What has a name is in use.
LEMMA MidNamed ==
  ASSUME Inv, NEW p \in Procs, NEW f, NEW R, NEW K, NEW L, Mid(p, f, R, K, L),
         NEW d \in Inums, NEW n \in Elems, NEW i \in Inums, f.dirs[d][n] = i, L[i] >= 0
  PROVE  f.disk[i].type # "free"
<1>1. <<d, n>> \in NamesIn(f, i)
  BY DEF NamesIn
<1> QED BY <1>1, MidFree

\* fs_ialloc: a free inode gets a type.
Typed(f, i, t) == [f EXCEPT !.disk[i] = Dinode(t, 0)]

\* What p has in hand when it does.
LEMMA MidIalloc ==
  ASSUME Inv, NEW p \in Procs, NEW f, NEW R, NEW K, NEW L, Mid(p, f, R, K, L),
         NEW i \in Inums, f.disk[i].type = "free", L[i] >= 0, NEW t \in {"file", "dev", "dir"}
  PROVE  LET g == Typed(f, i, t) IN
         /\ Mid(p, g, R, K, L)
         /\ g.dirs = f.dirs /\ g.up = f.up /\ g.ic = f.ic /\ Live(g) = Live(f)
         /\ g.disk[i].type = t
         /\ \A j \in Inums : j # i => g.disk[j] = f.disk[j]
<1> DEFINE g == [f EXCEPT !.disk[i] = Dinode(t, 0)]
<1>1. f \in Fs /\ Disk(f)
  BY DEF Mid, Disk
<1>2. f.disk \in [Inums -> [type : Types, nlink : Int]] /\ Dinode(t, 0) \in [type : Types, nlink : Int]
  BY <1>1 DEF Fs, Dinode, Types
<1>3. /\ g.dirs = f.dirs /\ g.up = f.up /\ g.ic = f.ic
      /\ g.disk = [f.disk EXCEPT ![i] = Dinode(t, 0)]
      /\ g = [disk |-> g.disk, dirs |-> g.dirs, up |-> g.up, ic |-> g.ic]
  <2>1. f \in Fs
    BY <1>1
  <2>2. g.dirs = f.dirs /\ g.up = f.up /\ g.ic = f.ic
    BY <2>1 DEF Fs
  <2>3. g.disk = [f.disk EXCEPT ![i] = Dinode(t, 0)]
    BY <2>1 DEF Fs
  <2>4. g = [disk |-> g.disk, dirs |-> g.dirs, up |-> g.up, ic |-> g.ic]
    BY <2>1 DEF Fs
  <2> QED BY <2>2, <2>3, <2>4
<1> HIDE DEF g
<1>4. /\ g.disk \in [Inums -> [type : Types, nlink : Int]]
      /\ g.disk[i] = Dinode(t, 0) /\ \A j \in Inums : j # i => g.disk[j] = f.disk[j]
  BY <1>2, <1>3
<1>5. g \in Fs
  BY <1>1, <1>3, <1>4 DEF Fs
<1>6. Live(g) = Live(f) /\ g.disk[i].type = t /\ g.disk[i].nlink = 0
  BY <1>3, <1>4 DEF Live, Dinode
<1>7. i \notin Live(f) /\ i # ROOTINO /\ f.disk[i].nlink = 0 /\ NamesIn(f, i) = {}
  BY <1>1, MidFree DEF Disk
<1>8. Disk(g)
  <2>1. \A j \in Live(g) : g.ic[j].type = g.disk[j].type /\ g.ic[j].nlink = g.disk[j].nlink
    BY <1>1, <1>3, <1>4, <1>6, <1>7 DEF Disk, Live
  <2>2. g.disk[ROOTINO].type = "dir"
    BY <1>1, <1>4, <1>7, Consts DEF Disk
  <2>3. \A j \in Inums : g.disk[j].type = "free" =>
          g.disk[j].nlink = 0 /\ g.dirs[j] = Empty /\ j \notin Live(g)
    BY <1>1, <1>3, <1>4, <1>6 DEF Disk
  <2> QED BY <1>5, <2>1, <2>2, <2>3 DEF Disk
<1>9. ASSUME NEW q \in Others(p) PROVE Keeps(q, fs, g)
  <2>1. Keeps(q, f, g)
    BY <1>3, <1>4, <1>6 DEF Keeps
  <2>2. Keeps(q, fs, f)
    BY DEF Mid
  <2> QED BY <2>1, <2>2, KeepsTrans
<1>10. ASSUME NEW j \in Inums PROVE Covers(g, j) = Covers(f, j)
  <2>1. NamesIn(g, j) = NamesIn(f, j)
    BY <1>3 DEF NamesIn
  <2>2. ASSUME NEW n \in Elems PROVE f.dirs[j][n] # i
    <3>1. <<j, n>> \notin NamesIn(f, i)
      BY <1>7
    <3> QED BY <3>1 DEF NamesIn
  <2>3. \A n \in Elems : f.dirs[j][n] \in Inums \/ f.dirs[j][n] = NoInode
    BY <1>1 DEF Fs, Ptrs
  <2>4. DirsOf(g, j) = DirsOf(f, j)
    BY <1>3, <1>4, <2>2, <2>3 DEF DirsOf
  <2> QED BY <2>1, <2>4 DEF Covers
<1>11. \A j \in Inums : g.disk[j].nlink = f.disk[j].nlink
  BY <1>4, <1>6, <1>7
<1>12. Mid(p, g, R, K, L)
  <2>1. /\ R \in [Inums -> Nat] /\ K \subseteq Inums /\ L \in [Inums -> Int]
        /\ \A j \in Inums : g.ic[j].ref = Refs(Others(p), j) + R[j]
        /\ \A j \in Inums : g.ic[j].lock = p <=> j \in K
        /\ \A j \in K : R[j] > 0 /\ j \in Live(g)
    BY <1>3, <1>6 DEF Mid
  <2>2. \A j \in Inums : g.disk[j].nlink >= Covers(g, j) + Links(Others(p), j) + L[j]
    BY <1>10, <1>11 DEF Mid
  <2> QED BY <1>8, <1>9, <2>1, <2>2 DEF Mid
<1> QED BY <1>3, <1>4, <1>6, <1>12 DEF g, Typed

\* rename writes the entry .. of a directory; mkdir does.
LEMMA MidUp ==
  ASSUME Inv, NEW p \in Procs, NEW f, NEW R, NEW K, NEW L, Mid(p, f, R, K, L),
         NEW i \in Inums, NEW x \in Ptrs
  PROVE  LET g == [f EXCEPT !.up[i] = x] IN
         /\ Mid(p, g, R, K, L)
         /\ g.disk = f.disk /\ g.dirs = f.dirs /\ g.ic = f.ic /\ Live(g) = Live(f)
<1> DEFINE g == [f EXCEPT !.up[i] = x]
<1>1. f \in Fs /\ Disk(f)
  BY DEF Mid, Disk
<1>2. /\ g.disk = f.disk /\ g.dirs = f.dirs /\ g.ic = f.ic /\ g.up = [f.up EXCEPT ![i] = x]
      /\ g = [disk |-> g.disk, dirs |-> g.dirs, up |-> g.up, ic |-> g.ic]
  <2>1. f = [disk |-> f.disk, dirs |-> f.dirs, up |-> f.up, ic |-> f.ic]
    BY <1>1 DEF Fs
  <2>2. g = [disk |-> f.disk, dirs |-> f.dirs, up |-> [f.up EXCEPT ![i] = x], ic |-> f.ic]
    BY <2>1
  <2> HIDE DEF g
  <2> QED BY <2>2
<1> HIDE DEF g
<1>3. g.up \in [Inums -> Ptrs]
  BY <1>1, <1>2 DEF Fs
<1>4. g \in Fs
  BY <1>1, <1>2, <1>3 DEF Fs
<1>5. Live(g) = Live(f)
  BY <1>2 DEF Live
<1>6. Disk(g)
  BY <1>1, <1>2, <1>4, <1>5 DEF Disk
<1>7. /\ R \in [Inums -> Nat] /\ K \in SUBSET Inums
      /\ \A j \in Inums : g.ic[j].ref = f.ic[j].ref + R[j] - R[j]
  <2>1. R \in [Inums -> Nat] /\ K \in SUBSET Inums
    BY DEF Mid
  <2>2. \A j \in Inums : f.ic[j].ref \in Nat
    BY <1>1 DEF Fs, Slots
  <2> QED BY <1>2, <2>1, <2>2
<1>8. /\ \A j \in Inums : g.ic[j].lock = p <=> j \in K
      /\ \A j \in Inums : \A q \in Others(p) : g.ic[j].lock = q <=> f.ic[j].lock = q
      /\ \A j \in K : R[j] > 0 /\ j \in Live(g)
      /\ \A j \in Inums : j \in Live(f) => j \in Live(g)
  BY <1>2, <1>5 DEF Mid
<1>9. Mid(p, g, R, K, L)
  BY <1>2, <1>6, <1>7, <1>8, TableStep
<1> QED BY <1>2, <1>5, <1>9 DEF g

\* What a process has in hand between two steps.
LEMMA MidStart ==
  ASSUME Inv, NEW p \in Procs
  PROVE  Mid(p, fs, Own(proc[p]), Locks(proc[p]), Claims(proc[p]))
<1> DEFINE r == proc[p]
<1>1. /\ Disk(fs) /\ proc \in [Procs -> Locals] /\ Uses(p, r, fs)
  BY DEF Inv
<1>2. \A x, y : One(x, y) \in {0, 1}
  BY DEF One
<1>3. Own(r) \in [Inums -> Nat] /\ Claims(r) \in [Inums -> Int]
  BY <1>2 DEF Own, Claims
<1>4. Locks(r) \subseteq Inums
  BY DEF Locks
<1>5. ASSUME NEW i \in Inums
      PROVE  /\ fs.ic[i].ref = Refs(Others(p), i) + Own(r)[i]
             /\ fs.disk[i].nlink >= Covers(fs, i) + Links(Others(p), i) + Claims(r)[i]
  <2>1. /\ Refs(Procs, i) = Refs(Others(p), i) + Own(r)[i]
        /\ Links(Procs, i) = Links(Others(p), i) + Claims(r)[i] /\ Links(Others(p), i) \in Int
    BY <1>1, RefsApart
  <2>2. fs.ic[i].ref = Refs(Procs, i)
    BY DEF Inv, References
  <2>3. fs.disk[i].nlink >= Covers(fs, i) + Links(Procs, i)
    BY DEF Inv, Ledger, Covers
  <2>4. Covers(fs, i) \in Nat /\ Claims(r)[i] \in Int
    BY <1>3, CoversNat
  <2> QED BY <2>1, <2>2, <2>3, <2>4
<1>6. ASSUME NEW i \in Locks(r) PROVE Own(r)[i] > 0 /\ i \in Live(fs)
  <2>1. i \in Inums /\ i \in {r.at, r.ip, r.target}
    BY DEF Locks
  <2>2. Own(r)[i] = One(i, r.at) + One(i, r.ip) + One(i, r.target)
    BY <2>1 DEF Own
  <2>3. One(i, r.at) = 1 \/ One(i, r.ip) = 1 \/ One(i, r.target) = 1
    BY <2>1 DEF One
  <2> QED BY <1>1, <1>2, <2>2, <2>3 DEF Uses
<1>7. \A q \in Others(p) : Keeps(q, fs, fs)
  BY DEF Keeps
<1> HIDE DEF r
<1>8. Mid(p, fs, Own(r), Locks(r), Claims(r))
  BY <1>1, <1>3, <1>4, <1>5, <1>6, <1>7 DEF Mid, Uses
<1> QED BY <1>8 DEF r

\* Where a process can have an inode from: it had it, it is the root, a free one, or
\* one that has a name.
Found1(p, i) ==
  \/ i \in {proc[p].at, proc[p].ip}
  \/ i = proc[p].target /\ proc[p].pc # "cycle"
  \/ i = ROOTINO
  \/ fs.disk[i].type = "free"
  \/ \E d \in Inums, n \in Elems : fs.dirs[d][n] = i

\* A step of p that ends at r preserves the invariant if what p has in hand is right.
LEMMA MidEnd ==
  ASSUME Inv, NEW p \in Procs, NEW r \in Locals, proc' = [proc EXCEPT ![p] = r],
         Mid(p, fs', Own(r), Locks(r), Claims(r)), Relies(r, fs'),
         r.at # NoInode => Found1(p, r.at), r.ip # NoInode => Found1(p, r.ip),
         r.target # NoInode /\ r.pc # "cycle" => Found1(p, r.target),
         r.pc \in Making =>
           /\ r.ip # ROOTINO
           /\ \A d \in Inums, n \in Elems : fs'.dirs[d][n] # r.ip
           /\ \A q \in Others(p) : /\ proc[q].at # r.ip /\ proc[q].ip # r.ip
                                   /\ proc[q].target = r.ip => proc[q].pc = "cycle",
         rename_lock' \in Procs \cup {NoProc}, calls' \in 0 .. MaxCalls,
         rename_lock' = p <=> r.call = "rename" /\ r.pc # "lock",
         \A q \in Others(p) : rename_lock' = q <=> rename_lock = q
  PROVE  Inv'
<1>1. /\ proc \in [Procs -> Locals] /\ proc' \in [Procs -> Locals] /\ proc'[p] = r
      /\ \A q \in Others(p) : proc'[q] = proc[q] /\ q \in Procs /\ q # p
  BY DEF Inv, Others
<1>2. Disk(fs')
  BY DEF Mid
<1>3. ASSUME NEW q \in Others(p) PROVE Uses(q, proc[q], fs')
  <2>1. Keeps(q, fs, fs') /\ Uses(q, proc[q], fs) /\ proc[q] \in Locals
    BY <1>1 DEF Mid, Inv
  <2>2. \A i \in Inums : fs'.ic[i].lock = q <=> i \in Locks(proc[q])
    BY <2>1 DEF Uses, Keeps
  <2>3. \A i \in Locks(proc[q]) : i \in Inums /\ i \in {proc[q].at, proc[q].ip, proc[q].target}
    BY DEF Locks
  <2>4. Locks(proc[q]) \subseteq Live(fs')
    BY <2>1, <2>3 DEF Uses, Keeps
  <2>5. Relies(proc[q], fs')
    <3>1. Relies(proc[q], fs) /\ Shape(proc[q])
      BY <2>1 DEF Uses, Relies
    <3>2. /\ proc[q].at # NoInode => proc[q].at \in Inums
          /\ proc[q].ip # NoInode => proc[q].ip \in Inums
          /\ proc[q].target # NoInode => proc[q].target \in Inums
      BY <2>1 DEF Locals, Ptrs
    <3>3. ASSUME NEW i \in Inums, i \in {proc[q].at, proc[q].ip, proc[q].target}
          PROVE  /\ i \in Live(fs) => i \in Live(fs')
                 /\ fs.disk[i].type # "free" => fs'.disk[i].type = fs.disk[i].type
      BY <2>1, <3>3 DEF Keeps
    <3>4. proc[q].pc \in LockAt => proc[q].at \in Inums /\ fs'.dirs[proc[q].at] = fs.dirs[proc[q].at]
      <4>1. SUFFICES ASSUME proc[q].pc \in LockAt
                     PROVE  proc[q].at \in Inums /\ fs'.dirs[proc[q].at] = fs.dirs[proc[q].at]
        OBVIOUS
      <4>2. proc[q].at # NoInode
        BY <3>1, <4>1 DEF Shape, LockAt, Making, Removing
      <4>3. proc[q].at \in Inums /\ proc[q].at \in Locks(proc[q])
        BY <3>2, <4>1, <4>2 DEF Locks
      <4>4. fs.ic[proc[q].at].lock = q
        BY <2>1, <4>3 DEF Uses
      <4> QED BY <2>1, <4>3, <4>4 DEF Keeps
    <3>5. Stage(proc[q]) \in Known => proc[q].ip \in Live(fs')
      BY <3>1, <3>3 DEF Relies, Live
    <3>6. /\ proc[q].at # NoInode => fs'.disk[proc[q].at].type = fs.disk[proc[q].at].type
          /\ proc[q].ip # NoInode => fs'.disk[proc[q].ip].type = fs.disk[proc[q].ip].type
          /\ proc[q].target # NoInode /\ proc[q].pc # "cycle" =>
               fs'.disk[proc[q].target].type = fs.disk[proc[q].target].type
      BY <3>1, <3>2, <3>3 DEF Relies
    <3>7. /\ proc[q].pc \in {"victim", "clear", "replace", "replaced", "relink", "recount"} \cup Making =>
               proc[q].pc \in LockAt
          /\ proc[q].pc \in Making \cup {"recount"} => proc[q].ip # NoInode
          /\ proc[q].pc = "cycle" \/ Stage(proc[q]) = "dirlink" => proc[q].ip # NoInode
          /\ proc[q].pc \in LockAt \cup Parents => proc[q].at # NoInode
      BY <3>1 DEF Shape, Stage, LockAt, Making, Removing, Parents
    <3> QED BY <3>1, <3>4, <3>5, <3>6, <3>7 DEF Relies
  <2> QED BY <2>2, <2>4, <2>5 DEF Uses
<1>4. Uses(p, r, fs')
  BY DEF Mid, Uses
<1>5. \A q \in Procs : (Uses(q, proc[q], fs))'
  BY <1>1, <1>3, <1>4 DEF Others
<1>6. ASSUME NEW q \in Others(p) PROVE Fresh(q)'
  <2>1. SUFFICES ASSUME proc[q].pc \in Making
                 PROVE  /\ proc[q].ip # ROOTINO
                        /\ \A d \in Inums, n \in Elems : fs'.dirs[d][n] # proc[q].ip
                        /\ \A x \in Procs \ {q} :
                             /\ proc'[x].at # proc[q].ip /\ proc'[x].ip # proc[q].ip
                             /\ proc'[x].target = proc[q].ip => proc'[x].pc = "cycle"
    BY <1>1 DEF Fresh
  <2>2. Fresh(q) /\ Uses(q, proc[q], fs) /\ Keeps(q, fs, fs')
    BY <1>1 DEF Inv, Mid
  <2>3. /\ proc[q].ip # ROOTINO
        /\ \A d \in Inums, n \in Elems : fs.dirs[d][n] # proc[q].ip
        /\ \A x \in Procs \ {q} : /\ proc[x].at # proc[q].ip /\ proc[x].ip # proc[q].ip
                                  /\ proc[x].target = proc[q].ip => proc[x].pc = "cycle"
    BY <2>1, <2>2 DEF Fresh
  <2>4. \A d \in Inums, n \in Elems : fs'.dirs[d][n] # proc[q].ip
    BY <2>1, <2>2, <2>3 DEF Keeps
  <2>5. proc[q].ip # NoInode /\ fs.disk[proc[q].ip].type # "free"
    BY <2>1, <2>2 DEF Uses, Relies, Shape, Stage, Making
  <2>6. ~Found1(p, proc[q].ip)
    BY <1>1, <2>3, <2>5 DEF Found1
  <2>7. r.at # proc[q].ip /\ r.ip # proc[q].ip /\ (r.target = proc[q].ip => r.pc = "cycle")
    BY <2>5, <2>6
  <2>8. ASSUME NEW x \in Procs \ {q}
        PROVE  /\ proc'[x].at # proc[q].ip /\ proc'[x].ip # proc[q].ip
               /\ proc'[x].target = proc[q].ip => proc'[x].pc = "cycle"
    <3>1. CASE x = p
      BY <1>1, <2>7, <3>1
    <3>2. CASE x # p
      BY <1>1, <2>3, <3>2 DEF Others
    <3> QED BY <3>1, <3>2
  <2> QED BY <2>3, <2>4, <2>8
<1>7. Fresh(p)'
  BY <1>1 DEF Fresh, Others
<1>8. \A q \in Procs : Fresh(q)'
  BY <1>6, <1>7 DEF Others
<1>9. ASSUME NEW i \in Inums
      PROVE  /\ RefsBy(proc', Others(p), i) = Refs(Others(p), i)
             /\ LinksBy(proc', Others(p), i) = Links(Others(p), i)
  <2>1. /\ {q \in Others(p) : proc'[q].at = i} = {q \in Others(p) : proc[q].at = i}
        /\ {q \in Others(p) : proc'[q].ip = i} = {q \in Others(p) : proc[q].ip = i}
        /\ {q \in Others(p) : proc'[q].target = i} = {q \in Others(p) : proc[q].target = i}
        /\ {q \in Others(p) : IpLink(proc'[q]) = i} = {q \in Others(p) : IpLink(proc[q]) = i}
        /\ {q \in Others(p) : AtLink(proc'[q]) = i} = {q \in Others(p) : AtLink(proc[q]) = i}
        /\ {q \in Others(p) : TargetLink(proc'[q]) = i} = {q \in Others(p) : TargetLink(proc[q]) = i}
        /\ {q \in Others(p) : Missing(proc'[q]) = i} = {q \in Others(p) : Missing(proc[q]) = i}
    BY <1>1
  <2> QED BY <2>1 DEF RefsBy, LinksBy, Refs, Links
<1>10. ASSUME NEW i \in Inums
       PROVE  /\ fs'.ic[i].ref = RefsBy(proc', Procs, i)
              /\ fs'.disk[i].nlink >= Covers(fs', i) + LinksBy(proc', Procs, i)
  <2>1. /\ RefsBy(proc', Procs, i) = RefsBy(proc', Others(p), i) + Own(r)[i]
        /\ LinksBy(proc', Procs, i) = LinksBy(proc', Others(p), i) + Claims(r)[i]
    BY <1>1, RefsByApart
  <2>2. /\ fs'.ic[i].ref = Refs(Others(p), i) + Own(r)[i]
        /\ fs'.disk[i].nlink >= Covers(fs', i) + Links(Others(p), i) + Claims(r)[i]
    BY DEF Mid
  <2>3. Covers(fs', i) \in Nat /\ Links(Others(p), i) \in Int /\ Claims(r)[i] \in Int
    BY <1>1, CoversNat, RefsApart DEF Mid
  <2>4. /\ RefsBy(proc', Procs, i) = Refs(Others(p), i) + Own(r)[i]
        /\ LinksBy(proc', Procs, i) = Links(Others(p), i) + Claims(r)[i]
    BY <1>9, <2>1
  <2>5. \A a, b, c, e \in Int : a >= b + c + e => a >= b + (c + e)
    OBVIOUS
  <2>6. fs'.disk[i].nlink \in Int
    BY <1>2 DEF Disk, Fs
  <2> QED BY <2>2, <2>3, <2>4, <2>5, <2>6
<1>11. References'
  BY <1>10 DEF References, Refs
<1>12. Ledger'
  <2>1. \A i \in Inums : fs'.disk[i].nlink >= Cardinality(NamesIn(fs', i)) + Cardinality(DirsOf(fs', i))
                                              + LinksBy(proc', Procs, i)
    BY <1>10 DEF Covers
  <2> QED BY <2>1 DEF Ledger, Links
<1>13. Renaming'
  BY <1>1 DEF Renaming, Inv, Others
<1> QED BY <1>1, <1>2, <1>5, <1>8, <1>11, <1>12, <1>13 DEF Inv

-----------------------------------------------------------------------------
(* The same operations, with the references, locks and links listed *)

Held(a, b, c, d) == [i \in Inums |-> One(i, a) + One(i, b) + One(i, c) + One(i, d)]
Locked(a, b) == {i \in Inums : i = a \/ i = b}
Due(a, b, c, m) == [i \in Inums |-> One(i, a) + One(i, b) + One(i, c) - One(i, m)]

\* Names and types do not change, and what was read stays read.
Same(f, g, i) == g.disk[i].type = f.disk[i].type /\ (i \in Live(f) => i \in Live(g))
Still(f, g) == g.dirs = f.dirs /\ g.up = f.up /\ \A i \in Inums : Same(f, g, i)

\* What fs_iput(x) leaves alone: everything but x, and x too if it is one of b, c and d,
\* to which the process still refers; it makes no name.
Kept(f, g, x, b, c, d) ==
  /\ \A i \in Inums : i # x \/ i = b \/ i = c \/ i = d =>
       Same(f, g, i) /\ g.dirs[i] = f.dirs[i] /\ g.up[i] = f.up[i]
  /\ \A e \in Inums, n \in Elems : g.dirs[e][n] # NoInode => g.dirs[e][n] = f.dirs[e][n]

\* One name changes.
Renamed(f, g, d, n, x) ==
  /\ g.up = f.up /\ \A i \in Inums : Same(f, g, i)
  /\ \A i \in Inums : i # d => g.dirs[i] = f.dirs[i]
  /\ g.dirs[d][n] = x /\ \A m \in Elems : m # n => g.dirs[d][m] = f.dirs[d][m]

\* Lists of references, locks and links.
LEMMA Lists ==
  /\ \A a, b, c, d : Held(a, b, c, d) \in [Inums -> Nat]
  /\ \A a, b, c, m : Due(a, b, c, m) \in [Inums -> Int]
  /\ \A a, b, c, d : /\ Held(a, b, c, d) = Held(b, a, c, d) /\ Held(a, b, c, d) = Held(c, b, a, d)
                     /\ Held(a, b, c, d) = Held(d, b, c, a)
  /\ \A a, b : Locked(a, b) = Locked(b, a) /\ Locked(a, a) = Locked(a, NoInode)
  /\ \A a, b, c, m : Due(a, b, c, m) = Due(b, a, c, m) /\ Due(a, b, c, m) = Due(c, b, a, m)
  /\ \A a, b, c, d : \A i \in Inums : Held(a, b, c, d)[i] > 0 <=> i \in {a, b, c, d}
  /\ \A r : Own(r) = Held(r.at, r.ip, r.target, NoInode)
  /\ \A r : Claims(r) = Due(IpLink(r), AtLink(r), TargetLink(r), Missing(r))
<1>1. \A x, y : One(x, y) \in {0, 1} /\ (One(x, y) = 1 <=> x = y)
  BY DEF One
<1>2. \A i \in Inums : One(i, NoInode) = 0
  BY Consts DEF One
<1>3. \A a, b, c, d : Held(a, b, c, d) \in [Inums -> Nat]
  BY <1>1 DEF Held
<1>4. \A a, b, c, m : Due(a, b, c, m) \in [Inums -> Int]
  BY <1>1 DEF Due
<1>5. \A a, b, c, d : /\ Held(a, b, c, d) = Held(b, a, c, d) /\ Held(a, b, c, d) = Held(c, b, a, d)
                      /\ Held(a, b, c, d) = Held(d, b, c, a)
  BY <1>1 DEF Held
<1>6. ASSUME NEW a, NEW b, NEW c, NEW d, NEW i \in Inums
      PROVE  Held(a, b, c, d)[i] > 0 <=> i \in {a, b, c, d}
  BY <1>1 DEF Held
<1>7. ASSUME NEW r PROVE Own(r) = Held(r.at, r.ip, r.target, NoInode)
  BY <1>1, <1>2 DEF Held, Own
<1>8. ASSUME NEW r PROVE Claims(r) = Due(IpLink(r), AtLink(r), TargetLink(r), Missing(r))
  BY DEF Due, Claims
<1>9. \A a, b : Locked(a, b) = Locked(b, a) /\ Locked(a, a) = Locked(a, NoInode)
  BY Consts DEF Locked
<1>10. \A a, b, c, m : Due(a, b, c, m) = Due(b, a, c, m) /\ Due(a, b, c, m) = Due(c, b, a, m)
  BY <1>1 DEF Due
<1> QED BY <1>3, <1>4, <1>5, <1>6, <1>7, <1>8, <1>9, <1>10

\* What was read of an inode is what the disk says.
LEMMA ReadIs ==
  ASSUME NEW p, NEW f, NEW R, NEW K, NEW L, Mid(p, f, R, K, L), NEW i \in Live(f)
  PROVE  f.ic[i].type = f.disk[i].type
BY DEF Mid, Disk

\* fs_iget
LEMMA GetOp ==
  ASSUME Inv, NEW p \in Procs, NEW f, NEW K, NEW L, NEW a, NEW b, NEW c,
         Mid(p, f, Held(a, b, c, NoInode), K, L), NEW x \in Inums
  PROVE  /\ Mid(p, Iget(f, x), Held(a, b, c, x), K, L) /\ Still(f, Iget(f, x))
         /\ \A i \in Inums : Iget(f, x).ic[i].lock = f.ic[i].lock
<1>1. Held(a, b, c, x) \in [Inums -> Nat]
  BY Lists
<1>2. \A j \in Inums : Held(a, b, c, x)[j] = Held(a, b, c, NoInode)[j] + One(j, x)
  <2>1. \A j \in Inums : One(j, NoInode) = 0
    BY Consts DEF One
  <2>2. \A i, j : One(i, j) \in Int
    BY DEF One
  <2> QED BY <2>1, <2>2 DEF Held
<1>3. /\ Mid(p, Iget(f, x), Held(a, b, c, x), K, L)
      /\ Iget(f, x).disk = f.disk /\ Iget(f, x).dirs = f.dirs /\ Iget(f, x).up = f.up
      /\ Live(Iget(f, x)) = Live(f)
      /\ \A j \in Inums : Iget(f, x).ic[j].lock = f.ic[j].lock
  BY <1>1, <1>2, MidIget
<1> QED BY <1>3 DEF Same, Still

\* fs_ilock
LEMMA LockOp ==
  ASSUME Inv, NEW p \in Procs, NEW f, NEW L, NEW b, NEW c, NEW d, NEW k, NEW x \in Inums,
         Mid(p, f, Held(x, b, c, d), Locked(NoInode, k), L),
         f.ic[x].lock = NoProc, f.disk[x].type # "free"
  PROVE  /\ Mid(p, Ilock(f, p, x), Held(x, b, c, d), Locked(x, k), L) /\ Still(f, Ilock(f, p, x))
         /\ x \in Live(Ilock(f, p, x))
<1> DEFINE K == Locked(NoInode, k)
           R == Held(x, b, c, d)
<1>1. R[x] > 0
  BY Lists
<1>2. K \cup {x} = Locked(x, k)
  BY Consts DEF Locked
<1> HIDE DEF K, R
<1>3. Mid(p, f, R, K, L)
  BY DEF K, R
<1>4. LET g == Ilock(f, p, x) IN
         /\ Mid(p, g, R, K \cup {x}, L)
         /\ g.disk = f.disk /\ g.dirs = f.dirs /\ g.up = f.up
         /\ Live(g) = Live(f) \cup {x}
  BY <1>1, <1>3, MidIlock
<1> DEFINE J == K \cup {x}
           g == Ilock(f, p, x)
<1>5. J = Locked(x, k)
  BY <1>2
<1>6. Mid(p, g, R, J, L)
  BY <1>4
<1>7. Still(f, g) /\ x \in Live(g)
  BY <1>4 DEF Still, Same
<1> HIDE DEF J, g
<1>8. Mid(p, g, R, Locked(x, k), L)
  BY <1>5, <1>6
<1> QED BY <1>7, <1>8 DEF g, R

\* fs_iunlock
LEMMA UnlockOp ==
  ASSUME Inv, NEW p \in Procs, NEW f, NEW R, NEW L, NEW k, NEW x \in Inums, x # k,
         Mid(p, f, R, Locked(x, k), L)
  PROVE  Mid(p, Iunlock(f, x), R, Locked(NoInode, k), L) /\ Still(f, Iunlock(f, x))
<1> DEFINE K == Locked(x, k)
           J == K \ {x}
           g == Iunlock(f, x)
<1>1. J = Locked(NoInode, k) /\ x \in K
  BY Consts DEF Locked
<1> HIDE DEF K
<1>2. Mid(p, f, R, K, L)
  BY DEF K
<1>3. /\ Mid(p, g, R, J, L)
      /\ g.disk = f.disk /\ g.dirs = f.dirs /\ g.up = f.up /\ Live(g) = Live(f)
  BY <1>1, <1>2, MidIunlock
<1> HIDE DEF J, g
<1> QED BY <1>1, <1>3 DEF Still, Same, g

\* fs_iput
LEMMA PutOp ==
  ASSUME Inv, NEW p \in Procs, NEW f, NEW K, NEW b, NEW c, NEW d,
         NEW u, NEW v, NEW w, NEW m, NEW x \in Inums,
         Mid(p, f, Held(x, b, c, d), K, Due(u, v, w, m)), x \notin K,
         x = b \/ x = c \/ x = d \/ (x # u /\ x # v /\ x # w /\ x # m)
  PROVE  /\ Mid(p, Iput(f, x), Held(NoInode, b, c, d), K, Due(u, v, w, m))
         /\ Kept(f, Iput(f, x), x, b, c, d)
<1> DEFINE R2 == Held(NoInode, b, c, d)
           g == Iput(f, x)
           L == Due(u, v, w, m)
<1>0. x \notin {b, c, d} => L[x] = 0
  BY DEF Due, One
<1>1. R2 \in [Inums -> Nat] /\ Held(x, b, c, d)[x] > 0
  BY Lists
<1>2. \A j \in Inums : R2[j] = Held(x, b, c, d)[j] - One(j, x)
  <2>1. \A j \in Inums : One(j, NoInode) = 0
    BY Consts DEF One
  <2>2. \A i, j : One(i, j) \in Int
    BY DEF One
  <2> QED BY <2>1, <2>2 DEF Held
<1>3. R2[x] > 0 <=> x \in {b, c, d}
  <2>1. x # NoInode
    BY Consts
  <2> QED BY <2>1, Lists
<1> HIDE DEF R2, L
<1>4. R2[x] = 0 => L[x] = 0
  BY <1>0, <1>1, <1>3
<1>5. /\ Mid(p, g, R2, K, L)
      /\ \A j \in Inums : j # x \/ R2[x] > 0 =>
           /\ g.disk[j] = f.disk[j] /\ g.dirs[j] = f.dirs[j] /\ g.up[j] = f.up[j]
           /\ j \in Live(g) <=> j \in Live(f)
           /\ g.ic[j].type = f.ic[j].type
      /\ \A j \in Inums : g.ic[j].lock = f.ic[j].lock
      /\ \A e \in Inums, n \in Elems : g.dirs[e][n] # NoInode => g.dirs[e][n] = f.dirs[e][n]
  <2>1. Mid(p, f, Held(x, b, c, d), K, L)
    BY DEF L
  <2> QED BY <1>1, <1>2, <1>4, <2>1, MidIput
<1> HIDE DEF g
<1>6. \A i \in Inums : i # x \/ i \in {b, c, d} =>
        Same(f, g, i) /\ g.dirs[i] = f.dirs[i] /\ g.up[i] = f.up[i]
  BY <1>3, <1>5 DEF Same
<1>7. Kept(f, g, x, b, c, d)
  BY <1>5, <1>6 DEF Kept
<1> QED BY <1>5, <1>7 DEF R2, g, L

\* fs_iunlockput
LEMMA LeaveOp ==
  ASSUME Inv, NEW p \in Procs, NEW f, NEW b, NEW c, NEW d, NEW k,
         NEW u, NEW v, NEW w, NEW m, NEW x \in Inums, x # k,
         Mid(p, f, Held(x, b, c, d), Locked(x, k), Due(u, v, w, m)),
         x = b \/ x = c \/ x = d \/ (x # u /\ x # v /\ x # w /\ x # m)
  PROVE  /\ Mid(p, Iunlockput(f, x), Held(NoInode, b, c, d), Locked(NoInode, k), Due(u, v, w, m))
         /\ Kept(f, Iunlockput(f, x), x, b, c, d)
<1> DEFINE h == Iunlock(f, x)
           g == Iput(h, x)
<1>1. Mid(p, h, Held(x, b, c, d), Locked(NoInode, k), Due(u, v, w, m)) /\ Still(f, h)
  BY UnlockOp
<1>2. x \notin Locked(NoInode, k)
  BY Consts DEF Locked
<1> HIDE DEF h
<1>3. /\ Mid(p, g, Held(NoInode, b, c, d), Locked(NoInode, k), Due(u, v, w, m))
      /\ Kept(h, g, x, b, c, d)
  BY <1>1, <1>2, PutOp
<1>4. Iunlockput(f, x) = g
  BY DEF Iunlockput, h
<1> HIDE DEF g
<1>5. Kept(f, g, x, b, c, d)
  BY <1>1, <1>3 DEF Kept, Still, Same
<1> QED BY <1>3, <1>4, <1>5

\* ip->nlink++, with fs_iupdate: a link is counted that is not yet a name.
LEMMA CountUp ==
  ASSUME Inv, NEW p \in Procs, NEW f, NEW R, NEW K, NEW v, NEW w, NEW m, NEW x \in K,
         Mid(p, f, R, K, Due(NoInode, v, w, m))
  PROVE  Mid(p, Count(f, x, 1), R, K, Due(x, v, w, m)) /\ Still(f, Count(f, x, 1))
<1> DEFINE L == Due(NoInode, v, w, m)
           L2 == Due(x, v, w, m)
<1>1. x \in Inums /\ L2[x] = L[x] + 1 /\ \A j \in Inums : j # x => L2[j] = L[j]
  <2>1. \A j \in Inums : One(j, NoInode) = 0
    BY Consts DEF One
  <2>2. \A i, j : One(i, j) \in Int /\ (i # j => One(i, j) = 0) /\ One(i, i) = 1
    BY DEF One
  <2>3. x \in Inums
    BY DEF Mid
  <2> QED BY <2>1, <2>2, <2>3 DEF Due
<1>2. L2 \in [Inums -> Int]
  BY Lists
<1> HIDE DEF L, L2
<1>3. Mid(p, f, R, K, L)
  BY DEF L
<1> DEFINE g == Count(f, x, 1)
<1>4. Mid(p, g, R, K, L2)
  BY <1>1, <1>2, <1>3, MidCount
<1>5. /\ g.dirs = f.dirs /\ g.up = f.up /\ Live(g) = Live(f)
      /\ \A j \in Inums : g.disk[j].type = f.disk[j].type
  BY <1>1, <1>2, <1>3, MidCount
<1> HIDE DEF g
<1>6. Still(f, g)
  BY <1>5 DEF Still, Same
<1> QED BY <1>4, <1>6 DEF g, L2

\* ip->nlink--, with fs_iupdate.
LEMMA CountDown ==
  ASSUME Inv, NEW p \in Procs, NEW f, NEW R, NEW K, NEW v, NEW w, NEW m, NEW x \in K,
         Mid(p, f, R, K, Due(x, v, w, m))
  PROVE  Mid(p, Count(f, x, -1), R, K, Due(NoInode, v, w, m)) /\ Still(f, Count(f, x, -1))
<1> DEFINE L == Due(x, v, w, m)
           L2 == Due(NoInode, v, w, m)
<1>1. x \in Inums /\ L2[x] = L[x] + (-1) /\ \A j \in Inums : j # x => L2[j] = L[j]
  <2>1. \A j \in Inums : One(j, NoInode) = 0
    BY Consts DEF One
  <2>2. \A i, j : One(i, j) \in Int /\ (i # j => One(i, j) = 0) /\ One(i, i) = 1
    BY DEF One
  <2>3. x \in Inums
    BY DEF Mid
  <2> QED BY <2>1, <2>2, <2>3 DEF Due
<1>2. L2 \in [Inums -> Int]
  BY Lists
<1> HIDE DEF L, L2
<1>3. Mid(p, f, R, K, L)
  BY DEF L
<1> DEFINE g == Count(f, x, -1)
<1>4. Mid(p, g, R, K, L2)
  BY <1>1, <1>2, <1>3, MidCount
<1>5. /\ g.dirs = f.dirs /\ g.up = f.up /\ Live(g) = Live(f)
      /\ \A j \in Inums : g.disk[j].type = f.disk[j].type
  BY <1>1, <1>2, <1>3, MidCount
<1> HIDE DEF g
<1>6. Still(f, g)
  BY <1>5 DEF Still, Same
<1> QED BY <1>4, <1>6 DEF g, L2

\* ip->nlink++ for a directory that was linked before it was counted.
LEMMA CountLate ==
  ASSUME Inv, NEW p \in Procs, NEW f, NEW R, NEW K, NEW u, NEW v, NEW w, NEW x \in K,
         Mid(p, f, R, K, Due(u, v, w, x))
  PROVE  Mid(p, Count(f, x, 1), R, K, Due(u, v, w, NoInode)) /\ Still(f, Count(f, x, 1))
<1> DEFINE L == Due(u, v, w, x)
           L2 == Due(u, v, w, NoInode)
<1>1. x \in Inums /\ L2[x] = L[x] + 1 /\ \A j \in Inums : j # x => L2[j] = L[j]
  <2>1. \A j \in Inums : One(j, NoInode) = 0
    BY Consts DEF One
  <2>2. \A i, j : One(i, j) \in Int /\ (i # j => One(i, j) = 0) /\ One(i, i) = 1
    BY DEF One
  <2>3. x \in Inums
    BY DEF Mid
  <2> QED BY <2>1, <2>2, <2>3 DEF Due
<1>2. L2 \in [Inums -> Int]
  BY Lists
<1> HIDE DEF L, L2
<1>3. Mid(p, f, R, K, L)
  BY DEF L
<1> DEFINE g == Count(f, x, 1)
<1>4. Mid(p, g, R, K, L2)
  BY <1>1, <1>2, <1>3, MidCount
<1>5. /\ g.dirs = f.dirs /\ g.up = f.up /\ Live(g) = Live(f)
      /\ \A j \in Inums : g.disk[j].type = f.disk[j].type
  BY <1>1, <1>2, <1>3, MidCount
<1> HIDE DEF g
<1>6. Still(f, g)
  BY <1>5 DEF Still, Same
<1> QED BY <1>4, <1>6 DEF g, L2

\* What writing one name changes.
LEMMA EntryIs ==
  ASSUME NEW p, NEW f, NEW R, NEW K, NEW L, Mid(p, f, R, K, L),
         NEW d \in K, NEW n \in Elems, NEW x \in Ptrs
  PROVE  Renamed(f, Entry(f, d, n, x), d, n, x)
<1>1. f \in Fs /\ d \in Inums
  BY DEF Mid, Disk
<1> DEFINE g == Entry(f, d, n, x)
<1>2. /\ g.disk = f.disk /\ g.up = f.up /\ g.ic = f.ic
      /\ \A j \in Inums : j # d => g.dirs[j] = f.dirs[j]
      /\ g.dirs[d][n] = x
      /\ \A m \in Elems : m # n => g.dirs[d][m] = f.dirs[d][m]
  BY <1>1, EntryEffect
<1> HIDE DEF g
<1>3. Live(g) = Live(f)
  BY <1>2 DEF Live
<1>4. Renamed(f, g, d, n, x)
  BY <1>2, <1>3 DEF Renamed, Same
<1> QED BY <1>4 DEF g

\* fs_dirlink, of what is no directory: the link of its count becomes a name.
LEMMA LinkFile ==
  ASSUME Inv, NEW p \in Procs, NEW f, NEW R, NEW K, NEW v, NEW w, NEW m,
         NEW d \in K, NEW n \in Elems, NEW x \in Inums,
         Mid(p, f, R, K, Due(x, v, w, m)), f.dirs[d][n] = NoInode, f.disk[x].type # "dir",
         \A q \in Others(p) : proc[q].pc \in Making => proc[q].ip # x
  PROVE  Mid(p, Entry(f, d, n, x), R, K, Due(NoInode, v, w, m)) /\ Renamed(f, Entry(f, d, n, x), d, n, x)
<1> DEFINE L == Due(x, v, w, m)
           L2 == Due(NoInode, v, w, m)
<1>1. \A j \in Inums : L2[j] = L[j] - One(j, x) - Sub(f, j, d, x)
  <2>1. \A j \in Inums : One(j, NoInode) = 0 /\ Sub(f, j, d, x) = 0
    BY Consts DEF One, Sub
  <2>2. \A i, j : One(i, j) \in Int
    BY DEF One
  <2> QED BY <2>1, <2>2 DEF Due
<1>2. L2 \in [Inums -> Int] /\ x \in Ptrs
  BY Lists DEF Ptrs
<1> HIDE DEF L, L2
<1>3. Mid(p, f, R, K, L)
  BY DEF L
<1>4. Mid(p, Entry(f, d, n, x), R, K, L2)
  BY <1>1, <1>2, <1>3, MidLink
<1>5. Renamed(f, Entry(f, d, n, x), d, n, x)
  BY <1>2, <1>3, EntryIs
<1> QED BY <1>4, <1>5 DEF L2

\* The same of a directory, whose parent has a link for it.
LEMMA LinkDir ==
  ASSUME Inv, NEW p \in Procs, NEW f, NEW R, NEW K, NEW w, NEW m,
         NEW d \in K, NEW n \in Elems, NEW x \in Inums,
         Mid(p, f, R, K, Due(x, d, w, m)), f.dirs[d][n] = NoInode, f.disk[x].type = "dir",
         \A q \in Others(p) : proc[q].pc \in Making => proc[q].ip # x
  PROVE  /\ Mid(p, Entry(f, d, n, x), R, K, Due(NoInode, NoInode, w, m))
         /\ Renamed(f, Entry(f, d, n, x), d, n, x)
<1> DEFINE L == Due(x, d, w, m)
           L2 == Due(NoInode, NoInode, w, m)
<1>1. \A j \in Inums : L2[j] = L[j] - One(j, x) - Sub(f, j, d, x)
  <2>1. \A j \in Inums : One(j, NoInode) = 0 /\ Sub(f, j, d, x) = One(j, d)
    BY Consts DEF One, Sub
  <2>2. \A i, j : One(i, j) \in Int
    BY DEF One
  <2> QED BY <2>1, <2>2 DEF Due
<1>2. L2 \in [Inums -> Int] /\ x \in Ptrs
  BY Lists DEF Ptrs
<1> HIDE DEF L, L2
<1>3. Mid(p, f, R, K, L)
  BY DEF L
<1>4. Mid(p, Entry(f, d, n, x), R, K, L2)
  BY <1>1, <1>2, <1>3, MidLink
<1>5. Renamed(f, Entry(f, d, n, x), d, n, x)
  BY <1>2, <1>3, EntryIs
<1> QED BY <1>4, <1>5 DEF L2

\* The same where the parent has not got it yet: it is missing.
LEMMA LinkEarly ==
  ASSUME Inv, NEW p \in Procs, NEW f, NEW R, NEW K, NEW v, NEW w,
         NEW d \in K, NEW n \in Elems, NEW x \in Inums,
         Mid(p, f, R, K, Due(x, v, w, NoInode)), f.dirs[d][n] = NoInode, f.disk[x].type = "dir",
         \A q \in Others(p) : proc[q].pc \in Making => proc[q].ip # x
  PROVE  /\ Mid(p, Entry(f, d, n, x), R, K, Due(NoInode, v, w, d))
         /\ Renamed(f, Entry(f, d, n, x), d, n, x)
<1> DEFINE L == Due(x, v, w, NoInode)
           L2 == Due(NoInode, v, w, d)
<1>1. \A j \in Inums : L2[j] = L[j] - One(j, x) - Sub(f, j, d, x)
  <2>1. \A j \in Inums : One(j, NoInode) = 0 /\ Sub(f, j, d, x) = One(j, d)
    BY Consts DEF One, Sub
  <2>2. \A i, j : One(i, j) \in Int
    BY DEF One
  <2> QED BY <2>1, <2>2 DEF Due
<1>2. L2 \in [Inums -> Int] /\ x \in Ptrs
  BY Lists DEF Ptrs
<1> HIDE DEF L, L2
<1>3. Mid(p, f, R, K, L)
  BY DEF L
<1>4. Mid(p, Entry(f, d, n, x), R, K, L2)
  BY <1>1, <1>2, <1>3, MidLink
<1>5. Renamed(f, Entry(f, d, n, x), d, n, x)
  BY <1>2, <1>3, EntryIs
<1> QED BY <1>4, <1>5 DEF L2

\* A name is cleared: its link is one that p has to take back.
LEMMA UnlinkFile ==
  ASSUME Inv, NEW p \in Procs, NEW f, NEW R, NEW K, NEW v, NEW w, NEW m,
         NEW d \in K, NEW n \in Elems, NEW x \in Inums,
         Mid(p, f, R, K, Due(NoInode, v, w, m)), f.dirs[d][n] = x, f.disk[x].type # "dir"
  PROVE  /\ Mid(p, Entry(f, d, n, NoInode), R, K, Due(x, v, w, m))
         /\ Renamed(f, Entry(f, d, n, NoInode), d, n, NoInode)
<1> DEFINE L == Due(NoInode, v, w, m)
           L2 == Due(x, v, w, m)
<1>1. \A j \in Inums : L2[j] = L[j] + One(j, x) + Sub(f, j, d, x)
  <2>1. \A j \in Inums : One(j, NoInode) = 0 /\ Sub(f, j, d, x) = 0
    BY Consts DEF One, Sub
  <2>2. \A i, j : One(i, j) \in Int
    BY DEF One
  <2> QED BY <2>1, <2>2 DEF Due
<1>2. L2 \in [Inums -> Int] /\ NoInode \in Ptrs
  BY Lists DEF Ptrs
<1> HIDE DEF L, L2
<1>3. Mid(p, f, R, K, L)
  BY DEF L
<1>4. Mid(p, Entry(f, d, n, NoInode), R, K, L2)
  BY <1>1, <1>2, <1>3, MidUnlink
<1>5. Renamed(f, Entry(f, d, n, NoInode), d, n, NoInode)
  BY <1>2, <1>3, EntryIs
<1> QED BY <1>4, <1>5 DEF L2

\* The same of a directory, with the link of its parent.
LEMMA UnlinkDir ==
  ASSUME Inv, NEW p \in Procs, NEW f, NEW R, NEW K, NEW w, NEW m,
         NEW d \in K, NEW n \in Elems, NEW x \in Inums,
         Mid(p, f, R, K, Due(NoInode, NoInode, w, m)), f.dirs[d][n] = x, f.disk[x].type = "dir"
  PROVE  /\ Mid(p, Entry(f, d, n, NoInode), R, K, Due(x, d, w, m))
         /\ Renamed(f, Entry(f, d, n, NoInode), d, n, NoInode)
<1> DEFINE L == Due(NoInode, NoInode, w, m)
           L2 == Due(x, d, w, m)
<1>1. \A j \in Inums : L2[j] = L[j] + One(j, x) + Sub(f, j, d, x)
  <2>1. \A j \in Inums : One(j, NoInode) = 0 /\ Sub(f, j, d, x) = One(j, d)
    BY Consts DEF One, Sub
  <2>2. \A i, j : One(i, j) \in Int
    BY DEF One
  <2> QED BY <2>1, <2>2 DEF Due
<1>2. L2 \in [Inums -> Int] /\ NoInode \in Ptrs
  BY Lists DEF Ptrs
<1> HIDE DEF L, L2
<1>3. Mid(p, f, R, K, L)
  BY DEF L
<1>4. Mid(p, Entry(f, d, n, NoInode), R, K, L2)
  BY <1>1, <1>2, <1>3, MidUnlink
<1>5. Renamed(f, Entry(f, d, n, NoInode), d, n, NoInode)
  BY <1>2, <1>3, EntryIs
<1> QED BY <1>4, <1>5 DEF L2

-----------------------------------------------------------------------------
(* The end of a step *)

\* A step of a call that goes on.
LEMMA GoEnd ==
  ASSUME Inv, NEW p \in Procs, NEW f, NEW r \in Locals, Go(p, f, r), UNCHANGED calls,
         Mid(p, f, Held(r.at, r.ip, r.target, NoInode), Locks(r),
             Due(IpLink(r), AtLink(r), TargetLink(r), Missing(r))),
         Relies(r, f), r.call = proc[p].call, proc[p].pc # "lock", r.pc # "lock",
         r.at # NoInode => Found1(p, r.at), r.ip # NoInode => Found1(p, r.ip),
         r.target # NoInode /\ r.pc # "cycle" => Found1(p, r.target),
         r.pc \in Making =>
           /\ r.ip # ROOTINO
           /\ \A d \in Inums, n \in Elems : f.dirs[d][n] # r.ip
           /\ \A q \in Others(p) : /\ proc[q].at # r.ip /\ proc[q].ip # r.ip
                                   /\ proc[q].target = r.ip => proc[q].pc = "cycle"
  PROVE  Inv'
<1>1. fs' = f /\ proc' = [proc EXCEPT ![p] = r] /\ rename_lock' = rename_lock
  BY DEF Go
<1>2. Mid(p, fs', Own(r), Locks(r), Claims(r))
  BY <1>1, Lists
<1>3. rename_lock \in Procs \cup {NoProc} /\ calls' \in 0 .. MaxCalls
  BY DEF Inv
<1>4. rename_lock = p <=> r.call = "rename" /\ r.pc # "lock"
  BY DEF Inv, Renaming
<1> QED BY <1>1, <1>2, <1>3, <1>4, MidEnd

\* The end of a call: it has nothing in hand.
LEMMA ReturnEnd ==
  ASSUME Inv, NEW p \in Procs, NEW f, Return(p, f), calls' = calls \/ calls' \in 0 .. MaxCalls,
         Mid(p, f, Held(NoInode, NoInode, NoInode, NoInode), Locked(NoInode, NoInode),
             Due(NoInode, NoInode, NoInode, NoInode))
  PROVE  Inv'
<1>1. fs' = f /\ proc' = [proc EXCEPT ![p] = Idle]
      /\ rename_lock' = IF rename_lock = p THEN NoProc ELSE rename_lock
  BY DEF Return
<1>2. /\ Idle.pc = "user" /\ Idle.call = "none" /\ Idle.at = NoInode /\ Idle.ip = NoInode
      /\ Idle.target = NoInode /\ Idle \in Locals
  BY DEF Idle, Locals, PCs, Ptrs
<1>3. Locks(Idle) = Locked(NoInode, NoInode) /\ IpLink(Idle) = NoInode /\ AtLink(Idle) = NoInode
      /\ TargetLink(Idle) = NoInode /\ Missing(Idle) = NoInode
  BY <1>2, Consts DEF Locks, Locked, IpLink, AtLink, TargetLink, Missing, Stage, LockAt, LockIp,
     Making, Removing
<1>4. Mid(p, fs', Own(Idle), Locks(Idle), Claims(Idle))
  BY <1>1, <1>2, <1>3, Lists
<1>5. Relies(Idle, fs')
  BY <1>2 DEF Relies, Shape, Stage, Known, Making, LockAt, LockIp, Parents, Removing, Moving
<1>6. rename_lock \in Procs \cup {NoProc} /\ calls' \in 0 .. MaxCalls /\ NoProc \notin Procs
  BY Consts DEF Inv
<1>7. \A q \in Others(p) : q \in Procs /\ q # p
  BY DEF Others
<1>8. Idle.pc \notin Making
  BY <1>2 DEF Making
<1>9. rename_lock' \in Procs \cup {NoProc} /\ rename_lock' # p
  BY <1>1, <1>6
<1>10. \A q \in Others(p) : rename_lock' = q <=> rename_lock = q
  BY <1>1, <1>6, <1>7
<1>11. rename_lock' = p <=> Idle.call = "rename" /\ Idle.pc # "lock"
  BY <1>2, <1>9
<1> QED BY <1>1, <1>2, <1>4, <1>5, <1>6, <1>8, <1>9, <1>10, <1>11, MidEnd

-----------------------------------------------------------------------------
(* The steps *)

\* What p has in hand before its step.
LEMMA Hand ==
  ASSUME Inv, NEW p \in Procs
  PROVE  LET r == proc[p] IN
         /\ r \in Locals /\ Shape(r) /\ Relies(r, fs) /\ Disk(fs)
         /\ r.at # NoInode => r.at \in Inums
         /\ r.ip # NoInode => r.ip \in Inums
         /\ r.target # NoInode => r.target \in Inums
         /\ Mid(p, fs, Held(r.at, r.ip, r.target, NoInode), Locks(r),
                Due(IpLink(r), AtLink(r), TargetLink(r), Missing(r)))
<1> DEFINE r == proc[p]
<1>1. r \in Locals /\ Relies(r, fs) /\ Shape(r) /\ Disk(fs)
  BY DEF Inv, Uses, Relies
<1>2. Mid(p, fs, Own(r), Locks(r), Claims(r))
  BY MidStart
<1>3. /\ Own(r) = Held(r.at, r.ip, r.target, NoInode)
      /\ Claims(r) = Due(IpLink(r), AtLink(r), TargetLink(r), Missing(r))
  BY Lists
<1> HIDE DEF r
<1>4. /\ r.at # NoInode => r.at \in Inums
      /\ r.ip # NoInode => r.ip \in Inums
      /\ r.target # NoInode => r.target \in Inums
  BY <1>1 DEF Locals, Ptrs
<1> QED BY <1>1, <1>2, <1>3, <1>4 DEF r

\* The locks that go with a place.
LEMMA Place ==
  ASSUME NEW r
  PROVE  /\ r.pc \notin LockAt => Locks(r) = Locked(NoInode, NoInode)
         /\ r.pc \in LockAt \ (LockIp \cup {"replaced"}) => Locks(r) = Locked(r.at, NoInode)
         /\ r.pc \in LockIp => Locks(r) = Locked(r.at, r.ip)
         /\ r.pc = "replaced" => Locks(r) = Locked(r.at, r.target)
<1>1. /\ LockIp \subseteq LockAt /\ "replaced" \in LockAt /\ "replaced" \notin LockIp
      /\ NoInode \notin Inums
  BY Consts DEF LockAt, LockIp, Making, Removing
<1> QED BY <1>1 DEF Locks, Locked

\* open of what is there
LEMMA FoundStep ==
  ASSUME Inv, NEW p \in Procs, Found(p), UNCHANGED calls
  PROVE  Inv'
<1> DEFINE r == proc[p]
           z == NoInode
           f == Ilock(fs, p, r.at)
           g == Iunlock(f, r.at)
           s == [r EXCEPT !.pc = "open"]
<1>1. /\ r.pc = "found" /\ fs.ic[r.at].lock = NoProc /\ Go(p, g, s)
      /\ r \in Locals /\ Shape(r) /\ Relies(r, fs)
      /\ Mid(p, fs, Held(r.at, r.ip, r.target, z), Locks(r),
             Due(IpLink(r), AtLink(r), TargetLink(r), Missing(r)))
  BY Hand DEF Found, At, Unlocked
<1> HIDE DEF r
<1>2. /\ r.ip = z /\ r.target = z /\ r.at \in Inums /\ r.call = "creat"
      /\ fs.disk[r.at].type # "free"
  BY <1>1, Hand DEF Shape, Stage, Relies, r
<1>3. /\ IpLink(r) = z /\ AtLink(r) = z /\ TargetLink(r) = z /\ Missing(r) = z
      /\ Locks(r) = Locked(z, z)
  BY <1>1, Place DEF IpLink, AtLink, TargetLink, Missing, Stage, LockAt, Making, Removing
<1>4. Mid(p, fs, Held(r.at, z, z, z), Locked(z, z), Due(z, z, z, z))
  BY <1>1, <1>2, <1>3
<1>5. Mid(p, f, Held(r.at, z, z, z), Locked(r.at, z), Due(z, z, z, z)) /\ Still(fs, f)
  BY <1>1, <1>2, <1>4, LockOp
<1> HIDE DEF f
<1>6. Mid(p, g, Held(r.at, z, z, z), Locked(z, z), Due(z, z, z, z)) /\ Still(f, g)
  BY <1>2, <1>5, UnlockOp, Consts
<1> HIDE DEF g
<1>7. /\ s \in Locals /\ s.pc = "open" /\ s.call = "creat" /\ s.at = r.at /\ s.ip = z /\ s.target = z
      /\ s.old = r.old
  BY <1>1, <1>2 DEF Locals, PCs
<1> HIDE DEF s
<1>8. /\ IpLink(s) = z /\ AtLink(s) = z /\ TargetLink(s) = z /\ Missing(s) = z
      /\ Locks(s) = Locked(z, z)
  BY <1>7, Place DEF IpLink, AtLink, TargetLink, Missing, Stage, LockAt, Making, Removing
<1>9. Relies(s, g)
  BY <1>2, <1>5, <1>6, <1>7, Consts DEF Relies, Shape, Stage, Known, Making, Removing, Moving, Parents, LockAt, LockIp,
     Still, Same
<1>10. Found1(p, s.at) /\ s.pc \notin Making
  BY <1>7 DEF Found1, r, Making
<1> QED BY <1>1, <1>2, <1>6, <1>7, <1>8, <1>9, <1>10, GoEnd DEF r

\* A name of a file is looked up.
LEMMA FindPlain ==
  ASSUME NEW f, NEW d, NEW n \in Elems
  PROVE  n \notin DotNames /\ Find(f, d, n) = Lookup(f, d, n)
BY NamesAssumption DEF NamesAssumption, Find

\* The beginning of a walk, to a name or to its directory.
Begun(s, q, path, then) ==
  /\ s \in Locals /\ s.pc = (IF path = <<>> THEN then ELSE "walk") /\ s.at = ROOTINO /\ s.ip = q.ip /\ s.target = q.target
  /\ s.call = q.call /\ s.then = then /\ s.rest = path /\ s.old = q.old /\ s.new = q.new

\* What Start makes of q.
LEMMA StartIs ==
  ASSUME NEW q \in Locals, NEW path \in Seq(Elems), NEW parent \in BOOLEAN, NEW then \in Walks
  PROVE  Begun(Start(q, path, parent, then), q, path, then)
<1>1. ROOTINO \in Ptrs /\ (IF path = <<>> THEN then ELSE "walk") \in PCs
  BY Consts DEF Ptrs, PCs
<1> QED BY <1>1 DEF Start, Locals, Begun

\* Whether it leads to the directory.
LEMMA StartWays ==
  ASSUME NEW q \in Locals, NEW path, NEW then
  PROVE  Start(q, path, TRUE, then).parent /\ ~Start(q, path, FALSE, then).parent
BY DEF Start, Locals

\* namex begins: f has no lock of p any more, and q says where the walk leads.
LEMMA NameiEnd ==
  ASSUME Inv, NEW p \in Procs, NEW f, NEW q \in Locals, NEW path \in Seq(Elems),
         NEW parent \in BOOLEAN, NEW then \in Walks,
         Shape(Start(q, path, parent, then)), q.target = NoInode,
         fs' = Iget(f, ROOTINO), proc' = [proc EXCEPT ![p] = Start(q, path, parent, then)],
         Mid(p, f, Held(NoInode, q.ip, NoInode, NoInode), Locked(NoInode, NoInode),
             Due(IpLink(Start(q, path, parent, then)), NoInode, NoInode, NoInode)),
         q.ip # NoInode => Found1(p, q.ip) /\ f.disk[q.ip].type # "free",
         then \in Known => q.ip \in Live(f), then = "dirlink" => f.disk[q.ip].type # "dir",
         rename_lock' \in Procs \cup {NoProc}, calls' \in 0 .. MaxCalls,
         rename_lock' = p <=> q.call = "rename",
         \A x \in Others(p) : rename_lock' = x <=> rename_lock = x
  PROVE  Inv'
<1> DEFINE s == Start(q, path, parent, then)
           z == NoInode
           g == Iget(f, ROOTINO)
<1>0. Begun(s, q, path, then)
  BY StartIs
<1>1. /\ s \in Locals /\ s.pc \in Walks \cup {"walk"} /\ s.at = ROOTINO /\ s.ip = q.ip
      /\ s.target = z /\ s.call = q.call /\ s.then = then /\ s.pc \in {then, "walk"}
  <2> HIDE DEF s
  <2> QED BY <1>0 DEF Begun
<1>2. Mid(p, f, Held(z, s.ip, z, z), Locked(z, z), Due(IpLink(s), z, z, z)) /\ Shape(s)
  BY <1>1
<1> HIDE DEF s
<1>3. Mid(p, g, Held(z, s.ip, z, ROOTINO), Locked(z, z), Due(IpLink(s), z, z, z)) /\ Still(f, g)
  BY <1>2, GetOp, Consts
<1>4. Held(z, s.ip, z, ROOTINO) = Held(s.at, s.ip, s.target, z)
  BY <1>1, Lists
<1>5. /\ AtLink(s) = z /\ TargetLink(s) = z /\ Missing(s) = z /\ Locks(s) = Locked(z, z)
  BY <1>1, Place DEF AtLink, TargetLink, Missing, LockAt, Making, Removing, Walks
<1> HIDE DEF g
<1>6. Mid(p, g, Own(s), Locks(s), Claims(s))
  BY <1>3, <1>4, <1>5, Lists
<1>7. g.disk[ROOTINO].type = "dir"
  BY <1>3 DEF Mid, Disk
<1>8. q.ip # z => q.ip \in Inums
  BY DEF Locals, Ptrs
<1>9. Stage(s) = then
  BY <1>1 DEF Stage
<1>10. then \in Known => q.ip \in Live(g)
  BY <1>3 DEF Still, Same, Live
<1>11. /\ q.ip # z => g.disk[q.ip].type # "free"
       /\ then = "dirlink" => g.disk[q.ip].type # "dir"
  <2>1. then = "dirlink" => q.ip # z
    BY <1>1, <1>2, <1>9 DEF Shape
  <2> QED BY <1>3, <1>8, <2>1 DEF Still, Same
<1>12. Relies(s, g)
  BY <1>1, <1>2, <1>7, <1>9, <1>10, <1>11
     DEF Relies, Making, Removing, Parents, LockAt, LockIp, Walks
<1>13. s.pc \notin Making
  BY <1>1 DEF Making, Walks
<1>14. fs' = g /\ proc' = [proc EXCEPT ![p] = s]
  BY DEF g, s
<1>15. /\ Found1(p, s.at)
       /\ s.ip # z => Found1(p, s.ip)
  BY <1>1 DEF Found1
<1> HIDE DEF s
<1>16. rename_lock' = p <=> s.call = "rename" /\ s.pc # "lock"
  BY <1>1 DEF Walks
<1>17. s.target = NoInode /\ Mid(p, fs', Own(s), Locks(s), Claims(s)) /\ Relies(s, fs')
  BY <1>1, <1>6, <1>12, <1>14
<1> QED BY <1>1, <1>13, <1>14, <1>15, <1>16, <1>17, MidEnd

\* A call that gives up, or is about to end: what is left is the extra link.
LEMMA UnrefEnd ==
  ASSUME Inv, NEW p \in Procs, NEW f, NEW s \in Locals, Go(p, f, s), UNCHANGED calls,
         s.pc = "unref", s.at = NoInode, s.target = NoInode, s.ip \in Inums,
         s.ip \in {proc[p].ip, proc[p].at},
         s.call = proc[p].call, s.call \in {"link", "rename"}, proc[p].pc # "lock",
         s.ip \in Live(f), f.disk[s.ip].type # "free",
         Mid(p, f, Held(NoInode, s.ip, NoInode, NoInode), Locked(NoInode, NoInode),
             Due(s.ip, NoInode, NoInode, NoInode))
  PROVE  Inv'
<1> DEFINE z == NoInode
<1>1. /\ IpLink(s) = s.ip /\ AtLink(s) = z /\ TargetLink(s) = z /\ Missing(s) = z
      /\ Locks(s) = Locked(z, z)
  BY Place DEF IpLink, AtLink, TargetLink, Missing, Stage, LockAt, Making, Removing
<1>2. Shape(proc[p]) /\ s.ip # z
  BY Hand, Consts
<1>3. Shape(s)
  BY <1>2 DEF Shape, Stage, Making, Moving
<1>4. Relies(s, f)
  BY <1>2, <1>3 DEF Relies, Stage, Making, Removing, Parents, LockAt, LockIp
<1>5. Found1(p, s.ip) /\ s.pc \notin Making
  BY DEF Found1, Making
<1> QED BY <1>1, <1>4, <1>5, GoEnd

\* Nobody else makes the inodes that p has in hand.
LEMMA NotMade ==
  ASSUME Inv, NEW p \in Procs, NEW q \in Others(p), proc[q].pc \in Making
  PROVE  proc[q].ip # proc[p].at /\ proc[q].ip # proc[p].ip
BY DEF Inv, Fresh, Others

\* close, at the end of an open
LEMMA CloseStep ==
  ASSUME Inv, NEW p \in Procs, Close(p), UNCHANGED calls
  PROVE  Inv'
<1> DEFINE r == proc[p]
           z == NoInode
<1>1. r.pc = "open" /\ Return(p, Iput(fs, r.at))
  BY DEF Close, At
<1> HIDE DEF r
<1>2. r.ip = z /\ r.target = z /\ r.at \in Inums
  BY <1>1, Hand DEF Shape, Stage, r
<1>3. /\ IpLink(r) = z /\ AtLink(r) = z /\ TargetLink(r) = z /\ Missing(r) = z
      /\ Locks(r) = Locked(z, z)
  BY <1>1, Place DEF IpLink, AtLink, TargetLink, Missing, Stage, LockAt, Making, Removing
<1>4. Mid(p, fs, Held(r.at, z, z, z), Locked(z, z), Due(z, z, z, z))
  BY <1>2, <1>3, Hand DEF r
<1>5. r.at \notin Locked(z, z) /\ r.at # z
  BY <1>2, Consts DEF Locked
<1>6. Mid(p, Iput(fs, r.at), Held(z, z, z, z), Locked(z, z), Due(z, z, z, z))
  BY <1>2, <1>4, <1>5, PutOp
<1> QED BY <1>1, <1>6, ReturnEnd

\* The name is there by now.
LEMMA ExistsStep ==
  ASSUME Inv, NEW p \in Procs, Exists(p), UNCHANGED calls
  PROVE  Inv'
<1> DEFINE r == proc[p]
           z == NoInode
           f == Ilock(fs, p, r.at)
           s == [r EXCEPT !.pc = "open"]
<1>1. /\ r.pc = "exists" /\ fs.ic[r.at].lock = NoProc
      /\ \/ r.call = "creat" /\ Go(p, Iunlock(f, r.at), s)
         \/ Return(p, Iunlockput(f, r.at))
  BY DEF Exists, At, Unlocked
<1> HIDE DEF r
<1>2. /\ r \in Locals /\ r.ip = z /\ r.target = z /\ r.at \in Inums
      /\ fs.disk[r.at].type # "free" /\ r.at # z
  BY <1>1, Hand, Consts DEF Shape, Stage, Relies, Making, r
<1>3. /\ IpLink(r) = z /\ AtLink(r) = z /\ TargetLink(r) = z /\ Missing(r) = z
      /\ Locks(r) = Locked(z, z)
  BY <1>1, Place DEF IpLink, AtLink, TargetLink, Missing, Stage, LockAt, Making, Removing
<1>4. Mid(p, fs, Held(r.at, z, z, z), Locked(z, z), Due(z, z, z, z))
  BY <1>2, <1>3, Hand DEF r
<1>5. Mid(p, f, Held(r.at, z, z, z), Locked(r.at, z), Due(z, z, z, z)) /\ Still(fs, f)
  BY <1>1, <1>2, <1>4, LockOp
<1> HIDE DEF f
<1>6. CASE r.call = "creat" /\ Go(p, Iunlock(f, r.at), s)
  <2> DEFINE g == Iunlock(f, r.at)
  <2>1. Mid(p, g, Held(r.at, z, z, z), Locked(z, z), Due(z, z, z, z)) /\ Still(f, g)
    BY <1>2, <1>5, UnlockOp
  <2> HIDE DEF g
  <2>2. /\ s \in Locals /\ s.pc = "open" /\ s.call = "creat" /\ s.at = r.at /\ s.ip = z /\ s.target = z
        /\ s.old = r.old
    BY <1>2, <1>6 DEF Locals, PCs
  <2> HIDE DEF s
  <2>3. /\ IpLink(s) = z /\ AtLink(s) = z /\ TargetLink(s) = z /\ Missing(s) = z
        /\ Locks(s) = Locked(z, z)
    BY <2>2, Place DEF IpLink, AtLink, TargetLink, Missing, Stage, LockAt, Making, Removing
  <2>4. Relies(s, g)
    BY <1>2, <1>5, <2>1, <2>2 DEF Relies, Shape, Stage, Known, Making, Removing, Moving, Parents,
       LockAt, LockIp, Still, Same
  <2>5. Found1(p, s.at) /\ s.pc \notin Making
    BY <2>2 DEF Found1, r, Making
  <2>6. s.call = proc[p].call /\ proc[p].pc # "lock" /\ s.pc # "lock" /\ Go(p, g, s)
    BY <1>1, <1>6, <2>2 DEF r, g
  <2> QED BY <2>1, <2>2, <2>3, <2>4, <2>5, <2>6, GoEnd
<1>7. CASE Return(p, Iunlockput(f, r.at))
  <2>1. Mid(p, Iunlockput(f, r.at), Held(z, z, z, z), Locked(z, z), Due(z, z, z, z))
    BY <1>2, <1>5, LeaveOp
  <2> QED BY <1>7, <2>1, ReturnEnd
<1> QED BY <1>1, <1>6, <1>7

\* Whether p has rename_lock.
LEMMA LockNow ==
  ASSUME Inv, NEW p \in Procs
  PROVE  /\ rename_lock = p <=> proc[p].call = "rename" /\ proc[p].pc # "lock"
         /\ rename_lock \in Procs \cup {NoProc} /\ calls \in 0 .. MaxCalls
BY DEF Inv, Renaming

\* The walk found nothing: what each call does then.
LEMMA NotFoundStep ==
  ASSUME Inv, NEW p \in Procs, NEW f, NEW q \in Locals, NotFound(p, f, q), UNCHANGED calls,
         proc[p].pc \notin {"user", "lock"}, q.call = proc[p].call, q.target = NoInode, q.at = NoInode,
         q.then \in Walks, q.then = "found" => q.old # <<>>,
         q.then \notin {"dirlink", "cycle", "old"} => q.ip = NoInode,
         q.then \in {"dirlink", "cycle", "old"} => q.ip \in Inums /\ q.ip \in {proc[p].ip, proc[p].at},
         q.then \in {"dirlink", "cycle"} =>
           q.call \in {"link", "rename"} /\ q.ip \in Live(f) /\ f.disk[q.ip].type # "free",
         Mid(p, f, Held(NoInode, q.ip, NoInode, NoInode), Locked(NoInode, NoInode),
             Due(IF q.then \in {"dirlink", "cycle"} THEN q.ip ELSE NoInode, NoInode, NoInode, NoInode))
  PROVE  Inv'
<1> DEFINE z == NoInode
<1>1. \/ q.call = "creat" /\ q.then = "found"
         /\ Go(p, Iget(f, ROOTINO), Start(q, q.old, TRUE, "create"))
      \/ q.then \in {"dirlink", "cycle"} /\ Go(p, f, [q EXCEPT !.pc = "unref"])
      \/ q.then = "old" /\ Return(p, Iput(f, q.ip))
      \/ q.then \notin {"dirlink", "cycle", "old"} /\ Return(p, f)
  BY DEF NotFound
<1>2. /\ rename_lock = p <=> q.call = "rename"
      /\ rename_lock \in Procs \cup {NoProc} /\ calls \in 0 .. MaxCalls
  BY LockNow
<1>3. CASE /\ q.call = "creat" /\ q.then = "found"
           /\ Go(p, Iget(f, ROOTINO), Start(q, q.old, TRUE, "create"))
  <2> DEFINE s == Start(q, q.old, TRUE, "create")
  <2>1. q.old \in Seq(Elems) /\ "create" \in Walks /\ q.ip = z /\ q.old # <<>>
    BY <1>3 DEF Locals, Walks
  <2>2. Begun(s, q, q.old, "create") /\ s.parent
    BY <2>1, StartIs, StartWays
  <2>4. fs' = Iget(f, ROOTINO) /\ proc' = [proc EXCEPT ![p] = s] /\ rename_lock' = rename_lock
    BY <1>3 DEF Go
  <2> HIDE DEF s
  <2>5. Shape(s) /\ IpLink(s) = z
    BY <1>3, <2>1, <2>2, Consts DEF Begun, Shape, Stage, IpLink, Walks, Making, Moving
  <2>6. "create" \notin Known /\ "create" # "dirlink"
    BY DEF Known, Moving
  <2>7. Mid(p, f, Held(z, q.ip, z, z), Locked(z, z), Due(IpLink(s), z, z, z))
    BY <1>3, <2>1, <2>5
  <2>8. rename_lock' = p <=> q.call = "rename"
    BY <1>2, <2>1, <2>4
  <2> QED BY <1>2, <2>1, <2>4, <2>5, <2>6, <2>7, <2>8, NameiEnd DEF s
<1>4. CASE q.then \in {"dirlink", "cycle"} /\ Go(p, f, [q EXCEPT !.pc = "unref"])
  <2> DEFINE s == [q EXCEPT !.pc = "unref"]
  <2>1. /\ s \in Locals /\ s.pc = "unref" /\ s.at = z /\ s.target = z /\ s.ip = q.ip
        /\ s.call = q.call
    BY DEF Locals, PCs
  <2>2. Go(p, f, s)
    BY <1>4
  <2> HIDE DEF s
  <2>3. Mid(p, f, Held(z, s.ip, z, z), Locked(z, z), Due(s.ip, z, z, z))
    BY <1>4, <2>1
  <2> QED BY <1>4, <2>1, <2>2, <2>3, UnrefEnd
<1>5. CASE q.then = "old" /\ Return(p, Iput(f, q.ip))
  <2>1. q.ip \in Inums /\ q.ip # z /\ q.ip \notin Locked(z, z)
    BY <1>5, Consts DEF Locked
  <2>2. Held(z, q.ip, z, z) = Held(q.ip, z, z, z)
    BY Lists
  <2>3. Mid(p, f, Held(q.ip, z, z, z), Locked(z, z), Due(z, z, z, z))
    BY <1>5, <2>2
  <2>4. Mid(p, Iput(f, q.ip), Held(z, z, z, z), Locked(z, z), Due(z, z, z, z))
    BY <2>1, <2>3, PutOp
  <2> QED BY <1>5, <2>4, ReturnEnd
<1>6. CASE q.then \notin {"dirlink", "cycle", "old"} /\ Return(p, f)
  <2>1. Mid(p, f, Held(z, z, z, z), Locked(z, z), Due(z, z, z, z))
    BY <1>6
  <2> QED BY <1>6, <2>1, ReturnEnd
<1> QED BY <1>1, <1>3, <1>4, <1>5, <1>6

\* A name that was found under a lock: it is in use.
LEMMA NamedNow ==
  ASSUME Inv, NEW p \in Procs, NEW f, NEW R, NEW K, NEW u, Mid(p, f, R, K, Due(u, NoInode, NoInode, NoInode)),
         NEW d \in Inums, NEW n \in Elems, f.dirs[d][n] # NoInode, Still(fs, f)
  PROVE  /\ f.dirs[d][n] \in Inums /\ f.disk[f.dirs[d][n]].type # "free"
         /\ Found1(p, f.dirs[d][n])
<1> DEFINE i == f.dirs[d][n]
           L == Due(u, NoInode, NoInode, NoInode)
<1>1. f \in Fs
  BY DEF Mid, Disk
<1>2. i \in Inums
  BY <1>1 DEF Fs, Ptrs
<1>3. L[i] >= 0
  BY <1>2, Consts DEF Due, One
<1> HIDE DEF i, L
<1>4. f.dirs[d][n] = i /\ Mid(p, f, R, K, L)
  BY DEF i, L
<1>5. f.disk[i].type # "free"
  BY <1>2, <1>3, <1>4, MidNamed
<1>6. fs.dirs[d][n] = i
  BY <1>4 DEF Still
<1>7. Found1(p, i)
  BY <1>6 DEF Found1
<1> QED BY <1>2, <1>5, <1>7 DEF i

\* One element of a path
LEMMA WalkStep ==
  ASSUME Inv, NEW p \in Procs, Walk(p), UNCHANGED calls
  PROVE  Inv'
<1> DEFINE r == proc[p]
           z == NoInode
           n == Head(r.rest)
           f == Ilock(fs, p, r.at)
           next == f.dirs[r.at][n]
           u == IpLink(r)
           nowhere == [r EXCEPT !.at = NoInode]
<1>1. r.pc = "walk" /\ fs.ic[r.at].lock = NoProc
  BY DEF Walk, At, Unlocked
<1>2. /\ r \in Locals /\ Shape(r) /\ Relies(r, fs) /\ r.target = z /\ r.at # z /\ r.at \in Inums
      /\ r.ip # z => r.ip \in Inums
      /\ fs.disk[r.at].type # "free" /\ r.rest # <<>> /\ r.rest \in Seq(Elems) /\ proc[p] = r
  <2>1. /\ r.target = z /\ r.at # z /\ r.rest # <<>> /\ fs.disk[r.at].type # "free"
    BY <1>1, Hand DEF Shape, Relies
  <2>2. r \in Locals
    BY Hand
  <2>3. r.rest \in Seq(Elems)
    BY <2>2 DEF Locals
  <2> QED BY <2>1, <2>2, <2>3, Hand
<1>3. n \in Elems /\ Len(r.rest) \in Nat /\ Len(r.rest) >= 1
  BY <1>2
<1>4. /\ AtLink(r) = z /\ TargetLink(r) = z /\ Missing(r) = z /\ Locks(r) = Locked(z, z)
      /\ u \in {z, r.ip}
  BY <1>1, Place DEF AtLink, TargetLink, Missing, IpLink, LockAt, Making, Removing
<1>5. Mid(p, fs, Held(r.at, r.ip, z, z), Locked(z, z), Due(u, z, z, z))
  BY <1>2, <1>4, Hand
<1>6. /\ Mid(p, f, Held(r.at, r.ip, z, z), Locked(r.at, z), Due(u, z, z, z)) /\ Still(fs, f)
      /\ r.at \in Live(f)
  BY <1>1, <1>2, <1>5, LockOp
<1>7. /\ \/ NotFound(p, Iunlockput(f, r.at), nowhere)
         \/ r.parent /\ Len(r.rest) = 1 /\ Go(p, Iunlock(f, r.at), [r EXCEPT !.pc = r.then])
         \/ /\ ~(r.parent /\ Len(r.rest) = 1) /\ next # z
            /\ Go(p, Iunlockput(Iget(f, next), r.at),
                  [r EXCEPT !.at = next, !.rest = Tail(@),
                            !.pc = IF Len(r.rest) = 1 THEN r.then ELSE "walk"])
      /\ r.parent /\ Len(r.rest) = 1 /\ ~NotFound(p, Iunlockput(f, r.at), nowhere)
         => f.ic[r.at].type = "dir"
  BY <1>3, FindPlain DEF Walk, Lookup
<1> HIDE DEF r, f, u
<1>8. CASE NotFound(p, Iunlockput(f, r.at), nowhere)
  <2> DEFINE g == Iunlockput(f, r.at)
  <2>1. r.at = r.ip \/ (r.at # u /\ r.at # z)
    BY <1>2, <1>4
  <2>2. /\ Mid(p, g, Held(z, r.ip, z, z), Locked(z, z), Due(u, z, z, z))
        /\ Kept(f, g, r.at, r.ip, z, z)
    BY <1>2, <1>6, <2>1, LeaveOp
  <2> HIDE DEF g
  <2>3. r.ip # z => Same(fs, g, r.ip)
    BY <1>2, <1>6, <2>2 DEF Still, Kept, Same
  <2>4. NotFound(p, g, nowhere)
    BY <1>8 DEF g
  <2>5. /\ nowhere \in Locals /\ nowhere.call = r.call /\ nowhere.target = z /\ nowhere.at = z
        /\ nowhere.then = r.then /\ nowhere.ip = r.ip /\ nowhere.old = r.old
    BY <1>2, SMTT(30) DEF Locals, Ptrs
  <2> HIDE DEF nowhere
  <2>6. /\ r.then \in Walks /\ (r.then = "found" => r.old # <<>>)
        /\ r.then \notin {"dirlink", "cycle", "old"} => r.ip = z
        /\ r.then \in {"dirlink", "cycle", "old"} => r.ip # z /\ r.ip \in Inums
        /\ r.then \in {"dirlink", "cycle"} => r.call \in {"link", "rename"} /\ r.ip \in Live(fs)
        /\ r.ip # z => fs.disk[r.ip].type # "free"
    BY <1>1, <1>2 DEF Shape, Stage, Relies, Known, Walks
  <2>7. u = IF r.then \in {"dirlink", "cycle"} THEN r.ip ELSE z
    BY <1>1, <2>6 DEF u, IpLink, Stage, Walks
  <2>8. r.then \in {"dirlink", "cycle"} => r.ip \in Live(g) /\ g.disk[r.ip].type # "free"
    BY <2>3, <2>6 DEF Same
  <2> QED BY <1>1, <1>2, <2>2, <2>4, <2>5, <2>6, <2>7, <2>8, NotFoundStep
<1>9. CASE /\ r.parent /\ Len(r.rest) = 1 /\ Go(p, Iunlock(f, r.at), [r EXCEPT !.pc = r.then])
           /\ f.ic[r.at].type = "dir"
  <2> DEFINE g == Iunlock(f, r.at)
             s == [r EXCEPT !.pc = r.then]
  <2>1. Mid(p, g, Held(r.at, r.ip, z, z), Locked(z, z), Due(u, z, z, z)) /\ Still(f, g)
    BY <1>2, <1>6, UnlockOp
  <2>2. f.disk[r.at].type = "dir"
    BY <1>6, <1>9, ReadIs
  <2>3. Go(p, g, s)
    BY <1>9
  <2> HIDE DEF g
  <2>4. r.then \in {"create", "unlink", "dirlink", "cycle", "old"}
    BY <1>1, <1>2, <1>9 DEF Shape, Walks
  <2>5. /\ s \in Locals /\ s.pc = r.then /\ s.at = r.at /\ s.ip = r.ip /\ s.target = z /\ s.call = r.call
        /\ s.rest = r.rest /\ s.old = r.old /\ s.new = r.new
    BY <1>2, <2>4, SMTT(30) DEF Locals, PCs, Walks
  <2> HIDE DEF s
  <2>6. Stage(s) = r.then /\ Stage(r) = r.then
    BY <1>1, <2>4, <2>5 DEF Stage
  <2>7. /\ IpLink(s) = u /\ AtLink(s) = z /\ TargetLink(s) = z /\ Missing(s) = z
        /\ Locks(s) = Locked(z, z)
    <3>1. IpLink(s) = u
      BY <2>5, <2>6 DEF IpLink, u
    <3>2. Locks(s) = Locked(z, z)
      BY <2>4, <2>5, Place DEF LockAt, Making, Removing
    <3> QED BY <2>4, <2>5, <3>1, <3>2 DEF AtLink, TargetLink, Missing
  <2>8. Shape(s)
    BY <1>1, <1>2, <2>4, <2>5, <2>6 DEF Shape, Making, Moving
  <2>9. Relies(s, g)
    <3>1. \A i \in Inums : g.disk[i].type = fs.disk[i].type /\ (i \in Live(fs) => i \in Live(g))
      BY <1>6, <2>1 DEF Still, Same
    <3>2. g.disk[s.at].type = "dir"
      BY <1>2, <2>1, <2>2, <2>5 DEF Still, Same
    <3>3. s.ip # z => g.disk[s.ip].type # "free"
      BY <1>2, <2>5, <3>1 DEF Relies
    <3>4. Stage(s) \in Known => s.ip \in Live(g)
      BY <1>2, <2>5, <2>6, <3>1 DEF Relies, Live
    <3>5. Stage(s) = "dirlink" => g.disk[s.ip].type # "dir"
      <4>1. Stage(s) = "dirlink" => s.ip # z
        BY <2>8 DEF Shape
      <4> QED BY <1>2, <2>5, <2>6, <3>1, <4>1 DEF Relies
    <3> QED BY <2>4, <2>5, <2>8, <3>2, <3>3, <3>4, <3>5 DEF Relies, Making, Removing, LockIp
  <2>10. /\ s.at # z => Found1(p, s.at)
         /\ s.ip # z => Found1(p, s.ip)
         /\ s.pc \notin Making /\ s.pc # "lock"
    BY <1>2, <2>4, <2>5 DEF Found1, Making
  <2> QED BY <1>1, <1>2, <2>1, <2>3, <2>5, <2>7, <2>9, <2>10, GoEnd
<1>10. CASE /\ ~(r.parent /\ Len(r.rest) = 1) /\ next # z
            /\ Go(p, Iunlockput(Iget(f, next), r.at),
                  [r EXCEPT !.at = next, !.rest = Tail(@),
                            !.pc = IF Len(r.rest) = 1 THEN r.then ELSE "walk"])
  <2> DEFINE s == [r EXCEPT !.at = next, !.rest = Tail(@),
                            !.pc = IF Len(r.rest) = 1 THEN r.then ELSE "walk"]
             e == Iget(f, next)
             g == Iunlockput(e, r.at)
  <2>1. next \in Inums /\ f.disk[next].type # "free" /\ Found1(p, next)
    BY <1>2, <1>3, <1>6, <1>10, NamedNow
  <2>2. Go(p, g, s)
    BY <1>10
  <2> HIDE DEF next
  <2>3. Mid(p, e, Held(r.at, r.ip, z, next), Locked(r.at, z), Due(u, z, z, z)) /\ Still(f, e)
    BY <1>6, <2>1, GetOp
  <2> HIDE DEF e
  <2>4. r.at = r.ip \/ (r.at # u /\ r.at # z)
    BY <1>2, <1>4
  <2>5. /\ Mid(p, g, Held(z, r.ip, z, next), Locked(z, z), Due(u, z, z, z))
        /\ Kept(e, g, r.at, r.ip, z, next)
    BY <1>2, <2>3, <2>4, LeaveOp, SMTT(30)
  <2> HIDE DEF g
  <2>6. /\ s \in Locals /\ s.pc = (IF Len(r.rest) = 1 THEN r.then ELSE "walk") /\ s.at = next
        /\ s.ip = r.ip /\ s.target = z /\ s.call = r.call /\ s.rest = Tail(r.rest)
        /\ s.old = r.old /\ s.new = r.new /\ s.then = r.then /\ s.parent = r.parent
    <3>1. Tail(r.rest) \in Seq(Elems) /\ next \in Ptrs
      BY <1>2, <2>1 DEF Ptrs
    <3>2. (IF Len(r.rest) = 1 THEN r.then ELSE "walk") \in PCs
      BY <1>1, <1>2 DEF Shape, PCs
    <3> QED BY <1>2, <3>1, <3>2 DEF Locals
  <2> HIDE DEF s
  <2>7. /\ Len(r.rest) = 1 => s.pc \in {"found", "source"}
        /\ Len(r.rest) # 1 => s.pc = "walk" /\ s.rest # <<>>
    <3>1. Len(r.rest) # 1 => Tail(r.rest) # <<>>
      <4>1. Len(Tail(r.rest)) = Len(r.rest) - 1
        BY <1>2
      <4>2. ASSUME Len(r.rest) # 1, Tail(r.rest) = <<>> PROVE FALSE
        <5>1. Len(Tail(r.rest)) = Len(<<>>)
          BY <4>2, Zenon
        <5> QED BY <1>3, <4>1, <4>2, <5>1
      <4> QED BY <4>2
    <3>2. Len(r.rest) = 1 => r.then \in {"found", "source"}
      BY <1>1, <1>2, <1>10 DEF Shape, Walks
    <3> QED BY <2>6, <3>1, <3>2
  <2>8. Stage(s) = r.then /\ Stage(r) = r.then
    BY <1>1, <2>6, <2>7 DEF Stage
  <2>9. /\ IpLink(s) = u /\ AtLink(s) = z /\ TargetLink(s) = z /\ Missing(s) = z
        /\ Locks(s) = Locked(z, z)
    <3>1. IpLink(s) = u
      BY <2>6, <2>8 DEF IpLink, u
    <3>2. Locks(s) = Locked(z, z)
      BY <2>7, Place DEF LockAt, Making, Removing
    <3> QED BY <2>7, <3>1, <3>2 DEF AtLink, TargetLink, Missing
  <2>10. Held(z, r.ip, z, next) = Held(s.at, s.ip, s.target, z)
    BY <2>6, Lists
  <2>11. Shape(s)
    BY <1>1, <1>2, <2>1, <2>6, <2>7, <2>8, Consts DEF Shape, Making, Moving
  <2>12. Relies(s, g)
    <3>1. g.disk[s.at].type # "free"
      BY <2>1, <2>3, <2>5, <2>6 DEF Still, Kept, Same
    <3>2. ASSUME r.ip # z
          PROVE  g.disk[r.ip].type = fs.disk[r.ip].type /\ (r.ip \in Live(fs) => r.ip \in Live(g))
      BY <1>2, <1>6, <2>3, <2>5, <3>2 DEF Still, Kept, Same
    <3>3. Stage(s) = "dirlink" \/ Stage(s) \in Known => s.ip # z
      BY <2>11 DEF Shape, Known, Moving
    <3>4. /\ s.ip # z => g.disk[s.ip].type # "free"
          /\ Stage(s) \in Known => s.ip \in Live(g)
          /\ Stage(s) = "dirlink" => g.disk[s.ip].type # "dir"
      BY <1>2, <2>6, <2>8, <3>2, <3>3 DEF Relies
    <3> QED BY <2>6, <2>7, <2>11, <3>1, <3>4 DEF Relies, Making, Removing, LockIp, LockAt, Parents
  <2>13. /\ Found1(p, s.at)
         /\ s.ip # z => Found1(p, s.ip)
         /\ s.pc \notin Making /\ s.pc # "lock"
    BY <1>2, <2>1, <2>6, <2>7 DEF Found1, Making
  <2> QED BY <1>1, <1>2, <2>2, <2>5, <2>6, <2>9, <2>10, <2>12, <2>13, GoEnd
<1> QED BY <1>7, <1>8, <1>9, <1>10

\* fs_ialloc takes a free inode, if there is one.
LEMMA LowestFree ==
  ASSUME NEW f, FreeInodes(f) # {}
  PROVE  Lowest(FreeInodes(f)) \in Inums /\ f.disk[Lowest(FreeInodes(f))].type = "free"
<1> DEFINE S == FreeInodes(f)
<1>1. S \subseteq Inums /\ S \subseteq Nat /\ \A i \in S : f.disk[i].type = "free"
  BY Consts DEF FreeInodes
<1> HIDE DEF S
<1>2. S # {}
  BY DEF S
<1>3. PICK x \in S : \A y \in S : ~(<<y, x>> \in OpToRel(<, Nat))
  BY <1>1, <1>2, NatLessThanWellFounded, WFMin
<1>4. ASSUME NEW y \in S PROVE x <= y
  <2>1. ~(y < x)
    BY <1>1, <1>3 DEF OpToRel
  <2> QED BY <1>1, <2>1
<1>5. Lowest(S) \in S
  BY <1>4 DEF Lowest
<1> QED BY <1>1, <1>5 DEF S

\* fs_create, up to fs_ialloc
LEMMA CreateStep ==
  ASSUME Inv, NEW p \in Procs, Create(p), UNCHANGED calls
  PROVE  Inv'
<1> DEFINE r == proc[p]
           z == NoInode
           n == Head(r.rest)
           f == Ilock(fs, p, r.at)
           ip == Find(f, r.at, n)
           new == Lowest(FreeInodes(f))
<1>1. r.pc = "create" /\ fs.ic[r.at].lock = NoProc
  BY DEF Create, At, Unlocked
<1>2. /\ \/ /\ ip # z
            /\ Go(p, Iunlockput(Iget(f, ip), r.at), [r EXCEPT !.pc = "exists", !.at = ip])
         \/ Return(p, Iunlockput(f, r.at))
         \/ /\ ip = z /\ FreeInodes(f) # {}
            /\ Go(p, Iget([f EXCEPT !.disk[new] = Dinode(TypeOf(r.call), 0)], new),
                  [r EXCEPT !.pc = "ialloc", !.ip = new])
  BY DEF Create
<1> HIDE DEF r
<1>3. /\ r \in Locals /\ r.ip = z /\ r.target = z /\ r.at \in Inums /\ r.at # z
      /\ r.rest # <<>> /\ r.call \in {"creat", "mkdir", "mknod"} /\ fs.disk[r.at].type = "dir"
  <2>1. r \in Locals /\ Shape(r) /\ Relies(r, fs)
    BY Hand DEF r
  <2>2. r.ip = z /\ r.target = z /\ r.at # z /\ r.rest # <<>> /\ r.call \in {"creat", "mkdir", "mknod"}
    BY <1>1, <2>1 DEF Shape, Stage
  <2>3. fs.disk[r.at].type = "dir"
    BY <1>1, <2>1 DEF Relies, Parents
  <2> QED BY <2>1, <2>2, <2>3, Hand DEF r
<1>4. n \in Elems
  <2>1. r.rest \in Seq(Elems)
    BY <1>3 DEF Locals
  <2> QED BY <1>3, <2>1
<1>5. /\ IpLink(r) = z /\ AtLink(r) = z /\ TargetLink(r) = z /\ Missing(r) = z
      /\ Locks(r) = Locked(z, z)
  BY <1>1, Place DEF IpLink, AtLink, TargetLink, Missing, Stage, LockAt, Making, Removing
<1>6. Mid(p, fs, Held(r.at, z, z, z), Locked(z, z), Due(z, z, z, z))
  BY <1>3, <1>5, Hand DEF r
<1>7. /\ Mid(p, f, Held(r.at, z, z, z), Locked(r.at, z), Due(z, z, z, z)) /\ Still(fs, f)
      /\ r.at \in Live(f)
  BY <1>1, <1>3, <1>6, LockOp
<1> HIDE DEF f
<1>8. f.disk[r.at].type = "dir" /\ ip = f.dirs[r.at][n]
  <2>1. f.disk[r.at].type = "dir"
    BY <1>3, <1>7 DEF Still, Same
  <2>2. f.ic[r.at].type = "dir"
    BY <1>7, <2>1, ReadIs
  <2> QED BY <1>4, <2>1, <2>2, FindPlain DEF Lookup
<1> HIDE DEF ip, n
<1>9. CASE /\ ip # z
           /\ Go(p, Iunlockput(Iget(f, ip), r.at), [r EXCEPT !.pc = "exists", !.at = ip])
  <2> DEFINE s == [r EXCEPT !.pc = "exists", !.at = ip]
             e == Iget(f, ip)
             g == Iunlockput(e, r.at)
  <2>1. ip \in Inums /\ f.disk[ip].type # "free" /\ Found1(p, ip)
    BY <1>3, <1>4, <1>7, <1>8, <1>9, NamedNow
  <2>2. Mid(p, e, Held(r.at, z, z, ip), Locked(r.at, z), Due(z, z, z, z)) /\ Still(f, e)
    BY <1>7, <2>1, GetOp
  <2>3. Go(p, g, s)
    BY <1>9
  <2> HIDE DEF e
  <2>4. Mid(p, g, Held(z, z, z, ip), Locked(z, z), Due(z, z, z, z)) /\ Kept(e, g, r.at, z, z, ip)
    BY <1>3, <2>2, LeaveOp
  <2> HIDE DEF g
  <2>5. /\ s \in Locals /\ s.pc = "exists" /\ s.at = ip /\ s.ip = z /\ s.target = z
        /\ s.call = r.call /\ s.old = r.old /\ s.rest = r.rest
    BY <1>3, <2>1 DEF Locals, PCs, Ptrs
  <2> HIDE DEF s
  <2>6. /\ IpLink(s) = z /\ AtLink(s) = z /\ TargetLink(s) = z /\ Missing(s) = z
        /\ Locks(s) = Locked(z, z)
    BY <2>5, Place DEF IpLink, AtLink, TargetLink, Missing, Stage, LockAt, Making, Removing
  <2>7. g.disk[s.at].type # "free"
    BY <2>1, <2>2, <2>4, <2>5 DEF Still, Kept, Same
  <2>8. Relies(s, g)
    BY <1>3, <2>1, <2>5, <2>7, Consts DEF Relies, Shape, Stage, Known, Making, Removing, Moving,
       Parents, LockAt, LockIp
  <2>9. Held(z, z, z, ip) = Held(s.at, s.ip, s.target, z)
    BY <2>5, Lists
  <2>10. Found1(p, s.at) /\ s.pc \notin Making /\ s.call = proc[p].call /\ proc[p].pc # "lock"
         /\ s.pc # "lock"
    BY <1>1, <2>1, <2>5 DEF Making, r
  <2> QED BY <2>3, <2>4, <2>5, <2>6, <2>8, <2>9, <2>10, GoEnd
<1>10. CASE Return(p, Iunlockput(f, r.at))
  <2>1. Mid(p, Iunlockput(f, r.at), Held(z, z, z, z), Locked(z, z), Due(z, z, z, z))
    BY <1>3, <1>7, LeaveOp
  <2> QED BY <1>10, <2>1, ReturnEnd
<1>11. CASE /\ ip = z /\ FreeInodes(f) # {}
            /\ Go(p, Iget([f EXCEPT !.disk[new] = Dinode(TypeOf(r.call), 0)], new),
                  [r EXCEPT !.pc = "ialloc", !.ip = new])
  <2> DEFINE s == [r EXCEPT !.pc = "ialloc", !.ip = new]
             t == TypeOf(r.call)
             e == Typed(f, new, t)
             g == Iget(e, new)
             D == Due(z, z, z, z)
             R == Held(r.at, z, z, z)
             K == Locked(r.at, z)
  <2>1. new \in Inums /\ f.disk[new].type = "free"
    BY <1>11, LowestFree
  <2>2. t \in {"file", "dev", "dir"}
    BY DEF TypeOf
  <2>3. Go(p, g, s)
    BY <1>11 DEF Typed
  <2> HIDE DEF new, t
  <2>4. D[new] >= 0
    BY <2>1, Consts DEF Due, One
  <2> HIDE DEF D, R, K
  <2>5. Mid(p, f, R, K, D)
    BY <1>7 DEF D, R, K
  <2>6. /\ Mid(p, e, R, K, D)
        /\ e.dirs = f.dirs /\ e.up = f.up /\ e.ic = f.ic /\ Live(e) = Live(f)
        /\ e.disk[new].type = t
        /\ \A j \in Inums : j # new => e.disk[j] = f.disk[j]
    BY <2>1, <2>2, <2>4, <2>5, MidIalloc
  <2>7. /\ \A q \in Others(p) : /\ proc[q].at # new /\ proc[q].ip # new
                                /\ proc[q].target = new => proc[q].pc = "cycle"
        /\ NamesIn(f, new) = {}
    BY <2>1, <2>4, <2>5, MidFree
  <2> HIDE DEF e
  <2>8. Mid(p, g, Held(r.at, z, z, new), K, D) /\ Still(e, g)
    BY <2>1, <2>6, GetOp DEF R
  <2> HIDE DEF g
  <2>9. /\ s \in Locals /\ s.pc = "ialloc" /\ s.at = r.at /\ s.ip = new /\ s.target = z
        /\ s.call = r.call /\ s.old = r.old /\ s.rest = r.rest
    BY <1>3, <2>1 DEF Locals, PCs, Ptrs, Making
  <2> HIDE DEF s
  <2>10. /\ IpLink(s) = z /\ AtLink(s) = z /\ TargetLink(s) = z /\ Missing(s) = z
         /\ Locks(s) = Locked(s.at, z)
    BY <2>9, Place DEF IpLink, AtLink, TargetLink, Missing, Stage, LockAt, LockIp, Making, Removing
  <2>11. new # r.at /\ new # ROOTINO
    <3>1. fs.disk[ROOTINO].type = "dir" /\ fs.disk[new].type = "free"
      BY <1>7, <2>1, Hand DEF Disk, Still, Same
    <3> QED BY <1>8, <2>1, <3>1
  <2>12. /\ g.disk[s.at].type = "dir" /\ g.disk[s.ip].type = t /\ g.dirs = f.dirs
    BY <1>3, <1>8, <2>1, <2>6, <2>8, <2>9, <2>11 DEF Still, Same
  <2>13. g.dirs[s.at][Head(s.rest)] = z
    BY <1>8, <1>11, <2>9, <2>12 DEF n
  <2>14. Shape(s)
    BY <1>3, <2>1, <2>9, Consts DEF Shape, Stage, Making, Moving
  <2>15. t # "free" /\ t = TypeOf(s.call)
    BY <2>2, <2>9 DEF t
  <2>16. Relies(s, g)
    BY <1>3, <2>1, <2>9, <2>11, <2>12, <2>13, <2>14, <2>15, Consts DEF Relies, Stage, Known, Making, Removing,
       Moving, Parents, LockAt, LockIp
  <2>17. Held(r.at, z, z, new) = Held(s.at, s.ip, s.target, z)
    BY <2>9, Lists
  <2>18. /\ Found1(p, s.at) /\ Found1(p, s.ip) /\ s.call = proc[p].call /\ proc[p].pc # "lock"
         /\ s.pc # "lock"
    <3>1. fs.disk[new].type = "free"
      BY <1>7, <2>1 DEF Still, Same
    <3> QED BY <1>1, <2>9, <3>1 DEF Found1, r
  <2>19. ASSUME NEW d \in Inums, NEW m \in Elems PROVE g.dirs[d][m] # s.ip
    <3>1. <<d, m>> \notin NamesIn(f, new)
      BY <2>7
    <3> QED BY <2>9, <2>12, <3>1 DEF NamesIn
  <2>20. Mid(p, g, Held(s.at, s.ip, s.target, z), Locks(s), Due(IpLink(s), AtLink(s), TargetLink(s), Missing(s)))
    BY <2>8, <2>9, <2>10, <2>17 DEF K, D
  <2> QED BY <2>3, <2>7, <2>9, <2>11, <2>16, <2>18, <2>19, <2>20, GoEnd
<1> QED BY <1>2, <1>9, <1>10, <1>11

\* What holds of an inode that p makes.
LEMMA Unknown ==
  ASSUME Inv, NEW p \in Procs, proc[p].pc \in Making
  PROVE  /\ proc[p].ip # ROOTINO
         /\ \A d \in Inums, n \in Elems : fs.dirs[d][n] # proc[p].ip
         /\ \A q \in Others(p) : /\ proc[q].at # proc[p].ip /\ proc[q].ip # proc[p].ip
                                 /\ proc[q].target = proc[p].ip => proc[q].pc = "cycle"
BY DEF Inv, Fresh, Others

\* The new inode is locked and counted.
LEMMA IallocStep ==
  ASSUME Inv, NEW p \in Procs, Ialloc(p), UNCHANGED calls
  PROVE  Inv'
<1> DEFINE r == proc[p]
           z == NoInode
           f == Ilock(fs, p, r.ip)
           g == Count(f, r.ip, 1)
           s == [r EXCEPT !.pc = IF r.call = "mkdir" THEN "count" ELSE "entry"]
<1>1. r.pc = "ialloc" /\ fs.ic[r.ip].lock = NoProc /\ Go(p, g, s)
  BY DEF Ialloc, At, Unlocked, NewCount
<1> HIDE DEF r
<1>2. /\ r \in Locals /\ r.target = z /\ r.at \in Inums /\ r.at # z /\ r.ip \in Inums /\ r.ip # z
      /\ r.rest # <<>> /\ r.call \in {"creat", "mkdir", "mknod"} /\ fs.disk[r.at].type = "dir"
      /\ fs.disk[r.ip].type # "free" /\ fs.disk[r.ip].type = TypeOf(r.call)
      /\ fs.dirs[r.at][Head(r.rest)] = z
  <2>1. r \in Locals /\ Shape(r) /\ Relies(r, fs)
    BY Hand DEF r
  <2>2. r.target = z /\ r.at # z /\ r.ip # z /\ r.rest # <<>> /\ r.call \in {"creat", "mkdir", "mknod"}
    BY <1>1, <2>1 DEF Shape, Stage, Making
  <2>3. fs.disk[r.at].type = "dir" /\ fs.disk[r.ip].type # "free" /\ fs.disk[r.ip].type = TypeOf(r.call)
        /\ fs.dirs[r.at][Head(r.rest)] = z
    BY <1>1, <2>1, <2>2 DEF Relies, Parents, LockAt, Making
  <2> QED BY <2>1, <2>2, <2>3, Hand DEF r
<1>3. /\ IpLink(r) = z /\ AtLink(r) = z /\ TargetLink(r) = z /\ Missing(r) = z
      /\ Locks(r) = Locked(r.at, z)
  BY <1>1, Place DEF IpLink, AtLink, TargetLink, Missing, Stage, LockAt, LockIp, Making, Removing
<1>4. Mid(p, fs, Held(r.at, r.ip, z, z), Locked(r.at, z), Due(z, z, z, z))
  BY <1>2, <1>3, Hand DEF r
<1>5. r.at # r.ip
  <2>1. r.at \in Locked(r.at, z)
    BY <1>2 DEF Locked
  <2>2. fs.ic[r.at].lock = p
    BY <1>2, <1>4, <2>1 DEF Mid
  <2> QED BY <1>1, <2>2, Consts
<1>6. Held(r.at, r.ip, z, z) = Held(r.ip, r.at, z, z) /\ Locked(r.at, z) = Locked(z, r.at)
      /\ Locked(r.ip, r.at) = Locked(r.at, r.ip)
  BY Lists
<1>7. Mid(p, fs, Held(r.ip, r.at, z, z), Locked(z, r.at), Due(z, z, z, z))
  BY <1>4, <1>6
<1>8. /\ Mid(p, f, Held(r.ip, r.at, z, z), Locked(r.ip, r.at), Due(z, z, z, z)) /\ Still(fs, f)
      /\ r.ip \in Live(f)
  BY <1>1, <1>2, <1>7, LockOp
<1> HIDE DEF f
<1>9. r.ip \in Locked(r.ip, r.at)
  BY <1>2 DEF Locked
<1>10. Mid(p, g, Held(r.ip, r.at, z, z), Locked(r.ip, r.at), Due(r.ip, z, z, z)) /\ Still(f, g)
  BY <1>8, <1>9, CountUp
<1> HIDE DEF g
<1>11. /\ s \in Locals /\ s.pc = (IF r.call = "mkdir" THEN "count" ELSE "entry") /\ s.at = r.at
       /\ s.ip = r.ip /\ s.target = z /\ s.call = r.call /\ s.old = r.old /\ s.rest = r.rest
  BY <1>2 DEF Locals, PCs, Making
<1> HIDE DEF s
<1>12. \/ s.pc = "count" /\ s.call = "mkdir"
       \/ s.pc = "entry" /\ s.call \in {"creat", "mknod"}
  BY <1>2, <1>11
<1>13. /\ IpLink(s) = s.ip /\ AtLink(s) = z /\ TargetLink(s) = z /\ Missing(s) = z
       /\ Locks(s) = Locked(s.at, s.ip)
  BY <1>12, Place DEF IpLink, AtLink, TargetLink, Missing, Stage, LockAt, LockIp, Making, Removing
<1>14. /\ g.disk[s.at].type = "dir" /\ g.disk[s.ip].type # "free" /\ g.disk[s.ip].type = TypeOf(s.call)
       /\ g.dirs[s.at][Head(s.rest)] = z /\ s.ip \in Live(g) /\ g.dirs = fs.dirs
  BY <1>2, <1>8, <1>10, <1>11 DEF Still, Same
<1>15. Shape(s)
  BY <1>2, <1>11, <1>12 DEF Shape, Stage, Making, Moving
<1>16. Relies(s, g)
  BY <1>2, <1>5, <1>11, <1>12, <1>14, <1>15 DEF Relies, Stage, Known, Making, Removing,
     Moving, Parents, LockAt, LockIp
<1>17. /\ Found1(p, s.at) /\ Found1(p, s.ip) /\ s.call = proc[p].call /\ proc[p].pc # "lock"
       /\ s.pc # "lock"
  BY <1>1, <1>11, <1>12 DEF Found1, r
<1>18. proc[p].pc \in Making
  BY <1>1 DEF Making, r
<1>19. /\ s.ip # ROOTINO
       /\ \A d \in Inums, n \in Elems : g.dirs[d][n] # s.ip
       /\ \A q \in Others(p) : /\ proc[q].at # s.ip /\ proc[q].ip # s.ip
                               /\ proc[q].target = s.ip => proc[q].pc = "cycle"
  BY <1>11, <1>14, <1>18, Unknown DEF r
<1>20. Mid(p, g, Held(s.at, s.ip, s.target, z), Locks(s), Due(IpLink(s), AtLink(s), TargetLink(s), Missing(s)))
  BY <1>6, <1>10, <1>11, <1>13
<1> QED BY <1>1, <1>11, <1>16, <1>17, <1>19, <1>20, GoEnd

\* What p knows while it makes an inode that it has locked.
LEMMA MakingNow ==
  ASSUME Inv, NEW p \in Procs, proc[p].pc \in {"count", "dots", "entry"}
  PROVE  LET r == proc[p] IN
         /\ r \in Locals /\ r.target = NoInode /\ r.at \in Inums /\ r.at # NoInode
         /\ r.ip \in Inums /\ r.ip # NoInode /\ r.at # r.ip
         /\ r.rest # <<>> /\ Head(r.rest) \in Elems /\ r.call \in {"creat", "mkdir", "mknod"}
         /\ fs.disk[r.at].type = "dir" /\ fs.disk[r.ip].type # "free" /\ r.ip \in Live(fs)
         /\ fs.disk[r.ip].type = TypeOf(r.call) /\ fs.dirs[r.at][Head(r.rest)] = NoInode
         /\ Mid(p, fs, Held(r.at, r.ip, NoInode, NoInode), Locked(r.at, r.ip),
                Due(r.ip, AtLink(r), NoInode, NoInode))
<1> DEFINE r == proc[p]
           z == NoInode
<1>1. r.pc \in {"count", "dots", "entry"}
  OBVIOUS
<1> HIDE DEF r
<1>2. r \in Locals /\ Shape(r) /\ Relies(r, fs)
  BY Hand DEF r
<1>3. /\ r.target = z /\ r.at # z /\ r.ip # z /\ r.rest # <<>> /\ r.call \in {"creat", "mkdir", "mknod"}
  BY <1>1, <1>2 DEF Shape, Stage, Making
<1>4. /\ fs.disk[r.at].type = "dir" /\ fs.disk[r.ip].type # "free" /\ r.ip \in Live(fs)
      /\ fs.disk[r.ip].type = TypeOf(r.call) /\ fs.dirs[r.at][Head(r.rest)] = z /\ r.at # r.ip
  BY <1>1, <1>2, <1>3 DEF Relies, Parents, LockAt, LockIp, Making, Known, Stage
<1>5. Head(r.rest) \in Elems
  <2>1. r.rest \in Seq(Elems)
    BY <1>2 DEF Locals
  <2> QED BY <1>3, <2>1
<1>6. IpLink(r) = r.ip /\ TargetLink(r) = z /\ Missing(r) = z /\ Locks(r) = Locked(r.at, r.ip)
  BY <1>1, Place DEF IpLink, TargetLink, Missing, Stage, LockIp
<1>7. Mid(p, fs, Held(r.at, r.ip, z, z), Locked(r.at, r.ip), Due(r.ip, AtLink(r), z, z))
  BY <1>3, <1>6, Hand DEF r
<1>8. r.at \in Inums /\ r.ip \in Inums
  BY <1>3, Hand DEF r
<1> QED BY <1>2, <1>3, <1>4, <1>5, <1>7, <1>8 DEF r

\* It goes on making it.
LEMMA MakingEnd ==
  ASSUME Inv, NEW p \in Procs, NEW g, NEW s \in Locals, Go(p, g, s), UNCHANGED calls,
         proc[p].pc \in {"count", "dots"}, s.pc \in {"dots", "entry"}, s.call = "mkdir",
         s.call = proc[p].call, s.at = proc[p].at, s.ip = proc[p].ip, s.target = NoInode,
         s.rest = proc[p].rest, s.old = proc[p].old,
         g.dirs = fs.dirs, \A i \in Inums : Same(fs, g, i),
         Mid(p, g, Held(s.at, s.ip, NoInode, NoInode), Locked(s.at, s.ip), Due(s.ip, s.at, NoInode, NoInode))
  PROVE  Inv'
<1> DEFINE r == proc[p]
           z == NoInode
<1>1. /\ r \in Locals /\ r.target = z /\ r.at \in Inums /\ r.at # z
      /\ r.ip \in Inums /\ r.ip # z /\ r.at # r.ip
      /\ r.rest # <<>> /\ r.call \in {"creat", "mkdir", "mknod"}
      /\ fs.disk[r.at].type = "dir" /\ fs.disk[r.ip].type # "free" /\ r.ip \in Live(fs)
      /\ fs.disk[r.ip].type = TypeOf(r.call) /\ fs.dirs[r.at][Head(r.rest)] = z
      /\ s.call = r.call /\ s.at = r.at /\ s.ip = r.ip /\ s.rest = r.rest /\ s.old = r.old
  BY MakingNow
<1> HIDE DEF r
<1>2. /\ IpLink(s) = s.ip /\ AtLink(s) = s.at /\ TargetLink(s) = z /\ Missing(s) = z
      /\ Locks(s) = Locked(s.at, s.ip)
  BY Place DEF IpLink, AtLink, TargetLink, Missing, Stage, LockIp
<1>3. /\ g.disk[s.at].type = "dir" /\ g.disk[s.ip].type # "free" /\ g.disk[s.ip].type = TypeOf(s.call)
      /\ g.dirs[s.at][Head(s.rest)] = z /\ s.ip \in Live(g)
  BY <1>1 DEF Same
<1>4. Shape(s)
  BY <1>1 DEF Shape, Stage, Making, Moving
<1>5. Relies(s, g)
  BY <1>1, <1>3, <1>4 DEF Relies, Stage, Known, Making, Removing, Moving, Parents, LockAt, LockIp
<1>6. /\ Found1(p, s.at) /\ Found1(p, s.ip) /\ proc[p].pc # "lock" /\ s.pc # "lock"
      /\ proc[p].pc \in Making
  BY DEF Found1, Making
<1>7. /\ s.ip # ROOTINO
      /\ \A d \in Inums, n \in Elems : g.dirs[d][n] # s.ip
      /\ \A q \in Others(p) : /\ proc[q].at # s.ip /\ proc[q].ip # s.ip
                              /\ proc[q].target = s.ip => proc[q].pc = "cycle"
  BY <1>6, Unknown
<1>8. Mid(p, g, Held(s.at, s.ip, s.target, z), Locks(s), Due(IpLink(s), AtLink(s), TargetLink(s), Missing(s)))
  BY <1>2
<1> QED BY <1>5, <1>6, <1>7, <1>8, GoEnd

\* mkdir counts the link of its parent.
LEMMA CountParentStep ==
  ASSUME Inv, NEW p \in Procs, CountParent(p), UNCHANGED calls
  PROVE  Inv'
<1> DEFINE r == proc[p]
           z == NoInode
           g == Count(fs, r.at, 1)
           s == [r EXCEPT !.pc = "dots"]
<1>1. r.pc = "count" /\ Go(p, g, s)
  BY DEF CountParent, At
<1>2. /\ r \in Locals /\ r.target = z /\ r.at \in Inums
      /\ Mid(p, fs, Held(r.at, r.ip, z, z), Locked(r.at, r.ip), Due(r.ip, AtLink(r), z, z))
  BY <1>1, MakingNow
<1>3. r.call = "mkdir"
  BY <1>1, Hand DEF Shape
<1> HIDE DEF r
<1>4. AtLink(r) = z
  BY <1>1 DEF AtLink
<1>5. Due(r.ip, z, z, z) = Due(z, r.ip, z, z) /\ Due(r.at, r.ip, z, z) = Due(r.ip, r.at, z, z)
  BY Lists
<1>6. r.at \in Locked(r.at, r.ip)
  BY <1>2 DEF Locked
<1>7. Mid(p, fs, Held(r.at, r.ip, z, z), Locked(r.at, r.ip), Due(z, r.ip, z, z))
  BY <1>2, <1>4, <1>5
<1>8. Mid(p, g, Held(r.at, r.ip, z, z), Locked(r.at, r.ip), Due(r.at, r.ip, z, z)) /\ Still(fs, g)
  BY <1>6, <1>7, CountUp
<1> HIDE DEF g
<1>9. /\ s \in Locals /\ s.pc = "dots" /\ s.call = r.call /\ s.at = r.at /\ s.ip = r.ip /\ s.target = z
      /\ s.rest = r.rest /\ s.old = r.old
  BY <1>2 DEF Locals, PCs, Making
<1> HIDE DEF s
<1>10. g.dirs = fs.dirs /\ \A i \in Inums : Same(fs, g, i)
  BY <1>8 DEF Still
<1>11. Mid(p, g, Held(s.at, s.ip, z, z), Locked(s.at, s.ip), Due(s.ip, s.at, z, z))
  BY <1>5, <1>8, <1>9
<1> QED BY <1>1, <1>3, <1>9, <1>10, <1>11, MakingEnd DEF r

\* A creation that fails puts its counts back.
LEMMA UndoCreateStep ==
  ASSUME Inv, NEW p \in Procs, UndoCreate(p), proc[p].pc \in {"dots", "entry"}, UNCHANGED calls
  PROVE  Inv'
<1> DEFINE r == proc[p]
           z == NoInode
           f == IF r.call = "mkdir" THEN Count(fs, r.at, -1) ELSE fs
           g == Count(f, r.ip, -1)
           h == Iunlockput(g, r.ip)
           e == Iunlockput(h, r.at)
<1>1. Return(p, e)
  BY DEF UndoCreate
<1>2. /\ r \in Locals /\ r.at \in Inums /\ r.at # z /\ r.ip \in Inums /\ r.ip # z /\ r.at # r.ip
      /\ r.call \in {"creat", "mkdir", "mknod"} /\ r.pc \in {"dots", "entry"}
      /\ Mid(p, fs, Held(r.at, r.ip, z, z), Locked(r.at, r.ip), Due(r.ip, AtLink(r), z, z))
  BY MakingNow
<1>3. r.pc = "dots" => r.call = "mkdir"
  BY Hand DEF Shape
<1> HIDE DEF r
<1>4. r.at \in Locked(r.at, r.ip) /\ r.ip \in Locked(r.at, r.ip)
  BY <1>2 DEF Locked
<1>5. Mid(p, f, Held(r.at, r.ip, z, z), Locked(r.at, r.ip), Due(r.ip, z, z, z))
  <2>1. CASE r.call = "mkdir"
    <3>1. AtLink(r) = r.at
      BY <1>2, <2>1 DEF AtLink
    <3>2. Due(r.ip, r.at, z, z) = Due(r.at, r.ip, z, z) /\ Due(z, r.ip, z, z) = Due(r.ip, z, z, z)
      BY Lists
    <3>3. Mid(p, fs, Held(r.at, r.ip, z, z), Locked(r.at, r.ip), Due(r.at, r.ip, z, z))
      BY <1>2, <3>1, <3>2
    <3>4. Mid(p, Count(fs, r.at, -1), Held(r.at, r.ip, z, z), Locked(r.at, r.ip), Due(z, r.ip, z, z))
      BY <1>4, <3>3, CountDown
    <3> QED BY <2>1, <3>2, <3>4
  <2>2. CASE r.call # "mkdir"
    <3>1. AtLink(r) = z
      BY <1>2, <1>3, <2>2 DEF AtLink
    <3> QED BY <1>2, <2>2, <3>1
  <2> QED BY <2>1, <2>2
<1> HIDE DEF f
<1>6. Mid(p, g, Held(r.at, r.ip, z, z), Locked(r.at, r.ip), Due(z, z, z, z))
  BY <1>4, <1>5, CountDown
<1> HIDE DEF g
<1>7. /\ Held(r.at, r.ip, z, z) = Held(r.ip, r.at, z, z) /\ Held(z, r.at, z, z) = Held(r.at, z, z, z)
      /\ Locked(r.at, r.ip) = Locked(r.ip, r.at) /\ Locked(z, r.at) = Locked(r.at, z)
  BY Lists
<1>8. Mid(p, g, Held(r.ip, r.at, z, z), Locked(r.ip, r.at), Due(z, z, z, z))
  BY <1>6, <1>7
<1>9. Mid(p, h, Held(z, r.at, z, z), Locked(z, r.at), Due(z, z, z, z))
  BY <1>2, <1>8, LeaveOp
<1> HIDE DEF h
<1>10. Mid(p, h, Held(r.at, z, z, z), Locked(r.at, z), Due(z, z, z, z))
  BY <1>7, <1>9
<1>11. Mid(p, e, Held(z, z, z, z), Locked(z, z), Due(z, z, z, z))
  BY <1>2, <1>10, LeaveOp
<1> QED BY <1>1, <1>11, ReturnEnd

\* mkdir writes . and .., or fails.
LEMMA DotsStep ==
  ASSUME Inv, NEW p \in Procs, Dots(p), UNCHANGED calls
  PROVE  Inv'
<1> DEFINE r == proc[p]
           z == NoInode
           g == [fs EXCEPT !.up[r.ip] = r.at]
           s == [r EXCEPT !.pc = "entry"]
<1>1. r.pc = "dots" /\ (Go(p, g, s) \/ UndoCreate(p))
  BY DEF Dots, At
<1>2. CASE UndoCreate(p)
  BY <1>1, <1>2, UndoCreateStep
<1>3. CASE Go(p, g, s)
  <2>1. /\ r \in Locals /\ r.target = z /\ r.at \in Inums /\ r.ip \in Inums
        /\ Mid(p, fs, Held(r.at, r.ip, z, z), Locked(r.at, r.ip), Due(r.ip, AtLink(r), z, z))
    BY <1>1, MakingNow
  <2>2. r.call = "mkdir"
    BY <1>1, Hand DEF Shape
  <2> HIDE DEF r
  <2>3. AtLink(r) = r.at /\ r.at \in Ptrs
    BY <1>1, <2>1 DEF AtLink, Ptrs
  <2> DEFINE R == Held(r.at, r.ip, z, z)
             K == Locked(r.at, r.ip)
             L == Due(r.ip, AtLink(r), z, z)
  <2> HIDE DEF R, K, L
  <2>4. Mid(p, fs, R, K, L)
    BY <2>1 DEF R, K, L
  <2>5. /\ Mid(p, g, R, K, L)
        /\ g.disk = fs.disk /\ g.dirs = fs.dirs /\ Live(g) = Live(fs)
    BY <2>1, <2>3, <2>4, MidUp
  <2>6. /\ s \in Locals /\ s.pc = "entry" /\ s.call = r.call /\ s.at = r.at /\ s.ip = r.ip
        /\ s.target = z /\ s.rest = r.rest /\ s.old = r.old
    BY <2>1 DEF Locals, PCs, Making
  <2>7. Go(p, g, s)
    BY <1>3
  <2> HIDE DEF g, s
  <2>8. g.dirs = fs.dirs /\ \A i \in Inums : Same(fs, g, i)
    BY <2>5 DEF Same
  <2>9. Mid(p, g, Held(s.at, s.ip, z, z), Locked(s.at, s.ip), Due(s.ip, s.at, z, z))
    BY <2>3, <2>5, <2>6 DEF R, K, L
  <2> QED BY <1>1, <2>2, <2>6, <2>7, <2>8, <2>9, MakingEnd DEF r
<1> QED BY <1>1, <1>2, <1>3

\* The new inode gets its name.
LEMMA NewEntryStep ==
  ASSUME Inv, NEW p \in Procs, NewEntry(p), UNCHANGED calls
  PROVE  Inv'
<1> DEFINE r == proc[p]
           z == NoInode
           n == Head(r.rest)
           e == Entry(fs, r.at, n, r.ip)
           f == Iunlockput(e, r.at)
           s == [r EXCEPT !.pc = "open", !.at = r.ip, !.ip = NoInode]
<1>1. /\ r.pc = "entry"
      /\ \/ r.call = "mkdir" /\ Return(p, Iunlockput(f, r.ip))
         \/ r.call = "mknod" /\ Return(p, Iunlockput(f, r.ip))
         \/ r.call = "creat" /\ Go(p, Iunlock(f, r.ip), s)
         \/ UndoCreate(p)
  BY DEF NewEntry, At
<1>2. CASE UndoCreate(p)
  BY <1>1, <1>2, UndoCreateStep
<1>3. /\ r \in Locals /\ r.target = z /\ r.at \in Inums /\ r.at # z
      /\ r.ip \in Inums /\ r.ip # z /\ r.at # r.ip /\ n \in Elems
      /\ fs.disk[r.ip].type # "free" /\ r.ip \in Live(fs)
      /\ fs.disk[r.ip].type = TypeOf(r.call) /\ fs.dirs[r.at][n] = z
      /\ Mid(p, fs, Held(r.at, r.ip, z, z), Locked(r.at, r.ip), Due(r.ip, AtLink(r), z, z))
  BY <1>1, MakingNow
<1>4. \A q \in Others(p) : proc[q].pc \in Making => proc[q].ip # r.ip
  BY NotMade
<1> HIDE DEF r, n
<1>5. r.at \in Locked(r.at, r.ip)
  BY <1>3 DEF Locked
<1>6. Held(z, r.ip, z, z) = Held(r.ip, z, z, z) /\ Locked(z, r.ip) = Locked(r.ip, z)
  BY Lists
<1>7. CASE r.call = "mkdir" /\ Return(p, Iunlockput(f, r.ip))
  <2>1. AtLink(r) = r.at /\ fs.disk[r.ip].type = "dir"
    BY <1>1, <1>3, <1>7 DEF AtLink, TypeOf
  <2>2. Mid(p, fs, Held(r.at, r.ip, z, z), Locked(r.at, r.ip), Due(r.ip, r.at, z, z))
    BY <1>3, <2>1
  <2>3. Mid(p, e, Held(r.at, r.ip, z, z), Locked(r.at, r.ip), Due(z, z, z, z))
    BY <1>3, <1>4, <1>5, <2>1, <2>2, LinkDir
  <2> HIDE DEF e
  <2>4. Mid(p, f, Held(z, r.ip, z, z), Locked(z, r.ip), Due(z, z, z, z))
    BY <1>3, <2>3, LeaveOp
  <2> HIDE DEF f
  <2>5. Mid(p, f, Held(r.ip, z, z, z), Locked(r.ip, z), Due(z, z, z, z))
    BY <1>6, <2>4
  <2>6. Mid(p, Iunlockput(f, r.ip), Held(z, z, z, z), Locked(z, z), Due(z, z, z, z))
    BY <1>3, <2>5, LeaveOp
  <2> QED BY <1>7, <2>6, ReturnEnd
<1>a. CASE r.call = "mknod" /\ Return(p, Iunlockput(f, r.ip))
  <2>1. AtLink(r) = z /\ fs.disk[r.ip].type # "dir"
    BY <1>1, <1>3, <1>a DEF AtLink, TypeOf
  <2>2. Mid(p, fs, Held(r.at, r.ip, z, z), Locked(r.at, r.ip), Due(r.ip, z, z, z))
    BY <1>3, <2>1
  <2>3. Mid(p, e, Held(r.at, r.ip, z, z), Locked(r.at, r.ip), Due(z, z, z, z))
    BY <1>3, <1>4, <1>5, <2>1, <2>2, LinkFile
  <2> HIDE DEF e
  <2>4. Mid(p, f, Held(z, r.ip, z, z), Locked(z, r.ip), Due(z, z, z, z))
    BY <1>3, <2>3, LeaveOp
  <2> HIDE DEF f
  <2>5. Mid(p, f, Held(r.ip, z, z, z), Locked(r.ip, z), Due(z, z, z, z))
    BY <1>6, <2>4
  <2>6. Mid(p, Iunlockput(f, r.ip), Held(z, z, z, z), Locked(z, z), Due(z, z, z, z))
    BY <1>3, <2>5, LeaveOp
  <2> QED BY <1>a, <2>6, ReturnEnd
<1>8. CASE r.call = "creat" /\ Go(p, Iunlock(f, r.ip), s)
  <2> DEFINE g == Iunlock(f, r.ip)
  <2>0. Go(p, g, s)
    BY <1>8
  <2>1. AtLink(r) = z /\ fs.disk[r.ip].type # "dir"
    BY <1>1, <1>3, <1>8 DEF AtLink, TypeOf
  <2>2. Mid(p, fs, Held(r.at, r.ip, z, z), Locked(r.at, r.ip), Due(r.ip, z, z, z))
    BY <1>3, <2>1
  <2>3. /\ Mid(p, e, Held(r.at, r.ip, z, z), Locked(r.at, r.ip), Due(z, z, z, z))
        /\ Renamed(fs, e, r.at, n, r.ip)
    BY <1>3, <1>4, <1>5, <2>1, <2>2, LinkFile
  <2> HIDE DEF e
  <2>4. /\ Mid(p, f, Held(z, r.ip, z, z), Locked(z, r.ip), Due(z, z, z, z))
        /\ Kept(e, f, r.at, r.ip, z, z)
    BY <1>3, <2>3, LeaveOp
  <2> HIDE DEF f
  <2>5. Mid(p, f, Held(r.ip, z, z, z), Locked(r.ip, z), Due(z, z, z, z))
    BY <1>6, <2>4
  <2>6. Mid(p, g, Held(r.ip, z, z, z), Locked(z, z), Due(z, z, z, z)) /\ Still(f, g)
    BY <1>3, <2>5, UnlockOp
  <2> HIDE DEF g
  <2>7. /\ s \in Locals /\ s.pc = "open" /\ s.call = r.call /\ s.at = r.ip /\ s.ip = z /\ s.target = z
        /\ s.old = r.old
    BY <1>3 DEF Locals, PCs, Ptrs
  <2> HIDE DEF s
  <2>8. /\ IpLink(s) = z /\ AtLink(s) = z /\ TargetLink(s) = z /\ Missing(s) = z
        /\ Locks(s) = Locked(z, z)
    BY <2>7, Place DEF IpLink, AtLink, TargetLink, Missing, Stage, LockAt, Making, Removing
  <2>9. g.disk[s.at].type # "free"
    BY <1>3, <2>3, <2>4, <2>6, <2>7 DEF Renamed, Kept, Still, Same
  <2>10. Relies(s, g)
    BY <1>3, <1>8, <2>7, <2>9 DEF Relies, Shape, Stage, Known, Making, Removing, Moving, Parents,
       LockAt, LockIp
  <2>11. /\ Found1(p, s.at) /\ s.pc \notin Making /\ s.call = proc[p].call /\ proc[p].pc # "lock"
         /\ s.pc # "lock"
    BY <1>1, <2>7 DEF Found1, r, Making
  <2> QED BY <2>0, <2>6, <2>7, <2>8, <2>10, <2>11, GoEnd
<1> QED BY <1>1, <1>2, <1>7, <1>8, <1>a

\* sys_unlink: the name is looked up in its directory, which stays locked.
LEMMA UnlinkStep ==
  ASSUME Inv, NEW p \in Procs, Unlink(p), UNCHANGED calls
  PROVE  Inv'
<1> DEFINE r == proc[p]
           z == NoInode
           n == Head(r.rest)
           f == Ilock(fs, p, r.at)
           ip == Find(f, r.at, n)
           g == Iget(f, ip)
           s == [r EXCEPT !.pc = "victim", !.ip = ip]
<1>1. r.pc = "unlink" /\ fs.ic[r.at].lock = NoProc
  BY DEF Unlink, At, Unlocked
<1>2. \/ Return(p, Iunlockput(f, r.at))
      \/ ip # z /\ Go(p, g, s)
  BY DEF Unlink
<1> HIDE DEF r
<1>3. /\ r \in Locals /\ Shape(r) /\ r.ip = z /\ r.target = z /\ r.at \in Inums /\ r.at # z
      /\ n \in Elems /\ fs.disk[r.at].type = "dir"
  <2>1. r \in Locals /\ Shape(r) /\ Relies(r, fs)
    BY Hand DEF r
  <2>2. r.ip = z /\ r.target = z /\ r.at # z /\ r.rest # <<>>
    BY <1>1, <2>1 DEF Shape, Stage
  <2>3. fs.disk[r.at].type = "dir"
    BY <1>1, <2>1 DEF Relies, Parents
  <2>4. r.rest \in Seq(Elems)
    BY <2>1 DEF Locals
  <2>5. n \in Elems
    BY <2>2, <2>4
  <2> QED BY <2>1, <2>2, <2>3, <2>5, Hand DEF r
<1>4. /\ IpLink(r) = z /\ AtLink(r) = z /\ TargetLink(r) = z /\ Missing(r) = z
      /\ Locks(r) = Locked(z, z)
  BY <1>1, Place DEF IpLink, AtLink, TargetLink, Missing, Stage, LockAt, Making, Removing
<1>5. Mid(p, fs, Held(r.at, z, z, z), Locked(z, z), Due(z, z, z, z))
  BY <1>3, <1>4, Hand DEF r
<1>6. /\ Mid(p, f, Held(r.at, z, z, z), Locked(r.at, z), Due(z, z, z, z)) /\ Still(fs, f)
      /\ r.at \in Live(f)
  BY <1>1, <1>3, <1>5, LockOp
<1> HIDE DEF f
<1>7. f.disk[r.at].type = "dir" /\ ip = f.dirs[r.at][n]
  <2>1. f.disk[r.at].type = "dir"
    BY <1>3, <1>6 DEF Still, Same
  <2>2. f.ic[r.at].type = "dir"
    BY <1>6, <2>1, ReadIs
  <2> QED BY <1>3, <2>1, <2>2, FindPlain DEF Lookup
<1> HIDE DEF ip, n
<1>8. CASE Return(p, Iunlockput(f, r.at))
  <2>1. Mid(p, Iunlockput(f, r.at), Held(z, z, z, z), Locked(z, z), Due(z, z, z, z))
    BY <1>3, <1>6, LeaveOp
  <2> QED BY <1>8, <2>1, ReturnEnd
<1>9. CASE ip # z /\ Go(p, g, s)
  <2>1. ip \in Inums /\ f.disk[ip].type # "free" /\ Found1(p, ip)
    BY <1>3, <1>6, <1>7, <1>9, NamedNow
  <2>2. Mid(p, g, Held(r.at, z, z, ip), Locked(r.at, z), Due(z, z, z, z)) /\ Still(f, g)
    BY <1>6, <2>1, GetOp
  <2> HIDE DEF g
  <2>3. /\ s \in Locals /\ s.pc = "victim" /\ s.at = r.at /\ s.ip = ip /\ s.target = z
        /\ s.call = r.call /\ s.old = r.old /\ s.new = r.new /\ s.rest = r.rest
    BY <1>3, <2>1 DEF Locals, PCs, Ptrs, Removing
  <2> HIDE DEF s
  <2>4. /\ IpLink(s) = z /\ AtLink(s) = z /\ TargetLink(s) = z /\ Missing(s) = z
        /\ Locks(s) = Locked(s.at, z)
    BY <2>3, Place DEF IpLink, AtLink, TargetLink, Missing, Stage, LockAt, LockIp, Making, Removing
  <2>5. /\ g.disk[s.ip].type # "free" /\ g.disk[s.at].type = "dir"
        /\ g.dirs[s.at][Head(s.rest)] = s.ip
    BY <1>3, <1>7, <2>1, <2>2, <2>3 DEF Still, Same, n
  <2>6. Shape(s)
    BY <1>1, <1>3, <2>1, <2>3, Consts DEF Shape, Stage, Making, Moving
  <2>7. Relies(s, g)
    BY <1>3, <2>3, <2>5, <2>6 DEF Relies, Stage, Known, Making, Removing, Moving,
       Parents, LockAt, LockIp
  <2>8. Held(r.at, z, z, ip) = Held(s.at, s.ip, s.target, z)
    BY <2>3, Lists
  <2>9. /\ Found1(p, s.at) /\ Found1(p, s.ip) /\ s.pc \notin Making /\ s.call = proc[p].call
        /\ proc[p].pc # "lock" /\ s.pc # "lock"
    BY <1>1, <2>1, <2>3 DEF Making, r, Found1
  <2>10. Mid(p, g, Held(s.at, s.ip, s.target, z), Locks(s), Due(IpLink(s), AtLink(s), TargetLink(s), Missing(s)))
    BY <2>2, <2>3, <2>4, <2>8
  <2> QED BY <1>9, <2>3, <2>7, <2>9, <2>10, GoEnd
<1> QED BY <1>2, <1>8, <1>9

\* What p knows while it removes a name.
LEMMA RemovingNow ==
  ASSUME Inv, NEW p \in Procs, proc[p].pc \in Removing
  PROVE  LET r == proc[p] IN
         /\ r \in Locals /\ Shape(r) /\ r.target = NoInode /\ r.at \in Inums /\ r.at # NoInode
         /\ r.ip \in Inums /\ r.ip # NoInode /\ Head(r.rest) \in Elems
         /\ fs.disk[r.at].type = "dir" /\ fs.disk[r.ip].type # "free"
         /\ r.pc \in {"victim", "clear"} => fs.dirs[r.at][Head(r.rest)] = r.ip
         /\ r.pc # "victim" => r.at # r.ip /\ r.ip \in Live(fs)
         /\ Mid(p, fs, Held(r.at, r.ip, NoInode, NoInode),
                Locked(r.at, IF r.pc = "victim" THEN NoInode ELSE r.ip),
                Due(IpLink(r), AtLink(r), NoInode, NoInode))
<1> DEFINE r == proc[p]
           z == NoInode
<1>1. r.pc \in Removing
  OBVIOUS
<1> HIDE DEF r
<1>2. r \in Locals /\ Shape(r) /\ Relies(r, fs)
  BY Hand DEF r
<1>3. /\ r.target = z /\ r.at # z /\ r.ip # z /\ r.rest # <<>>
  BY <1>1, <1>2 DEF Shape, Stage, Removing
<1>4. /\ fs.disk[r.at].type = "dir" /\ fs.disk[r.ip].type # "free"
      /\ r.pc \in {"victim", "clear"} => fs.dirs[r.at][Head(r.rest)] = r.ip
      /\ r.pc # "victim" => r.at # r.ip /\ r.ip \in Live(fs)
  BY <1>1, <1>2, <1>3 DEF Relies, Parents, LockAt, LockIp, Removing, Known, Stage
<1>5. Head(r.rest) \in Elems
  <2>1. r.rest \in Seq(Elems)
    BY <1>2 DEF Locals
  <2> QED BY <1>3, <2>1
<1>6. /\ TargetLink(r) = z /\ Missing(r) = z
      /\ Locks(r) = Locked(r.at, IF r.pc = "victim" THEN z ELSE r.ip)
  BY <1>1, Place DEF TargetLink, Missing, LockIp, LockAt, Removing
<1>7. Mid(p, fs, Held(r.at, r.ip, z, z), Locked(r.at, IF r.pc = "victim" THEN z ELSE r.ip),
          Due(IpLink(r), AtLink(r), z, z))
  BY <1>3, <1>6, Hand DEF r
<1>8. r.at \in Inums /\ r.ip \in Inums
  BY <1>3, Hand DEF r
<1> QED BY <1>2, <1>3, <1>4, <1>5, <1>7, <1>8 DEF r

\* It goes on removing it.
LEMMA RemovingEnd ==
  ASSUME Inv, NEW p \in Procs, NEW g, NEW s \in Locals, Go(p, g, s), UNCHANGED calls,
         proc[p].pc \in Removing, s.pc \in {"clear", "uncount", "drop"},
         s.call = proc[p].call, s.at = proc[p].at, s.ip = proc[p].ip, s.target = NoInode,
         s.rest = proc[p].rest, s.old = proc[p].old, s.new = proc[p].new, s.at # s.ip,
         \A i \in Inums : Same(fs, g, i), s.ip \in Live(g),
         s.pc = "clear" => g.dirs[s.at][Head(s.rest)] = s.ip,
         Mid(p, g, Held(s.at, s.ip, NoInode, NoInode), Locked(s.at, s.ip),
             Due(IpLink(s), AtLink(s), NoInode, NoInode))
  PROVE  Inv'
<1> DEFINE r == proc[p]
           z == NoInode
<1>1. /\ r \in Locals /\ Shape(r) /\ r.target = z /\ r.at \in Inums /\ r.at # z
      /\ r.ip \in Inums /\ r.ip # z /\ r.pc \in Removing
      /\ fs.disk[r.at].type = "dir" /\ fs.disk[r.ip].type # "free"
      /\ s.call = r.call /\ s.at = r.at /\ s.ip = r.ip /\ s.rest = r.rest /\ s.old = r.old
      /\ s.new = r.new
  BY RemovingNow
<1> HIDE DEF r
<1>2. TargetLink(s) = z /\ Missing(s) = z /\ Locks(s) = Locked(s.at, s.ip)
  BY Place DEF TargetLink, Missing, LockIp
<1>3. g.disk[s.at].type = "dir" /\ g.disk[s.ip].type # "free"
  BY <1>1 DEF Same
<1>4. Shape(s)
  BY <1>1 DEF Shape, Stage, Making, Moving, Removing
<1>5. Relies(s, g)
  BY <1>1, <1>3, <1>4 DEF Relies, Stage, Known, Making, Removing, Moving, Parents, LockAt, LockIp
<1>6. /\ Found1(p, s.at) /\ Found1(p, s.ip) /\ proc[p].pc # "lock" /\ s.pc # "lock"
      /\ s.pc \notin Making
  BY DEF Found1, Making, Removing
<1>7. Mid(p, g, Held(s.at, s.ip, s.target, z), Locks(s), Due(IpLink(s), AtLink(s), TargetLink(s), Missing(s)))
  BY <1>2
<1> QED BY <1>5, <1>6, <1>7, GoEnd

\* The two inodes are unlocked and put back.
LEMMA LeaveBoth ==
  ASSUME Inv, NEW p \in Procs, NEW f, NEW a \in Inums, NEW i \in Inums, a # i,
         Return(p, Iunlockput(Iunlockput(f, i), a)), UNCHANGED calls,
         Mid(p, f, Held(a, i, NoInode, NoInode), Locked(a, i),
             Due(NoInode, NoInode, NoInode, NoInode))
  PROVE  Inv'
<1> DEFINE z == NoInode
           h == Iunlockput(f, i)
           e == Iunlockput(h, a)
<1>1. a # z /\ i # z
  BY Consts
<1>2. /\ Held(a, i, z, z) = Held(i, a, z, z) /\ Held(z, a, z, z) = Held(a, z, z, z)
      /\ Locked(a, i) = Locked(i, a) /\ Locked(z, a) = Locked(a, z)
  BY Lists
<1>3. Mid(p, f, Held(i, a, z, z), Locked(i, a), Due(z, z, z, z))
  BY <1>2
<1>4. Mid(p, h, Held(z, a, z, z), Locked(z, a), Due(z, z, z, z))
  BY <1>1, <1>3, LeaveOp
<1>5. Return(p, e)
  OBVIOUS
<1> HIDE DEF h
<1>6. Mid(p, h, Held(a, z, z, z), Locked(a, z), Due(z, z, z, z))
  BY <1>2, <1>4
<1>7. Mid(p, e, Held(z, z, z, z), Locked(z, z), Due(z, z, z, z))
  BY <1>1, <1>6, LeaveOp
<1> QED BY <1>5, <1>7, ReturnEnd

\* The inode that has the name is locked.
LEMMA VictimStep ==
  ASSUME Inv, NEW p \in Procs, Victim(p), UNCHANGED calls
  PROVE  Inv'
<1> DEFINE r == proc[p]
           z == NoInode
           f == Ilock(fs, p, r.ip)
           s == [r EXCEPT !.pc = "clear"]
<1>1. /\ r.pc = "victim" /\ fs.ic[r.ip].lock = NoProc /\ r.pc \in Removing
      /\ Return(p, Iunlockput(Iunlockput(f, r.ip), r.at)) \/ Go(p, f, s)
  BY DEF Victim, At, Unlocked, Removing
<1>2. /\ r \in Locals /\ Shape(r) /\ r.target = NoInode /\ r.at \in Inums /\ r.at # NoInode
      /\ r.ip \in Inums /\ r.ip # NoInode
      /\ fs.disk[r.at].type = "dir" /\ fs.disk[r.ip].type # "free"
      /\ fs.dirs[r.at][Head(r.rest)] = r.ip
      /\ Mid(p, fs, Held(r.at, r.ip, z, z), Locked(r.at, z), Due(IpLink(r), AtLink(r), z, z))
  BY <1>1, RemovingNow
<1> HIDE DEF r
<1>3. IpLink(r) = z /\ AtLink(r) = z
  BY <1>1 DEF IpLink, AtLink, Stage
<1>4. r.at # r.ip
  <2>1. r.at \in Locked(r.at, z)
    BY <1>2 DEF Locked
  <2>2. fs.ic[r.at].lock = p
    BY <1>2, <2>1 DEF Mid
  <2> QED BY <1>1, <2>2, Consts
<1>5. Held(r.at, r.ip, z, z) = Held(r.ip, r.at, z, z) /\ Locked(r.at, z) = Locked(z, r.at)
      /\ Locked(r.ip, r.at) = Locked(r.at, r.ip)
  BY Lists
<1>6. Mid(p, fs, Held(r.ip, r.at, z, z), Locked(z, r.at), Due(z, z, z, z))
  BY <1>2, <1>3, <1>5
<1>7. /\ Mid(p, f, Held(r.ip, r.at, z, z), Locked(r.ip, r.at), Due(z, z, z, z)) /\ Still(fs, f)
      /\ r.ip \in Live(f)
  BY <1>1, <1>2, <1>6, LockOp
<1> HIDE DEF f
<1>8. Mid(p, f, Held(r.at, r.ip, z, z), Locked(r.at, r.ip), Due(z, z, z, z))
  BY <1>5, <1>7
<1>9. CASE Return(p, Iunlockput(Iunlockput(f, r.ip), r.at))
  BY <1>2, <1>4, <1>8, <1>9, LeaveBoth
<1>10. CASE Go(p, f, s)
  <2>1. /\ s \in Locals /\ s.pc = "clear" /\ s.at = r.at /\ s.ip = r.ip /\ s.target = z
        /\ s.call = r.call /\ s.old = r.old /\ s.new = r.new /\ s.rest = r.rest
    BY <1>2 DEF Locals, PCs, Removing
  <2> HIDE DEF s
  <2>2. IpLink(s) = z /\ AtLink(s) = z
    BY <2>1 DEF IpLink, AtLink, Stage
  <2>3. /\ \A i \in Inums : Same(fs, f, i)
        /\ f.dirs[s.at][Head(s.rest)] = s.ip
    BY <1>2, <1>7, <2>1 DEF Still
  <2>4. /\ Mid(p, f, Held(s.at, s.ip, z, z), Locked(s.at, s.ip), Due(IpLink(s), AtLink(s), z, z))
        /\ s.at # s.ip /\ s.ip \in Live(f)
    BY <1>4, <1>7, <1>8, <2>1, <2>2
  <2> QED BY <1>1, <1>10, <2>1, <2>3, <2>4, RemovingEnd DEF r
<1> QED BY <1>1, <1>9, <1>10

\* The name is cleared, or the write fails.
LEMMA ClearStep ==
  ASSUME Inv, NEW p \in Procs, Clear(p), UNCHANGED calls
  PROVE  Inv'
<1> DEFINE r == proc[p]
           z == NoInode
           n == Head(r.rest)
           g == Entry(fs, r.at, n, z)
           s == [r EXCEPT !.pc = IF fs.ic[r.ip].type = "dir" THEN "uncount" ELSE "drop"]
<1>1. /\ r.pc = "clear" /\ r.pc \in Removing
      /\ Go(p, g, s) \/ Return(p, Iunlockput(Iunlockput(fs, r.ip), r.at))
  BY DEF Clear, At, Removing
<1>2. /\ r \in Locals /\ Shape(r) /\ r.target = NoInode /\ r.at \in Inums /\ r.at # NoInode
      /\ r.ip \in Inums /\ r.ip # NoInode /\ n \in Elems /\ r.at # r.ip /\ r.ip \in Live(fs)
      /\ fs.disk[r.at].type = "dir" /\ fs.disk[r.ip].type # "free"
      /\ fs.dirs[r.at][n] = r.ip
      /\ Mid(p, fs, Held(r.at, r.ip, z, z), Locked(r.at, r.ip), Due(IpLink(r), AtLink(r), z, z))
  BY <1>1, RemovingNow
<1> HIDE DEF r, n
<1>3. IpLink(r) = z /\ AtLink(r) = z /\ r.at \in Locked(r.at, r.ip)
  BY <1>1, <1>2 DEF IpLink, AtLink, Stage, Locked
<1>4. Mid(p, fs, Held(r.at, r.ip, z, z), Locked(r.at, r.ip), Due(z, z, z, z))
  BY <1>2, <1>3
<1>5. CASE Return(p, Iunlockput(Iunlockput(fs, r.ip), r.at))
  BY <1>2, <1>4, <1>5, LeaveBoth
<1>6. CASE Go(p, g, s)
  <2>1. fs.ic[r.ip].type = fs.disk[r.ip].type
    BY <1>2, <1>4, ReadIs
  <2>2. /\ s \in Locals /\ s.pc = (IF fs.ic[r.ip].type = "dir" THEN "uncount" ELSE "drop")
        /\ s.at = r.at /\ s.ip = r.ip /\ s.target = z
        /\ s.call = r.call /\ s.old = r.old /\ s.new = r.new /\ s.rest = r.rest
    BY <1>2 DEF Locals, PCs, Removing
  <2> HIDE DEF s
  <2>3. /\ Mid(p, g, Held(r.at, r.ip, z, z), Locked(r.at, r.ip), Due(IpLink(s), AtLink(s), z, z))
        /\ Renamed(fs, g, r.at, n, z)
    <3>1. CASE fs.disk[r.ip].type = "dir"
      <4>1. IpLink(s) = r.ip /\ AtLink(s) = r.at
        BY <2>1, <2>2, <3>1 DEF IpLink, AtLink, Stage
      <4>2. /\ Mid(p, g, Held(r.at, r.ip, z, z), Locked(r.at, r.ip), Due(r.ip, r.at, z, z))
            /\ Renamed(fs, g, r.at, n, z)
        BY <1>2, <1>3, <1>4, <3>1, UnlinkDir
      <4> QED BY <4>1, <4>2
    <3>2. CASE fs.disk[r.ip].type # "dir"
      <4>1. IpLink(s) = r.ip /\ AtLink(s) = z
        BY <2>1, <2>2, <3>2 DEF IpLink, AtLink, Stage
      <4>2. /\ Mid(p, g, Held(r.at, r.ip, z, z), Locked(r.at, r.ip), Due(r.ip, z, z, z))
            /\ Renamed(fs, g, r.at, n, z)
        BY <1>2, <1>3, <1>4, <3>2, UnlinkFile
      <4> QED BY <4>1, <4>2
    <3> QED BY <3>1, <3>2
  <2> HIDE DEF g
  <2>4. /\ \A i \in Inums : Same(fs, g, i)
        /\ s.ip \in Live(g) /\ s.at # s.ip /\ s.pc \in {"uncount", "drop"}
    BY <1>2, <2>2, <2>3 DEF Renamed, Same
  <2>5. Mid(p, g, Held(s.at, s.ip, z, z), Locked(s.at, s.ip), Due(IpLink(s), AtLink(s), z, z))
    BY <2>2, <2>3
  <2>6. s.pc # "clear" /\ s.pc \in {"clear", "uncount", "drop"}
    BY <2>4
  <2> QED BY <1>1, <1>6, <2>2, <2>4, <2>5, <2>6, RemovingEnd DEF r
<1> QED BY <1>1, <1>5, <1>6

\* The parent of a directory that goes loses its link.
LEMMA UncountParentStep ==
  ASSUME Inv, NEW p \in Procs, UncountParent(p), UNCHANGED calls
  PROVE  Inv'
<1> DEFINE r == proc[p]
           z == NoInode
           g == Count(fs, r.at, -1)
           s == [r EXCEPT !.pc = "drop"]
<1>1. r.pc = "uncount" /\ r.pc \in Removing /\ Go(p, g, s)
  BY DEF UncountParent, At, Removing
<1>2. /\ r \in Locals /\ r.target = NoInode /\ r.at \in Inums
      /\ r.ip \in Inums /\ r.at # r.ip /\ r.ip \in Live(fs)
      /\ Mid(p, fs, Held(r.at, r.ip, z, z), Locked(r.at, r.ip), Due(IpLink(r), AtLink(r), z, z))
  BY <1>1, RemovingNow
<1> HIDE DEF r
<1>3. IpLink(r) = r.ip /\ AtLink(r) = r.at /\ r.at \in Locked(r.at, r.ip)
  BY <1>1, <1>2 DEF IpLink, AtLink, Stage, Locked
<1>4. Due(r.ip, r.at, z, z) = Due(r.at, r.ip, z, z) /\ Due(z, r.ip, z, z) = Due(r.ip, z, z, z)
  BY Lists
<1>5. Mid(p, fs, Held(r.at, r.ip, z, z), Locked(r.at, r.ip), Due(r.at, r.ip, z, z))
  BY <1>2, <1>3, <1>4
<1>6. Mid(p, g, Held(r.at, r.ip, z, z), Locked(r.at, r.ip), Due(z, r.ip, z, z)) /\ Still(fs, g)
  BY <1>3, <1>5, CountDown
<1> HIDE DEF g
<1>7. /\ s \in Locals /\ s.pc = "drop" /\ s.at = r.at /\ s.ip = r.ip /\ s.target = z
      /\ s.call = r.call /\ s.old = r.old /\ s.new = r.new /\ s.rest = r.rest
  BY <1>2 DEF Locals, PCs, Removing
<1> HIDE DEF s
<1>8. IpLink(s) = s.ip /\ AtLink(s) = z
  BY <1>7 DEF IpLink, AtLink, Stage
<1>9. /\ \A i \in Inums : Same(fs, g, i)
      /\ s.ip \in Live(g) /\ s.at # s.ip
  BY <1>2, <1>6, <1>7 DEF Still, Same
<1>10. Mid(p, g, Held(s.at, s.ip, z, z), Locked(s.at, s.ip), Due(IpLink(s), AtLink(s), z, z))
  BY <1>4, <1>6, <1>7, <1>8
<1> QED BY <1>1, <1>7, <1>9, <1>10, RemovingEnd DEF r

\* The inode loses the link of the name that was cleared.
LEMMA DropStep ==
  ASSUME Inv, NEW p \in Procs, Drop(p), UNCHANGED calls
  PROVE  Inv'
<1> DEFINE r == proc[p]
           z == NoInode
           f == Iunlockput(fs, r.at)
           g == Count(f, r.ip, -1)
           h == Iunlockput(g, r.ip)
<1>1. r.pc = "drop" /\ r.pc \in Removing /\ Return(p, h)
  BY DEF Drop, At, Removing
<1>2. /\ r.at \in Inums /\ r.at # z /\ r.ip \in Inums /\ r.ip # z /\ r.at # r.ip
      /\ Mid(p, fs, Held(r.at, r.ip, z, z), Locked(r.at, r.ip), Due(IpLink(r), AtLink(r), z, z))
  BY <1>1, RemovingNow
<1> HIDE DEF r
<1>3. IpLink(r) = r.ip /\ AtLink(r) = z /\ r.ip \in Locked(r.ip, z)
  BY <1>1, <1>2 DEF IpLink, AtLink, Stage, Locked
<1>4. Mid(p, fs, Held(r.at, r.ip, z, z), Locked(r.at, r.ip), Due(r.ip, z, z, z))
  BY <1>2, <1>3
<1>5. Mid(p, f, Held(z, r.ip, z, z), Locked(z, r.ip), Due(r.ip, z, z, z))
  BY <1>2, <1>4, LeaveOp
<1> HIDE DEF f
<1>6. Held(z, r.ip, z, z) = Held(r.ip, z, z, z) /\ Locked(z, r.ip) = Locked(r.ip, z)
  BY Lists
<1>7. Mid(p, f, Held(r.ip, z, z, z), Locked(r.ip, z), Due(r.ip, z, z, z))
  BY <1>5, <1>6
<1>8. Mid(p, g, Held(r.ip, z, z, z), Locked(r.ip, z), Due(z, z, z, z))
  BY <1>3, <1>7, CountDown
<1> HIDE DEF g
<1>9. Mid(p, h, Held(z, z, z, z), Locked(z, z), Due(z, z, z, z))
  BY <1>2, <1>8, LeaveOp
<1> QED BY <1>1, <1>9, ReturnEnd

\* link and rename have found the inode, and count a link for the new name.
LEMMA SourceStep ==
  ASSUME Inv, NEW p \in Procs, Source(p), UNCHANGED calls
  PROVE  Inv'
<1> DEFINE r == proc[p]
           z == NoInode
           f == Ilock(fs, p, r.at)
           e == Count(f, r.at, 1)
           g == Iunlock(e, r.at)
           q == [r EXCEPT !.ip = r.at]
           then == IF r.call = "link" THEN "dirlink" ELSE "cycle"
           s == Start(q, r.new, TRUE, then)
<1>1. /\ r.pc = "source" /\ fs.ic[r.at].lock = NoProc
      /\ \/ Return(p, Iunlockput(f, r.at))
         \/ /\ r.call = "link" => f.ic[r.at].type # "dir"
            /\ NameiParent(p, g, q, r.new, then)
  BY DEF Source, At, Unlocked, ReleaseSource, ExtraLink
<1> HIDE DEF r
<1>2. /\ r \in Locals /\ Shape(r) /\ r.ip = z /\ r.target = z /\ r.at \in Inums /\ r.at # z
      /\ r.call \in {"link", "rename"} /\ fs.disk[r.at].type # "free"
  <2>1. r \in Locals /\ Shape(r) /\ Relies(r, fs)
    BY Hand DEF r
  <2>2. r.ip = z /\ r.target = z /\ r.at # z /\ r.call \in {"link", "rename"}
    BY <1>1, <2>1 DEF Shape, Stage
  <2>3. fs.disk[r.at].type # "free"
    BY <2>1, <2>2 DEF Relies
  <2> QED BY <2>1, <2>2, <2>3, Hand DEF r
<1>3. /\ IpLink(r) = z /\ AtLink(r) = z /\ TargetLink(r) = z /\ Missing(r) = z
      /\ Locks(r) = Locked(z, z)
  BY <1>1, Place DEF IpLink, AtLink, TargetLink, Missing, Stage, LockAt, Making, Removing
<1>4. Mid(p, fs, Held(r.at, z, z, z), Locked(z, z), Due(z, z, z, z))
  BY <1>2, <1>3, Hand DEF r
<1>5. /\ Mid(p, f, Held(r.at, z, z, z), Locked(r.at, z), Due(z, z, z, z)) /\ Still(fs, f)
      /\ r.at \in Live(f)
  BY <1>1, <1>2, <1>4, LockOp
<1> HIDE DEF f
<1>6. CASE Return(p, Iunlockput(f, r.at))
  <2>1. Mid(p, Iunlockput(f, r.at), Held(z, z, z, z), Locked(z, z), Due(z, z, z, z))
    BY <1>2, <1>5, LeaveOp
  <2> QED BY <1>6, <2>1, ReturnEnd
<1>7. CASE /\ r.call = "link" => f.ic[r.at].type # "dir"
           /\ NameiParent(p, g, q, r.new, then)
  <2> DEFINE m == [q EXCEPT !.at = z, !.then = then]
  <2>1. r.at \in Locked(r.at, z)
    BY <1>2 DEF Locked
  <2>2. Mid(p, e, Held(r.at, z, z, z), Locked(r.at, z), Due(r.at, z, z, z)) /\ Still(f, e)
    BY <1>5, <2>1, CountUp
  <2>3. \/ /\ fs' = Iget(g, ROOTINO) /\ proc' = [proc EXCEPT ![p] = s]
           /\ rename_lock' = rename_lock /\ r.new # <<>>
        \/ NotFound(p, g, m)
    BY <1>7 DEF NameiParent, Go
  <2> HIDE DEF e
  <2>4. Mid(p, g, Held(r.at, z, z, z), Locked(z, z), Due(r.at, z, z, z)) /\ Still(e, g)
    BY <1>2, <2>2, UnlockOp
  <2> HIDE DEF g
  <2>5. /\ q \in Locals /\ q.ip = r.at /\ q.target = z /\ q.call = r.call /\ q.old = r.old
        /\ q.new = r.new /\ r.new \in Seq(Elems)
    BY <1>2 DEF Locals, Ptrs
  <2>6. /\ then \in Walks
        /\ \/ then = "dirlink" /\ r.call = "link"
           \/ then = "cycle" /\ r.call = "rename"
    <3>1. CASE r.call = "link"
      BY <3>1 DEF Walks
    <3>2. CASE r.call = "rename"
      BY <3>2 DEF Walks
    <3> QED BY <1>2, <3>1, <3>2
  <2>a. /\ m \in Locals /\ m.call = r.call /\ m.target = z /\ m.at = z /\ m.then = then
        /\ m.ip = r.at
    <3> HIDE DEF q, then
    <3>1. z \in Ptrs /\ q \in Locals /\ then \in Walks \cup {"none"}
      BY <2>5, <2>6 DEF Ptrs
    <3> HIDE DEF z
    <3>2. m \in Locals /\ m.call = q.call /\ m.target = q.target /\ m.at = z /\ m.then = then
          /\ m.ip = q.ip
      BY <3>1 DEF Locals
    <3> QED BY <2>5, <3>2
  <2> HIDE DEF q, then, m
  <2>7. Begun(s, q, r.new, then) /\ s.parent
    BY <2>5, <2>6, StartIs, StartWays
  <2>8. /\ g.disk[r.at].type # "free" /\ r.at \in Live(g)
        /\ r.call = "link" => g.disk[r.at].type # "dir"
    <3>1. f.ic[r.at].type = f.disk[r.at].type
      BY <1>5, ReadIs
    <3> QED BY <1>2, <1>5, <1>7, <2>2, <2>4, <3>1 DEF Still, Same
  <2>9. s \in Locals
    BY <2>7 DEF Begun
  <2> HIDE DEF s
  <2>10. Stage(s) = then /\ IpLink(s) = q.ip
    BY <2>6, <2>7 DEF Begun, Stage, IpLink
  <2>11. ASSUME r.new # <<>> PROVE Shape(s)
    BY <1>2, <2>5, <2>6, <2>7, <2>10, <2>11, Consts DEF Begun, Shape, Walks, Making, Moving
  <2>12. Held(r.at, z, z, z) = Held(z, r.at, z, z)
    BY Lists
  <2>b. CASE NotFound(p, g, m)
    <3>1. m.then # "found" /\ m.then \in {"dirlink", "cycle"} /\ m.then \in Walks
      BY <2>6, <2>a
    <3>2. Mid(p, g, Held(z, m.ip, z, z), Locked(z, z), Due(m.ip, z, z, z))
      BY <2>4, <2>12, <2>a
    <3> QED BY <1>1, <1>2, <2>8, <2>a, <2>b, <3>1, <3>2, NotFoundStep DEF r
  <2> SUFFICES ASSUME /\ fs' = Iget(g, ROOTINO) /\ proc' = [proc EXCEPT ![p] = s]
                      /\ rename_lock' = rename_lock /\ r.new # <<>>
               PROVE  Inv'
    BY <2>3, <2>b
  <2>13. Mid(p, g, Held(z, q.ip, z, z), Locked(z, z), Due(IpLink(s), z, z, z))
    BY <2>4, <2>5, <2>10, <2>12
  <2>14. /\ rename_lock' = p <=> q.call = "rename"
         /\ rename_lock' \in Procs \cup {NoProc} /\ calls' \in 0 .. MaxCalls
    BY <1>1, <2>5, LockNow DEF r
  <2>15. Found1(p, q.ip)
    BY <2>5 DEF Found1, r
  <2>16. /\ q.ip # z => Found1(p, q.ip) /\ g.disk[q.ip].type # "free"
         /\ then \in Known => q.ip \in Live(g)
         /\ then = "dirlink" => g.disk[q.ip].type # "dir"
    BY <2>5, <2>6, <2>8, <2>15
  <2>17. Shape(Start(q, r.new, TRUE, then)) /\ TRUE \in BOOLEAN
         /\ Mid(p, g, Held(z, q.ip, z, z), Locked(z, z), Due(IpLink(Start(q, r.new, TRUE, then)), z, z, z))
         /\ proc' = [proc EXCEPT ![p] = Start(q, r.new, TRUE, then)]
    BY <2>11, <2>13 DEF s
  <2>18. \A x \in Others(p) : rename_lock' = x <=> rename_lock = x
    OBVIOUS
  <2> QED BY <2>5, <2>6, <2>14, <2>16, <2>17, <2>18, NameiEnd
<1> QED BY <1>1, <1>6, <1>7

\* The new name of a link
LEMMA DirLinkStep ==
  ASSUME Inv, NEW p \in Procs, DirLink(p), UNCHANGED calls
  PROVE  Inv'
<1> DEFINE r == proc[p]
           z == NoInode
           n == Head(r.rest)
           f == Ilock(fs, p, r.at)
           e == Entry(f, r.at, n, r.ip)
           g == Iunlockput(e, r.at)
           h == Iunlockput(f, r.at)
           s == [r EXCEPT !.pc = "unref", !.at = NoInode]
<1>1. /\ r.pc = "dirlink" /\ fs.ic[r.at].lock = NoProc
      /\ \/ Find(f, r.at, n) = z /\ Return(p, Iput(g, r.ip))
         \/ Go(p, h, s)
  BY DEF DirLink, At, Unlocked
<1> HIDE DEF r
<1>2. /\ r \in Locals /\ Shape(r) /\ r.target = z /\ r.at \in Inums /\ r.at # z
      /\ r.ip \in Inums /\ r.ip # z /\ r.call = "link" /\ n \in Elems
      /\ fs.disk[r.at].type = "dir" /\ fs.disk[r.ip].type \notin {"free", "dir"} /\ r.ip \in Live(fs)
  <2>1. r \in Locals /\ Shape(r) /\ Relies(r, fs)
    BY Hand DEF r
  <2>2. r.ip # z /\ r.target = z /\ r.at # z /\ r.call = "link" /\ r.rest # <<>>
    BY <1>1, <2>1 DEF Shape, Stage
  <2>3. fs.disk[r.at].type = "dir" /\ fs.disk[r.ip].type \notin {"free", "dir"} /\ r.ip \in Live(fs)
    BY <1>1, <2>1, <2>2 DEF Relies, Parents, Stage, Known
  <2>4. r.rest \in Seq(Elems)
    BY <2>1 DEF Locals
  <2>5. n \in Elems
    BY <2>2, <2>4
  <2> QED BY <2>1, <2>2, <2>3, <2>5, Hand DEF r
<1>3. \A q \in Others(p) : proc[q].pc \in Making => proc[q].ip # r.ip
  BY NotMade DEF r
<1>4. /\ IpLink(r) = r.ip /\ AtLink(r) = z /\ TargetLink(r) = z /\ Missing(r) = z
      /\ Locks(r) = Locked(z, z)
  BY <1>1, Place DEF IpLink, AtLink, TargetLink, Missing, Stage, LockAt, Making, Removing
<1>5. Mid(p, fs, Held(r.at, r.ip, z, z), Locked(z, z), Due(r.ip, z, z, z))
  BY <1>2, <1>4, Hand DEF r
<1>6. /\ Mid(p, f, Held(r.at, r.ip, z, z), Locked(r.at, z), Due(r.ip, z, z, z)) /\ Still(fs, f)
      /\ r.at \in Live(f)
  BY <1>1, <1>2, <1>5, LockOp
<1> HIDE DEF f, n
<1>7. f.disk[r.ip].type \notin {"free", "dir"} /\ r.ip \in Live(f) /\ f.disk[r.at].type = "dir"
  BY <1>2, <1>6 DEF Still, Same
<1>8. CASE Find(f, r.at, n) = z /\ Return(p, Iput(g, r.ip))
  <2>1. f.dirs[r.at][n] = z
    <3>1. f.ic[r.at].type = "dir"
      BY <1>6, <1>7, ReadIs
    <3> QED BY <1>2, <1>8, <3>1, FindPlain DEF Lookup
  <2>2. r.at \in Locked(r.at, z)
    BY <1>2 DEF Locked
  <2>3. Mid(p, e, Held(r.at, r.ip, z, z), Locked(r.at, z), Due(z, z, z, z))
    BY <1>2, <1>3, <1>6, <1>7, <2>1, <2>2, LinkFile
  <2> HIDE DEF e
  <2>4. Mid(p, g, Held(z, r.ip, z, z), Locked(z, z), Due(z, z, z, z))
    BY <1>2, <2>3, LeaveOp
  <2> HIDE DEF g
  <2>5. Held(z, r.ip, z, z) = Held(r.ip, z, z, z) /\ r.ip \notin Locked(z, z)
    BY <1>2, Lists DEF Locked
  <2>6. Mid(p, g, Held(r.ip, z, z, z), Locked(z, z), Due(z, z, z, z))
    BY <2>4, <2>5
  <2>7. Mid(p, Iput(g, r.ip), Held(z, z, z, z), Locked(z, z), Due(z, z, z, z))
    BY <1>2, <2>5, <2>6, PutOp
  <2> QED BY <1>8, <2>7, ReturnEnd
<1>9. CASE Go(p, h, s)
  <2>1. r.at # r.ip
    BY <1>7
  <2>2. Mid(p, h, Held(z, r.ip, z, z), Locked(z, z), Due(r.ip, z, z, z)) /\ Kept(f, h, r.at, r.ip, z, z)
    BY <1>2, <1>6, <2>1, LeaveOp
  <2> HIDE DEF h
  <2>3. /\ s \in Locals /\ s.pc = "unref" /\ s.at = z /\ s.target = z /\ s.ip = r.ip
        /\ s.call = r.call /\ s.old = r.old /\ s.new = r.new
    BY <1>2 DEF Locals, PCs, Ptrs
  <2> HIDE DEF s
  <2>4. s.ip \in Live(h) /\ h.disk[s.ip].type # "free"
    BY <1>2, <1>7, <2>2, <2>3 DEF Kept, Same
  <2>5. Mid(p, h, Held(z, s.ip, z, z), Locked(z, z), Due(s.ip, z, z, z)) /\ s.ip \in Inums
        /\ s.call \in {"link", "rename"}
    BY <1>2, <2>2, <2>3
  <2> QED BY <1>1, <1>9, <2>3, <2>4, <2>5, UnrefEnd DEF r
<1> QED BY <1>1, <1>8, <1>9

\* The extra link goes.
LEMMA UnrefStep ==
  ASSUME Inv, NEW p \in Procs, Unref(p), UNCHANGED calls
  PROVE  Inv'
<1> DEFINE r == proc[p]
           z == NoInode
           f == Ilock(fs, p, r.ip)
           e == Count(f, r.ip, -1)
           g == Iunlockput(e, r.ip)
<1>1. r.pc = "unref" /\ fs.ic[r.ip].lock = NoProc /\ Return(p, g)
  BY DEF Unref, At, Unlocked, ExtraLink
<1> HIDE DEF r
<1>2. /\ r.target = z /\ r.at = z /\ r.ip \in Inums /\ r.ip # z /\ fs.disk[r.ip].type # "free"
  <2>1. Shape(r) /\ Relies(r, fs)
    BY Hand DEF r
  <2>2. r.ip # z /\ r.target = z /\ r.at = z
    BY <1>1, <2>1 DEF Shape, Stage
  <2>3. fs.disk[r.ip].type # "free"
    BY <2>1, <2>2 DEF Relies
  <2> QED BY <2>2, <2>3, Hand DEF r
<1>3. /\ IpLink(r) = r.ip /\ AtLink(r) = z /\ TargetLink(r) = z /\ Missing(r) = z
      /\ Locks(r) = Locked(z, z)
  BY <1>1, Place DEF IpLink, AtLink, TargetLink, Missing, Stage, LockAt, Making, Removing
<1>4. Held(z, r.ip, z, z) = Held(r.ip, z, z, z) /\ r.ip \in Locked(r.ip, z)
  BY <1>2, Lists DEF Locked
<1>5. Mid(p, fs, Held(r.ip, z, z, z), Locked(z, z), Due(r.ip, z, z, z))
  BY <1>2, <1>3, <1>4, Hand DEF r
<1>6. Mid(p, f, Held(r.ip, z, z, z), Locked(r.ip, z), Due(r.ip, z, z, z))
  BY <1>1, <1>2, <1>5, LockOp
<1> HIDE DEF f
<1>7. Mid(p, e, Held(r.ip, z, z, z), Locked(r.ip, z), Due(z, z, z, z))
  BY <1>4, <1>6, CountDown
<1> HIDE DEF e
<1>8. Mid(p, g, Held(z, z, z, z), Locked(z, z), Due(z, z, z, z))
  BY <1>2, <1>7, LeaveOp
<1> QED BY <1>1, <1>8, ReturnEnd

\* A walk begins, from nothing in hand: the first of a call.
LEMMA FirstWalk ==
  ASSUME Inv, NEW p \in Procs, NEW q \in Locals, NEW path \in Seq(Elems),
         NEW parent \in BOOLEAN, NEW then \in {"found", "source", "create", "unlink"},
         path = <<>> => then \in {"found", "source"}, q.old = path, proc[p].pc \in {"user", "lock"}, q.ip = NoInode, q.target = NoInode,
         q.call # "none", then = "found" => q.call = "creat",
         then = "create" => q.call \in {"creat", "mkdir", "mknod"},
         then = "source" => q.call \in {"link", "rename"},
         Start(q, path, parent, then).parent <=> then \notin {"found", "source"},
         fs' = Iget(fs, ROOTINO), proc' = [proc EXCEPT ![p] = Start(q, path, parent, then)],
         rename_lock' \in Procs \cup {NoProc}, calls' \in 0 .. MaxCalls,
         rename_lock' = p <=> q.call = "rename",
         \A x \in Others(p) : rename_lock' = x <=> rename_lock = x
  PROVE  Inv'
<1> DEFINE r == proc[p]
           z == NoInode
           s == Start(q, path, parent, then)
<1>1. r.at = z /\ r.ip = z /\ r.target = z /\ r.pc \in {"user", "lock"}
  BY Hand DEF Shape, Stage
<1> HIDE DEF r
<1>2. /\ IpLink(r) = z /\ AtLink(r) = z /\ TargetLink(r) = z /\ Missing(r) = z
      /\ Locks(r) = Locked(z, z)
  BY <1>1, Place DEF IpLink, AtLink, TargetLink, Missing, Stage, LockAt, Making, Removing
<1>3. Mid(p, fs, Held(z, z, z, z), Locked(z, z), Due(z, z, z, z))
  BY <1>1, <1>2, Hand DEF r
<1>4. then \in Walks /\ then \notin Known /\ then # "dirlink"
  BY DEF Walks, Known, Moving
<1>5. Begun(s, q, path, then)
  BY <1>4, StartIs
<1>6. s.parent <=> then \notin {"found", "source"}
  OBVIOUS
<1> HIDE DEF s
<1>7. Shape(s) /\ IpLink(s) = z
  BY <1>4, <1>5, <1>6, Consts DEF Begun, Shape, Stage, IpLink, Making, Moving
<1>8. Mid(p, fs, Held(z, q.ip, z, z), Locked(z, z), Due(IpLink(s), z, z, z))
  BY <1>3, <1>7
<1> QED BY <1>4, <1>7, <1>8, NameiEnd DEF s

\* rename takes rename_lock, and looks up the old name.
LEMMA RenameLockStep ==
  ASSUME Inv, NEW p \in Procs, RenameLock(p), UNCHANGED calls
  PROVE  Inv'
<1> DEFINE r == proc[p]
<1>1. /\ r.pc = "lock" /\ rename_lock = NoProc /\ rename_lock' = p
      /\ fs' = Iget(fs, ROOTINO) /\ proc' = [proc EXCEPT ![p] = Start(r, r.old, FALSE, "source")]
  <2>1. proc \in [Procs -> Locals]
    BY DEF Inv
  <2> QED BY <2>1 DEF RenameLock, At, RenameFree
<1>2. r \in Locals /\ Shape(r)
  BY Hand
<1> HIDE DEF r
<1>3. r.ip = NoInode /\ r.target = NoInode /\ r.call = "rename"
  BY <1>1, <1>2 DEF Shape, Stage
<1>4. r.old \in Seq(Elems)
  BY <1>2 DEF Locals
<1>5. ~Start(r, r.old, FALSE, "source").parent
  BY <1>2, StartWays
<1>6. /\ rename_lock' \in Procs \cup {NoProc} /\ calls' \in 0 .. MaxCalls
      /\ \A x \in Others(p) : rename_lock' = x <=> rename_lock = x
      /\ rename_lock' = p <=> r.call = "rename"
  BY <1>1, <1>3, Consts, LockNow DEF Others
<1>7. "source" \in {"found", "source", "create", "unlink"} /\ FALSE \in BOOLEAN
  OBVIOUS
<1> QED BY <1>1, <1>2, <1>3, <1>4, <1>5, <1>6, <1>7, FirstWalk DEF r

\* The climb of rename has come to an inode that is free by now: it is read, and put
\* back as it was.
LEMMA ProbeOp ==
  ASSUME Inv, NEW p \in Procs, rename_lock = p, NEW f, NEW K, NEW L, NEW b, NEW c, NEW x \in Inums,
         Mid(p, f, Held(x, b, c, NoInode), K, L), L[x] >= 0, f.disk[x].type = "free",
         x # b, x # c, x \notin K
  PROVE  LET g == Ilock(f, p, x) IN
         /\ g.ic[x].type = "free"
         /\ Mid(p, Iunlockput(g, x), Held(NoInode, b, c, NoInode), K, L)
         /\ Kept(f, Iunlockput(g, x), x, b, c, NoInode)
<1> DEFINE z == NoInode
           R == Held(x, b, c, z)
           R2 == Held(z, b, c, z)
           g == Ilock(f, p, x)
           h == Iunlock(g, x)
           e == Iput(h, x)
<1>1. Disk(f) /\ f \in Fs /\ x \notin Live(f) /\ f.disk[x].nlink = 0 /\ f.dirs[x] = Empty
      /\ x # ROOTINO /\ K \in SUBSET Inums
  BY DEF Mid, Disk
<1>2. R \in [Inums -> Nat] /\ R2 \in [Inums -> Nat] /\ R[x] = 1
      /\ \A j \in Inums : R2[j] = R[j] - One(j, x)
  <2>1. R \in [Inums -> Nat] /\ R2 \in [Inums -> Nat]
    BY Lists
  <2>2. x # z /\ \A j \in Inums : j # z
    BY Consts
  <2>3. \A i, j : One(i, j) \in Int /\ (i # j => One(i, j) = 0) /\ One(i, i) = 1
    BY DEF One
  <2>4. \A j \in Inums : /\ R[j] = One(j, x) + One(j, b) + One(j, c) + One(j, z)
                         /\ R2[j] = One(j, z) + One(j, b) + One(j, c) + One(j, z)
    BY DEF Held
  <2>5. R[x] = 1
    BY <2>2, <2>3, <2>4
  <2>6. \A j \in Inums : R2[j] = R[j] - One(j, x)
    <3> HIDE DEF R, R2
    <3> QED BY <2>2, <2>3, <2>4
  <2> QED BY <2>1, <2>5, <2>6
<1>3. Mid(p, f, R, K, L)
  OBVIOUS
<1> HIDE DEF R, R2
<1>4. ASSUME NEW q \in Others(p)
      PROVE  proc[q].at # x /\ proc[q].ip # x /\ proc[q].target # x
  <2>1. proc[q].at # x /\ proc[q].ip # x /\ (proc[q].target = x => proc[q].pc = "cycle")
    BY <1>3, MidFree
  <2>2. q \in Procs /\ q # p /\ Shape(proc[q])
    BY Hand DEF Others
  <2>3. proc[q].pc = "cycle" => rename_lock = q
    BY <2>2, LockNow DEF Shape, Stage
  <2> QED BY <2>1, <2>2, <2>3
<1>5. Refs(Others(p), x) = 0
  <2> DEFINE A == {q \in Others(p) : proc[q].at = x}
             B == {q \in Others(p) : proc[q].ip = x}
             C == {q \in Others(p) : proc[q].target = x}
  <2>1. A = {} /\ B = {} /\ C = {}
    BY <1>4
  <2>2. Refs(Others(p), x) = Boot(x) + Cardinality(A) + Cardinality(B) + Cardinality(C)
    BY DEF Refs, RefsBy
  <2> HIDE DEF A, B, C
  <2>3. Cardinality({}) = 0
    BY FS_EmptySet
  <2>4. Boot(x) = 0
    BY <1>1 DEF Boot, One
  <2> QED BY <2>1, <2>2, <2>3, <2>4
<1>6. f.ic[x].ref = 1 /\ f.ic[x].lock = NoProc /\ ~f.ic[x].valid
  <2>1. f.ic[x].ref = 1
    BY <1>2, <1>3, <1>5, MidOthers
  <2>2. f.ic[x].lock \in {p, NoProc}
    BY <1>3, <1>5, MidOthers
  <2>3. f.ic[x].lock # p
    BY DEF Mid
  <2> QED BY <1>1, <2>1, <2>2, <2>3 DEF Live
<1>7. /\ g \in Fs /\ g.disk = f.disk /\ g.dirs = f.dirs /\ g.up = f.up
      /\ \A j \in Inums : j # x => g.ic[j] = f.ic[j]
      /\ g.ic[x].ref = 1 /\ g.ic[x].valid = TRUE /\ g.ic[x].type = "free" /\ g.ic[x].nlink = 0
  <2>1. /\ g \in Fs /\ g.disk = f.disk /\ g.dirs = f.dirs /\ g.up = f.up
        /\ \A j \in Inums : j # x => g.ic[j] = f.ic[j]
        /\ g.ic[x].ref = f.ic[x].ref /\ g.ic[x].lock = p /\ g.ic[x].valid = TRUE
        /\ f.ic[x].valid => g.ic[x].type = f.ic[x].type /\ g.ic[x].nlink = f.ic[x].nlink
        /\ ~f.ic[x].valid => g.ic[x].type = f.disk[x].type /\ g.ic[x].nlink = f.disk[x].nlink
    <3>1. f \in Fs
      BY <1>1
    <3> QED BY <3>1, IlockEffect
  <2> HIDE DEF g
  <2> QED BY <1>1, <1>6, <2>1
<1> HIDE DEF g
<1>8. /\ h \in Fs /\ h.disk = f.disk /\ h.dirs = f.dirs /\ h.up = f.up
      /\ \A j \in Inums : j # x => h.ic[j] = f.ic[j]
      /\ h.ic[x] = [g.ic[x] EXCEPT !.lock = NoProc]
  BY <1>7, IunlockEffect
<1>9. h.ic[x].ref = 1 /\ h.ic[x].valid /\ h.ic[x].nlink = 0
  <2>1. g.ic[x] \in Slots
    BY <1>7 DEF Fs
  <2> QED BY <1>7, <1>8, <2>1 DEF Slots
<1> HIDE DEF h
<1>10. /\ e \in Fs /\ e.ic[x] = Slot(0) /\ e.disk[x] = Dinode("free", 0) /\ e.dirs[x] = Empty
       /\ \A j \in Inums : j # x =>
            e.ic[j] = f.ic[j] /\ e.disk[j] = f.disk[j] /\ e.dirs[j] = f.dirs[j] /\ e.up[j] = f.up[j]
  <2>0. h \in Fs /\ x \in Inums
    BY <1>8
  <2>1. LastHolder(h, x) /\ h.ic[x].ref > 0
    BY <1>9 DEF LastHolder
  <2>2. /\ e \in Fs
        /\ \A j \in Inums : j # x =>
             /\ e.ic[j] = h.ic[j] /\ e.disk[j] = h.disk[j] /\ e.dirs[j] = h.dirs[j]
             /\ e.up[j] = h.up[j]
        /\ e.ic[x] = Slot(0) /\ e.disk[x] = Dinode("free", 0) /\ e.dirs[x] = Empty
    BY <2>0, <2>1, IputEffect
  <2> HIDE DEF e
  <2> QED BY <1>8, <2>2
<1>11. Iunlockput(g, x) = e
  BY DEF Iunlockput, h
<1> HIDE DEF e
<1>12. e.disk = f.disk /\ e.dirs = f.dirs
  <2>1. f.disk[x] = Dinode("free", 0)
    BY <1>1 DEF Dinode, Fs
  <2>2. \A j \in Inums : e.disk[j] = f.disk[j] /\ e.dirs[j] = f.dirs[j]
    BY <1>1, <1>10, <2>1
  <2> QED BY <1>1, <1>10, <2>2 DEF Fs
<1>13. e.ic[x].ref = 0 /\ e.ic[x].lock = NoProc
  BY <1>10 DEF Slot
<1>14. Live(e) = Live(f)
  BY <1>1, <1>10, <1>13 DEF Live
<1>15. Disk(e)
  <2>1. ASSUME NEW j \in Live(e) PROVE e.ic[j] = f.ic[j]
    BY <1>1, <1>10, <1>14 DEF Live
  <2> QED BY <1>1, <1>10, <1>12, <1>14, <2>1 DEF Disk
<1>16. ASSUME NEW j \in Inums
       PROVE  /\ e.ic[j].ref = f.ic[j].ref + R2[j] - R[j]
              /\ e.ic[j].lock = f.ic[j].lock
  <2>1. R[j] \in Nat /\ f.ic[j].ref \in Nat
    BY <1>3, MidOthers
  <2>2. CASE j = x
    BY <1>2, <1>6, <1>13, <2>2 DEF One
  <2>3. CASE j # x
    BY <1>2, <1>10, <2>1, <2>3 DEF One
  <2> QED BY <2>2, <2>3
<1>17. /\ \A j \in Inums : e.ic[j].lock = p <=> j \in K
       /\ \A j \in K : R2[j] > 0 /\ j \in Live(e)
  <2>1. ASSUME NEW j \in K PROVE R2[j] > 0 /\ j \in Live(e)
    <3>1. R[j] > 0 /\ j \in Live(f) /\ j # x /\ j \in Inums /\ R[j] \in Nat
      BY <1>1, <1>3, <1>2 DEF Mid
    <3> QED BY <1>2, <1>14, <3>1 DEF One
  <2> QED BY <1>16, <2>1 DEF Mid
<1>18. Mid(p, e, R2, K, L)
  BY <1>1, <1>2, <1>3, <1>12, <1>14, <1>15, <1>16, <1>17, TableStep
<1>19. Kept(f, e, x, b, c, z)
  <2>1. x # z
    BY Consts
  <2> QED BY <1>10, <1>12, <1>14, <2>1 DEF Kept, Same
<1> QED BY <1>7, <1>11, <1>18, <1>19 DEF R2, g

\* What p knows while it climbs to the root.
LEMMA CycleNow ==
  ASSUME Inv, NEW p \in Procs, proc[p].pc = "cycle"
  PROVE  LET r == proc[p]
             check == IF r.target = NoInode THEN r.at ELSE r.target
             f == IF r.target = NoInode THEN Iget(fs, r.at) ELSE fs
         IN
         /\ r \in Locals /\ Shape(r) /\ r.at \in Inums /\ r.ip \in Inums /\ check \in Inums
         /\ r.call = "rename" /\ r.rest # <<>> /\ rename_lock = p
         /\ fs.disk[r.at].type = "dir" /\ fs.disk[r.ip].type # "free" /\ r.ip \in Live(fs)
         /\ r.target # NoInode => fs.disk[r.ip].type = "dir"
         /\ fs.ic[r.ip].type = fs.disk[r.ip].type
         /\ Mid(p, fs, Held(r.at, r.ip, r.target, NoInode), Locked(NoInode, NoInode),
                Due(r.ip, NoInode, NoInode, NoInode))
         /\ Mid(p, f, Held(check, r.at, r.ip, NoInode), Locked(NoInode, NoInode),
                Due(r.ip, NoInode, NoInode, NoInode))
         /\ Still(fs, f) /\ \A i \in Inums : f.ic[i].lock = fs.ic[i].lock
<1> DEFINE r == proc[p]
           z == NoInode
           check == IF r.target = z THEN r.at ELSE r.target
           f == IF r.target = z THEN Iget(fs, r.at) ELSE fs
<1>1. r.pc = "cycle"
  OBVIOUS
<1> HIDE DEF r
<1>2. r \in Locals /\ Shape(r) /\ Relies(r, fs)
  BY Hand DEF r
<1>3. r.at # z /\ r.ip # z /\ r.call = "rename" /\ r.rest # <<>>
  BY <1>1, <1>2 DEF Shape, Stage
<1>4. /\ fs.disk[r.at].type = "dir" /\ fs.disk[r.ip].type # "free" /\ r.ip \in Live(fs)
      /\ r.target # z => fs.disk[r.ip].type = "dir"
  BY <1>1, <1>2, <1>3 DEF Relies, Parents, Known, Stage
<1>5. r.at \in Inums /\ r.ip \in Inums /\ (r.target # z => r.target \in Inums)
  BY <1>3, Hand DEF r
<1>6. rename_lock = p
  BY <1>1, <1>3, LockNow DEF r
<1>7. /\ IpLink(r) = r.ip /\ AtLink(r) = z /\ TargetLink(r) = z /\ Missing(r) = z
      /\ Locks(r) = Locked(z, z)
  BY <1>1, Place DEF IpLink, AtLink, TargetLink, Missing, Stage, LockAt, Making, Removing
<1>8. Mid(p, fs, Held(r.at, r.ip, r.target, z), Locked(z, z), Due(r.ip, z, z, z))
  BY <1>7, Hand DEF r
<1>9. fs.ic[r.ip].type = fs.disk[r.ip].type
  BY <1>4, <1>8, ReadIs
<1>10. check \in Inums
  BY <1>5
<1>11. /\ Mid(p, f, Held(check, r.at, r.ip, z), Locked(z, z), Due(r.ip, z, z, z))
       /\ Still(fs, f) /\ \A i \in Inums : f.ic[i].lock = fs.ic[i].lock
  <2>1. CASE r.target = z
    <3>1. check = r.at /\ f = Iget(fs, r.at)
      BY <2>1
    <3>2. Mid(p, fs, Held(r.at, r.ip, z, z), Locked(z, z), Due(r.ip, z, z, z))
      BY <1>8, <2>1
    <3> HIDE DEF f, check
    <3>3. /\ Mid(p, f, Held(r.at, r.ip, z, r.at), Locked(z, z), Due(r.ip, z, z, z))
          /\ Still(fs, f) /\ \A i \in Inums : f.ic[i].lock = fs.ic[i].lock
      BY <1>5, <3>1, <3>2, GetOp
    <3>4. Held(r.at, r.ip, z, r.at) = Held(r.at, r.at, r.ip, z)
      <4>1. /\ Held(r.at, r.ip, z, r.at) = Held(r.ip, r.at, z, r.at)
            /\ Held(r.ip, r.at, z, r.at) = Held(z, r.at, r.ip, r.at)
            /\ Held(z, r.at, r.ip, r.at) = Held(r.at, r.at, r.ip, z)
        BY Lists
      <4> QED BY <4>1
    <3> QED BY <3>1, <3>3, <3>4
  <2>2. CASE r.target # z
    <3>1. check = r.target /\ f = fs
      BY <2>2
    <3> HIDE DEF f, check
    <3>2. Held(r.at, r.ip, r.target, z) = Held(r.target, r.at, r.ip, z)
      <4>1. /\ Held(r.at, r.ip, r.target, z) = Held(r.target, r.ip, r.at, z)
            /\ Held(r.target, r.ip, r.at, z) = Held(r.ip, r.target, r.at, z)
            /\ Held(r.ip, r.target, r.at, z) = Held(r.at, r.target, r.ip, z)
            /\ Held(r.at, r.target, r.ip, z) = Held(r.target, r.at, r.ip, z)
        BY Lists
      <4> QED BY <4>1
    <3>3. Still(fs, fs)
      BY DEF Still, Same
    <3> QED BY <1>8, <3>1, <3>2, <3>3
  <2> QED BY <2>1, <2>2
<1> QED BY <1>2, <1>3, <1>4, <1>5, <1>6, <1>8, <1>9, <1>10, <1>11 DEF r

\* The climb goes on, or has come to the root.
LEMMA ClimbEnd ==
  ASSUME Inv, NEW p \in Procs, proc[p].pc = "cycle", NEW g, NEW s \in Locals, Go(p, g, s),
         UNCHANGED calls, s.pc \in {"cycle", "target"}, s.at = proc[p].at, s.ip = proc[p].ip,
         s.call = proc[p].call, s.old = proc[p].old, s.new = proc[p].new, s.rest = proc[p].rest,
         s.target # NoInode => s.pc = "cycle" /\ fs.disk[proc[p].ip].type = "dir",
         Same(fs, g, s.at), Same(fs, g, s.ip),
         Mid(p, g, Held(s.at, s.ip, s.target, NoInode), Locked(NoInode, NoInode),
             Due(s.ip, NoInode, NoInode, NoInode))
  PROVE  Inv'
<1> DEFINE r == proc[p]
           z == NoInode
<1>1. /\ r.pc = "cycle" /\ s.at = r.at /\ s.ip = r.ip /\ s.call = r.call /\ s.old = r.old
      /\ s.new = r.new /\ s.rest = r.rest
      /\ s.target # z => s.pc = "cycle" /\ fs.disk[r.ip].type = "dir"
  OBVIOUS
<1>2. /\ r.at \in Inums /\ r.ip \in Inums /\ r.call = "rename"
      /\ r.rest # <<>> /\ fs.disk[r.at].type = "dir" /\ fs.disk[r.ip].type # "free"
      /\ r.ip \in Live(fs)
  BY CycleNow
<1> HIDE DEF r
<1>3. /\ IpLink(s) = s.ip /\ AtLink(s) = z /\ TargetLink(s) = z /\ Missing(s) = z
      /\ Locks(s) = Locked(z, z)
  BY Place DEF IpLink, AtLink, TargetLink, Missing, Stage, LockAt, Making, Removing
<1>4. Shape(s)
  BY <1>1, <1>2, Consts DEF Shape, Stage, Making, Moving
<1>5. /\ g.disk[s.at].type = "dir" /\ g.disk[s.ip].type # "free" /\ s.ip \in Live(g)
      /\ s.target # z => g.disk[s.ip].type = "dir"
  BY <1>1, <1>2 DEF Same
<1>6. Relies(s, g)
  BY <1>1, <1>4, <1>5 DEF Relies, Stage, Known, Making, Removing, Moving, Parents, LockAt, LockIp
<1>7. Mid(p, g, Held(s.at, s.ip, s.target, z), Locks(s), Due(IpLink(s), AtLink(s), TargetLink(s), Missing(s)))
  BY <1>3
<1>8. /\ Found1(p, s.at) /\ Found1(p, s.ip) /\ s.pc # "lock" /\ s.pc \notin Making
      /\ (s.target # z /\ s.pc # "cycle") = FALSE
  BY <1>1 DEF Found1, Making, r
<1> QED BY <1>1, <1>6, <1>7, <1>8, GoEnd DEF r

\* The directory that moves is above the new one, or the climb leads nowhere.
LEMMA ClimbFails ==
  ASSUME Inv, NEW p \in Procs, proc[p].pc = "cycle", NEW g, GiveUp(p, Iput(g, proc[p].at)),
         UNCHANGED calls, Same(fs, g, proc[p].ip),
         Mid(p, g, Held(NoInode, proc[p].at, proc[p].ip, NoInode), Locked(NoInode, NoInode),
             Due(proc[p].ip, NoInode, NoInode, NoInode))
  PROVE  Inv'
<1> DEFINE r == proc[p]
           z == NoInode
           e == Iput(g, r.at)
           s == [r EXCEPT !.pc = "unref", !.at = z, !.target = z]
<1>1. Go(p, e, s) /\ r.pc = "cycle"
  BY DEF GiveUp
<1>2. /\ r \in Locals /\ r.at \in Inums /\ r.ip \in Inums /\ r.call = "rename"
      /\ fs.disk[r.ip].type # "free" /\ r.ip \in Live(fs)
  BY CycleNow
<1>3. Mid(p, g, Held(z, r.at, r.ip, z), Locked(z, z), Due(r.ip, z, z, z)) /\ Same(fs, g, r.ip)
  OBVIOUS
<1> HIDE DEF r
<1>4. Held(z, r.at, r.ip, z) = Held(r.at, r.ip, z, z) /\ r.at \notin Locked(z, z) /\ r.at # z
  <2>1. Held(z, r.at, r.ip, z) = Held(r.ip, r.at, z, z) /\ Held(r.ip, r.at, z, z) = Held(r.at, r.ip, z, z)
    BY Lists
  <2> QED BY <1>2, <2>1, Consts DEF Locked
<1>5. Mid(p, g, Held(r.at, r.ip, z, z), Locked(z, z), Due(r.ip, z, z, z))
  BY <1>3, <1>4
<1>6. Mid(p, e, Held(z, r.ip, z, z), Locked(z, z), Due(r.ip, z, z, z)) /\ Kept(g, e, r.at, r.ip, z, z)
  BY <1>2, <1>4, <1>5, PutOp
<1> HIDE DEF e
<1>7. /\ s \in Locals /\ s.pc = "unref" /\ s.at = z /\ s.target = z /\ s.ip = r.ip
      /\ s.call = r.call /\ s.old = r.old /\ s.new = r.new
  BY <1>2 DEF Locals, PCs, Ptrs
<1> HIDE DEF s
<1>8. s.ip \in Live(e) /\ e.disk[s.ip].type # "free"
  BY <1>2, <1>3, <1>6, <1>7 DEF Kept, Same
<1>9. /\ Mid(p, e, Held(z, s.ip, z, z), Locked(z, z), Due(s.ip, z, z, z)) /\ s.ip \in Inums
      /\ s.call \in {"link", "rename"}
  BY <1>2, <1>6, <1>7
<1> QED BY <1>1, <1>7, <1>8, <1>9, UnrefEnd DEF r

\* From the new directory to the root, looking for the one that moves
LEMMA CycleStep ==
  ASSUME Inv, NEW p \in Procs, Cycle(p), UNCHANGED calls
  PROVE  Inv'
<1> DEFINE r == proc[p]
           z == NoInode
           check == IF r.target = z THEN r.at ELSE r.target
           f == IF r.target = z THEN Iget(fs, r.at) ELSE fs
           g == Ilock(f, p, check)
           parent == IF g.ic[check].type = "dir" THEN g.up[check] ELSE z
           e == Iget(g, parent)
           s1 == [r EXCEPT !.pc = "target"]
           s2 == [r EXCEPT !.pc = "target", !.target = z]
           s3 == [r EXCEPT !.target = parent]
<1>1. /\ r.pc = "cycle"
      /\ \/ fs.ic[r.ip].type # "dir" /\ Go(p, fs, s1)
         \/ Go(p, Iput(f, check), s2)
         \/ GiveUp(p, Iput(Iput(f, check), r.at))
         \/ /\ check # r.ip /\ fs.ic[check].lock = NoProc /\ fs.ic[r.ip].type = "dir"
            /\ \/ GiveUp(p, Iput(Iunlockput(g, check), r.at))
               \/ parent # z /\ Go(p, Iunlockput(e, check), s3)
  BY DEF Cycle, At, Unlocked, IsDir
<1>2. /\ r \in Locals /\ Shape(r) /\ r.at \in Inums /\ r.ip \in Inums /\ check \in Inums
      /\ r.call = "rename" /\ rename_lock = p
      /\ fs.disk[r.at].type = "dir" /\ fs.disk[r.ip].type # "free" /\ r.ip \in Live(fs)
      /\ r.target # z => fs.disk[r.ip].type = "dir"
      /\ fs.ic[r.ip].type = fs.disk[r.ip].type
      /\ Mid(p, fs, Held(r.at, r.ip, r.target, z), Locked(z, z), Due(r.ip, z, z, z))
      /\ Mid(p, f, Held(check, r.at, r.ip, z), Locked(z, z), Due(r.ip, z, z, z))
      /\ Still(fs, f) /\ \A i \in Inums : f.ic[i].lock = fs.ic[i].lock
  BY <1>1, CycleNow
<1> HIDE DEF r, check, f
<1>3. r.at # z /\ r.ip # z /\ check # z /\ check \notin Locked(z, z) /\ r.target \in Ptrs
  BY <1>2, Consts DEF Locked, Locals
<1>4. /\ Held(z, r.at, r.ip, z) = Held(r.at, r.ip, z, z)
      /\ \A x : Held(z, r.at, r.ip, x) = Held(r.at, r.ip, x, z)
  <2>1. ASSUME NEW x PROVE Held(z, r.at, r.ip, x) = Held(r.at, r.ip, x, z)
    <3>1. /\ Held(z, r.at, r.ip, x) = Held(x, r.at, r.ip, z)
          /\ Held(x, r.at, r.ip, z) = Held(r.ip, r.at, x, z)
          /\ Held(r.ip, r.at, x, z) = Held(r.at, r.ip, x, z)
      BY Lists
    <3> QED BY <3>1
  <2> QED BY <2>1
<1>5. f.disk[r.at].type = "dir" /\ Same(fs, f, r.at) /\ Same(fs, f, r.ip)
  BY <1>2 DEF Still, Same
<1>6. CASE fs.ic[r.ip].type # "dir" /\ Go(p, fs, s1)
  <2>1. r.target = z
    BY <1>2, <1>6
  <2>2. /\ s1 \in Locals /\ s1.pc = "target" /\ s1.at = r.at /\ s1.ip = r.ip /\ s1.target = r.target
        /\ s1.call = r.call /\ s1.old = r.old /\ s1.new = r.new /\ s1.rest = r.rest
    BY <1>2 DEF Locals, PCs, Moving
  <2> HIDE DEF s1
  <2>3. Same(fs, fs, s1.at) /\ Same(fs, fs, s1.ip)
    BY DEF Same
  <2>4. Mid(p, fs, Held(s1.at, s1.ip, s1.target, z), Locked(z, z), Due(s1.ip, z, z, z))
    BY <1>2, <2>2
  <2>5. s1.target = z /\ s1.pc \in {"cycle", "target"}
    BY <2>1, <2>2
  <2> QED BY <1>1, <1>6, <2>2, <2>3, <2>4, <2>5, ClimbEnd DEF r
<1> DEFINE h == Iput(f, check)
<1>7. /\ Mid(p, h, Held(z, r.at, r.ip, z), Locked(z, z), Due(r.ip, z, z, z))
      /\ Kept(f, h, check, r.at, r.ip, z)
  BY <1>2, <1>3, PutOp
<1>8. CASE Go(p, h, s2)
  <2>1. /\ s2 \in Locals /\ s2.pc = "target" /\ s2.at = r.at /\ s2.ip = r.ip /\ s2.target = z
        /\ s2.call = r.call /\ s2.old = r.old /\ s2.new = r.new /\ s2.rest = r.rest
    BY <1>2 DEF Locals, PCs, Moving, Ptrs
  <2> HIDE DEF s2, h
  <2>2. Same(fs, h, s2.at) /\ Same(fs, h, s2.ip)
    BY <1>2, <1>5, <1>7, <2>1 DEF Kept, Same
  <2>3. Mid(p, h, Held(s2.at, s2.ip, s2.target, z), Locked(z, z), Due(s2.ip, z, z, z))
        /\ s2.pc \in {"cycle", "target"}
    BY <1>4, <1>7, <2>1
  <2> QED BY <1>1, <1>8, <2>1, <2>2, <2>3, ClimbEnd DEF r
<1>9. CASE GiveUp(p, Iput(h, r.at))
  <2> HIDE DEF h
  <2>1. Same(fs, h, r.ip)
    BY <1>2, <1>5, <1>7 DEF Kept, Same
  <2> QED BY <1>1, <1>7, <1>9, <2>1, ClimbFails DEF r
<1>10. CASE /\ check # r.ip /\ fs.ic[check].lock = NoProc /\ f.disk[check].type = "free"
            /\ \/ GiveUp(p, Iput(Iunlockput(g, check), r.at))
               \/ parent # z /\ Go(p, Iunlockput(e, check), s3)
  <2>1. check # r.at /\ check # r.ip
    BY <1>5, <1>10
  <2>2. Due(r.ip, z, z, z)[check] >= 0
    BY <1>2, <1>3, <2>1 DEF Due, One
  <2>3. /\ g.ic[check].type = "free"
        /\ Mid(p, Iunlockput(g, check), Held(z, r.at, r.ip, z), Locked(z, z), Due(r.ip, z, z, z))
        /\ Kept(f, Iunlockput(g, check), check, r.at, r.ip, z)
    BY <1>2, <1>3, <1>10, <2>1, <2>2, ProbeOp
  <2>4. parent = z
    BY <2>3
  <2> HIDE DEF g, parent
  <2>5. Same(fs, Iunlockput(g, check), r.ip)
    BY <1>2, <1>5, <2>3 DEF Kept, Same
  <2> QED BY <1>1, <1>10, <2>3, <2>4, <2>5, ClimbFails DEF r
<1>11. CASE /\ check # r.ip /\ fs.ic[check].lock = NoProc /\ f.disk[check].type # "free"
            /\ fs.ic[r.ip].type = "dir"
            /\ \/ GiveUp(p, Iput(Iunlockput(g, check), r.at))
               \/ parent # z /\ Go(p, Iunlockput(e, check), s3)
  <2>1. /\ Mid(p, g, Held(check, r.at, r.ip, z), Locked(check, z), Due(r.ip, z, z, z))
        /\ Still(f, g)
    BY <1>2, <1>11, LockOp
  <2>2. parent \in Ptrs
    <3>1. g \in Fs
      BY <2>1 DEF Mid, Disk
    <3>2. g.up[check] \in Ptrs
      BY <1>2, <3>1 DEF Fs
    <3> QED BY <3>2 DEF Ptrs
  <2> HIDE DEF g, parent
  <2>3. CASE GiveUp(p, Iput(Iunlockput(g, check), r.at))
    <3>1. /\ Mid(p, Iunlockput(g, check), Held(z, r.at, r.ip, z), Locked(z, z), Due(r.ip, z, z, z))
          /\ Kept(g, Iunlockput(g, check), check, r.at, r.ip, z)
      BY <1>2, <1>3, <1>11, <2>1, LeaveOp
    <3>2. Same(fs, Iunlockput(g, check), r.ip)
      BY <1>2, <1>5, <2>1, <3>1 DEF Kept, Same, Still
    <3> QED BY <1>1, <2>3, <3>1, <3>2, ClimbFails DEF r
  <2>4. CASE parent # z /\ Go(p, Iunlockput(e, check), s3)
    <3> DEFINE k == Iunlockput(e, check)
    <3>1. parent \in Inums
      BY <2>2, <2>4 DEF Ptrs
    <3>2. /\ Mid(p, e, Held(check, r.at, r.ip, parent), Locked(check, z), Due(r.ip, z, z, z))
          /\ Still(g, e)
      BY <2>1, <3>1, GetOp
    <3>3. Go(p, k, s3)
      BY <2>4
    <3> HIDE DEF e
    <3>4. /\ Mid(p, k, Held(z, r.at, r.ip, parent), Locked(z, z), Due(r.ip, z, z, z))
          /\ Kept(e, k, check, r.at, r.ip, parent)
      BY <1>2, <1>3, <1>11, <3>2, LeaveOp
    <3> HIDE DEF k
    <3>5. /\ s3 \in Locals /\ s3.pc = "cycle" /\ s3.at = r.at /\ s3.ip = r.ip /\ s3.target = parent
          /\ s3.call = r.call /\ s3.old = r.old /\ s3.new = r.new /\ s3.rest = r.rest
      BY <1>1, <1>2, <2>2 DEF Locals
    <3> HIDE DEF s3
    <3>6. Same(fs, k, s3.at) /\ Same(fs, k, s3.ip)
      BY <1>2, <1>5, <2>1, <3>2, <3>4, <3>5 DEF Kept, Same, Still
    <3>7. /\ Mid(p, k, Held(s3.at, s3.ip, s3.target, z), Locked(z, z), Due(s3.ip, z, z, z))
          /\ s3.pc \in {"cycle", "target"} /\ s3.pc = "cycle" /\ fs.disk[r.ip].type = "dir"
      BY <1>2, <1>4, <1>11, <3>4, <3>5
    <3> QED BY <1>1, <3>3, <3>5, <3>6, <3>7, ClimbEnd DEF r
  <2> QED BY <1>11, <2>3, <2>4
<1> QED BY <1>1, <1>6, <1>8, <1>9, <1>10, <1>11

\* References in another order
LEMMA Turns ==
  /\ \A a, b, c, d : Held(a, b, c, d) = Held(c, a, b, d)
  /\ \A a, b, c, d : Held(a, b, c, d) = Held(b, c, d, a)
  /\ \A a, b, c, m : Due(a, b, c, m) = Due(b, c, a, m)
<1>1. ASSUME NEW a, NEW b, NEW c, NEW d PROVE Held(a, b, c, d) = Held(c, a, b, d)
  <2>1. /\ Held(a, b, c, d) = Held(c, b, a, d) /\ Held(c, b, a, d) = Held(b, c, a, d)
        /\ Held(b, c, a, d) = Held(a, c, b, d) /\ Held(a, c, b, d) = Held(c, a, b, d)
    BY Lists
  <2> QED BY <2>1
<1>2. ASSUME NEW a, NEW b, NEW c, NEW d PROVE Held(a, b, c, d) = Held(b, c, d, a)
  <2>1. /\ Held(a, b, c, d) = Held(d, b, c, a) /\ Held(d, b, c, a) = Held(c, d, b, a)
        /\ Held(c, d, b, a) = Held(b, c, d, a)
    BY <1>1, Lists
  <2> QED BY <2>1
<1>3. ASSUME NEW a, NEW b, NEW c, NEW m PROVE Due(a, b, c, m) = Due(b, c, a, m)
  <2>1. /\ Due(a, b, c, m) = Due(c, b, a, m) /\ Due(c, b, a, m) = Due(b, c, a, m)
    BY Lists
  <2> QED BY <2>1
<1> QED BY <1>1, <1>2, <1>3

\* What p knows while it moves a name.
LEMMA MovingNow ==
  ASSUME Inv, NEW p \in Procs, proc[p].pc \in Moving \cup {"old"}
  PROVE  LET r == proc[p] IN
         /\ r \in Locals /\ Shape(r) /\ Relies(r, fs) /\ r.ip \in Inums /\ r.ip # NoInode
         /\ r.call = "rename" /\ rename_lock = p
         /\ fs.disk[r.ip].type # "free" /\ r.ip \in Live(fs)
         /\ fs.ic[r.ip].type = fs.disk[r.ip].type
         /\ r.pc # "dotdot" => /\ r.at \in Inums /\ r.at # NoInode /\ fs.disk[r.at].type = "dir"
                               /\ r.rest # <<>> /\ Head(r.rest) \in Elems
         /\ r.target # NoInode => r.target \in Inums
         /\ Mid(p, fs, Held(r.at, r.ip, r.target, NoInode), Locks(r),
                Due(IpLink(r), AtLink(r), TargetLink(r), Missing(r)))
<1> DEFINE r == proc[p]
           z == NoInode
<1>1. r.pc \in Moving \cup {"old"}
  OBVIOUS
<1>2. r \in Locals /\ Shape(r) /\ Relies(r, fs)
      /\ Mid(p, fs, Held(r.at, r.ip, r.target, z), Locks(r),
                Due(IpLink(r), AtLink(r), TargetLink(r), Missing(r)))
  BY Hand
<1>3. (r.at # z => r.at \in Inums) /\ (r.ip # z => r.ip \in Inums) /\ (r.target # z => r.target \in Inums)
  BY Hand
<1>4. rename_lock = p <=> r.call = "rename" /\ r.pc # "lock"
  BY LockNow
<1> HIDE DEF r
<1>5. /\ r.ip # z /\ r.call = "rename" /\ r.pc # "lock"
      /\ r.pc # "dotdot" => r.at # z /\ r.rest # <<>>
  BY <1>1, <1>2 DEF Shape, Stage, Moving
<1>6. /\ fs.disk[r.ip].type # "free" /\ r.ip \in Live(fs)
      /\ r.pc # "dotdot" => fs.disk[r.at].type = "dir"
  BY <1>1, <1>2, <1>5 DEF Relies, Parents, Known, Stage, Moving, LockAt
<1>7. fs.ic[r.ip].type = fs.disk[r.ip].type
  BY <1>2, <1>6, ReadIs
<1>8. r.rest # <<>> => Head(r.rest) \in Elems
  <2>1. r.rest \in Seq(Elems)
    BY <1>2 DEF Locals
  <2> QED BY <2>1
<1>9. r.pc # "dotdot" => r.at \in Inums /\ r.at # z /\ fs.disk[r.at].type = "dir"
                          /\ r.rest # <<>> /\ Head(r.rest) \in Elems
  BY <1>3, <1>5, <1>6, <1>8
<1> QED BY <1>2, <1>3, <1>4, <1>5, <1>6, <1>7, <1>9 DEF r

\* It goes on, with the directory locked.
LEMMA MovingEnd ==
  ASSUME Inv, NEW p \in Procs, NEW g, NEW s \in Locals, Go(p, g, s), UNCHANGED calls,
         proc[p].pc \in Moving \cup {"old"}, proc[p].pc # "dotdot",
         s.pc \in {"replace", "replaced", "relink", "recount", "olddir"},
         s.call = proc[p].call, s.at = proc[p].at, s.ip = proc[p].ip,
         s.rest = proc[p].rest, s.old = proc[p].old, s.new = proc[p].new,
         Same(fs, g, s.at), Same(fs, g, s.ip),
         s.pc \in {"replace", "replaced"} =>
           s.target # NoInode /\ Found1(p, s.target) /\ g.disk[s.target].type # "free",
         s.pc \notin {"replace", "replaced"} => s.target = NoInode,
         s.pc = "replaced" => s.at # s.target,
         s.pc = "replace" => g.dirs[s.at][Head(s.rest)] = s.target,
         s.pc \in {"replaced", "relink"} => g.dirs[s.at][Head(s.rest)] = NoInode,
         s.pc = "recount" => g.dirs[s.at][Head(s.rest)] = s.ip /\ g.disk[s.ip].type = "dir",
         Mid(p, g, Held(s.at, s.ip, s.target, NoInode),
             Locked(s.at, IF s.pc = "replaced" THEN s.target ELSE NoInode),
             Due(IpLink(s), AtLink(s), TargetLink(s), Missing(s)))
  PROVE  Inv'
<1> DEFINE r == proc[p]
           z == NoInode
<1>1. /\ r \in Locals /\ Shape(r) /\ r.at \in Inums /\ r.at # z /\ r.ip \in Inums /\ r.ip # z
      /\ r.call = "rename" /\ r.rest # <<>>
      /\ fs.disk[r.at].type = "dir" /\ fs.disk[r.ip].type # "free" /\ r.ip \in Live(fs)
  BY MovingNow
<1>2. /\ s.call = r.call /\ s.at = r.at /\ s.ip = r.ip /\ s.rest = r.rest /\ s.old = r.old
      /\ s.new = r.new
  OBVIOUS
<1>3. r.pc # "lock"
  BY DEF Moving
<1> HIDE DEF r
<1>4. Locks(s) = Locked(s.at, IF s.pc = "replaced" THEN s.target ELSE z)
  BY Place DEF LockAt, LockIp
<1>5. g.disk[s.at].type = "dir" /\ g.disk[s.ip].type # "free" /\ s.ip \in Live(g)
  BY <1>1, <1>2 DEF Same
<1>6. Shape(s)
  BY <1>1, <1>2 DEF Shape, Stage, Making, Moving
<1>7. Relies(s, g)
  BY <1>1, <1>2, <1>5, <1>6 DEF Relies, Stage, Known, Making, Removing, Moving, Parents, LockAt, LockIp
<1>8. /\ Found1(p, s.at) /\ Found1(p, s.ip) /\ s.pc # "lock" /\ s.pc \notin Making
      /\ s.target # z => Found1(p, s.target)
  BY <1>2 DEF Found1, Making, r
<1>9. Mid(p, g, Held(s.at, s.ip, s.target, z), Locks(s), Due(IpLink(s), AtLink(s), TargetLink(s), Missing(s)))
  BY <1>4
<1> QED BY <1>2, <1>3, <1>7, <1>8, <1>9, GoEnd DEF r

\* The directory is given back, and the extra link is what is left.
LEMMA MovingOver ==
  ASSUME Inv, NEW p \in Procs, NEW g, NEW s \in Locals, Go(p, Iunlockput(g, proc[p].at), s),
         UNCHANGED calls, proc[p].pc \in Moving \cup {"old"}, proc[p].pc # "dotdot",
         s.pc = "unref", s.at = NoInode, s.target = NoInode, s.ip = proc[p].ip,
         s.call = proc[p].call, s.old = proc[p].old, s.new = proc[p].new,
         Same(fs, g, proc[p].ip),
         Mid(p, g, Held(proc[p].at, proc[p].ip, NoInode, NoInode), Locked(proc[p].at, NoInode),
             Due(proc[p].ip, NoInode, NoInode, NoInode))
  PROVE  Inv'
<1> DEFINE r == proc[p]
           z == NoInode
           e == Iunlockput(g, r.at)
<1>1. /\ r.at \in Inums /\ r.at # z /\ r.ip \in Inums /\ r.ip # z /\ r.call = "rename"
      /\ fs.disk[r.ip].type # "free" /\ r.ip \in Live(fs)
  BY MovingNow
<1>2. /\ Go(p, e, s) /\ s.call = r.call /\ s.ip = r.ip /\ s.old = r.old /\ s.new = r.new
      /\ Same(fs, g, r.ip) /\ r.pc # "lock"
      /\ Mid(p, g, Held(r.at, r.ip, z, z), Locked(r.at, z), Due(r.ip, z, z, z))
  BY DEF Moving
<1> HIDE DEF r
<1>3. Mid(p, e, Held(z, r.ip, z, z), Locked(z, z), Due(r.ip, z, z, z)) /\ Kept(g, e, r.at, r.ip, z, z)
  BY <1>1, <1>2, LeaveOp
<1> HIDE DEF e
<1>4. s.ip \in Live(e) /\ e.disk[s.ip].type # "free"
  BY <1>1, <1>2, <1>3 DEF Kept, Same
<1>5. /\ Mid(p, e, Held(z, s.ip, z, z), Locked(z, z), Due(s.ip, z, z, z)) /\ s.ip \in Inums
      /\ s.call \in {"link", "rename"}
  BY <1>1, <1>2, <1>3
<1> QED BY <1>2, <1>4, <1>5, UnrefEnd DEF r

\* The new directory is locked, and the new name looked up.
LEMMA TargetStep ==
  ASSUME Inv, NEW p \in Procs, Target(p), UNCHANGED calls
  PROVE  Inv'
<1> DEFINE r == proc[p]
           z == NoInode
           n == Head(r.rest)
           f == Ilock(fs, p, r.at)
           x == Lookup(f, r.at, n)
           q == [r EXCEPT !.newdir = r.at]
           s1 == [q EXCEPT !.pc = "relink"]
           s2 == [q EXCEPT !.pc = "replace", !.target = x]
<1>1. /\ r.pc = "target" /\ fs.ic[r.at].lock = NoProc /\ r.pc \in Moving \cup {"old"}
      /\ \/ x = z /\ Go(p, f, s1)
         \/ x # z /\ Go(p, Iget(f, x), s2)
  BY DEF Target, At, Unlocked, Moving
<1>2. /\ r \in Locals /\ Shape(r) /\ r.at \in Inums /\ r.ip \in Inums /\ n \in Elems
      /\ fs.disk[r.at].type = "dir"
      /\ Mid(p, fs, Held(r.at, r.ip, r.target, z), Locks(r),
             Due(IpLink(r), AtLink(r), TargetLink(r), Missing(r)))
  BY <1>1, MovingNow
<1> HIDE DEF r
<1>3. /\ IpLink(r) = r.ip /\ AtLink(r) = z /\ TargetLink(r) = z /\ Missing(r) = z
      /\ Locks(r) = Locked(z, z) /\ r.target = z
  BY <1>1, <1>2, Place DEF IpLink, AtLink, TargetLink, Missing, Stage, LockAt, Making, Removing, Shape
<1>4. Mid(p, fs, Held(r.at, r.ip, z, z), Locked(z, z), Due(r.ip, z, z, z))
  BY <1>2, <1>3
<1>5. /\ Mid(p, f, Held(r.at, r.ip, z, z), Locked(r.at, z), Due(r.ip, z, z, z)) /\ Still(fs, f)
      /\ r.at \in Live(f)
  BY <1>1, <1>2, <1>4, LockOp
<1> HIDE DEF f, n
<1>6. x = f.dirs[r.at][n]
  <2>1. f.disk[r.at].type = "dir"
    BY <1>2, <1>5 DEF Still, Same
  <2>2. f.ic[r.at].type = "dir"
    BY <1>5, <2>1, ReadIs
  <2> QED BY <2>2 DEF Lookup
<1> HIDE DEF x
<1>7. Same(fs, f, r.at) /\ Same(fs, f, r.ip) /\ r.pc # "dotdot"
  BY <1>1, <1>2, <1>5 DEF Still
<1>8. /\ q \in Locals /\ q.at = r.at /\ q.ip = r.ip /\ q.target = z
      /\ q.call = r.call /\ q.old = r.old /\ q.new = r.new /\ q.rest = r.rest
  BY <1>2, <1>3 DEF Locals, Ptrs
<1> HIDE DEF q
<1>9. CASE x = z /\ Go(p, f, s1)
  <2>1. /\ s1 \in Locals /\ s1.pc = "relink" /\ s1.at = r.at /\ s1.ip = r.ip /\ s1.target = z
        /\ s1.call = r.call /\ s1.old = r.old /\ s1.new = r.new /\ s1.rest = r.rest
    BY <1>8 DEF Locals, PCs, Moving
  <2> HIDE DEF s1
  <2>2. IpLink(s1) = s1.ip /\ AtLink(s1) = z /\ TargetLink(s1) = z /\ Missing(s1) = z
    BY <2>1 DEF IpLink, AtLink, TargetLink, Missing, Stage
  <2>3. f.dirs[s1.at][Head(s1.rest)] = z /\ Same(fs, f, s1.at) /\ Same(fs, f, s1.ip)
    BY <1>6, <1>7, <1>9, <2>1 DEF n
  <2>4. Mid(p, f, Held(s1.at, s1.ip, s1.target, z),
            Locked(s1.at, IF s1.pc = "replaced" THEN s1.target ELSE z),
            Due(IpLink(s1), AtLink(s1), TargetLink(s1), Missing(s1)))
    BY <1>5, <2>1, <2>2
  <2>5. /\ s1.pc \in {"replace", "replaced", "relink", "recount", "olddir"}
        /\ s1.pc \notin {"replace", "replaced", "recount"}
    BY <2>1
  <2> QED BY <1>1, <1>7, <1>9, <2>1, <2>3, <2>4, <2>5, MovingEnd DEF r
<1>10. CASE x # z /\ Go(p, Iget(f, x), s2)
  <2> DEFINE g == Iget(f, x)
  <2>1. x \in Inums /\ f.disk[x].type # "free" /\ Found1(p, x)
    BY <1>2, <1>5, <1>6, <1>10, NamedNow
  <2>2. Mid(p, g, Held(r.at, r.ip, z, x), Locked(r.at, z), Due(r.ip, z, z, z)) /\ Still(f, g)
    BY <1>5, <2>1, GetOp
  <2>3. Go(p, g, s2)
    BY <1>10
  <2> HIDE DEF g
  <2>4. Held(r.at, r.ip, z, x) = Held(r.at, r.ip, x, z)
    <3>1. /\ Held(r.at, r.ip, z, x) = Held(z, r.at, r.ip, x)
          /\ Held(z, r.at, r.ip, x) = Held(r.at, r.ip, x, z)
      BY Turns
    <3> QED BY <3>1
  <2>5. /\ s2 \in Locals /\ s2.pc = "replace" /\ s2.at = r.at /\ s2.ip = r.ip /\ s2.target = x
        /\ s2.call = r.call /\ s2.old = r.old /\ s2.new = r.new /\ s2.rest = r.rest
    BY <1>8, <2>1 DEF Locals, PCs, Moving, Ptrs
  <2> HIDE DEF s2
  <2>6. IpLink(s2) = s2.ip /\ AtLink(s2) = z /\ TargetLink(s2) = z /\ Missing(s2) = z
    BY <2>5 DEF IpLink, AtLink, TargetLink, Missing, Stage
  <2>7. /\ g.dirs[s2.at][Head(s2.rest)] = s2.target /\ Same(fs, g, s2.at) /\ Same(fs, g, s2.ip)
        /\ g.disk[s2.target].type # "free"
    BY <1>2, <1>6, <1>7, <2>1, <2>2, <2>5 DEF n, Still, Same
  <2>8. Mid(p, g, Held(s2.at, s2.ip, s2.target, z),
            Locked(s2.at, IF s2.pc = "replaced" THEN s2.target ELSE z),
            Due(IpLink(s2), AtLink(s2), TargetLink(s2), Missing(s2)))
    BY <2>2, <2>4, <2>5, <2>6
  <2>9. /\ s2.pc \in {"replace", "replaced", "relink", "recount", "olddir"}
        /\ s2.pc \notin {"replaced", "relink", "recount"} /\ s2.target # z /\ Found1(p, s2.target)
    BY <1>10, <2>1, <2>5
  <2> QED BY <1>1, <1>7, <2>3, <2>5, <2>7, <2>8, <2>9, MovingEnd DEF r
<1> QED BY <1>1, <1>9, <1>10

\* What has the new name is locked; its name goes, unless it is a directory.
LEMMA ReplaceStep ==
  ASSUME Inv, NEW p \in Procs, Replace(p), UNCHANGED calls
  PROVE  Inv'
<1> DEFINE r == proc[p]
           z == NoInode
           n == Head(r.rest)
           t == r.target
           f == Ilock(fs, p, t)
           g == Entry(f, r.at, n, z)
           h == Iunlockput(f, t)
           s1 == [r EXCEPT !.pc = "unref", !.at = z, !.target = z]
           s2 == [r EXCEPT !.pc = "replaced"]
<1>1. /\ r.pc = "replace" /\ fs.ic[t].lock = NoProc /\ r.pc \in Moving \cup {"old"}
      /\ \/ Go(p, Iunlockput(h, r.at), s1)
         \/ f.ic[t].type # "dir" /\ Go(p, g, s2)
  BY DEF Replace, At, Unlocked, Moving, GiveUp
<1>2. /\ r \in Locals /\ Shape(r) /\ Relies(r, fs) /\ r.at \in Inums /\ r.at # z /\ r.ip \in Inums
      /\ r.ip # z /\ n \in Elems /\ (r.target # z => r.target \in Inums)
      /\ fs.disk[r.at].type = "dir"
      /\ Mid(p, fs, Held(r.at, r.ip, r.target, z), Locks(r),
             Due(IpLink(r), AtLink(r), TargetLink(r), Missing(r)))
  BY <1>1, MovingNow
<1> HIDE DEF r, n
<1>3. /\ IpLink(r) = r.ip /\ AtLink(r) = z /\ TargetLink(r) = z /\ Missing(r) = z
      /\ Locks(r) = Locked(r.at, z) /\ t # z
  BY <1>1, <1>2, Place DEF IpLink, AtLink, TargetLink, Missing, Stage, LockAt, LockIp, Shape
<1>4. fs.disk[t].type # "free" /\ fs.dirs[r.at][n] = t /\ t \in Inums
  BY <1>1, <1>2, <1>3 DEF Relies, n
<1> HIDE DEF t
<1>5. Mid(p, fs, Held(t, r.at, r.ip, z), Locked(z, r.at), Due(r.ip, z, z, z))
  <2>1. Held(r.at, r.ip, t, z) = Held(t, r.at, r.ip, z) /\ Locked(r.at, z) = Locked(z, r.at)
    BY Lists, Turns
  <2> QED BY <1>2, <1>3, <2>1 DEF t
<1>6. t # r.at
  <2>1. r.at \in Locked(z, r.at)
    BY <1>2 DEF Locked
  <2>2. fs.ic[r.at].lock = p
    BY <1>2, <1>5, <2>1 DEF Mid
  <2> QED BY <1>1, <2>2, Consts
<1>7. /\ Mid(p, f, Held(t, r.at, r.ip, z), Locked(t, r.at), Due(r.ip, z, z, z)) /\ Still(fs, f)
      /\ t \in Live(f)
  BY <1>1, <1>4, <1>5, LockOp
<1> HIDE DEF f
<1>8. CASE Go(p, Iunlockput(h, r.at), s1)
  <2>1. /\ Mid(p, h, Held(z, r.at, r.ip, z), Locked(z, r.at), Due(r.ip, z, z, z))
        /\ Kept(f, h, t, r.at, r.ip, z)
    BY <1>3, <1>4, <1>6, <1>7, LeaveOp
  <2> HIDE DEF h
  <2>2. Held(z, r.at, r.ip, z) = Held(r.at, r.ip, z, z) /\ Locked(z, r.at) = Locked(r.at, z)
    BY Lists, Turns
  <2>3. Mid(p, h, Held(r.at, r.ip, z, z), Locked(r.at, z), Due(r.ip, z, z, z))
    BY <2>1, <2>2
  <2>4. /\ s1 \in Locals /\ s1.pc = "unref" /\ s1.at = z /\ s1.target = z /\ s1.ip = r.ip
        /\ s1.call = r.call /\ s1.old = r.old /\ s1.new = r.new
    BY <1>2 DEF Locals, PCs, Ptrs
  <2> HIDE DEF s1
  <2>5. Same(fs, h, r.ip) /\ r.pc # "dotdot"
    BY <1>1, <1>2, <1>7, <2>1 DEF Kept, Same, Still
  <2> QED BY <1>1, <1>8, <2>3, <2>4, <2>5, MovingOver DEF r
<1>9. CASE f.ic[t].type # "dir" /\ Go(p, g, s2)
  <2>1. f.disk[t].type # "dir" /\ f.disk[t].type # "free" /\ f.dirs[r.at][n] = t
    <3>1. f.ic[t].type = f.disk[t].type
      BY <1>7, ReadIs
    <3> QED BY <1>4, <1>7, <1>9, <3>1 DEF Still, Same
  <2>2. Due(r.ip, z, z, z) = Due(z, r.ip, z, z) /\ Due(t, r.ip, z, z) = Due(r.ip, z, t, z)
    BY Lists, Turns
  <2>3. r.at \in Locked(t, r.at)
    BY <1>2 DEF Locked
  <2>4. Mid(p, f, Held(t, r.at, r.ip, z), Locked(t, r.at), Due(z, r.ip, z, z))
    BY <1>7, <2>2
  <2>5. /\ Mid(p, g, Held(t, r.at, r.ip, z), Locked(t, r.at), Due(t, r.ip, z, z))
        /\ Renamed(f, g, r.at, n, z)
    BY <1>2, <1>4, <2>1, <2>3, <2>4, UnlinkFile
  <2> HIDE DEF g
  <2>6. Held(t, r.at, r.ip, z) = Held(r.at, r.ip, t, z) /\ Locked(t, r.at) = Locked(r.at, t)
    BY Lists, Turns
  <2>7. /\ s2 \in Locals /\ s2.pc = "replaced" /\ s2.at = r.at /\ s2.ip = r.ip /\ s2.target = t
        /\ s2.call = r.call /\ s2.old = r.old /\ s2.new = r.new /\ s2.rest = r.rest
    BY <1>2 DEF Locals, PCs, Moving, t
  <2> HIDE DEF s2
  <2>8. IpLink(s2) = s2.ip /\ AtLink(s2) = z /\ TargetLink(s2) = t /\ Missing(s2) = z
    BY <2>7 DEF IpLink, AtLink, TargetLink, Missing, Stage
  <2>9. /\ g.dirs[s2.at][Head(s2.rest)] = z /\ Same(fs, g, s2.at) /\ Same(fs, g, s2.ip)
        /\ g.disk[s2.target].type # "free"
    BY <1>2, <1>4, <1>7, <2>1, <2>5, <2>7 DEF n, Still, Same, Renamed
  <2>10. Mid(p, g, Held(s2.at, s2.ip, s2.target, z),
            Locked(s2.at, IF s2.pc = "replaced" THEN s2.target ELSE z),
            Due(IpLink(s2), AtLink(s2), TargetLink(s2), Missing(s2)))
    BY <2>2, <2>5, <2>6, <2>7, <2>8
  <2>11. /\ s2.pc \in {"replace", "replaced", "relink", "recount", "olddir"}
         /\ s2.pc \notin {"replace", "relink", "recount"} /\ s2.target # z /\ Found1(p, s2.target)
         /\ s2.at # s2.target /\ r.pc # "dotdot"
    BY <1>1, <1>3, <1>6, <2>7 DEF Found1, t, r
  <2> QED BY <1>1, <1>9, <2>7, <2>9, <2>10, <2>11, MovingEnd DEF r
<1> QED BY <1>1, <1>8, <1>9

\* It loses the link of the name that was cleared.
LEMMA ReplacedStep ==
  ASSUME Inv, NEW p \in Procs, Replaced(p), UNCHANGED calls
  PROVE  Inv'
<1> DEFINE r == proc[p]
           z == NoInode
           n == Head(r.rest)
           t == r.target
           f == Count(fs, t, -1)
           g == Iunlockput(f, t)
           s == [r EXCEPT !.pc = "relink", !.target = z]
<1>1. r.pc = "replaced" /\ Go(p, g, s) /\ r.pc \in Moving \cup {"old"}
  BY DEF Replaced, At, Moving
<1>2. /\ r \in Locals /\ Shape(r) /\ Relies(r, fs) /\ r.at \in Inums /\ r.at # z /\ r.ip \in Inums
      /\ r.ip # z /\ (r.target # z => r.target \in Inums)
      /\ Mid(p, fs, Held(r.at, r.ip, r.target, z), Locks(r),
             Due(IpLink(r), AtLink(r), TargetLink(r), Missing(r)))
  BY <1>1, MovingNow
<1> HIDE DEF r
<1>3. /\ IpLink(r) = r.ip /\ AtLink(r) = z /\ TargetLink(r) = t /\ Missing(r) = z
      /\ Locks(r) = Locked(r.at, t) /\ t # z
  BY <1>1, <1>2, Place DEF IpLink, AtLink, TargetLink, Missing, Stage, LockAt, LockIp, Shape
<1>4. fs.dirs[r.at][n] = z /\ t \in Inums /\ r.at # t /\ t \in Locked(t, r.at)
  BY <1>1, <1>2, <1>3 DEF Relies, Locked
<1> HIDE DEF t, n
<1>5. Mid(p, fs, Held(t, r.at, r.ip, z), Locked(t, r.at), Due(t, z, r.ip, z))
  <2>1. Held(r.at, r.ip, t, z) = Held(t, r.at, r.ip, z) /\ Locked(r.at, t) = Locked(t, r.at)
        /\ Due(r.ip, z, t, z) = Due(t, z, r.ip, z)
    BY Lists, Turns
  <2> QED BY <1>2, <1>3, <2>1 DEF t
<1>6. Mid(p, f, Held(t, r.at, r.ip, z), Locked(t, r.at), Due(z, z, r.ip, z)) /\ Still(fs, f)
  BY <1>4, <1>5, CountDown
<1> HIDE DEF f
<1>7. /\ Mid(p, g, Held(z, r.at, r.ip, z), Locked(z, r.at), Due(z, z, r.ip, z))
      /\ Kept(f, g, t, r.at, r.ip, z)
  BY <1>3, <1>4, <1>6, LeaveOp
<1> HIDE DEF g
<1>8. /\ Held(z, r.at, r.ip, z) = Held(r.at, r.ip, z, z) /\ Locked(z, r.at) = Locked(r.at, z)
      /\ Due(z, z, r.ip, z) = Due(r.ip, z, z, z)
  BY Lists, Turns
<1>9. /\ s \in Locals /\ s.pc = "relink" /\ s.at = r.at /\ s.ip = r.ip /\ s.target = z
      /\ s.call = r.call /\ s.old = r.old /\ s.new = r.new /\ s.rest = r.rest
  BY <1>2 DEF Locals, PCs, Moving, Ptrs
<1> HIDE DEF s
<1>10. IpLink(s) = s.ip /\ AtLink(s) = z /\ TargetLink(s) = z /\ Missing(s) = z
  BY <1>9 DEF IpLink, AtLink, TargetLink, Missing, Stage
<1>11. g.dirs[s.at][Head(s.rest)] = z /\ Same(fs, g, s.at) /\ Same(fs, g, s.ip)
  BY <1>2, <1>4, <1>6, <1>7, <1>9 DEF n, Still, Same, Kept
<1>12. Mid(p, g, Held(s.at, s.ip, s.target, z), Locked(s.at, IF s.pc = "replaced" THEN s.target ELSE z),
           Due(IpLink(s), AtLink(s), TargetLink(s), Missing(s)))
  BY <1>7, <1>8, <1>9, <1>10
<1>13. /\ s.pc \in {"replace", "replaced", "relink", "recount", "olddir"}
       /\ s.pc \notin {"replace", "replaced", "recount"} /\ r.pc # "dotdot"
  BY <1>1, <1>9
<1> QED BY <1>1, <1>9, <1>11, <1>12, <1>13, MovingEnd DEF r

\* The new name is there: the old one is looked up.
LEMMA OldWalk ==
  ASSUME Inv, NEW p \in Procs, proc[p].pc \in Moving, proc[p].pc # "dotdot", NEW g,
         NameiParent(p, Iunlockput(g, proc[p].at), proc[p], proc[p].old, "old"), UNCHANGED calls,
         proc[p].target = NoInode, Same(fs, g, proc[p].ip),
         Mid(p, g, Held(proc[p].at, proc[p].ip, NoInode, NoInode), Locked(proc[p].at, NoInode),
             Due(NoInode, NoInode, NoInode, NoInode))
  PROVE  Inv'
<1> DEFINE r == proc[p]
           z == NoInode
           e == Iunlockput(g, r.at)
           s == Start(r, r.old, TRUE, "old")
           m == [r EXCEPT !.at = z, !.then = "old"]
<1>1. \/ /\ fs' = Iget(e, ROOTINO) /\ proc' = [proc EXCEPT ![p] = s]
         /\ rename_lock' = rename_lock /\ r.old # <<>>
      \/ NotFound(p, e, m)
  BY DEF NameiParent, Go
<1>2. /\ r \in Locals /\ r.at \in Inums /\ r.at # z /\ r.ip \in Inums /\ r.ip # z
      /\ r.call = "rename" /\ rename_lock = p
      /\ fs.disk[r.ip].type # "free" /\ r.ip \in Live(fs)
  BY MovingNow
<1>3. /\ r.target = z /\ Same(fs, g, r.ip)
      /\ Mid(p, g, Held(r.at, r.ip, z, z), Locked(r.at, z), Due(z, z, z, z))
  OBVIOUS
<1> HIDE DEF r
<1>4. Mid(p, e, Held(z, r.ip, z, z), Locked(z, z), Due(z, z, z, z)) /\ Kept(g, e, r.at, r.ip, z, z)
  BY <1>2, <1>3, LeaveOp
<1> HIDE DEF e
<1>5. r.ip \in Live(e) /\ e.disk[r.ip].type # "free"
  BY <1>2, <1>3, <1>4 DEF Kept, Same
<1>6. r.old \in Seq(Elems) /\ "old" \in Walks /\ TRUE \in BOOLEAN
  BY <1>2 DEF Locals, Walks
<1>a. CASE NotFound(p, e, m)
  <2>1. /\ m \in Locals /\ m.call = r.call /\ m.target = z /\ m.at = z /\ m.then = "old"
        /\ m.ip = r.ip
    <3>1. z \in Ptrs /\ r \in Locals /\ "old" \in Walks \cup {"none"}
      BY <1>2 DEF Ptrs, Walks
    <3> HIDE DEF z
    <3>2. m \in Locals /\ m.call = r.call /\ m.target = r.target /\ m.at = z /\ m.then = "old"
          /\ m.ip = r.ip
      BY <3>1 DEF Locals
    <3> QED BY <1>3, <3>2
  <2> HIDE DEF m
  <2>2. r.pc \notin {"user", "lock"}
    BY DEF Moving, r
  <2> QED BY <1>2, <1>4, <1>6, <1>a, <2>1, <2>2, NotFoundStep DEF r
<1> SUFFICES ASSUME /\ fs' = Iget(e, ROOTINO) /\ proc' = [proc EXCEPT ![p] = s]
                    /\ rename_lock' = rename_lock /\ r.old # <<>>
             PROVE  Inv'
  BY <1>1, <1>a
<1>7. Begun(s, r, r.old, "old") /\ s.parent
  BY <1>2, <1>6, StartIs, StartWays
<1> HIDE DEF s
<1>8. Stage(s) = "old" /\ IpLink(s) = z
  BY <1>7 DEF Begun, Stage, IpLink
<1>9. Shape(s)
  BY <1>2, <1>3, <1>7, <1>8, Consts DEF Begun, Shape, Walks, Making, Moving
<1>10. Mid(p, e, Held(z, r.ip, z, z), Locked(z, z), Due(IpLink(s), z, z, z))
  BY <1>4, <1>8
<1>11. /\ rename_lock' = p <=> r.call = "rename"
       /\ rename_lock' \in Procs \cup {NoProc} /\ calls' \in 0 .. MaxCalls
       /\ \A q \in Others(p) : rename_lock' = q <=> rename_lock = q
  BY <1>2, LockNow
<1>12. Found1(p, r.ip)
  BY DEF Found1, r
<1>13. Shape(Start(r, r.old, TRUE, "old")) /\ proc' = [proc EXCEPT ![p] = Start(r, r.old, TRUE, "old")]
       /\ Mid(p, e, Held(z, r.ip, z, z), Locked(z, z), Due(IpLink(Start(r, r.old, TRUE, "old")), z, z, z))
  BY <1>9, <1>10 DEF s
<1> QED BY <1>2, <1>3, <1>5, <1>6, <1>11, <1>12, <1>13, NameiEnd

\* The new name
LEMMA RelinkStep ==
  ASSUME Inv, NEW p \in Procs, Relink(p), UNCHANGED calls
  PROVE  Inv'
<1> DEFINE r == proc[p]
           z == NoInode
           n == Head(r.rest)
           f == Entry(fs, r.at, n, r.ip)
           s1 == [r EXCEPT !.pc = "recount"]
           s2 == [r EXCEPT !.pc = "unref", !.at = z, !.target = z]
<1>1. /\ r.pc = "relink" /\ r.pc \in Moving
      /\ \/ fs.ic[r.ip].type = "dir" /\ Go(p, f, s1)
         \/ fs.ic[r.ip].type # "dir" /\ NameiParent(p, Iunlockput(f, r.at), r, r.old, "old")
         \/ Go(p, Iunlockput(fs, r.at), s2)
  BY DEF Relink, At, Moving, GiveUp, IsDir
<1>2. /\ r \in Locals /\ Shape(r) /\ Relies(r, fs) /\ r.at \in Inums /\ r.at # z /\ r.ip \in Inums
      /\ r.ip # z /\ n \in Elems /\ fs.ic[r.ip].type = fs.disk[r.ip].type
      /\ Mid(p, fs, Held(r.at, r.ip, r.target, z), Locks(r),
             Due(IpLink(r), AtLink(r), TargetLink(r), Missing(r)))
  BY <1>1, MovingNow
<1>3. \A q \in Others(p) : proc[q].pc \in Making => proc[q].ip # r.ip
  BY NotMade
<1> HIDE DEF r, n
<1>4. /\ IpLink(r) = r.ip /\ AtLink(r) = z /\ TargetLink(r) = z /\ Missing(r) = z
      /\ Locks(r) = Locked(r.at, z) /\ r.target = z /\ r.pc # "dotdot"
  BY <1>1, <1>2, Place DEF IpLink, AtLink, TargetLink, Missing, Stage, LockAt, LockIp, Shape
<1>5. fs.dirs[r.at][n] = z /\ r.at \in Locked(r.at, z)
  BY <1>1, <1>2 DEF Relies, n, Locked
<1>6. Mid(p, fs, Held(r.at, r.ip, z, z), Locked(r.at, z), Due(r.ip, z, z, z))
  BY <1>2, <1>4
<1>7. CASE fs.ic[r.ip].type = "dir" /\ Go(p, f, s1)
  <2>1. fs.disk[r.ip].type = "dir"
    BY <1>2, <1>7
  <2>2. /\ Mid(p, f, Held(r.at, r.ip, z, z), Locked(r.at, z), Due(z, z, z, r.at))
        /\ Renamed(fs, f, r.at, n, r.ip)
    BY <1>2, <1>3, <1>5, <1>6, <2>1, LinkEarly
  <2> HIDE DEF f
  <2>3. /\ s1 \in Locals /\ s1.pc = "recount" /\ s1.at = r.at /\ s1.ip = r.ip /\ s1.target = z
        /\ s1.call = r.call /\ s1.old = r.old /\ s1.new = r.new /\ s1.rest = r.rest
    BY <1>2, <1>4 DEF Locals, PCs, Moving
  <2> HIDE DEF s1
  <2>4. IpLink(s1) = z /\ AtLink(s1) = z /\ TargetLink(s1) = z /\ Missing(s1) = s1.at
    BY <2>3 DEF IpLink, AtLink, TargetLink, Missing, Stage
  <2>5. /\ f.dirs[s1.at][Head(s1.rest)] = s1.ip /\ Same(fs, f, s1.at) /\ Same(fs, f, s1.ip)
        /\ f.disk[s1.ip].type = "dir"
    BY <1>2, <2>1, <2>2, <2>3 DEF n, Same, Renamed
  <2>6. Mid(p, f, Held(s1.at, s1.ip, s1.target, z),
            Locked(s1.at, IF s1.pc = "replaced" THEN s1.target ELSE z),
            Due(IpLink(s1), AtLink(s1), TargetLink(s1), Missing(s1)))
    BY <2>2, <2>3, <2>4
  <2>7. /\ s1.pc \in {"replace", "replaced", "relink", "recount", "olddir"}
        /\ s1.pc \notin {"replace", "replaced", "relink"}
    BY <2>3
  <2> QED BY <1>1, <1>4, <1>7, <2>3, <2>5, <2>6, <2>7, MovingEnd DEF r
<1>8. CASE fs.ic[r.ip].type # "dir" /\ NameiParent(p, Iunlockput(f, r.at), r, r.old, "old")
  <2>1. fs.disk[r.ip].type # "dir"
    BY <1>2, <1>8
  <2>2. /\ Mid(p, f, Held(r.at, r.ip, z, z), Locked(r.at, z), Due(z, z, z, z))
        /\ Renamed(fs, f, r.at, n, r.ip)
    BY <1>2, <1>3, <1>5, <1>6, <2>1, LinkFile
  <2> HIDE DEF f
  <2>3. Same(fs, f, r.ip)
    BY <1>2, <2>2 DEF Renamed
  <2> QED BY <1>1, <1>4, <1>8, <2>2, <2>3, OldWalk DEF r
<1>9. CASE Go(p, Iunlockput(fs, r.at), s2)
  <2>1. /\ s2 \in Locals /\ s2.pc = "unref" /\ s2.at = z /\ s2.target = z /\ s2.ip = r.ip
        /\ s2.call = r.call /\ s2.old = r.old /\ s2.new = r.new
    BY <1>2 DEF Locals, PCs, Ptrs
  <2> HIDE DEF s2
  <2>2. Same(fs, fs, r.ip) /\ r.pc \in Moving \cup {"old"}
    BY <1>1 DEF Same
  <2> QED BY <1>4, <1>6, <1>9, <2>1, <2>2, MovingOver DEF r
<1> QED BY <1>1, <1>7, <1>8, <1>9

\* The new parent gets the link of a directory that moved.
LEMMA RecountStep ==
  ASSUME Inv, NEW p \in Procs, Recount(p), UNCHANGED calls
  PROVE  Inv'
<1> DEFINE r == proc[p]
           z == NoInode
           f == Count(fs, r.at, 1)
<1>1. /\ r.pc = "recount" /\ r.pc \in Moving
      /\ NameiParent(p, Iunlockput(f, r.at), r, r.old, "old")
  BY DEF Recount, At, Moving
<1>2. /\ Shape(r) /\ r.at \in Inums /\ r.at # z /\ r.ip \in Inums
      /\ Mid(p, fs, Held(r.at, r.ip, r.target, z), Locks(r),
             Due(IpLink(r), AtLink(r), TargetLink(r), Missing(r)))
  BY <1>1, MovingNow
<1> HIDE DEF r
<1>3. /\ IpLink(r) = z /\ AtLink(r) = z /\ TargetLink(r) = z /\ Missing(r) = r.at
      /\ Locks(r) = Locked(r.at, z) /\ r.target = z /\ r.pc # "dotdot" /\ r.at \in Locked(r.at, z)
  BY <1>1, <1>2, Place DEF IpLink, AtLink, TargetLink, Missing, Stage, LockAt, LockIp, Shape, Locked
<1>4. Mid(p, fs, Held(r.at, r.ip, z, z), Locked(r.at, z), Due(z, z, z, r.at))
  BY <1>2, <1>3
<1>5. Mid(p, f, Held(r.at, r.ip, z, z), Locked(r.at, z), Due(z, z, z, z)) /\ Still(fs, f)
  BY <1>3, <1>4, CountLate
<1> HIDE DEF f
<1>6. Same(fs, f, r.ip)
  BY <1>2, <1>5 DEF Still
<1> QED BY <1>1, <1>3, <1>5, <1>6, OldWalk DEF r

\* The old name, if it still names the inode
LEMMA OldStep ==
  ASSUME Inv, NEW p \in Procs, Old(p), UNCHANGED calls
  PROVE  Inv'
<1> DEFINE r == proc[p]
           z == NoInode
           n == Head(r.rest)
           f == Ilock(fs, p, r.at)
           g == Entry(f, r.at, n, z)
           h == Iunlockput(f, r.at)
           s1 == [r EXCEPT !.pc = "olddir"]
           s2 == [r EXCEPT !.pc = "unref", !.at = z]
<1>1. /\ r.pc = "old" /\ fs.ic[r.at].lock = NoProc /\ r.pc \in Moving \cup {"old"}
      /\ \/ Return(p, Iput(h, r.ip))
         \/ Find(f, r.at, n) = r.ip /\ fs.ic[r.ip].type = "dir" /\ Go(p, g, s1)
         \/ Find(f, r.at, n) = r.ip /\ fs.ic[r.ip].type # "dir" /\ Go(p, Iunlockput(g, r.at), s2)
  BY DEF Old, At, Unlocked, IsDir
<1>2. /\ r \in Locals /\ Shape(r) /\ r.at \in Inums /\ r.at # z /\ r.ip \in Inums /\ r.ip # z
      /\ n \in Elems /\ fs.disk[r.at].type = "dir" /\ fs.ic[r.ip].type = fs.disk[r.ip].type
      /\ Mid(p, fs, Held(r.at, r.ip, r.target, z), Locks(r),
             Due(IpLink(r), AtLink(r), TargetLink(r), Missing(r)))
  BY <1>1, MovingNow
<1> HIDE DEF r, n
<1>3. /\ IpLink(r) = z /\ AtLink(r) = z /\ TargetLink(r) = z /\ Missing(r) = z
      /\ Locks(r) = Locked(z, z) /\ r.target = z /\ r.pc # "dotdot"
  BY <1>1, <1>2, Place DEF IpLink, AtLink, TargetLink, Missing, Stage, LockAt, Making, Removing, Shape
<1>4. Mid(p, fs, Held(r.at, r.ip, z, z), Locked(z, z), Due(z, z, z, z))
  BY <1>2, <1>3
<1>5. /\ Mid(p, f, Held(r.at, r.ip, z, z), Locked(r.at, z), Due(z, z, z, z)) /\ Still(fs, f)
      /\ r.at \in Live(f)
  BY <1>1, <1>2, <1>4, LockOp
<1> HIDE DEF f
<1>6. /\ Same(fs, f, r.ip) /\ Same(fs, f, r.at) /\ r.at \in Locked(r.at, z)
      /\ Find(f, r.at, n) = f.dirs[r.at][n]
  <2>1. f.disk[r.at].type = "dir"
    BY <1>2, <1>5 DEF Still, Same
  <2>2. f.ic[r.at].type = "dir"
    BY <1>5, <2>1, ReadIs
  <2> QED BY <1>2, <1>5, <2>2, FindPlain DEF Lookup, Still, Locked
<1>7. CASE Return(p, Iput(h, r.ip))
  <2>1. Mid(p, h, Held(z, r.ip, z, z), Locked(z, z), Due(z, z, z, z))
    BY <1>2, <1>5, LeaveOp
  <2> HIDE DEF h
  <2>2. Held(z, r.ip, z, z) = Held(r.ip, z, z, z) /\ r.ip \notin Locked(z, z)
    BY <1>2, Lists DEF Locked
  <2>3. Mid(p, h, Held(r.ip, z, z, z), Locked(z, z), Due(z, z, z, z))
    BY <2>1, <2>2
  <2>4. Mid(p, Iput(h, r.ip), Held(z, z, z, z), Locked(z, z), Due(z, z, z, z))
    BY <1>2, <2>2, <2>3, PutOp
  <2> QED BY <1>7, <2>4, ReturnEnd
<1>8. CASE Find(f, r.at, n) = r.ip /\ fs.ic[r.ip].type = "dir" /\ Go(p, g, s1)
  <2>1. f.disk[r.ip].type = "dir" /\ f.dirs[r.at][n] = r.ip
    BY <1>2, <1>6, <1>8 DEF Same
  <2>2. /\ Mid(p, g, Held(r.at, r.ip, z, z), Locked(r.at, z), Due(r.ip, r.at, z, z))
        /\ Renamed(f, g, r.at, n, z)
    BY <1>2, <1>5, <1>6, <2>1, UnlinkDir
  <2> HIDE DEF g
  <2>3. /\ s1 \in Locals /\ s1.pc = "olddir" /\ s1.at = r.at /\ s1.ip = r.ip /\ s1.target = z
        /\ s1.call = r.call /\ s1.old = r.old /\ s1.new = r.new /\ s1.rest = r.rest
    BY <1>2, <1>3 DEF Locals, PCs, Moving
  <2> HIDE DEF s1
  <2>4. IpLink(s1) = s1.ip /\ AtLink(s1) = s1.at /\ TargetLink(s1) = z /\ Missing(s1) = z
    BY <2>3 DEF IpLink, AtLink, TargetLink, Missing, Stage
  <2>5. Same(fs, g, s1.at) /\ Same(fs, g, s1.ip)
    BY <1>2, <1>6, <2>2, <2>3 DEF Same, Renamed
  <2>6. Mid(p, g, Held(s1.at, s1.ip, s1.target, z),
            Locked(s1.at, IF s1.pc = "replaced" THEN s1.target ELSE z),
            Due(IpLink(s1), AtLink(s1), TargetLink(s1), Missing(s1)))
    BY <2>2, <2>3, <2>4
  <2>7. /\ s1.pc \in {"replace", "replaced", "relink", "recount", "olddir"}
        /\ s1.pc \notin {"replace", "replaced", "relink", "recount"}
    BY <2>3
  <2> QED BY <1>1, <1>3, <1>8, <2>3, <2>5, <2>6, <2>7, MovingEnd DEF r
<1>9. CASE Find(f, r.at, n) = r.ip /\ fs.ic[r.ip].type # "dir" /\ Go(p, Iunlockput(g, r.at), s2)
  <2>1. f.disk[r.ip].type # "dir" /\ f.dirs[r.at][n] = r.ip
    BY <1>2, <1>6, <1>9 DEF Same
  <2>2. /\ Mid(p, g, Held(r.at, r.ip, z, z), Locked(r.at, z), Due(r.ip, z, z, z))
        /\ Renamed(f, g, r.at, n, z)
    BY <1>2, <1>5, <1>6, <2>1, UnlinkFile
  <2> HIDE DEF g
  <2>3. /\ s2 \in Locals /\ s2.pc = "unref" /\ s2.at = z /\ s2.target = z /\ s2.ip = r.ip
        /\ s2.call = r.call /\ s2.old = r.old /\ s2.new = r.new
    BY <1>2, <1>3 DEF Locals, PCs, Ptrs
  <2> HIDE DEF s2
  <2>4. Same(fs, g, r.ip)
    BY <1>2, <1>6, <2>2 DEF Same, Renamed
  <2> QED BY <1>1, <1>3, <1>9, <2>2, <2>3, <2>4, MovingOver DEF r
<1> QED BY <1>1, <1>7, <1>8, <1>9

\* The old parent of a directory loses its link.
LEMMA OldDirStep ==
  ASSUME Inv, NEW p \in Procs, OldDir(p), UNCHANGED calls
  PROVE  Inv'
<1> DEFINE r == proc[p]
           z == NoInode
           f == Count(fs, r.at, -1)
           g == Iunlockput(f, r.at)
           s == [r EXCEPT !.pc = "dotdot", !.at = z]
<1>1. r.pc = "olddir" /\ r.pc \in Moving \cup {"old"} /\ Go(p, g, s)
  BY DEF OldDir, At, Moving
<1>2. /\ r \in Locals /\ Shape(r) /\ r.at \in Inums /\ r.at # z /\ r.ip \in Inums /\ r.ip # z
      /\ r.call = "rename"
      /\ fs.disk[r.ip].type # "free" /\ r.ip \in Live(fs)
      /\ Mid(p, fs, Held(r.at, r.ip, r.target, z), Locks(r),
             Due(IpLink(r), AtLink(r), TargetLink(r), Missing(r)))
  BY <1>1, MovingNow
<1> HIDE DEF r
<1>3. /\ IpLink(r) = r.ip /\ AtLink(r) = r.at /\ TargetLink(r) = z /\ Missing(r) = z
      /\ Locks(r) = Locked(r.at, z) /\ r.target = z /\ r.at \in Locked(r.at, z)
  BY <1>1, <1>2, Place DEF IpLink, AtLink, TargetLink, Missing, Stage, LockAt, LockIp, Shape, Locked
<1>4. Due(r.ip, r.at, z, z) = Due(r.at, r.ip, z, z) /\ Due(z, r.ip, z, z) = Due(r.ip, z, z, z)
  BY Lists
<1>5. Mid(p, fs, Held(r.at, r.ip, z, z), Locked(r.at, z), Due(r.at, r.ip, z, z))
  BY <1>2, <1>3, <1>4
<1>6. Mid(p, f, Held(r.at, r.ip, z, z), Locked(r.at, z), Due(z, r.ip, z, z)) /\ Still(fs, f)
  BY <1>3, <1>5, CountDown
<1> HIDE DEF f
<1>7. Mid(p, g, Held(z, r.ip, z, z), Locked(z, z), Due(z, r.ip, z, z)) /\ Kept(f, g, r.at, r.ip, z, z)
  BY <1>2, <1>6, LeaveOp
<1> HIDE DEF g
<1>8. /\ s \in Locals /\ s.pc = "dotdot" /\ s.at = z /\ s.target = z /\ s.ip = r.ip
      /\ s.call = r.call /\ s.old = r.old /\ s.new = r.new
  BY <1>2, <1>3 DEF Locals, PCs, Ptrs, Moving
<1> HIDE DEF s
<1>9. s.ip \in Live(g) /\ g.disk[s.ip].type # "free"
  BY <1>2, <1>6, <1>7, <1>8 DEF Kept, Same, Still
<1>10. /\ IpLink(s) = s.ip /\ AtLink(s) = z /\ TargetLink(s) = z /\ Missing(s) = z
       /\ Locks(s) = Locked(z, z)
  BY <1>8, Place DEF IpLink, AtLink, TargetLink, Missing, Stage, LockAt, Making, Removing
<1>11. Shape(s)
  BY <1>2, <1>8 DEF Shape, Stage, Making, Moving
<1>12. Relies(s, g)
  BY <1>8, <1>9, <1>11 DEF Relies, Stage, Known, Making, Removing, Moving, Parents, LockAt, LockIp
<1>13. Mid(p, g, Held(s.at, s.ip, s.target, z), Locks(s), Due(IpLink(s), AtLink(s), TargetLink(s), Missing(s)))
  BY <1>4, <1>7, <1>8, <1>10
<1>14. /\ Found1(p, s.ip) /\ s.pc # "lock" /\ s.pc \notin Making /\ proc[p].pc # "lock"
       /\ s.call = proc[p].call
  BY <1>1, <1>8 DEF Found1, Making, r
<1> QED BY <1>1, <1>8, <1>12, <1>13, <1>14, GoEnd

\* The entry .. of a directory that moved
LEMMA DotDotStep ==
  ASSUME Inv, NEW p \in Procs, DotDot(p), UNCHANGED calls
  PROVE  Inv'
<1> DEFINE r == proc[p]
           z == NoInode
           f == Ilock(fs, p, r.ip)
           g == Iunlock(f, r.ip)
           h == [g EXCEPT !.up[r.ip] = r.newdir]
           s == [r EXCEPT !.pc = "unref"]
<1>1. r.pc = "dotdot" /\ fs.ic[r.ip].lock = NoProc /\ r.pc \in Moving \cup {"old"}
      /\ (Go(p, h, s) \/ Go(p, g, s))
  BY DEF DotDot, At, Unlocked, Moving
<1>2. /\ r \in Locals /\ Shape(r) /\ r.ip \in Inums /\ r.ip # z /\ r.call = "rename"
      /\ fs.disk[r.ip].type # "free" /\ r.ip \in Live(fs)
      /\ Mid(p, fs, Held(r.at, r.ip, r.target, z), Locks(r),
             Due(IpLink(r), AtLink(r), TargetLink(r), Missing(r)))
  BY <1>1, MovingNow
<1> HIDE DEF r
<1>3. /\ IpLink(r) = r.ip /\ AtLink(r) = z /\ TargetLink(r) = z /\ Missing(r) = z
      /\ Locks(r) = Locked(z, z) /\ r.target = z /\ r.at = z
  BY <1>1, <1>2, Place DEF IpLink, AtLink, TargetLink, Missing, Stage, LockAt, Making, Removing, Shape
<1>4. Held(z, r.ip, z, z) = Held(r.ip, z, z, z)
  BY Lists
<1>5. Mid(p, fs, Held(r.ip, z, z, z), Locked(z, z), Due(r.ip, z, z, z))
  BY <1>2, <1>3, <1>4
<1>6. Mid(p, f, Held(r.ip, z, z, z), Locked(r.ip, z), Due(r.ip, z, z, z)) /\ Still(fs, f)
  BY <1>1, <1>2, <1>5, LockOp
<1> HIDE DEF f
<1>7. Mid(p, g, Held(r.ip, z, z, z), Locked(z, z), Due(r.ip, z, z, z)) /\ Still(f, g)
  BY <1>2, <1>6, UnlockOp
<1> HIDE DEF g
<1>8. r.newdir \in Ptrs
  BY <1>2 DEF Locals
<1>9. /\ Mid(p, h, Held(r.ip, z, z, z), Locked(z, z), Due(r.ip, z, z, z))
      /\ h.disk = g.disk /\ Live(h) = Live(g)
  BY <1>2, <1>7, <1>8, MidUp
<1> HIDE DEF h
<1>10. /\ r.ip \in Live(h) /\ h.disk[r.ip].type # "free"
       /\ r.ip \in Live(g) /\ g.disk[r.ip].type # "free"
  BY <1>2, <1>6, <1>7, <1>9 DEF Still, Same
<1>11. /\ s \in Locals /\ s.pc = "unref" /\ s.at = z /\ s.target = z /\ s.ip = r.ip
       /\ s.call = r.call /\ s.old = r.old /\ s.new = r.new
  BY <1>2, <1>3 DEF Locals, PCs
<1> HIDE DEF s
<1>12. ASSUME NEW e \in {g, h}, Go(p, e, s) PROVE Inv'
  <2>1. /\ Mid(p, e, Held(z, s.ip, z, z), Locked(z, z), Due(s.ip, z, z, z)) /\ s.ip \in Inums
        /\ s.call \in {"link", "rename"} /\ s.ip \in Live(e) /\ e.disk[s.ip].type # "free"
    BY <1>2, <1>4, <1>7, <1>9, <1>10, <1>11, <1>12
  <2> QED BY <1>1, <1>11, <1>12, <2>1, UnrefEnd DEF r
<1> QED BY <1>1, <1>12

\* Paths of names, the root among them, and none with . or .. in it.
PlainPaths == \A q \in Requests : q.old \in Seq(Elems) /\ q.new \in Seq(Elems)

\* What a call begins with.
Called(c, old, new) == [Idle EXCEPT !.call = c, !.old = old, !.new = new]

\* Its arguments
LEMMA Arguments ==
  ASSUME PlainPaths, NEW a \in Requests
  PROVE  LET q == Called(a.call, a.old, a.new) IN
         /\ q \in Locals /\ q.pc = "user" /\ q.at = NoInode /\ q.ip = NoInode
         /\ q.target = NoInode /\ q.call = a.call /\ q.old = a.old /\ q.new = a.new
         /\ q.rest = <<>> /\ a.old \in Seq(Elems)
         /\ a.call \in {"creat", "mkdir", "mknod", "link", "unlink", "rename"}
<1> DEFINE c == a.call
           old == a.old
           new == a.new
           q == Called(c, old, new)
<1>1. /\ old \in Seq(Elems) /\ new \in Seq(Elems) /\ <<>> \in Seq(Elems)
      /\ c \in {"creat", "mkdir", "mknod", "link", "unlink", "rename"}
  BY NamesAssumption DEF NamesAssumption, PlainPaths
<1> HIDE DEF c, old, new
<1>2. /\ q.pc = "user" /\ q.at = NoInode /\ q.ip = NoInode
      /\ q.target = NoInode /\ q.call = c /\ q.old = old /\ q.new = new /\ q.rest = <<>>
  BY DEF Called, Idle
<1>3. q \in Locals
  BY <1>1 DEF Called, Idle, Locals, PCs, Ptrs
<1> QED BY <1>1, <1>2, <1>3 DEF c, old, new

\* A call begins.
LEMMA BeginStep ==
  ASSUME PlainPaths, Inv, NEW p \in Procs, NEW a \in Requests, Begin(p, a)
  PROVE  Inv'
<1> DEFINE c == a.call
           old == a.old
           new == a.new
           q == Called(c, old, new)
           z == NoInode
           s == [q EXCEPT !.pc = "lock"]
           Walks1(parent, then) == /\ fs' = Iget(fs, ROOTINO)
                                   /\ proc' = [proc EXCEPT ![p] = Start(q, old, parent, then)]
                                   /\ rename_lock' = rename_lock
<1>1. /\ proc[p].pc = "user" /\ calls < MaxCalls /\ calls' = calls + 1
      /\ \/ c = "creat" /\ Walks1(FALSE, "found")
         \/ c = "link" /\ Walks1(FALSE, "source")
         \/ c \in {"mkdir", "mknod"} /\ old # <<>> /\ Walks1(TRUE, "create")
         \/ c = "unlink" /\ old # <<>> /\ Walks1(TRUE, "unlink")
         \/ c \in {"mkdir", "mknod"} /\ NotFound(p, fs, [q EXCEPT !.at = z, !.then = "create"])
         \/ c = "unlink" /\ NotFound(p, fs, [q EXCEPT !.at = z, !.then = "unlink"])
         \/ c = "rename" /\ Go(p, fs, s)
  BY DEF Begin, At, Namei, NameiParent, Go, Called
<1>2. /\ q \in Locals /\ q.pc = "user" /\ q.at = z /\ q.ip = z
      /\ q.target = z /\ q.call = c /\ q.old = old /\ q.new = new /\ q.rest = <<>>
      /\ old \in Seq(Elems)
      /\ c \in {"creat", "mkdir", "mknod", "link", "unlink", "rename"}
  BY Arguments
<1> HIDE DEF q, c, old, new
<1>3. calls' \in 0 .. MaxCalls
  <2>1. calls \in 0 .. MaxCalls /\ MaxCalls \in Nat
    BY NamesAssumption DEF NamesAssumption, Inv
  <2> QED BY <1>1, <2>1
<1>4. /\ proc[p].call = "none" /\ proc[p].pc \in {"user", "lock"}
      /\ rename_lock # p /\ rename_lock \in Procs \cup {NoProc}
  BY <1>1, Hand, LockNow DEF Shape
<1>5. ASSUME NEW parent \in BOOLEAN, NEW then \in {"found", "source", "create", "unlink"},
             Walks1(parent, then), c # "rename", then = "found" => c = "creat",
             then = "create" => c \in {"mkdir", "mknod"}, then = "source" => c = "link",
             parent <=> then \notin {"found", "source"}, parent => old # <<>>
      PROVE  Inv'
  <2>1. Start(q, old, parent, then).parent <=> parent
    <3>1. CASE parent = TRUE
      BY <1>2, <3>1, StartWays
    <3>2. CASE parent = FALSE
      BY <1>2, <3>2, StartWays
    <3> QED BY <3>1, <3>2
  <2>2. Start(q, old, parent, then).parent <=> then \notin {"found", "source"}
    BY <1>5, <2>1
  <2>3. /\ q.call # "none" /\ q.old = old
        /\ old = <<>> => then \in {"found", "source"}
        /\ then = "found" => q.call = "creat"
        /\ then = "create" => q.call \in {"creat", "mkdir", "mknod"}
        /\ then = "source" => q.call \in {"link", "rename"}
    BY <1>2, <1>5
  <2>4. /\ fs' = Iget(fs, ROOTINO) /\ proc' = [proc EXCEPT ![p] = Start(q, old, parent, then)]
        /\ rename_lock' \in Procs \cup {NoProc}
        /\ rename_lock' = p <=> q.call = "rename"
        /\ \A x \in Others(p) : rename_lock' = x <=> rename_lock = x
    BY <1>2, <1>4, <1>5
  <2> QED BY <1>2, <1>3, <1>4, <2>2, <2>3, <2>4, FirstWalk
<1>6. CASE c = "creat" /\ Walks1(FALSE, "found")
  BY <1>5, <1>6
<1>7. CASE c = "link" /\ Walks1(FALSE, "source")
  BY <1>5, <1>7
<1>8. CASE c \in {"mkdir", "mknod"} /\ old # <<>> /\ Walks1(TRUE, "create")
  BY <1>5, <1>8
<1>9. CASE c = "unlink" /\ old # <<>> /\ Walks1(TRUE, "unlink")
  BY <1>5, <1>9
<1>11. ASSUME NEW then \in {"create", "unlink"}, c # "creat",
              NotFound(p, fs, [q EXCEPT !.at = z, !.then = then])
       PROVE  Inv'
  <2> DEFINE m == [q EXCEPT !.at = z, !.then = then]
             r == proc[p]
  <2>1. m.then = then /\ m.call = c
    BY <1>2 DEF Locals
  <2> HIDE DEF m
  <2>2. Return(p, fs)
    BY <1>11, <2>1 DEF NotFound, m
  <2>3. r.at = z /\ r.ip = z /\ r.target = z /\ r.pc = "user"
    BY <1>1, Hand DEF Shape, Stage
  <2> HIDE DEF r
  <2>4. /\ IpLink(r) = z /\ AtLink(r) = z /\ TargetLink(r) = z /\ Missing(r) = z
        /\ Locks(r) = Locked(z, z)
    BY <2>3, Place DEF IpLink, AtLink, TargetLink, Missing, Stage, LockAt, Making, Removing
  <2>5. Mid(p, fs, Held(z, z, z, z), Locked(z, z), Due(z, z, z, z))
    BY <2>3, <2>4, Hand DEF r
  <2> QED BY <1>3, <2>2, <2>5, ReturnEnd
<1>12. CASE c \in {"mkdir", "mknod"} /\ NotFound(p, fs, [q EXCEPT !.at = z, !.then = "create"])
  BY <1>11, <1>12
<1>13. CASE c = "unlink" /\ NotFound(p, fs, [q EXCEPT !.at = z, !.then = "unlink"])
  BY <1>11, <1>13
<1>10. CASE c = "rename" /\ Go(p, fs, s)
  <2>1. /\ s \in Locals /\ s.pc = "lock" /\ s.at = z /\ s.ip = z /\ s.target = z
        /\ s.call = "rename" /\ s.old = old /\ s.new = new
    BY <1>2, <1>10 DEF Locals, PCs
  <2>2. /\ fs' = fs /\ proc' = [proc EXCEPT ![p] = s] /\ rename_lock' = rename_lock
    BY <1>10 DEF Go
  <2> HIDE DEF s
  <2>3. /\ IpLink(s) = z /\ AtLink(s) = z /\ TargetLink(s) = z /\ Missing(s) = z
        /\ Locks(s) = Locked(z, z)
    BY <2>1, Place DEF IpLink, AtLink, TargetLink, Missing, Stage, LockAt, Making, Removing
  <2> DEFINE r == proc[p]
  <2>4. r.at = z /\ r.ip = z /\ r.target = z /\ r.pc = "user"
    BY <1>1, Hand DEF Shape, Stage
  <2> HIDE DEF r
  <2>5. /\ IpLink(r) = z /\ AtLink(r) = z /\ TargetLink(r) = z /\ Missing(r) = z
        /\ Locks(r) = Locked(z, z)
    BY <2>4, Place DEF IpLink, AtLink, TargetLink, Missing, Stage, LockAt, Making, Removing
  <2>6. Mid(p, fs, Held(z, z, z, z), Locked(z, z), Due(z, z, z, z))
    BY <2>4, <2>5, Hand DEF r
  <2>7. Own(s) = Held(z, z, z, z) /\ Claims(s) = Due(z, z, z, z)
    <3>1. Own(s) = Held(s.at, s.ip, s.target, z)
          /\ Claims(s) = Due(IpLink(s), AtLink(s), TargetLink(s), Missing(s))
      BY Lists
    <3> QED BY <2>1, <2>3, <3>1
  <2>8. Mid(p, fs', Own(s), Locks(s), Claims(s))
    BY <2>2, <2>3, <2>6, <2>7
  <2>9. Shape(s)
    BY <1>2, <1>10, <2>1 DEF Shape, Stage, Making, Moving
  <2>10. Relies(s, fs')
    BY <2>1, <2>9 DEF Relies, Stage, Known, Making, Removing, Moving, Parents, LockAt, LockIp
  <2>11. /\ rename_lock' \in Procs \cup {NoProc}
         /\ rename_lock' = p <=> s.call = "rename" /\ s.pc # "lock"
         /\ \A x \in Others(p) : rename_lock' = x <=> rename_lock = x
         /\ s.pc \notin Making
    BY <1>4, <2>1, <2>2 DEF Making
  <2> QED BY <1>3, <2>1, <2>2, <2>8, <2>10, <2>11, MidEnd
<1> QED BY <1>1, <1>6, <1>7, <1>8, <1>9, <1>10, <1>12, <1>13

\* Every step of a process preserves the invariant.
LEMMA StepKeeps ==
  ASSUME Inv, NEW p \in Procs, Step(p), UNCHANGED calls
  PROVE  Inv'
<1>1. CASE Walk(p) \/ Found(p) \/ Close(p)
  BY <1>1, WalkStep, FoundStep, CloseStep
<1>2. CASE Create(p) \/ Exists(p) \/ Ialloc(p) \/ CountParent(p) \/ Dots(p) \/ NewEntry(p)
  BY <1>2, CreateStep, ExistsStep, IallocStep, CountParentStep, DotsStep, NewEntryStep
<1>3. CASE Unlink(p) \/ Victim(p) \/ Clear(p) \/ UncountParent(p) \/ Drop(p)
  BY <1>3, UnlinkStep, VictimStep, ClearStep, UncountParentStep, DropStep
<1>4. CASE Source(p) \/ DirLink(p) \/ Unref(p)
  BY <1>4, SourceStep, DirLinkStep, UnrefStep
<1>5. CASE RenameLock(p) \/ Cycle(p) \/ Target(p) \/ Replace(p) \/ Replaced(p)
  BY <1>5, RenameLockStep, CycleStep, TargetStep, ReplaceStep, ReplacedStep
<1>6. CASE Relink(p) \/ Recount(p) \/ Old(p) \/ OldDir(p) \/ DotDot(p)
  BY <1>6, RelinkStep, RecountStep, OldStep, OldDirStep, DotDotStep
<1> QED BY <1>1, <1>2, <1>3, <1>4, <1>5, <1>6 DEF Step

\* A step of the system preserves the invariant, or spoils the disk.
LEMMA NextKeeps ==
  ASSUME PlainPaths, Inv, [Next]_vars
  PROVE  spoilt' \/ Inv'
<1>1. CASE \E p \in Procs : Step(p) /\ UNCHANGED calls
  BY <1>1, StepKeeps
<1>2. CASE \E p \in Procs, a \in Requests : Begin(p, a)
  BY <1>2, BeginStep
<1>4. CASE \E p \in Procs : Spoils(p)
  BY <1>4 DEF Spoils, TargetDots, ReplaceFails, RelinkRoot, OldSpoils, Spoil
<1>3. CASE UNCHANGED vars
  <2>1. fs' = fs /\ rename_lock' = rename_lock /\ proc' = proc /\ calls' = calls
    BY <1>3 DEF vars
  <2>2. /\ Disk(fs)' /\ (proc \in [Procs -> Locals])' /\ (rename_lock \in Procs \cup {NoProc})'
        /\ (calls \in 0 .. MaxCalls)'
    BY <2>1 DEF Inv
  <2>3. (\A p \in Procs : Uses(p, proc[p], fs) /\ Fresh(p))'
    BY <2>1 DEF Inv, Fresh
  <2>4. References' /\ Ledger' /\ Renaming'
    BY <2>1 DEF Inv, References, Ledger, Renaming, Refs, Links
  <2> QED BY <2>2, <2>3, <2>4 DEF Inv
<1> QED BY <1>1, <1>2, <1>3, <1>4 DEF Next

-----------------------------------------------------------------------------
(* The invariant, and the properties *)

\* After boot no process has anything in hand.
LEMMA InitHolds == Init => Inv
<1> SUFFICES ASSUME Init PROVE Inv
  OBVIOUS
<1>1. /\ fs.disk = [i \in Inums |-> IF i = ROOTINO THEN Dinode("dir", 1) ELSE Dinode("free", 0)]
      /\ fs.dirs = [i \in Inums |-> Empty]
      /\ fs.up = [i \in Inums |-> IF i = ROOTINO THEN ROOTINO ELSE NoInode]
      /\ fs.ic = Booted /\ DOMAIN fs = {"disk", "dirs", "up", "ic"}
      /\ fs = [disk |-> fs.disk, dirs |-> fs.dirs, up |-> fs.up, ic |-> fs.ic]
  BY DEF Init
<1>2. rename_lock = NoProc /\ calls = 0 /\ proc = [p \in Procs |-> Idle]
  BY DEF Init
<1>3. /\ \A i \in Inums : fs.disk[i] = IF i = ROOTINO THEN Dinode("dir", 1) ELSE Dinode("free", 0)
      /\ \A i \in Inums, n \in Elems : fs.dirs[i][n] = NoInode
      /\ \A i \in Inums : fs.dirs[i] = Empty
      /\ \A i \in Inums : fs.ic[i] = Slot(IF i = ROOTINO THEN 1 ELSE 0)
  BY <1>1 DEF Empty, Booted
<1>4. \A i \in Inums : /\ fs.disk[i].type = (IF i = ROOTINO THEN "dir" ELSE "free")
                       /\ fs.disk[i].nlink = (IF i = ROOTINO THEN 1 ELSE 0)
                       /\ fs.ic[i].ref = (IF i = ROOTINO THEN 1 ELSE 0)
                       /\ fs.ic[i].lock = NoProc /\ fs.ic[i].valid = FALSE
  <2>1. ASSUME NEW i \in Inums
        PROVE  /\ fs.disk[i].type = (IF i = ROOTINO THEN "dir" ELSE "free")
               /\ fs.disk[i].nlink = (IF i = ROOTINO THEN 1 ELSE 0)
    BY <1>3 DEF Dinode
  <2>2. ASSUME NEW x PROVE Slot(x).ref = x /\ Slot(x).lock = NoProc
    BY DEF Slot
  <2>3. ASSUME NEW x PROVE Slot(x).valid = FALSE
    BY DEF Slot
  <2>4. ASSUME NEW i \in Inums
        PROVE  /\ fs.ic[i].ref = (IF i = ROOTINO THEN 1 ELSE 0) /\ fs.ic[i].lock = NoProc
               /\ fs.ic[i].valid = FALSE
    <3> DEFINE k == IF i = ROOTINO THEN 1 ELSE 0
    <3>1. fs.ic[i] = Slot(k)
      BY <1>3
    <3> HIDE DEF k
    <3>2. fs.ic[i].ref = k /\ fs.ic[i].lock = NoProc
      BY <2>2, <3>1
    <3>3. fs.ic[i].valid = FALSE
      BY <2>3, <3>1
    <3> QED BY <3>2, <3>3 DEF k
  <2> QED BY <2>1, <2>4
<1>5. fs \in Fs
  <2>1. fs.disk \in [Inums -> [type : Types, nlink : Int]]
    <3>1. Dinode("dir", 1) \in [type : Types, nlink : Int] /\ Dinode("free", 0) \in [type : Types, nlink : Int]
      BY DEF Dinode, Types
    <3> QED BY <1>1, <3>1
  <2>2. fs.dirs \in [Inums -> [Elems -> Ptrs]]
    BY <1>1 DEF Empty, Ptrs
  <2>3. fs.up \in [Inums -> Ptrs]
    BY <1>1 DEF Ptrs
  <2>4. fs.ic \in [Inums -> Slots]
    <3>1. Slot(0) \in Slots /\ Slot(1) \in Slots
      BY DEF Slot, Slots, Types
    <3> QED BY <1>1, <3>1 DEF Booted
  <2> QED BY <1>1, <2>1, <2>2, <2>3, <2>4 DEF Fs
<1>6. Live(fs) = {}
  BY <1>4 DEF Live
<1>7. Disk(fs)
  BY <1>3, <1>4, <1>5, <1>6, Consts DEF Disk
<1>8. Idle \in Locals /\ Idle.pc = "user" /\ Idle.call = "none" /\ Idle.at = NoInode /\ Idle.ip = NoInode
      /\ Idle.target = NoInode
  <2>1. <<>> \in Seq(Elems)
    OBVIOUS
  <2> QED BY <2>1 DEF Idle, Locals, PCs, Ptrs
<1>9. proc \in [Procs -> Locals] /\ \A p \in Procs : proc[p] = Idle
  BY <1>2, <1>8
<1>10. Shape(Idle) /\ Relies(Idle, fs) /\ Locks(Idle) = {}
  <2>1. Shape(Idle)
    BY <1>8 DEF Shape, Stage, Making, Moving, Walks
  <2>2. Relies(Idle, fs)
    BY <1>8, <2>1 DEF Relies, Stage, Known, Making, Removing, Moving, Parents, LockAt, LockIp
  <2>3. Locks(Idle) = {}
    BY <1>8 DEF Locks, LockAt, LockIp, Making, Removing
  <2> QED BY <2>1, <2>2, <2>3
<1>11. ASSUME NEW p \in Procs PROVE Uses(p, proc[p], fs) /\ Fresh(p)
  <2>1. proc[p] = Idle
    BY <1>9
  <2>2. Fresh(p)
    BY <1>8, <2>1 DEF Fresh, Making
  <2>3. Uses(p, proc[p], fs)
    BY <1>4, <1>10, <2>1, Consts DEF Uses
  <2> QED BY <2>2, <2>3
<1>12. IpLink(Idle) = NoInode /\ AtLink(Idle) = NoInode /\ TargetLink(Idle) = NoInode /\ Missing(Idle) = NoInode
  BY <1>8 DEF IpLink, AtLink, TargetLink, Missing, Stage
<1>13. ASSUME NEW i \in Inums PROVE Refs(Procs, i) = Boot(i) /\ Links(Procs, i) = 0
  <2>1. i # NoInode
    BY Consts
  <2> DEFINE A == {q \in Procs : proc[q].at = i}
             B == {q \in Procs : proc[q].ip = i}
             C == {q \in Procs : proc[q].target = i}
             U == {q \in Procs : IpLink(proc[q]) = i}
             V == {q \in Procs : AtLink(proc[q]) = i}
             W == {q \in Procs : TargetLink(proc[q]) = i}
             M == {q \in Procs : Missing(proc[q]) = i}
  <2>2. A = {} /\ B = {} /\ C = {}
    BY <1>8, <1>9, <2>1
  <2>3. U = {} /\ V = {} /\ W = {} /\ M = {}
    BY <1>9, <1>12, <2>1
  <2>4. Cardinality({}) = 0 /\ Boot(i) \in Int
    BY FS_EmptySet DEF Boot, One
  <2>5. /\ Refs(Procs, i) = Boot(i) + Cardinality(A) + Cardinality(B) + Cardinality(C)
        /\ Links(Procs, i) = Cardinality(U) + Cardinality(V) + Cardinality(W) - Cardinality(M)
    BY DEF Refs, RefsBy, Links, LinksBy
  <2> HIDE DEF A, B, C, U, V, W, M
  <2> QED BY <2>2, <2>3, <2>4, <2>5
<1>14. References
  BY <1>4, <1>13 DEF References, Boot, One
<1>15. Ledger
  <2>1. SUFFICES ASSUME NEW i \in Inums
                 PROVE  fs.disk[i].nlink >= Cardinality(NamesIn(fs, i)) + Cardinality(DirsOf(fs, i))
                                            + Links(Procs, i)
    BY DEF Ledger
  <2>2. i # NoInode
    BY Consts
  <2>3. NamesIn(fs, i) = {} /\ DirsOf(fs, i) = {}
    BY <1>3, <2>2 DEF NamesIn, DirsOf
  <2>4. Cardinality({}) = 0
    BY FS_EmptySet
  <2> QED BY <1>4, <1>13, <2>3, <2>4
<1>16. Renaming
  BY <1>2, <1>8, <1>9, Consts DEF Renaming
<1>17. calls \in 0 .. MaxCalls /\ rename_lock \in Procs \cup {NoProc}
  BY <1>2, NamesAssumption DEF NamesAssumption
<1> QED BY <1>7, <1>9, <1>11, <1>14, <1>15, <1>16, <1>17 DEF Inv

\* The invariant holds in every state, up to a rename that goes wrong.
LEMMA Invariant ==
  ASSUME PlainPaths
  PROVE  Spec => [](spoilt \/ Inv)
<1>1. Init => spoilt \/ Inv
  BY InitHolds
<1>2. (spoilt \/ Inv) /\ [Next]_vars => (spoilt \/ Inv)'
  <2>1. ASSUME spoilt, [Next]_vars PROVE spoilt'
    BY <2>1 DEF Next, vars
  <2>2. ASSUME Inv, [Next]_vars PROVE spoilt' \/ Inv'
    BY <2>2, NextKeeps
  <2> QED BY <2>1, <2>2
<1> QED BY <1>1, <1>2, PTL DEF Spec

\* The count of an inode covers its names: the link that a rename has still to count is
\* that of a directory which already has its name.
LEMMA CountCovers ==
  ASSUME Inv, NEW i \in Inums
  PROVE  fs.disk[i].nlink \in Int /\ fs.disk[i].nlink >= Cardinality(NamesIn(fs, i))
<1> DEFINE U == {q \in Procs : IpLink(proc[q]) = i}
           V == {q \in Procs : AtLink(proc[q]) = i}
           W == {q \in Procs : TargetLink(proc[q]) = i}
           M == {q \in Procs : Missing(proc[q]) = i}
<1>1. /\ U \in SUBSET Procs /\ V \in SUBSET Procs /\ W \in SUBSET Procs /\ M \in SUBSET Procs
  OBVIOUS
<1>2. Cardinality(U) \in Nat /\ Cardinality(V) \in Nat /\ Cardinality(W) \in Nat /\ Cardinality(M) \in Nat
  BY <1>1, Counted
<1>3. Links(Procs, i) = Cardinality(U) + Cardinality(V) + Cardinality(W) - Cardinality(M)
  BY DEF Links, LinksBy
<1>4. Cardinality(M) <= Cardinality(DirsOf(fs, i))
  <2>1. CASE M = {}
    <3>1. Cardinality(M) = 0
      BY <2>1, FS_EmptySet
    <3> QED BY <3>1, CoversNat
  <2>2. CASE M # {}
    <3>1. ASSUME NEW q \in M
          PROVE  /\ q \in Procs /\ proc[q].pc = "recount" /\ proc[q].at = i /\ fs.ic[i].lock = q
                 /\ Relies(proc[q], fs)
      <4>1. q \in Procs /\ proc[q].pc = "recount" /\ proc[q].at = i
        BY Consts DEF Missing
      <4>2. Uses(q, proc[q], fs)
        BY <4>1 DEF Inv
      <4>3. i \in Locks(proc[q])
        BY <4>1 DEF Locks, LockAt
      <4> QED BY <4>1, <4>2, <4>3 DEF Uses
    <3>2. PICK q \in M : TRUE
      BY <2>2
    <3>3. M = {q}
      BY <3>1, <3>2
    <3>4. Cardinality(M) = 1
      BY <3>3, FS_Singleton
    <3> DEFINE r == proc[q]
    <3>5. /\ r.pc = "recount" /\ r.at = i /\ Relies(r, fs) /\ r \in Locals
      BY <3>1, Hand
    <3> HIDE DEF r, M
    <3>6. fs.dirs[i][Head(r.rest)] = r.ip /\ fs.disk[r.ip].type = "dir" /\ r.rest # <<>> /\ r.ip # NoInode
      BY <3>5 DEF Relies, Shape, Stage
    <3>7. Head(r.rest) \in Elems
      <4>1. r.rest \in Seq(Elems)
        BY <3>5 DEF Locals
      <4> QED BY <3>6, <4>1
    <3>8. Head(r.rest) \in DirsOf(fs, i)
      BY <3>6, <3>7 DEF DirsOf
    <3>9. Cardinality(DirsOf(fs, i)) # 0
      BY <3>8, CoversNat, FS_EmptySet
    <3> QED BY <3>4, <3>9, CoversNat
  <2> QED BY <2>1, <2>2
<1>5. fs.disk[i].nlink >= Cardinality(NamesIn(fs, i)) + Cardinality(DirsOf(fs, i)) + Links(Procs, i)
  BY DEF Inv, Ledger
<1>6. fs.disk[i].nlink \in Int
  BY DEF Inv, Disk, Fs
<1>7. Cardinality(NamesIn(fs, i)) \in Nat /\ Cardinality(DirsOf(fs, i)) \in Nat
  BY CoversNat
<1> HIDE DEF U, V, W, M
<1> QED BY <1>2, <1>3, <1>4, <1>5, <1>6, <1>7

\* Only the steps of a rename that goes wrong are marked.
LEMMA Unmarked ==
  ASSUME NEW p, Step(p)
  PROVE  spoilt' = spoilt
<1>0. /\ \A f, r : Go(p, f, r) => spoilt' = spoilt
      /\ \A f : Return(p, f) => spoilt' = spoilt
  BY DEF Go, Return
<1>1. \A f, r : NotFound(p, f, r) => spoilt' = spoilt
  BY <1>0 DEF NotFound
<1>2. \A f, r, path, then : NameiParent(p, f, r, path, then) => spoilt' = spoilt
  BY <1>0, <1>1 DEF NameiParent
<1>3. \A f : GiveUp(p, f) => spoilt' = spoilt
  BY <1>0 DEF GiveUp
<1>4. UndoCreate(p) => spoilt' = spoilt
  BY <1>0 DEF UndoCreate
<1>5. CASE Walk(p) \/ Found(p) \/ Close(p)
  BY <1>0, <1>1, <1>5 DEF Walk, Found, Close
<1>6. CASE Create(p) \/ Exists(p) \/ Ialloc(p) \/ CountParent(p) \/ Dots(p) \/ NewEntry(p)
  BY <1>0, <1>4, <1>6 DEF Create, Exists, Ialloc, CountParent, Dots, NewEntry
<1>7. CASE Unlink(p) \/ Victim(p) \/ Clear(p) \/ UncountParent(p) \/ Drop(p)
  BY <1>0, <1>7 DEF Unlink, Victim, Clear, UncountParent, Drop
<1>8. CASE Source(p) \/ DirLink(p) \/ Unref(p)
  BY <1>0, <1>2, <1>8 DEF Source, DirLink, Unref
<1>9. CASE RenameLock(p) \/ Cycle(p) \/ Target(p)
  BY <1>0, <1>3, <1>9 DEF RenameLock, Cycle, Target
<1>10. CASE Replace(p) \/ Replaced(p) \/ Relink(p) \/ Recount(p)
  BY <1>0, <1>2, <1>3, <1>10 DEF Replace, Replaced, Relink, Recount
<1>11. CASE Old(p) \/ OldDir(p) \/ DotDot(p)
  BY <1>0, <1>11 DEF Old, OldDir, DotDot
<1> QED BY <1>5, <1>6, <1>7, <1>8, <1>9, <1>10, <1>11 DEF Step

LEMMA Marked == Spec => [](spoilt \in BOOLEAN)
<1> DEFINE B == spoilt \in BOOLEAN
<1>1. Init => B
  BY DEF Init
<1>2. B /\ [Next]_vars => B'
  <2>0. ASSUME NEW p, NEW a, Begin(p, a) PROVE spoilt' = spoilt
    <3>1. /\ \A f, r : Go(p, f, r) => spoilt' = spoilt
          /\ \A f : Return(p, f) => spoilt' = spoilt
      BY DEF Go, Return
    <3>2. \A f, r : NotFound(p, f, r) => spoilt' = spoilt
      BY <3>1 DEF NotFound
    <3>3. \A f, r, path, then : NameiParent(p, f, r, path, then) \/ Namei(p, f, r, path, then) => spoilt' = spoilt
      BY <3>1, <3>2 DEF NameiParent, Namei
    <3> QED BY <2>0, <3>1, <3>3 DEF Begin
  <2>1. SUFFICES ASSUME spoilt \in BOOLEAN, [Next]_vars PROVE spoilt' \in BOOLEAN
    OBVIOUS
  <2>2. ASSUME NEW p \in Procs, Step(p) PROVE spoilt' \in BOOLEAN
    BY <2>1, <2>2, Unmarked
  <2>3. ASSUME NEW p \in Procs, NEW a \in Requests, Begin(p, a) PROVE spoilt' \in BOOLEAN
    BY <2>0, <2>1, <2>3
  <2>4. ASSUME NEW p \in Procs, Spoils(p) PROVE spoilt' \in BOOLEAN
    BY <2>4 DEF Spoils, TargetDots, ReplaceFails, RelinkRoot, OldSpoils, Spoil
  <2>5. CASE UNCHANGED vars
    BY <2>1, <2>5 DEF vars
  <2> QED BY <2>1, <2>2, <2>3, <2>4, <2>5 DEF Next
<1>3. B => spoilt \in BOOLEAN
  OBVIOUS
<1> HIDE DEF B
<1> QED BY <1>1, <1>2, <1>3, PTL DEF Spec

\* Type correctness: the counts of links never become negative, and what a call has in
\* hand are inodes of the disk.
THEOREM TypeCorrect ==
  ASSUME PlainPaths
  PROVE  Spec => [](spoilt \/ TypeOK)
<1>1. Inv /\ spoilt \in BOOLEAN => TypeOK
  <2> SUFFICES ASSUME Inv, spoilt \in BOOLEAN PROVE TypeOK
    OBVIOUS
  <2>1. fs \in Fs /\ proc \in [Procs -> Locals]
    BY DEF Inv, Disk
  <2>2. fs.disk \in [Inums -> [type : {"free", "file", "dev", "dir"}, nlink : Nat]]
    <3>1. fs.disk \in [Inums -> [type : Types, nlink : Int]]
      BY <2>1 DEF Fs
    <3>2. ASSUME NEW i \in Inums PROVE fs.disk[i].nlink \in Nat
      BY CountCovers, CoversNat
    <3>3. ASSUME NEW i \in Inums PROVE fs.disk[i] \in [type : {"free", "file", "dev", "dir"}, nlink : Nat]
      BY <3>1, <3>2 DEF Types
    <3> QED BY <3>1, <3>3
  <2>3. /\ fs.dirs \in [Inums -> [Elems -> Inums \cup {NoInode}]]
        /\ fs.up \in [Inums -> Inums \cup {NoInode}]
        /\ \A i \in Inums : fs.ic[i].ref \in Nat /\ fs.ic[i].lock \in Procs \cup {NoProc}
    BY <2>1 DEF Fs, Ptrs, Slots
  <2>4. \A p \in Procs : {proc[p].at, proc[p].ip, proc[p].target} \subseteq Inums \cup {NoInode}
    BY <2>1 DEF Locals, Ptrs
  <2>5. rename_lock \in Procs \cup {NoProc} /\ calls \in 0 .. MaxCalls
    BY DEF Inv
  <2> QED BY <2>2, <2>3, <2>4, <2>5 DEF TypeOK
<1> QED BY <1>1, Invariant, Marked, PTL

\* fs_iget and fs_iput, fs_ilock and fs_iunlock, sleep locks and rename_lock: every path
\* through open, mkdir, link, unlink and rename, by any number of processes, gives back
\* the references and locks it took.
THEOREM ReferencesGivenBack ==
  ASSUME PlainPaths
  PROVE  Spec => []RefsExact
<1>1. spoilt \/ Inv => RefsExact
  <2> SUFFICES ASSUME Inv, ~spoilt PROVE RefsExact
    BY DEF RefsExact
  <2>1. ASSUME NEW i \in Inums
        PROVE  fs.ic[i].ref = (IF i = ROOTINO THEN 1 ELSE 0)
                      + Cardinality({p \in Procs : proc[p].at = i})
                      + Cardinality({p \in Procs : proc[p].ip = i})
                      + Cardinality({p \in Procs : proc[p].target = i})
    BY DEF Inv, References, Refs, RefsBy, Boot, One
  <2>2. ASSUME NEW i \in Inums, NEW p \in Procs, fs.ic[i].lock = p
        PROVE  i \in {proc[p].at, proc[p].ip, proc[p].target}
    BY <2>2 DEF Inv, Uses, Locks
  <2>3. \A p \in Procs : rename_lock = p => proc[p].call = "rename"
    BY LockNow
  <2> QED BY <2>1, <2>2, <2>3 DEF RefsExact
<1> QED BY <1>1, Invariant, PTL

\* Wherever the machine stops, every name on the disk leads to an inode in use, whose
\* nlink is at least the number of its names: no interleaving of sys_link, sys_unlink,
\* sys_rename and fs_create leaves a name to an inode that will be freed.
THEOREM NamesSafe ==
  ASSUME PlainPaths
  PROVE  Spec => []NamesCounted
<1>1. spoilt \/ Inv => NamesCounted
  <2> SUFFICES ASSUME Inv, NEW i \in Inums, NamesOf(i) # {}
               PROVE  fs.disk[i].type # "free" /\ fs.disk[i].nlink >= Cardinality(NamesOf(i))
    BY DEF NamesCounted
  <2>1. NamesOf(i) = NamesIn(fs, i)
    BY DEF NamesOf, NamesIn
  <2>2. fs.disk[i].nlink >= Cardinality(NamesIn(fs, i))
    BY CountCovers
  <2>3. Cardinality(NamesIn(fs, i)) \in Nat /\ Cardinality(NamesIn(fs, i)) # 0
    BY <2>1, CoversNat, FS_EmptySet
  <2>4. fs.disk[i].type = "free" => fs.disk[i].nlink = 0
    BY DEF Inv, Disk
  <2> QED BY <2>1, <2>2, <2>3, <2>4
<1> QED BY <1>1, Invariant, PTL

\* A process that has the lock of an inode and waits for another lock has the lock of a
\* directory, and waits for an inode that has a name in it.
LEMMA Waiter ==
  ASSUME Inv, NEW q \in Procs, NEW i \in Inums, fs.ic[i].lock = q, NEW x \in Procs, WaitsFor(q, x)
  PROVE  /\ proc[q].at = i /\ i \in DirsIn(Inums)
         /\ Wanted(q) \in Below(i) /\ Wanted(q) \in Inums /\ fs.ic[Wanted(q)].lock = x
<1> DEFINE r == proc[q]
<1>1. /\ r \in Locals /\ Shape(r) /\ Relies(r, fs) /\ i \in Locks(r)
  BY Hand DEF Inv, Uses
<1>2. /\ r.at # NoInode => r.at \in Inums
      /\ r.ip # NoInode => r.ip \in Inums
      /\ r.target # NoInode => r.target \in Inums
  BY Hand
<1>3. r.pc \in LockAt
  BY <1>1 DEF Locks, LockAt, LockIp, Making, Removing
<1>4. \/ Wanted(q) # NoInode /\ fs.ic[Wanted(q)].lock = x
      \/ r.pc = "lock" /\ rename_lock = x
  BY DEF WaitsFor, At
<1>5. /\ r.pc \in {"ialloc", "victim"} => Wanted(q) = r.ip
      /\ r.pc = "replace" => Wanted(q) = r.target
      /\ r.pc \in LockAt \ {"ialloc", "victim", "replace"} => Wanted(q) = NoInode
  BY DEF Wanted, LockAt, Making, Removing
<1> HIDE DEF r
<1>6. /\ Wanted(q) # NoInode /\ fs.ic[Wanted(q)].lock = x
      /\ r.pc \in {"ialloc", "victim", "replace"}
  BY <1>3, <1>4, <1>5 DEF LockAt, Making, Removing
<1>7. r.at = i
  BY <1>1, <1>6 DEF Locks, LockIp
<1>8. r.pc # "ialloc"
  <2>1. SUFFICES ASSUME r.pc = "ialloc" PROVE FALSE
    OBVIOUS
  <2>2. Wanted(q) = r.ip /\ r.ip \in Inums
    BY <1>2, <1>5, <1>6, <2>1
  <2>3. r.ip \in Locks(proc[x])
    BY <1>6, <2>2 DEF Inv, Uses
  <2>4. CASE x = q
    <3>1. r.at # r.ip
      BY <1>1, <2>1 DEF Relies, Making
    <3> QED BY <2>1, <2>3, <2>4, <3>1 DEF Locks, LockIp, r
  <2>5. CASE x # q
    <3>1. q \in Procs /\ x \in Others(q) /\ proc[q].pc \in Making
      BY <2>1, <2>5 DEF Others, Making, r
    <3>2. proc[x].at # r.ip /\ proc[x].ip # r.ip /\ (proc[x].target = r.ip => proc[x].pc = "cycle")
      BY <3>1, Unknown DEF r
    <3> QED BY <2>3, <3>2 DEF Locks
  <2> QED BY <2>4, <2>5
<1>9. fs.disk[i].type = "dir"
  BY <1>1, <1>3, <1>7 DEF Relies, Parents
<1>10. r.rest # <<>> /\ Head(r.rest) \in Elems /\ fs.dirs[i][Head(r.rest)] = Wanted(q)
  <2>1. r.rest # <<>>
    BY <1>1, <1>6, <1>8 DEF Shape
  <2>2. r.rest \in Seq(Elems)
    BY <1>1 DEF Locals
  <2>3. fs.dirs[i][Head(r.rest)] = Wanted(q)
    BY <1>1, <1>5, <1>6, <1>7, <1>8 DEF Relies
  <2> QED BY <2>1, <2>2, <2>3
<1>11. Wanted(q) \in Inums
  BY <1>2, <1>5, <1>6
<1> QED BY <1>6, <1>7, <1>9, <1>10, <1>11 DEF DirsIn, Below, r

\* Lock order: as long as no directory is below itself, the calls cannot wait for each
\* other in a circle.  sys_unlink and sys_rename lock what is in a directory while they
\* have the directory, and only then; fs_create locks an inode nobody knows; rename_lock
\* comes before all of them.
THEOREM NoCircularWait ==
  ASSUME PlainPaths
  PROVE  Spec => []NoDeadlock
<1>1. spoilt \/ Inv => NoDeadlock
  <2>1. SUFFICES ASSUME Inv, NoCycle, NEW S \in (SUBSET Procs) \ {{}},
                        \A p \in S : \E q \in S : WaitsFor(p, q)
                 PROVE  FALSE
    BY DEF NoDeadlock
  <2>2. S \subseteq Procs /\ S # {}
    OBVIOUS
  <2> DEFINE D == {i \in DirsIn(Inums) : fs.ic[i].lock \in S}
  <2>3. ASSUME NEW p \in S, Wanted(p) # NoInode, NEW q \in S, fs.ic[Wanted(p)].lock = q,
               Wanted(p) \in Inums
        PROVE  Wanted(p) \in D
    <3>1. PICK x \in S : WaitsFor(q, x)
      BY <2>1
    <3>2. q \in Procs /\ x \in Procs
      BY <2>2
    <3>3. Wanted(p) \in DirsIn(Inums)
      BY <2>1, <2>3, <3>1, <3>2, Waiter
    <3> QED BY <2>3, <3>3
  <2>4. \A p \in S : Wanted(p) # NoInode => Wanted(p) \in Inums
    <3>1. SUFFICES ASSUME NEW p \in S, Wanted(p) # NoInode PROVE Wanted(p) \in Inums
      OBVIOUS
    <3>2. /\ proc[p].at # NoInode => proc[p].at \in Inums
          /\ proc[p].ip # NoInode => proc[p].ip \in Inums
          /\ proc[p].target # NoInode => proc[p].target \in Inums
      BY <2>1, <2>2, Hand
    <3>3. Wanted(p) \in {proc[p].at, proc[p].ip, proc[p].target, NoInode}
      BY DEF Wanted
    <3> QED BY <3>1, <3>2, <3>3
  <2>5. D # {}
    <3>1. ASSUME NEW p \in S, NEW q \in S, Wanted(p) # NoInode, fs.ic[Wanted(p)].lock = q
          PROVE  D # {}
      BY <2>3, <2>4, <3>1
    <3>2. PICK p \in S : TRUE
      BY <2>2
    <3>3. PICK q \in S : WaitsFor(p, q)
      BY <2>1
    <3>4. CASE Wanted(p) # NoInode /\ fs.ic[Wanted(p)].lock = q
      BY <3>1, <3>4
    <3>5. CASE At(p, "lock") /\ rename_lock = q
      <4>1. q \in Procs /\ proc[q].pc # "lock"
        BY <2>1, <2>2, <3>5, LockNow
      <4>2. PICK x \in S : WaitsFor(q, x)
        BY <2>1
      <4>3. Wanted(q) # NoInode /\ fs.ic[Wanted(q)].lock = x
        BY <4>1, <4>2 DEF WaitsFor, At
      <4> QED BY <3>1, <4>3
    <3> QED BY <3>3, <3>4, <3>5 DEF WaitsFor
  <2>6. PICK d \in D : Below(d) \cap D = {}
    <3>1. D \in (SUBSET DirsIn(Inums)) \ {{}}
      BY <2>5
    <3> QED BY <2>1, <3>1 DEF NoCycle
  <2>7. d \in Inums /\ fs.ic[d].lock \in S
    BY DEF DirsIn
  <2>8. PICK q \in S : fs.ic[d].lock = q
    BY <2>7
  <2>9. PICK x \in S : WaitsFor(q, x)
    BY <2>1
  <2>10. q \in Procs /\ x \in Procs
    BY <2>2
  <2>11. Wanted(q) \in Below(d) /\ Wanted(q) \in Inums /\ fs.ic[Wanted(q)].lock = x
    BY <2>1, <2>7, <2>8, <2>9, <2>10, Waiter
  <2>12. Wanted(q) \in D
    BY <2>3, <2>11, Consts
  <2> QED BY <2>6, <2>11, <2>12
<1> QED BY <1>1, Invariant, PTL

-----------------------------------------------------------------------------
(* The tree of directories *)

\* Directory d has directory x in it.
Edge(f, d, x) ==
  /\ f.disk[d].type = "dir" /\ f.disk[x].type = "dir"
  /\ \E n \in Elems : f.dirs[d][n] = x

\* No directory is below itself.
Tree(f) == \A S \in (SUBSET Inums) \ {{}} : \E d \in S : \A x \in S : ~Edge(f, d, x)

\* The climb from at has come to c: A has at and, with each directory but c, all those that
\* the directory is in; the inode that moves is not in A, unless it is c.
Climbed(f, at, ip, c, A) ==
  /\ A \subseteq Inums /\ at \in A
  /\ ip \in A => ip = c
  /\ \A d, x \in Inums : Edge(f, d, x) /\ x \in A /\ x # c => d \in A

Arrived == {"target", "replace", "replaced", "relink"}

\* What the climb of a rename at r has found out so far.  It finds out nothing if the root
\* is to move, which it is at at once.
Climbs(r, f) ==
  /\ r.pc = "cycle" /\ r.target # NoInode => \E A \in SUBSET Inums : Climbed(f, r.at, r.ip, r.target, A)
  /\ r.pc \in Arrived /\ r.ip # ROOTINO /\ f.disk[r.ip].type = "dir" =>
       \E A \in SUBSET Inums : Climbed(f, r.at, r.ip, NoInode, A)
  /\ r.pc \in Making => f.dirs[r.ip] = Empty

\* The types of Fs, without the sign of a count, and a directory in the table is one on
\* the disk.
Entries == [ref : Int, valid : BOOLEAN, lock : Procs \cup {NoProc}, type : Types, nlink : Int]

Tidy(f) ==
  /\ f \in [disk : [Inums -> [type : Types, nlink : Int]], dirs : [Inums -> [Elems -> Ptrs]],
            up : [Inums -> Ptrs], ic : [Inums -> Entries]]
  /\ \A i \in Inums : f.ic[i].type = "dir" => f.disk[i].type = "dir"

TreeInv ==
  /\ Tidy(fs)
  /\ Tree(fs)
  /\ \A d \in Inums : ~Edge(fs, d, ROOTINO)
  /\ \A p \in Procs : Climbs(proc[p], fs)

\* From f to g no directory gets into another, no inode becomes a directory, and what was
\* empty stays so.
Shrinks(f, g) ==
  /\ Tidy(g)
  /\ \A d, x \in Inums : Edge(g, d, x) => Edge(f, d, x)
  /\ \A i \in Inums : g.disk[i].type = "dir" => f.disk[i].type = "dir"
  /\ \A i \in Inums : f.dirs[i] = Empty => g.dirs[i] = Empty

LEMMA ShrinksTrans ==
  ASSUME NEW f, NEW g, NEW h, Shrinks(f, g), Shrinks(g, h)
  PROVE  Shrinks(f, h)
BY DEF Shrinks

\* Entries are cleared at most.
LEMMA ClearedShrinks ==
  ASSUME NEW f, NEW g, Tidy(f), Tidy(g),
         \A i \in Inums : g.disk[i].type = "dir" => f.disk[i].type = "dir",
         \A i \in Inums, n \in Elems : g.dirs[i][n] \in {f.dirs[i][n], NoInode}
  PROVE  Shrinks(f, g)
<1>1. \A d, x \in Inums : Edge(g, d, x) => Edge(f, d, x)
  BY Consts DEF Edge
<1>2. ASSUME NEW i \in Inums, f.dirs[i] = Empty PROVE g.dirs[i] = Empty
  <2>1. g.dirs[i] \in [Elems -> Ptrs]
    BY DEF Tidy
  <2>2. \A n \in Elems : g.dirs[i][n] = NoInode
    BY <1>2 DEF Empty
  <2> QED BY <2>1, <2>2 DEF Empty
<1> QED BY <1>1, <1>2 DEF Shrinks

\* Only the inode table changes: it says of no inode but x what it did not say before.
LEMMA TableShrinks ==
  ASSUME NEW f, NEW c, Tidy(f), c \in [Inums -> Entries],
         \A i \in Inums : c[i].type = "dir" => f.disk[i].type = "dir"
  PROVE  Shrinks(f, [f EXCEPT !.ic = c])
<1> DEFINE g == [f EXCEPT !.ic = c]
<1>1. Tidy(g) /\ g.disk = f.disk /\ g.dirs = f.dirs
  BY DEF Tidy
<1> HIDE DEF g
<1>2. Shrinks(f, g)
  BY <1>1, ClearedShrinks
<1> QED BY <1>2 DEF g

LEMMA SlotEntry ==
  ASSUME NEW n \in Int
  PROVE  Slot(n) \in Entries /\ Slot(n).type = "free"
BY DEF Slot, Entries, Types

LEMMA IgetShrinks ==
  ASSUME NEW f, NEW i, Tidy(f)
  PROVE  Shrinks(f, Iget(f, i))
<1> DEFINE c == Iget(f, i).ic
<1>1. c \in [Inums -> Entries] /\ \A j \in Inums : c[j].type = "dir" => f.ic[j].type = "dir"
  <2>1. f.ic \in [Inums -> Entries]
    BY DEF Tidy
  <2>2. CASE f.ic[i].ref > 0
    <3>1. c = [f.ic EXCEPT ![i].ref = @ + 1]
      BY <2>2 DEF Iget, Tidy
    <3>2. ASSUME NEW j \in Inums PROVE c[j] \in Entries /\ c[j].type = f.ic[j].type
      <4>1. f.ic[j] \in Entries /\ f.ic[j].ref \in Int
        BY <2>1 DEF Entries
      <4>2. c[j] = IF j = i THEN [f.ic[j] EXCEPT !.ref = @ + 1] ELSE f.ic[j]
        BY <2>1, <3>1
      <4> QED BY <4>1, <4>2 DEF Entries
    <3>3. c = [j \in Inums |-> c[j]]
      BY <2>1, <3>1
    <3> QED BY <3>2, <3>3
  <2>3. CASE ~(f.ic[i].ref > 0)
    <3>1. c = [f.ic EXCEPT ![i] = Slot(1)]
      BY <2>3 DEF Iget, Tidy
    <3>2. Slot(1) \in Entries /\ Slot(1).type # "dir"
      BY SlotEntry
    <3> QED BY <2>1, <3>1, <3>2
  <2> QED BY <2>2, <2>3
<1>2. Iget(f, i) = [f EXCEPT !.ic = c]
  BY DEF Iget, Tidy
<1> HIDE DEF c
<1>3. \A j \in Inums : c[j].type = "dir" => f.disk[j].type = "dir"
  BY <1>1 DEF Tidy
<1> QED BY <1>1, <1>2, <1>3, TableShrinks

LEMMA IlockShrinks ==
  ASSUME NEW f, NEW p \in Procs, NEW i, Tidy(f)
  PROVE  Shrinks(f, Ilock(f, p, i))
<1> DEFINE c == Ilock(f, p, i).ic
<1>0. /\ f.ic \in [Inums -> Entries] /\ f.disk \in [Inums -> [type : Types, nlink : Int]]
      /\ \A j \in Inums : f.ic[j].type = "dir" => f.disk[j].type = "dir"
  BY DEF Tidy
<1>1. c = [f.ic EXCEPT ![i] = IF @.valid THEN [@ EXCEPT !.lock = p]
                              ELSE [@ EXCEPT !.lock = p, !.valid = TRUE,
                                             !.type = f.disk[i].type, !.nlink = f.disk[i].nlink]]
  BY DEF Ilock, Tidy
<1>2. Ilock(f, p, i) = [f EXCEPT !.ic = c]
  BY DEF Ilock, Tidy
<1> HIDE DEF c
<1>3. ASSUME NEW j \in Inums
      PROVE  c[j] \in Entries /\ (c[j].type = "dir" => f.disk[j].type = "dir")
  <2>1. f.ic[j] \in Entries /\ f.disk[j].type \in Types /\ f.disk[j].nlink \in Int
    BY <1>0
  <2>2. CASE j # i
    <3>1. c[j] = f.ic[j]
      BY <1>0, <1>1, <2>2
    <3> QED BY <1>0, <2>1, <3>1
  <2>3. CASE j = i /\ f.ic[j].valid
    <3>1. c[j] = [f.ic[j] EXCEPT !.lock = p]
      BY <1>0, <1>1, <2>3
    <3> QED BY <1>0, <2>1, <3>1 DEF Entries
  <2>4. CASE j = i /\ ~f.ic[j].valid
    <3>1. c[j] = [f.ic[j] EXCEPT !.lock = p, !.valid = TRUE,
                                 !.type = f.disk[j].type, !.nlink = f.disk[j].nlink]
      BY <1>0, <1>1, <2>4
    <3> QED BY <1>0, <2>1, <3>1 DEF Entries
  <2> QED BY <2>2, <2>3, <2>4
<1>4. c \in [Inums -> Entries]
  BY <1>0, <1>1, <1>3
<1> QED BY <1>2, <1>3, <1>4, TableShrinks

LEMMA IunlockShrinks ==
  ASSUME NEW f, NEW i, Tidy(f)
  PROVE  Shrinks(f, Iunlock(f, i))
<1> DEFINE c == Iunlock(f, i).ic
<1>0. /\ f.ic \in [Inums -> Entries]
      /\ \A j \in Inums : f.ic[j].type = "dir" => f.disk[j].type = "dir"
  BY DEF Tidy
<1>1. c = [f.ic EXCEPT ![i].lock = NoProc]
  BY DEF Iunlock, Tidy
<1>2. Iunlock(f, i) = [f EXCEPT !.ic = c]
  BY DEF Iunlock, Tidy
<1> HIDE DEF c
<1>3. c \in [Inums -> Entries] /\ \A j \in Inums : c[j].type = f.ic[j].type
  BY <1>0, <1>1 DEF Entries
<1> QED BY <1>0, <1>2, <1>3, TableShrinks

LEMMA PutIn ==
  ASSUME NEW D, NEW T, NEW k \in [D -> T], NEW i, NEW v \in T
  PROVE  [k EXCEPT ![i] = v] \in [D -> T]
OBVIOUS

LEMMA IputShrinks ==
  ASSUME NEW f, NEW i, Tidy(f)
  PROVE  Shrinks(f, Iput(f, i))
<1> DEFINE g == Iput(f, i)
<1>0. /\ f.ic \in [Inums -> Entries] /\ f.disk \in [Inums -> [type : Types, nlink : Int]]
      /\ f.dirs \in [Inums -> [Elems -> Ptrs]] /\ f.up \in [Inums -> Ptrs]
      /\ \A j \in Inums : f.ic[j].type = "dir" => f.disk[j].type = "dir"
  BY DEF Tidy
<1>1. CASE LastHolder(f, i)
  <2>1. g = [f EXCEPT !.disk[i] = Dinode("free", 0), !.dirs[i] = Empty, !.up[i] = NoInode,
                      !.ic[i] = Slot(0)]
    BY <1>1 DEF Iput
  <2>2. /\ g.disk = [f.disk EXCEPT ![i] = Dinode("free", 0)]
        /\ g.dirs = [f.dirs EXCEPT ![i] = Empty]
        /\ g.up = [f.up EXCEPT ![i] = NoInode]
        /\ g.ic = [f.ic EXCEPT ![i] = Slot(0)]
        /\ g = [disk |-> g.disk, dirs |-> g.dirs, up |-> g.up, ic |-> g.ic]
    BY <2>1 DEF Tidy
  <2> HIDE DEF g
  <2>3. Slot(0) \in Entries /\ Slot(0).type = "free"
    BY SlotEntry
  <2>4. Dinode("free", 0) \in [type : Types, nlink : Int] /\ Dinode("free", 0).type = "free"
    BY DEF Dinode, Types
  <2>5. Empty \in [Elems -> Ptrs] /\ \A n \in Elems : Empty[n] = NoInode
    BY DEF Empty, Ptrs
  <2>6. NoInode \in Ptrs
    BY DEF Ptrs
  <2>7. /\ g.disk \in [Inums -> [type : Types, nlink : Int]]
        /\ g.dirs \in [Inums -> [Elems -> Ptrs]] /\ g.up \in [Inums -> Ptrs]
        /\ g.ic \in [Inums -> Entries]
    <3>1. g.disk \in [Inums -> [type : Types, nlink : Int]]
      BY ONLY <1>0, <2>2, <2>4, PutIn
    <3>2. g.dirs \in [Inums -> [Elems -> Ptrs]]
      <4>1. f.dirs \in [Inums -> [Elems -> Ptrs]] /\ Empty \in [Elems -> Ptrs]
        BY <1>0, <2>5
      <4>2. [f.dirs EXCEPT ![i] = Empty] \in [Inums -> [Elems -> Ptrs]]
        BY ONLY <4>1, PutIn
      <4> QED BY ONLY <2>2, <4>2
    <3>3. g.up \in [Inums -> Ptrs]
      BY ONLY <1>0, <2>2, <2>6, PutIn
    <3>4. g.ic \in [Inums -> Entries]
      BY ONLY <1>0, <2>2, <2>3, PutIn
    <3> QED BY <3>1, <3>2, <3>3, <3>4
  <2>8. \A j \in Inums : /\ g.disk[j].type = "dir" => f.disk[j].type = "dir"
                         /\ g.ic[j].type = "dir" => g.disk[j].type = "dir"
    BY <1>0, <2>2, <2>3, <2>4
  <2>9. \A j \in Inums, n \in Elems : g.dirs[j][n] \in {f.dirs[j][n], NoInode}
    BY <1>0, <2>2, <2>5
  <2>10. Tidy(g)
    BY <2>2, <2>7, <2>8 DEF Tidy
  <2> QED BY <2>8, <2>9, <2>10, ClearedShrinks DEF g
<1>2. CASE ~LastHolder(f, i)
  <2>1. g = [f EXCEPT !.ic[i].ref = @ - 1]
    BY <1>2 DEF Iput
  <2> DEFINE c == [f.ic EXCEPT ![i].ref = @ - 1]
  <2>2. g = [f EXCEPT !.ic = c]
    BY <2>1 DEF Tidy
  <2>3. c \in [Inums -> Entries] /\ \A j \in Inums : c[j].type = f.ic[j].type
    <3>1. ASSUME NEW j \in Inums PROVE c[j] \in Entries /\ c[j].type = f.ic[j].type
      <4>1. f.ic[j] \in Entries /\ f.ic[j].ref \in Int
        BY <1>0 DEF Entries
      <4>2. c[j] = IF j = i THEN [f.ic[j] EXCEPT !.ref = @ - 1] ELSE f.ic[j]
        BY <1>0
      <4> QED BY <4>1, <4>2 DEF Entries
    <3>2. c = [j \in Inums |-> c[j]]
      BY <1>0
    <3> QED BY <3>1, <3>2
  <2> HIDE DEF c, g
  <2>4. Shrinks(f, g)
    BY <1>0, <2>2, <2>3, TableShrinks
  <2> QED BY <2>4 DEF g
<1> QED BY <1>1, <1>2

LEMMA IunlockputShrinks ==
  ASSUME NEW f, NEW i, Tidy(f)
  PROVE  Shrinks(f, Iunlockput(f, i))
<1>1. Shrinks(f, Iunlock(f, i))
  BY IunlockShrinks
<1>2. Tidy(Iunlock(f, i))
  BY <1>1 DEF Shrinks
<1>3. Shrinks(Iunlock(f, i), Iput(Iunlock(f, i), i))
  BY <1>2, IputShrinks
<1> QED BY <1>1, <1>3, ShrinksTrans DEF Iunlockput

\* An inode is written as the table has it, which is not a directory unless it was one.
LEMMA CountShrinks ==
  ASSUME NEW f, NEW i, NEW d \in Int, Tidy(f)
  PROVE  Shrinks(f, Count(f, i, d))
<1> DEFINE c == [f.ic EXCEPT ![i].nlink = @ + d]
           k == [f.disk EXCEPT ![i] = Dinode(c[i].type, c[i].nlink)]
           g == Count(f, i, d)
<1>0. /\ f.ic \in [Inums -> Entries] /\ f.disk \in [Inums -> [type : Types, nlink : Int]]
      /\ f.dirs \in [Inums -> [Elems -> Ptrs]] /\ f.up \in [Inums -> Ptrs]
      /\ \A j \in Inums : f.ic[j].type = "dir" => f.disk[j].type = "dir"
  BY DEF Tidy
<1>1. g = [disk |-> k, dirs |-> f.dirs, up |-> f.up, ic |-> c]
  <2> DEFINE h == [f EXCEPT !.ic[i].nlink = @ + d]
  <2>0. h = [f EXCEPT !.ic = c]
    BY DEF Tidy
  <2>2. g = [h EXCEPT !.disk[i] = Dinode(h.ic[i].type, h.ic[i].nlink)]
    BY DEF Count, Iupdate
  <2> HIDE DEF h, c, g
  <2>1. h = [disk |-> f.disk, dirs |-> f.dirs, up |-> f.up, ic |-> c]
    BY <2>0 DEF Tidy
  <2>3. h.ic = c /\ h.disk = f.disk /\ h.dirs = f.dirs /\ h.up = f.up
    BY <2>1
  <2> QED BY <2>1, <2>2, <2>3
<1>2. c \in [Inums -> Entries] /\ \A j \in Inums : c[j].type = f.ic[j].type
  <2>1. ASSUME NEW j \in Inums PROVE c[j] \in Entries /\ c[j].type = f.ic[j].type
    <3>1. f.ic[j] \in Entries /\ f.ic[j].nlink \in Int
      BY <1>0 DEF Entries
    <3>2. c[j] = IF j = i THEN [f.ic[j] EXCEPT !.nlink = @ + d] ELSE f.ic[j]
      BY <1>0
    <3> QED BY <3>1, <3>2 DEF Entries
  <2>2. c = [j \in Inums |-> c[j]]
    BY <1>0
  <2> QED BY <2>1, <2>2
<1> HIDE DEF c
<1>3. ASSUME NEW j \in Inums
      PROVE  /\ k[j] \in [type : Types, nlink : Int]
             /\ k[j].type = "dir" => f.disk[j].type = "dir"
             /\ c[j].type = "dir" => k[j].type = "dir"
  <2>1. CASE j = i
    <3>1. k[j] = [type |-> c[j].type, nlink |-> c[j].nlink]
      BY <1>0, <2>1 DEF Dinode
    <3> QED BY <1>0, <1>2, <3>1 DEF Entries
  <2>2. CASE j # i
    <3>1. k[j] = f.disk[j]
      BY <1>0, <2>2
    <3> QED BY <1>0, <1>2, <3>1
  <2> QED BY <2>1, <2>2
<1>4. k \in [Inums -> [type : Types, nlink : Int]]
  BY <1>0, <1>3
<1> HIDE DEF k, g
<1>5. Tidy(g) /\ g.disk = k /\ g.dirs = f.dirs
  BY <1>0, <1>1, <1>2, <1>3, <1>4 DEF Tidy
<1>6. Shrinks(f, g)
  BY <1>3, <1>5, ClearedShrinks
<1> QED BY <1>6 DEF g

\* What an entry becomes.
LEMMA EntryTidy ==
  ASSUME NEW f, NEW d, NEW n, NEW x \in Ptrs, Tidy(f)
  PROVE  LET g == Entry(f, d, n, x) IN
         /\ Tidy(g) /\ g.disk = f.disk
         /\ \A j \in Inums, m \in Elems : g.dirs[j][m] = IF j = d /\ m = n THEN x ELSE f.dirs[j][m]
         /\ \A j \in Inums : j # d => g.dirs[j] = f.dirs[j]
<1> DEFINE g == Entry(f, d, n, x)
           e == [f.dirs EXCEPT ![d][n] = x]
<1>0. f.dirs \in [Inums -> [Elems -> Ptrs]]
  BY DEF Tidy
<1>1. g = [f EXCEPT !.dirs = e]
  BY DEF Entry, Tidy
<1>2. e \in [Inums -> [Elems -> Ptrs]]
  BY <1>0
<1>3. /\ \A j \in Inums, m \in Elems : e[j][m] = IF j = d /\ m = n THEN x ELSE f.dirs[j][m]
      /\ \A j \in Inums : j # d => e[j] = f.dirs[j]
  BY <1>0
<1> HIDE DEF g, e
<1>4. Tidy(g) /\ g.disk = f.disk /\ g.dirs = e
  BY <1>1, <1>2 DEF Tidy
<1> QED BY <1>3, <1>4 DEF g

LEMMA ClearShrinks ==
  ASSUME NEW f, NEW d, NEW n, Tidy(f)
  PROVE  Shrinks(f, Entry(f, d, n, NoInode))
<1>1. NoInode \in Ptrs
  BY DEF Ptrs
<1> DEFINE g == Entry(f, d, n, NoInode)
<1>2. /\ Tidy(g) /\ g.disk = f.disk
      /\ \A j \in Inums, m \in Elems : g.dirs[j][m] = IF j = d /\ m = n THEN NoInode ELSE f.dirs[j][m]
  BY <1>1, EntryTidy
<1> HIDE DEF g
<1>3. Shrinks(f, g)
  BY <1>2, ClearedShrinks
<1> QED BY <1>3 DEF g

\* A .. entry is not looked at.
LEMMA UpShrinks ==
  ASSUME NEW f, NEW i, NEW x \in Ptrs, Tidy(f)
  PROVE  Shrinks(f, [f EXCEPT !.up[i] = x])
<1> DEFINE g == [f EXCEPT !.up[i] = x]
           u == [f.up EXCEPT ![i] = x]
<1>0. f.up \in [Inums -> Ptrs]
  BY DEF Tidy
<1>1. g = [f EXCEPT !.up = u]
  BY DEF Tidy
<1>2. u \in [Inums -> Ptrs]
  BY <1>0
<1> HIDE DEF g, u
<1>3. Tidy(g) /\ g.disk = f.disk /\ g.dirs = f.dirs
  BY <1>1, <1>2 DEF Tidy
<1>4. Shrinks(f, g)
  BY <1>3, ClearedShrinks
<1> QED BY <1>4 DEF g

\* The operations of fs.c, one after the other.
LEMMA Ops ==
  ASSUME NEW f, NEW g, Shrinks(f, g)
  PROVE  /\ Tidy(g)
         /\ \A i : /\ Shrinks(f, Iget(g, i)) /\ Shrinks(f, Iunlock(g, i))
                   /\ Shrinks(f, Iput(g, i)) /\ Shrinks(f, Iunlockput(g, i))
         /\ \A i : \A p \in Procs : Shrinks(f, Ilock(g, p, i))
         /\ \A i : \A d \in Int : Shrinks(f, Count(g, i, d))
         /\ \A i, n : Shrinks(f, Entry(g, i, n, NoInode))
<1>1. Tidy(g)
  BY DEF Shrinks
<1>2. ASSUME NEW h, Shrinks(g, h) PROVE Shrinks(f, h)
  BY <1>2, ShrinksTrans
<1>3. ASSUME NEW i
      PROVE  /\ Shrinks(f, Iget(g, i)) /\ Shrinks(f, Iunlock(g, i))
             /\ Shrinks(f, Iput(g, i)) /\ Shrinks(f, Iunlockput(g, i))
  BY ONLY <1>1, <1>2, IgetShrinks, IunlockShrinks, IputShrinks, IunlockputShrinks
<1>4. ASSUME NEW i, NEW p \in Procs PROVE Shrinks(f, Ilock(g, p, i))
  BY ONLY <1>1, <1>2, p \in Procs, IlockShrinks
<1>5. ASSUME NEW i, NEW d \in Int PROVE Shrinks(f, Count(g, i, d))
  BY ONLY <1>1, <1>2, d \in Int, CountShrinks
<1>6. ASSUME NEW i, NEW n PROVE Shrinks(f, Entry(g, i, n, NoInode))
  BY ONLY <1>1, <1>2, ClearShrinks
<1> QED BY ONLY <1>1, <1>3, <1>4, <1>5, <1>6

\* The process at s has nothing to say about the climb.
Quiet(s) ==
  /\ s.pc \notin Arrived \cup Making
  /\ s.pc = "cycle" => s.target = NoInode

Settles(p) == Shrinks(fs, fs') /\ \E s : Quiet(s) /\ proc' = [proc EXCEPT ![p] = s]

LEMMA GoSettles ==
  ASSUME NEW p, NEW f, NEW s, Go(p, f, s), Shrinks(fs, f), Quiet(s)
  PROVE  Settles(p)
BY DEF Settles, Go

LEMMA ReturnSettles ==
  ASSUME NEW p, NEW f, Return(p, f), Shrinks(fs, f)
  PROVE  Settles(p)
<1>1. Quiet(Idle)
  BY DEF Quiet, Idle, Arrived, Making, Stage
<1> QED BY <1>1 DEF Settles, Return

LEMMA NotFoundSettles ==
  ASSUME NEW p, NEW f, NEW r \in Locals, Shrinks(fs, f), NotFound(p, f, r)
  PROVE  Settles(p)
<1>1. CASE r.call = "creat" /\ Go(p, Iget(f, ROOTINO), Start(r, r.old, TRUE, "create"))
  <2> DEFINE t == Start(r, r.old, TRUE, "create")
  <2>1. t.pc \in {"walk", "create"}
    BY DEF Start, Locals
  <2> HIDE DEF t
  <2>2. Quiet(t)
    BY <2>1 DEF Quiet, Arrived, Making
  <2>3. Shrinks(fs, Iget(f, ROOTINO))
    BY Ops
  <2> QED BY <1>1, <2>2, <2>3, GoSettles DEF t
<1>2. CASE Go(p, f, [r EXCEPT !.pc = "unref"])
  <2>1. Quiet([r EXCEPT !.pc = "unref"])
    BY DEF Quiet, Arrived, Making, Locals
  <2> QED BY <1>2, <2>1, GoSettles
<1>3. CASE Return(p, Iput(f, r.ip)) \/ Return(p, f)
  <2>1. Shrinks(fs, Iput(f, r.ip))
    BY Ops
  <2> QED BY <1>3, <2>1, ReturnSettles
<1> QED BY <1>1, <1>2, <1>3 DEF NotFound

\* The beginning of a walk.
LEMMA WalkSettles ==
  ASSUME NEW p, NEW f, NEW s \in Locals, NEW path, NEW then \in Walks,
         \/ Namei(p, f, s, path, then) /\ then # "cycle"
         \/ NameiParent(p, f, s, path, then),
         Shrinks(fs, f)
  PROVE  Settles(p)
<1>1. CASE NotFound(p, f, [s EXCEPT !.at = NoInode, !.then = then])
  <2>1. [s EXCEPT !.at = NoInode, !.then = then] \in Locals
    BY DEF Locals, Ptrs, Walks
  <2> QED BY <1>1, <2>1, NotFoundSettles
<1>2. CASE /\ path # <<>> \/ then # "cycle"
           /\ \E t : /\ t = Start(s, path, FALSE, then) \/ t = Start(s, path, TRUE, then)
                     /\ Go(p, Iget(f, ROOTINO), t)
  <2>1. PICK t : /\ t = Start(s, path, FALSE, then) \/ t = Start(s, path, TRUE, then)
                 /\ Go(p, Iget(f, ROOTINO), t)
    BY <1>2
  <2>2. t.pc \in {"walk", then} /\ (t.pc = then => path = <<>> \/ then = "walk")
    BY <2>1 DEF Start, Locals
  <2>3. Quiet(t)
    BY <1>2, <2>2 DEF Quiet, Arrived, Making, Walks
  <2>4. Shrinks(fs, Iget(f, ROOTINO))
    BY Ops
  <2> QED BY <2>1, <2>3, <2>4, GoSettles
<1> QED BY <1>1, <1>2 DEF Namei, NameiParent

LEMMA Mine ==
  ASSUME Inv, TreeInv, NEW p \in Procs
  PROVE  LET r == proc[p] IN
         /\ r \in Locals /\ Shape(r) /\ Climbs(r, fs)
         /\ Tidy(fs) /\ Shrinks(fs, fs)
<1>1. Shrinks(fs, fs) /\ Tidy(fs)
  BY DEF TreeInv, Shrinks
<1>2. Climbs(proc[p], fs)
  BY DEF TreeInv
<1> QED BY <1>1, <1>2, Hand

LEMMA WalkTree ==
  ASSUME Inv, TreeInv, NEW p \in Procs, Walk(p)
  PROVE  Settles(p)
<1> DEFINE r == proc[p]
           f == Ilock(fs, p, r.at)
           next == Find(f, r.at, Head(r.rest))
           nowhere == [r EXCEPT !.at = NoInode]
<1>1. r \in Locals /\ Shape(r)
  BY Mine
<1>2. Shrinks(fs, f) /\ Tidy(f)
  BY Mine, Ops
<1>3. r.pc = "walk" /\ r.target = NoInode
  BY <1>1 DEF Walk, At, Shape
<1>4. r.then \in Walks
  BY <1>1, <1>3 DEF Shape
<1>5. nowhere \in Locals
  BY <1>1 DEF Locals, Ptrs
<1> HIDE DEF r, f, next, nowhere
<1>6. Shrinks(fs, Iunlockput(f, r.at)) /\ Shrinks(fs, Iunlock(f, r.at))
  BY <1>2, Ops
<1>7. CASE NotFound(p, Iunlockput(f, r.at), nowhere)
  BY <1>5, <1>6, <1>7, NotFoundSettles
<1>8. CASE Go(p, Iunlock(f, r.at), [r EXCEPT !.pc = r.then])
  <2>1. Quiet([r EXCEPT !.pc = r.then])
    BY <1>1, <1>3, <1>4 DEF Quiet, Arrived, Making, Walks, Locals
  <2> QED BY <1>6, <1>8, <2>1, GoSettles
<1>9. CASE Go(p, Iunlockput(Iget(f, next), r.at),
                    [r EXCEPT !.at = next, !.rest = Tail(@),
                              !.pc = IF Len(r.rest) = 1 THEN r.then ELSE "walk"])
  <2> DEFINE s == [r EXCEPT !.at = next, !.rest = Tail(@),
                            !.pc = IF Len(r.rest) = 1 THEN r.then ELSE "walk"]
  <2>1. /\ s.pc = (IF Len(r.rest) = 1 THEN r.then ELSE "walk") /\ s.at = next
        /\ s.target = r.target /\ s.then = r.then /\ s.ip = r.ip
    BY <1>1 DEF Locals
  <2>2. s.pc \in Walks \cup {"walk"}
    BY <1>4, <2>1
  <2> HIDE DEF s
  <2>3. Quiet(s)
    BY <1>3, <2>1, <2>2 DEF Quiet, Arrived, Making, Walks
  <2>4. Shrinks(fs, Iget(f, next))
    BY <1>2, Ops
  <2>5. Shrinks(fs, Iunlockput(Iget(f, next), r.at))
    BY <2>4, Ops
  <2> QED BY <1>9, <2>3, <2>5, GoSettles DEF s
<1> QED BY <1>7, <1>8, <1>9 DEF Walk, r, f, next, nowhere

LEMMA OpenTree ==
  ASSUME Inv, TreeInv, NEW p \in Procs, Found(p) \/ Close(p) \/ Exists(p)
  PROVE  Settles(p)
<1> DEFINE r == proc[p]
           f == Ilock(fs, p, r.at)
<1>1. r \in Locals /\ Shrinks(fs, fs)
  BY Mine
<1>2. Shrinks(fs, f)
  BY <1>1, Ops
<1>3. Quiet([r EXCEPT !.pc = "open"])
  BY <1>1 DEF Quiet, Arrived, Making, Locals, Stage
<1> HIDE DEF f, r
<1>4. Shrinks(fs, Iunlock(f, r.at)) /\ Shrinks(fs, Iunlockput(f, r.at)) /\ Shrinks(fs, Iput(fs, r.at))
  BY <1>1, <1>2, Ops
<1>5. CASE Go(p, Iunlock(f, r.at), [r EXCEPT !.pc = "open"])
  BY <1>3, <1>4, <1>5, GoSettles
<1>6. CASE Return(p, Iput(fs, r.at)) \/ Return(p, Iunlockput(f, r.at))
  BY <1>4, <1>6, ReturnSettles
<1> QED BY <1>5, <1>6 DEF Found, Close, Exists, r, f

LEMMA UnlinkTree ==
  ASSUME Inv, TreeInv, NEW p \in Procs,
         Unlink(p) \/ Victim(p) \/ Clear(p) \/ UncountParent(p) \/ Drop(p)
  PROVE  Settles(p)
<1> DEFINE r == proc[p]
<1>1. r \in Locals /\ Shrinks(fs, fs)
  BY Mine
<1> HIDE DEF r
<1>2. ASSUME NEW s, NEW pc \in Removing, s = [r EXCEPT !.pc = pc] \/ \E ip : s = [r EXCEPT !.pc = pc, !.ip = ip]
      PROVE  Quiet(s)
  BY <1>1, <1>2 DEF Quiet, Arrived, Making, Removing, Locals, Stage
<1>3. CASE Unlink(p)
  <2> DEFINE f == Ilock(fs, p, r.at)
             ip == Find(f, r.at, Head(r.rest))
  <2>1. Shrinks(fs, f)
    BY <1>1, Ops
  <2> HIDE DEF f, ip
  <2>2. Shrinks(fs, Iunlockput(f, r.at)) /\ Shrinks(fs, Iget(f, ip))
    BY <2>1, Ops
  <2>3. Quiet([r EXCEPT !.pc = "victim", !.ip = ip])
    BY <1>2 DEF Removing
  <2>4. \/ Return(p, Iunlockput(f, r.at))
        \/ Go(p, Iget(f, ip), [r EXCEPT !.pc = "victim", !.ip = ip])
    BY <1>3 DEF Unlink, f, ip, r
  <2> QED BY <2>2, <2>3, <2>4, GoSettles, ReturnSettles
<1>4. CASE Victim(p)
  <2> DEFINE f == Ilock(fs, p, r.ip)
  <2>1. Shrinks(fs, f)
    BY <1>1, Ops
  <2> HIDE DEF f
  <2>2. Shrinks(fs, Iunlockput(f, r.ip))
    BY <2>1, Ops
  <2>3. Shrinks(fs, Iunlockput(Iunlockput(f, r.ip), r.at))
    BY <2>2, Ops
  <2>4. Quiet([r EXCEPT !.pc = "clear"])
    BY <1>2 DEF Removing
  <2>5. \/ Return(p, Iunlockput(Iunlockput(f, r.ip), r.at))
        \/ Go(p, f, [r EXCEPT !.pc = "clear"])
    BY <1>4 DEF Victim, f, r
  <2> QED BY <2>1, <2>3, <2>4, <2>5, GoSettles, ReturnSettles
<1>5. CASE Clear(p)
  <2>1. Shrinks(fs, Iunlockput(fs, r.ip)) /\ Shrinks(fs, Entry(fs, r.at, Head(r.rest), NoInode))
    BY <1>1, Ops
  <2>2. Shrinks(fs, Iunlockput(Iunlockput(fs, r.ip), r.at))
    BY <2>1, Ops
  <2>3. Quiet([r EXCEPT !.pc = "uncount"]) /\ Quiet([r EXCEPT !.pc = "drop"])
    BY <1>2 DEF Removing
  <2>4. \/ Return(p, Iunlockput(Iunlockput(fs, r.ip), r.at))
        \/ Go(p, Entry(fs, r.at, Head(r.rest), NoInode), [r EXCEPT !.pc = "uncount"])
        \/ Go(p, Entry(fs, r.at, Head(r.rest), NoInode), [r EXCEPT !.pc = "drop"])
    BY <1>5 DEF Clear, r
  <2> QED BY <2>1, <2>2, <2>3, <2>4, GoSettles, ReturnSettles
<1>6. CASE UncountParent(p)
  <2>1. Shrinks(fs, Count(fs, r.at, -1))
    BY <1>1, Ops
  <2>2. Quiet([r EXCEPT !.pc = "drop"])
    BY <1>2 DEF Removing
  <2> QED BY <1>6, <2>1, <2>2, GoSettles DEF UncountParent, r
<1>7. CASE Drop(p)
  <2>1. Shrinks(fs, Iunlockput(fs, r.at))
    BY <1>1, Ops
  <2>2. Shrinks(fs, Count(Iunlockput(fs, r.at), r.ip, -1))
    BY <2>1, Ops
  <2>3. Shrinks(fs, Iunlockput(Count(Iunlockput(fs, r.at), r.ip, -1), r.ip))
    BY <2>2, Ops
  <2> QED BY <1>7, <2>3, ReturnSettles DEF Drop, r
<1> QED BY <1>3, <1>4, <1>5, <1>6, <1>7

LEMMA SourceTree ==
  ASSUME Inv, TreeInv, NEW p \in Procs, Source(p) \/ Unref(p) \/ RenameLock(p)
  PROVE  Settles(p)
<1> DEFINE r == proc[p]
<1>1. /\ r \in Locals /\ Shape(r)
      /\ Climbs(r, fs) /\ Shrinks(fs, fs)
  BY Mine
<1>2. CASE Source(p)
  <2> DEFINE f == Ilock(fs, p, r.at)
             s == [r EXCEPT !.ip = r.at]
  <2>1. Shrinks(fs, f)
    BY <1>1, Ops
  <2>3. s \in Locals /\ "dirlink" \in Walks /\ "cycle" \in Walks
    BY <1>1 DEF Locals, Walks
  <2>4. ExtraLink \in Int
    BY DEF ExtraLink
  <2>5. \/ Return(p, Iunlockput(f, r.at))
        \/ NameiParent(p, Iunlock(Count(f, r.at, ExtraLink), r.at), s, r.new,
                       IF r.call = "link" THEN "dirlink" ELSE "cycle")
    BY <1>2 DEF Source, ReleaseSource
  <2> HIDE DEF f, s, r
  <2>6. Shrinks(fs, Iunlockput(f, r.at)) /\ Shrinks(fs, Count(f, r.at, ExtraLink))
    BY <2>1, <2>4, Ops
  <2>7. Shrinks(fs, Iunlock(Count(f, r.at, ExtraLink), r.at))
    BY <2>6, Ops
  <2>8. CASE Return(p, Iunlockput(f, r.at))
    BY <2>6, <2>8, ReturnSettles
  <2>9. CASE NameiParent(p, Iunlock(Count(f, r.at, ExtraLink), r.at), s, r.new,
                         IF r.call = "link" THEN "dirlink" ELSE "cycle")
    BY <2>3, <2>7, <2>9, WalkSettles
  <2> QED BY <2>5, <2>8, <2>9
<1>3. CASE Unref(p)
  <2>0. -ExtraLink \in Int
    BY DEF ExtraLink
  <2>1. Shrinks(fs, Ilock(fs, p, r.ip))
    BY <1>1, Ops
  <2>2. Shrinks(fs, Count(Ilock(fs, p, r.ip), r.ip, -ExtraLink))
    BY <2>0, <2>1, Ops
  <2>3. Shrinks(fs, Iunlockput(Count(Ilock(fs, p, r.ip), r.ip, -ExtraLink), r.ip))
    BY <2>2, Ops
  <2> QED BY <1>3, <2>3, ReturnSettles DEF Unref
<1>4. CASE RenameLock(p)
  <2> DEFINE s == Start(r, r.old, FALSE, "source")
  <2>1. s.pc \in {"walk", "source"}
    BY <1>1 DEF Start, Locals
  <2>2. fs' = Iget(fs, ROOTINO) /\ proc' = [proc EXCEPT ![p] = s]
    BY <1>4 DEF RenameLock
  <2> HIDE DEF s
  <2>3. Quiet(s)
    BY <2>1 DEF Quiet, Arrived, Making, Stage
  <2>4. Shrinks(fs, Iget(fs, ROOTINO))
    BY <1>1, Ops
  <2> QED BY <2>2, <2>3, <2>4 DEF Settles
<1> QED BY <1>2, <1>3, <1>4

\* The end of rename, from the new name on.
LEMMA OldTree ==
  ASSUME Inv, TreeInv, NEW p \in Procs, Recount(p) \/ Old(p) \/ OldDir(p) \/ DotDot(p)
  PROVE  Settles(p)
<1> DEFINE r == proc[p]
<1>1. r \in Locals /\ Shape(r) /\ Shrinks(fs, fs)
  BY Mine
<1>2. ASSUME NEW s, NEW pc \in {"olddir", "dotdot", "unref"},
             s = [r EXCEPT !.pc = pc] \/ s = [r EXCEPT !.pc = pc, !.at = NoInode]
      PROVE  Quiet(s)
  BY <1>1, <1>2 DEF Quiet, Arrived, Making, Locals, Stage
<1>3. CASE Recount(p)
  <2>1. Shrinks(fs, Count(fs, r.at, 1))
    BY <1>1, Ops
  <2>2. Shrinks(fs, Iunlockput(Count(fs, r.at, 1), r.at))
    BY <2>1, Ops
  <2>3. NameiParent(p, Iunlockput(Count(fs, r.at, 1), r.at), r, r.old, "old") /\ "old" \in Walks
    BY <1>3 DEF Recount, Walks
  <2> QED BY <1>1, <2>2, <2>3, WalkSettles
<1>4. CASE Old(p)
  <2> DEFINE f == Ilock(fs, p, r.at)
             g == Entry(f, r.at, Head(r.rest), NoInode)
  <2>1. Shrinks(fs, f)
    BY <1>1, Ops
  <2>2. \/ Return(p, Iput(Iunlockput(f, r.at), r.ip))
        \/ Go(p, g, [r EXCEPT !.pc = "olddir"])
        \/ Go(p, Iunlockput(g, r.at), [r EXCEPT !.pc = "unref", !.at = NoInode])
    BY <1>4 DEF Old
  <2> HIDE DEF r, f
  <2>3. Shrinks(fs, g) /\ Shrinks(fs, Iunlockput(f, r.at))
    BY <2>1, Ops
  <2> HIDE DEF g
  <2>4. Shrinks(fs, Iput(Iunlockput(f, r.at), r.ip)) /\ Shrinks(fs, Iunlockput(g, r.at))
    BY <2>3, Ops
  <2>5. Quiet([r EXCEPT !.pc = "olddir"]) /\ Quiet([r EXCEPT !.pc = "unref", !.at = NoInode])
    BY <1>2
  <2> QED BY <2>2, <2>3, <2>4, <2>5, GoSettles, ReturnSettles
<1>5. CASE OldDir(p)
  <2>1. Shrinks(fs, Count(fs, r.at, -1))
    BY <1>1, Ops
  <2>2. Shrinks(fs, Iunlockput(Count(fs, r.at, -1), r.at))
    BY <2>1, Ops
  <2>3. Quiet([r EXCEPT !.pc = "dotdot", !.at = NoInode])
    BY <1>2
  <2>4. Go(p, Iunlockput(Count(fs, r.at, -1), r.at), [r EXCEPT !.pc = "dotdot", !.at = NoInode])
    BY <1>5 DEF OldDir
  <2> QED BY <2>2, <2>3, <2>4, GoSettles
<1>6. CASE DotDot(p)
  <2> DEFINE f == Iunlock(Ilock(fs, p, r.ip), r.ip)
             g == [f EXCEPT !.up[r.ip] = r.newdir]
  <2>1. Shrinks(fs, Ilock(fs, p, r.ip))
    BY <1>1, Ops
  <2>2. Shrinks(fs, f) /\ Tidy(f)
    BY <2>1, Ops
  <2>3. Quiet([r EXCEPT !.pc = "unref"])
    BY <1>2
  <2>4. Go(p, g, [r EXCEPT !.pc = "unref"]) \/ Go(p, f, [r EXCEPT !.pc = "unref"])
    BY <1>6 DEF DotDot
  <2>5. r.newdir \in Ptrs
    BY <1>1 DEF Locals
  <2> HIDE DEF f, r
  <2>6. Shrinks(f, g)
    BY <2>2, <2>5, UpShrinks
  <2>7. Shrinks(fs, g)
    BY <2>2, <2>6, ShrinksTrans
  <2> HIDE DEF g
  <2> QED BY <2>2, <2>3, <2>4, <2>7, GoSettles
<1> QED BY <1>3, <1>4, <1>5, <1>6

\* A call begins.
LEMMA BeginTree ==
  ASSUME PlainPaths, Inv, TreeInv, NEW p \in Procs, NEW a \in Requests, Begin(p, a)
  PROVE  Settles(p)
<1> DEFINE old == a.old
           r == Called(a.call, old, a.new)
<1>1. Shrinks(fs, fs)
  BY Mine
<1>2. r \in Locals
  BY Arguments
<1>3. \/ Namei(p, fs, r, old, "found") \/ Namei(p, fs, r, old, "source")
      \/ NameiParent(p, fs, r, old, "create") \/ NameiParent(p, fs, r, old, "unlink")
      \/ Go(p, fs, [r EXCEPT !.pc = "lock"])
  BY DEF Begin, Called
<1> HIDE DEF r, old
<1>4. ASSUME NEW then \in {"found", "source", "create", "unlink"},
             Namei(p, fs, r, old, then) \/ NameiParent(p, fs, r, old, then)
      PROVE  Settles(p)
  <2>1. then \in Walks /\ then # "cycle"
    BY DEF Walks
  <2> QED BY <1>1, <1>2, <1>4, <2>1, WalkSettles
<1>5. CASE Go(p, fs, [r EXCEPT !.pc = "lock"])
  <2>1. Quiet([r EXCEPT !.pc = "lock"])
    BY <1>2 DEF Quiet, Arrived, Making, Locals, Stage
  <2> QED BY <1>1, <1>5, <2>1, GoSettles
<1> QED BY <1>3, <1>4, <1>5

\* fs_create gives up.
LEMMA UndoTree ==
  ASSUME Inv, TreeInv, NEW p \in Procs, UndoCreate(p)
  PROVE  Settles(p)
<1> DEFINE r == proc[p]
           f == IF r.call = "mkdir" THEN Count(fs, r.at, -1) ELSE fs
<1>1. Shrinks(fs, fs)
  BY Mine
<1>2. Shrinks(fs, f)
  <2>1. Shrinks(fs, Count(fs, r.at, -1))
    BY <1>1, Ops
  <2> QED BY <1>1, <2>1
<1>3. Return(p, Iunlockput(Iunlockput(Count(f, r.ip, -1), r.ip), r.at))
  BY DEF UndoCreate
<1> HIDE DEF f, r
<1>4. Shrinks(fs, Count(f, r.ip, -1))
  BY <1>2, Ops
<1>5. Shrinks(fs, Iunlockput(Count(f, r.ip, -1), r.ip))
  BY <1>4, Ops
<1>6. Shrinks(fs, Iunlockput(Iunlockput(Count(f, r.ip, -1), r.ip), r.at))
  BY <1>5, Ops
<1> QED BY <1>3, <1>6, ReturnSettles

\* In the middle of a step of p: the tree, and what the others know of it.
Standing(p, f) ==
  /\ Tidy(f) /\ Tree(f)
  /\ \A d \in Inums : ~Edge(f, d, ROOTINO)
  /\ \A q \in Others(p) : Climbs(proc[q], f)

\* A climb is as good after a directory has left another.
LEMMA ClimbedShrinks ==
  ASSUME NEW f, NEW g, NEW at, NEW ip, NEW c, NEW A, Shrinks(f, g), Climbed(f, at, ip, c, A)
  PROVE  Climbed(g, at, ip, c, A)
BY DEF Climbed, Shrinks

LEMMA ClimbsShrinks ==
  ASSUME NEW f, NEW g, NEW r \in Locals, Shape(r), Shrinks(f, g), Climbs(r, f)
  PROVE  Climbs(r, g)
<1>1. ASSUME r.pc = "cycle", r.target # NoInode
      PROVE  \E A \in SUBSET Inums : Climbed(g, r.at, r.ip, r.target, A)
  BY <1>1, ClimbedShrinks DEF Climbs
<1>2. r.pc \in Arrived \cup Making => r.ip \in Inums
  BY DEF Shape, Stage, Arrived, Making, Locals, Ptrs
<1>3. ASSUME r.pc \in Arrived, r.ip # ROOTINO, g.disk[r.ip].type = "dir"
      PROVE  \E A \in SUBSET Inums : Climbed(g, r.at, r.ip, NoInode, A)
  <2>1. f.disk[r.ip].type = "dir"
    BY <1>2, <1>3 DEF Shrinks
  <2>2. PICK A \in SUBSET Inums : Climbed(f, r.at, r.ip, NoInode, A)
    BY <1>3, <2>1 DEF Climbs
  <2> QED BY <2>2, ClimbedShrinks
<1>4. r.pc \in Making => g.dirs[r.ip] = Empty
  BY <1>2 DEF Climbs, Shrinks
<1> QED BY <1>1, <1>3, <1>4 DEF Climbs

LEMMA StandingNow ==
  ASSUME TreeInv, NEW p \in Procs
  PROVE  Standing(p, fs)
BY DEF TreeInv, Standing, Others

LEMMA StandingShrinks ==
  ASSUME Inv, NEW p \in Procs, NEW f, NEW g, Standing(p, f), Shrinks(f, g)
  PROVE  Standing(p, g)
<1>1. Tidy(g) /\ \A d, x \in Inums : Edge(g, d, x) => Edge(f, d, x)
  BY DEF Shrinks
<1>2. Tree(g)
  <2>1. SUFFICES ASSUME NEW S \in (SUBSET Inums) \ {{}} PROVE \E d \in S : \A x \in S : ~Edge(g, d, x)
    BY DEF Tree
  <2>2. PICK d \in S : \A x \in S : ~Edge(f, d, x)
    BY DEF Standing, Tree
  <2> QED BY <1>1, <2>2
<1>3. \A d \in Inums : ~Edge(g, d, ROOTINO)
  BY <1>1, Consts DEF Standing
<1>4. ASSUME NEW q \in Others(p) PROVE Climbs(proc[q], g)
  <2>1. proc[q] \in Locals /\ Shape(proc[q])
    BY Hand DEF Others
  <2>2. Climbs(proc[q], f)
    BY DEF Standing
  <2> QED BY <2>1, <2>2, ClimbsShrinks
<1> QED BY <1>1, <1>2, <1>3, <1>4 DEF Standing

\* The end of a step of p.
LEMMA StandingEnd ==
  ASSUME Inv, NEW p \in Procs, NEW s, Standing(p, fs'), proc' = [proc EXCEPT ![p] = s], Climbs(s, fs')
  PROVE  TreeInv'
<1>1. ASSUME NEW q \in Procs PROVE Climbs(proc'[q], fs')
  <2>1. proc \in [Procs -> Locals]
    BY DEF Inv
  <2>2. CASE q = p
    <3>1. proc'[q] = s
      BY <2>1, <2>2
    <3> QED BY <3>1
  <2>3. CASE q # p
    <3>1. proc'[q] = proc[q] /\ q \in Others(p)
      BY <2>1, <2>3 DEF Others
    <3> QED BY <3>1 DEF Standing
  <2> QED BY <2>2, <2>3
<1>2. Tidy(fs') /\ Tree(fs') /\ \A d \in Inums : ~Edge(fs', d, ROOTINO)
  BY DEF Standing
<1> QED BY <1>1, <1>2 DEF TreeInv

LEMMA QuietClimbs ==
  ASSUME NEW s, NEW f, Quiet(s)
  PROVE  Climbs(s, f)
BY DEF Quiet, Climbs, Stage, Arrived, Making

\* A step by which no directory gets into another.
LEMMA GoTree ==
  ASSUME Inv, TreeInv, NEW p \in Procs, NEW f, NEW s, Go(p, f, s), Shrinks(fs, f), Climbs(s, f)
  PROVE  TreeInv'
<1>1. fs' = f /\ proc' = [proc EXCEPT ![p] = s]
  BY DEF Go
<1>2. Standing(p, f)
  BY StandingNow, StandingShrinks
<1> QED BY <1>1, <1>2, StandingEnd

LEMMA SettlesTree ==
  ASSUME Inv, TreeInv, NEW p \in Procs, Settles(p)
  PROVE  TreeInv'
<1>1. PICK s : Quiet(s) /\ proc' = [proc EXCEPT ![p] = s]
  BY DEF Settles
<1>2. Standing(p, fs')
  BY StandingNow, StandingShrinks DEF Settles
<1> QED BY <1>1, <1>2, StandingEnd, QuietClimbs

\* The new inode of a call stays empty.
LEMMA MakingTree ==
  ASSUME Inv, TreeInv, NEW p \in Procs, Ialloc(p) \/ CountParent(p) \/ Dots(p)
  PROVE  TreeInv'
<1> DEFINE r == proc[p]
<1>1. r \in Locals /\ Shape(r) /\ Climbs(r, fs) /\ Tidy(fs) /\ Shrinks(fs, fs)
  BY Mine
<1>2. r.pc \in Making
  BY DEF Ialloc, CountParent, Dots, At, Making
<1>3. r.ip \in Inums /\ r.at \in Ptrs /\ fs.dirs[r.ip] = Empty
  <2>1. r.ip # NoInode
    BY <1>1, <1>2 DEF Shape, Stage, Making
  <2> QED BY <1>1, <1>2, <2>1, Hand DEF Climbs, Locals
<1> HIDE DEF r
<1>4. ASSUME NEW f, NEW pc \in Making, Shrinks(fs, f), Go(p, f, [r EXCEPT !.pc = pc])
      PROVE  TreeInv'
  <2> DEFINE s == [r EXCEPT !.pc = pc]
  <2>1. s.pc = pc /\ s.ip = r.ip
    BY <1>1 DEF Locals
  <2> HIDE DEF s
  <2>2. f.dirs[r.ip] = Empty
    BY <1>3, <1>4 DEF Shrinks
  <2>3. Climbs(s, f)
    BY <2>1, <2>2 DEF Climbs, Stage, Making, Arrived
  <2> QED BY <1>4, <2>3, GoTree DEF s
<1>5. CASE Ialloc(p)
  <2>1. Shrinks(fs, Ilock(fs, p, r.ip)) /\ NewCount \in Int
    BY <1>1, Ops DEF NewCount
  <2>2. Shrinks(fs, Count(Ilock(fs, p, r.ip), r.ip, NewCount))
    BY <2>1, Ops
  <2>3. \/ Go(p, Count(Ilock(fs, p, r.ip), r.ip, NewCount), [r EXCEPT !.pc = "count"])
        \/ Go(p, Count(Ilock(fs, p, r.ip), r.ip, NewCount), [r EXCEPT !.pc = "entry"])
    BY <1>5 DEF Ialloc, r
  <2>4. "count" \in Making /\ "entry" \in Making
    BY DEF Making
  <2> QED BY <1>4, <2>2, <2>3, <2>4
<1>6. CASE CountParent(p)
  <2>1. Shrinks(fs, Count(fs, r.at, 1))
    BY <1>1, Ops
  <2>2. Go(p, Count(fs, r.at, 1), [r EXCEPT !.pc = "dots"]) /\ "dots" \in Making
    BY <1>6 DEF CountParent, r, Making
  <2> QED BY <1>4, <2>1, <2>2
<1>7. CASE Dots(p)
  <2>1. Shrinks(fs, [fs EXCEPT !.up[r.ip] = r.at])
    BY <1>1, <1>3, UpShrinks
  <2>2. \/ Go(p, [fs EXCEPT !.up[r.ip] = r.at], [r EXCEPT !.pc = "entry"])
        \/ UndoCreate(p)
    BY <1>7 DEF Dots, r
  <2>3. "entry" \in Making
    BY DEF Making
  <2> QED BY <1>4, <2>1, <2>2, <2>3, UndoTree, SettlesTree
<1> QED BY <1>5, <1>6, <1>7

\* fs_ialloc: the new directory has no name and is empty.
LEMMA CreateTree ==
  ASSUME Inv, TreeInv, NEW p \in Procs, Create(p)
  PROVE  TreeInv'
<1> DEFINE r == proc[p]
           f == Ilock(fs, p, r.at)
           ip == Find(f, r.at, Head(r.rest))
           new == Lowest(FreeInodes(f))
           g == [f EXCEPT !.disk[new] = Dinode(TypeOf(r.call), 0)]
<1>1. r \in Locals /\ Tidy(fs) /\ Shrinks(fs, fs)
  BY Mine
<1>2. Shrinks(fs, f) /\ Tidy(f)
  BY <1>1, Ops
<1>3. f.disk = fs.disk /\ f.dirs = fs.dirs
  BY <1>1 DEF Ilock, Tidy
<1>4. CASE Go(p, Iunlockput(Iget(f, ip), r.at), [r EXCEPT !.pc = "exists", !.at = ip])
  <2>1. Quiet([r EXCEPT !.pc = "exists", !.at = ip])
    BY <1>1 DEF Quiet, Arrived, Making, Locals, Stage
  <2> HIDE DEF f, ip, r
  <2>2. Shrinks(fs, Iget(f, ip))
    BY <1>2, Ops
  <2>3. Shrinks(fs, Iunlockput(Iget(f, ip), r.at))
    BY <2>2, Ops
  <2> QED BY <1>4, <2>1, <2>3, GoSettles, SettlesTree
<1>5. CASE Return(p, Iunlockput(f, r.at))
  <2> HIDE DEF f
  <2>1. Shrinks(fs, Iunlockput(f, r.at))
    BY <1>2, Ops
  <2> QED BY <1>5, <2>1, ReturnSettles, SettlesTree
<1>6. CASE FreeInodes(f) # {} /\ Go(p, Iget(g, new), [r EXCEPT !.pc = "ialloc", !.ip = new])
  <2> DEFINE t == TypeOf(r.call)
             s == [r EXCEPT !.pc = "ialloc", !.ip = new]
  <2>1. new \in Inums /\ fs.disk[new].type = "free"
    BY <1>3, <1>6, LowestFree
  <2>2. t \in Types
    BY DEF TypeOf, Types
  <2>3. s.pc = "ialloc" /\ s.ip = new
    BY <1>1 DEF Locals
  <2>4. Go(p, Iget(g, new), s)
    BY <1>6
  <2>5. /\ f.disk \in [Inums -> [type : Types, nlink : Int]]
        /\ \A i \in Inums : f.ic[i].type = "dir" => f.disk[i].type = "dir"
    BY <1>2 DEF Tidy
  <2> HIDE DEF f, s, t, new
  <2> DEFINE k == [f.disk EXCEPT ![new] = Dinode(t, 0)]
  <2>6. g = [f EXCEPT !.disk = k]
    BY <1>2 DEF Tidy, t
  <2>7. Dinode(t, 0) \in [type : Types, nlink : Int] /\ Dinode(t, 0).type = t
    BY <2>2 DEF Dinode
  <2>8. /\ k \in [Inums -> [type : Types, nlink : Int]]
        /\ \A i \in Inums : i # new => k[i] = f.disk[i]
    BY <2>5, <2>7
  <2> HIDE DEF k, g
  <2>9. Tidy(g) /\ g.disk = k /\ g.dirs = fs.dirs
    BY <1>2, <1>3, <2>1, <2>5, <2>6, <2>8 DEF Tidy
  <2>10. fs.dirs[new] = Empty /\ \A d \in Inums, n \in Elems : fs.dirs[d][n] # new
    <3>1. fs.dirs[new] = Empty /\ fs.disk[new].nlink = 0
      BY <2>1 DEF Inv, Disk
    <3>2. fs.disk[new].nlink >= Cardinality(NamesIn(fs, new))
      BY <2>1, CountCovers
    <3>3. IsFiniteSet(NamesIn(fs, new))
      BY Consts, FS_Subset DEF NamesIn
    <3>4. Cardinality(NamesIn(fs, new)) \in Nat /\ (Cardinality(NamesIn(fs, new)) = 0 => NamesIn(fs, new) = {})
      BY <3>3, FS_CardinalityType, FS_EmptySet
    <3>5. NamesIn(fs, new) = {}
      BY <3>1, <3>2, <3>4
    <3>6. ASSUME NEW d \in Inums, NEW n \in Elems, fs.dirs[d][n] = new PROVE FALSE
      <4>1. <<d, n>> \in NamesIn(fs, new)
        BY <3>6 DEF NamesIn
      <4> QED BY <3>5, <4>1
    <3> QED BY <3>1, <3>6
  <2>11. ASSUME NEW d \in Inums, NEW x \in Inums, Edge(g, d, x) PROVE Edge(fs, d, x)
    <3>1. PICK n \in Elems : fs.dirs[d][n] = x
      BY <2>9, <2>11 DEF Edge
    <3>2. x # new
      BY <2>10, <3>1
    <3>3. d # new
      BY <2>10, <3>1, Consts DEF Empty
    <3> QED BY <1>3, <2>8, <2>9, <2>11, <3>1, <3>2, <3>3 DEF Edge
  <2>12. ASSUME NEW q \in Others(p) PROVE Climbs(proc[q], g)
    <3> DEFINE u == proc[q]
    <3>1. q \in Procs /\ u \in Locals /\ Shape(u) /\ Relies(u, fs) /\ Climbs(u, fs)
      BY Hand, Mine DEF Others
    <3>2. u.pc \in Arrived \cup Making => u.ip \in Inums /\ fs.disk[u.ip].type # "free"
      <4>1. u.pc \in Arrived \cup Making => u.ip # NoInode
        BY <3>1 DEF Shape, Stage, Arrived, Making
      <4> QED BY <3>1, <4>1, Hand DEF Relies
    <3> HIDE DEF u
    <3>3. u.pc \in Arrived => g.disk[u.ip] = fs.disk[u.ip]
      BY <1>3, <2>1, <2>8, <2>9, <3>2
    <3>4. ASSUME NEW c, NEW A, Climbed(fs, u.at, u.ip, c, A) PROVE Climbed(g, u.at, u.ip, c, A)
      BY <2>11, <3>4 DEF Climbed
    <3>5. ASSUME u.pc = "cycle", u.target # NoInode
          PROVE  \E A \in SUBSET Inums : Climbed(g, u.at, u.ip, u.target, A)
      BY <3>1, <3>4, <3>5 DEF Climbs
    <3>6. ASSUME u.pc \in Arrived, u.ip # ROOTINO, g.disk[u.ip].type = "dir"
          PROVE  \E A \in SUBSET Inums : Climbed(g, u.at, u.ip, NoInode, A)
      <4>1. fs.disk[u.ip].type = "dir"
        BY <3>3, <3>6
      <4> QED BY <3>1, <3>4, <3>6, <4>1 DEF Climbs
    <3>7. u.pc \in Making => g.dirs[u.ip] = Empty
      BY <2>9, <3>1 DEF Climbs
    <3>8. Climbs(u, g)
      BY <3>1, <3>5, <3>6, <3>7 DEF Climbs
    <3> QED BY <3>8 DEF u
  <2>13. Tree(g)
    <3>1. SUFFICES ASSUME NEW S \in (SUBSET Inums) \ {{}} PROVE \E d \in S : \A x \in S : ~Edge(g, d, x)
      BY DEF Tree
    <3>2. PICK d \in S : \A x \in S : ~Edge(fs, d, x)
      BY DEF TreeInv, Tree
    <3> QED BY <2>11, <3>2
  <2>14. Standing(p, g)
    BY <2>9, <2>11, <2>12, <2>13, Consts DEF Standing, TreeInv
  <2>15. Shrinks(g, Iget(g, new))
    BY <2>9, IgetShrinks
  <2>16. Standing(p, Iget(g, new))
    BY <2>14, <2>15, StandingShrinks
  <2>17. Iget(g, new).dirs[new] = Empty
    BY <2>1, <2>9, <2>10, <2>15 DEF Shrinks
  <2>18. Climbs(s, Iget(g, new))
    BY <2>3, <2>17 DEF Climbs, Stage, Arrived, Making
  <2> QED BY <2>4, <2>16, <2>18, StandingEnd DEF Go
<1> QED BY <1>4, <1>5, <1>6 DEF Create

\* An entry is written: what the others know, if they know that the new edge is harmless.
LEMMA LinkTree ==
  ASSUME Inv, TreeInv, NEW p \in Procs, NEW f, Shrinks(fs, f), NEW n, NEW x \in Ptrs,
         LET g == Entry(f, proc[p].at, n, x) IN
         \A q \in Others(p) :
           /\ proc[q].pc = "cycle" /\ proc[q].target # NoInode =>
                \E A \in SUBSET Inums : Climbed(g, proc[q].at, proc[q].ip, proc[q].target, A)
           /\ proc[q].pc \in Arrived /\ proc[q].ip # ROOTINO /\ f.disk[proc[q].ip].type = "dir" =>
                \E A \in SUBSET Inums : Climbed(g, proc[q].at, proc[q].ip, NoInode, A)
  PROVE  \A q \in Others(p) : Climbs(proc[q], Entry(f, proc[p].at, n, x))
<1> SUFFICES ASSUME NEW q \in Others(p) PROVE Climbs(proc[q], Entry(f, proc[p].at, n, x))
  OBVIOUS
<1> DEFINE u == proc[q]
           a == proc[p].at
           g == Entry(f, a, n, x)
<1>1. q \in Procs /\ u \in Locals /\ Shape(u) /\ Climbs(u, fs)
  BY Mine DEF Others
<1>2. g.disk = f.disk /\ \A j \in Inums : j # a => g.dirs[j] = f.dirs[j]
  BY EntryTidy DEF Shrinks
<1>3. u.pc \in Making => u.ip \in Inums /\ a # u.ip /\ fs.dirs[u.ip] = Empty
  <2>1. SUFFICES ASSUME u.pc \in Making PROVE u.ip \in Inums /\ a # u.ip /\ fs.dirs[u.ip] = Empty
    OBVIOUS
  <2>2. p \in Others(q)
    BY DEF Others
  <2>3. a # u.ip
    BY <1>1, <2>1, <2>2, Unknown
  <2>4. u.ip # NoInode
    BY <1>1, <2>1 DEF Shape, Stage, Making
  <2> QED BY <1>1, <2>1, <2>3, <2>4, Hand DEF Climbs
<1>4. /\ u.pc = "cycle" /\ u.target # NoInode =>
           \E A \in SUBSET Inums : Climbed(g, u.at, u.ip, u.target, A)
      /\ u.pc \in Arrived /\ u.ip # ROOTINO /\ f.disk[u.ip].type = "dir" =>
           \E A \in SUBSET Inums : Climbed(g, u.at, u.ip, NoInode, A)
  OBVIOUS
<1> HIDE DEF u, g, a
<1>5. u.pc \in Making => g.dirs[u.ip] = Empty
  BY <1>2, <1>3 DEF Shrinks
<1>6. Climbs(u, g)
  BY <1>1, <1>2, <1>4, <1>5 DEF Climbs
<1> QED BY <1>6 DEF u, g, a

\* The same entry, if what it names is not a directory.
LEMMA FileTree ==
  ASSUME Inv, TreeInv, NEW p \in Procs, NEW f, Shrinks(fs, f), NEW n, NEW x \in Inums,
         f.disk[x].type # "dir"
  PROVE  Standing(p, Entry(f, proc[p].at, n, x))
<1> DEFINE a == proc[p].at
           g == Entry(f, a, n, x)
<1>1. Tidy(f) /\ x \in Ptrs
  BY DEF Shrinks, Ptrs
<1>2. /\ Tidy(g) /\ g.disk = f.disk
      /\ \A j \in Inums, m \in Elems : g.dirs[j][m] = IF j = a /\ m = n THEN x ELSE f.dirs[j][m]
  BY <1>1, EntryTidy
<1>3. Standing(p, f)
  BY StandingNow, StandingShrinks
<1> HIDE DEF g
<1>4. ASSUME NEW d \in Inums, NEW y \in Inums, Edge(g, d, y) PROVE Edge(f, d, y)
  <2>1. y # x
    BY <1>2, <1>4 DEF Edge
  <2>2. PICK m \in Elems : g.dirs[d][m] = y
    BY <1>4 DEF Edge
  <2>3. f.dirs[d][m] = y
    BY <1>2, <2>1, <2>2
  <2> QED BY <1>2, <1>4, <2>3 DEF Edge
<1>5. Tree(g)
  <2>1. SUFFICES ASSUME NEW S \in (SUBSET Inums) \ {{}} PROVE \E d \in S : \A y \in S : ~Edge(g, d, y)
    BY DEF Tree
  <2>2. PICK d \in S : \A y \in S : ~Edge(f, d, y)
    BY <1>3 DEF Standing, Tree
  <2> QED BY <1>4, <2>2
<1>6. ASSUME NEW q \in Others(p)
      PROVE  /\ proc[q].pc = "cycle" /\ proc[q].target # NoInode =>
                  \E A \in SUBSET Inums : Climbed(g, proc[q].at, proc[q].ip, proc[q].target, A)
             /\ proc[q].pc \in Arrived /\ proc[q].ip # ROOTINO /\ f.disk[proc[q].ip].type = "dir" =>
                  \E A \in SUBSET Inums : Climbed(g, proc[q].at, proc[q].ip, NoInode, A)
  <2> DEFINE u == proc[q]
  <2>1. Climbs(u, f)
    BY <1>3 DEF Standing
  <2> HIDE DEF u
  <2>2. ASSUME NEW c, NEW A, Climbed(f, u.at, u.ip, c, A) PROVE Climbed(g, u.at, u.ip, c, A)
    BY <1>4, <2>2 DEF Climbed
  <2> QED BY <2>1, <2>2 DEF Climbs, u
<1>7. \A q \in Others(p) : Climbs(proc[q], g)
  BY <1>1, <1>6, LinkTree DEF g
<1>8. Standing(p, g)
  BY <1>2, <1>3, <1>4, <1>5, <1>7, Consts DEF Standing
<1> QED BY <1>8 DEF g

LEMMA DirLinkTree ==
  ASSUME Inv, TreeInv, NEW p \in Procs, DirLink(p)
  PROVE  TreeInv'
<1> DEFINE r == proc[p]
           f == Ilock(fs, p, r.at)
           n == Head(r.rest)
           g == Entry(f, r.at, n, r.ip)
<1>1. r \in Locals /\ Shape(r) /\ Tidy(fs) /\ Shrinks(fs, fs)
  BY Mine
<1>2. Shrinks(fs, f) /\ f.disk = fs.disk
  BY <1>1, Ops DEF Ilock, Tidy
<1>3. r.ip \in Inums /\ fs.disk[r.ip].type # "dir"
  <2>1. r.pc = "dirlink"
    BY DEF DirLink, At
  <2>2. r.ip # NoInode
    BY <1>1, <2>1 DEF Shape, Stage
  <2> QED BY <2>1, <2>2, Hand DEF Relies, Stage
<1>4. \/ Return(p, Iput(Iunlockput(g, r.at), r.ip))
      \/ Go(p, Iunlockput(f, r.at), [r EXCEPT !.pc = "unref", !.at = NoInode])
  BY DEF DirLink
<1>5. Quiet([r EXCEPT !.pc = "unref", !.at = NoInode])
  BY <1>1 DEF Quiet, Arrived, Making, Locals, Stage
<1> HIDE DEF f, n
<1>6. Standing(p, g)
  BY <1>2, <1>3, FileTree
<1> HIDE DEF r, g
<1>7. CASE Return(p, Iput(Iunlockput(g, r.at), r.ip))
  <2>1. Shrinks(g, g)
    BY <1>6 DEF Standing, Shrinks
  <2>2. Shrinks(g, Iunlockput(g, r.at))
    BY <2>1, Ops
  <2>3. Shrinks(g, Iput(Iunlockput(g, r.at), r.ip))
    BY <2>2, Ops
  <2>4. Standing(p, Iput(Iunlockput(g, r.at), r.ip))
    BY <1>6, <2>3, StandingShrinks
  <2>5. Quiet(Idle)
    BY DEF Quiet, Idle, Arrived, Making, Stage
  <2> QED BY <1>7, <2>4, <2>5, StandingEnd, QuietClimbs DEF Return
<1>8. CASE Go(p, Iunlockput(f, r.at), [r EXCEPT !.pc = "unref", !.at = NoInode])
  <2>1. Shrinks(fs, Iunlockput(f, r.at))
    BY <1>2, Ops
  <2> QED BY <1>5, <1>8, <2>1, GoSettles, SettlesTree
<1> QED BY <1>4, <1>7, <1>8

\* The name of a new directory: nothing is below it, and nobody has climbed through it.
LEMMA NewDirTree ==
  ASSUME Inv, TreeInv, NEW p \in Procs, proc[p].pc = "entry", NEW n
  PROVE  Standing(p, Entry(fs, proc[p].at, n, proc[p].ip))
<1> DEFINE r == proc[p]
           x == r.ip
           g == Entry(fs, r.at, n, x)
<1>1. r \in Locals /\ Shape(r) /\ Climbs(r, fs) /\ Tidy(fs) /\ Shrinks(fs, fs) /\ Relies(r, fs)
  BY Mine, Hand
<1>2. r.pc \in Making
  BY DEF Making
<1>3. x \in Inums /\ fs.dirs[x] = Empty /\ r.at # x
  <2>1. x # NoInode
    BY <1>1, <1>2 DEF Shape, Stage, Making
  <2> QED BY <1>1, <1>2, <2>1, Hand DEF Climbs, Relies
<1>4. /\ x # ROOTINO
      /\ \A q \in Others(p) : proc[q].at # x
  BY <1>2, Unknown
<1>5. x \in Ptrs
  BY <1>3 DEF Ptrs
<1>6. /\ Tidy(g) /\ g.disk = fs.disk
      /\ \A j \in Inums, m \in Elems : g.dirs[j][m] = IF j = r.at /\ m = n THEN x ELSE fs.dirs[j][m]
  BY <1>1, <1>5, EntryTidy
<1> HIDE DEF g, r
<1>7. ASSUME NEW d \in Inums, NEW y \in Inums, Edge(g, d, y) PROVE d # x /\ (y = x \/ Edge(fs, d, y))
  <2>1. PICK m \in Elems : g.dirs[d][m] = y
    BY <1>7 DEF Edge
  <2>2. d # x
    BY <1>3, <1>6, <2>1, Consts DEF Empty
  <2>3. y # x => fs.dirs[d][m] = y
    BY <1>6, <2>1
  <2> QED BY <1>6, <1>7, <2>2, <2>3 DEF Edge
<1>8. Tree(g)
  <2>1. SUFFICES ASSUME NEW S \in (SUBSET Inums) \ {{}} PROVE \E d \in S : \A y \in S : ~Edge(g, d, y)
    BY DEF Tree
  <2>2. CASE x \in S
    BY <1>7, <2>2
  <2>3. CASE x \notin S
    <3>1. PICK d \in S : \A y \in S : ~Edge(fs, d, y)
      BY DEF TreeInv, Tree
    <3> QED BY <1>7, <2>3, <3>1
  <2> QED BY <2>2, <2>3
<1>9. \A d \in Inums : ~Edge(g, d, ROOTINO)
  BY <1>4, <1>7, Consts DEF TreeInv
<1>10. ASSUME NEW q \in Others(p), NEW c, NEW A \in SUBSET Inums,
              Climbed(fs, proc[q].at, proc[q].ip, c, A)
       PROVE  \E B \in SUBSET Inums : Climbed(g, proc[q].at, proc[q].ip, c, B)
  <2>1. CASE x = c
    <3>1. Climbed(g, proc[q].at, proc[q].ip, c, A)
      BY <1>7, <1>10, <2>1 DEF Climbed
    <3> QED BY <3>1
  <2>2. CASE x # c
    <3> DEFINE B == A \ {x}
    <3>1. proc[q].at \in B /\ B \subseteq Inums /\ (proc[q].ip \in B => proc[q].ip = c)
      BY <1>4, <1>10 DEF Climbed
    <3>2. ASSUME NEW d \in Inums, NEW y \in Inums, Edge(g, d, y), y \in B, y # c PROVE d \in B
      BY <1>7, <1>10, <3>2 DEF Climbed
    <3> HIDE DEF B
    <3>3. Climbed(g, proc[q].at, proc[q].ip, c, B)
      BY <3>1, <3>2 DEF Climbed
    <3> QED BY <3>1, <3>3
  <2> QED BY <2>1, <2>2
<1>11. ASSUME NEW q \in Others(p)
      PROVE  /\ proc[q].pc = "cycle" /\ proc[q].target # NoInode =>
                  \E A \in SUBSET Inums : Climbed(g, proc[q].at, proc[q].ip, proc[q].target, A)
             /\ proc[q].pc \in Arrived /\ proc[q].ip # ROOTINO /\ fs.disk[proc[q].ip].type = "dir" =>
                  \E A \in SUBSET Inums : Climbed(g, proc[q].at, proc[q].ip, NoInode, A)
  <2>1. Climbs(proc[q], fs)
    BY Mine DEF Others
  <2> QED BY <1>10, <2>1 DEF Climbs
<1>12. \A q \in Others(p) : Climbs(proc[q], g)
  BY <1>1, <1>5, <1>11, LinkTree DEF g, r
<1>13. Standing(p, g)
  BY <1>6, <1>8, <1>9, <1>12 DEF Standing
<1> QED BY <1>13 DEF g, r

LEMMA NewEntryTree ==
  ASSUME Inv, TreeInv, NEW p \in Procs, NewEntry(p)
  PROVE  TreeInv'
<1> DEFINE r == proc[p]
           e == Entry(fs, r.at, Head(r.rest), r.ip)
           f == Iunlockput(e, r.at)
           s == [r EXCEPT !.pc = "open", !.at = r.ip, !.ip = NoInode]
<1>1. r \in Locals
  BY Mine
<1>2. Standing(p, e)
  BY NewDirTree DEF NewEntry, At
<1>3. Quiet(s) /\ Quiet(Idle)
  BY <1>1 DEF Quiet, Arrived, Making, Locals, Stage, Idle
<1>4. \/ Return(p, Iunlockput(f, r.ip))
      \/ Go(p, Iunlock(f, r.ip), s)
      \/ UndoCreate(p)
  BY DEF NewEntry
<1> HIDE DEF e, s, r
<1>5. Shrinks(e, e)
  BY <1>2 DEF Standing, Shrinks
<1>6. Shrinks(e, f)
  BY <1>5, Ops
<1> HIDE DEF f
<1>7. Shrinks(e, Iunlockput(f, r.ip)) /\ Shrinks(e, Iunlock(f, r.ip))
  BY <1>6, Ops
<1>8. Standing(p, Iunlockput(f, r.ip)) /\ Standing(p, Iunlock(f, r.ip))
  BY <1>2, <1>7, StandingShrinks
<1>9. CASE Return(p, Iunlockput(f, r.ip))
  BY <1>3, <1>8, <1>9, StandingEnd, QuietClimbs DEF Return
<1>10. CASE Go(p, Iunlock(f, r.ip), s)
  BY <1>3, <1>8, <1>10, StandingEnd, QuietClimbs DEF Go
<1> QED BY <1>4, <1>9, <1>10, UndoTree, SettlesTree

\* What IsDir asks of the table is so on the disk; nobody else is in a rename.
LEMMA Mover ==
  ASSUME Inv, NEW p \in Procs, proc[p].pc \in Arrived \cup {"cycle"}
  PROVE  /\ proc[p].ip \in Inums /\ proc[p].at \in Inums
         /\ IsDir(p) <=> fs.disk[proc[p].ip].type = "dir"
         /\ \A q \in Others(p) : proc[q].call = "rename" => proc[q].pc = "lock"
<1> DEFINE r == proc[p]
<1>1. r \in Locals /\ Shape(r) /\ Relies(r, fs) /\ Disk(fs)
  BY Hand
<1>2. Stage(r) = r.pc /\ r.pc \in Known /\ r.call = "rename" /\ r.pc # "lock"
  BY <1>1 DEF Stage, Arrived, Known, Moving, Shape
<1>3. r.ip # NoInode /\ r.at # NoInode
  BY <1>1, <1>2 DEF Shape, Arrived
<1>4. r.ip \in Inums /\ r.at \in Inums
  BY <1>3, Hand
<1>5. fs.ic[r.ip].type = fs.disk[r.ip].type
  BY <1>1, <1>2 DEF Relies, Disk
<1>6. rename_lock = p
  BY <1>2, LockNow
<1>7. ASSUME NEW q \in Others(p), proc[q].call = "rename" PROVE proc[q].pc = "lock"
  BY <1>6, <1>7, LockNow DEF Others
<1> QED BY <1>4, <1>5, <1>7 DEF IsDir

\* The new name of a directory that moves: its new parent is not below it.
LEMMA MovedTree ==
  ASSUME Inv, TreeInv, NEW p \in Procs, proc[p].pc = "relink", IsDir(p),
         proc[p].ip # ROOTINO, NEW n
  PROVE  Standing(p, Entry(fs, proc[p].at, n, proc[p].ip))
<1> DEFINE r == proc[p]
           x == r.ip
           g == Entry(fs, r.at, n, x)
<1>1. r \in Locals /\ Shape(r) /\ Climbs(r, fs) /\ Tidy(fs) /\ Shrinks(fs, fs)
  BY Mine
<1>2. x \in Inums /\ r.at \in Inums /\ fs.disk[x].type = "dir"
  BY Mover DEF Arrived
<1>3. PICK A \in SUBSET Inums : Climbed(fs, r.at, x, NoInode, A)
  <2>1. r.pc = "relink" /\ r.ip # ROOTINO
    OBVIOUS
  <2> QED BY <1>1, <1>2, <2>1 DEF Climbs, Arrived
<1>4. r.at \in A /\ x \notin A /\ \A d, y \in Inums : Edge(fs, d, y) /\ y \in A => d \in A
  BY <1>2, <1>3, Consts DEF Climbed
<1>5. x \in Ptrs /\ x # ROOTINO
  BY <1>2 DEF Ptrs
<1>6. /\ Tidy(g) /\ g.disk = fs.disk
      /\ \A j \in Inums, m \in Elems : g.dirs[j][m] = IF j = r.at /\ m = n THEN x ELSE fs.dirs[j][m]
  BY <1>1, <1>5, EntryTidy
<1> HIDE DEF g
<1>7. ASSUME NEW d \in Inums, NEW y \in Inums, Edge(g, d, y)
      PROVE  Edge(fs, d, y) \/ (d = r.at /\ y = x)
  <2>1. PICK m \in Elems : g.dirs[d][m] = y
    BY <1>7 DEF Edge
  <2>2. fs.dirs[d][m] = y \/ (d = r.at /\ y = x)
    BY <1>6, <2>1
  <2> QED BY <1>6, <1>7, <2>2 DEF Edge
<1>8. Tree(g)
  <2>1. SUFFICES ASSUME NEW S \in (SUBSET Inums) \ {{}} PROVE \E d \in S : \A y \in S : ~Edge(g, d, y)
    BY DEF Tree
  <2>2. CASE S \ A = {}
    <3>1. PICK d \in S : \A y \in S : ~Edge(fs, d, y)
      BY DEF TreeInv, Tree
    <3>2. x \notin S
      BY <1>4, <2>2
    <3> QED BY <1>7, <3>1, <3>2
  <2>3. CASE S \ A # {}
    <3>1. PICK d \in S \ A : \A y \in S \ A : ~Edge(fs, d, y)
      BY <2>3 DEF TreeInv, Tree
    <3>2. ASSUME NEW y \in S, Edge(g, d, y) PROVE FALSE
      <4>1. Edge(fs, d, y)
        BY <1>4, <1>7, <3>2
      <4>2. y \in A
        BY <3>1, <4>1
      <4> QED BY <1>4, <4>1, <4>2
    <3> QED BY <3>2
  <2> QED BY <2>2, <2>3
<1>9. \A d \in Inums : ~Edge(g, d, ROOTINO)
  BY <1>5, <1>7, Consts DEF TreeInv
<1>10. ASSUME NEW q \in Others(p) PROVE proc[q].pc \notin Arrived \cup {"cycle"}
  <2>1. proc[q].call = "rename" => proc[q].pc = "lock"
    BY Mover DEF Arrived
  <2>2. Shape(proc[q])
    BY Mine DEF Others
  <2> QED BY <2>1, <2>2 DEF Shape, Stage, Arrived, Moving
<1>11. \A q \in Others(p) : Climbs(proc[q], g)
  BY <1>1, <1>5, <1>10, LinkTree DEF g
<1>12. Standing(p, g)
  BY <1>6, <1>8, <1>9, <1>11 DEF Standing
<1> QED BY <1>12 DEF g

LEMMA GiveUpSettles ==
  ASSUME Inv, TreeInv, NEW p \in Procs, NEW f, GiveUp(p, f), Shrinks(fs, f)
  PROVE  Settles(p)
<1>1. proc[p] \in Locals
  BY Mine
<1>2. Quiet([proc[p] EXCEPT !.pc = "unref", !.at = NoInode, !.target = NoInode])
  BY <1>1 DEF Quiet, Arrived, Making, Locals, Stage
<1> QED BY <1>2, GoSettles DEF GiveUp

LEMMA RelinkTree ==
  ASSUME Inv, TreeInv, NEW p \in Procs, Relink(p)
  PROVE  TreeInv'
<1> DEFINE r == proc[p]
           e == Entry(fs, r.at, Head(r.rest), r.ip)
<1>1. r \in Locals /\ Shrinks(fs, fs) /\ r.pc = "relink"
  BY Mine DEF Relink, At
<1>2. r.ip \in Inums /\ (IsDir(p) <=> fs.disk[r.ip].type = "dir")
  BY <1>1, Mover DEF Arrived
<1>3. ASSUME ~IsDir(p) \/ r.ip # ROOTINO PROVE Standing(p, e)
  <2>1. CASE IsDir(p)
    BY <1>1, <1>3, <2>1, MovedTree
  <2>2. CASE ~IsDir(p)
    BY <1>1, <1>2, <2>2, FileTree
  <2> QED BY <2>1, <2>2
<1>4. \/ r.ip # ROOTINO /\ Go(p, e, [r EXCEPT !.pc = "recount"])
      \/ ~IsDir(p) /\ NameiParent(p, Iunlockput(e, r.at), r, r.old, "old")
      \/ GiveUp(p, Iunlockput(fs, r.at))
  BY DEF Relink
<1>10. ASSUME NameiParent(p, Iunlockput(e, r.at), r, r.old, "old")
       PROVE  \/ Go(p, Iget(Iunlockput(e, r.at), ROOTINO), Start(r, r.old, TRUE, "old"))
              \/ Return(p, Iput(Iunlockput(e, r.at), r.ip))
  <2> DEFINE t == [r EXCEPT !.at = NoInode, !.then = "old"]
  <2>1. t.then = "old" /\ t.ip = r.ip
    BY <1>1 DEF Locals
  <2>2. \/ Go(p, Iget(Iunlockput(e, r.at), ROOTINO), Start(r, r.old, TRUE, "old"))
        \/ NotFound(p, Iunlockput(e, r.at), t)
    BY <1>10 DEF NameiParent
  <2> HIDE DEF t, e, r
  <2> QED BY <2>1, <2>2 DEF NotFound
<1>5. Quiet([r EXCEPT !.pc = "recount"])
  BY <1>1 DEF Quiet, Arrived, Making, Locals, Stage
<1>6. Quiet(Start(r, r.old, TRUE, "old"))
  <2> DEFINE t == Start(r, r.old, TRUE, "old")
  <2>1. t.pc \in {"walk", "old"}
    BY <1>1 DEF Start, Locals
  <2> HIDE DEF t
  <2>2. Quiet(t)
    BY <2>1 DEF Quiet, Arrived, Making
  <2> QED BY <2>2 DEF t
<1> HIDE DEF e, r
<1>7. CASE r.ip # ROOTINO /\ Go(p, e, [r EXCEPT !.pc = "recount"])
  BY <1>3, <1>5, <1>7, StandingEnd, QuietClimbs DEF Go
<1>8. CASE ~IsDir(p) /\ NameiParent(p, Iunlockput(e, r.at), r, r.old, "old")
  <2>1. Standing(p, e)
    BY <1>3, <1>8
  <2>2. Shrinks(e, e)
    BY <2>1 DEF Standing, Shrinks
  <2>3. Shrinks(e, Iunlockput(e, r.at))
    BY <2>2, Ops
  <2>4. Shrinks(e, Iget(Iunlockput(e, r.at), ROOTINO)) /\ Shrinks(e, Iput(Iunlockput(e, r.at), r.ip))
    BY <2>3, Ops
  <2>5. /\ Standing(p, Iget(Iunlockput(e, r.at), ROOTINO))
        /\ Standing(p, Iput(Iunlockput(e, r.at), r.ip))
    BY <2>1, <2>4, StandingShrinks
  <2>6. CASE Go(p, Iget(Iunlockput(e, r.at), ROOTINO), Start(r, r.old, TRUE, "old"))
    BY <1>6, <2>5, <2>6, StandingEnd, QuietClimbs DEF Go
  <2>7. CASE Return(p, Iput(Iunlockput(e, r.at), r.ip))
    <3>1. Quiet(Idle)
      BY DEF Quiet, Idle, Arrived, Making
    <3> QED BY <2>5, <2>7, <3>1, StandingEnd, QuietClimbs DEF Return
  <2> QED BY <1>8, <1>10, <2>6, <2>7
<1>9. CASE GiveUp(p, Iunlockput(fs, r.at))
  <2>1. Shrinks(fs, Iunlockput(fs, r.at))
    BY <1>1, Ops
  <2> QED BY <1>9, <2>1, GiveUpSettles, SettlesTree
<1> QED BY <1>4, <1>7, <1>8, <1>9

\* Between the climb and the new name.
LEMMA TargetTree ==
  ASSUME Inv, TreeInv, NEW p \in Procs, Target(p) \/ Replace(p) \/ Replaced(p)
  PROVE  TreeInv'
<1> DEFINE r == proc[p]
<1>1. r \in Locals /\ Shape(r) /\ Climbs(r, fs) /\ Shrinks(fs, fs)
  BY Mine
<1>2. r.pc \in Arrived
  BY DEF Target, Replace, Replaced, At, Arrived
<1>3. r.ip \in Inums
  BY <1>2, Mover
<1> HIDE DEF r
<1>4. ASSUME NEW f, Shrinks(fs, f), NEW s, Go(p, f, s), s.pc \in Arrived, s.at = r.at, s.ip = r.ip
      PROVE  TreeInv'
  <2>1. ASSUME r.ip # ROOTINO, f.disk[r.ip].type = "dir"
        PROVE  \E A \in SUBSET Inums : Climbed(f, r.at, r.ip, NoInode, A)
    <3>1. fs.disk[r.ip].type = "dir"
      BY <1>3, <1>4, <2>1 DEF Shrinks
    <3>2. PICK A \in SUBSET Inums : Climbed(fs, r.at, r.ip, NoInode, A)
      BY <1>1, <1>2, <2>1, <3>1 DEF Climbs
    <3> QED BY <1>4, <3>2, ClimbedShrinks
  <2>3. Climbs(s, f)
    BY <1>4, <2>1 DEF Climbs, Arrived, Making
  <2> QED BY <1>4, <2>3, GoTree
<1>5. CASE Target(p)
  <2> DEFINE f == Ilock(fs, p, r.at)
             existing == Lookup(f, r.at, Head(r.rest))
             q == [r EXCEPT !.newdir = r.at]
             s1 == [q EXCEPT !.pc = "relink"]
             s2 == [q EXCEPT !.pc = "replace", !.target = existing]
  <2>1. Shrinks(fs, f)
    BY <1>1, Ops
  <2>2. /\ s1.pc = "relink" /\ s1.at = r.at /\ s1.ip = r.ip
        /\ s2.pc = "replace" /\ s2.at = r.at /\ s2.ip = r.ip
    BY <1>1 DEF Locals
  <2>3. Go(p, f, s1) \/ Go(p, Iget(f, existing), s2)
    BY <1>5 DEF Target, r
  <2> HIDE DEF f, existing, s1, s2
  <2>4. Shrinks(fs, Iget(f, existing))
    BY <2>1, Ops
  <2>5. s1.pc \in Arrived /\ s2.pc \in Arrived
    BY <2>2 DEF Arrived
  <2> QED BY <1>4, <2>1, <2>2, <2>3, <2>4, <2>5
<1>6. CASE Replace(p)
  <2> DEFINE f == Ilock(fs, p, r.target)
             e == Entry(f, r.at, Head(r.rest), NoInode)
             s == [r EXCEPT !.pc = "replaced"]
  <2>1. Shrinks(fs, f)
    BY <1>1, Ops
  <2>2. s.pc = "replaced" /\ s.at = r.at /\ s.ip = r.ip
    BY <1>1 DEF Locals
  <2>3. GiveUp(p, Iunlockput(Iunlockput(f, r.target), r.at)) \/ Go(p, e, s)
    BY <1>6 DEF Replace, r
  <2> HIDE DEF f, s
  <2>4. Shrinks(fs, e) /\ Shrinks(fs, Iunlockput(f, r.target))
    BY <2>1, Ops
  <2>5. Shrinks(fs, Iunlockput(Iunlockput(f, r.target), r.at))
    BY <2>4, Ops
  <2>6. s.pc \in Arrived
    BY <2>2 DEF Arrived
  <2> HIDE DEF e
  <2>7. CASE Go(p, e, s)
    BY <1>4, <2>2, <2>4, <2>6, <2>7
  <2>8. CASE GiveUp(p, Iunlockput(Iunlockput(f, r.target), r.at))
    BY <2>5, <2>8, GiveUpSettles, SettlesTree
  <2> QED BY <2>3, <2>7, <2>8
<1>7. CASE Replaced(p)
  <2> DEFINE g == Iunlockput(Count(fs, r.target, -1), r.target)
             s == [r EXCEPT !.pc = "relink", !.target = NoInode]
  <2>1. Shrinks(fs, Count(fs, r.target, -1))
    BY <1>1, Ops
  <2>2. Shrinks(fs, g)
    BY <2>1, Ops
  <2>3. s.pc = "relink" /\ s.at = r.at /\ s.ip = r.ip
    BY <1>1 DEF Locals
  <2>4. Go(p, g, s)
    BY <1>7 DEF Replaced, r
  <2> HIDE DEF g, s
  <2>5. s.pc \in Arrived
    BY <2>3 DEF Arrived
  <2> QED BY <1>4, <2>2, <2>3, <2>4, <2>5
<1> QED BY <1>5, <1>6, <1>7

\* A directory that is not moving is in its .. and in no other.
LEMMA UpIsParent ==
  ASSUME Inv, TreeInv, NoneStale, NEW p \in Procs, proc[p].pc = "cycle",
         NEW c \in Inums, c # proc[p].ip, NEW d \in Inums, Edge(fs, d, c)
  PROVE  fs.up[c] = d
<1>1. SUFFICES ASSUME fs.up[c] # d PROVE FALSE
  OBVIOUS
<1>2. c \in DirsIn(Inums) /\ c \in Below(d)
  BY Consts DEF Edge, DirsIn, Below
<1>3. PICK q \in Procs : proc[q].call = "rename" /\ proc[q].ip = c
  BY <1>1, <1>2 DEF NoneStale, Stale
<1>4. q \in Others(p)
  BY <1>3 DEF Others
<1>5. proc[q].pc = "lock"
  BY <1>3, <1>4, Mover
<1>6. Shape(proc[q])
  BY Mine
<1> QED BY <1>3, <1>5, <1>6, Consts DEF Shape, Stage

\* The climb: c is the directory that it has come to.
LEMMA CycleTree ==
  ASSUME Inv, TreeInv, NoneStale, NEW p \in Procs, Cycle(p)
  PROVE  TreeInv'
<1> DEFINE r == proc[p]
           c == IF r.target = NoInode THEN r.at ELSE r.target
           f == IF r.target = NoInode THEN Iget(fs, r.at) ELSE fs
           g == Ilock(f, p, c)
           up == IF g.ic[c].type = "dir" THEN g.up[c] ELSE NoInode
<1>1. r \in Locals /\ Shape(r) /\ Climbs(r, fs) /\ Tidy(fs) /\ Shrinks(fs, fs) /\ r.pc = "cycle"
  BY Mine DEF Cycle, At
<1>2. /\ r.ip \in Inums /\ r.at \in Inums /\ c \in Inums
      /\ IsDir(p) <=> fs.disk[r.ip].type = "dir"
  <2>1. /\ r.ip \in Inums /\ r.at \in Inums
        /\ IsDir(p) <=> fs.disk[r.ip].type = "dir"
    BY <1>1, Mover
  <2> QED BY <2>1, Hand
<1>4. PICK A \in SUBSET Inums : Climbed(fs, r.at, r.ip, c, A)
  <2>1. CASE r.target = NoInode
    <3>1. Climbed(fs, r.at, r.ip, r.at, {r.at})
      BY <1>2 DEF Climbed
    <3> QED BY <1>2, <2>1, <3>1
  <2>2. CASE r.target # NoInode
    BY <1>1, <2>2 DEF Climbs
  <2> QED BY <2>1, <2>2
<1>5. Shrinks(fs, f) /\ Tidy(f) /\ f.up = fs.up
  <2>1. Shrinks(fs, Iget(fs, r.at))
    BY <1>1, Ops
  <2>2. Iget(fs, r.at).up = fs.up
    BY <1>1 DEF Iget, Tidy
  <2>3. Shrinks(fs, f)
    BY <1>1, <2>1
  <2> QED BY <2>2, <2>3 DEF Shrinks
<1> HIDE DEF f
<1>6. Shrinks(fs, g) /\ g.up = fs.up
  BY <1>5, Ops DEF Ilock, Tidy
<1>7. \/ ~IsDir(p) /\ Go(p, fs, [r EXCEPT !.pc = "target"])
      \/ c = ROOTINO /\ Go(p, Iput(f, c), [r EXCEPT !.pc = "target", !.target = NoInode])
      \/ GiveUp(p, Iput(Iput(f, c), r.at))
      \/ GiveUp(p, Iput(Iunlockput(g, c), r.at))
      \/ /\ c # r.ip /\ g.ic[c].type = "dir" /\ up # NoInode
         /\ Go(p, Iunlockput(Iget(g, up), c), [r EXCEPT !.target = up])
  BY DEF Cycle, f
<1> HIDE DEF r, c
<1>8. CASE ~IsDir(p) /\ Go(p, fs, [r EXCEPT !.pc = "target"])
  <2> DEFINE s == [r EXCEPT !.pc = "target"]
  <2>1. s.pc = "target" /\ s.ip = r.ip
    BY <1>1 DEF Locals
  <2> HIDE DEF s
  <2>2. Climbs(s, fs)
    BY <1>2, <1>8, <2>1 DEF Climbs, Stage, Arrived, Making
  <2> QED BY <1>1, <1>8, <2>2, GoTree DEF s
<1>9. CASE c = ROOTINO /\ Go(p, Iput(f, c), [r EXCEPT !.pc = "target", !.target = NoInode])
  <2> DEFINE s == [r EXCEPT !.pc = "target", !.target = NoInode]
  <2>1. s.pc = "target" /\ s.ip = r.ip /\ s.at = r.at
    BY <1>1 DEF Locals
  <2> HIDE DEF s, f
  <2>2. Shrinks(fs, Iput(f, c))
    BY <1>5, Ops
  <2>3. r.ip # ROOTINO => Climbed(fs, r.at, r.ip, NoInode, A)
    BY <1>4, <1>9 DEF Climbed, TreeInv
  <2>4. r.ip # ROOTINO => Climbed(Iput(f, c), r.at, r.ip, NoInode, A)
    BY <2>2, <2>3, ClimbedShrinks
  <2>5. Climbs(s, Iput(f, c))
    BY <2>1, <2>4 DEF Climbs, Stage, Arrived, Making
  <2> QED BY <1>9, <2>2, <2>5, GoTree DEF s
<1>10. CASE GiveUp(p, Iput(Iput(f, c), r.at)) \/ GiveUp(p, Iput(Iunlockput(g, c), r.at))
  <2> HIDE DEF f, g
  <2>1. Shrinks(fs, Iput(f, c)) /\ Shrinks(fs, Iunlockput(g, c))
    BY <1>5, <1>6, Ops
  <2>2. Shrinks(fs, Iput(Iput(f, c), r.at)) /\ Shrinks(fs, Iput(Iunlockput(g, c), r.at))
    BY <2>1, Ops
  <2> QED BY <1>10, <2>2, GiveUpSettles, SettlesTree
<1>11. CASE /\ c # r.ip /\ g.ic[c].type = "dir" /\ up # NoInode
            /\ Go(p, Iunlockput(Iget(g, up), c), [r EXCEPT !.target = up])
  <2> DEFINE s == [r EXCEPT !.target = up]
             h == Iunlockput(Iget(g, up), c)
             B == A \cup {up}
  <2>1. up = fs.up[c] /\ up \in Inums
    <3>1. up = fs.up[c]
      BY <1>6, <1>11
    <3>2. fs.up[c] \in Ptrs
      BY <1>1, <1>2 DEF Tidy
    <3> QED BY <1>11, <3>1, <3>2 DEF Ptrs
  <2> HIDE DEF g, up
  <2>2. s.pc = "cycle" /\ s.ip = r.ip /\ s.at = r.at /\ s.target = up
    BY <1>1 DEF Locals
  <2> HIDE DEF s
  <2>3. Shrinks(fs, Iget(g, up))
    BY <1>6, Ops
  <2>4. Shrinks(fs, h)
    BY <2>3, Ops
  <2> HIDE DEF h
  <2>5. ASSUME NEW d \in Inums, NEW x \in Inums, Edge(fs, d, x), x \in B, x # up
        PROVE  d \in B
    <3>1. x \in A
      BY <2>5
    <3>2. CASE x = c
      <4>1. fs.up[c] = d
        BY <1>1, <1>2, <1>11, <2>5, <3>2, UpIsParent DEF r
      <4> QED BY <2>1, <4>1
    <3>3. CASE x # c
      BY <1>4, <2>5, <3>1, <3>3 DEF Climbed
    <3> QED BY <3>2, <3>3
  <2>6. Climbed(fs, r.at, r.ip, up, B)
    <3>1. B \subseteq Inums /\ r.at \in B
      BY <1>4, <2>1 DEF Climbed
    <3>2. r.ip \in B => r.ip = up
      BY <1>4, <1>11 DEF Climbed
    <3> HIDE DEF B
    <3> QED BY <2>5, <3>1, <3>2 DEF Climbed
  <2>7. Climbed(h, r.at, r.ip, up, B) /\ B \in SUBSET Inums
    BY <1>4, <2>1, <2>4, <2>6, ClimbedShrinks
  <2> HIDE DEF B
  <2>8. Climbs(s, h)
    BY <2>2, <2>7 DEF Climbs, Stage, Arrived, Making
  <2> QED BY <1>11, <2>4, <2>8, GoTree DEF s, h
<1> QED BY <1>7, <1>8, <1>9, <1>10, <1>11

LEMMA StepTree ==
  ASSUME Inv, TreeInv, NoneStale, NEW p \in Procs, Step(p)
  PROVE  TreeInv'
<1>1. CASE Walk(p) \/ Found(p) \/ Close(p) \/ Exists(p)
  BY <1>1, WalkTree, OpenTree, SettlesTree
<1>2. CASE Create(p) \/ Ialloc(p) \/ CountParent(p) \/ Dots(p) \/ NewEntry(p)
  BY <1>2, CreateTree, MakingTree, NewEntryTree
<1>3. CASE Unlink(p) \/ Victim(p) \/ Clear(p) \/ UncountParent(p) \/ Drop(p)
  BY <1>3, UnlinkTree, SettlesTree
<1>4. CASE Source(p) \/ DirLink(p) \/ Unref(p) \/ RenameLock(p)
  BY <1>4, SourceTree, DirLinkTree, SettlesTree
<1>5. CASE Cycle(p) \/ Target(p) \/ Replace(p) \/ Replaced(p)
  BY <1>5, CycleTree, TargetTree
<1>6. CASE Relink(p) \/ Recount(p) \/ Old(p) \/ OldDir(p) \/ DotDot(p)
  BY <1>6, RelinkTree, OldTree, SettlesTree
<1> QED BY <1>1, <1>2, <1>3, <1>4, <1>5, <1>6 DEF Step

LEMMA NextTree ==
  ASSUME PlainPaths, Inv, TreeInv, NoneStale, [Next]_vars
  PROVE  spoilt' \/ TreeInv'
<1>1. CASE \E p \in Procs : Step(p)
  BY <1>1, StepTree
<1>2. CASE \E p \in Procs, a \in Requests : Begin(p, a)
  BY <1>2, BeginTree, SettlesTree
<1>3. CASE \E p \in Procs : Spoils(p)
  BY <1>3 DEF Spoils, TargetDots, ReplaceFails, RelinkRoot, OldSpoils, Spoil
<1>4. CASE UNCHANGED vars
  BY <1>4 DEF vars, TreeInv
<1> QED BY <1>1, <1>2, <1>3, <1>4 DEF Next

\* mkfs leaves an empty root.
LEMMA InitTree == Init => TreeInv
<1> SUFFICES ASSUME Init PROVE TreeInv
  OBVIOUS
<1>1. Inv
  BY InitHolds
<1>2. fs \in Fs /\ \A i \in Inums : fs.dirs[i] = Empty /\ fs.ic[i].type = "free"
  BY <1>1 DEF Inv, Disk, Init, Booted, Slot
<1>3. Tidy(fs)
  <2>1. Slots \subseteq Entries
    BY DEF Slots, Entries
  <2> QED BY <1>2, <2>1 DEF Tidy, Fs
<1>4. \A d, x \in Inums : ~Edge(fs, d, x)
  BY <1>2, Consts DEF Edge, Empty
<1>5. Tree(fs)
  BY <1>4 DEF Tree
<1>6. ASSUME NEW p \in Procs PROVE Climbs(proc[p], fs)
  <2>1. proc[p] = Idle
    BY DEF Init
  <2>2. Quiet(Idle)
    BY DEF Quiet, Idle, Arrived, Making, Stage
  <2> QED BY <2>1, <2>2, QuietClimbs
<1> QED BY <1>3, <1>4, <1>5, <1>6, Consts DEF TreeInv

\* The check of sys_rename ("ensure we don't hit ip (would create unreachable cycle)"): as
\* long as no rename has left a stale .. behind, no directory comes to be below itself,
\* whatever is made, removed and renamed while the check climbs from the new parent to the
\* root one lock at a time, and between the check and the new name.
THEOREM ClimbKeepsTree ==
  ASSUME PlainPaths
  PROVE  Spec /\ []NoneStale => [](spoilt \/ NoCycle)
<1>1. Init => spoilt \/ TreeInv
  BY InitTree
<1>2. (spoilt \/ TreeInv) /\ (spoilt \/ Inv) /\ NoneStale /\ [Next]_vars => (spoilt \/ TreeInv)'
  <2>1. ASSUME spoilt, [Next]_vars PROVE spoilt'
    BY <2>1 DEF Next, vars
  <2>2. ASSUME Inv, TreeInv, NoneStale, [Next]_vars PROVE spoilt' \/ TreeInv'
    BY <2>2, NextTree
  <2> QED BY <2>1, <2>2
<1>3. TreeInv => NoCycle
  <2> SUFFICES ASSUME TreeInv, NEW S \in (SUBSET DirsIn(Inums)) \ {{}}
               PROVE  \E d \in S : Below(d) \cap S = {}
    BY DEF NoCycle
  <2>1. S \in (SUBSET Inums) \ {{}} /\ \A i \in S : fs.disk[i].type = "dir"
    BY DEF DirsIn
  <2>2. PICK d \in S : \A x \in S : ~Edge(fs, d, x)
    BY <2>1 DEF TreeInv, Tree
  <2>3. ASSUME NEW x \in S, x \in Below(d) PROVE FALSE
    BY <2>1, <2>2, <2>3 DEF Edge, Below
  <2> QED BY <2>3
<1> QED BY <1>1, <1>2, <1>3, Invariant, PTL DEF Spec

\* The two together: without stale .. entries no circle of calls waits for locks.
THEOREM NoDeadlockWithoutStale ==
  ASSUME PlainPaths
  PROVE  Spec /\ []NoneStale =>
           [](spoilt \/ \A S \in (SUBSET Procs) \ {{}} : \E p \in S : \A q \in S : ~WaitsFor(p, q))
<1>1. NoDeadlock /\ (spoilt \/ NoCycle) =>
        spoilt \/ \A S \in (SUBSET Procs) \ {{}} : \E p \in S : \A q \in S : ~WaitsFor(p, q)
  BY DEF NoDeadlock
<1> QED BY <1>1, NoCircularWait, ClimbKeepsTree, PTL
=============================================================================
