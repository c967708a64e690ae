----------------------------- MODULE BioProofs -----------------------------
(***************************************************************************)
(* Proofs about Bio, for every number of processes, blocks, buffers,       *)
(* retries and descriptors.                                                *)
(*                                                                         *)
(* The inductive invariant Inv says who holds which buffer (Holding), that *)
(* refcnt counts the holders (Counts), that of the buffers of one block    *)
(* only the first on the list can be in use, which is the one that bget    *)
(* finds (Order), and that disk_busy, the request and the free descriptors *)
(* belong to the one process inside the driver (Driver).  Copies adds what *)
(* the buffer, the disk and the request in flight agree on, between        *)
(* processes that do not write each other's blocks (Apart).                *)
(***************************************************************************)
EXTENDS Bio, TLAPS, FiniteSetTheorems, WellFoundedInduction

BufRecs == [blk : Blocks, valid : BOOLEAN, refcnt : Nat, data : Data]

OpRecs == [kind : {"none", "read", "set", "clear"}, blk : Blocks, b : 0..NBUF,
           write : BOOLEAN, half : 0..2, try : 0..MaxRetries]

\* The types, without the upper bound of a reference count: it needs Counts.
Types ==
  /\ buf \in [Buffers -> BufRecs]
  /\ lru \in [Buffers -> Buffers]
  /\ \A i, j \in Buffers : lru[i] = lru[j] => i = j
  /\ \A b \in Buffers : \E i \in Buffers : lru[i] = b
  /\ disk_busy \in BOOLEAN
  /\ cpu \in Procs \cup {None}
  /\ state \in [Procs -> {"ready", "disk", "virtio"}]
  /\ at \in [Procs -> {"user", "held", "wait", "rw", "io", "wrote"}]
  /\ op \in [Procs -> OpRecs]
  /\ req \in {None} \cup Requests
  /\ free \in 0..QueueSize
  /\ expired \in BOOLEAN
  /\ disk \in [Blocks -> Data]
  /\ entry \in [Procs -> [Blocks -> {"open", "set", "clear"}]]

Inside(p) == at[p] \in {"rw", "io"}

\* A process inside an operation holds a buffer of its block, which it has read
\* unless it still waits for that.
Holding ==
  \A p \in Procs : at[p] # "user" =>
    /\ op[p].b \in Buffers /\ buf[op[p].b].blk = op[p].blk
    /\ op[p].kind \in {"read", "set", "clear"}
    /\ op[p].kind = "read" => op[p].blk \in Reads[p]
    /\ op[p].kind # "read" => op[p].blk \in Writes[p]
    /\ op[p].write => op[p].kind # "read"
    /\ at[p] = "held" => ~op[p].write
    /\ Inside(p) => op[p].half \in 1..2 /\ op[p].try \in 1..MaxRetries

HeldBy(where, what, b) == {p \in Procs : where[p] # "user" /\ what[p].b = b}

\* refcnt is the number of holders.
Counts == \A b \in Buffers : buf[b].refcnt = Cardinality(HeldBy(at, op, b))

\* Of the buffers of one block only the first on the list may be in use: this is
\* what makes bget's first hit the right one.
Order ==
  \A i, j \in Buffers : i < j /\ buf[lru[i]].blk = buf[lru[j]].blk => ~InUse(lru[j])

\* DriverExclusive, with the request's half and direction.
Driver ==
  /\ \A p, q \in Procs : Inside(p) /\ Inside(q) => p = q
  /\ disk_busy <=> \E p \in Procs : Inside(p)
  /\ \A p \in Procs : at[p] = "io" =>
       /\ req # None /\ req.b = op[p].b /\ req.blk = op[p].blk
       /\ req.half = op[p].half /\ req.write = op[p].write
  /\ req # None => \E p \in Procs : at[p] = "io"
  /\ free = QueueSize - (IF req = None THEN 0 ELSE 3)

Inv == Types /\ Holding /\ Counts /\ Order /\ Driver

-----------------------------------------------------------------------------
(* Constants and places of the list *)

\* The least of some places is among them.
LEMMA MinIn ==
  ASSUME NEW S, S \subseteq Nat, S # {}
  PROVE  Min(S) \in S /\ \A y \in S : Min(S) <= y
<1>1. PICK x \in S : \A y \in S : ~(<<y, x>> \in OpToRel(<, Nat))
  BY NatLessThanWellFounded, WFMin
<1>2. ASSUME NEW y \in S PROVE x <= y
  <2>1. ~(y < x)
    BY <1>1 DEF OpToRel
  <2> QED BY <2>1
<1> QED BY <1>2 DEF Min

\* Likewise the greatest of some places up to n.
LEMMA MaxIn ==
  ASSUME NEW n \in Nat, NEW S, S \subseteq 1..n, S # {}
  PROVE  Max(S) \in S
<1> DEFINE T == {n - x : x \in S}
<1>1. T \subseteq Nat /\ T # {}
  OBVIOUS
<1>2. Min(T) \in T /\ \A y \in T : Min(T) <= y
  BY <1>1, MinIn
<1>3. PICK x \in S : Min(T) = n - x
  BY <1>2
<1>4. ASSUME NEW y \in S PROVE x >= y
  <2>1. n - x <= n - y
    BY <1>2, <1>3
  <2> QED BY <2>1
<1> QED BY <1>4 DEF Max

\* What the proofs use of the constants.
LEMMA Consts ==
  /\ NBUF \in Nat /\ NBUF > 0 /\ Buffers = 1..NBUF /\ 0 \notin Buffers
  /\ IsFiniteSet(Procs) /\ None \notin Procs /\ Zero \in Blocks
  /\ QueueSize \in Nat /\ QueueSize >= 3 /\ MaxRetries \in Nat /\ MaxRetries >= 1
  /\ Reads \in [Procs -> SUBSET Blocks] /\ Writes \in [Procs -> SUBSET Blocks]
  /\ HalfOf \in [Procs -> 1..2]
BY BioConstants DEF BioConstants, Buffers

\* Process p becomes a holder of b; the other buffers keep theirs.
LEMMA MoreHolders ==
  ASSUME NEW w1, NEW x1, NEW w2, NEW x2, NEW b, NEW p \in Procs,
         w1[p] = "user", w2[p] # "user" /\ x2[p].b = b,
         \A q \in Procs \ {p} : w1[q] = w2[q] /\ x1[q] = x2[q]
  PROVE  /\ Cardinality(HeldBy(w2, x2, b)) = Cardinality(HeldBy(w1, x1, b)) + 1
         /\ \A c : c # b => HeldBy(w2, x2, c) = HeldBy(w1, x1, c)
<1> DEFINE H == HeldBy(w1, x1, b)
<1>1. HeldBy(w2, x2, b) = H \cup {p} /\ p \notin H
  BY DEF HeldBy
<1>2. IsFiniteSet(H)
  <2>1. H \subseteq Procs
    BY DEF HeldBy
  <2> QED BY <2>1, Consts, FS_Subset
<1>3. \A c : c # b => HeldBy(w2, x2, c) = HeldBy(w1, x1, c)
  BY DEF HeldBy
<1> HIDE DEF H
<1>4. Cardinality(H \cup {p}) = Cardinality(H) + 1
  BY <1>1, <1>2, FS_AddElement
<1> QED BY <1>1, <1>3, <1>4 DEF H

\* Holders can be counted.
LEMMA HoldersFinite ==
  ASSUME NEW w, NEW x, NEW b
  PROVE  IsFiniteSet(HeldBy(w, x, b)) /\ Cardinality(HeldBy(w, x, b)) \in Nat
<1>1. HeldBy(w, x, b) \subseteq Procs
  BY DEF HeldBy
<1> QED BY <1>1, Consts, FS_Subset, FS_CardinalityType

\* The holders stay as long as nobody starts or ends an operation.
LEMMA SameHolders ==
  ASSUME NEW w1, NEW x1, NEW w2, NEW x2,
         \A q \in Procs : (w1[q] = "user" <=> w2[q] = "user") /\ x1[q].b = x2[q].b
  PROVE  \A b : HeldBy(w2, x2, b) = HeldBy(w1, x1, b)
BY DEF HeldBy

\* A buffer that is held is in use.
LEMMA HeldInUse ==
  ASSUME Inv, NEW p \in Procs, at[p] # "user"
  PROVE  op[p].b \in Buffers /\ buf[op[p].b].refcnt \in Nat \ {0} /\ InUse(op[p].b)
<1> DEFINE b == op[p].b
           H == HeldBy(at, op, b)
<1>1. b \in Buffers /\ p \in H
  BY DEF Inv, Holding, HeldBy
<1>2. H \subseteq Procs
  BY DEF HeldBy
<1>3. IsFiniteSet(H) /\ Cardinality(H) \in Nat
  BY <1>2, Consts, FS_Subset, FS_CardinalityType
<1>4. Cardinality(H) # 0
  BY <1>1, <1>3, FS_EmptySet
<1>5. buf[b].refcnt = Cardinality(H)
  BY <1>1 DEF Inv, Counts
<1> QED BY <1>1, <1>3, <1>4, <1>5 DEF InUse

\* Nobody holds a buffer whose count is zero.
LEMMA FreeNotHeld ==
  ASSUME Inv, NEW b \in Buffers, buf[b].refcnt = 0
  PROVE  \A p \in Procs : at[p] # "user" => op[p].b # b
BY HeldInUse

\* A block has one buffer in use.
LEMMA OneInUse ==
  ASSUME Types, Order, NEW b \in Buffers, NEW c \in Buffers, InUse(b), InUse(c), buf[b].blk = buf[c].blk
  PROVE  b = c
<1>1. PICK i \in Buffers : lru[i] = b
  BY DEF Types
<1>2. PICK j \in Buffers : lru[j] = c
  BY DEF Types
<1>3. ~(i < j) /\ ~(j < i)
  BY <1>1, <1>2 DEF Order
<1>4. i = j
  BY <1>3, Consts
<1> QED BY <1>1, <1>2, <1>4

-----------------------------------------------------------------------------
(* The steps *)

\* Steps of the scheduler and of the waits leave the buffers, the operations and
\* the request alone.
LEMMA FrameStep ==
  ASSUME Inv, UNCHANGED <<buf, lru, disk_busy, at, op, req, free, disk, entry>>,
         cpu' \in Procs \cup {None}, state' \in [Procs -> {"ready", "disk", "virtio"}],
         expired' \in BOOLEAN
  PROVE  Inv'
<1>1. Types'
  BY DEF Inv, Types
<1>2. Holding'
  BY DEF Inv, Holding, Inside
<1>3. Counts'
  BY DEF Inv, Counts
<1>4. Order'
  BY DEF Inv, Order, InUse
<1>5. Driver'
  BY DEF Inv, Driver, Inside
<1> QED BY <1>1, <1>2, <1>3, <1>4, <1>5 DEF Inv

\* bget returned b, and bio_read goes on to wait or returns.
LEMMA GotFacts ==
  ASSUME Inv, NEW p \in Procs, NEW kind \in {"read", "set", "clear"}, NEW k \in Blocks,
         kind = "read" => k \in Reads[p], kind # "read" => k \in Writes[p],
         NEW b \in Buffers, NEW bufs, at[p] = "user", Got(p, kind, k, b, bufs)
  PROVE  /\ op' \in [Procs -> OpRecs] /\ at' \in [Procs -> {"user", "held", "wait", "rw", "io", "wrote"}]
         /\ at'[p] \in {"held", "wait"} /\ (at'[p] = "held" => bufs[b].valid)
         /\ op'[p].kind = kind /\ op'[p].blk = k /\ op'[p].b = b /\ ~op'[p].write
         /\ \A q \in Procs \ {p} : at'[q] = at[q] /\ op'[q] = op[q]
         /\ Driver'
         /\ Cardinality(HeldBy(at', op', b)) = Cardinality(HeldBy(at, op, b)) + 1
         /\ \A c : c # b => HeldBy(at', op', c) = HeldBy(at, op, c)
<1> DEFINE x == [NoOp EXCEPT !.kind = kind, !.blk = k, !.b = b]
<1>1. /\ at \in [Procs -> {"user", "held", "wait", "rw", "io", "wrote"}]
      /\ op \in [Procs -> OpRecs]
  BY DEF Inv, Types
<1>2. /\ at' = [at EXCEPT ![p] = IF bufs[b].valid THEN "held" ELSE "wait"]
      /\ op' = [op EXCEPT ![p] = x]
      /\ UNCHANGED <<disk_busy, req, free>>
  BY DEF Got
<1>3. x.kind = kind /\ x.blk = k /\ x.b = b /\ x.write = FALSE /\ x.half = 0 /\ x.try = 0
  BY DEF NoOp
<1>4. /\ x \in OpRecs /\ x.kind = kind /\ x.blk = k /\ x.b = b /\ x.write = FALSE
  <2>1. NoOp \in OpRecs /\ b \in 0..NBUF
    BY Consts DEF NoOp, OpRecs
  <2>2. x \in OpRecs
    BY <2>1 DEF OpRecs
  <2> QED BY <1>3, <2>2
<1> HIDE DEF x
<1>5. /\ op' \in [Procs -> OpRecs] /\ at' \in [Procs -> {"user", "held", "wait", "rw", "io", "wrote"}]
      /\ at'[p] \in {"held", "wait"} /\ (at'[p] = "held" => bufs[b].valid)
      /\ \A q \in Procs \ {p} : at'[q] = at[q] /\ op'[q] = op[q]
  BY <1>1, <1>2, <1>4
<1>6. op'[p] = x
  BY <1>1, <1>2
<1>7. Driver'
  BY <1>2, <1>5 DEF Inv, Driver, Inside
<1>8. /\ Cardinality(HeldBy(at', op', b)) = Cardinality(HeldBy(at, op, b)) + 1
      /\ \A c : c # b => HeldBy(at', op', c) = HeldBy(at, op, c)
  <2>1. at'[p] # "user" /\ op'[p].b = b
    BY <1>4, <1>5, <1>6
  <2>2. \A q \in Procs \ {p} : at[q] = at'[q] /\ op[q] = op'[q]
    BY <1>5
  <2> QED BY <2>1, <2>2, MoreHolders, SMTT(30)
<1> QED BY <1>4, <1>5, <1>6, <1>7, <1>8

\* bget: a hit.
LEMMA HitStep ==
  ASSUME Inv, NEW p \in Procs, NEW kind \in {"read", "set", "clear"}, NEW k \in Blocks,
         kind = "read" => k \in Reads[p], kind # "read" => k \in Writes[p],
         BgetHit(p, kind, k)
  PROVE  Inv'
<1> DEFINE i == Min(Hits(k))
           b == lru[i]
           bufs == [buf EXCEPT ![b].refcnt = @ + 1]
<1>1. Hits(k) \subseteq Nat /\ Hits(k) # {}
  <2>1. Buffers \subseteq Nat
    BY Consts
  <2> QED BY <2>1 DEF BgetHit, Hits
<1>2. i \in Hits(k) /\ \A j \in Hits(k) : i <= j
  BY <1>1, MinIn
<1>3. at[p] = "user" /\ Got(p, kind, k, b, bufs)
  BY DEF BgetHit
<1> HIDE DEF i
<1>4. i \in Buffers /\ b \in Buffers /\ buf[b].blk = k
  BY <1>2 DEF Hits, Inv, Types
<1> HIDE DEF b
<1>5. buf \in [Buffers -> BufRecs]
  BY DEF Inv, Types
<1>6. buf' = bufs /\ UNCHANGED <<lru, disk_busy, state, req, free, expired, disk, entry>> /\ cpu' = p
  BY <1>3 DEF Got
<1>7. /\ buf' \in [Buffers -> BufRecs]
      /\ \A c \in Buffers : /\ buf'[c].blk = buf[c].blk /\ buf'[c].valid = buf[c].valid
                            /\ c # b => buf'[c].refcnt = buf[c].refcnt
      /\ buf'[b].refcnt = buf[b].refcnt + 1
  BY <1>4, <1>5, <1>6 DEF BufRecs
<1> HIDE DEF bufs
<1>8. /\ op' \in [Procs -> OpRecs] /\ at' \in [Procs -> {"user", "held", "wait", "rw", "io", "wrote"}]
      /\ at'[p] \in {"held", "wait"} /\ (at'[p] = "held" => bufs[b].valid)
      /\ op'[p].kind = kind /\ op'[p].blk = k /\ op'[p].b = b /\ ~op'[p].write
      /\ \A q \in Procs \ {p} : at'[q] = at[q] /\ op'[q] = op[q]
      /\ Driver'
      /\ Cardinality(HeldBy(at', op', b)) = Cardinality(HeldBy(at, op, b)) + 1
      /\ \A c : c # b => HeldBy(at', op', c) = HeldBy(at, op, c)
  BY <1>3, <1>4, GotFacts
<1>9. Types'
  BY <1>6, <1>7, <1>8 DEF Inv, Types
<1>10. Holding'
  BY <1>4, <1>6, <1>7, <1>8 DEF Inv, Holding, Inside
<1>11. Counts'
  BY <1>4, <1>6, <1>7, <1>8 DEF Inv, Counts
<1>12. Order'
  <2> SUFFICES ASSUME NEW m \in Buffers, NEW j \in Buffers, m < j, buf[lru[m]].blk = buf[lru[j]].blk
               PROVE  ~(InUse(lru[j]))'
    BY <1>6, <1>7 DEF Order, Inv, Types
  <2>1. ~InUse(lru[j]) /\ lru[j] \in Buffers
    BY DEF Inv, Order, Types
  <2>2. lru[j] # b
    <3> SUFFICES ASSUME lru[j] = b PROVE FALSE
      OBVIOUS
    <3>1. m \in Hits(k) /\ j = i
      BY <1>4 DEF Hits, b, Inv, Types
    <3> QED BY <1>1, <1>2, <3>1
  <2> QED BY <1>6, <1>7, <2>1, <2>2 DEF InUse
<1> QED BY <1>8, <1>9, <1>10, <1>11, <1>12 DEF Inv

\* bget: a buffer that nobody holds gets another block.
LEMMA RecycleStep ==
  ASSUME Inv, NEW p \in Procs, NEW kind \in {"read", "set", "clear"}, NEW k \in Blocks,
         kind = "read" => k \in Reads[p], kind # "read" => k \in Writes[p],
         BgetRecycle(p, kind, k)
  PROVE  Inv'
<1> DEFINE i == Max(Victims)
           b == lru[i]
           bufs == [buf EXCEPT ![b].blk = k, ![b].valid = FALSE, ![b].refcnt = 1]
<1>1. Victims \subseteq 1..NBUF /\ Victims # {} /\ Hits(k) = {}
  BY Consts DEF BgetRecycle, Victims
<1>2. i \in Victims
  BY <1>1, MaxIn, Consts
<1>3. at[p] = "user" /\ Got(p, kind, k, b, bufs)
  BY DEF BgetRecycle
<1> HIDE DEF i
<1>4. i \in Buffers /\ b \in Buffers /\ buf[b].refcnt = 0
  BY <1>2 DEF Victims, Inv, Types
<1> HIDE DEF b
<1>5. buf \in [Buffers -> BufRecs]
  BY DEF Inv, Types
<1>6. buf' = bufs /\ UNCHANGED <<lru, disk_busy, state, req, free, expired, disk, entry>> /\ cpu' = p
  BY <1>3 DEF Got
<1>7. /\ buf' \in [Buffers -> BufRecs]
      /\ \A c \in Buffers \ {b} : buf'[c] = buf[c]
      /\ buf'[b].blk = k /\ buf'[b].valid = FALSE /\ buf'[b].refcnt = 1
  BY <1>4, <1>5, <1>6 DEF BufRecs
<1> HIDE DEF bufs
<1>8. /\ op' \in [Procs -> OpRecs] /\ at' \in [Procs -> {"user", "held", "wait", "rw", "io", "wrote"}]
      /\ at'[p] \in {"held", "wait"} /\ (at'[p] = "held" => bufs[b].valid)
      /\ op'[p].kind = kind /\ op'[p].blk = k /\ op'[p].b = b /\ ~op'[p].write
      /\ \A q \in Procs \ {p} : at'[q] = at[q] /\ op'[q] = op[q]
      /\ Driver'
      /\ Cardinality(HeldBy(at', op', b)) = Cardinality(HeldBy(at, op, b)) + 1
      /\ \A c : c # b => HeldBy(at', op', c) = HeldBy(at, op, c)
  BY <1>3, <1>4, GotFacts
<1>9. Types'
  BY <1>6, <1>7, <1>8 DEF Inv, Types
<1>10. \A q \in Procs : at[q] # "user" => op[q].b # b
  BY <1>4, FreeNotHeld
<1>11. Holding'
  BY <1>4, <1>6, <1>7, <1>8, <1>10 DEF Inv, Holding, Inside
<1>12. Counts'
  <2>1. Cardinality(HeldBy(at, op, b)) = 0
    BY <1>4 DEF Inv, Counts
  <2> QED BY <1>4, <1>6, <1>7, <1>8, <2>1 DEF Inv, Counts
<1>13. Order'
  <2>1. \A j \in Buffers : buf[lru[j]].blk # k
    BY <1>1 DEF Hits
  <2> SUFFICES ASSUME NEW m \in Buffers, NEW j \in Buffers, m < j,
                      buf'[lru[m]].blk = buf'[lru[j]].blk
               PROVE  ~(InUse(lru[j]))'
    BY <1>6 DEF Order
  <2>2. lru[m] \in Buffers /\ lru[j] \in Buffers /\ lru[m] # lru[j]
    BY Consts DEF Inv, Types
  <2>3. lru[m] # b /\ lru[j] # b
    BY <1>7, <2>1, <2>2
  <2>4. ~InUse(lru[j])
    BY <1>7, <2>2, <2>3 DEF Inv, Order
  <2> QED BY <1>6, <1>7, <2>2, <2>3, <2>4 DEF InUse
<1> QED BY <1>8, <1>9, <1>11, <1>12, <1>13 DEF Inv

\* Where the buffer at place j was before the one at place i went to the front.
Old(i, j) == IF j = 1 THEN i ELSE IF j <= i THEN j - 1 ELSE j

\* The places are permuted; those behind the first keep their order.
LEMMA OldPlaces ==
  ASSUME NEW i \in Buffers
  PROVE  /\ \A j \in Buffers : Old(i, j) \in Buffers
         /\ \A j, m \in Buffers : Old(i, j) = Old(i, m) => j = m
         /\ \A t \in Buffers : \E j \in Buffers : Old(i, j) = t
         /\ \A m, j \in Buffers : 1 < m /\ m < j => Old(i, m) < Old(i, j)
         /\ Old(i, 1) = i
<1>1. NBUF \in Nat /\ Buffers = 1..NBUF
  BY Consts
<1>2. ASSUME NEW t \in Buffers PROVE \E j \in Buffers : Old(i, j) = t
  <2>1. CASE t = i
    BY <1>1, <2>1 DEF Old
  <2>2. CASE t < i
    <3>1. t + 1 \in Buffers /\ Old(i, t + 1) = t
      BY <1>1, <2>2 DEF Old
    <3> QED BY <3>1
  <2>3. CASE t > i
    <3>1. Old(i, t) = t
      BY <1>1, <2>3 DEF Old
    <3> QED BY <3>1
  <2> QED BY <1>1, <2>1, <2>2, <2>3
<1> QED BY <1>1, <1>2 DEF Old

\* bio_release: what it does to the buffers, the list and the holder.
LEMMA ReleaseFacts ==
  ASSUME Inv, NEW p \in Procs, at[p] # "user", BioRelease(p)
  PROVE  /\ buf' \in [Buffers -> BufRecs]
         /\ \A c \in Buffers : /\ buf'[c].blk = buf[c].blk /\ buf'[c].valid = buf[c].valid
                               /\ buf'[c].data = buf[c].data
         /\ lru' \in [Buffers -> Buffers]
         /\ \A i, j \in Buffers : lru'[i] = lru'[j] => i = j
         /\ \A b \in Buffers : \E i \in Buffers : lru'[i] = b
         /\ at' \in [Procs -> {"user", "held", "wait", "rw", "io", "wrote"}]
         /\ op' \in [Procs -> OpRecs] /\ cpu' = None
         /\ at'[p] = "user" /\ \A q \in Procs \ {p} : at'[q] = at[q] /\ op'[q] = op[q]
         /\ Holding' /\ Counts' /\ Order'
<1>1. PICK b : b = op[p].b /\ b \in Buffers /\ buf[b].refcnt \in Nat \ {0} /\ InUse(b)
  BY HeldInUse
<1> DEFINE i == CHOOSE i \in Buffers : lru[i] = b
<1>2. i \in Buffers /\ lru[i] = b
  BY <1>1 DEF Inv, Types
<1>3. /\ buf' = [buf EXCEPT ![b].refcnt = @ - 1] /\ lru' = Released(b)
      /\ at' = [at EXCEPT ![p] = "user"] /\ op' = [op EXCEPT ![p] = NoOp] /\ cpu' = None
      /\ buf[b].refcnt = 1 => lru' = ToFront(i)
      /\ buf[b].refcnt # 1 => lru' = lru
  BY <1>1 DEF BioRelease, Released
<1> HIDE DEF i
<1>4. /\ buf \in [Buffers -> BufRecs] /\ op \in [Procs -> OpRecs]
      /\ at \in [Procs -> {"user", "held", "wait", "rw", "io", "wrote"}]
  BY DEF Inv, Types
<1>5. NoOp \in OpRecs
  BY Consts DEF NoOp, OpRecs
<1>6. /\ at' \in [Procs -> {"user", "held", "wait", "rw", "io", "wrote"}]
      /\ op' \in [Procs -> OpRecs] /\ cpu' = None
      /\ at'[p] = "user" /\ \A q \in Procs \ {p} : at'[q] = at[q] /\ op'[q] = op[q]
  BY <1>3, <1>4, <1>5
<1>7. /\ buf' \in [Buffers -> BufRecs]
      /\ \A c \in Buffers : /\ buf'[c].blk = buf[c].blk /\ buf'[c].valid = buf[c].valid
                            /\ buf'[c].data = buf[c].data
                            /\ c # b => buf'[c].refcnt = buf[c].refcnt
      /\ buf'[b].refcnt = buf[b].refcnt - 1
  <2>1. buf[b].refcnt - 1 \in Nat
    BY <1>1
  <2> QED BY <1>1, <1>3, <1>4, <2>1 DEF BufRecs
<1>8. Holding'
  BY <1>6, <1>7 DEF Inv, Holding, Inside
<1>9. Counts'
  <2>1. /\ Cardinality(HeldBy(at', op', b)) = Cardinality(HeldBy(at, op, b)) - 1
        /\ \A c : c # b => HeldBy(at', op', c) = HeldBy(at, op, c)
    <3>1. \A q \in Procs \ {p} : at'[q] = at[q] /\ op'[q] = op[q]
      BY <1>6
    <3>2. (at[p] # "user" /\ op[p].b = b) /\ at'[p] = "user"
      BY <1>1, <1>6
    <3>3. Cardinality(HeldBy(at, op, b)) = Cardinality(HeldBy(at', op', b)) + 1
      <4>1. HeldBy(at, op, b) = HeldBy(at', op', b) \cup {p} /\ p \notin HeldBy(at', op', b)
        BY <3>1, <3>2 DEF HeldBy
      <4>2. IsFiniteSet(HeldBy(at', op', b))
        BY HoldersFinite
      <4> QED BY <4>1, <4>2, FS_AddElement
    <3>5. Cardinality(HeldBy(at', op', b)) \in Nat
      BY HoldersFinite
    <3>4. \A c : c # b => HeldBy(at', op', c) = HeldBy(at, op, c)
      BY <3>1, <3>2 DEF HeldBy
    <3> QED BY <3>3, <3>4, <3>5
  <2> QED BY <1>1, <1>7, <2>1 DEF Inv, Counts
<1>10. \A c \in Buffers : (InUse(c))' => InUse(c)
  BY <1>1, <1>4, <1>7 DEF InUse, BufRecs
<1>11. CASE buf[b].refcnt # 1
  <2>1. Order'
    BY <1>3, <1>7, <1>10, <1>11 DEF Inv, Order, Types
  <2> QED BY <1>3, <1>6, <1>7, <1>8, <1>9, <1>11, <2>1 DEF Inv, Types
<1>12. CASE buf[b].refcnt = 1
  <2>1. lru \in [Buffers -> Buffers]
    BY DEF Inv, Types
  <2>2. \A j \in Buffers : lru'[j] = lru[Old(i, j)]
    BY <1>2, <1>3, <1>12, Consts DEF ToFront, Old
  <2>3. lru' \in [Buffers -> Buffers]
    <3>1. \A j \in Buffers : Old(i, j) \in Buffers
      BY <1>2, OldPlaces
    <3>2. \A j \in Buffers : lru'[j] \in Buffers
      BY <2>1, <2>2, <3>1
    <3> QED BY <1>3, <1>12, <3>2 DEF ToFront
  <2>4. \A j, m \in Buffers : lru'[j] = lru'[m] => j = m
    BY <1>2, <2>2, OldPlaces DEF Inv, Types
  <2>5. ASSUME NEW c \in Buffers PROVE \E j \in Buffers : lru'[j] = c
    <3>1. PICK t \in Buffers : lru[t] = c
      BY DEF Inv, Types
    <3>2. PICK j \in Buffers : Old(i, j) = t
      BY <1>2, OldPlaces
    <3> QED BY <2>2, <3>1, <3>2
  <2>6. Order'
    <3> SUFFICES ASSUME NEW m \in Buffers, NEW j \in Buffers, m < j,
                        buf'[lru'[m]].blk = buf'[lru'[j]].blk
                 PROVE  ~(buf'[lru'[j]].refcnt > 0 \/ buf'[lru'[j]].valid)
      BY DEF Order, InUse
    <3> DEFINE mm == Old(i, m)
               jj == Old(i, j)
    <3>1. mm \in Buffers /\ jj \in Buffers /\ lru[mm] \in Buffers /\ lru[jj] \in Buffers
      BY <1>2, <2>1, OldPlaces
    <3>2. buf[lru[mm]].blk = buf[lru[jj]].blk
      BY <1>7, <2>2, <3>1
    <3>3. mm # jj
      BY <1>2, OldPlaces, Consts
    <3>4. CASE m = 1
      <4>1. mm = i
        BY <1>2, <3>4, OldPlaces
      <4>2. ~(jj < i)
        BY <1>1, <1>2, <3>1, <3>2, <4>1 DEF Inv, Order
      <4>3. i < jj
        BY <1>2, <3>1, <3>3, <4>1, <4>2, Consts
      <4>4. ~InUse(lru[jj])
        BY <1>2, <3>1, <3>2, <4>1, <4>3 DEF Inv, Order
      <4> QED BY <1>10, <2>2, <3>1, <4>4 DEF InUse
    <3>5. CASE m # 1
      <4>1. mm < jj
        BY <1>2, <3>5, OldPlaces, Consts
      <4>2. ~InUse(lru[jj])
        BY <3>1, <3>2, <4>1 DEF Inv, Order
      <4> QED BY <1>10, <2>2, <3>1, <4>2 DEF InUse
    <3> QED BY <3>4, <3>5
  <2> QED BY <1>6, <1>7, <1>8, <1>9, <2>3, <2>4, <2>5, <2>6
<1> QED BY <1>11, <1>12

\* The caller of bio_read releases the buffer.
LEMMA ReleaseStep ==
  ASSUME Inv, NEW p \in Procs, Release(p)
  PROVE  Inv'
<1>1. /\ at[p] \in {"held", "wrote"} /\ BioRelease(p)
      /\ UNCHANGED <<disk_busy, state, req, free, expired, disk, entry>>
  BY DEF Release
<1>2. at[p] # "user"
  BY <1>1
<1>3. /\ buf' \in [Buffers -> BufRecs]
      /\ lru' \in [Buffers -> Buffers]
      /\ \A i, j \in Buffers : lru'[i] = lru'[j] => i = j
      /\ \A b \in Buffers : \E i \in Buffers : lru'[i] = b
      /\ at' \in [Procs -> {"user", "held", "wait", "rw", "io", "wrote"}]
      /\ op' \in [Procs -> OpRecs] /\ cpu' = None
      /\ at'[p] = "user" /\ \A q \in Procs \ {p} : at'[q] = at[q] /\ op'[q] = op[q]
      /\ Holding' /\ Counts' /\ Order'
  BY <1>1, <1>2, ReleaseFacts
<1>4. Types'
  BY <1>1, <1>3 DEF Inv, Types
<1>5. Driver'
  BY <1>1, <1>3 DEF Inv, Driver, Inside
<1> QED BY <1>3, <1>4, <1>5 DEF Inv

\* An operation goes on with another half or attempt.
LEMMA OpMoved ==
  ASSUME op \in [Procs -> OpRecs], NEW p \in Procs, NEW h \in 0..2, NEW n \in 0..MaxRetries,
         op' = [op EXCEPT ![p].half = h, ![p].try = n]
  PROVE  /\ op' \in [Procs -> OpRecs]
         /\ op'[p].kind = op[p].kind /\ op'[p].blk = op[p].blk /\ op'[p].b = op[p].b
         /\ op'[p].write = op[p].write /\ op'[p].half = h /\ op'[p].try = n
         /\ \A q \in Procs \ {p} : op'[q] = op[q]
<1> DEFINE x == [op[p] EXCEPT !.half = h, !.try = n]
<1>1. op[p] \in OpRecs
  OBVIOUS
<1>2. x \in OpRecs
  BY <1>1 DEF OpRecs
<1>3. /\ x.kind = op[p].kind /\ x.blk = op[p].blk /\ x.b = op[p].b
      /\ x.write = op[p].write /\ x.half = h /\ x.try = n
  BY <1>1 DEF OpRecs
<1>4. op' = [op EXCEPT ![p] = x]
  OBVIOUS
<1> HIDE DEF x
<1> QED BY <1>2, <1>3, <1>4

\* disk_wait takes the disk.
LEMMA TakeStep ==
  ASSUME Inv, NEW p \in Procs, DiskTake(p)
  PROVE  Inv'
<1>1. /\ at[p] = "wait" /\ ~disk_busy /\ disk_busy' = TRUE /\ at' = [at EXCEPT ![p] = "rw"]
      /\ op' = [op EXCEPT ![p].half = 1, ![p].try = 1]
      /\ UNCHANGED <<buf, lru, cpu, state, req, free, expired, disk, entry>>
  BY DEF DiskTake
<1>2. /\ op \in [Procs -> OpRecs]
      /\ at \in [Procs -> {"user", "held", "wait", "rw", "io", "wrote"}]
  BY DEF Inv, Types
<1>3. /\ op' \in [Procs -> OpRecs]
      /\ op'[p].kind = op[p].kind /\ op'[p].blk = op[p].blk /\ op'[p].b = op[p].b
      /\ op'[p].write = op[p].write /\ op'[p].half = 1 /\ op'[p].try = 1
      /\ \A q \in Procs \ {p} : op'[q] = op[q]
  <2>1. 1 \in 0..2 /\ 1 \in 0..MaxRetries
    BY Consts
  <2> QED BY <1>1, <1>2, <2>1, OpMoved
<1>4. /\ at' \in [Procs -> {"user", "held", "wait", "rw", "io", "wrote"}]
      /\ at'[p] = "rw" /\ \A q \in Procs \ {p} : at'[q] = at[q]
  BY <1>1, <1>2
<1>5. Types'
  BY <1>1, <1>3, <1>4 DEF Inv, Types
<1>6. Holding'
  BY <1>1, <1>3, <1>4, Consts DEF Inv, Holding, Inside
<1>7. Counts'
  <2>1. \A q \in Procs : (at[q] = "user" <=> at'[q] = "user") /\ op[q].b = op'[q].b
    BY <1>1, <1>3, <1>4
  <2>2. \A b : HeldBy(at', op', b) = HeldBy(at, op, b)
    BY <2>1, SameHolders
  <2> QED BY <1>1, <2>2 DEF Inv, Counts
<1>8. Order'
  BY <1>1 DEF Inv, Order, InUse
<1>9. Driver'
  BY <1>1, <1>3, <1>4 DEF Inv, Driver, Inside
<1> QED BY <1>5, <1>6, <1>7, <1>8, <1>9 DEF Inv

\* Half a buffer gets another content.
LEMMA BufData ==
  ASSUME buf \in [Buffers -> BufRecs], NEW b \in Buffers, NEW h \in 1..2, NEW v \in SUBSET Procs,
         buf' = [buf EXCEPT ![b].data[h] = v]
  PROVE  /\ buf' \in [Buffers -> BufRecs]
         /\ \A c \in Buffers : /\ buf'[c].blk = buf[c].blk /\ buf'[c].valid = buf[c].valid
                               /\ buf'[c].refcnt = buf[c].refcnt
                               /\ c # b => buf'[c].data = buf[c].data
<1> DEFINE d == [buf[b].data EXCEPT ![h] = v]
           x == [buf[b] EXCEPT !.data = d]
<1>1. buf[b] \in BufRecs /\ buf[b].data \in [1..2 -> SUBSET Procs]
  BY DEF BufRecs, Data
<1>2. d \in [1..2 -> SUBSET Procs]
  BY <1>1
<1> HIDE DEF d
<1>3. x \in BufRecs
  BY <1>1, <1>2 DEF BufRecs, Data
<1>4. x.blk = buf[b].blk /\ x.valid = buf[b].valid /\ x.refcnt = buf[b].refcnt
  BY <1>1 DEF BufRecs
<1>5. buf' = [buf EXCEPT ![b] = x]
  BY DEF d
<1> HIDE DEF x
<1> QED BY <1>3, <1>4, <1>5

\* What stays when only the contents of buffers change.
LEMMA DataStep ==
  ASSUME Inv, buf' \in [Buffers -> BufRecs],
         \A c \in Buffers : /\ buf'[c].blk = buf[c].blk /\ buf'[c].valid = buf[c].valid
                            /\ buf'[c].refcnt = buf[c].refcnt,
         UNCHANGED lru
  PROVE  Order'
BY DEF Inv, Order, InUse, Types

\* The caller changes its entry.
LEMMA ModifyStep ==
  ASSUME Inv, NEW p \in Procs, Modify(p)
  PROVE  Inv'
<1> DEFINE b == op[p].b
           h == HalfOf[p]
           v == IF op[p].kind = "set" THEN buf[b].data[h] \cup {p} ELSE buf[b].data[h] \ {p}
<1>1. /\ at[p] = "held" /\ op[p].kind \in {"set", "clear"}
      /\ at' = [at EXCEPT ![p] = "wait"] /\ op' = [op EXCEPT ![p].write = TRUE]
      /\ entry' = [entry EXCEPT ![p][op[p].blk] = "open"]
      /\ UNCHANGED <<lru, disk_busy, cpu, state, req, free, expired, disk>>
  BY DEF Modify
<1>2. buf' = [buf EXCEPT ![b].data[h] = v]
  BY DEF Modify
<1>3. b \in Buffers /\ h \in 1..2 /\ buf \in [Buffers -> BufRecs] /\ op \in [Procs -> OpRecs]
      /\ at \in [Procs -> {"user", "held", "wait", "rw", "io", "wrote"}]
  BY <1>1, Consts DEF Inv, Holding, Types
<1>4. v \in SUBSET Procs
  BY <1>3 DEF BufRecs, Data
<1> HIDE DEF b, h, v
<1>5. /\ buf' \in [Buffers -> BufRecs]
      /\ \A c \in Buffers : /\ buf'[c].blk = buf[c].blk /\ buf'[c].valid = buf[c].valid
                            /\ buf'[c].refcnt = buf[c].refcnt
  BY <1>2, <1>3, <1>4, BufData
<1>6. /\ op' \in [Procs -> OpRecs]
      /\ op'[p].kind = op[p].kind /\ op'[p].blk = op[p].blk /\ op'[p].b = op[p].b
      /\ op'[p].write = TRUE
      /\ \A q \in Procs \ {p} : op'[q] = op[q]
  BY <1>1, <1>3 DEF OpRecs
<1>7. /\ at' \in [Procs -> {"user", "held", "wait", "rw", "io", "wrote"}]
      /\ at'[p] = "wait" /\ \A q \in Procs \ {p} : at'[q] = at[q]
  BY <1>1, <1>3
<1>8. Types'
  <2>1. entry' \in [Procs -> [Blocks -> {"open", "set", "clear"}]]
    BY <1>1 DEF Inv, Types
  <2> QED BY <1>1, <1>5, <1>6, <1>7, <2>1 DEF Inv, Types
<1>9. Holding'
  BY <1>1, <1>5, <1>6, <1>7, Consts DEF Inv, Holding, Inside
<1>10. Counts'
  <2>1. \A q \in Procs : (at[q] = "user" <=> at'[q] = "user") /\ op[q].b = op'[q].b
    BY <1>1, <1>6, <1>7
  <2>2. \A c : HeldBy(at', op', c) = HeldBy(at, op, c)
    BY <2>1, SameHolders
  <2> QED BY <1>5, <2>2 DEF Inv, Counts
<1>11. Order'
  BY <1>1, <1>5, DataStep
<1>12. Driver'
  BY <1>1, <1>6, <1>7 DEF Inv, Driver, Inside
<1> QED BY <1>8, <1>9, <1>10, <1>11, <1>12 DEF Inv

\* Only the process inside the driver can have a request at the device.
LEMMA RequestOwner ==
  ASSUME Inv, NEW p \in Procs, Inside(p)
  PROVE  /\ \A q \in Procs : Inside(q) => q = p
         /\ at[p] = "rw" => req = None /\ free = QueueSize
         /\ at[p] = "io" => /\ req # None /\ req \in Requests /\ free = QueueSize - 3
                            /\ req.b = op[p].b /\ req.blk = op[p].blk
                            /\ req.half = op[p].half /\ req.write = op[p].write
<1>1. \A q \in Procs : Inside(q) => q = p
  BY DEF Inv, Driver
<1>2. ASSUME at[p] = "rw" PROVE req = None /\ free = QueueSize
  <2>1. req = None
    BY <1>1, <1>2 DEF Inv, Driver, Inside
  <2> QED BY <2>1, Consts DEF Inv, Driver
<1>3. ASSUME at[p] = "io"
      PROVE  /\ req # None /\ req \in Requests
             /\ req.b = op[p].b /\ req.blk = op[p].blk
             /\ req.half = op[p].half /\ req.write = op[p].write
  BY <1>3 DEF Inv, Driver, Types
<1>4. ASSUME at[p] = "io" PROVE free = QueueSize - 3
  BY <1>3, <1>4 DEF Inv, Driver
<1> QED BY <1>1, <1>2, <1>3, <1>4

\* bio_read or bio_write returns: disk_done, and the buffer is valid, written or
\* released.
LEMMA FinishStep ==
  ASSUME Inv, NEW p \in Procs, Inside(p), NEW ok \in BOOLEAN, Finish(p, ok),
         req' = None, free' = QueueSize, expired' \in BOOLEAN, disk' = disk
  PROVE  Inv'
<1>1. disk_busy' = FALSE /\ state' = Wakeup("disk")
  BY DEF Finish, DiskDone
<1>0. req' \in {None} \cup Requests /\ free' \in 0..QueueSize /\ disk' \in [Blocks -> Data]
  BY Consts DEF Inv, Types
<1>2. state' \in [Procs -> {"ready", "disk", "virtio"}]
  BY <1>1 DEF Wakeup, Inv, Types
<1>3. \A q \in Procs : Inside(q) => q = p
  BY RequestOwner
<1>4. at[p] # "user"
  BY DEF Inside
<1>5. /\ buf \in [Buffers -> BufRecs] /\ op \in [Procs -> OpRecs]
      /\ at \in [Procs -> {"user", "held", "wait", "rw", "io", "wrote"}]
  BY DEF Inv, Types
<1>6. ASSUME at'[p] \notin {"rw", "io"}, \A q \in Procs \ {p} : at'[q] = at[q] /\ op'[q] = op[q]
      PROVE  Driver'
  BY <1>1, <1>3, <1>6, Consts DEF Inv, Driver, Inside
<1>7. ASSUME NEW a \in {"held", "wrote"}, at' = [at EXCEPT ![p] = a],
             op' = [op EXCEPT ![p].half = 0, ![p].try = 0]
      PROVE  /\ op' \in [Procs -> OpRecs]
             /\ op'[p].kind = op[p].kind /\ op'[p].blk = op[p].blk /\ op'[p].b = op[p].b
             /\ op'[p].write = op[p].write
             /\ at' \in [Procs -> {"user", "held", "wait", "rw", "io", "wrote"}]
             /\ at'[p] = a /\ \A q \in Procs \ {p} : at'[q] = at[q] /\ op'[q] = op[q]
             /\ \A c : HeldBy(at', op', c) = HeldBy(at, op, c)
  <2>1. 0 \in 0..2 /\ 0 \in 0..MaxRetries
    BY Consts
  <2>2. /\ op' \in [Procs -> OpRecs]
        /\ op'[p].kind = op[p].kind /\ op'[p].blk = op[p].blk /\ op'[p].b = op[p].b
        /\ op'[p].write = op[p].write
        /\ \A q \in Procs \ {p} : op'[q] = op[q]
    BY <1>5, <1>7, <2>1, OpMoved
  <2>3. /\ at' \in [Procs -> {"user", "held", "wait", "rw", "io", "wrote"}]
        /\ at'[p] = a /\ \A q \in Procs \ {p} : at'[q] = at[q]
    BY <1>5, <1>7
  <2>4. \A q \in Procs : (at[q] = "user" <=> at'[q] = "user") /\ op[q].b = op'[q].b
    BY <1>4, <2>2, <2>3
  <2>5. \A c : HeldBy(at', op', c) = HeldBy(at, op, c)
    BY <2>4 DEF HeldBy
  <2> QED BY <2>2, <2>3, <2>5
<1>8. CASE op[p].write
  <2>1. /\ at' = [at EXCEPT ![p] = "wrote"] /\ op' = [op EXCEPT ![p].half = 0, ![p].try = 0]
        /\ entry' = IF ok THEN [entry EXCEPT ![p][op[p].blk] = op[p].kind] ELSE entry
        /\ UNCHANGED <<buf, lru, cpu>>
    BY <1>8 DEF Finish
  <2>2. /\ op' \in [Procs -> OpRecs]
        /\ op'[p].kind = op[p].kind /\ op'[p].blk = op[p].blk /\ op'[p].b = op[p].b
        /\ op'[p].write = op[p].write
        /\ at' \in [Procs -> {"user", "held", "wait", "rw", "io", "wrote"}]
        /\ at'[p] = "wrote" /\ \A q \in Procs \ {p} : at'[q] = at[q] /\ op'[q] = op[q]
        /\ \A c : HeldBy(at', op', c) = HeldBy(at, op, c)
    BY <1>7, <2>1
  <2>3. entry' \in [Procs -> [Blocks -> {"open", "set", "clear"}]]
    <3>1. op[p].kind \in {"set", "clear"} /\ entry \in [Procs -> [Blocks -> {"open", "set", "clear"}]]
      BY <1>4, <1>8 DEF Inv, Holding, Types
    <3> QED BY <2>1, <3>1
  <2>4. Types'
    BY <1>1, <1>2, <1>0, <2>1, <2>2, <2>3 DEF Inv, Types
  <2>5. Holding'
    BY <1>4, <2>1, <2>2 DEF Inv, Holding, Inside
  <2>6. Counts' /\ Order'
    <3>1. Counts'
      BY <2>1, <2>2 DEF Inv, Counts
    <3>2. Order'
      BY <2>1 DEF Inv, Order, InUse
    <3> QED BY <3>1, <3>2
  <2>7. Driver'
    BY <1>6, <2>2
  <2> QED BY <2>4, <2>5, <2>6, <2>7 DEF Inv
<1>9. CASE ~op[p].write /\ ok
  <2> DEFINE b == op[p].b
  <2>1. /\ at' = [at EXCEPT ![p] = "held"] /\ op' = [op EXCEPT ![p].half = 0, ![p].try = 0]
        /\ buf' = [buf EXCEPT ![b].valid = TRUE]
        /\ UNCHANGED <<lru, cpu, entry>>
    BY <1>9 DEF Finish
  <2>2. /\ op' \in [Procs -> OpRecs]
        /\ op'[p].kind = op[p].kind /\ op'[p].blk = op[p].blk /\ op'[p].b = op[p].b
        /\ op'[p].write = op[p].write
        /\ at' \in [Procs -> {"user", "held", "wait", "rw", "io", "wrote"}]
        /\ at'[p] = "held" /\ \A q \in Procs \ {p} : at'[q] = at[q] /\ op'[q] = op[q]
        /\ \A c : HeldBy(at', op', c) = HeldBy(at, op, c)
    BY <1>7, <2>1
  <2>3. b \in Buffers /\ InUse(b)
    BY <1>4, HeldInUse
  <2> HIDE DEF b
  <2>4. /\ buf' \in [Buffers -> BufRecs]
        /\ \A c \in Buffers : /\ buf'[c].blk = buf[c].blk /\ buf'[c].refcnt = buf[c].refcnt
                              /\ c # b => buf'[c].valid = buf[c].valid
    BY <1>5, <2>1, <2>3 DEF BufRecs
  <2>5. Types'
    <3>1. UNCHANGED <<lru, cpu, entry>> /\ buf' \in [Buffers -> BufRecs]
      BY <2>1, <2>4
    <3> QED BY <1>0, <1>1, <1>2, <2>2, <3>1 DEF Inv, Types
  <2>6. Holding'
    BY <1>4, <1>9, <2>2, <2>4 DEF Inv, Holding, Inside
  <2>7. Counts'
    BY <2>2, <2>4 DEF Inv, Counts
  <2>8. Order'
    BY <2>1, <2>3, <2>4 DEF Inv, Order, InUse, Types
  <2>9. Driver'
    BY <1>6, <2>2
  <2> QED BY <2>5, <2>6, <2>7, <2>8, <2>9 DEF Inv
<1>10. CASE ~op[p].write /\ ~ok
  <2>1. BioRelease(p) /\ UNCHANGED entry
    BY <1>10 DEF Finish
  <2>2. /\ buf' \in [Buffers -> BufRecs]
        /\ lru' \in [Buffers -> Buffers]
        /\ \A i, j \in Buffers : lru'[i] = lru'[j] => i = j
        /\ \A b \in Buffers : \E i \in Buffers : lru'[i] = b
        /\ at' \in [Procs -> {"user", "held", "wait", "rw", "io", "wrote"}]
        /\ op' \in [Procs -> OpRecs] /\ cpu' = None
        /\ at'[p] = "user" /\ \A q \in Procs \ {p} : at'[q] = at[q] /\ op'[q] = op[q]
        /\ Holding' /\ Counts' /\ Order'
    BY <1>4, <2>1, ReleaseFacts
  <2>3. Types'
    BY <1>1, <1>2, <1>0, <2>1, <2>2 DEF Inv, Types
  <2>4. Driver'
    BY <1>6, <2>2
  <2> QED BY <2>2, <2>3, <2>4 DEF Inv
<1> QED BY <1>5, <1>8, <1>9, <1>10 DEF OpRecs

\* virtio_disk_rw puts a request on the queue.
LEMMA NotifyStep ==
  ASSUME Inv, NEW p \in Procs, Notify(p)
  PROVE  Inv'
<1> DEFINE r == [b |-> op[p].b, blk |-> buf[op[p].b].blk, half |-> op[p].half,
                 write |-> op[p].write, state |-> "queued"]
<1>1. /\ at[p] = "rw" /\ free' = free - 3 /\ at' = [at EXCEPT ![p] = "io"] /\ req' = r
      /\ UNCHANGED <<buf, lru, disk_busy, cpu, state, op, expired, disk, entry>>
  BY DEF Notify
<1>2. /\ op \in [Procs -> OpRecs] /\ buf \in [Buffers -> BufRecs]
      /\ at \in [Procs -> {"user", "held", "wait", "rw", "io", "wrote"}]
  BY DEF Inv, Types
<1>3. Inside(p) /\ op[p].b \in Buffers /\ buf[op[p].b].blk = op[p].blk /\ op[p].half \in 1..2
  BY <1>1 DEF Inv, Holding, Inside
<1>4. /\ r.b = op[p].b /\ r.blk = op[p].blk /\ r.half = op[p].half /\ r.write = op[p].write
      /\ r \in Requests
  BY <1>2, <1>3 DEF Requests, OpRecs
<1>5. (\A q \in Procs : Inside(q) => q = p) /\ req = None /\ free = QueueSize
  BY <1>1, <1>3, RequestOwner
<1> HIDE DEF r
<1>6. r # None
  BY <1>4, BioConstants DEF BioConstants
<1>7. /\ at' \in [Procs -> {"user", "held", "wait", "rw", "io", "wrote"}]
      /\ at'[p] = "io" /\ \A q \in Procs \ {p} : at'[q] = at[q]
  BY <1>1, <1>2
<1>8. Types'
  <2>1. free' \in 0..QueueSize
    BY <1>1, <1>5, Consts
  <2> QED BY <1>1, <1>4, <1>7, <2>1 DEF Inv, Types
<1>9. Holding'
  BY <1>1, <1>3, <1>7 DEF Inv, Holding, Inside
<1>10. Counts'
  <2>1. \A c : HeldBy(at', op', c) = HeldBy(at, op, c)
    BY <1>1, <1>7 DEF HeldBy
  <2> QED BY <1>1, <2>1 DEF Inv, Counts
<1>11. Order'
  BY <1>1 DEF Inv, Order, InUse
<1>12. Driver'
  <2>1. \A q \in Procs : (Inside(q))' <=> Inside(q)
    BY <1>1, <1>7 DEF Inside
  <2>2. free' = QueueSize - 3
    BY <1>1, <1>5
  <2> QED BY <1>1, <1>3, <1>4, <1>5, <1>6, <1>7, <2>1, <2>2 DEF Inv, Driver, Inside
<1> QED BY <1>8, <1>9, <1>10, <1>11, <1>12 DEF Inv

\* virtio_disk_rw returns, and the next half or attempt comes.
LEMMA AgainStep ==
  ASSUME Inv, NEW p \in Procs, at[p] = "io", NEW h \in 1..2, NEW n \in 1..MaxRetries,
         free' = free + 3, req' = None, expired' = FALSE, disk' = disk,
         at' = [at EXCEPT ![p] = "rw"], op' = [op EXCEPT ![p].half = h, ![p].try = n],
         UNCHANGED <<buf, lru, disk_busy, cpu, state, entry>>
  PROVE  Inv'
<1>1. /\ op \in [Procs -> OpRecs]
      /\ at \in [Procs -> {"user", "held", "wait", "rw", "io", "wrote"}]
  BY DEF Inv, Types
<1>2. h \in 0..2 /\ n \in 0..MaxRetries
  BY Consts
<1>3. /\ op' \in [Procs -> OpRecs]
      /\ op'[p].kind = op[p].kind /\ op'[p].blk = op[p].blk /\ op'[p].b = op[p].b
      /\ op'[p].write = op[p].write /\ op'[p].half = h /\ op'[p].try = n
      /\ \A q \in Procs \ {p} : op'[q] = op[q]
  BY <1>1, <1>2, OpMoved
<1>4. /\ at' \in [Procs -> {"user", "held", "wait", "rw", "io", "wrote"}]
      /\ at'[p] = "rw" /\ \A q \in Procs \ {p} : at'[q] = at[q]
  BY <1>1
<1>5. Inside(p)
  BY DEF Inside
<1>6. (\A q \in Procs : Inside(q) => q = p) /\ free = QueueSize - 3
  BY <1>5, RequestOwner
<1>7. free' = QueueSize
  BY <1>6, Consts
<1>8. Types'
  <2>1. free' \in 0..QueueSize
    BY <1>7, Consts
  <2>2. req' \in {None} \cup Requests /\ expired' \in BOOLEAN
    OBVIOUS
  <2>3. op' \in [Procs -> OpRecs] /\ at' \in [Procs -> {"user", "held", "wait", "rw", "io", "wrote"}]
    BY <1>3, <1>4
  <2> QED BY <2>1, <2>2, <2>3 DEF Inv, Types
<1>9. Holding'
  BY <1>3, <1>4, <1>5 DEF Inv, Holding, Inside
<1>10. Counts'
  <2>1. \A c : HeldBy(at', op', c) = HeldBy(at, op, c)
    BY <1>3, <1>4 DEF HeldBy
  <2> QED BY <2>1 DEF Inv, Counts
<1>11. Order'
  BY DEF Inv, Order, InUse
<1>12. Driver'
  <2>1. \A q \in Procs : (Inside(q))' <=> Inside(q)
    BY <1>4, <1>5 DEF Inside
  <2>2. \A q \in Procs : at'[q] # "io"
    BY <1>4, <1>6 DEF Inside
  <2> QED BY <1>7, <2>1, <2>2, Consts DEF Inv, Driver
<1> QED BY <1>8, <1>9, <1>10, <1>11, <1>12 DEF Inv

\* The three ways out of virtio_disk_rw.
LEMMA ReturnStep ==
  ASSUME Inv, NEW p \in Procs, RwReturns(p) \/ RwTimeout(p) \/ NotReady(p)
  PROVE  Inv'
<1>1. CASE RwReturns(p)
  <2>1. /\ at[p] = "io" /\ free' = free + 3 /\ req' = None /\ expired' = FALSE /\ disk' = disk
    BY <1>1 DEF RwReturns
  <2>2. Inside(p) /\ op[p].half \in 1..2 /\ op[p].try \in 1..MaxRetries /\ op \in [Procs -> OpRecs]
    BY <2>1 DEF Inv, Holding, Inside, Types
  <2>3. free' = QueueSize
    <3>1. free = QueueSize - 3
      BY <2>1, <2>2, RequestOwner
    <3> QED BY <2>1, <3>1, Consts
  <2>4. ASSUME NEW ok \in BOOLEAN, Finish(p, ok) PROVE Inv'
    BY <2>1, <2>2, <2>3, <2>4, FinishStep
  <2>5. CASE /\ op[p].half = 1 /\ at' = [at EXCEPT ![p] = "rw"]
             /\ op' = [op EXCEPT ![p].half = 2, ![p].try = 1]
             /\ UNCHANGED <<buf, lru, disk_busy, cpu, state, entry>>
    <3>1. 2 \in 1..2 /\ 1 \in 1..MaxRetries
      BY Consts
    <3> QED BY <2>1, <2>5, <3>1, AgainStep
  <2>6. CASE /\ op[p].try < MaxRetries /\ at' = [at EXCEPT ![p] = "rw"]
             /\ op' = [op EXCEPT ![p].try = @ + 1]
             /\ UNCHANGED <<buf, lru, disk_busy, cpu, state, entry>>
    <3> DEFINE h == op[p].half
               n == op[p].try + 1
    <3>1. h \in 1..2 /\ n \in 1..MaxRetries
      BY <2>2, <2>6, Consts
    <3>2. op' = [op EXCEPT ![p].half = h, ![p].try = n]
      <4>1. [op[p] EXCEPT !.half = h, !.try = n] = [op[p] EXCEPT !.try = n]
        BY <2>2 DEF OpRecs
      <4> QED BY <2>2, <2>6, <4>1
    <3> HIDE DEF h, n
    <3> QED BY <2>1, <2>6, <3>1, <3>2, AgainStep
  <2> QED BY <1>1, <2>4, <2>5, <2>6 DEF RwReturns
<1>2. CASE RwTimeout(p)
  <2>1. /\ at[p] = "io" /\ free' = free + 3 /\ req' = None /\ expired' = FALSE /\ disk' = disk
        /\ Finish(p, FALSE)
    BY <1>2 DEF RwTimeout
  <2>2. Inside(p)
    BY <2>1 DEF Inside
  <2>3. free' = QueueSize
    <3>1. free = QueueSize - 3
      BY <2>1, <2>2, RequestOwner
    <3> QED BY <2>1, <3>1, Consts
  <2> QED BY <2>1, <2>2, <2>3, FinishStep
<1>3. CASE NotReady(p)
  <2>1. at[p] = "rw" /\ Finish(p, FALSE) /\ UNCHANGED <<req, free, expired, disk>>
    BY <1>3 DEF NotReady
  <2>2. Inside(p)
    BY <2>1 DEF Inside
  <2>3. req' = None /\ free' = QueueSize
    BY <2>1, <2>2, RequestOwner
  <2>4. expired' \in BOOLEAN
    BY <2>1 DEF Inv, Types
  <2> QED BY <2>1, <2>2, <2>3, <2>4, FinishStep
<1> QED BY <1>1, <1>2, <1>3

\* The device moves a sector, or answers.
LEMMA DeviceStep ==
  ASSUME Inv, Transfer \/ Answer
  PROVE  Inv'
<1>1. /\ req # None /\ req \in Requests
      /\ UNCHANGED <<lru, disk_busy, cpu, state, at, op, free, expired, entry>>
  BY DEF Transfer, Answer, Inv, Types
<1>2. PICK s \in {"queued", "moved", "ok", "ioerr", "unsupp"} : req' = [req EXCEPT !.state = s]
  BY DEF Transfer, Answer
<1>3. /\ req' \in Requests /\ req'.b = req.b /\ req'.blk = req.blk /\ req'.half = req.half
      /\ req'.write = req.write
  BY <1>1, <1>2 DEF Requests
<1>4. req' # None
  BY <1>3, BioConstants DEF BioConstants
<1>5. buf \in [Buffers -> BufRecs] /\ disk \in [Blocks -> Data] /\ req.b \in Buffers
      /\ req.blk \in Blocks /\ req.half \in 1..2
  BY <1>1 DEF Inv, Types, Requests
<1>6. /\ buf' \in [Buffers -> BufRecs] /\ disk' \in [Blocks -> Data]
      /\ \A c \in Buffers : /\ buf'[c].blk = buf[c].blk /\ buf'[c].valid = buf[c].valid
                            /\ buf'[c].refcnt = buf[c].refcnt
  <2>1. CASE Answer
    BY <1>5, <2>1 DEF Answer
  <2>2. CASE Transfer /\ req.write
    <3>1. buf' = buf /\ disk' = [disk EXCEPT ![req.blk][req.half] = buf[req.b].data[req.half]]
      BY <2>2 DEF Transfer
    <3>2. buf[req.b].data[req.half] \in SUBSET Procs
      BY <1>5 DEF BufRecs, Data
    <3> QED BY <1>5, <3>1, <3>2 DEF Data
  <2>3. CASE Transfer /\ ~req.write
    <3>1. disk' = disk /\ buf' = [buf EXCEPT ![req.b].data[req.half] = disk[req.blk][req.half]]
      BY <2>3 DEF Transfer
    <3>2. disk[req.blk][req.half] \in SUBSET Procs
      BY <1>5 DEF Data
    <3>3. /\ buf' \in [Buffers -> BufRecs]
          /\ \A c \in Buffers : /\ buf'[c].blk = buf[c].blk /\ buf'[c].valid = buf[c].valid
                                /\ buf'[c].refcnt = buf[c].refcnt
      BY <1>5, <3>1, <3>2, BufData
    <3> QED BY <1>5, <3>1, <3>3
  <2> QED BY <2>1, <2>2, <2>3
<1>7. Types'
  BY <1>1, <1>3, <1>6 DEF Inv, Types
<1>8. Holding'
  BY <1>1, <1>6 DEF Inv, Holding, Inside
<1>9. Counts'
  BY <1>1, <1>6 DEF Inv, Counts
<1>10. Order'
  BY <1>1, <1>6, DataStep
<1>11. Driver'
  BY <1>1, <1>3, <1>4 DEF Inv, Driver, Inside
<1> QED BY <1>7, <1>8, <1>9, <1>10, <1>11 DEF Inv

\* Every step preserves the invariant.
LEMMA InvStep == Inv /\ [Next]_vars => Inv'
<1> SUFFICES ASSUME Inv, [Next]_vars PROVE Inv'
  OBVIOUS
<1>1. /\ cpu \in Procs \cup {None} /\ state \in [Procs -> {"ready", "disk", "virtio"}]
      /\ expired \in BOOLEAN
  BY DEF Inv, Types
<1>2. CASE UNCHANGED vars
  BY <1>1, <1>2, FrameStep DEF vars
<1>3. ASSUME NEW p \in Procs, Dispatch(p) PROVE Inv'
  BY <1>1, <1>3, FrameStep DEF Dispatch
<1>4. ASSUME NEW p \in Procs, DiskWait(p) \/ RwWait(p) PROVE Inv'
  BY <1>1, <1>4, FrameStep DEF DiskWait, RwWait
<1>5. CASE Expire \/ VirtioIntr
  BY <1>1, <1>5, FrameStep DEF Expire, VirtioIntr, Wakeup
<1>6. ASSUME NEW p \in Procs, NEW kind \in {"read", "set", "clear"}, NEW k \in Blocks,
             kind = "read" => k \in Reads[p], kind # "read" => k \in Writes[p],
             Bget(p, kind, k)
      PROVE  Inv'
  <2>1. CASE BgetHit(p, kind, k)
    BY <1>6, <2>1, HitStep
  <2>2. CASE BgetRecycle(p, kind, k)
    BY <1>6, <2>2, RecycleStep
  <2>3. CASE BgetFails(p, kind, k)
    BY <1>1, <2>3, FrameStep DEF BgetFails, vars
  <2> QED BY <1>6, <2>1, <2>2, <2>3 DEF Bget
<1>7. ASSUME NEW p \in Procs, Call(p) PROVE Inv'
  <2>1. Reads[p] \subseteq Blocks /\ Writes[p] \subseteq Blocks
    BY Consts
  <2>2. ASSUME NEW k \in Reads[p], Bget(p, "read", k) PROVE Inv'
    BY <1>6, <2>1, <2>2
  <2>3. ASSUME NEW k \in Writes[p], NEW kind \in {"set", "clear"}, Bget(p, kind, k) PROVE Inv'
    BY <1>6, <2>1, <2>3
  <2> QED BY <1>7, <2>2, <2>3 DEF Call
<1>8. ASSUME NEW p \in Procs, Proceed(p) PROVE Inv'
  BY <1>4, <1>8, TakeStep, ModifyStep, ReleaseStep, NotifyStep, ReturnStep DEF Proceed
<1>9. CASE Transfer \/ Answer
  BY <1>9, DeviceStep
<1> QED BY <1>2, <1>3, <1>5, <1>7, <1>8, <1>9 DEF Next

\* It holds when bio_init is done.
LEMMA InvInit == Init => Inv
<1> SUFFICES ASSUME Init PROVE Inv
  OBVIOUS
<1>1. /\ at = [p \in Procs |-> "user"] /\ op = [p \in Procs |-> NoOp] /\ req = None
      /\ free = QueueSize /\ disk_busy = FALSE
  BY DEF Init
<1>2. \A b \in Buffers : buf[b].refcnt = 0 /\ buf[b].valid = FALSE
  BY DEF Init
<1>3. Types
  <2>1. NoOp \in OpRecs
    BY Consts DEF NoOp, OpRecs
  <2>2. [h \in 1..2 |-> {}] \in Data
    BY DEF Data
  <2>3. buf \in [Buffers -> BufRecs]
    <3>1. [blk |-> Zero, valid |-> FALSE, refcnt |-> 0, data |-> [h \in 1..2 |-> {}]] \in BufRecs
      BY <2>2, Consts DEF BufRecs
    <3> QED BY <3>1 DEF Init
  <2>4. disk \in [Blocks -> Data]
    BY <2>2 DEF Init
  <2>5. /\ lru \in [Buffers -> Buffers] /\ \A i \in Buffers : lru[i] = NBUF + 1 - i
    BY Consts DEF Init
  <2>6. \A i, j \in Buffers : lru[i] = lru[j] => i = j
    BY <2>5, Consts
  <2>7. ASSUME NEW b \in Buffers PROVE \E i \in Buffers : lru[i] = b
    <3>1. NBUF + 1 - b \in Buffers /\ lru[NBUF + 1 - b] = b
      BY <2>5, Consts
    <3> QED BY <3>1
  <2>8. free \in 0..QueueSize
    BY <1>1, Consts
  <2>9. /\ at \in [Procs -> {"user", "held", "wait", "rw", "io", "wrote"}] /\ op \in [Procs -> OpRecs]
        /\ state \in [Procs -> {"ready", "disk", "virtio"}]
        /\ entry \in [Procs -> [Blocks -> {"open", "set", "clear"}]]
    BY <2>1 DEF Init
  <2> QED BY <2>3, <2>4, <2>5, <2>6, <2>7, <2>8, <2>9 DEF Init, Types
<1>4. Holding
  BY <1>1 DEF Holding
<1>5. Counts
  <2>1. \A b : HeldBy(at, op, b) = {}
    BY <1>1 DEF HeldBy
  <2> QED BY <1>2, <2>1, FS_EmptySet DEF Counts
<1>6. Order
  BY <1>2, <1>3 DEF Order, InUse, Types
<1>7. Driver
  BY <1>1, Consts DEF Driver, Inside
<1> QED BY <1>3, <1>4, <1>5, <1>6, <1>7 DEF Inv

\* The invariant of all behaviours.
LEMMA Invariance == Spec => []Inv
BY InvInit, InvStep, PTL DEF Spec

-----------------------------------------------------------------------------
(* The theorems *)

\* The variables keep their types; in particular no reference count exceeds the
\* number of processes and the list stays a permutation of the buffers.
THEOREM TypeCorrect == Spec => []TypeOK
<1>1. Inv => TypeOK
  <2> SUFFICES ASSUME Inv PROVE TypeOK
    OBVIOUS
  <2>1. ASSUME NEW b \in Buffers PROVE buf[b].refcnt \in 0..Cardinality(Procs)
    <3>1. HeldBy(at, op, b) \subseteq Procs
      BY DEF HeldBy
    <3>2. /\ Cardinality(HeldBy(at, op, b)) <= Cardinality(Procs)
          /\ Cardinality(Procs) \in Nat /\ Cardinality(HeldBy(at, op, b)) \in Nat
      BY <3>1, Consts, FS_Subset, FS_CardinalityType
    <3> QED BY <3>2 DEF Inv, Counts
  <2>2. buf \in [Buffers -> [blk : Blocks, valid : BOOLEAN, refcnt : 0..Cardinality(Procs), data : Data]]
    BY <2>1 DEF Inv, Types, BufRecs
  <2>3. lru \in Bijection(Buffers, Buffers)
    BY DEF Inv, Types, Bijection, Injection, Surjection, IsInjective
  <2> QED BY <2>2, <2>3 DEF Inv, Types, TypeOK, OpRecs
<1> QED BY <1>1, Invariance, PTL

\* Two buffers in use never hold the same block (bget, bio_release): the copies
\* would diverge.
THEOREM OneBuffer == Spec => []OneBufferPerBlock
<1>1. Inv => OneBufferPerBlock
  BY OneInUse DEF Inv, OneBufferPerBlock
<1> QED BY <1>1, Invariance, PTL

\* disk_busy keeps all but one process out of virtio_disk_rw, the request of the
\* device is that process's, and every path out returns the descriptors.
THEOREM DriverHasOneUser == Spec => []DriverExclusive
<1>1. Inv => DriverExclusive
  <2> SUFFICES ASSUME Inv PROVE DriverExclusive
    OBVIOUS
  <2> DEFINE inside == {p \in Procs : at[p] \in {"rw", "io"}}
  <2>1. Cardinality(inside) <= 1
    <3>1. CASE inside = {}
      BY <3>1, FS_EmptySet
    <3>2. CASE inside # {}
      <4>1. PICK p : p \in inside
        BY <3>2
      <4>2. inside = {p}
        BY <4>1 DEF Inv, Driver, Inside
      <4> QED BY <4>2, FS_Singleton
    <3> QED BY <3>1, <3>2
  <2>2. disk_busy <=> inside # {}
    BY DEF Inv, Driver, Inside
  <2>3. \A p \in inside : at[p] = "io" <=> req # None
    BY DEF Inv, Driver, Inside
  <2>4. req # None => \E p \in inside : req.b = op[p].b /\ req.blk = op[p].blk
    BY DEF Inv, Driver, Inside
  <2>5. free = QueueSize - (IF req = None THEN 0 ELSE 3)
    BY DEF Inv, Driver
  <2> QED BY <2>1, <2>2, <2>3, <2>4, <2>5 DEF DriverExclusive
<1> QED BY <1>1, Invariance, PTL

-----------------------------------------------------------------------------
(* What a successful write stored survives, if the writers of a block do not *)
(* share it with other processes                                             *)

\* Nobody else reads or writes a block in which a process owns an entry.  (Without
\* this UpdatesSurvive does not hold: a process that waits for the disk with its
\* change in the buffer can have it overwritten by another's read.)
Apart ==
  \A p, q \in Procs : p # q => Writes[p] \cap (Reads[q] \cup Writes[q]) = {}

\* The transfer of half h of p's block is done.
Moved(p, h) ==
  \/ h < op[p].half
  \/ at[p] = "io" /\ h = op[p].half /\ req.state \in {"moved", "ok"}

\* As long as a change is not written, the buffer has it.
Changed ==
  \A p \in Procs : at[p] \in {"wait", "rw", "io"} /\ op[p].write =>
    /\ entry[p][op[p].blk] = "open"
    /\ (p \in buf[op[p].b].data[HalfOf[p]]) <=> op[p].kind = "set"

\* A half that has been moved is the same in the buffer and on the disk.
Copied ==
  \A p \in Procs : Inside(p) /\ op[p].blk \in Writes[p] =>
    \A h \in 1..2 : Moved(p, h) => buf[op[p].b].data[h] = disk[op[p].blk][h]

Copies == UpdatesSurvive /\ Changed /\ Copied

\* Steps that neither change a content nor make a buffer valid, and after which no
\* more has been moved.
LEMMA QuietStep ==
  ASSUME Inv, Copies, UNCHANGED <<disk, entry>>,
         \A c \in Buffers : buf'[c].data = buf[c].data
                            /\ (buf'[c].valid => buf[c].valid /\ buf'[c].blk = buf[c].blk),
         \A q \in Procs : at'[q] \in {"wait", "rw", "io"} /\ op'[q].write =>
           /\ at[q] \in {"wait", "rw", "io"} /\ op[q].write
           /\ op'[q].b = op[q].b /\ op'[q].blk = op[q].blk /\ op'[q].kind = op[q].kind,
         \A q \in Procs, h \in 1..2 : (Inside(q))' /\ (Moved(q, h))' =>
           /\ Inside(q) /\ Moved(q, h)
           /\ op'[q].b = op[q].b /\ op'[q].blk = op[q].blk
  PROVE  Copies'
<1>1. UpdatesSurvive'
  BY DEF Copies, UpdatesSurvive
<1>2. \A q \in Procs : at[q] # "user" => op[q].b \in Buffers
  BY DEF Inv, Holding
<1>3. Changed'
  BY <1>2 DEF Copies, Changed
<1>4. Copied'
  <2> SUFFICES ASSUME NEW q \in Procs, (Inside(q))', op'[q].blk \in Writes[q],
                      NEW h \in 1..2, (Moved(q, h))'
               PROVE  buf'[op'[q].b].data[h] = disk'[op'[q].blk][h]
    BY DEF Copied
  <2>1. /\ Inside(q) /\ Moved(q, h) /\ op'[q].b = op[q].b /\ op'[q].blk = op[q].blk
    OBVIOUS
  <2>2. buf[op[q].b].data[h] = disk[op[q].blk][h]
    BY <2>1 DEF Copies, Copied
  <2>3. op[q].b \in Buffers
    BY <1>2, <2>1 DEF Inside
  <2> QED BY <2>1, <2>2, <2>3
<1> QED BY <1>1, <1>3, <1>4 DEF Copies

\* A process that touches a block in which p owns an entry is p.
LEMMA Alone ==
  ASSUME Apart, Inv, NEW p \in Procs, NEW q \in Procs, at[q] # "user", op[q].blk \in Writes[p]
  PROVE  q = p
<1>1. op[q].blk \in Reads[q] \cup Writes[q]
  BY DEF Inv, Holding
<1> QED BY <1>1 DEF Apart

\* bget.
LEMMA GotCopies ==
  ASSUME Inv, Copies, NEW p \in Procs, NEW kind, NEW k, BgetHit(p, kind, k) \/ BgetRecycle(p, kind, k)
  PROVE  Copies'
<1> DEFINE b == IF Hits(k) # {} THEN lru[Min(Hits(k))] ELSE lru[Max(Victims)]
<1>1. PICK bufs : /\ Got(p, kind, k, b, bufs)
                  /\ \/ bufs = [buf EXCEPT ![b].refcnt = @ + 1]
                     \/ bufs = [buf EXCEPT ![b].blk = k, ![b].valid = FALSE, ![b].refcnt = 1]
  BY DEF BgetHit, BgetRecycle
<1> HIDE DEF b
<1>2. /\ buf \in [Buffers -> BufRecs] /\ op \in [Procs -> OpRecs]
      /\ at \in [Procs -> {"user", "held", "wait", "rw", "io", "wrote"}]
  BY DEF Inv, Types
<1>3. buf' = bufs /\ UNCHANGED <<disk, entry, req>>
  BY <1>1 DEF Got
<1>4. \A c \in Buffers : buf'[c].data = buf[c].data
                         /\ (buf'[c].valid => buf[c].valid /\ buf'[c].blk = buf[c].blk)
  BY <1>1, <1>2, <1>3 DEF BufRecs
<1>5. /\ at'[p] \in {"held", "wait"} /\ ~op'[p].write
      /\ \A q \in Procs \ {p} : at'[q] = at[q] /\ op'[q] = op[q]
  BY <1>1, <1>2 DEF Got, NoOp
<1>6. \A q \in Procs : at'[q] \in {"wait", "rw", "io"} /\ op'[q].write =>
           /\ at[q] \in {"wait", "rw", "io"} /\ op[q].write
           /\ op'[q].b = op[q].b /\ op'[q].blk = op[q].blk /\ op'[q].kind = op[q].kind
  BY <1>5
<1>7. \A q \in Procs, h \in 1..2 : (Inside(q))' /\ (Moved(q, h))' =>
           /\ Inside(q) /\ Moved(q, h)
           /\ op'[q].b = op[q].b /\ op'[q].blk = op[q].blk
  BY <1>3, <1>5 DEF Inside, Moved
<1> QED BY <1>3, <1>4, <1>6, <1>7, QuietStep

\* disk_wait, virtio_disk_rw's queueing, and the release of a buffer.
LEMMA MoveCopies ==
  ASSUME Inv, Copies, NEW p \in Procs, DiskTake(p) \/ Notify(p) \/ Release(p)
  PROVE  Copies'
<1>1. /\ buf \in [Buffers -> BufRecs] /\ op \in [Procs -> OpRecs]
      /\ at \in [Procs -> {"user", "held", "wait", "rw", "io", "wrote"}]
  BY DEF Inv, Types
<1>2. UNCHANGED <<disk, entry>>
  BY DEF DiskTake, Notify, Release
<1>3. CASE DiskTake(p)
  <2>1. /\ at[p] = "wait" /\ at' = [at EXCEPT ![p] = "rw"]
        /\ op' = [op EXCEPT ![p].half = 1, ![p].try = 1] /\ UNCHANGED <<buf, req>>
    BY <1>3 DEF DiskTake
  <2>2. 1 \in 0..2 /\ 1 \in 0..MaxRetries
    BY Consts
  <2>3. /\ op'[p].kind = op[p].kind /\ op'[p].blk = op[p].blk /\ op'[p].b = op[p].b
        /\ op'[p].write = op[p].write /\ op'[p].half = 1
        /\ \A q \in Procs \ {p} : op'[q] = op[q]
    BY <1>1, <2>1, <2>2, OpMoved
  <2>4. at'[p] = "rw" /\ \A q \in Procs \ {p} : at'[q] = at[q]
    BY <1>1, <2>1
  <2>5. \A q \in Procs : at'[q] \in {"wait", "rw", "io"} /\ op'[q].write =>
           /\ at[q] \in {"wait", "rw", "io"} /\ op[q].write
           /\ op'[q].b = op[q].b /\ op'[q].blk = op[q].blk /\ op'[q].kind = op[q].kind
    BY <2>1, <2>3, <2>4
  <2>6. \A q \in Procs, h \in 1..2 : (Inside(q))' /\ (Moved(q, h))' =>
           /\ Inside(q) /\ Moved(q, h)
           /\ op'[q].b = op[q].b /\ op'[q].blk = op[q].blk
    <3>1. ASSUME NEW h \in 1..2 PROVE ~(Moved(p, h))'
      BY <2>3, <2>4 DEF Moved
    <3>2. ASSUME NEW q \in Procs \ {p}, NEW h \in 1..2
          PROVE  ((Inside(q))' <=> Inside(q)) /\ ((Moved(q, h))' <=> Moved(q, h))
      BY <2>1, <2>3, <2>4 DEF Inside, Moved
    <3> QED BY <2>3, <3>1, <3>2
  <2> QED BY <1>2, <2>1, <2>5, <2>6, QuietStep
<1>4. CASE Notify(p)
  <2>1. at[p] = "rw" /\ at' = [at EXCEPT ![p] = "io"] /\ UNCHANGED <<buf, op>> /\ req'.state = "queued"
    BY <1>4 DEF Notify
  <2>2. at'[p] = "io" /\ \A q \in Procs \ {p} : at'[q] = at[q]
    BY <1>1, <2>1
  <2>3. \A q \in Procs : Inside(q) => q = p
    BY <2>1, RequestOwner DEF Inside
  <2>4. \A q \in Procs : at'[q] \in {"wait", "rw", "io"} /\ op'[q].write =>
           /\ at[q] \in {"wait", "rw", "io"} /\ op[q].write
           /\ op'[q].b = op[q].b /\ op'[q].blk = op[q].blk /\ op'[q].kind = op[q].kind
    BY <2>1, <2>2
  <2>5. \A q \in Procs, h \in 1..2 : (Inside(q))' /\ (Moved(q, h))' =>
           /\ Inside(q) /\ Moved(q, h)
           /\ op'[q].b = op[q].b /\ op'[q].blk = op[q].blk
    BY <2>1, <2>2, <2>3 DEF Inside, Moved
  <2> QED BY <1>2, <2>1, <2>4, <2>5, QuietStep
<1>5. CASE Release(p)
  <2>1. at[p] # "user" /\ BioRelease(p) /\ UNCHANGED req
    BY <1>5 DEF Release
  <2>2. /\ \A c \in Buffers : /\ buf'[c].blk = buf[c].blk /\ buf'[c].valid = buf[c].valid
                              /\ buf'[c].data = buf[c].data
        /\ at'[p] = "user" /\ \A q \in Procs \ {p} : at'[q] = at[q] /\ op'[q] = op[q]
    BY <2>1, ReleaseFacts
  <2>3. \A q \in Procs : at'[q] \in {"wait", "rw", "io"} /\ op'[q].write =>
           /\ at[q] \in {"wait", "rw", "io"} /\ op[q].write
           /\ op'[q].b = op[q].b /\ op'[q].blk = op[q].blk /\ op'[q].kind = op[q].kind
    BY <2>2
  <2>4. \A q \in Procs, h \in 1..2 : (Inside(q))' /\ (Moved(q, h))' =>
           /\ Inside(q) /\ Moved(q, h)
           /\ op'[q].b = op[q].b /\ op'[q].blk = op[q].blk
    BY <2>1, <2>2 DEF Inside, Moved
  <2> QED BY <1>2, <2>2, <2>3, <2>4, QuietStep
<1> QED BY <1>3, <1>4, <1>5

\* A caller changes its entry: only its own, and that one is open now.
LEMMA ModifyCopies ==
  ASSUME Apart, Inv, Copies, NEW p \in Procs, Modify(p)
  PROVE  Copies'
<1> DEFINE h == HalfOf[p]
           v == IF op[p].kind = "set" THEN buf[op[p].b].data[h] \cup {p} ELSE buf[op[p].b].data[h] \ {p}
<1>1. /\ at[p] = "held" /\ op[p].kind \in {"set", "clear"}
      /\ at' = [at EXCEPT ![p] = "wait"] /\ op' = [op EXCEPT ![p].write = TRUE]
      /\ entry' = [entry EXCEPT ![p][op[p].blk] = "open"]
      /\ buf' = [buf EXCEPT ![op[p].b].data[h] = v]
      /\ UNCHANGED <<req, disk>>
  BY DEF Modify
<1>2. /\ buf \in [Buffers -> BufRecs] /\ op \in [Procs -> OpRecs] /\ h \in 1..2
      /\ at \in [Procs -> {"user", "held", "wait", "rw", "io", "wrote"}]
      /\ entry \in [Procs -> [Blocks -> {"open", "set", "clear"}]]
  BY Consts DEF Inv, Types
<1>3. PICK b \in Buffers : b = op[p].b /\ buf[b].blk = op[p].blk
  BY <1>1 DEF Inv, Holding
<1>4. /\ v \in SUBSET Procs /\ (p \in v <=> op[p].kind = "set")
      /\ \A q \in Procs \ {p} : q \in v <=> q \in buf[b].data[h]
  BY <1>2, <1>3 DEF BufRecs, Data
<1> HIDE DEF h, v
<1>5. buf' = [buf EXCEPT ![b].data[h] = v]
  BY <1>1, <1>3
<1>6. /\ \A c \in Buffers : /\ buf'[c].blk = buf[c].blk /\ buf'[c].valid = buf[c].valid
                            /\ c # b => buf'[c].data = buf[c].data
      /\ buf'[b].data[h] = v
      /\ \A g \in 1..2 : g # h => buf'[b].data[g] = buf[b].data[g]
  <2>1. buf \in [Buffers -> BufRecs] /\ h \in 1..2 /\ v \in SUBSET Procs
    BY <1>2, <1>4
  <2>2. \A c \in Buffers : /\ buf'[c].blk = buf[c].blk /\ buf'[c].valid = buf[c].valid
                           /\ c # b => buf'[c].data = buf[c].data
    BY <1>5, <2>1, BufData
  <2>3. buf'[b].data = [buf[b].data EXCEPT ![h] = v]
    BY <1>5, <2>1 DEF BufRecs
  <2>4. buf[b].data \in [1..2 -> SUBSET Procs]
    BY <2>1 DEF BufRecs, Data
  <2>5. h \in DOMAIN buf[b].data
    BY <2>1, <2>4
  <2>6. buf'[b].data[h] = v
    BY <2>3, <2>5
  <2>7. \A g \in 1..2 : g # h => buf'[b].data[g] = buf[b].data[g]
    BY <2>3, <2>4
  <2> QED BY <2>2, <2>6, <2>7
<1>7. /\ op'[p].kind = op[p].kind /\ op'[p].blk = op[p].blk /\ op'[p].b = b /\ op'[p].write = TRUE
      /\ \A q \in Procs \ {p} : op'[q] = op[q]
  BY <1>1, <1>2, <1>3 DEF OpRecs
<1>8. at'[p] = "wait" /\ \A q \in Procs \ {p} : at'[q] = at[q]
  BY <1>1, <1>2
<1>9. op[p].blk \in Blocks /\ op[p].blk \in Writes[p]
  BY <1>1, <1>2 DEF Inv, Holding, OpRecs
<1>10. /\ entry'[p][op[p].blk] = "open" /\ \A q \in Procs \ {p} : entry'[q] = entry[q]
       /\ \A k \in Blocks : k # op[p].blk => entry'[p][k] = entry[p][k]
  BY <1>1, <1>2, <1>9
<1>11. \A q \in Procs \ {p}, c \in Buffers, g \in 1..2 : q \in buf'[c].data[g] <=> q \in buf[c].data[g]
  BY <1>4, <1>6
<1>12. UpdatesSurvive'
  <2> SUFFICES ASSUME NEW q \in Procs, NEW k \in Writes[q], entry'[q][k] # "open"
               PROVE  /\ (q \in disk[k][HalfOf[q]]) <=> (entry'[q][k] = "set")
                      /\ \A c \in Buffers : buf'[c].valid /\ buf'[c].blk = k =>
                           ((q \in buf'[c].data[HalfOf[q]]) <=> (entry'[q][k] = "set"))
    BY <1>1 DEF UpdatesSurvive
  <2>1. k \in Blocks /\ HalfOf[q] \in 1..2
    BY Consts
  <2>2. /\ entry'[q][k] = entry[q][k]
        /\ (q \in disk[k][HalfOf[q]]) <=> (entry[q][k] = "set")
        /\ \A c \in Buffers : buf[c].valid /\ buf[c].blk = k =>
             ((q \in buf[c].data[HalfOf[q]]) <=> (entry[q][k] = "set"))
    BY <1>10, <2>1 DEF Copies, UpdatesSurvive
  <2>3. CASE q = p
    <3>1. k # op[p].blk
      BY <1>10, <2>3
    <3> QED BY <1>3, <1>6, <2>2, <2>3, <3>1
  <2>4. CASE q # p
    BY <1>6, <1>11, <2>1, <2>2, <2>4
  <2> QED BY <2>3, <2>4
<1>13. Changed'
  <2> SUFFICES ASSUME NEW q \in Procs, at'[q] \in {"wait", "rw", "io"}, op'[q].write
               PROVE  /\ entry'[q][op'[q].blk] = "open"
                      /\ (q \in buf'[op'[q].b].data[HalfOf[q]]) <=> op'[q].kind = "set"
    BY DEF Changed
  <2>1. CASE q = p
    BY <1>4, <1>6, <1>7, <1>10, <2>1 DEF h
  <2>2. CASE q # p
    <3>1. /\ entry[q][op[q].blk] = "open" /\ op[q].b \in Buffers
          /\ (q \in buf[op[q].b].data[HalfOf[q]]) <=> op[q].kind = "set"
      BY <1>7, <1>8, <2>2 DEF Copies, Changed, Inv, Holding
    <3>2. HalfOf[q] \in 1..2
      BY Consts
    <3> QED BY <1>7, <1>10, <1>11, <2>2, <3>1, <3>2
  <2> QED BY <2>1, <2>2
<1>14. Copied'
  <2> SUFFICES ASSUME NEW q \in Procs, (Inside(q))', op'[q].blk \in Writes[q],
                      NEW g \in 1..2, (Moved(q, g))'
               PROVE  buf'[op'[q].b].data[g] = disk[op'[q].blk][g]
    BY <1>1 DEF Copied
  <2>1. q # p /\ op'[q] = op[q] /\ at'[q] = at[q] /\ Inside(q)
    BY <1>7, <1>8 DEF Inside
  <2>2. Moved(q, g) /\ op[q].b \in Buffers /\ buf[op[q].b].blk = op[q].blk
    BY <1>1, <2>1 DEF Moved, Inv, Holding, Inside
  <2>3. buf[op[q].b].data[g] = disk[op[q].blk][g]
    BY <2>1, <2>2 DEF Copies, Copied
  <2>4. op[q].b # b
    <3>1. op[p].blk # op[q].blk
      BY <1>1, <2>1, Alone
    <3> QED BY <1>3, <2>2, <3>1
  <2> QED BY <1>6, <2>1, <2>2, <2>3, <2>4
<1> QED BY <1>12, <1>13, <1>14 DEF Copies

\* bio_read or bio_write fails.
LEMMA FailCopies ==
  ASSUME Inv, Copies, NEW p \in Procs, Inside(p), Finish(p, FALSE), req' = None, disk' = disk
  PROVE  Copies'
<1>1. /\ op \in [Procs -> OpRecs] /\ at[p] # "user"
      /\ at \in [Procs -> {"user", "held", "wait", "rw", "io", "wrote"}]
  BY DEF Inv, Types, Inside
<1>2. \A q \in Procs : Inside(q) => q = p
  BY RequestOwner
<1>3. /\ entry' = entry /\ at'[p] \in {"wrote", "user"}
      /\ \A q \in Procs \ {p} : at'[q] = at[q] /\ op'[q] = op[q]
      /\ \A c \in Buffers : buf'[c].data = buf[c].data
                            /\ (buf'[c].valid => buf[c].valid /\ buf'[c].blk = buf[c].blk)
  <2>1. CASE op[p].write
    BY <1>1, <2>1 DEF Finish
  <2>2. CASE ~op[p].write
    <3>1. BioRelease(p) /\ entry' = entry
      BY <2>2 DEF Finish
    <3>2. /\ \A c \in Buffers : /\ buf'[c].blk = buf[c].blk /\ buf'[c].valid = buf[c].valid
                                /\ buf'[c].data = buf[c].data
          /\ at'[p] = "user" /\ \A q \in Procs \ {p} : at'[q] = at[q] /\ op'[q] = op[q]
      BY <1>1, <3>1, ReleaseFacts
    <3> QED BY <3>1, <3>2
  <2> QED BY <2>1, <2>2
<1>4. \A q \in Procs : at'[q] \in {"wait", "rw", "io"} /\ op'[q].write =>
           /\ at[q] \in {"wait", "rw", "io"} /\ op[q].write
           /\ op'[q].b = op[q].b /\ op'[q].blk = op[q].blk /\ op'[q].kind = op[q].kind
  BY <1>3
<1>5. \A q \in Procs : ~(Inside(q))'
  BY <1>2, <1>3 DEF Inside
<1>6. \A q \in Procs, h \in 1..2 : (Inside(q))' /\ (Moved(q, h))' =>
           /\ Inside(q) /\ Moved(q, h)
           /\ op'[q].b = op[q].b /\ op'[q].blk = op[q].blk
  BY <1>5
<1> QED BY <1>3, <1>4, <1>6, QuietStep

\* bio_read or bio_write succeeds: both halves have been moved.
LEMMA SucceedCopies ==
  ASSUME Apart, Inv, Copies, NEW p \in Procs, at[p] = "io", req.state = "ok", op[p].half = 2,
         Finish(p, TRUE), req' = None, disk' = disk
  PROVE  Copies'
<1> DEFINE k == op[p].blk
<1>1. /\ op \in [Procs -> OpRecs] /\ buf \in [Buffers -> BufRecs] /\ Inside(p)
      /\ at \in [Procs -> {"user", "held", "wait", "rw", "io", "wrote"}]
      /\ entry \in [Procs -> [Blocks -> {"open", "set", "clear"}]]
  BY DEF Inv, Types, Inside
<1>2. PICK b \in Buffers : b = op[p].b /\ buf[b].blk = k /\ InUse(b)
  BY <1>1, HeldInUse DEF Inv, Holding, Inside
<1>3. \A q \in Procs : Inside(q) => q = p
  BY <1>1, RequestOwner
<1>4. ASSUME k \in Writes[p] PROVE \A h \in 1..2 : buf[b].data[h] = disk[k][h]
  <2>1. \A h \in 1..2 : Moved(p, h)
    BY DEF Moved
  <2> QED BY <1>1, <1>2, <1>4, <2>1 DEF Copies, Copied
<1>5. \A c \in Buffers : c # b /\ buf[c].valid => buf[c].blk # k
  BY <1>2, OneInUse DEF Inv, InUse
<1>6. /\ at'[p] \in {"held", "wrote"} /\ \A q \in Procs \ {p} : at'[q] = at[q] /\ op'[q] = op[q]
  BY <1>1 DEF Finish
<1>7. Copied'
  BY <1>3, <1>6 DEF Copied, Inside
<1>8. k \in Blocks
  BY <1>1 DEF OpRecs
<1>9. CASE op[p].write
  <2>1. entry' = [entry EXCEPT ![p][k] = op[p].kind] /\ buf' = buf /\ k \in Writes[p]
        /\ op[p].kind \in {"set", "clear"}
    BY <1>1, <1>9 DEF Finish, Inv, Holding, Inside
  <2>2. /\ entry'[p][k] = op[p].kind /\ \A q \in Procs \ {p} : entry'[q] = entry[q]
        /\ \A j \in Blocks : j # k => entry'[p][j] = entry[p][j]
    BY <1>1, <1>8, <2>1
  <2>3. (p \in buf[b].data[HalfOf[p]]) <=> op[p].kind = "set"
    BY <1>2, <1>9 DEF Copies, Changed
  <2>4. HalfOf[p] \in 1..2
    BY Consts
  <2>5. (p \in disk[k][HalfOf[p]]) <=> op[p].kind = "set"
    BY <1>4, <2>1, <2>3, <2>4
  <2> HIDE DEF k
  <2>6. UpdatesSurvive'
    <3> SUFFICES ASSUME NEW q \in Procs, NEW j \in Writes[q], entry'[q][j] # "open"
                 PROVE  /\ (q \in disk[j][HalfOf[q]]) <=> (entry'[q][j] = "set")
                        /\ \A c \in Buffers : buf[c].valid /\ buf[c].blk = j =>
                             ((q \in buf[c].data[HalfOf[q]]) <=> (entry'[q][j] = "set"))
      BY <2>1 DEF UpdatesSurvive
    <3>1. CASE q = p /\ j = k
      BY <1>2, <1>5, <2>2, <2>3, <2>5, <3>1
    <3>2. CASE ~(q = p /\ j = k)
      <4>1. j \in Blocks
        BY Consts
      <4>2. entry'[q][j] = entry[q][j]
        BY <2>2, <3>2, <4>1
      <4> QED BY <4>2 DEF Copies, UpdatesSurvive
    <3> QED BY <3>1, <3>2
  <2>7. Changed'
    <3> SUFFICES ASSUME NEW q \in Procs, at'[q] \in {"wait", "rw", "io"}, op'[q].write
                 PROVE  /\ entry'[q][op'[q].blk] = "open"
                        /\ (q \in buf[op'[q].b].data[HalfOf[q]]) <=> op'[q].kind = "set"
      BY <2>1 DEF Changed
    <3>1. q # p /\ at'[q] = at[q] /\ op'[q] = op[q]
      BY <1>6
    <3> QED BY <2>2, <3>1 DEF Copies, Changed
  <2> QED BY <1>7, <2>6, <2>7 DEF Copies
<1>10. CASE ~op[p].write
  <2>1. entry' = entry /\ buf' = [buf EXCEPT ![b].valid = TRUE]
    BY <1>2, <1>10 DEF Finish
  <2>2. /\ \A c \in Buffers : /\ buf'[c].blk = buf[c].blk /\ buf'[c].data = buf[c].data
                              /\ c # b => buf'[c].valid = buf[c].valid
    BY <1>1, <1>2, <2>1 DEF BufRecs
  <2>3. UpdatesSurvive'
    <3> SUFFICES ASSUME NEW q \in Procs, NEW j \in Writes[q], entry[q][j] # "open"
                 PROVE  /\ (q \in disk[j][HalfOf[q]]) <=> (entry[q][j] = "set")
                        /\ \A c \in Buffers : buf'[c].valid /\ buf'[c].blk = j =>
                             ((q \in buf'[c].data[HalfOf[q]]) <=> (entry[q][j] = "set"))
      BY <2>1 DEF UpdatesSurvive
    <3>1. /\ (q \in disk[j][HalfOf[q]]) <=> (entry[q][j] = "set")
          /\ \A c \in Buffers : buf[c].valid /\ buf[c].blk = j =>
               ((q \in buf[c].data[HalfOf[q]]) <=> (entry[q][j] = "set"))
      BY DEF Copies, UpdatesSurvive
    <3>2. ASSUME buf[b].blk = j
          PROVE  (q \in buf[b].data[HalfOf[q]]) <=> (entry[q][j] = "set")
      <4>1. q = p /\ k = j
        BY <1>1, <1>2, <3>2, Alone DEF Inside
      <4>2. HalfOf[q] \in 1..2
        BY Consts
      <4> QED BY <1>4, <3>1, <4>1, <4>2
    <3> QED BY <1>2, <2>2, <3>1, <3>2
  <2>4. Changed'
    <3> SUFFICES ASSUME NEW q \in Procs, at'[q] \in {"wait", "rw", "io"}, op'[q].write
                 PROVE  /\ entry[q][op'[q].blk] = "open"
                        /\ (q \in buf'[op'[q].b].data[HalfOf[q]]) <=> op'[q].kind = "set"
      BY <2>1 DEF Changed
    <3>1. q # p /\ at'[q] = at[q] /\ op'[q] = op[q]
      BY <1>6
    <3>2. op[q].b \in Buffers
      BY <3>1 DEF Inv, Holding
    <3> QED BY <2>2, <3>1, <3>2 DEF Copies, Changed
  <2> QED BY <1>7, <2>3, <2>4 DEF Copies
<1> QED BY <1>9, <1>10

\* virtio_disk_rw returns.
LEMMA ReturnCopies ==
  ASSUME Apart, Inv, Copies, NEW p \in Procs, RwReturns(p) \/ RwTimeout(p) \/ NotReady(p)
  PROVE  Copies'
<1>1. CASE RwTimeout(p) \/ NotReady(p)
  <2>1. Inside(p) /\ Finish(p, FALSE) /\ disk' = disk
    BY <1>1 DEF RwTimeout, NotReady, Inside
  <2>2. req' = None
    BY <1>1, <2>1, RequestOwner DEF RwTimeout, NotReady
  <2> QED BY <2>1, <2>2, FailCopies
<1>2. CASE RwReturns(p)
  <2>1. at[p] = "io" /\ req' = None /\ disk' = disk
    BY <1>2 DEF RwReturns
  <2>2. /\ Inside(p) /\ op[p].half \in 1..2 /\ op[p].try \in 1..MaxRetries /\ op \in [Procs -> OpRecs]
        /\ at \in [Procs -> {"user", "held", "wait", "rw", "io", "wrote"}]
    BY <2>1 DEF Inv, Holding, Inside, Types
  <2>3. CASE Finish(p, FALSE)
    BY <2>1, <2>2, <2>3, FailCopies
  <2>4. CASE req.state = "ok" /\ op[p].half = 2 /\ Finish(p, TRUE)
    BY <2>1, <2>4, SucceedCopies
  <2>5. ASSUME NEW h \in 1..2, \A g \in 1..2 : g < h => Moved(p, g),
               at' = [at EXCEPT ![p] = "rw"], UNCHANGED <<buf, entry>>,
               \A q \in Procs : /\ op'[q].kind = op[q].kind /\ op'[q].blk = op[q].blk
                                /\ op'[q].b = op[q].b /\ op'[q].write = op[q].write,
               op'[p].half = h, \A q \in Procs \ {p} : op'[q].half = op[q].half
        PROVE  Copies'
    <3>1. at'[p] = "rw" /\ \A q \in Procs \ {p} : at'[q] = at[q]
      BY <2>2, <2>5
    <3>2. \A q \in Procs : Inside(q) => q = p
      BY <2>2, RequestOwner
    <3>3. \A q \in Procs : at'[q] \in {"wait", "rw", "io"} /\ op'[q].write =>
           /\ at[q] \in {"wait", "rw", "io"} /\ op[q].write
           /\ op'[q].b = op[q].b /\ op'[q].blk = op[q].blk /\ op'[q].kind = op[q].kind
      BY <2>1, <2>5, <3>1
    <3>4. ASSUME NEW q \in Procs, NEW g \in 1..2, (Inside(q))', (Moved(q, g))'
          PROVE  /\ Inside(q) /\ Moved(q, g)
                 /\ op'[q].b = op[q].b /\ op'[q].blk = op[q].blk
      <4>1. q = p
        BY <3>1, <3>2, <3>4 DEF Inside
      <4>2. g < h
        BY <2>5, <3>1, <3>4, <4>1 DEF Moved
      <4> QED BY <2>2, <2>5, <4>1, <4>2
    <3> QED BY <2>1, <2>5, <3>3, <3>4, QuietStep
  <2>6. CASE /\ req.state = "ok" /\ op[p].half = 1 /\ at' = [at EXCEPT ![p] = "rw"]
             /\ op' = [op EXCEPT ![p].half = 2, ![p].try = 1]
             /\ UNCHANGED <<buf, lru, disk_busy, cpu, state, entry>>
    <3>1. 2 \in 0..2 /\ 1 \in 0..MaxRetries /\ 2 \in 1..2
      BY Consts
    <3>2. /\ \A q \in Procs : /\ op'[q].kind = op[q].kind /\ op'[q].blk = op[q].blk
                              /\ op'[q].b = op[q].b /\ op'[q].write = op[q].write
          /\ op'[p].half = 2 /\ \A q \in Procs \ {p} : op'[q].half = op[q].half
      BY <2>2, <2>6, <3>1, OpMoved
    <3>3. \A g \in 1..2 : g < 2 => Moved(p, g)
      BY <2>1, <2>6 DEF Moved
    <3> QED BY <2>5, <2>6, <3>1, <3>2, <3>3
  <2>7. CASE /\ op[p].try < MaxRetries /\ at' = [at EXCEPT ![p] = "rw"]
             /\ op' = [op EXCEPT ![p].try = @ + 1]
             /\ UNCHANGED <<buf, lru, disk_busy, cpu, state, entry>>
    <3>1. /\ \A q \in Procs : /\ op'[q].kind = op[q].kind /\ op'[q].blk = op[q].blk
                              /\ op'[q].b = op[q].b /\ op'[q].write = op[q].write
                              /\ op'[q].half = op[q].half
      BY <2>2, <2>7 DEF OpRecs
    <3>2. \A g \in 1..2 : g < op[p].half => Moved(p, g)
      BY DEF Moved
    <3> QED BY <2>2, <2>5, <2>7, <3>1, <3>2
  <2> QED BY <1>2, <2>3, <2>4, <2>6, <2>7 DEF RwReturns
<1> QED BY <1>1, <1>2

\* The device answers.
LEMMA AnswerCopies ==
  ASSUME Inv, Copies, Answer
  PROVE  Copies'
<1>1. req # None /\ req \in Requests /\ UNCHANGED <<buf, at, op, disk, entry>>
  BY DEF Answer, Inv, Types
<1>2. req'.state \in {"moved", "ok"} => req.state \in {"moved", "ok"}
  BY <1>1 DEF Answer, Requests
<1>3. \A q \in Procs, h \in 1..2 : (Inside(q))' /\ (Moved(q, h))' =>
           /\ Inside(q) /\ Moved(q, h)
           /\ op'[q].b = op[q].b /\ op'[q].blk = op[q].blk
  BY <1>1, <1>2 DEF Inside, Moved
<1> QED BY <1>1, <1>3, QuietStep

\* The device moves a sector.
LEMMA TransferCopies ==
  ASSUME Apart, Inv, Copies, Transfer
  PROVE  Copies'
<1>1. /\ req # None /\ req \in Requests /\ req.state = "queued"
      /\ req' = [req EXCEPT !.state = "moved"] /\ UNCHANGED <<at, op, entry>>
  BY DEF Transfer, Inv, Types
<1>2. PICK p \in Procs : at[p] = "io"
  BY <1>1 DEF Inv, Driver
<1>3. /\ Inside(p) /\ \A q \in Procs : Inside(q) => q = p
      /\ req.b = op[p].b /\ req.blk = op[p].blk /\ req.half = op[p].half /\ req.write = op[p].write
  BY <1>2, RequestOwner DEF Inside
<1>4. PICK b \in Buffers, k \in Blocks, h \in 1..2 :
        b = req.b /\ k = req.blk /\ h = req.half /\ buf[b].blk = k
  <2>1. buf[op[p].b].blk = op[p].blk
    BY <1>2 DEF Inv, Holding
  <2> QED BY <1>1, <1>3, <2>1 DEF Requests
<1>5. /\ buf \in [Buffers -> BufRecs] /\ disk \in [Blocks -> Data]
  BY DEF Inv, Types
<1>6. /\ \A c \in Buffers : /\ buf'[c].blk = buf[c].blk /\ buf'[c].valid = buf[c].valid
                            /\ c # b => buf'[c].data = buf[c].data
      /\ \A j \in Blocks : j # k => disk'[j] = disk[j]
      /\ \A g \in 1..2 : g # h => buf'[b].data[g] = buf[b].data[g] /\ disk'[k][g] = disk[k][g]
      /\ buf'[b].data[h] = disk'[k][h]
      /\ req.write => buf' = buf
      /\ ~req.write => disk' = disk
  <2>1. CASE req.write
    <3>1. buf' = buf /\ disk' = [disk EXCEPT ![k][h] = buf[b].data[h]]
      BY <1>4, <2>1 DEF Transfer
    <3> QED BY <1>5, <2>1, <3>1 DEF Data
  <2>2. CASE ~req.write
    <3>1. disk' = disk /\ buf' = [buf EXCEPT ![b].data[h] = disk[k][h]]
      BY <1>4, <2>2 DEF Transfer
    <3>2. disk[k][h] \in SUBSET Procs
      BY <1>5 DEF Data
    <3>3. /\ \A c \in Buffers : /\ buf'[c].blk = buf[c].blk /\ buf'[c].valid = buf[c].valid
                                /\ c # b => buf'[c].data = buf[c].data
          /\ buf'[b].data[h] = disk[k][h]
          /\ \A g \in 1..2 : g # h => buf'[b].data[g] = buf[b].data[g]
      <4>1. \A c \in Buffers : /\ buf'[c].blk = buf[c].blk /\ buf'[c].valid = buf[c].valid
                               /\ c # b => buf'[c].data = buf[c].data
        BY <1>5, <3>1, <3>2, BufData
      <4>2. buf'[b].data = [buf[b].data EXCEPT ![h] = disk[k][h]]
        BY <1>5, <3>1 DEF BufRecs
      <4>3. buf[b].data \in [1..2 -> SUBSET Procs]
        BY <1>5 DEF BufRecs, Data
      <4>4. h \in DOMAIN buf[b].data
        BY <4>3
      <4>5. buf'[b].data[h] = disk[k][h]
        BY <4>2, <4>4
      <4>6. \A g \in 1..2 : g # h => buf'[b].data[g] = buf[b].data[g]
        BY <4>2, <4>3
      <4> QED BY <4>1, <4>5, <4>6
    <3> QED BY <2>2, <3>1, <3>3
  <2> QED BY <2>1, <2>2
<1>7. \A q \in Procs : at[q] # "user" /\ k \in Writes[q] /\ op[q].blk = k => q = p
  <2>1. at[p] # "user" /\ op[p].blk = k
    BY <1>2, <1>3, <1>4
  <2> QED BY <2>1, Alone
<1>8. Changed'
  <2> SUFFICES ASSUME NEW q \in Procs, at[q] \in {"wait", "rw", "io"}, op[q].write
               PROVE  (q \in buf'[op[q].b].data[HalfOf[q]]) <=> op[q].kind = "set"
    BY <1>1 DEF Copies, Changed
  <2>1. /\ (q \in buf[op[q].b].data[HalfOf[q]]) <=> op[q].kind = "set"
        /\ op[q].b \in Buffers /\ buf[op[q].b].blk = op[q].blk /\ op[q].blk \in Writes[q]
    BY DEF Copies, Changed, Inv, Holding
  <2>2. CASE req.write
    BY <1>6, <2>1, <2>2
  <2>3. CASE ~req.write
    <3>1. op[q].b # b
      BY <1>3, <1>4, <1>7, <2>1, <2>3
    <3> QED BY <1>6, <2>1, <3>1
  <2> QED BY <2>2, <2>3
<1>9. UpdatesSurvive'
  <2> SUFFICES ASSUME NEW q \in Procs, NEW j \in Writes[q], entry[q][j] # "open"
               PROVE  /\ (q \in disk'[j][HalfOf[q]]) <=> (entry[q][j] = "set")
                      /\ \A c \in Buffers : buf'[c].valid /\ buf'[c].blk = j =>
                           ((q \in buf'[c].data[HalfOf[q]]) <=> (entry[q][j] = "set"))
    BY <1>1 DEF UpdatesSurvive
  <2>1. /\ (q \in disk[j][HalfOf[q]]) <=> (entry[q][j] = "set")
        /\ \A c \in Buffers : buf[c].valid /\ buf[c].blk = j =>
             ((q \in buf[c].data[HalfOf[q]]) <=> (entry[q][j] = "set"))
    BY DEF Copies, UpdatesSurvive
  <2>2. j \in Blocks /\ HalfOf[q] \in 1..2
    BY Consts
  <2>3. CASE j # k
    BY <1>4, <1>6, <2>1, <2>2, <2>3
  <2>4. CASE j = k
    <3>1. q = p
      BY <1>2, <1>3, <1>4, <2>4, Alone
    <3>2. ~req.write
      BY <1>2, <1>3, <1>4, <2>4, <3>1 DEF Copies, Changed
    <3>3. \A g \in 1..2 : (g = h => buf'[b].data[g] = disk[k][g])
                          /\ (g # h => buf'[b].data[g] = buf[b].data[g])
      BY <1>6, <3>2
    <3> QED BY <1>6, <2>1, <2>2, <2>4, <3>2, <3>3
  <2> QED BY <2>3, <2>4
<1>10. Copied'
  <2> SUFFICES ASSUME NEW q \in Procs, Inside(q), op[q].blk \in Writes[q],
                      NEW g \in 1..2, (Moved(q, g))'
               PROVE  buf'[op[q].b].data[g] = disk'[op[q].blk][g]
    BY <1>1 DEF Copied, Inside
  <2>1. q = p /\ op[q].b = b /\ op[q].blk = k /\ op[q].half = h
    BY <1>3, <1>4
  <2>2. CASE g = h
    BY <1>6, <2>1, <2>2
  <2>3. CASE g # h
    <3>1. Moved(q, g)
      BY <1>1, <2>1, <2>3 DEF Moved
    <3>2. buf[b].data[g] = disk[k][g]
      BY <2>1, <3>1 DEF Copies, Copied
    <3> QED BY <1>6, <2>1, <2>3, <3>2
  <2> QED BY <2>2, <2>3
<1> QED BY <1>8, <1>9, <1>10 DEF Copies

\* Every step preserves the copies.
LEMMA CopiesStep ==
  ASSUME Apart
  PROVE  Inv /\ Copies /\ [Next]_vars => Copies'
<1> SUFFICES ASSUME Inv, Copies, [Next]_vars PROVE Copies'
  OBVIOUS
<1>1. ASSUME UNCHANGED <<buf, at, op, req, disk, entry>> PROVE Copies'
  BY <1>1 DEF Copies, UpdatesSurvive, Changed, Copied, Moved, Inside
<1>2. CASE UNCHANGED vars
  BY <1>1, <1>2 DEF vars
<1>3. ASSUME NEW p \in Procs, Dispatch(p) \/ DiskWait(p) \/ RwWait(p) PROVE Copies'
  BY <1>1, <1>3 DEF Dispatch, DiskWait, RwWait
<1>4. CASE Expire \/ VirtioIntr
  BY <1>1, <1>4 DEF Expire, VirtioIntr
<1>5. ASSUME NEW p \in Procs, NEW kind, NEW k, Bget(p, kind, k) PROVE Copies'
  BY <1>1, <1>5, GotCopies DEF Bget, BgetFails, vars
<1>6. ASSUME NEW p \in Procs, Call(p) PROVE Copies'
  BY <1>5, <1>6 DEF Call
<1>7. ASSUME NEW p \in Procs, Proceed(p) PROVE Copies'
  BY <1>3, <1>7, MoveCopies, ModifyCopies, ReturnCopies DEF Proceed
<1>8. CASE Transfer \/ Answer
  BY <1>8, TransferCopies, AnswerCopies
<1> QED BY <1>2, <1>3, <1>4, <1>6, <1>7, <1>8 DEF Next

\* What a successful bio_write stored stays on the disk and in every valid buffer
\* until its owner changes it again, whatever fails or is evicted, for processes
\* that do not share the blocks they write (bio_read, bio_write, virtio_disk_rw).
THEOREM UpdatesKept == ASSUME Apart PROVE Spec => []UpdatesSurvive
<1>1. Init => Copies
  BY Consts DEF Init, Copies, UpdatesSurvive, Changed, Copied, Inside
<1>2. Inv /\ Copies /\ [Next]_vars => Copies'
  BY CopiesStep
<1>3. Copies => UpdatesSurvive
  BY DEF Copies
<1> QED BY <1>1, <1>2, <1>3, Invariance, PTL DEF Spec
=============================================================================
