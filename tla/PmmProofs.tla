----------------------------- MODULE PmmProofs -----------------------------
(***************************************************************************)
(* Proofs about Pmm, for a RAM of any size, any reserved region and runs   *)
(* of any length: the list is the set of free pages in address order, the  *)
(* counter counts it, no page is in two hands, and the list implements     *)
(* PageSet.                                                                *)
(***************************************************************************)
EXTENDS Pmm, TLAPS, FiniteSetTheorems, WellFoundedInduction

\* Every loop is in order and every list operation leaves the list in order.
Inv ==
  /\ TypeOK
  /\ SortedList
  /\ NoneSharedNoneLost
  /\ CountExact
  /\ ScanInv
  /\ CutInv
  /\ InsertInv
  /\ pc = "idle" => n \in 0 .. MaxRun

\* A set of numbers that is not empty has a least element.
LEMMA LeastElement ==
  ASSUME NEW T, T \subseteq Nat, T # {}
  PROVE  \E x \in T : \A y \in T : x <= y
<1>1. PICK x \in T : \A y \in T : ~(<<y, x>> \in OpToRel(<, Nat))
  BY NatLessThanWellFounded, WFMin
<1>2. ASSUME NEW y \in T PROVE x <= y
  <2>1. ~(y < x)
    BY <1>1 DEF OpToRel
  <2>2. x \in Nat /\ y \in Nat
    OBVIOUS
  <2> QED
    BY <2>1, <2>2
<1> QED
  BY <1>2

\* Above names the next page of a set in address order, 0 behind the last.
LEMMA AboveIsNext ==
  ASSUME NEW S, S \subseteq Pages, NEW x \in Links
  PROVE  \/ Above(S, x) = 0 /\ \A q \in S : q <= x
         \/ Above(S, x) \in S /\ Above(S, x) > x /\ \A q \in S : q > x => Above(S, x) <= q
<1> DEFINE T == {q \in S : q > x}
<1> USE PmmAssumption DEF PmmAssumption, Pages, Links
<1>1. CASE T = {}
  BY <1>1 DEF Above
<1>2. CASE T # {}
  <2>1. T \subseteq Nat
    <3>1. S \subseteq 1 .. NPages
      OBVIOUS
    <3>2. 1 .. NPages \subseteq Nat
      OBVIOUS
    <3> QED
      BY <3>1, <3>2, Zenon
  <2>2. PICK q \in T : \A r \in T : q <= r
    BY <1>2, <2>1, LeastElement
  <2>3. q \in S /\ q > x /\ \A r \in S : r > x => q <= r
    BY <2>2
  <2> QED
    BY <2>3 DEF Above
<1> QED
  BY <1>1, <1>2

\* A set of free pages is finite and no larger than RAM.
LEMMA FreeFinite ==
  ASSUME NEW S, S \subseteq Frames
  PROVE  IsFiniteSet(S) /\ Cardinality(S) \in 0 .. NPages
<1>1. IsFiniteSet(1 .. NPages) /\ Cardinality(1 .. NPages) = NPages
  BY PmmAssumption, FS_Interval DEF PmmAssumption
<1>2. S \in SUBSET (1 .. NPages)
  BY DEF Frames, Pages
<1>3. IsFiniteSet(S) /\ Cardinality(S) <= NPages
  BY <1>1, <1>2, FS_Subset
<1>4. Cardinality(S) \in Nat
  BY <1>3, FS_CardinalityType
<1> QED
  BY <1>3, <1>4, PmmAssumption DEF PmmAssumption

\* pmm_init builds a list in order.
LEMMA InitInv == Init => Inv
<1> SUFFICES ASSUME Init PROVE Inv
  OBVIOUS
<1> USE PmmAssumption DEF PmmAssumption
<1>1. Frames \subseteq Pages
  BY DEF Frames
<1>2. ASSUME NEW x \in Links PROVE Above(Frames, x) \in Links
  <2>1. Above(Frames, x) = 0 \/ Above(Frames, x) \in Frames
    BY <1>1, AboveIsNext
  <2>2. 0 \in Links /\ Pages \subseteq Links
    BY DEF Pages, Links
  <2> QED
    BY <1>1, <2>1, <2>2, Zenon
<1>3. free_count \in 0 .. NPages
  BY FreeFinite DEF Init
<1>4. TypeOK
  <2>1. next \in [Pages -> Links]
    BY <1>2 DEF Init, Pages, Links
  <2> QED
    BY <1>2, <1>3, <2>1 DEF Init, TypeOK, Loops, Links
<1>5. SortedList
  <2>1. IsNext(0, freelist)
    BY <1>1, AboveIsNext DEF Init, IsNext, Links
  <2>2. ASSUME NEW x \in free PROVE IsNext(x, next[x])
    <3>1. x \in Frames /\ x \in Links /\ next[x] = Above(Frames, x)
      BY <1>1 DEF Init, Pages, Links
    <3> QED
      BY <1>1, <3>1, AboveIsNext DEF Init, IsNext
  <2> QED
    BY <2>1, <2>2 DEF SortedList
<1> QED
  BY <1>4, <1>5 DEF Init, Inv, NoneSharedNoneLost, CountExact, ScanInv, CutInv, InsertInv

\* A call begins: the list is as it was.
LEMMA CallStep ==
  ASSUME Inv, NEW len \in 1 .. MaxRun, Call(len)
  PROVE  Inv'
BY PmmAssumption
   DEF PmmAssumption, Inv, TypeOK, Loops, Links, SortedList, IsNext, NoneSharedNoneLost, CountExact,
       ScanInv, CutInv, InsertInv, RunAt, At, Call, list, locals

\* pmm_alloc takes the head of the list.
LEMMA AllocStep ==
  ASSUME Inv, PmmAlloc
  PROVE  Inv'
<1> USE PmmAssumption DEF PmmAssumption
<1>1. freelist \in free /\ \A q \in free : freelist <= q
  BY DEF Inv, SortedList, IsNext, PmmAlloc, TypeOK, Links, Frames, Pages
<1>2. IsNext(freelist, next[freelist])
  BY <1>1 DEF Inv, SortedList
<1>3. free' = free \ {freelist}
  BY DEF PmmAlloc, HandOut
<1>4. CountExact' /\ free_count' \in 0 .. NPages
  <2>1. IsFiniteSet(free) /\ Cardinality(free) \in 0 .. NPages
    BY FreeFinite DEF Inv, TypeOK
  <2>2. Cardinality(free') = Cardinality(free) - 1
    BY <1>1, <1>3, <2>1, FS_RemoveElement
  <2>3. free' \subseteq Frames
    BY <1>3 DEF Inv, TypeOK
  <2>4. Cardinality(free') \in 0 .. NPages
    BY <2>3, FreeFinite
  <2> QED
    BY <2>2, <2>4 DEF Inv, CountExact, PmmAlloc
<1>5. freelist' = next[freelist]
  BY DEF PmmAlloc, Store
<1>6. \A p \in Pages \ {freelist} : next'[p] = next[p]
  BY DEF PmmAlloc, Store, Pages
<1>7. TypeOK'
  <2>1. next' \in [Pages -> Links]
    BY DEF PmmAlloc, Store, Inv, TypeOK, Links, Pages
  <2>2. freelist \in Frames
    BY <1>1 DEF Inv, TypeOK
  <2> QED
    BY <1>4, <1>5, <2>1, <2>2
    DEF PmmAlloc, HandOut, Idle, Inv, TypeOK, Loops, Links, Frames, Pages
<1>8. SortedList'
  <2>1. IsNext(0, freelist)'
    BY <1>1, <1>2, <1>3, <1>5 DEF IsNext, Inv, TypeOK, Frames, Pages
  <2>2. ASSUME NEW x \in free' PROVE IsNext(x, next[x])'
    <3>1. x \in free /\ x \in Pages /\ x > freelist /\ next'[x] = next[x] /\ IsNext(x, next[x])
      BY <1>1, <1>3, <1>6 DEF Inv, TypeOK, SortedList, Frames, Pages
    <3>2. free \subseteq Nat /\ freelist \in Nat
      BY <1>1 DEF Inv, TypeOK, Frames, Pages
    <3>3. CASE next[x] = 0
      BY <1>3, <3>1, <3>2, <3>3 DEF IsNext, Pages
    <3>4. CASE next[x] # 0
      <4>1. next[x] \in free /\ next[x] > x /\ \A q \in free : q > x => next[x] <= q
        BY <3>1, <3>4 DEF IsNext
      <4>2. next[x] \in free'
        BY <1>3, <3>1, <3>2, <4>1 DEF Pages
      <4> QED
        BY <1>3, <3>1, <4>1, <4>2 DEF IsNext
    <3> QED
      BY <3>3, <3>4
  <2> QED
    BY <2>1, <2>2 DEF SortedList
<1> QED
  BY <1>1, <1>4, <1>7, <1>8
  DEF Inv, NoneSharedNoneLost, PmmAlloc, HandOut, Idle, ScanInv, CutInv, InsertInv, TypeOK

\* A refused request leaves everything as it was.
LEMMA RefuseStep ==
  ASSUME Inv, PmmInvalid \/ ScanFails
  PROVE  Inv'
BY PmmAssumption
   DEF PmmAssumption, Inv, TypeOK, Loops, Links, SortedList, IsNext, NoneSharedNoneLost, CountExact,
       ScanInv, CutInv, InsertInv, PmmInvalid, ScanFails, Idle, list

\* The search starts with the run of the first page.
LEMMA SearchStep ==
  ASSUME Inv, PmmAllocContiguous
  PROVE  Inv'
<1> USE PmmAssumption DEF PmmAssumption
<1>1. UNCHANGED <<list, free, owned, ret>>
  BY DEF PmmAllocContiguous
<1>2. freelist \in free /\ \A q \in free : freelist <= q
  BY DEF Inv, SortedList, IsNext, PmmAllocContiguous, TypeOK, Links, Frames, Pages
<1>3. TypeOK'
  BY DEF PmmAllocContiguous, Inv, TypeOK, Loops, Links, list
<1>4. SortedList' /\ NoneSharedNoneLost' /\ CountExact'
  BY <1>1 DEF Inv, SortedList, IsNext, NoneSharedNoneLost, CountExact, list
<1>5. ScanInv'
  <2>1. freelist \in Nat \ {0} /\ n \in Nat /\ n > 1
    BY <1>2 DEF PmmAllocContiguous, Inv, TypeOK, Frames, Pages
  <2>2. RunAt(freelist, 1) = {freelist}
    BY <2>1 DEF RunAt
  <2>3. ScanInv'
    <3>1. pp' = 0 /\ run_start' = 0 /\ base' = freelist /\ count' = 1 /\ n' = n
      BY DEF PmmAllocContiguous
    <3>2. At(pp)' = freelist /\ At(run_start)' = freelist
      BY <1>1, <3>1 DEF At, list
    <3>3. RunAt(base, count)' = {freelist}
      BY <2>2, <3>1 DEF RunAt
    <3>4. free' = free
      BY <1>1
    <3>5. count' \in 1 .. n' /\ At(pp)' = base' + count' - 1
      BY <2>1, <3>1, <3>2
    <3>6. RunAt(base, count)' \subseteq free'
      BY <1>2, <3>3, <3>4
    <3> QED
      BY <1>2, <2>1, <3>1, <3>2, <3>4, <3>5, <3>6 DEF ScanInv
  <2> QED
    BY <2>3
<1> QED
  BY <1>3, <1>4, <1>5 DEF PmmAllocContiguous, Inv, CutInv, InsertInv

\* A step that changes only locals of a call keeps the list in order.
LEMMA ListFrame ==
  ASSUME Inv, UNCHANGED <<list, free, owned>>
  PROVE  /\ SortedList' /\ NoneSharedNoneLost' /\ CountExact'
         /\ \A x : At(x)' = At(x)
BY DEF Inv, SortedList, IsNext, NoneSharedNoneLost, CountExact, list, At

\* One iteration of the search keeps what the search knows.
LEMMA ScanStep ==
  ASSUME Inv, Scan
  PROVE  Inv'
<1> USE PmmAssumption DEF PmmAssumption
<1> DEFINE cur == At(pp)
<1> DEFINE nxt == next[cur]
<1>1. UNCHANGED <<list, pc, n, end, i, pa, left, ret, free, owned>> /\ pp' = cur
  BY DEF Scan
<1>2. free \subseteq Nat \ {0} /\ free \subseteq Pages /\ n \in Nat /\ free \subseteq Links
  BY DEF Inv, TypeOK, Frames, Pages, Links
<1>3. /\ n > 1 /\ pp \in free \cup {0} /\ run_start \in free \cup {0}
      /\ base \in free /\ run_start < base /\ At(run_start) = base
      /\ count \in 1 .. n /\ count < n /\ cur = base + count - 1
      /\ RunAt(base, count) \subseteq free
      /\ \A b \in free : RunAt(b, n) \subseteq free => base <= b
      /\ pc = "scan" /\ nxt # 0
  BY DEF Inv, ScanInv, Scan
<1>4. cur \in free
  BY <1>2, <1>3 DEF RunAt
<1>5. nxt \in free /\ nxt > cur /\ \A q \in free : q > cur => nxt <= q
  BY <1>3, <1>4 DEF Inv, SortedList, IsNext
<1>6. At(pp)' = nxt
  BY <1>1, <1>2, <1>4 DEF At, list
<1> HIDE DEF cur, nxt
<1>7. CASE nxt = cur + 1
  <2>1. count' = count + 1 /\ run_start' = run_start /\ base' = base
    BY <1>7 DEF Scan, RunGoesOn, cur, nxt
  <2>2. RunAt(base, count + 1) \subseteq free
    BY <1>2, <1>3, <1>5, <1>7 DEF RunAt
  <2>3. At(run_start)' = base
    BY <1>1, <1>3, <2>1 DEF At, list
  <2>4. ScanInv'
    <3>1. At(pp)' = base' + count' - 1
      BY <1>1, <1>2, <1>3, <1>6, <1>7, <2>1
    <3>2. count' \in 1 .. n'
      BY <1>1, <1>2, <1>3, <2>1
    <3>3. RunAt(base, count)' \subseteq free'
      BY <1>1, <2>1, <2>2 DEF RunAt
    <3> QED
      BY <1>1, <1>3, <1>4, <2>1, <2>3, <3>1, <3>2, <3>3 DEF ScanInv, RunAt
  <2>5. count' \in 0 .. NPages
    BY <1>2, <1>3, <1>5, <1>7, <2>1 DEF Pages
  <2>6. TypeOK'
    BY <1>1, <1>2, <1>4, <2>1, <2>5 DEF Inv, TypeOK, list
  <2> QED
    BY <1>1, <1>3, <2>4, <2>6, ListFrame DEF Inv, CutInv, InsertInv
<1>8. CASE nxt # cur + 1
  <2>1. count' = 1 /\ run_start' = cur /\ base' = nxt
    BY <1>8 DEF Scan, RunGoesOn, cur, nxt
  <2>2. ASSUME NEW b \in free, RunAt(b, n) \subseteq free PROVE nxt <= b
    <3>1. base <= b
      BY <1>3, <2>2
    <3>2. CASE b <= cur
      <4>1. cur + 1 \in RunAt(b, n)
        BY <1>2, <1>3, <3>1, <3>2 DEF RunAt
      <4>2. cur + 1 \in free
        BY <2>2, <4>1
      <4> QED
        BY <1>2, <1>4, <1>5, <1>8, <4>2
    <3>3. CASE b > cur
      BY <1>5, <3>3
    <3> QED
      BY <1>2, <1>4, <3>2, <3>3
  <2>3. RunAt(nxt, 1) = {nxt}
    BY <1>2, <1>5 DEF RunAt
  <2>4. ScanInv'
    <3>1. At(pp)' = nxt /\ At(run_start)' = nxt
      BY <1>1, <1>6, <2>1 DEF At
    <3>2. count' \in 1 .. n' /\ nxt = base' + count' - 1
      BY <1>1, <1>2, <1>3, <1>5, <2>1
    <3>3. RunAt(base, count)' \subseteq free'
      BY <1>1, <1>5, <2>1, <2>3 DEF RunAt
    <3>4. \A b \in free' : RunAt(b, n)' \subseteq free' => base' <= b
      BY <1>1, <2>1, <2>2 DEF RunAt
    <3> QED
      BY <1>1, <1>3, <1>4, <1>5, <2>1, <3>1, <3>2, <3>3, <3>4 DEF ScanInv
  <2>5. TypeOK'
    BY <1>1, <1>2, <1>4, <1>5, <2>1 DEF Inv, TypeOK, list, Pages
  <2> QED
    BY <1>1, <1>3, <2>4, <2>5, ListFrame DEF Inv, CutInv, InsertInv
<1> QED
  BY <1>7, <1>8

\* The search ends with a run of n pages.
LEMMA FoundStep ==
  ASSUME Inv, ScanEnds
  PROVE  Inv'
<1> USE PmmAssumption DEF PmmAssumption
<1>1. UNCHANGED <<list, n, run_start, base, count, pp, pa, left, ret, free, owned>>
  BY DEF ScanEnds
<1>2. end' = base /\ i' = 0 /\ pc' = "cut"
  BY DEF ScanEnds, Inv, ScanInv
<1>3. count = n
  BY DEF ScanEnds, Inv, ScanInv, TypeOK
<1>4. TypeOK'
  BY <1>1, <1>2 DEF Inv, TypeOK, list, Loops
<1>5. base + 0 = base
  BY DEF Inv, TypeOK, Links
<1>6. CutInv'
  BY <1>1, <1>2, <1>3, <1>5 DEF ScanEnds, Inv, TypeOK, ScanInv, CutInv, RunAt, At, list
<1> QED
  BY <1>1, <1>2, <1>4, <1>6, ListFrame DEF Inv, ScanInv, InsertInv

\* end moves one page down the run, and at last out of it.
LEMMA CutStep ==
  ASSUME Inv, Cut
  PROVE  Inv'
<1> USE PmmAssumption DEF PmmAssumption
<1>1. UNCHANGED <<list, pc, n, run_start, base, count, pp, pa, left, ret, free, owned>>
  BY DEF Cut
<1>2. end = base + i /\ i < n /\ n > 1 /\ i' = i + 1 /\ end' = next[end] /\ pc = "cut"
      /\ RunAt(base, n) \subseteq free /\ base \in free
  BY DEF Cut, Inv, CutInv
<1>3. free \subseteq Nat \ {0} /\ free \subseteq Pages /\ n \in Nat /\ i \in Nat
  BY DEF Inv, TypeOK, Frames, Pages
<1>4. end \in free
  BY <1>2, <1>3 DEF RunAt
<1>5. CASE i + 1 = n
  <2>1. end = base + n - 1
    BY <1>2, <1>3, <1>5
  <2>2. CutInv'
    BY <1>1, <1>2, <1>3, <1>5, <2>1 DEF Inv, CutInv, RunAt, At, list
  <2> QED
    BY <1>1, <1>2, <1>3, <1>4, <1>5, <2>2, ListFrame DEF Inv, TypeOK, list, ScanInv, InsertInv
<1>6. CASE i + 1 < n
  <2>1. base + (i + 1) \in free
    BY <1>2, <1>3, <1>6 DEF RunAt
  <2>2. next[end] = base + (i + 1)
    <3>1. IsNext(end, next[end])
      BY <1>4 DEF Inv, SortedList
    <3>2. next[end] \in Nat
      BY <1>3, <1>4 DEF Inv, TypeOK, Links
    <3> QED
      BY <1>2, <1>3, <1>4, <2>1, <3>1, <3>2 DEF IsNext
  <2>3. CutInv'
    BY <1>1, <1>2, <1>3, <1>6, <2>2 DEF Inv, CutInv, RunAt, At, list
  <2> QED
    BY <1>1, <1>2, <1>3, <1>4, <1>6, <2>3, ListFrame DEF Inv, TypeOK, list, ScanInv, InsertInv
<1> QED
  BY <1>2, <1>3, <1>5, <1>6

\* The run is taken off the list.
LEMMA TakenStep ==
  ASSUME Inv, CutEnds
  PROVE  Inv'
<1> USE PmmAssumption DEF PmmAssumption
<1> DEFINE run == RunAt(base, n)
<1>1. /\ n > 1 /\ run_start \in free \cup {0} /\ base \in free /\ run_start < base
      /\ At(run_start) = base /\ run \subseteq free /\ end = next[base + n - 1]
  BY DEF CutEnds, Inv, CutInv
<1>2. free \subseteq Nat \ {0} /\ free \subseteq Pages /\ n \in Nat /\ base \in Nat
  BY DEF Inv, TypeOK, Frames, Pages, Links
<1>3. free' = free \ run /\ owned' = owned \cup run /\ ret' = base
  BY DEF CutEnds, HandOut
<1>4. base + n - 1 \in run /\ \A q \in Nat : q \in run <=> base <= q /\ q <= base + n - 1
  BY <1>1, <1>2 DEF RunAt
<1>5. IsNext(base + n - 1, end)
  BY <1>1, <1>4 DEF Inv, SortedList
<1>6. IsNext(run_start, base)
  BY <1>1, <1>2 DEF Inv, SortedList, At
<1>7. /\ freelist' = IF run_start = 0 THEN end ELSE freelist
      /\ \A p \in Pages : p \notin run => next'[p] = IF p = run_start THEN end ELSE next[p]
      /\ next' \in [Pages -> Links] /\ end \in Links
  BY DEF CutEnds, Store, Inv, TypeOK, Links
<1>8. CountExact' /\ free_count' \in 0 .. NPages
  <2>1. IsFiniteSet(free)
    BY FreeFinite DEF Inv, TypeOK
  <2>2. Cardinality(run) = n
    BY <1>1, <1>2, FS_Interval DEF RunAt
  <2>3. free \cap run = run
    BY <1>1
  <2>4. Cardinality(free \ run) = Cardinality(free) - Cardinality(free \cap run)
    BY <2>1, FS_Difference
  <2>5. Cardinality(free') = Cardinality(free) - n
    BY <1>3, <2>2, <2>3, <2>4
  <2>6. free' \subseteq Frames
    BY <1>3 DEF Inv, TypeOK
  <2>7. Cardinality(free') \in 0 .. NPages
    BY <2>6, FreeFinite
  <2> QED
    BY <2>5, <2>7 DEF Inv, CountExact, CutEnds
<1> HIDE DEF run
<1>9. TypeOK'
  BY <1>1, <1>2, <1>3, <1>7, <1>8 DEF CutEnds, Idle, Inv, TypeOK, Loops, Links
<1>10. \A q \in free' : q > run_start => q > base + n - 1
  BY <1>1, <1>2, <1>3, <1>4, <1>6 DEF IsNext
<1>11. \/ end = 0 /\ \A q \in free' : q <= run_start
       \/ end \in free' /\ end > run_start /\ \A q \in free' : q > run_start => end <= q
  <2>0. free' \subseteq free /\ run_start \in Nat /\ base + n - 1 \in Nat /\ run_start < base + n - 1
    BY <1>1, <1>2, <1>3
  <2>1. CASE end = 0
    <3>1. \A q \in free : q <= base + n - 1
      BY <1>2, <1>5, <2>1 DEF IsNext
    <3> QED
      BY <1>2, <1>10, <2>0, <2>1, <3>1
  <2>2. CASE end # 0
    <3>1. end \in free /\ end > base + n - 1 /\ \A q \in free : q > base + n - 1 => end <= q
      BY <1>5, <2>2 DEF IsNext
    <3>2. end \in Nat /\ end \notin run
      BY <1>2, <1>4, <2>0, <3>1
    <3> QED
      BY <1>2, <1>3, <1>10, <2>0, <3>1, <3>2
  <2> QED
    BY <2>1, <2>2
<1>12. SortedList'
  <2>1. IsNext(0, freelist)'
    <3>1. CASE run_start = 0
      <4>1. freelist' = end
        BY <1>7, <3>1
      <4> QED
        BY <1>11, <3>1, <4>1 DEF IsNext
    <3>2. CASE run_start # 0
      <4>1. freelist \in free /\ freelist <= run_start /\ freelist > 0 /\ \A q \in free : freelist <= q
        BY <1>1, <1>2, <3>2 DEF Inv, SortedList, IsNext
      <4>2. freelist \in free'
        BY <1>1, <1>2, <1>3, <1>4, <4>1
      <4> QED
        BY <1>3, <1>7, <3>2, <4>1, <4>2 DEF IsNext
    <3> QED
      BY <3>1, <3>2
  <2>2. ASSUME NEW x \in free' PROVE IsNext(x, next[x])'
    <3>1. x \in free /\ x \notin run /\ x \in Pages /\ x \in Nat /\ IsNext(x, next[x])
      BY <1>2, <1>3 DEF Inv, SortedList
    <3>2. CASE x = run_start
      <4>1. next'[x] = end
        BY <1>7, <3>1, <3>2
      <4> QED
        BY <1>11, <3>2, <4>1 DEF IsNext
    <3>3. CASE x # run_start
      <4>1. next'[x] = next[x]
        BY <1>7, <3>1, <3>3
      <4>2. CASE next[x] = 0
        BY <1>2, <1>3, <3>1, <4>1, <4>2 DEF IsNext
      <4>3. CASE next[x] # 0
        <5>1. next[x] \in free /\ next[x] > x /\ \A q \in free : q > x => next[x] <= q
          BY <3>1, <4>3 DEF IsNext
        <5>2. next[x] # base
          BY <1>1, <1>2, <1>6, <3>1, <3>3, <5>1 DEF IsNext
        <5>3. next[x] \notin run
          <6>1. SUFFICES ASSUME next[x] \in run PROVE FALSE
            OBVIOUS
          <6>0. next[x] \in Nat /\ base <= next[x] /\ next[x] <= base + n - 1
            BY <1>2, <1>4, <5>1, <6>1
          <6>2. next[x] - 1 \in run
            <7>1. next[x] - 1 \in Nat /\ base <= next[x] - 1 /\ next[x] - 1 <= base + n - 1
              BY <1>2, <5>2, <6>0
            <7> QED
              BY <1>4, <7>1
          <6>3. next[x] - 1 \in free /\ next[x] - 1 # x
            BY <1>1, <3>1, <6>2
          <6>4. next[x] - 1 > x
            BY <3>1, <5>1, <6>0, <6>3
          <6>5. next[x] <= next[x] - 1
            BY <5>1, <6>3, <6>4
          <6> QED
            BY <6>0, <6>5
        <5> QED
          BY <1>3, <4>1, <5>1, <5>3 DEF IsNext
      <4> QED
        BY <4>2, <4>3
    <3> QED
      BY <3>2, <3>3
  <2> QED
    BY <2>1, <2>2 DEF SortedList
<1>13. NoneSharedNoneLost'
  BY <1>1, <1>3 DEF Inv, NoneSharedNoneLost
<1> QED
  BY <1>8, <1>9, <1>12, <1>13 DEF Inv, CutEnds, Idle, ScanInv, CutInv, InsertInv

\* A free begins at the head of the list, and walks on.
LEMMA WalkStep ==
  ASSUME Inv, Walk \/ \E p \in Pages, len \in 1 .. MaxRun : PmmFree(p, len)
  PROVE  Inv'
<1> USE PmmAssumption DEF PmmAssumption
<1>1. CASE Walk
  <2>1. UNCHANGED <<list, pc, n, run_start, base, count, end, i, pa, left, ret, free, owned>>
        /\ pp' = At(pp) /\ At(pp) # 0 /\ At(pp) < pa /\ pc = "insert"
    BY <1>1 DEF Walk
  <2>2. At(pp) \in free
    BY <1>1, <2>1 DEF Inv, SortedList, InsertInv, IsNext, At
  <2>3. TypeOK'
    <3>0. free \subseteq Links
      BY DEF Inv, TypeOK, Frames, Pages, Links
    <3>1. pp' \in Links
      BY <2>1, <2>2, <3>0
    <3> QED
      BY <2>1, <3>1 DEF Inv, TypeOK, list
  <2>4. InsertInv'
    BY <2>1, <2>2 DEF Inv, InsertInv, RunAt
  <2> QED
    BY <2>1, <2>3, <2>4, ListFrame DEF Inv, ScanInv, CutInv
<1>2. CASE \E p \in Pages, len \in 1 .. MaxRun : PmmFree(p, len)
  <2>1. PICK p \in Pages, len \in 1 .. MaxRun : PmmFree(p, len)
    BY <1>2
  <2>2. UNCHANGED <<list, n, run_start, base, count, end, i, ret, free, owned>>
        /\ pc' = "insert" /\ pa' = p /\ left' = len /\ pp' = 0 /\ n = 0
    BY <2>1 DEF PmmFree
  <2>3. p \in Nat /\ p >= 1 /\ p <= NPages /\ len \in Nat /\ len >= 1 /\ len <= MaxRun
    BY DEF Pages
  <2>4. TypeOK'
    BY <2>2, <2>3 DEF Inv, TypeOK, list, Loops, Links
  <2>5. InsertInv'
    BY <2>1, <2>2, <2>3 DEF PmmFree, InsertInv, RunAt
  <2> QED
    BY <2>2, <2>4, <2>5, ListFrame DEF Inv, ScanInv, CutInv
<1> QED
  BY <1>1, <1>2

\* When a page is done, pmm_free_contiguous goes on to the next or returns.
LEMMA NextPageStep ==
  ASSUME Inv, pc = "insert", NextPage, UNCHANGED ret,
         freelist' \in Links, next' \in [Pages -> Links], free_count' \in 0 .. NPages,
         free' \subseteq Frames, owned' \subseteq Frames,
         (owned \cup free) \subseteq (owned \cup free)'
  PROVE  TypeOK' /\ ScanInv' /\ CutInv' /\ InsertInv' /\ (pc = "idle" => n \in 0 .. MaxRun)'
<1> USE PmmAssumption DEF PmmAssumption
<1>1. CASE left > 1
  <2>1. pa' = pa + 1 /\ left' = left - 1 /\ pp' = 0
        /\ UNCHANGED <<pc, n, run_start, base, count, end, i>>
    BY <1>1 DEF NextPage, Inv, TypeOK
  <2>2. pa \in Nat /\ left \in Nat /\ pa + left <= NPages + MaxRun /\ n = 0
    BY DEF Inv, TypeOK, InsertInv
  <2>3. RunAt(pa + 1, left - 1) \subseteq RunAt(pa, left)
    BY <1>1, <2>2 DEF RunAt
  <2>4. InsertInv'
    BY <1>1, <2>1, <2>2, <2>3 DEF Inv, InsertInv, RunAt
  <2>5. TypeOK'
    BY <1>1, <2>1, <2>2 DEF Inv, TypeOK, Links
  <2> QED
    BY <2>1, <2>2, <2>4, <2>5 DEF ScanInv, CutInv
<1>2. CASE left <= 1
  BY <1>2 DEF NextPage, Idle, Inv, TypeOK, Loops, Links, ScanInv, CutInv, InsertInv
<1> QED
  BY <1>1, <1>2 DEF Inv, TypeOK

\* An address outside RAM, or a page on the list, is ignored.
LEMMA IgnoredStep ==
  ASSUME Inv, FreeIgnored
  PROVE  Inv'
<1>1. TypeOK' /\ ScanInv' /\ CutInv' /\ InsertInv' /\ (pc = "idle" => n \in 0 .. MaxRun)'
  BY NextPageStep DEF FreeIgnored, Inv, TypeOK, list
<1> QED
  BY <1>1, ListFrame DEF Inv, FreeIgnored

\* A page that a caller holds goes back to its place in the list.
LEMMA InsertStep ==
  ASSUME Inv, Insert
  PROVE  Inv' /\ pa \in Frames
<1> USE PmmAssumption DEF PmmAssumption
<1> DEFINE cur == At(pp)
<1>1. pc = "insert" /\ pa \in Pages /\ ~(cur # 0 /\ cur < pa) /\ cur # pa
  BY DEF Insert, OnList
<1>2. pp \in free \cup {0} /\ pp < pa /\ (RunAt(pa, left) \cap Pages) \subseteq owned \cup free
      /\ left \in Nat /\ left >= 1
  BY <1>1 DEF Inv, InsertInv, TypeOK
<1>3. free \subseteq Nat \ {0} /\ free \subseteq Pages /\ free \subseteq Links /\ pa \in Nat \ {0}
      /\ pp \in Nat /\ pa \in Links
  BY <1>1 DEF Inv, TypeOK, Frames, Pages, Links
<1>4. IsNext(pp, cur)
  BY <1>2, <1>3 DEF Inv, SortedList, At
<1>5. cur \in Nat /\ cur \in Links
  <2>1. cur = 0 \/ cur \in free
    BY <1>4 DEF IsNext
  <2>2. 0 \in Links /\ 0 \in Nat
    BY DEF Links
  <2>3. CASE cur \in free
    BY <1>3, <2>3, Zenon
  <2> QED
    BY <2>1, <2>2, <2>3
<1> HIDE DEF cur
<1>6. cur = 0 \/ cur > pa
  BY <1>1, <1>3, <1>5
<1>15. \A q \in free : q > pp => cur # 0 /\ cur \in free /\ cur <= q /\ q > pa
  <2> SUFFICES ASSUME NEW q \in free, q > pp PROVE cur # 0 /\ cur \in free /\ cur <= q /\ q > pa
    OBVIOUS
  <2>1. q \in Nat
    BY <1>3
  <2>2. cur # 0 /\ cur \in free /\ cur <= q
    BY <1>3, <1>4, <2>1 DEF IsNext
  <2> QED
    BY <1>3, <1>5, <1>6, <2>1, <2>2
<1>7. pa \notin free
  BY <1>2, <1>3, <1>15
<1>8. pa \in owned /\ pa \in Frames
  <2>1. pa \in RunAt(pa, left)
    BY <1>2, <1>3 DEF RunAt
  <2> QED
    BY <1>1, <1>2, <1>7, <2>1 DEF Inv, TypeOK
<1>9. free' = free \cup {pa} /\ owned' = owned \ {pa} /\ ret' = ret
  BY DEF Insert
<1>10. /\ freelist' = IF pp = 0 THEN pa ELSE freelist
       /\ next'[pa] = cur
       /\ \A p \in Pages : p # pa => next'[p] = IF p = pp THEN pa ELSE next[p]
       /\ next' \in [Pages -> Links]
       /\ freelist' \in Links
  BY <1>1, <1>3, <1>5 DEF Insert, cur, Inv, TypeOK
<1>11. CountExact' /\ free_count' \in 0 .. NPages
  <2>1. IsFiniteSet(free)
    BY FreeFinite DEF Inv, TypeOK
  <2>2. Cardinality(free') = Cardinality(free) + 1
    BY <1>7, <1>9, <2>1, FS_AddElement
  <2>3. free' \subseteq Frames
    BY <1>8, <1>9 DEF Inv, TypeOK
  <2>4. Cardinality(free') \in 0 .. NPages
    BY <2>3, FreeFinite
  <2> QED
    BY <2>2, <2>4 DEF Inv, CountExact, Insert
<1>12. TypeOK' /\ ScanInv' /\ CutInv' /\ InsertInv' /\ (pc = "idle" => n \in 0 .. MaxRun)'
  <2>1. NextPage
    BY DEF Insert
  <2>2. free' \subseteq Frames /\ owned' \subseteq Frames /\ (owned \cup free) \subseteq (owned' \cup free')
    BY <1>8, <1>9 DEF Inv, TypeOK
  <2> QED
    BY <1>1, <1>9, <1>10, <1>11, <2>1, <2>2, NextPageStep
<1>13. NoneSharedNoneLost'
  BY <1>7, <1>8, <1>9 DEF Inv, NoneSharedNoneLost
<1>14. SortedList'
  <2>1. IsNext(0, freelist)'
    <3>1. CASE pp = 0
      <4>1. freelist' = pa /\ \A q \in free' : pa <= q
        BY <1>3, <1>9, <1>10, <1>15, <3>1
      <4> QED
        BY <1>3, <1>9, <4>1 DEF IsNext
    <3>2. CASE pp # 0
      <4>1. freelist \in free /\ freelist <= pp /\ \A q \in free : freelist <= q
        BY <1>2, <1>3, <3>2 DEF Inv, SortedList, IsNext
      <4> QED
        BY <1>2, <1>3, <1>9, <1>10, <3>2, <4>1 DEF IsNext
    <3> QED
      BY <3>1, <3>2
  <2>2. ASSUME NEW x \in free' PROVE IsNext(x, next[x])'
    <3>1. CASE x = pa
      BY <1>2, <1>3, <1>4, <1>6, <1>9, <1>10, <3>1 DEF IsNext
    <3>2. CASE x = pp /\ x # pa
      <4>1. next'[x] = pa
        BY <1>2, <1>3, <1>9, <1>10, <3>2
      <4>2. \A q \in free' : q > x => pa <= q
        BY <1>3, <1>9, <1>15, <3>2
      <4> QED
        BY <1>2, <1>3, <1>9, <3>2, <4>1, <4>2 DEF IsNext
    <3>3. CASE x # pp /\ x # pa
      <4>1. x \in free /\ x \in Pages /\ x \in Nat /\ next'[x] = next[x] /\ IsNext(x, next[x])
        BY <1>3, <1>9, <1>10, <3>3 DEF Inv, SortedList
      <4>2. CASE x < pp
        <5>1. next[x] \in free /\ next[x] > x /\ next[x] <= pp /\ \A q \in free : q > x => next[x] <= q
          BY <1>2, <1>3, <4>1, <4>2 DEF IsNext
        <5>2. next[x] \in Nat /\ next[x] <= pa
          <6>1. next[x] \in Nat
            BY <1>3, <5>1, Zenon
          <6> QED
            BY <1>2, <1>3, <5>1, <6>1
        <5>3. \A q \in free' : q > x => next[x] <= q
          BY <1>9, <5>1, <5>2
        <5> QED
          BY <1>9, <4>1, <5>1, <5>3 DEF IsNext
      <4>3. CASE x > pp
        <5>1. x > pa
          BY <1>3, <1>4, <1>5, <1>6, <4>1, <4>3 DEF IsNext
        <5> QED
          BY <1>3, <1>9, <4>1, <5>1 DEF IsNext
      <4> QED
        BY <1>3, <3>3, <4>1, <4>2, <4>3
    <3> QED
      BY <3>1, <3>2, <3>3
  <2> QED
    BY <2>1, <2>2 DEF SortedList
<1> QED
  BY <1>8, <1>11, <1>12, <1>13, <1>14 DEF Inv

\* The invariant holds in every reachable state.
THEOREM Invariance == Spec => []Inv
<1>1. Inv /\ [Next]_vars => Inv'
  <2> SUFFICES ASSUME Inv, [Next]_vars PROVE Inv'
    OBVIOUS
  <2>1. ASSUME NEW len \in 1 .. MaxRun, Call(len) PROVE Inv'
    BY <2>1, CallStep
  <2>2. CASE Alloc
    BY <2>2, AllocStep, RefuseStep, SearchStep, ScanStep, FoundStep, CutStep, TakenStep DEF Alloc
  <2>3. ASSUME NEW p \in Pages, NEW len \in 1 .. MaxRun, PmmFree(p, len) PROVE Inv'
    BY <2>3, WalkStep
  <2>4. CASE Walk \/ FreeIgnored \/ Insert
    BY <2>4, WalkStep, IgnoredStep, InsertStep
  <2>5. CASE UNCHANGED vars
    BY <2>5 DEF vars, list, locals, Inv, TypeOK, SortedList, IsNext, NoneSharedNoneLost, CountExact,
                ScanInv, CutInv, InsertInv, At, RunAt
  <2> QED
    BY <2>1, <2>2, <2>3, <2>4, <2>5 DEF Next
<1> QED
  BY <1>1, InitInv, PTL DEF Spec

\* pmm.c keeps its list in address order and complete.
THEOREM ListSorted == Spec => []SortedList
BY Invariance, PTL DEF Inv

\* free_count is the length of the list.
THEOREM CountIsExact == Spec => []CountExact
BY Invariance, PTL DEF Inv

\* No page is handed out twice, and no page is lost.
THEOREM PagesKept == Spec => []NoneSharedNoneLost
BY Invariance, PTL DEF Inv

\* The variables of pmm.c stay in their ranges.
THEOREM TypeCorrect == Spec => []TypeOK
BY Invariance, PTL DEF Inv

\* Every step of pmm.c is a step of PageSet or leaves PageSet's variables alone.
LEMMA StepSimulated ==
  ASSUME Inv, [Next]_vars
  PROVE  [Abstract!Next]_(Abstract!vars)
<1> USE PmmAssumption DEF PmmAssumption
<1>0. free \subseteq Nat \ {0} /\ n \in Nat /\ free \subseteq Frames /\ n <= MaxRun
  BY DEF Inv, TypeOK, Frames, Pages
<1>1. ASSUME NEW len \in 1 .. MaxRun, Call(len) PROVE Abstract!Next
  BY <1>1 DEF Call, Abstract!Next, Abstract!Request
<1>2. ASSUME PmmAlloc PROVE Abstract!Next
  <2>1. freelist \in free /\ \A q \in free : freelist <= q
    BY <1>0, <1>2 DEF Inv, SortedList, IsNext, PmmAlloc
  <2>2. n = 1 /\ free' = free \ {freelist} /\ ret' = freelist /\ n' = 0
    BY <1>2 DEF PmmAlloc, HandOut, Idle
  <2>3. Abstract!RunAt(freelist, n) = {freelist}
    BY <1>0, <2>1, <2>2 DEF Abstract!RunAt
  <2>4. Abstract!Grant(freelist)
    BY <2>1, <2>2, <2>3 DEF Abstract!Grant, Abstract!Fits
  <2> QED
    BY <1>0, <2>1, <2>4 DEF Abstract!Next
<1>3. ASSUME PmmInvalid PROVE Abstract!Next
  <2>1. free = {}
    BY <1>0, <1>3 DEF Inv, SortedList, IsNext, PmmInvalid
  <2>2. Abstract!Refuse
    BY <1>3, <2>1 DEF PmmInvalid, Idle, Abstract!Refuse
  <2> QED
    BY <2>2 DEF Abstract!Next
<1>4. ASSUME ScanFails PROVE Abstract!Next
  <2> DEFINE cur == At(pp)
  <2>1. /\ base \in free /\ cur = base + count - 1 /\ count < n /\ count \in Nat /\ count >= 1
        /\ RunAt(base, count) \subseteq free
        /\ \A b \in free : RunAt(b, n) \subseteq free => base <= b
        /\ next[cur] = 0 /\ ret' = 0 /\ n' = 0 /\ free' = free
    BY <1>4 DEF ScanFails, Inv, ScanInv, TypeOK, Idle
  <2>2. cur \in free
    BY <1>0, <2>1 DEF RunAt
  <2>3. \A q \in free : q <= cur
    BY <1>0, <2>1, <2>2 DEF Inv, SortedList, IsNext
  <2>4. ASSUME NEW b \in free, RunAt(b, n) \subseteq free PROVE FALSE
    <3>1. base <= b
      BY <2>1, <2>4
    <3>2. b + n - 1 \in RunAt(b, n)
      BY <1>0, <2>1 DEF RunAt
    <3>3. b + n - 1 <= cur
      BY <2>3, <2>4, <3>2
    <3> QED
      BY <1>0, <2>1, <3>1, <3>3
  <2>5. Abstract!Refuse
    BY <1>0, <2>1, <2>4 DEF Abstract!Refuse, Abstract!Fits, Abstract!RunAt, RunAt
  <2> QED
    BY <2>5 DEF Abstract!Next
<1>5. ASSUME CutEnds PROVE Abstract!Next
  <2>1. /\ base \in free /\ RunAt(base, n) \subseteq free /\ n > 1
        /\ \A b \in free : RunAt(b, n) \subseteq free => base <= b
        /\ free' = free \ RunAt(base, n) /\ ret' = base /\ n' = 0
    BY <1>5 DEF CutEnds, Inv, CutInv, HandOut, Idle
  <2>2. Abstract!Grant(base)
    BY <1>0, <2>1 DEF Abstract!Grant, Abstract!Fits, Abstract!RunAt, RunAt
  <2> QED
    BY <1>0, <2>1, <2>2 DEF Abstract!Next
<1>6. ASSUME PmmAllocContiguous \/ Scan \/ ScanEnds \/ Cut PROVE UNCHANGED Abstract!vars
  BY <1>6 DEF PmmAllocContiguous, Scan, ScanEnds, Cut, Abstract!vars
<1>7. ASSUME NEW p \in Pages, NEW len \in 1 .. MaxRun, PmmFree(p, len) PROVE UNCHANGED Abstract!vars
  BY <1>7 DEF PmmFree, Abstract!vars
<1>8. ASSUME Walk PROVE UNCHANGED Abstract!vars
  BY <1>8 DEF Walk, Abstract!vars
<1>9. ASSUME FreeIgnored PROVE UNCHANGED Abstract!vars
  BY <1>9 DEF FreeIgnored, NextPage, Idle, Inv, InsertInv, Abstract!vars
<1>10. ASSUME Insert PROVE Abstract!Next
  <2>1. free' = free \cup {pa} /\ ret' = ret /\ n = 0 /\ n' = 0
    BY <1>10 DEF Insert, NextPage, Idle, Inv, InsertInv
  <2>2. pa \in Frames
    BY <1>10, InsertStep
  <2> QED
    BY <2>1, <2>2 DEF Abstract!Next, Abstract!GiveBack
<1>11. ASSUME UNCHANGED vars PROVE UNCHANGED Abstract!vars
  BY <1>11 DEF vars, locals, Abstract!vars
<1> QED
  BY <1>1, <1>2, <1>3, <1>4, <1>5, <1>6, <1>7, <1>8, <1>9, <1>10, <1>11 DEF Next, Alloc

\* The free list implements a set of pages with lowest-run allocation: pmm_alloc
\* and pmm_alloc_contiguous never refuse a request that could be met.
THEOREM ListImplementsSet == Spec => PageSetSpec
<1>1. Init => Abstract!Init
  BY DEF Init, Abstract!Init
<1>2. Inv /\ [Next]_vars => [Abstract!Next]_(Abstract!vars)
  BY StepSimulated
<1> QED
  BY <1>1, <1>2, Invariance, PTL DEF Spec, PageSetSpec, Abstract!Spec
=============================================================================
