----------------------------- MODULE PipeProofs -----------------------------
(***************************************************************************)
(* Safety of Pipe for any number of processes, any size of the ring and    *)
(* any modulus of the counters.                                            *)
(*                                                                         *)
(* What makes the properties inductive is that the counters never drift    *)
(* apart by more than PIPESIZE (Bounded): only then do the two tests of    *)
(* the code, nread = nwrite and nwrite = nread + PIPESIZE, mean empty and  *)
(* full although the counters wrap.  The refinement of Stream needs in     *)
(* addition that the wrap does not move a byte to another slot, which is   *)
(* where Wrap % PIPESIZE = 0 is used.                                      *)
(***************************************************************************)
EXTENDS Pipe, Integers, TLAPS

Bounded == Avail <= PIPESIZE

\* A call that waits still wants a byte: a read that resumes with nothing to do
\* would look like the end of the stream.
Wanting == \A p \in Procs : in[p] # "user" => left[p] # 0

Inv == TypeOK /\ Bounded /\ EndsHeld /\ SleepersJustified /\ Wanting

-----------------------------------------------------------------------------
(* Remainders *)

\* Division with remainder.
LEMMA DivMod ==
  ASSUME NEW a \in Nat, NEW P \in Nat \ {0}
  PROVE  \E q \in Nat : \E r \in 0 .. P - 1 : a = q * P + r /\ a % P = r
<1>1. a \div P \in Nat /\ a % P \in 0 .. P - 1
  BY SMT
<1>2. a = (a \div P) * P + (a % P)
  BY SMT
<1> QED
  BY <1>1, <1>2

\* The remainder is unique.
LEMMA Unique ==
  ASSUME NEW P \in Nat \ {0}, NEW q \in Nat, NEW s \in Nat, NEW r \in 0 .. P - 1, NEW t \in 0 .. P - 1,
         q * P + r = s * P + t
  PROVE  r = t
<1>1. ASSUME NEW n \in Nat, n >= 1 PROVE n * P >= P
  BY <1>1, SMT
<1>2. CASE q > s
  <2>1. (q - s) * P = t - r
    BY SMT
  <2>2. (q - s) * P >= P
    BY <1>1, <1>2
  <2> QED
    BY <2>1, <2>2
<1>3. CASE q < s
  <2>1. (s - q) * P = r - t
    BY SMT
  <2>2. (s - q) * P >= P
    BY <1>1, <1>3
  <2> QED
    BY <2>1, <2>2
<1>4. CASE q = s
  BY <1>4
<1> QED
  BY <1>2, <1>3, <1>4

\* What is left below the divisor is the remainder.
LEMMA Remainder ==
  ASSUME NEW P \in Nat \ {0}, NEW q \in Nat, NEW r \in 0 .. P - 1
  PROVE  (q * P + r) % P = r
<1>1. q * P + r \in Nat
  BY SMT
<1> QED
  BY <1>1, DivMod, Unique

\* Multiples of the modulus do not matter.
LEMMA Shift ==
  ASSUME NEW P \in Nat \ {0}, NEW a \in Nat, NEW s \in Nat
  PROVE  (a + s * P) % P = a % P
<1>1. PICK q \in Nat, r \in 0 .. P - 1 : a = q * P + r /\ a % P = r
  BY DivMod
<1>2. a + s * P = (q + s) * P + r
  BY <1>1, SMT
<1> QED
  BY <1>1, <1>2, Remainder

\* The place of t bytes after w, counted from the place of w.
LEMMA Offset ==
  ASSUME NEW P \in Nat \ {0}, NEW w \in Nat, NEW t \in 0 .. P - 1
  PROVE  (((w + t) % P) + P - (w % P)) % P = t
<1>1. PICK q \in Nat, r \in 0 .. P - 1 : w = q * P + r /\ w % P = r
  BY DivMod
<1>2. CASE r + t < P
  <2>1. w + t = q * P + (r + t) /\ r + t \in 0 .. P - 1
    BY <1>1, <1>2, SMT
  <2>2. (w + t) % P = r + t
    BY <2>1, Remainder
  <2>3. ((w + t) % P) + P - (w % P) = 1 * P + t
    BY <1>1, <2>2
  <2> QED
    BY <2>3, Remainder
<1>3. CASE r + t >= P
  <2>1. PICK z \in 0 .. P - 1 : z = r + t - P
    BY <1>3
  <2>2. PICK n \in Nat : n = q + 1
    OBVIOUS
  <2>3. w + t = n * P + z
    BY <1>1, <2>1, <2>2, SMT
  <2>4. (w + t) % P = z
    BY <2>3, Remainder
  <2>5. ((w + t) % P) + P - (w % P) = 0 * P + t
    BY <1>1, <2>1, <2>4
  <2> QED
    BY <2>5, Remainder
<1> QED
  BY <1>2, <1>3

-----------------------------------------------------------------------------
(* The ring *)

\* The remainder lies below the divisor: the index of a byte in the ring.
LEMMA ModRange ==
  ASSUME NEW a \in Nat, NEW b \in Nat \ {0}
  PROVE  a % b \in 0 .. b - 1
BY SMT

\* The linear part of the assumptions.
LEMMA Sizes ==
  /\ Creator \in Procs
  /\ PIPESIZE \in Nat \ {0} /\ Wrap \in Nat /\ PIPESIZE < Wrap /\ MaxIO \in Nat \ {0}
BY PipeAssumption DEF PipeAssumption

\* The counters wrap at a multiple of the size of the ring.
LEMMA WrapMultiple == \E s \in Nat : Wrap = s * PIPESIZE
<1>1. PIPESIZE \in Nat \ {0} /\ Wrap \in Nat /\ Wrap % PIPESIZE = 0
  BY PipeAssumption DEF PipeAssumption
<1>2. PICK q \in Nat, r \in 0 .. PIPESIZE - 1 : Wrap = q * PIPESIZE + r /\ Wrap % PIPESIZE = r
  BY <1>1, DivMod
<1> QED
  BY <1>1, <1>2

\* The two tests of pipe.c, in terms of the bytes in the ring.
LEMMA Tests ==
  ASSUME TypeOK, Bounded
  PROVE  /\ Avail \in 0 .. PIPESIZE
         /\ Empty <=> Avail = 0
         /\ Full <=> Avail = PIPESIZE
BY Sizes DEF TypeOK, Bounded, Avail, Empty, Full, Plus

\* The test for a full ring, for any two values of the counters.
Difference(w, r) == IF w >= r THEN w - r ELSE w + Wrap - r
LEMMA FullTest ==
  ASSUME NEW w \in 0 .. Wrap - 1, NEW r \in 0 .. Wrap - 1
  PROVE  w = Plus(r, PIPESIZE) <=> Difference(w, r) = PIPESIZE
BY Sizes DEF Plus, Difference

\* Reading m bytes takes them out of the ring.
LEMMA TakeOut ==
  ASSUME TypeOK, Bounded, NEW m \in Nat, m <= Avail,
         nread' = Plus(nread, m), nwrite' = nwrite
  PROVE  nread' \in 0 .. Wrap - 1 /\ Avail' = Avail - m
<1>1. CASE nread + m >= Wrap
  BY <1>1, Sizes DEF TypeOK, Bounded, Avail, Plus
<1>2. CASE nread + m < Wrap
  BY <1>2, Sizes DEF TypeOK, Bounded, Avail, Plus
<1> QED
  BY <1>1, <1>2, Sizes DEF TypeOK

\* Writing m bytes puts them in.
LEMMA PutIn ==
  ASSUME TypeOK, Bounded, NEW m \in Nat, m <= Room,
         nwrite' = Plus(nwrite, m), nread' = nread
  PROVE  nwrite' \in 0 .. Wrap - 1 /\ Avail' = Avail + m
<1>1. CASE nwrite + m >= Wrap
  BY <1>1, Sizes DEF TypeOK, Bounded, Avail, Room, Plus
<1>2. CASE nwrite + m < Wrap
  BY <1>2, Sizes DEF TypeOK, Bounded, Avail, Room, Plus
<1> QED
  BY <1>1, <1>2, Sizes DEF TypeOK

\* pipealloc establishes the invariant.
LEMMA InitInv == Init => Inv
<1> SUFFICES ASSUME Init PROVE Inv
  OBVIOUS
<1>1. TypeOK
  BY PipeAssumption DEF PipeAssumption, Init, TypeOK, Index
<1>2. Bounded
  BY PipeAssumption DEF PipeAssumption, Init, Bounded, Avail
<1>3. EndsHeld /\ SleepersJustified /\ Wanting
  BY DEF Init, EndsHeld, SleepersJustified, Wanting
<1> QED
  BY <1>1, <1>2, <1>3 DEF Inv

-----------------------------------------------------------------------------
(* The steps *)

\* A call returns or waits: the type of the variables of the processes.
LEMMA WaitTypes ==
  ASSUME TypeOK, NEW p \in Procs, NEW call \in {"read", "write"}, NEW k \in 0 .. MaxIO,
         NEW A \in SUBSET Procs,
         (Return(p) /\ asleep' = A) \/ WaitFor(p, call, k, A)
  PROVE  /\ in' \in [Procs -> {"user", "read", "write"}]
         /\ left' \in [Procs -> 0 .. MaxIO]
         /\ asleep' \subseteq Procs
<1>1. in' \in [Procs -> {"user", "read", "write"}]
  BY DEF TypeOK, Return, WaitFor
<1>2. left' \in [Procs -> 0 .. MaxIO]
  BY Sizes DEF TypeOK, Return, WaitFor
<1>3. asleep' \subseteq Procs
  BY DEF Return, WaitFor
<1> QED
  BY <1>1, <1>2, <1>3

\* One turn of the loop of piperead.
LEMMA ReadLoopInv ==
  ASSUME Inv, NEW p \in rfds, NEW k \in 1 .. MaxIO, ReadLoop(p, k),
         UNCHANGED <<data, nwrite, ends, pending>>
  PROVE  Inv'
<1> USE DEF Inv
<1>p. p \in Procs
  BY DEF TypeOK
<1>1. CASE MustWait /\ WaitFor(p, "read", k, asleep) /\ UNCHANGED <<nread, buf>>
  <2>1. TypeOK'
    BY <1>1, <1>p, WaitTypes DEF TypeOK, ends
  <2>2. Bounded'
    BY <1>1 DEF Bounded, Avail
  <2>3. EndsHeld'
    BY <1>1, <1>p DEF EndsHeld, ends, TypeOK, WaitFor, Return
  <2>4. SleepersJustified'
    BY <1>1, <1>p DEF SleepersJustified, ends, TypeOK, WaitFor, Return, MustWait, Empty, Full
  <2>5. Wanting'
    BY <1>1, <1>p DEF Wanting, TypeOK, WaitFor, Return
  <2> QED
    BY <2>1, <2>2, <2>3, <2>4, <2>5
<1>2. ASSUME ~MustWait, nread' = Plus(nread, Least(k, Avail)),
             buf' = [j \in 1 .. Least(k, Avail) |-> Contents[j]],
             asleep' = WakeWriters(asleep), Return(p)
      PROVE  Inv'
  <2>m. Least(k, Avail) \in 0 .. PIPESIZE /\ Least(k, Avail) <= Avail
    BY Tests, Sizes DEF Least
  <2>r. nread' \in 0 .. Wrap - 1 /\ Avail' = Avail - Least(k, Avail)
    BY <1>2, <2>m, TakeOut
  <2>b. Len(buf') = Least(k, Avail)
    <3> DEFINE m == Least(k, Avail)
    <3>1. m \in Nat
      BY <2>m, Sizes
    <3>2. buf' = [j \in 1 .. m |-> Contents[j]]
      BY <1>2
    <3> HIDE DEF m
    <3>3. Len(buf') = m
      BY <3>1, <3>2
    <3> QED
      BY <3>3 DEF m
  <2>a. WakeWriters(asleep) \in SUBSET Procs
    BY DEF WakeWriters, TypeOK
  <2>t. /\ in' \in [Procs -> {"user", "read", "write"}]
        /\ left' \in [Procs -> 0 .. MaxIO]
        /\ asleep' \subseteq Procs
    <3>1. k \in 0 .. MaxIO
      OBVIOUS
    <3> QED
      BY <1>2, <1>p, <2>a, <3>1, WaitTypes
  <2>1. TypeOK'
    BY <2>m, <2>r, <2>b, <2>t DEF TypeOK, ends
  <2>2. Bounded'
    BY <2>m, <2>r, Tests, Sizes DEF Bounded
  <2>3. EndsHeld'
    BY <1>2, <1>p DEF EndsHeld, ends, TypeOK, Return
  <2>4. SleepersJustified'
    BY <1>2, <1>p DEF SleepersJustified, ends, TypeOK, Return, MustWait, WakeWriters
  <2>5. Wanting'
    BY <1>2, <1>p DEF Wanting, TypeOK, Return
  <2> QED
    BY <2>1, <2>2, <2>3, <2>4, <2>5
<1> QED
  BY <1>1, <1>2 DEF ReadLoop

\* One turn of the loop of pipewrite.
LEMMA WriteLoopInv ==
  ASSUME Inv, NEW p \in wfds, NEW k \in 1 .. MaxIO, WriteLoop(p, k),
         UNCHANGED <<nread, ends, pending, buf>>
  PROVE  Inv'
<1> USE DEF Inv
<1>p. p \in Procs
  BY DEF TypeOK
<1>1. CASE ~readopen /\ Return(p) /\ UNCHANGED <<data, nwrite, asleep>>
  <2>1. TypeOK'
    BY <1>1, <1>p, Sizes DEF TypeOK, ends, Return
  <2>2. Bounded'
    BY <1>1 DEF Bounded, Avail
  <2>3. EndsHeld'
    BY <1>1, <1>p DEF EndsHeld, ends, TypeOK, Return
  <2>4. SleepersJustified'
    BY <1>1, <1>p DEF SleepersJustified, ends, TypeOK, Return, Empty, Full
  <2>5. Wanting'
    BY <1>1, <1>p DEF Wanting, TypeOK, Return
  <2> QED
    BY <2>1, <2>2, <2>3, <2>4, <2>5
<1>2. ASSUME readopen, NEW m, m = Least(k, Room),
             NEW chunk \in [1 .. m -> Bytes],
             data' = [x \in Index |->
               LET j == (x + PIPESIZE - (nwrite % PIPESIZE)) % PIPESIZE
               IN  IF j < m THEN chunk[j + 1] ELSE data[x]],
             nwrite' = Plus(nwrite, m),
             \/ m = k /\ Return(p) /\ asleep' = WakeReaders(asleep)
             \/ m < k /\ WaitFor(p, "write", k - m, WakeReaders(asleep))
      PROVE  Inv'
  <2>m. m \in 0 .. PIPESIZE /\ m <= Room /\ k - m \in 0 .. MaxIO
    BY <1>2, Tests, Sizes DEF Least, Room
  <2>w. nwrite' \in 0 .. Wrap - 1 /\ Avail' = Avail + m
    BY <1>2, <2>m, PutIn
  <2>d. data' \in [Index -> Bytes]
    <3>1. ASSUME NEW x \in Index
          PROVE  (x + PIPESIZE - (nwrite % PIPESIZE)) % PIPESIZE \in Nat
      <4>1. nwrite % PIPESIZE \in 0 .. PIPESIZE - 1
        <5>1. nwrite \in Nat
          BY Sizes DEF TypeOK
        <5> QED
          BY <5>1, Sizes, ModRange
      <4>2. x + PIPESIZE - (nwrite % PIPESIZE) \in Nat
        <5> DEFINE r == nwrite % PIPESIZE
        <5>1. r \in 0 .. PIPESIZE - 1
          BY <4>1
        <5> HIDE DEF r
        <5>2. x + PIPESIZE - r \in Nat
          BY <5>1, Sizes DEF Index
        <5> QED
          BY <5>2 DEF r
      <4> QED
        <5> DEFINE y == x + PIPESIZE - (nwrite % PIPESIZE)
        <5> HIDE DEF y
        <5>1. y \in Nat
          BY <4>2 DEF y
        <5>2. y % PIPESIZE \in 0 .. PIPESIZE - 1
          BY <5>1, Sizes, ModRange
        <5>3. y % PIPESIZE \in Nat
          BY <5>2, Sizes
        <5> QED
          BY <5>3 DEF y
    <3>2. ASSUME NEW x \in Index, NEW j \in Nat
          PROVE  (IF j < m THEN chunk[j + 1] ELSE data[x]) \in Bytes
      BY <2>m DEF TypeOK
    <3> QED
      BY <1>2, <3>1, <3>2
  <2>a. WakeReaders(asleep) \in SUBSET Procs
    BY DEF WakeReaders, TypeOK
  <2>t. /\ in' \in [Procs -> {"user", "read", "write"}]
        /\ left' \in [Procs -> 0 .. MaxIO]
        /\ asleep' \subseteq Procs
    BY <1>2, <1>p, <2>a, <2>m, WaitTypes
  <2>1. TypeOK'
    BY <2>d, <2>w, <2>t DEF TypeOK, ends
  <2>2. Bounded'
    BY <2>m, <2>w, Tests, Sizes DEF Bounded, Room
  <2>3. EndsHeld'
    BY <1>2, <1>p DEF EndsHeld, ends, TypeOK, Return, WaitFor
  <2>f. /\ m < k => Full'
        /\ Full => Full'
    <3>1. nread' \in 0 .. Wrap - 1 /\ nwrite' \in 0 .. Wrap - 1
      BY <2>w DEF TypeOK
    <3>2. Full' <=> Avail' = PIPESIZE
      BY <3>1, FullTest DEF Avail, Full, Difference
    <3> QED
      BY <1>2, <2>m, <2>w, <3>2, Tests, Sizes DEF Least, Room
  <2>4. SleepersJustified'
    <3>1. ASSUME NEW q \in asleep'
          PROVE  in'[q] # "read"
      BY <1>2, <1>p, <3>1 DEF TypeOK, Return, WaitFor, WakeReaders
    <3>2. ASSUME NEW q \in asleep', in'[q] = "write"
          PROVE  Full' /\ readopen'
      <4>1. CASE q = p
        BY <1>2, <1>p, <2>f, <3>2, <4>1 DEF TypeOK, ends, Return, WaitFor
      <4>2. CASE q # p
        BY <1>2, <1>p, <2>f, <3>2, <4>2
        DEF SleepersJustified, TypeOK, ends, Return, WaitFor, WakeReaders
      <4> QED
        BY <4>1, <4>2
    <3> QED
      BY <3>1, <3>2 DEF SleepersJustified
  <2>5. Wanting'
    <3>1. m < k => k - m # 0
      BY <2>m
    <3> QED
      BY <1>2, <1>p, <3>1 DEF Wanting, TypeOK, Return, WaitFor
  <2> QED
    BY <2>1, <2>2, <2>3, <2>4, <2>5
<1> QED
  BY <1>1, <1>2 DEF WriteLoop

\* Giving up descriptors: close, exit.
LEMMA DropInv ==
  ASSUME Inv, NEW p \in Procs, NEW r \in BOOLEAN, NEW w \in BOOLEAN, InUser(p),
         Drop(p, r, w), UNCHANGED <<ring, in, left, buf>>, pending' \subseteq pending
  PROVE  Inv'
<1> USE DEF Inv
<1>1. TypeOK'
  BY DEF TypeOK, ring, Drop, WakeReaders, WakeWriters
<1>2. Bounded'
  BY DEF Bounded, Avail, ring
<1>3. EndsHeld'
  BY DEF EndsHeld, Drop, LastGone, InUser, TypeOK
<1>4. SleepersJustified'
  BY DEF SleepersJustified, Drop, WakeReaders, WakeWriters, Empty, Full, ring, TypeOK
<1>5. Wanting'
  BY DEF Wanting
<1> QED
  BY <1>1, <1>2, <1>3, <1>4, <1>5

\* Every step of every process keeps the invariant.
LEMMA StepInv == Inv /\ [Next]_vars => Inv'
<1> SUFFICES ASSUME Inv, [Next]_vars PROVE Inv'
  OBVIOUS
<1> USE DEF Inv
<1>1. ASSUME NEW p \in Procs, NEW k \in 1 .. MaxIO, Read(p, k)
      PROVE  Inv'
  BY <1>1, ReadLoopInv, Sizes DEF Read
<1>2. ASSUME NEW p \in Procs, NEW k \in 1 .. MaxIO, Write(p, k)
      PROVE  Inv'
  BY <1>2, WriteLoopInv, Sizes DEF Write
<1>r. ASSUME NEW p \in Procs, Return(p), UNCHANGED <<ring, ends, asleep, pending, buf>>
      PROVE  Inv'
  <2>1. TypeOK'
    BY <1>r, Sizes DEF TypeOK, ring, ends, Return
  <2>2. Bounded'
    BY <1>r DEF Bounded, Avail, ring
  <2>3. EndsHeld' /\ SleepersJustified'
    BY <1>r DEF EndsHeld, SleepersJustified, Empty, Full, ring, ends, TypeOK, Return
  <2>4. Wanting'
    BY <1>r DEF Wanting, TypeOK, Return
  <2> QED
    BY <2>1, <2>2, <2>3, <2>4
<1>3. ASSUME NEW p \in Procs, ReadResumes(p)
      PROVE  Inv'
  <2>1. p \in rfds /\ left[p] \in 1 .. MaxIO
    BY <1>3, Sizes DEF ReadResumes, Resumed, EndsHeld, Wanting, TypeOK
  <2> QED
    BY <1>3, <1>r, <2>1, ReadLoopInv DEF ReadResumes, ring
<1>4. ASSUME NEW p \in Procs, WriteResumes(p)
      PROVE  Inv'
  <2>1. p \in wfds /\ left[p] \in 1 .. MaxIO
    BY <1>4, Sizes DEF WriteResumes, Resumed, EndsHeld, Wanting, TypeOK
  <2> QED
    BY <1>4, <1>r, <2>1, WriteLoopInv DEF WriteResumes, ring
<1>5. ASSUME NEW p \in Procs, CloseRead(p) \/ CloseWrite(p) \/ Exit(p)
      PROVE  Inv'
  BY <1>5, DropInv DEF CloseRead, CloseWrite, Exit
<1>6. ASSUME NEW p \in Procs, NEW q \in Procs, Fork(p, q)
      PROVE  Inv'
  <2>1. TypeOK'
    BY <1>6 DEF TypeOK, Fork, ring, procs
  <2>2. Bounded'
    BY <1>6 DEF Bounded, Avail, Fork, ring
  <2>3. EndsHeld'
    BY <1>6 DEF EndsHeld, Fork, procs, TypeOK
  <2>4. SleepersJustified'
    BY <1>6 DEF SleepersJustified, Empty, Full, Fork, ring, procs
  <2>5. Wanting'
    BY <1>6 DEF Wanting, Fork, procs
  <2> QED
    BY <2>1, <2>2, <2>3, <2>4, <2>5
<1>7. ASSUME NEW p \in Procs, Signal(p) \/ CheckSignals(p)
      PROVE  Inv'
  <2>1. TypeOK'
    BY <1>7 DEF TypeOK, Signal, CheckSignals, ring, ends
  <2>2. Bounded'
    BY <1>7 DEF Bounded, Avail, Signal, CheckSignals, ring
  <2>3. EndsHeld'
    BY <1>7 DEF EndsHeld, Signal, CheckSignals, ends
  <2>4. SleepersJustified'
    BY <1>7 DEF SleepersJustified, Empty, Full, Signal, CheckSignals, ring, ends
  <2>5. Wanting'
    BY <1>7 DEF Wanting, Signal, CheckSignals
  <2> QED
    BY <2>1, <2>2, <2>3, <2>4, <2>5
<1>8. CASE UNCHANGED vars
  BY <1>8 DEF vars, ring, ends, procs, TypeOK, Bounded, Avail, EndsHeld,
              SleepersJustified, Empty, Full, Wanting
<1> QED
  BY <1>1, <1>2, <1>3, <1>4, <1>5, <1>6, <1>7, <1>8 DEF Next, Resumes

\* Spec keeps Inv, whatever the processes do with the pipe.
THEOREM Invariance == Spec => []Inv
BY InitInv, StepInv, PTL DEF Spec

\* The counters, the ring and the processes keep their types; no index into data
\* leaves the ring.
THEOREM TypeCorrect == Spec => []TypeOK
BY Invariance, PTL DEF Inv

\* The unsigned difference of the wrapping counters never exceeds PIPESIZE: no
\* unread byte is overwritten.
THEOREM NeverOverfull == Spec => []Bounded
BY Invariance, PTL DEF Inv

\* No wakeup is missed: a process asleep in piperead or pipewrite has a reason.
THEOREM SleepersAreJustified == Spec => []SleepersJustified
BY Invariance, PTL DEF Inv

\* An end is open exactly while a process holds it, and a blocked call holds it.
THEOREM EndsAreHeld == Spec => []EndsHeld
BY Invariance, PTL DEF Inv

-----------------------------------------------------------------------------
(* The stream *)

\* The counters wrap at a multiple of the size of the ring: that they do does not
\* change which slot they name.
LEMMA PlusSlot ==
  ASSUME NEW a \in 0 .. Wrap - 1, NEW m \in 0 .. PIPESIZE, NEW i \in Nat
  PROVE  (Plus(a, m) + i) % PIPESIZE = (a + m + i) % PIPESIZE
<1>1. PICK s \in Nat : Wrap = s * PIPESIZE
  BY WrapMultiple
<1>2. CASE a + m < Wrap
  BY <1>2, Sizes DEF Plus
<1>3. CASE a + m >= Wrap
  <2>1. PICK y \in Nat : y = a + m - Wrap + i
    BY <1>3, Sizes
  <2>2. a + m + i = y + s * PIPESIZE
    BY <1>1, <2>1, Sizes
  <2>3. Plus(a, m) + i = y
    BY <1>3, <2>1, Sizes DEF Plus
  <2>4. (y + s * PIPESIZE) % PIPESIZE = y % PIPESIZE
    BY Sizes, Shift, Zenon
  <2> QED
    BY <2>2, <2>3, <2>4, Zenon
<1> QED
  BY <1>2, <1>3, Sizes

\* The i-th byte from r on lies at this offset from the slot of w.
LEMMA WriteSlot ==
  ASSUME NEW w \in 0 .. Wrap - 1, NEW r \in 0 .. Wrap - 1, NEW i \in 0 .. PIPESIZE - 1,
         NEW d \in 0 .. PIPESIZE, d = Difference(w, r)
  PROVE  LET j == (((r + i) % PIPESIZE) + PIPESIZE - (w % PIPESIZE)) % PIPESIZE
         IN  j = IF i >= d THEN i - d ELSE PIPESIZE - d + i
<1>1. PICK s \in Nat : Wrap = s * PIPESIZE
  BY WrapMultiple
<1>2. PICK t \in 0 .. PIPESIZE - 1 : t = IF i >= d THEN i - d ELSE PIPESIZE - d + i
  BY Sizes
<1>3. (r + i) % PIPESIZE = (w + t) % PIPESIZE
  <2>1. PICK e \in {0, 1} : w + e * Wrap = r + d
    BY Sizes DEF Difference
  <2>2. PICK f \in {0, 1} : t + d = i + f * PIPESIZE
    BY <1>2, Sizes
  <2>3. (r + i) + f * PIPESIZE = (w + t) + (e * s) * PIPESIZE
    <3>1. (r + i) + f * PIPESIZE = (w + t) + e * Wrap
      BY <2>1, <2>2, Sizes
    <3> QED
      BY <1>1, <2>1, <3>1, Sizes
  <2>n. r + i \in Nat /\ w + t \in Nat /\ f \in Nat
    BY Sizes
  <2>4. ((r + i) + f * PIPESIZE) % PIPESIZE = (r + i) % PIPESIZE
    BY <2>n, Sizes, Shift, Zenon
  <2>5. PICK g \in Nat : g = e * s
    BY <2>1
  <2>6. ((w + t) + g * PIPESIZE) % PIPESIZE = (w + t) % PIPESIZE
    BY <2>n, Sizes, Shift, Zenon
  <2> QED
    BY <2>3, <2>4, <2>5, <2>6, Zenon
<1>4. (((w + t) % PIPESIZE) + PIPESIZE - (w % PIPESIZE)) % PIPESIZE = t
  <2>1. w \in Nat
    BY Sizes
  <2> QED
    BY <2>1, Sizes, Offset, Zenon
<1> QED
  BY <1>2, <1>3, <1>4

\* A sequence is a function on its positions.
LEMMA SeqIsFunction ==
  ASSUME NEW S, NEW s \in Seq(S)
  PROVE  s = [i \in 1 .. Len(s) |-> s[i]]
OBVIOUS

\* The bytes in the ring are a sequence.
LEMMA Queue ==
  ASSUME TypeOK, Bounded
  PROVE  /\ Avail \in Nat
         /\ Contents \in Seq(Bytes)
         /\ Len(Contents) = Avail
         /\ \A i \in 1 .. Avail : Contents[i] = data[(nread + i - 1) % PIPESIZE]
<1>1. Avail \in Nat
  BY Tests, Sizes
<1>2. ASSUME NEW i \in 1 .. Avail
      PROVE  data[(nread + i - 1) % PIPESIZE] \in Bytes
  <2>1. PICK y \in Nat : y = nread + i - 1
    BY <1>1 DEF TypeOK
  <2>2. y % PIPESIZE \in 0 .. PIPESIZE - 1
    BY Sizes, ModRange, Zenon
  <2> QED
    BY <2>1, <2>2 DEF TypeOK, Index
<1>3. Contents \in [1 .. Avail -> Bytes]
  BY <1>2 DEF Contents
<1>4. \A i \in 1 .. Avail : Contents[i] = data[(nread + i - 1) % PIPESIZE]
  BY DEF Contents
<1>5. Contents \in Seq(Bytes) /\ Len(Contents) = Avail
  BY <1>1, <1>3
<1> QED
  BY <1>1, <1>4, <1>5

\* Reading m bytes takes the first m bytes of the queue.
LEMMA TakeQueue ==
  ASSUME Inv, NEW m \in 0 .. Avail, nread' = Plus(nread, m), UNCHANGED <<data, nwrite>>,
         Inv'
  PROVE  /\ [i \in 1 .. m |-> Contents[i]] = SubSeq(Contents, 1, m)
         /\ Contents' = SubSeq(Contents, m + 1, Len(Contents))
<1> USE DEF Inv
<1>a. Avail \in Nat /\ Avail <= PIPESIZE /\ m \in Nat /\ m <= Avail
  BY Tests, Sizes
<1>q. Contents \in Seq(Bytes) /\ Len(Contents) = Avail
  BY Queue
<1>1. [i \in 1 .. m |-> Contents[i]] = SubSeq(Contents, 1, m)
  BY <1>a, <1>q
<1>2. Avail' = Avail - m
  BY <1>a, TakeOut
<1>3. ASSUME NEW i \in 1 .. Avail - m
      PROVE  data[(nread' + i - 1) % PIPESIZE] = Contents[m + i]
  <2>1. (Plus(nread, m) + (i - 1)) % PIPESIZE = (nread + m + (i - 1)) % PIPESIZE
    <3>1. nread \in 0 .. Wrap - 1 /\ m \in 0 .. PIPESIZE /\ i - 1 \in Nat
      BY <1>a, Sizes DEF TypeOK
    <3> QED
      BY <3>1, PlusSlot, Zenon
  <2>2. Plus(nread, m) + (i - 1) = nread' + i - 1
    BY <1>a, Sizes DEF TypeOK, Plus
  <2>3. nread + m + (i - 1) = nread + (m + i) - 1
    BY <1>a DEF TypeOK
  <2>4. m + i \in 1 .. Avail
    BY <1>a
  <2>5. Contents[m + i] = data[(nread + (m + i) - 1) % PIPESIZE]
    BY <2>4, Queue
  <2> QED
    BY <2>1, <2>2, <2>3, <2>5, Zenon
<1>4. Contents' = [i \in 1 .. Avail - m |-> Contents[m + i]]
  <2>1. Contents' = [i \in 1 .. Avail' |-> data[(nread' + i - 1) % PIPESIZE]]
    BY DEF Contents
  <2> QED
    BY <1>2, <1>3, <2>1, Zenon
<1>5. SubSeq(Contents, m + 1, Len(Contents)) = [i \in 1 .. Avail - m |-> Contents[m + i]]
  BY <1>a, <1>q
<1> QED
  BY <1>1, <1>4, <1>5

\* Writing m bytes appends them to the queue, and overwrites none that is in it.
LEMMA PutQueue ==
  ASSUME Inv, NEW m \in 0 .. Room, NEW chunk \in [1 .. m -> Bytes],
         data' = [x \in Index |->
           LET j == (x + PIPESIZE - (nwrite % PIPESIZE)) % PIPESIZE
           IN  IF j < m THEN chunk[j + 1] ELSE data[x]],
         nwrite' = Plus(nwrite, m), nread' = nread
  PROVE  /\ Contents' = Contents \o chunk
         /\ Len(Contents) + Len(chunk) <= PIPESIZE
<1> USE DEF Inv
<1>a. /\ Avail \in 0 .. PIPESIZE /\ m \in Nat /\ m <= PIPESIZE - Avail
      /\ PIPESIZE \in Nat \ {0}
      /\ nread \in 0 .. Wrap - 1 /\ nwrite \in 0 .. Wrap - 1
      /\ nread \in Nat
  BY Tests, Sizes DEF Room, TypeOK
<1>q. Contents \in Seq(Bytes) /\ Len(Contents) = Avail
  BY Queue
<1>c. chunk \in Seq(Bytes) /\ Len(chunk) = m
  BY <1>a
<1>1. Avail' = Avail + m
  BY <1>a, PutIn DEF Room
<1>2. ASSUME NEW i \in 1 .. Avail + m
      PROVE  data'[(nread + i - 1) % PIPESIZE]
             = IF i <= Avail THEN Contents[i] ELSE chunk[i - Avail]
  <2> DEFINE x == (nread + (i - 1)) % PIPESIZE
             j == (x + PIPESIZE - (nwrite % PIPESIZE)) % PIPESIZE
  <2>1. x \in Index
    <3>1. nread + (i - 1) \in Nat
      BY <1>a
    <3> QED
      BY <1>a, <3>1, ModRange, Zenon DEF Index
  <2>2. j = IF i - 1 >= Avail THEN i - 1 - Avail ELSE PIPESIZE - Avail + (i - 1)
    <3>1. i - 1 \in 0 .. PIPESIZE - 1
      BY <1>a
    <3>2. Avail = Difference(nwrite, nread)
      BY DEF Avail, Difference
    <3> QED
      BY <1>a, <3>1, <3>2, WriteSlot, ZenonT(30)
  <2>3. data'[x] = IF j < m THEN chunk[j + 1] ELSE data[x]
    BY <2>1
  <2>4. (nread + i - 1) % PIPESIZE = x
    <3>1. nread + i - 1 = nread + (i - 1)
      BY <1>a
    <3> QED
      BY <3>1
  <2> HIDE DEF x, j
  <2>5. CASE i <= Avail
    <3>1. ~(j < m)
      BY <1>a, <2>2, <2>5
    <3>2. Contents[i] = data[x]
      BY <2>4, <2>5, Queue
    <3> QED
      BY <2>3, <2>4, <2>5, <3>1, <3>2
  <2>6. CASE i > Avail
    <3>1. j < m /\ j + 1 = i - Avail
      BY <1>a, <2>2, <2>6
    <3>2. ~(i <= Avail)
      BY <1>a, <2>6
    <3>3. data'[x] = chunk[i - Avail]
      BY <2>3, <3>1, Zenon
    <3> QED
      BY <2>4, <3>2, <3>3, Zenon
  <2> QED
    BY <1>a, <2>5, <2>6
<1>3. Contents' = [i \in 1 .. Avail + m |-> IF i <= Avail THEN Contents[i] ELSE chunk[i - Avail]]
  <2>1. Contents' = [i \in 1 .. Avail' |-> data'[(nread' + i - 1) % PIPESIZE]]
    BY DEF Contents
  <2> QED
    BY <1>1, <1>2, <2>1, Zenon
<1>4. Contents \o chunk = [i \in 1 .. Avail + m |-> IF i <= Avail THEN Contents[i] ELSE chunk[i - Avail]]
  <2>1. Contents \o chunk \in Seq(Bytes) /\ Len(Contents \o chunk) = Avail + m
    BY <1>a, <1>q, <1>c, SMTT(30)
  <2>2. ASSUME NEW i \in 1 .. Avail + m
        PROVE  (Contents \o chunk)[i] = IF i <= Avail THEN Contents[i] ELSE chunk[i - Avail]
    BY <1>a, <1>q, <1>c
  <2>3. Contents \o chunk = [i \in 1 .. Avail + m |-> (Contents \o chunk)[i]]
    BY <2>1, SeqIsFunction, Zenon
  <2> QED
    BY <2>2, <2>3, Zenon
<1> QED
  BY <1>a, <1>q, <1>c, <1>3, <1>4

\* A read is a Take, the end of the stream, or nothing.
LEMMA ReadLoopStream ==
  ASSUME Inv, Inv', NEW p \in rfds, NEW k \in 1 .. MaxIO, ReadLoop(p, k),
         UNCHANGED <<data, nwrite, ends>>
  PROVE  [Abstract!Next]_(Abstract!vars)
<1> USE DEF Inv
<1>o. readopen
  BY DEF EndsHeld
<1>1. CASE MustWait /\ UNCHANGED <<nread, buf>>
  BY <1>1 DEF Abstract!vars, Contents, Avail, ends
<1>2. ASSUME ~MustWait, NEW m, m = Least(k, Avail), nread' = Plus(nread, m),
             buf' = [i \in 1 .. m |-> Contents[i]]
      PROVE  Abstract!Next
  <2>1. m \in 0 .. Avail /\ (m = 0 <=> Avail = 0) /\ Avail \in Nat
    BY <1>2, Tests, Sizes DEF Least
  <2>2. /\ buf' = SubSeq(Contents, 1, m)
        /\ Contents' = SubSeq(Contents, m + 1, Len(Contents))
    BY <1>2, <2>1, TakeQueue
  <2>q. Contents \in Seq(Bytes) /\ Len(Contents) = Avail
    BY Queue
  <2>3. CASE m = 0
    <3>1. ~writeopen
      BY <1>2, <2>1, <2>3, Tests DEF MustWait
    <3>2. Contents = <<>> /\ buf' = <<>> /\ Contents' = Contents
      BY <2>1, <2>2, <2>3, <2>q
    <3> QED
      BY <1>o, <3>1, <3>2 DEF Abstract!Next, Abstract!EndOfFile, ends
  <2>4. CASE m # 0
    <3>1. m \in 1 .. Len(Contents)
      BY <2>1, <2>4, <2>q
    <3>2. Abstract!Take(m)
      BY <1>o, <2>2 DEF Abstract!Take, ends
    <3> QED
      BY <3>1, <3>2 DEF Abstract!Next
  <2> QED
    BY <2>3, <2>4
<1> QED
  BY <1>1, <1>2 DEF ReadLoop

\* A write is a Put, or nothing.
LEMMA WriteLoopStream ==
  ASSUME Inv, NEW p \in wfds, NEW k \in 1 .. MaxIO, WriteLoop(p, k),
         UNCHANGED <<nread, ends, buf>>
  PROVE  [Abstract!Next]_(Abstract!vars)
<1> USE DEF Inv
<1>o. writeopen
  BY DEF EndsHeld
<1>1. CASE UNCHANGED <<data, nwrite>>
  BY <1>1 DEF Abstract!vars, Contents, Avail, ends
<1>2. ASSUME readopen, NEW m, m = Least(k, Room),
             NEW chunk \in [1 .. m -> Bytes],
             data' = [x \in Index |->
               LET j == (x + PIPESIZE - (nwrite % PIPESIZE)) % PIPESIZE
               IN  IF j < m THEN chunk[j + 1] ELSE data[x]],
             nwrite' = Plus(nwrite, m)
      PROVE  [Abstract!Next]_(Abstract!vars)
  <2>1. m \in 0 .. Room /\ Room \in 0 .. PIPESIZE
    BY <1>2, Tests, Sizes DEF Least, Room
  <2>2. Contents' = Contents \o chunk /\ Len(Contents) + Len(chunk) <= PIPESIZE
    BY <1>2, <2>1, PutQueue
  <2>q. Contents \in Seq(Bytes)
    BY Queue
  <2>3. CASE m = 0
    <3>1. chunk = <<>>
      BY <2>3
    <3>2. Contents' = Contents
      BY <2>2, <2>q, <3>1
    <3> QED
      BY <3>2 DEF Abstract!vars, ends
  <2>4. CASE m # 0
    <3>1. m \in 1 .. PIPESIZE
      BY <2>1, <2>4, Sizes
    <3>2. Abstract!Put(chunk)
      BY <1>o, <1>2, <2>2 DEF Abstract!Put, ends
    <3> QED
      BY <3>1, <3>2 DEF Abstract!Next
  <2> QED
    BY <2>3, <2>4
<1> QED
  BY <1>1, <1>2 DEF WriteLoop

\* Giving up descriptors closes one end, both, or none.
LEMMA DropStream ==
  ASSUME Inv, NEW p \in Procs, NEW r \in BOOLEAN, NEW w \in BOOLEAN,
         Drop(p, r, w), UNCHANGED <<ring, buf>>
  PROVE  [Abstract!Next]_(Abstract!vars)
<1>1. UNCHANGED Contents
  BY DEF Contents, Avail, ring
<1>2. /\ readopen' => readopen
      /\ writeopen' => writeopen
      /\ readopen \in BOOLEAN /\ writeopen \in BOOLEAN
      /\ readopen' \in BOOLEAN /\ writeopen' \in BOOLEAN
  BY Zenon DEF Drop, Inv, TypeOK
<1> QED
  BY <1>1, <1>2 DEF Abstract!Next, Abstract!vars, Abstract!CloseRead, Abstract!CloseWrite,
                    Abstract!CloseBoth

\* Every step of the processes is a step of the stream, or none.
LEMMA StepStream == Inv /\ Inv' /\ [Next]_vars => [Abstract!Next]_(Abstract!vars)
<1> SUFFICES ASSUME Inv, Inv', [Next]_vars PROVE [Abstract!Next]_(Abstract!vars)
  OBVIOUS
<1>u. ASSUME UNCHANGED <<ring, readopen, writeopen, buf>>
      PROVE  UNCHANGED Abstract!vars
  BY <1>u DEF Abstract!vars, Contents, Avail, ring
<1>1. ASSUME NEW p \in Procs, NEW k \in 1 .. MaxIO, Read(p, k)
      PROVE  [Abstract!Next]_(Abstract!vars)
  BY <1>1, ReadLoopStream DEF Read
<1>2. ASSUME NEW p \in Procs, NEW k \in 1 .. MaxIO, Write(p, k)
      PROVE  [Abstract!Next]_(Abstract!vars)
  BY <1>2, WriteLoopStream DEF Write
<1>3. ASSUME NEW p \in Procs, ReadResumes(p)
      PROVE  [Abstract!Next]_(Abstract!vars)
  <2>1. p \in rfds /\ left[p] \in 1 .. MaxIO
    BY <1>3, Sizes DEF ReadResumes, Resumed, Inv, EndsHeld, Wanting, TypeOK
  <2> QED
    BY <1>3, <1>u, <2>1, ReadLoopStream DEF ReadResumes, ring, ends
<1>4. ASSUME NEW p \in Procs, WriteResumes(p)
      PROVE  [Abstract!Next]_(Abstract!vars)
  <2>1. p \in wfds /\ left[p] \in 1 .. MaxIO
    BY <1>4, Sizes DEF WriteResumes, Resumed, Inv, EndsHeld, Wanting, TypeOK
  <2> QED
    BY <1>4, <1>u, <2>1, WriteLoopStream DEF WriteResumes, ring, ends
<1>5. ASSUME NEW p \in Procs, CloseRead(p) \/ CloseWrite(p) \/ Exit(p)
      PROVE  [Abstract!Next]_(Abstract!vars)
  BY <1>5, DropStream DEF CloseRead, CloseWrite, Exit
<1>6. ASSUME NEW p \in Procs, NEW q \in Procs, Fork(p, q)
      PROVE  UNCHANGED Abstract!vars
  BY <1>6, <1>u DEF Fork
<1>7. ASSUME NEW p \in Procs, Signal(p) \/ CheckSignals(p)
      PROVE  UNCHANGED Abstract!vars
  BY <1>7, <1>u DEF Signal, CheckSignals, ends
<1>8. CASE UNCHANGED vars
  BY <1>8, <1>u DEF vars, ends
<1> QED
  BY <1>1, <1>2, <1>3, <1>4, <1>5, <1>6, <1>7, <1>8 DEF Next, Resumes

\* The new pipe is the empty stream.
LEMMA InitStream == Init => Abstract!Init
BY Sizes DEF Init, Abstract!Init, Contents, Avail

\* The ring buffer with its wrapping counters, its blocked and interrupted calls and
\* its hangups implements the byte stream: nothing is lost, duplicated or reordered,
\* and a read returns no bytes only at the end.
THEOREM PipeImplementsStream == Spec => StreamSpec
<1>1. Inv /\ Inv' /\ [Next]_vars => [Abstract!Next]_(Abstract!vars)
  BY StepStream
<1> QED
  BY <1>1, InitStream, Invariance, PTL DEF Spec, StreamSpec, Abstract!Spec
=============================================================================
