-------------------------------- MODULE Pipe --------------------------------
(***************************************************************************)
(* One pipe (kernel/pipe.c) and the processes that read, write, inherit    *)
(* and close it.  Who holds a descriptor of which end is a set of          *)
(* processes here: FileTable shows that the reference counts of the file   *)
(* table call pipeclose when such a set becomes empty, and not before.     *)
(*                                                                         *)
(* A system call runs with interrupts masked up to the proc_wait in which  *)
(* it sleeps, so a copy loop is one step.  nread and nwrite are unsigned   *)
(* and wrap at Wrap, 2^32 in the code.                                     *)
(***************************************************************************)
EXTENDS Naturals, Sequences, FiniteSets

CONSTANTS
  Procs,       \* the processes
  Creator,     \* the one that calls pipe
  PIPESIZE,    \* the bytes of the buffer
  Wrap,        \* where the counters wrap
  Bytes,       \* the bytes that are written
  MaxIO        \* bound: the longest read or write

ASSUME PipeAssumption ==
  /\ Creator \in Procs
  /\ PIPESIZE \in Nat \ {0}
  /\ Wrap \in Nat
  /\ PIPESIZE < Wrap
  /\ Wrap % PIPESIZE = 0
  /\ MaxIO \in Nat \ {0}

VARIABLES
  data,        \* pi->data
  nread,       \* pi->nread
  nwrite,      \* pi->nwrite
  readopen,    \* pi->readopen
  writeopen,   \* pi->writeopen
  rfds,        \* the processes with a descriptor of the read end
  wfds,        \* the processes with a descriptor of the write end
  in,          \* user, or the call that the process is in: read, write
  left,        \* the bytes that its call still wants to move
  asleep,      \* the processes asleep in proc_wait
  pending,     \* the processes with a pending signal
  buf          \* history: what the last read returned

ring  == <<data, nread, nwrite>>
ends  == <<readopen, writeopen, rfds, wfds>>
procs == <<in, left, asleep, pending>>
vars  == <<ring, ends, procs, buf>>

Index == 0 .. PIPESIZE - 1

TypeOK ==
  /\ data \in [Index -> Bytes]
  /\ nread \in 0 .. Wrap - 1
  /\ nwrite \in 0 .. Wrap - 1
  /\ readopen \in BOOLEAN
  /\ writeopen \in BOOLEAN
  /\ rfds \subseteq Procs
  /\ wfds \subseteq Procs
  /\ in \in [Procs -> {"user", "read", "write"}]
  /\ left \in [Procs -> 0 .. MaxIO]
  /\ asleep \subseteq Procs
  /\ pending \subseteq Procs
  /\ Len(buf) \in 0 .. PIPESIZE

\* pipealloc, in a page that pmm_alloc has cleared.
Init ==
  /\ \E b \in Bytes : data = [x \in Index |-> b]
  /\ nread = 0 /\ nwrite = 0
  /\ readopen = TRUE /\ writeopen = TRUE
  /\ rfds = {Creator} /\ wfds = {Creator}
  /\ in = [p \in Procs |-> "user"]
  /\ left = [p \in Procs |-> 0]
  /\ asleep = {}
  /\ pending = {}
  /\ buf = <<>>

-----------------------------------------------------------------------------
(* The counters: unsigned addition and difference *)

Plus(x, k) == IF x + k >= Wrap THEN x + k - Wrap ELSE x + k

Avail == IF nwrite >= nread THEN nwrite - nread ELSE nwrite + Wrap - nread

\* (mutant: the buffer is taken for full one byte too late)
RoomOne == PIPESIZE + 1 - Avail
Room == PIPESIZE - Avail

\* Empty and full, as the code tests them.
Empty == nread = nwrite
Full  == nwrite = Plus(nread, PIPESIZE)

Least(a, b) == IF a <= b THEN a ELSE b

\* The bytes from nread on.
Contents == [k \in 1 .. Avail |-> data[(nread + k - 1) % PIPESIZE]]

-----------------------------------------------------------------------------
(* Waiting *)

InUser(p) == in[p] = "user"

Resumed(p, call) == in[p] = call /\ p \notin asleep

\* proc_wakeup(&pi->nread), proc_wakeup(&pi->nwrite): who is still asleep.
\* (mutant: the wakeup is forgotten)
WakeNone(A) == A
WakeReaders(A) == {p \in A : in[p] # "read"}
WakeWriters(A) == {p \in A : in[p] # "write"}

Return(p) ==
  /\ in' = [in EXCEPT ![p] = "user"]
  /\ left' = [left EXCEPT ![p] = 0]

\* proc_wait: -EINTR if a signal is pending, else sleep.
WaitFor(p, call, k, A) ==
  \/ /\ p \in pending
     /\ Return(p)
     /\ asleep' = A
  \/ /\ p \notin pending
     /\ in' = [in EXCEPT ![p] = call]
     /\ left' = [left EXCEPT ![p] = k]
     /\ asleep' = A \cup {p}

-----------------------------------------------------------------------------
(* piperead *)

\* (mutant: a reader returns when the pipe is empty, whether writers are left)
MustWaitNever == FALSE
MustWait == Empty /\ writeopen

ReadLoop(p, k) ==
  \/ /\ MustWait
     /\ WaitFor(p, "read", k, asleep)
     /\ UNCHANGED <<nread, buf>>
  \/ /\ ~MustWait
     /\ LET m == Least(k, Avail) IN
        /\ buf' = [j \in 1 .. m |-> Contents[j]]
        /\ nread' = Plus(nread, m)
     /\ asleep' = WakeWriters(asleep)
     /\ Return(p)

Read(p, k) ==
  /\ InUser(p) /\ p \in rfds
  /\ ReadLoop(p, k)
  /\ UNCHANGED <<data, nwrite, ends, pending>>

ReadResumes(p) ==
  /\ Resumed(p, "read")
  /\ \/ /\ p \in pending
        /\ Return(p)
        /\ UNCHANGED <<nread, asleep, buf>>
     \/ /\ p \notin pending
        /\ ReadLoop(p, left[p])
  /\ UNCHANGED <<data, nwrite, ends, pending>>

-----------------------------------------------------------------------------
(* pipewrite *)

\* Bytes are copied until none is left or the buffer is full, when readers are
\* woken and the writer waits.  A pipe without a reader: -1.
WriteLoop(p, k) ==
  \/ /\ ~readopen
     /\ Return(p)
     /\ UNCHANGED <<data, nwrite, asleep>>
  \/ /\ readopen
     /\ LET m == Least(k, Room) IN
        /\ \E chunk \in [1 .. m -> Bytes] :
             data' = [x \in Index |->
               LET j == (x + PIPESIZE - (nwrite % PIPESIZE)) % PIPESIZE
               IN  IF j < m THEN chunk[j + 1] ELSE data[x]]
        /\ nwrite' = Plus(nwrite, m)
        /\ \/ /\ m = k
              /\ Return(p)
              /\ asleep' = WakeReaders(asleep)
           \/ /\ m < k
              /\ WaitFor(p, "write", k - m, WakeReaders(asleep))

Write(p, k) ==
  /\ InUser(p) /\ p \in wfds
  /\ WriteLoop(p, k)
  /\ UNCHANGED <<nread, ends, pending, buf>>

WriteResumes(p) ==
  /\ Resumed(p, "write")
  /\ \/ /\ p \in pending
        /\ Return(p)
        /\ UNCHANGED <<data, nwrite, asleep>>
     \/ /\ p \notin pending
        /\ WriteLoop(p, left[p])
  /\ UNCHANGED <<nread, ends, pending, buf>>

-----------------------------------------------------------------------------
(* Descriptors *)

\* fileclose: S are the processes that keep a descriptor of the end.
\* (mutant: the first close closes the end)
Anyway(S) == TRUE
LastGone(S) == S = {}

\* p gives up the ends r and w (booleans); the last descriptor of an end closes it
\* and wakes the processes that wait on the other side.
Drop(p, r, w) ==
  LET rf == IF r THEN rfds \ {p} ELSE rfds
      wf == IF w THEN wfds \ {p} ELSE wfds
      rclose == r /\ p \in rfds /\ LastGone(rf)
      wclose == w /\ p \in wfds /\ LastGone(wf)
      A == IF wclose THEN WakeReaders(asleep) ELSE asleep
  IN  /\ rfds' = rf /\ wfds' = wf
      /\ readopen' = (readopen /\ ~rclose)
      /\ writeopen' = (writeopen /\ ~wclose)
      /\ asleep' = IF rclose THEN WakeWriters(A) ELSE A

CloseRead(p) ==
  /\ InUser(p) /\ p \in rfds
  /\ Drop(p, TRUE, FALSE)
  /\ UNCHANGED <<ring, in, left, pending, buf>>

CloseWrite(p) ==
  /\ InUser(p) /\ p \in wfds
  /\ Drop(p, FALSE, TRUE)
  /\ UNCHANGED <<ring, in, left, pending, buf>>

\* proc_cleanup closes both, on exit or for a signal.
Exit(p) ==
  /\ InUser(p) /\ p \in rfds \cup wfds
  /\ Drop(p, TRUE, TRUE)
  /\ pending' = pending \ {p}
  /\ UNCHANGED <<ring, in, left, buf>>

\* sys_fork: the child q inherits the descriptors.
Fork(p, q) ==
  /\ InUser(p) /\ p \in rfds \cup wfds
  /\ q \notin rfds \cup wfds \cup pending
  /\ rfds' = IF p \in rfds THEN rfds \cup {q} ELSE rfds
  /\ wfds' = IF p \in wfds THEN wfds \cup {q} ELSE wfds
  /\ UNCHANGED <<ring, readopen, writeopen, procs, buf>>

-----------------------------------------------------------------------------
(* Signals *)

\* proc_signal wakes the process wherever it sleeps.
Signal(p) ==
  /\ p \in rfds \cup wfds
  /\ pending' = pending \cup {p}
  /\ asleep' = asleep \ {p}
  /\ UNCHANGED <<ring, ends, in, left, buf>>

\* proc_check_signals, on the way back from a call, for a signal that the process
\* survives.
CheckSignals(p) ==
  /\ InUser(p) /\ p \in pending
  /\ pending' = pending \ {p}
  /\ UNCHANGED <<ring, ends, in, left, asleep, buf>>

-----------------------------------------------------------------------------
Resumes(p) == ReadResumes(p) \/ WriteResumes(p)

Next ==
  \/ \E p \in Procs, k \in 1 .. MaxIO : Read(p, k) \/ Write(p, k)
  \/ \E p \in Procs : \/ Resumes(p) \/ CloseRead(p) \/ CloseWrite(p) \/ Exit(p)
                      \/ Signal(p) \/ CheckSignals(p)
  \/ \E p, q \in Procs : Fork(p, q)

Spec == Init /\ [][Next]_vars

\* A process that is awake in the kernel is scheduled (Sched).
FairSpec == Spec /\ \A p \in Procs : WF_vars(Resumes(p))

-----------------------------------------------------------------------------
(* Properties *)

\* The pipe is a byte stream: ring buffer, wrapping counters, blocked and
\* interrupted calls and all, no byte is lost, duplicated or reordered, no more
\* than PIPESIZE bytes are held, and read returns 0 only at the end of the stream.
Abstract == INSTANCE Stream
  WITH queue <- Contents, wopen <- writeopen, ropen <- readopen, Capacity <- PIPESIZE
StreamSpec == Abstract!Spec

\* Nobody sleeps without a reason: a reader sleeps only on an empty pipe with a
\* writer, a writer only on a full pipe with a reader.
SleepersJustified ==
  \A p \in asleep : /\ in[p] = "read" => Empty /\ writeopen
                    /\ in[p] = "write" => Full /\ readopen

\* The ends are open as long as somebody holds them: a process in a call on an
\* end keeps the pipe page from being freed under it.
EndsHeld ==
  /\ readopen <=> rfds # {}
  /\ writeopen <=> wfds # {}
  /\ \A p \in Procs : (in[p] = "read" => p \in rfds) /\ (in[p] = "write" => p \in wfds)

\* When the last process at the other side closes, every blocked call returns.
HangupReturns ==
  \A p \in Procs :
    /\ (in[p] = "read" /\ ~writeopen) ~> (in[p] = "user")
    /\ (in[p] = "write" /\ ~readopen) ~> (in[p] = "user")
=============================================================================
