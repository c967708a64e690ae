-------------------------------- MODULE Bio --------------------------------
(***************************************************************************)
(* The buffer cache (kernel/bio.c) over the virtio block driver            *)
(* (kernel/virtio.c), used the way the kernel uses it: a process reads a   *)
(* block and releases it (disk_read, fs_readi, ...), or reads it, changes  *)
(* its own entry in the buffer, writes it back and releases it (balloc and *)
(* bfree set and clear a bit, fs_iupdate replaces an inode's slot).        *)
(*                                                                         *)
(* A system call runs with interrupts masked, so another process runs only *)
(* when this one waits: for disk_busy in disk_wait, or for the device in   *)
(* virtio_disk_rw.  A block is two sectors (halves), each moved by a       *)
(* request of its own.  A half's content is the set of the processes whose *)
(* entry in it is set; process p's entries lie in half HalfOf[p].          *)
(***************************************************************************)
EXTENDS FiniteSetsExt

CONSTANTS
    Procs,       \* processes
    Blocks,      \* block numbers, the one numbered 0 among them
    Zero,        \* block number 0, with which bio_init labels every buffer
    NBUF,        \* buffers in the cache
    MaxRetries,  \* VIRTIO_MAX_RETRIES
    QueueSize,   \* VIRTIO_QUEUE_SIZE, descriptors of the queue
    Reads,       \* Reads[p]: the blocks p reads without changing them
    Writes,      \* Writes[p]: the blocks in which p owns an entry
    HalfOf,      \* the half of a block that holds p's entries
    None

Buffers == 1..NBUF

\* The request of virtio_disk_rw: the buffer, the block, the half of it, the
\* direction and how far the device has come.
Requests == [b : Buffers, blk : Blocks, half : 1..2, write : BOOLEAN,
             state : {"queued", "moved", "ok", "ioerr", "unsupp"}]

ASSUME BioConstants ==
    /\ IsFiniteSet(Procs)
    /\ None \notin Procs \cup Requests
    /\ Zero \in Blocks
    /\ NBUF \in Nat \ {0}
    /\ MaxRetries \in Nat \ {0}
    /\ QueueSize \in Nat /\ QueueSize >= 3
    /\ Reads \in [Procs -> SUBSET Blocks]
    /\ Writes \in [Procs -> SUBSET Blocks]
    /\ HalfOf \in [Procs -> 1..2]

VARIABLES
    buf,        \* bcache.buf: [blk, valid, refcnt, data]
    lru,        \* lru[i]: the buffer at place i of the list behind bcache.head,
                \* most recently released first
    disk_busy,  \* bcache.disk_busy
    cpu,        \* the process inside an operation that runs, or None
    state,      \* "ready", or the channel a process sleeps on: "disk", "virtio"
    at,         \* where a process is in its operation
    op,         \* its operation: block, buffer, direction, half and attempt
    req,        \* the request the device has, or None
    free,       \* descriptors on the free list of the queue
    expired,    \* the deadline of the request has passed
    disk,       \* the content of every block
    entry       \* entry[p][k]: what p's last successful bio_write of its entry
                \* in block k stored, "open" from its next change on

vars == <<buf, lru, disk_busy, cpu, state, at, op, req, free, expired, disk, entry>>

Data == [1..2 -> SUBSET Procs]

NoOp == [kind |-> "none", blk |-> Zero, b |-> 0, write |-> FALSE, half |-> 0, try |-> 0]

\* One type invariant: the ranges of the C variables and fields.
TypeOK ==
    /\ buf \in [Buffers -> [blk : Blocks, valid : BOOLEAN, refcnt : 0..Cardinality(Procs), data : Data]]
    /\ lru \in Bijection(Buffers, Buffers)
    /\ disk_busy \in BOOLEAN
    /\ cpu \in Procs \cup {None}
    /\ state \in [Procs -> {"ready", "disk", "virtio"}]
    /\ at \in [Procs -> {"user", "held", "wait", "rw", "io", "wrote"}]
    /\ op \in [Procs -> [kind : {"none", "read", "set", "clear"}, blk : Blocks, b : 0..NBUF,
                         write : BOOLEAN, half : 0..2, try : 0..MaxRetries]]
    /\ req \in {None} \cup Requests
    /\ free \in 0..QueueSize
    /\ expired \in BOOLEAN
    /\ disk \in [Blocks -> Data]
    /\ entry \in [Procs -> [Blocks -> {"open", "set", "clear"}]]

\* bio_init pushes every buffer on the front of the list, labelled block 0.
Init ==
    /\ buf = [i \in Buffers |-> [blk |-> Zero, valid |-> FALSE, refcnt |-> 0,
                                 data |-> [h \in 1..2 |-> {}]]]
    /\ lru = [i \in Buffers |-> NBUF + 1 - i]
    /\ disk_busy = FALSE
    /\ cpu = None
    /\ state = [p \in Procs |-> "ready"]
    /\ at = [p \in Procs |-> "user"]
    /\ op = [p \in Procs |-> NoOp]
    /\ req = None
    /\ free = QueueSize
    /\ expired = FALSE
    /\ disk = [k \in Blocks |-> [h \in 1..2 |-> {}]]
    /\ entry = [p \in Procs |-> [k \in Blocks |-> "clear"]]

-----------------------------------------------------------------------------
(* Helpers                                                                 *)

\* proc_wakeup(chan)
Wakeup(chan) == [p \in Procs |-> IF state[p] = chan THEN "ready" ELSE state[p]]

\* Mutant: only a valid buffer is a hit.
HitsValid(k) == {i \in Buffers : buf[lru[i]].blk = k /\ buf[lru[i]].valid}

\* The places of the list where bget's first loop can stop; it stops at the first.
Hits(k) == {i \in Buffers : buf[lru[i]].blk = k}

\* Mutant: a buffer is recycled whether it is held or not.
AnyBuffer == Buffers

\* The places where bget's second loop can stop; it walks from the tail.
Victims == {i \in Buffers : buf[lru[i]].refcnt = 0}

\* The list with the buffer at place i moved to the front.
ToFront(i) ==
    [j \in Buffers |-> IF j = 1 THEN lru[i] ELSE IF j <= i THEN lru[j - 1] ELSE lru[j]]

\* Where bio_release leaves b: its last holder moves it to the front.
Released(b) ==
    IF buf[b].refcnt = 1 THEN ToFront(CHOOSE i \in Buffers : lru[i] = b) ELSE lru

\* bio_release, and the operation is over: its caller may lose the processor.
BioRelease(p) ==
    /\ buf' = [buf EXCEPT ![op[p].b].refcnt = @ - 1]
    /\ lru' = Released(op[p].b)
    /\ at' = [at EXCEPT ![p] = "user"]
    /\ op' = [op EXCEPT ![p] = NoOp]
    /\ cpu' = None

\* disk_done
DiskDone == disk_busy' = FALSE /\ state' = Wakeup("disk")

-----------------------------------------------------------------------------
(* The scheduler, as far as it matters here                                *)

\* The scheduler goes on with a process that waited inside an operation.
Dispatch(p) ==
    /\ cpu = None
    /\ state[p] = "ready" /\ at[p] # "user"
    /\ cpu' = p
    /\ UNCHANGED <<buf, lru, disk_busy, state, at, op, req, free, expired, disk, entry>>

-----------------------------------------------------------------------------
(* The buffer cache                                                        *)

\* The rest of bio_read once bget has returned b: it looks at valid once,
\* before it waits for the disk.
Got(p, kind, k, b, bufs) ==
    /\ buf' = bufs
    /\ at' = [at EXCEPT ![p] = IF bufs[b].valid THEN "held" ELSE "wait"]
    /\ op' = [op EXCEPT ![p] = [NoOp EXCEPT !.kind = kind, !.blk = k, !.b = b]]
    /\ cpu' = p
    /\ UNCHANGED <<lru, disk_busy, state, req, free, expired, disk, entry>>

BgetHit(p, kind, k) ==
    /\ cpu = None /\ at[p] = "user"
    /\ Hits(k) # {}
    /\ LET b == lru[Min(Hits(k))]
       IN  Got(p, kind, k, b, [buf EXCEPT ![b].refcnt = @ + 1])

BgetRecycle(p, kind, k) ==
    /\ cpu = None /\ at[p] = "user"
    /\ Hits(k) = {} /\ Victims # {}
    /\ LET b == lru[Max(Victims)]
       IN  Got(p, kind, k, b,
               [buf EXCEPT ![b].blk = k, ![b].valid = FALSE, ![b].refcnt = 1])

\* Every buffer is held: bio_read returns 0 and the caller gives up.
BgetFails(p, kind, k) ==
    /\ cpu = None /\ at[p] = "user"
    /\ Hits(k) = {} /\ Victims = {}
    /\ UNCHANGED vars

\* disk_wait finds the disk taken, before or after a wakeup.
DiskWait(p) ==
    /\ cpu = p /\ at[p] = "wait"
    /\ disk_busy
    /\ state' = [state EXCEPT ![p] = "disk"]
    /\ cpu' = None
    /\ UNCHANGED <<buf, lru, disk_busy, at, op, req, free, expired, disk, entry>>

\* Mutant: disk_wait does not look at disk_busy.
DiskTakeAnyway(p) ==
    /\ cpu = p /\ at[p] = "wait"
    /\ disk_busy' = TRUE
    /\ at' = [at EXCEPT ![p] = "rw"]
    /\ op' = [op EXCEPT ![p].half = 1, ![p].try = 1]
    /\ UNCHANGED <<buf, lru, cpu, state, req, free, expired, disk, entry>>

\* disk_wait takes the disk; the first of the two transfers comes next.
DiskTake(p) ==
    /\ cpu = p /\ at[p] = "wait"
    /\ ~disk_busy
    /\ disk_busy' = TRUE
    /\ at' = [at EXCEPT ![p] = "rw"]
    /\ op' = [op EXCEPT ![p].half = 1, ![p].try = 1]
    /\ UNCHANGED <<buf, lru, cpu, state, req, free, expired, disk, entry>>

\* The caller changes its entry in the buffer it holds and calls bio_write.
Modify(p) ==
    /\ cpu = p /\ at[p] = "held"
    /\ op[p].kind \in {"set", "clear"}
    /\ buf' = [buf EXCEPT ![op[p].b].data[HalfOf[p]] =
                 IF op[p].kind = "set" THEN @ \cup {p} ELSE @ \ {p}]
    /\ at' = [at EXCEPT ![p] = "wait"]
    /\ op' = [op EXCEPT ![p].write = TRUE]
    /\ entry' = [entry EXCEPT ![p][op[p].blk] = "open"]
    /\ UNCHANGED <<lru, disk_busy, cpu, state, req, free, expired, disk>>

\* The caller is done with the buffer it read or wrote.
Release(p) ==
    /\ cpu = p
    /\ (at[p] = "held" /\ op[p].kind = "read") \/ at[p] = "wrote"
    /\ BioRelease(p)
    /\ UNCHANGED <<disk_busy, state, req, free, expired, disk, entry>>

\* The transfers of bio_read or bio_write are over, well or not: disk_done and
\* the rest of the function.
Finish(p, ok) ==
    /\ DiskDone
    /\ CASE op[p].write ->
              /\ at' = [at EXCEPT ![p] = "wrote"]
              /\ entry' = IF ok THEN [entry EXCEPT ![p][op[p].blk] = op[p].kind] ELSE entry
              /\ op' = [op EXCEPT ![p].half = 0, ![p].try = 0]
              /\ UNCHANGED <<buf, lru, cpu>>
         [] ~op[p].write /\ ok ->
              /\ at' = [at EXCEPT ![p] = "held"]
              /\ buf' = [buf EXCEPT ![op[p].b].valid = TRUE]
              /\ op' = [op EXCEPT ![p].half = 0, ![p].try = 0]
              /\ UNCHANGED <<lru, cpu, entry>>
         [] OTHER ->
              /\ BioRelease(p)
              /\ UNCHANGED entry

-----------------------------------------------------------------------------
(* The driver: virtio_disk_rw, and its callers' retries and second half    *)

\* The request is put on the queue and the device notified.
Notify(p) ==
    /\ cpu = p /\ at[p] = "rw"
    /\ free >= 3
    /\ free' = free - 3
    /\ req' = [b |-> op[p].b, blk |-> buf[op[p].b].blk, half |-> op[p].half,
               write |-> op[p].write, state |-> "queued"]
    /\ at' = [at EXCEPT ![p] = "io"]
    /\ UNCHANGED <<buf, lru, disk_busy, cpu, state, op, expired, disk, entry>>

\* The device is no longer DRIVER_OK: VIRTIO_E_RESET.
NotReady(p) ==
    /\ cpu = p /\ at[p] = "rw"
    /\ Finish(p, FALSE)
    /\ UNCHANGED <<req, free, expired, disk>>

Answered == req.state \in {"ok", "ioerr", "unsupp"}

\* The used index has not moved and the deadline has not passed.
RwWait(p) ==
    /\ cpu = p /\ at[p] = "io"
    /\ ~Answered /\ ~expired
    /\ state' = [state EXCEPT ![p] = "virtio"]
    /\ cpu' = None
    /\ UNCHANGED <<buf, lru, disk_busy, at, op, req, free, expired, disk, entry>>

\* The descriptors go back; what the status byte says decides what follows.
RwReturns(p) ==
    /\ cpu = p /\ at[p] = "io"
    /\ Answered
    /\ free' = free + 3
    /\ req' = None
    /\ \/ /\ req.state = "ok" /\ op[p].half = 1
          /\ at' = [at EXCEPT ![p] = "rw"]
          /\ op' = [op EXCEPT ![p].half = 2, ![p].try = 1]
          /\ UNCHANGED <<buf, lru, disk_busy, cpu, state, entry>>
       \/ /\ req.state = "ok" /\ op[p].half = 2
          /\ Finish(p, TRUE)
       \/ /\ req.state = "ioerr" /\ op[p].try < MaxRetries
          /\ at' = [at EXCEPT ![p] = "rw"]
          /\ op' = [op EXCEPT ![p].try = @ + 1]
          /\ UNCHANGED <<buf, lru, disk_busy, cpu, state, entry>>
       \/ /\ req.state = "unsupp" \/ (req.state = "ioerr" /\ op[p].try = MaxRetries)
          /\ Finish(p, FALSE)
    /\ expired' = FALSE
    /\ UNCHANGED disk

\* No answer by the deadline: VIRTIO_E_TIMEOUT, which is not retried.
RwTimeout(p) ==
    /\ cpu = p /\ at[p] = "io"
    /\ ~Answered /\ expired
    /\ free' = free + 3
    /\ req' = None
    /\ Finish(p, FALSE)
    /\ expired' = FALSE
    /\ UNCHANGED disk

\* Mutant: the wait for the device has no deadline.
NeverTimed == FALSE

\* A process waits in proc_wait_timeout_nointr.
TimedWait == \E p \in Procs : state[p] = "virtio"

\* The tick of the deadline: proc_wakeup_timed.
Expire ==
    /\ TimedWait /\ ~expired
    /\ expired' = TRUE
    /\ state' = Wakeup("virtio")
    /\ UNCHANGED <<buf, lru, disk_busy, cpu, at, op, req, free, disk, entry>>

\* virtio_intr, after the device has moved the used index.
VirtioIntr ==
    /\ req # None /\ Answered
    /\ TimedWait
    /\ state' = Wakeup("virtio")
    /\ UNCHANGED <<buf, lru, disk_busy, cpu, at, op, req, free, expired, disk, entry>>

-----------------------------------------------------------------------------
(* The device (external).  It serves the request it has, and forgets one   *)
(* that the driver has given up.                                           *)

\* The device moves the sector between memory and disk.
Transfer ==
    /\ req # None /\ req.state = "queued"
    /\ req' = [req EXCEPT !.state = "moved"]
    /\ IF req.write
       THEN /\ disk' = [disk EXCEPT ![req.blk][req.half] = buf[req.b].data[req.half]]
            /\ UNCHANGED buf
       ELSE /\ buf' = [buf EXCEPT ![req.b].data[req.half] = disk[req.blk][req.half]]
            /\ UNCHANGED disk
    /\ UNCHANGED <<lru, disk_busy, cpu, state, at, op, free, expired, entry>>

\* The device stores the status and advances the used index.
Answer ==
    /\ req # None
    /\ \/ req.state = "moved"  /\ req' = [req EXCEPT !.state = "ok"]
       \/ req.state \in {"queued", "moved"} /\ req' = [req EXCEPT !.state = "ioerr"]
       \/ req.state = "queued" /\ req' = [req EXCEPT !.state = "unsupp"]
    /\ UNCHANGED <<buf, lru, disk_busy, cpu, state, at, op, free, expired, disk, entry>>

-----------------------------------------------------------------------------

Bget(p, kind, k) == BgetHit(p, kind, k) \/ BgetRecycle(p, kind, k) \/ BgetFails(p, kind, k)

Call(p) ==
    \/ \E k \in Reads[p] : Bget(p, "read", k)
    \/ \E k \in Writes[p], kind \in {"set", "clear"} : Bget(p, kind, k)

\* What a process inside an operation does next.
Proceed(p) ==
    \/ DiskWait(p) \/ DiskTake(p) \/ Modify(p) \/ Release(p)
    \/ Notify(p) \/ NotReady(p) \/ RwWait(p) \/ RwReturns(p) \/ RwTimeout(p)

Next ==
    \/ \E p \in Procs : Dispatch(p) \/ Call(p) \/ Proceed(p)
    \/ Expire \/ VirtioIntr \/ Transfer \/ Answer

Spec == Init /\ [][Next]_vars

\* Masked kernel code runs on; a deadline passes; proc_scheduler is
\* round-robin, so a process that waits in the driver gets its turn once it is
\* runnable, however often the others run.  Nothing is assumed of the device.
Fairness ==
    /\ WF_vars(\E p \in Procs : Proceed(p))
    /\ WF_vars(Expire)
    /\ SF_vars(\E p \in Procs : at[p] = "io" /\ Dispatch(p))

FairSpec == Spec /\ Fairness

-----------------------------------------------------------------------------
(* Properties                                                              *)

InUse(b) == buf[b].refcnt > 0 \/ buf[b].valid

\* A block has at most one buffer that is held or valid, although bio_init
\* labels every buffer block 0 and bget takes an invalid buffer for a hit
\* (bio.c, bget): two copies of a block would diverge.
OneBufferPerBlock ==
    \A b, c \in Buffers : b # c /\ InUse(b) /\ InUse(c) => buf[b].blk # buf[c].blk

\* disk_busy keeps all but one process out of virtio_disk_rw, with its single
\* header, status byte and last_used: whoever is inside holds the flag alone,
\* the request the device has is that process's and of the buffer it holds,
\* and every path out, the timeout included, returns the descriptors.
DriverExclusive ==
    LET inside == {p \in Procs : at[p] \in {"rw", "io"}}
    IN  /\ Cardinality(inside) <= 1
        /\ disk_busy <=> inside # {}
        /\ \A p \in inside : at[p] = "io" <=> req # None
        /\ req # None => \E p \in inside : req.b = op[p].b /\ req.blk = op[p].blk
        /\ free = QueueSize - (IF req = None THEN 0 ELSE 3)

\* What a successful bio_write stored stays stored until its owner changes it
\* again: it is on the disk, whatever the other processes read, write, evict or
\* fail at, and a valid buffer of the block shows it.
UpdatesSurvive ==
    \A p \in Procs : \A k \in Writes[p] :
        entry[p][k] # "open" =>
            /\ (p \in disk[k][HalfOf[p]]) <=> (entry[p][k] = "set")
            /\ \A b \in Buffers :
                 buf[b].valid /\ buf[b].blk = k =>
                     ((p \in buf[b].data[HalfOf[p]]) <=> (entry[p][k] = "set"))

\* A process that has taken the disk gives it up, even when the device never
\* answers (disk_wait, virtio_disk_rw, disk_done).
DiskComesFree == disk_busy ~> ~disk_busy

=============================================================================
