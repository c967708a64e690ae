------------------------------- MODULE Sched -------------------------------
(***************************************************************************)
(* The scheduler of the kernel and the code that blocks in it              *)
(* (kernel/proc.c, timer.c, sync.c, the lock loop of fs.c and the wait     *)
(* loop of virtio.c), at the granularity of the interrupt mask.            *)
(*                                                                         *)
(* There is one CPU.  Between two steps of this module an interrupt can be *)
(* taken exactly when DAIF.I is clear ("masked" is FALSE), so a run of     *)
(* code with interrupts masked may be split into steps without adding      *)
(* behaviours, and a run with interrupts enabled is split wherever the     *)
(* place of the interrupt matters.                                         *)
(*                                                                         *)
(* A process alternates between user mode and three system calls that      *)
(* stand for all the blocking ones:                                        *)
(*   sleep  - proc_sleep, the timed wait;                                  *)
(*   stat   - an inode lock, possibly a disk transfer under it, unlock;    *)
(*   rename - the same between sleep_lock and sleep_unlock of rename_lock. *)
(* Only the members of Renamers make the last call.                        *)
(*                                                                         *)
(* wakeup_tick is kept as the number of ticks still missing (rem) with a   *)
(* flag for "not 0" (timed): the code only ever compares it with ticks.    *)
(* A completion that arrives after its request timed out is dropped here;  *)
(* the module Virtio has it.                                               *)
(***************************************************************************)
EXTENDS Naturals

CONSTANTS
  NPROC,       \* slots of the process table
  Renamers,    \* the processes that call rename
  MaxSleep,    \* longest sleep, in ticks
  IoTicks      \* VIRTIO_TIMEOUT_TICKS

Procs == 0 .. NPROC - 1

NoProc == NPROC

ASSUME SchedAssumption ==
  /\ NPROC \in Nat \ {0}
  /\ Renamers \subseteq Procs
  /\ MaxSleep \in Nat \ {0}
  /\ IoTicks \in Nat \ {0}

VARIABLES
  state,      \* p->state; RUNNABLE, RUNNING, SLEEPING (the others are in ProcLife)
  chan,       \* p->chan: the object slept on, "none" for 0
  timed,      \* p->wakeup_tick # 0
  rem,        \* ticks until p's wakeup_tick or deadline, never below 0
  pc,         \* where p's saved context, or p itself if it runs, continues
  preempted,  \* p was switched out by the timer: it returns through eret
  derailed,   \* p->ctx holds a context of the scheduler, not of p
  renaming,   \* p is inside sys_rename
  current,    \* the global current, NoProc for 0
  cpu,        \* "scan", "ret": in proc_scheduler; "proc": in a process
  pos,        \* the loop index i of proc_scheduler
  masked,     \* DAIF.I
  ilocked,    \* ip->locked
  rlocked,    \* rename_lock.locked
  io,         \* the disk request: "idle", "busy" or "done" (used->idx moved)
  irq         \* the virtio interrupt is asserted

procVars == <<state, chan, timed, rem, pc, preempted, derailed, renaming>>
cpuVars  == <<current, cpu, pos, masked>>
lockVars == <<ilocked, rlocked>>
devVars  == <<io, irq>>
vars     == <<procVars, cpuVars, lockVars, devVars>>

States == {"RUNNABLE", "RUNNING", "SLEEPING"}
Chans  == {"none", "tick", "inode", "rename", "disk"}

\* The places where a context can be: in user mode, at the head of a lock or
\* wait loop, before its call of proc_wait_nointr ("...wait"), and between the
\* store of SLEEPING and the context switch ("...sched").
UserPC  == {"user"}
TickPC  == {"tsched", "tret"}
SlockPC == {"slock", "swait", "ssched"}
IlockPC == {"ilock", "iwait", "isched"}
CritPC  == {"crit", "io", "iowait", "iosched", "iunlock"}
PCs     == UserPC \cup TickPC \cup SlockPC \cup IlockPC \cup CritPC \cup {"sunlock", "eret"}

TypeOK ==
  /\ state \in [Procs -> States]
  /\ chan \in [Procs -> Chans]
  /\ timed \in [Procs -> BOOLEAN]
  /\ rem \in [Procs -> Nat]
  /\ pc \in [Procs -> PCs]
  /\ preempted \in [Procs -> BOOLEAN]
  /\ derailed \in [Procs -> BOOLEAN]
  /\ renaming \in [Procs -> BOOLEAN]
  /\ current \in Procs \cup {NoProc}
  /\ cpu \in {"scan", "ret", "proc"}
  /\ pos \in Procs
  /\ masked \in BOOLEAN
  /\ ilocked \in BOOLEAN
  /\ rlocked \in BOOLEAN
  /\ io \in {"idle", "busy", "done"}
  /\ irq \in BOOLEAN

\* Every process is RUNNABLE with its context at usertrap_first, which clears
\* DAIF.I on the way to user mode.
Init ==
  /\ state = [p \in Procs |-> "RUNNABLE"]
  /\ chan = [p \in Procs |-> "none"]
  /\ timed = [p \in Procs |-> FALSE]
  /\ rem = [p \in Procs |-> 0]
  /\ pc = [p \in Procs |-> "user"]
  /\ preempted = [p \in Procs |-> TRUE]
  /\ derailed = [p \in Procs |-> FALSE]
  /\ renaming = [p \in Procs |-> FALSE]
  /\ current = NoProc
  /\ cpu = "scan"
  /\ pos = 0
  /\ masked = FALSE
  /\ ilocked = FALSE
  /\ rlocked = FALSE
  /\ io = "idle"
  /\ irq = FALSE

-----------------------------------------------------------------------------
(* proc_scheduler *)

\* (mutant: the scan restarts at slot 0)
NextSlotFirst == 0
NextSlot == IF pos = NPROC - 1 THEN 0 ELSE pos + 1

\* The slot is not RUNNABLE: continue with the next one.
Skip ==
  /\ cpu = "scan"
  /\ state[pos] # "RUNNABLE"
  /\ pos' = NextSlot
  /\ UNCHANGED <<procVars, current, cpu, masked, lockVars, devVars>>

\* disable_irq, current = p, RUNNING, context_switch.  A context saved by the
\* timer handler unmasks on its eret; one saved by proc_sched goes on masked.
Dispatch ==
  /\ cpu = "scan"
  /\ state[pos] = "RUNNABLE"
  /\ ~derailed[pos]
  /\ current' = pos
  /\ cpu' = "proc"
  /\ state' = [state EXCEPT ![pos] = "RUNNING"]
  /\ masked' = ~preempted[pos]
  /\ preempted' = [preempted EXCEPT ![pos] = FALSE]
  /\ UNCHANGED <<chan, timed, rem, pc, derailed, renaming, pos, lockVars, devVars>>

\* The context of a derailed slot is one of the scheduler's own: switching to
\* it goes on in proc_scheduler, through an eret to where interrupts were enabled,
\* and the slot stays RUNNING.
DispatchDerailed ==
  /\ cpu = "scan"
  /\ state[pos] = "RUNNABLE"
  /\ derailed[pos]
  /\ current' = pos
  /\ cpu' = "ret"
  /\ state' = [state EXCEPT ![pos] = "RUNNING"]
  /\ masked' = FALSE
  /\ UNCHANGED <<chan, timed, rem, pc, preempted, derailed, renaming, pos, lockVars, devVars>>

\* Back from context_switch: current = 0, enable_irq, next iteration.
SchedRet ==
  /\ cpu = "ret"
  /\ current' = NoProc
  /\ masked' = FALSE
  /\ cpu' = "scan"
  /\ pos' = NextSlot
  /\ UNCHANGED <<procVars, lockVars, devVars>>

-----------------------------------------------------------------------------
(* Sleeping and waking *)

\* proc_wakeup(c)
Wakeup(c) ==
  [q \in Procs |-> IF state[q] = "SLEEPING" /\ chan[q] = c THEN "RUNNABLE" ELSE state[q]]

\* Where a blocked context continues, and what it sleeps on.
WaitChan(at) == CASE at = "iwait"  -> "inode"
                  [] at = "swait"  -> "rename"
                  [] at = "iowait" -> "disk"
                  [] OTHER -> "none"
AfterWait(at) == CASE at = "iwait"  -> "isched"
                   [] at = "swait"  -> "ssched"
                   [] at = "iowait" -> "iosched"
                   [] OTHER -> at
\* (mutant: the lock is tested with if, not while)
LoopHeadIf(at) == CASE at = "isched"  -> "crit"
                    [] at = "ssched"  -> "slock"
                    [] at = "iosched" -> "io"
                    [] at = "tsched"  -> "tret"
                    [] OTHER -> at
LoopHead(at) == CASE at = "isched"  -> "ilock"
                  [] at = "ssched"  -> "slock"
                  [] at = "iosched" -> "io"
                  [] at = "tsched"  -> "tret"
                  [] OTHER -> at

\* proc_wait_timeout_nointr sets wakeup_tick, proc_wait_nointr does not.
\* (mutant: the disk wait has no timeout)
NeverTimed(at) == FALSE
TimedWait(at) == at = "iowait"

\* DAIF.I after irq_restore of what irq_save returned: as it was before both.
\* (mutant: enable_irq in the place of irq_restore)
IrqEnabled == FALSE
IrqRestored == masked

Runs(p, at) == cpu = "proc" /\ current = p /\ pc[p] = at

\* proc_wait_nointr, and proc_wait_timeout_nointr for the disk, up to the
\* context switch.
Wait(p) ==
  /\ cpu = "proc"
  /\ current = p
  /\ pc[p] \in {"iwait", "swait", "iowait"}
  /\ chan' = [chan EXCEPT ![p] = WaitChan(pc[p])]
  /\ timed' = [timed EXCEPT ![p] = @ \/ TimedWait(pc[p])]
  /\ state' = [state EXCEPT ![p] = "SLEEPING"]
  /\ pc' = [pc EXCEPT ![p] = AfterWait(pc[p])]
  /\ UNCHANGED <<rem, preempted, derailed, renaming, cpuVars, lockVars, devVars>>

\* proc_sched: save the context, which continues at the head of the loop, and
\* go to the scheduler with DAIF as it is.
SwitchOut(p) ==
  /\ cpu = "proc"
  /\ current = p
  /\ pc[p] \in {"isched", "ssched", "iosched", "tsched"}
  /\ pc' = [pc EXCEPT ![p] = LoopHead(pc[p])]
  /\ cpu' = "ret"
  /\ UNCHANGED <<state, chan, timed, rem, preempted, derailed, renaming, current, pos,
                 masked, lockVars, devVars>>

\* sys_sleep: proc_sleep sets wakeup_tick and waits on its own address; 0 ticks
\* return at once.
SysSleep(p, n) ==
  /\ Runs(p, "user")
  /\ n > 0
  /\ masked' = TRUE
  /\ rem' = [rem EXCEPT ![p] = n]
  /\ timed' = [timed EXCEPT ![p] = TRUE]
  /\ chan' = [chan EXCEPT ![p] = "tick"]
  /\ state' = [state EXCEPT ![p] = "SLEEPING"]
  /\ pc' = [pc EXCEPT ![p] = "tsched"]
  /\ UNCHANGED <<preempted, derailed, renaming, current, cpu, pos, lockVars, devVars>>

\* proc_wait_timeout_nointr, and proc_sleep, clear wakeup_tick when they return.
\* (mutant: only proc_wakeup_timed does)
TickKept(p) == timed[p]
TickCleared(p) == FALSE

SleepReturn(p) ==
  /\ Runs(p, "tret")
  /\ chan' = [chan EXCEPT ![p] = "none"]
  /\ timed' = [timed EXCEPT ![p] = TickCleared(p)]
  /\ pc' = [pc EXCEPT ![p] = "eret"]
  /\ UNCHANGED <<state, rem, preempted, derailed, renaming, cpuVars, lockVars, devVars>>

-----------------------------------------------------------------------------
(* The inode lock and the disk transfer under it *)

\* The SVC masks interrupts; fs_ilock is next.
SysStat(p) ==
  /\ Runs(p, "user")
  /\ masked' = TRUE
  /\ pc' = [pc EXCEPT ![p] = "ilock"]
  /\ UNCHANGED <<state, chan, timed, rem, preempted, derailed, renaming, current, cpu, pos,
                 lockVars, devVars>>

\* One turn of the loop of fs_ilock, irq_save to irq_restore.  A context that comes back from the wait clears chan first.
Ilock(p) ==
  /\ Runs(p, "ilock")
  /\ chan' = [chan EXCEPT ![p] = "none"]
  /\ \/ /\ ilocked
        /\ pc' = [pc EXCEPT ![p] = "iwait"]
        /\ UNCHANGED ilocked
     \/ /\ ~ilocked
        /\ ilocked' = TRUE
        /\ pc' = [pc EXCEPT ![p] = "crit"]
  /\ masked' = IrqRestored
  /\ UNCHANGED <<state, timed, rem, preempted, derailed, renaming, current, cpu, pos,
                 rlocked, devVars>>

\* The work under the lock: the block is cached, or a request goes to the disk.
Cached(p) ==
  /\ Runs(p, "crit")
  /\ pc' = [pc EXCEPT ![p] = "iunlock"]
  /\ UNCHANGED <<state, chan, timed, rem, preempted, derailed, renaming, cpuVars, lockVars, devVars>>

Submit(p) ==
  /\ Runs(p, "crit")
  /\ io' = "busy"
  /\ rem' = [rem EXCEPT ![p] = IoTicks]
  /\ pc' = [pc EXCEPT ![p] = "io"]
  /\ UNCHANGED <<state, chan, timed, preempted, derailed, renaming, cpuVars, lockVars, irq>>

\* One turn of the wait loop of virtio_disk_rw: completed, timed out, or wait.
IoLoop(p) ==
  /\ Runs(p, "io")
  /\ chan' = [chan EXCEPT ![p] = "none"]
  /\ timed' = [timed EXCEPT ![p] = TickCleared(p)]
  /\ \/ /\ io = "busy" /\ rem[p] > 0
        /\ pc' = [pc EXCEPT ![p] = "iowait"]
        /\ UNCHANGED io
     \/ /\ io = "done" \/ rem[p] = 0
        /\ io' = "idle"
        /\ pc' = [pc EXCEPT ![p] = "iunlock"]
  /\ UNCHANGED <<state, rem, preempted, derailed, renaming, cpuVars, lockVars, irq>>

\* fs_iunlock: the end of stat; rename goes on to sleep_unlock.
Iunlock(p) ==
  /\ Runs(p, "iunlock")
  /\ ilocked' = FALSE
  /\ state' = Wakeup("inode")
  /\ pc' = [pc EXCEPT ![p] = IF renaming[p] THEN "sunlock" ELSE "eret"]
  /\ masked' = IrqRestored
  /\ UNCHANGED <<chan, timed, rem, preempted, derailed, renaming, current, cpu, pos,
                 rlocked, devVars>>

\* The end of sync_lower_entry: restore_trap_frame and eret to user mode, which
\* clears DAIF.I.
Eret(p) ==
  /\ Runs(p, "eret")
  /\ pc' = [pc EXCEPT ![p] = "user"]
  /\ masked' = FALSE
  /\ UNCHANGED <<state, chan, timed, rem, preempted, derailed, renaming, current, cpu,
                 pos, lockVars, devVars>>

-----------------------------------------------------------------------------
(* rename_lock *)

SysRename(p) ==
  /\ Runs(p, "user")
  /\ p \in Renamers
  /\ masked' = TRUE
  /\ renaming' = [renaming EXCEPT ![p] = TRUE]
  /\ pc' = [pc EXCEPT ![p] = "slock"]
  /\ UNCHANGED <<state, chan, timed, rem, preempted, derailed, current, cpu, pos,
                 lockVars, devVars>>

\* One turn of the loop of sleep_lock: disable_irq, test, enable_irq.
SleepLock(p) ==
  /\ Runs(p, "slock")
  /\ chan' = [chan EXCEPT ![p] = "none"]
  /\ masked' = FALSE
  /\ \/ /\ rlocked
        /\ pc' = [pc EXCEPT ![p] = "swait"]
        /\ UNCHANGED rlocked
     \/ /\ ~rlocked
        /\ rlocked' = TRUE
        /\ pc' = [pc EXCEPT ![p] = "ilock"]
  /\ UNCHANGED <<state, timed, rem, preempted, derailed, renaming, current, cpu, pos,
                 ilocked, devVars>>

SleepUnlock(p) ==
  /\ Runs(p, "sunlock")
  /\ rlocked' = FALSE
  /\ state' = Wakeup("rename")
  /\ masked' = FALSE
  /\ renaming' = [renaming EXCEPT ![p] = FALSE]
  /\ pc' = [pc EXCEPT ![p] = "eret"]
  /\ UNCHANGED <<chan, timed, rem, preempted, derailed, current, cpu, pos, ilocked, devVars>>

-----------------------------------------------------------------------------
(* Interrupts *)

\* proc_wakeup_timed after ticks++.
Expires(q) == state[q] = "SLEEPING" /\ timed[q] /\ rem[q] <= 1
TimedWakeup ==
  /\ rem' = [q \in Procs |-> IF rem[q] = 0 THEN 0 ELSE rem[q] - 1]
  /\ timed' = [q \in Procs |-> timed[q] /\ ~Expires(q)]

Awake(q) == IF Expires(q) THEN "RUNNABLE" ELSE state[q]

\* timer_handler with current = 0: no proc_yield.
TimerIdle ==
  /\ ~masked
  /\ current = NoProc
  /\ TimedWakeup
  /\ state' = [q \in Procs |-> Awake(q)]
  /\ UNCHANGED <<chan, pc, preempted, derailed, renaming, cpuVars, lockVars, devVars>>

\* timer_handler with current # 0: proc_yield.  The handler runs masked and so
\* does the scheduler it switches to.  If the interrupt was taken in a process,
\* its context resumes through eret; if it was taken in the scheduler, before
\* current = 0, the context saved in p->ctx is the scheduler's.
TimerYield ==
  /\ ~masked
  /\ current # NoProc
  /\ TimedWakeup
  /\ state' = [q \in Procs |-> IF q = current THEN "RUNNABLE" ELSE Awake(q)]
  /\ cpu' = "ret"
  /\ masked' = TRUE
  /\ \/ /\ cpu = "proc"
        /\ preempted' = [preempted EXCEPT ![current] = TRUE]
        /\ UNCHANGED derailed
     \/ /\ cpu = "ret"
        /\ derailed' = [derailed EXCEPT ![current] = TRUE]
        /\ UNCHANGED preempted
  /\ UNCHANGED <<chan, pc, renaming, current, pos, lockVars, devVars>>

\* The disk moves used->idx and raises its interrupt.
DeviceDone ==
  /\ io = "busy"
  /\ io' = "done"
  /\ irq' = TRUE
  /\ UNCHANGED <<procVars, cpuVars, lockVars>>

\* virtio_intr
VirtioIntr ==
  /\ ~masked
  /\ irq
  /\ irq' = FALSE
  /\ state' = Wakeup("disk")
  /\ UNCHANGED <<chan, timed, rem, pc, preempted, derailed, renaming, cpuVars, lockVars, io>>

-----------------------------------------------------------------------------
Kernel(p) ==
  \/ Wait(p) \/ SwitchOut(p) \/ SleepReturn(p) \/ Ilock(p) \/ Cached(p) \/ Submit(p)
  \/ IoLoop(p) \/ Iunlock(p) \/ Eret(p) \/ SleepLock(p) \/ SleepUnlock(p)

User(p) == (\E n \in 0 .. MaxSleep : SysSleep(p, n)) \/ SysStat(p) \/ SysRename(p)

Scheduler == Skip \/ Dispatch \/ DispatchDerailed \/ SchedRet

Timer == TimerIdle \/ TimerYield

Next ==
  \/ Scheduler
  \/ \E p \in Procs : Kernel(p) \/ User(p)
  \/ Timer
  \/ DeviceDone
  \/ VirtioIntr

\* The CPU goes on executing kernel code; the timer interrupt stays pending in
\* the GIC until it is taken, so it is taken if DAIF.I is clear again and again,
\* and so does the disk's.  Nothing obliges a process to make a system call or
\* the disk to answer.
Fairness ==
  /\ WF_vars(Scheduler \/ \E p \in Procs : Kernel(p))
  /\ SF_vars(Timer)
  /\ SF_vars(VirtioIntr)

Spec == Init /\ [][Next]_vars

FairSpec == Spec /\ Fairness

-----------------------------------------------------------------------------
(* Properties *)

\* The comment of proc_scheduler: interrupts are disabled while current is set
\* but the CPU is in scheduler context, so that the timer handler cannot yield
\* on behalf of a process that is already switched out.
SchedulerMasked == cpu = "ret" => masked

\* A slot marked RUNNING is the current one: a process that is switched out is
\* RUNNABLE or SLEEPING, or nothing would ever run it again.
RunningIsCurrent == \A p \in Procs : state[p] = "RUNNING" => current = p

\* A process that sleeps on an inode lock sleeps on a lock that is held: the
\* fs_iunlock that will wake it has not happened yet.
NoLostWakeup ==
  \A p \in Procs : state[p] = "SLEEPING" /\ chan[p] = "inode" => ilocked

\* No tick is left over from a wait that something else ended: a process that waits
\* without a timeout, for a lock, is not woken by the timer.
NoStaleTick ==
  \A p \in Procs : state[p] = "SLEEPING" /\ chan[p] \in {"inode", "rename"} => ~timed[p]

\* The way back to user mode, where ELR_EL1 and SPSR_EL1 are live, is masked.
TrapReturnMasked == \A p \in Procs : Runs(p, "eret") => masked

\* At most one process is between fs_ilock and fs_iunlock, at most one between
\* sleep_lock and sleep_unlock, and the flags say whether there is one.
HoldsInode(p)  == pc[p] \in CritPC
HoldsRename(p) == renaming[p] /\ pc[p] \in IlockPC \cup CritPC \cup {"sunlock"}
LockExclusion ==
  /\ \A p, q \in Procs : HoldsInode(p) /\ HoldsInode(q) => p = q
  /\ \A p, q \in Procs : HoldsRename(p) /\ HoldsRename(q) => p = q
  /\ ilocked <=> \E p \in Procs : HoldsInode(p)
  /\ rlocked <=> \E p \in Procs : HoldsRename(p)

\* What makes LockExclusion inductive: where a process can be inside and outside
\* of rename.
RenamingAt ==
  \A p \in Procs :
    /\ pc[p] \in SlockPC \cup {"sunlock"} => renaming[p]
    /\ pc[p] \in UserPC \cup TickPC \cup {"eret"} => ~renaming[p]

\* What the blocking code relies on when nobody renames: a process that is in
\* the kernel, and the scheduler it switches to, run masked, so a process is
\* preempted in user mode only and every other context is at a loop head.
LoopHeads == {"ilock", "io", "tret"}
MaskDiscipline ==
  /\ cpu = "scan" <=> current = NoProc
  /\ cpu = "ret" => masked /\ state[current] # "RUNNING"
  /\ \A p \in Procs :
       /\ ~renaming[p] /\ ~derailed[p]
       /\ Runs(p, pc[p]) \/ pc[p] # "user" => ~preempted[p]
       /\ Runs(p, pc[p]) /\ pc[p] # "user" => masked
       /\ Runs(p, pc[p]) /\ pc[p] \in {"isched", "iosched", "tsched"} => state[p] # "RUNNING"
       /\ ~Runs(p, pc[p]) => pc[p] \in LoopHeads \cup UserPC
       /\ ~Runs(p, pc[p]) /\ state[p] = "RUNNING" => FALSE
       /\ pc[p] = "iwait" => ilocked

\* Round robin with a preempting timer: a RUNNABLE process gets the CPU whatever
\* the others do.
RunnableRuns == \A p \in Procs : state[p] = "RUNNABLE" ~> current = p

\* Whatever a process sleeps for (a tick count, a lock, the disk), it runs again,
\* even if the disk never answers.
SleeperRuns == \A p \in Procs : state[p] = "SLEEPING" ~> (current = p /\ state[p] = "RUNNING")
=============================================================================
