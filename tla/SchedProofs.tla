---------------------------- MODULE SchedProofs ----------------------------
(***************************************************************************)
(* Proofs about Sched, for any number of processes, any set of renamers    *)
(* and any timeouts:                                                       *)
(*   - the type invariant, the exclusion of both locks and that no wakeup  *)
(*     tick is left over, renamers or not;                                 *)
(*   - if nobody renames, the interrupt discipline that the blocking code  *)
(*     relies on, and from it that no wakeup of an inode lock is lost and  *)
(*     that no process is switched out RUNNING.                            *)
(***************************************************************************)
EXTENDS Sched, TLAPS

\* The type invariant of the specification (the process table, current, DAIF and
\* the locks keep their types under every handler).
THEOREM TypeCorrect == Spec => []TypeOK
<1>1. Init => TypeOK
  <2> SUFFICES ASSUME Init PROVE TypeOK
    OBVIOUS
  <2>1. 0 \in Procs
    BY SchedAssumption DEF SchedAssumption, Procs
  <2>2. /\ state \in [Procs -> States] /\ chan \in [Procs -> Chans]
        /\ rem \in [Procs -> Nat] /\ pc \in [Procs -> PCs]
    BY DEF Init, States, Chans, PCs, UserPC
  <2>3. /\ timed \in [Procs -> BOOLEAN] /\ preempted \in [Procs -> BOOLEAN]
        /\ derailed \in [Procs -> BOOLEAN] /\ renaming \in [Procs -> BOOLEAN]
    BY DEF Init
  <2>4. /\ masked \in BOOLEAN /\ ilocked \in BOOLEAN /\ rlocked \in BOOLEAN /\ irq \in BOOLEAN
    BY Zenon DEF Init
  <2>5. /\ current \in Procs \cup {NoProc} /\ cpu \in {"scan", "ret", "proc"}
        /\ pos \in Procs /\ io \in {"idle", "busy", "done"}
    BY <2>1 DEF Init
  <2> QED BY <2>2, <2>3, <2>4, <2>5 DEF TypeOK
<1>2. TypeOK /\ [Next]_vars => TypeOK'
  <2> SUFFICES ASSUME TypeOK, [Next]_vars PROVE TypeOK'
    OBVIOUS
  <2> USE SchedAssumption DEF SchedAssumption, TypeOK, Procs, NoProc, States, Chans, PCs, UserPC, TickPC,
          SlockPC, IlockPC, CritPC, Runs, procVars, cpuVars, lockVars, devVars, Wakeup
  <2>1. CASE Skip BY <2>1 DEF Skip, NextSlot
  <2>2. CASE Dispatch BY <2>2 DEF Dispatch
  <2>3. CASE DispatchDerailed BY <2>3 DEF DispatchDerailed
  <2>4. CASE SchedRet
    <3>1. NextSlot \in Procs
      BY DEF NextSlot
    <3>2. masked' \in BOOLEAN
      BY <2>4, Zenon DEF SchedRet
    <3> QED BY <2>4, <3>1, <3>2 DEF SchedRet
  <2>5. ASSUME NEW p \in Procs, Kernel(p) PROVE TypeOK'
    <3>1. CASE Wait(p) BY <3>1 DEF Wait, WaitChan, AfterWait, TimedWait
    <3>2. CASE SwitchOut(p) BY <3>2 DEF SwitchOut, LoopHead
    <3>3. CASE SleepReturn(p) BY <3>3 DEF SleepReturn, TickCleared
    <3>4. CASE Ilock(p) BY <3>4 DEF Ilock, IrqRestored
    <3>5. CASE Cached(p) BY <3>5 DEF Cached
    <3>6. CASE Submit(p) BY <3>6 DEF Submit
    <3>7. CASE IoLoop(p) BY <3>7 DEF IoLoop, TickCleared
    <3>8. CASE Iunlock(p) BY <3>8 DEF Iunlock, IrqRestored
    <3>9. CASE Eret(p) BY <3>9 DEF Eret
    <3>10. CASE SleepLock(p) BY <3>10 DEF SleepLock
    <3>11. CASE SleepUnlock(p) BY <3>11 DEF SleepUnlock
    <3> QED BY <2>5, <3>1, <3>2, <3>3, <3>4, <3>5, <3>6, <3>7, <3>8, <3>9, <3>10, <3>11
            DEF Kernel
  <2>6. ASSUME NEW p \in Procs, User(p) PROVE TypeOK'
    <3>1. ASSUME NEW n \in 0 .. MaxSleep, SysSleep(p, n) PROVE TypeOK'
      BY <3>1 DEF SysSleep
    <3>2. CASE SysStat(p) BY <3>2 DEF SysStat
    <3>3. CASE SysRename(p) BY <3>3 DEF SysRename
    <3> QED BY <2>6, <3>1, <3>2, <3>3 DEF User
  <2>7. CASE TimerIdle BY <2>7 DEF TimerIdle, TimedWakeup, Awake, Expires
  <2>8. CASE TimerYield
    <3>1. /\ state' \in [Procs -> States] /\ rem' \in [Procs -> Nat]
          /\ timed' \in [Procs -> BOOLEAN]
      BY <2>8 DEF TimerYield, TimedWakeup, Awake, Expires
    <3>2. /\ preempted' \in [Procs -> BOOLEAN] /\ derailed' \in [Procs -> BOOLEAN]
      BY <2>8 DEF TimerYield
    <3>3. masked' \in BOOLEAN
      BY <2>8, Zenon DEF TimerYield
    <3> QED BY <2>8, <3>1, <3>2, <3>3 DEF TimerYield
  <2>9. CASE DeviceDone BY <2>9 DEF DeviceDone
  <2>10. CASE VirtioIntr BY <2>10 DEF VirtioIntr
  <2>11. CASE UNCHANGED vars BY <2>11 DEF vars
  <2> QED BY <2>1, <2>2, <2>3, <2>4, <2>5, <2>6, <2>7, <2>8, <2>9, <2>10, <2>11
          DEF Next, Scheduler, Timer
<1> QED BY <1>1, <1>2, PTL DEF Spec

-----------------------------------------------------------------------------
(* The two locks *)

LockInv == TypeOK /\ RenamingAt /\ LockExclusion

\* A step that leaves the program counters and the lock flags alone keeps the
\* invariant of the locks.
LEMMA LockFrame ==
  ASSUME LockInv, UNCHANGED <<pc, renaming, ilocked, rlocked>>
  PROVE  (RenamingAt /\ LockExclusion)'
BY DEF LockInv, RenamingAt, LockExclusion, HoldsInode, HoldsRename

\* At most one process is inside either lock and the flags tell whether one is:
\* an inductive invariant of every handler, interrupts anywhere included.
LEMMA LockStep == LockInv /\ [Next]_vars => (RenamingAt /\ LockExclusion)'
<1> SUFFICES ASSUME LockInv, [Next]_vars PROVE (RenamingAt /\ LockExclusion)'
  OBVIOUS
<1> USE DEF procVars, cpuVars, lockVars, devVars
<1>1. CASE Scheduler
  BY <1>1, LockFrame DEF Scheduler, Skip, Dispatch, DispatchDerailed, SchedRet
<1>2. CASE Timer \/ DeviceDone \/ VirtioIntr
  BY <1>2, LockFrame DEF Timer, TimerIdle, TimerYield, DeviceDone, VirtioIntr
<1>3. CASE UNCHANGED vars
  BY <1>3, LockFrame DEF vars
<1>4. ASSUME NEW p \in Procs, Kernel(p) \/ User(p)
      PROVE  (RenamingAt /\ LockExclusion)'
  <2> USE DEF LockInv, TypeOK, RenamingAt, LockExclusion, HoldsInode, HoldsRename, Runs,
          UserPC, TickPC, SlockPC, IlockPC, CritPC
  <2>1. CASE Wait(p) BY <2>1 DEF Wait, AfterWait
  <2>2. CASE SwitchOut(p) BY <2>2 DEF SwitchOut, LoopHead
  <2>3. CASE SleepReturn(p) BY <2>3 DEF SleepReturn
  <2>4. CASE Ilock(p)
    <3>1. CASE ilocked BY <2>4, <3>1 DEF Ilock
    <3>2. CASE ~ilocked BY <2>4, <3>2 DEF Ilock
    <3> QED BY <3>1, <3>2
  <2>5. CASE Cached(p) BY <2>5 DEF Cached
  <2>6. CASE Submit(p) BY <2>6 DEF Submit
  <2>7. CASE IoLoop(p) BY <2>7 DEF IoLoop
  <2>8. CASE Iunlock(p) BY <2>8 DEF Iunlock
  <2>9. CASE Eret(p) BY <2>9 DEF Eret
  <2>10. CASE SleepLock(p)
    <3>1. CASE rlocked BY <2>10, <3>1 DEF SleepLock
    <3>2. CASE ~rlocked BY <2>10, <3>2 DEF SleepLock
    <3> QED BY <3>1, <3>2
  <2>11. CASE SleepUnlock(p) BY <2>11 DEF SleepUnlock
  <2>12. ASSUME NEW n \in 0 .. MaxSleep, SysSleep(p, n) PROVE (RenamingAt /\ LockExclusion)'
    BY <2>12 DEF SysSleep
  <2>13. CASE SysStat(p) BY <2>13 DEF SysStat
  <2>14. CASE SysRename(p) BY <2>14 DEF SysRename
  <2> QED BY <1>4, <2>1, <2>2, <2>3, <2>4, <2>5, <2>6, <2>7, <2>8, <2>9, <2>10, <2>11,
             <2>12, <2>13, <2>14 DEF Kernel, User
<1> QED BY <1>1, <1>2, <1>3, <1>4 DEF Next

\* At the start nobody holds a lock and nobody renames.
LEMMA LockInit == Init => RenamingAt /\ LockExclusion
BY DEF Init, RenamingAt, LockExclusion, HoldsInode, HoldsRename, UserPC, TickPC, SlockPC,
       IlockPC, CritPC

\* Mutual exclusion of fs_ilock and of sleep_lock, whoever renames and wherever
\* the timer interrupts the holder.
THEOREM Exclusion == Spec => []LockExclusion
BY LockInit, TypeCorrect, LockStep, PTL DEF Spec, LockInv

-----------------------------------------------------------------------------
(* wakeup_tick *)

\* Where a process can be that has a wakeup_tick, or something to sleep on.
TickPlaces ==
  \A p \in Procs :
    /\ timed[p] => pc[p] \in {"tsched", "tret", "iosched", "io"}
    /\ chan[p] = "inode" => pc[p] \in {"isched", "ilock"}
    /\ chan[p] = "rename" => pc[p] \in {"ssched", "slock"}

LEMMA TickStep == TypeOK /\ TickPlaces /\ [Next]_vars => TickPlaces'
<1> SUFFICES ASSUME TypeOK, TickPlaces, [Next]_vars PROVE TickPlaces'
  OBVIOUS
<1> USE DEF procVars, cpuVars, lockVars, devVars
<1>0. /\ timed \in [Procs -> BOOLEAN] /\ pc \in [Procs -> PCs] /\ chan \in [Procs -> Chans]
  BY DEF TypeOK
<1>1. ASSUME pc' = pc, chan' = chan, \A q \in Procs : timed'[q] => timed[q] PROVE TickPlaces'
  BY <1>1 DEF TickPlaces
<1>2. CASE Scheduler \/ DeviceDone \/ VirtioIntr \/ UNCHANGED vars
  BY <1>1, <1>2 DEF Scheduler, Skip, Dispatch, DispatchDerailed, SchedRet, DeviceDone, VirtioIntr, vars
<1>3. CASE Timer
  <2>1. \A q \in Procs : timed'[q] => timed[q]
    BY <1>3 DEF Timer, TimerIdle, TimerYield, TimedWakeup
  <2> QED BY <1>1, <1>3, <2>1 DEF Timer, TimerIdle, TimerYield
<1>4. ASSUME NEW p \in Procs, Kernel(p) \/ User(p) PROVE TickPlaces'
  <2> USE <1>0 DEF TickPlaces, Runs
  <2>1. CASE Wait(p) BY <2>1 DEF Wait, AfterWait, WaitChan, TimedWait
  <2>2. CASE SwitchOut(p) BY <2>2 DEF SwitchOut, LoopHead
  <2>3. CASE SleepReturn(p) BY <2>3 DEF SleepReturn, TickCleared
  <2>4. CASE Ilock(p) BY <2>4 DEF Ilock
  <2>5. CASE Cached(p) \/ Submit(p) BY <2>5 DEF Cached, Submit
  <2>6. CASE IoLoop(p) BY <2>6 DEF IoLoop, TickCleared
  <2>7. CASE Iunlock(p) \/ Eret(p) BY <2>7 DEF Iunlock, Eret
  <2>8. CASE SleepLock(p) BY <2>8 DEF SleepLock
  <2>9. CASE SleepUnlock(p) BY <2>9 DEF SleepUnlock
  <2>10. ASSUME NEW n \in 0 .. MaxSleep, SysSleep(p, n) PROVE TickPlaces'
    BY <2>10 DEF SysSleep
  <2>11. CASE SysStat(p) \/ SysRename(p) BY <2>11 DEF SysStat, SysRename
  <2> QED BY <1>4, <2>1, <2>2, <2>3, <2>4, <2>5, <2>6, <2>7, <2>8, <2>9, <2>10, <2>11 DEF Kernel, User
<1> QED BY <1>2, <1>3, <1>4 DEF Next

\* proc_wait_nointr does not touch wakeup_tick: that the timer wakes nobody out of a lock's
\* queue rests on every timed wait clearing its tick, however it was ended, with renamers
\* or without.
THEOREM TicksSettled == Spec => []NoStaleTick
<1>1. Init => TickPlaces
  BY DEF Init, TickPlaces
<1>2. TickPlaces => NoStaleTick
  BY DEF TickPlaces, NoStaleTick
<1> QED BY <1>1, <1>2, TickStep, TypeCorrect, PTL DEF Spec

-----------------------------------------------------------------------------
(* Without rename: the interrupt discipline *)

MaskInv == LockInv /\ MaskDiscipline /\ NoLostWakeup

\* With no renamer every handler keeps the discipline: the kernel is left masked
\* at each of its blocking points, so the test of a lock, the store of SLEEPING
\* and the context switch are one step to everybody else.
LEMMA MaskStep ==
  ASSUME Renamers = {}, MaskInv, [Next]_vars
  PROVE  (MaskDiscipline /\ NoLostWakeup)'
<1> USE SchedAssumption DEF SchedAssumption, MaskInv, LockInv, RenamingAt, TypeOK, MaskDiscipline,
        NoLostWakeup, Runs, SlockPC, TickPC,
        LoopHeads, UserPC, procVars, cpuVars, lockVars, devVars, Procs, NoProc
<1>1. CASE Skip BY <1>1 DEF Skip
<1>2. CASE Dispatch
  <2>1. pc[pos] # "user" => masked'
    BY <1>2 DEF Dispatch
  <2>2. /\ cpu = "scan" /\ current' = pos /\ cpu' = "proc" /\ pc' = pc /\ renaming' = renaming
        /\ derailed' = derailed /\ ilocked' = ilocked /\ chan' = chan
        /\ state' = [state EXCEPT ![pos] = "RUNNING"]
        /\ preempted' = [preempted EXCEPT ![pos] = FALSE]
    BY <1>2 DEF Dispatch
  <2>3. pc[pos] \in LoopHeads \cup UserPC
    BY <1>2 DEF Dispatch
  <2> QED BY <2>1, <2>2, <2>3
<1>3. CASE DispatchDerailed BY <1>3 DEF DispatchDerailed
<1>4. CASE SchedRet BY <1>4 DEF SchedRet
<1>5. CASE TimerIdle BY <1>5 DEF TimerIdle, TimedWakeup, Awake, Expires
<1>6. CASE TimerYield BY <1>6 DEF TimerYield, TimedWakeup, Awake, Expires
<1>7. CASE DeviceDone BY <1>7 DEF DeviceDone
<1>8. CASE VirtioIntr BY <1>8 DEF VirtioIntr, Wakeup
<1>9. CASE UNCHANGED vars BY <1>9 DEF vars
<1>10. ASSUME NEW p \in Procs, Kernel(p) \/ User(p)
       PROVE  (MaskDiscipline /\ NoLostWakeup)'
  <2>1. CASE Wait(p) BY <2>1 DEF Wait, AfterWait, WaitChan, TimedWait
  <2>2. CASE SwitchOut(p) BY <2>2 DEF SwitchOut, LoopHead
  <2>3. CASE SleepReturn(p) BY <2>3 DEF SleepReturn
  <2>4. CASE Ilock(p) BY <2>4 DEF Ilock, IrqRestored
  <2>5. CASE Cached(p) BY <2>5 DEF Cached
  <2>6. CASE Submit(p) BY <2>6 DEF Submit
  <2>7. CASE IoLoop(p) BY <2>7 DEF IoLoop
  <2>8. CASE Iunlock(p) BY <2>8 DEF Iunlock, IrqRestored, Wakeup
  <2>9. CASE Eret(p) BY <2>9 DEF Eret
  <2>10. CASE SleepLock(p) BY <2>10 DEF SleepLock
  <2>11. CASE SleepUnlock(p) BY <2>11 DEF SleepUnlock
  <2>12. ASSUME NEW n \in 0 .. MaxSleep, SysSleep(p, n)
         PROVE  (MaskDiscipline /\ NoLostWakeup)'
    <3>1. masked'
      BY <2>12, Zenon DEF SysSleep
    <3> QED BY <2>12, <3>1 DEF SysSleep
  <2>13. CASE SysStat(p)
    <3>1. masked'
      BY <2>13, Zenon DEF SysStat
    <3> QED BY <2>13, <3>1 DEF SysStat
  <2>14. CASE SysRename(p) BY <2>14 DEF SysRename
  <2> QED BY <1>10, <2>1, <2>2, <2>3, <2>4, <2>5, <2>6, <2>7, <2>8, <2>9, <2>10, <2>11,
             <2>12, <2>13, <2>14 DEF Kernel, User
<1> QED BY <1>1, <1>2, <1>3, <1>4, <1>5, <1>6, <1>7, <1>8, <1>9, <1>10
        DEF Next, Scheduler, Timer

\* The scheduler starts with its scan, unmasked and without a current process.
LEMMA MaskInit == Renamers = {} /\ Init => MaskDiscipline /\ NoLostWakeup
BY SchedAssumption DEF SchedAssumption, Init, MaskDiscipline, NoLostWakeup, Runs, LoopHeads,
   UserPC, Procs, NoProc

\* The discipline is an invariant of the system without renamers.
LEMMA Discipline ==
  ASSUME Renamers = {}
  PROVE  Spec => [](TypeOK /\ MaskDiscipline /\ NoLostWakeup)
<1>1. LockInv /\ MaskDiscipline /\ NoLostWakeup /\ [Next]_vars
        => (MaskDiscipline /\ NoLostWakeup)'
  BY MaskStep DEF MaskInv
<1>2. Init => MaskDiscipline /\ NoLostWakeup
  BY MaskInit
<1>3. Spec => []LockInv
  <2>1. Init => RenamingAt /\ LockExclusion
    BY LockInit
  <2> QED BY <2>1, TypeCorrect, LockStep, PTL DEF Spec, LockInv
<1>4. LockInv => TypeOK
  BY DEF LockInv
<1> QED BY <1>1, <1>2, <1>3, <1>4, PTL DEF Spec

\* If nobody renames, a process that sleeps on an inode lock sleeps on a held
\* one: fs_ilock's test and its sleep are not separated by the holder's unlock.
THEOREM WakeupsNotLost == ASSUME Renamers = {} PROVE Spec => []NoLostWakeup
BY Discipline, PTL

\* If nobody renames, no process is ever switched out in state RUNNING, where
\* proc_scheduler would never pick it again.
THEOREM NoProcessLost == ASSUME Renamers = {} PROVE Spec => []RunningIsCurrent
<1>1. TypeOK /\ MaskDiscipline => RunningIsCurrent
  BY DEF TypeOK, MaskDiscipline, RunningIsCurrent, Runs
<1> QED BY <1>1, Discipline, PTL

\* If nobody renames, interrupts are masked whenever the scheduler runs with
\* current set, as the comment in proc_scheduler demands.
THEOREM SchedulerIsMasked == ASSUME Renamers = {} PROVE Spec => []SchedulerMasked
<1>1. MaskDiscipline => SchedulerMasked
  BY DEF MaskDiscipline, SchedulerMasked
<1> QED BY <1>1, Discipline, PTL

\* If nobody renames, every system call comes back to restore_trap_frame and eret
\* with interrupts masked, so no handler overwrites the ELR_EL1 and SPSR_EL1 that
\* the return uses.
THEOREM ReturnsMasked == ASSUME Renamers = {} PROVE Spec => []TrapReturnMasked
<1>1. MaskDiscipline => TrapReturnMasked
  BY DEF MaskDiscipline, TrapReturnMasked, Runs
<1> QED BY <1>1, Discipline, PTL
=============================================================================
