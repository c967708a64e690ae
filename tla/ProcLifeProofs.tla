--------------------------- MODULE ProcLifeProofs ---------------------------
(***************************************************************************)
(* Proofs about ProcLife, for a process table of any size, any number of   *)
(* pids and signals, and any arguments of waitpid and setpgid:             *)
(*   - the type invariant, with what a trap leaves for the next one;       *)
(*   - no child is missed by a parent that sleeps in wait or waitpid;      *)
(*   - a stopped process stays stopped until SIGCONT or SIGKILL;           *)
(*   - a terminating signal goes only together with its process.           *)
(* The two action properties need KernRuns: the process that is inside a   *)
(* system call is RUNNABLE and stays so, whatever the others have sent it. *)
(***************************************************************************)
EXTENDS ProcLife, TLAPS, WellFoundedInduction

\* The slot inside a system call is RUNNABLE and either before its scan for a
\* child or before proc_check_signals.
KernRuns ==
  kern # None => state[kern] = "RUNNABLE" /\ pc[kern] \in {"scan", "check"}

Inv == TypeOK /\ KernRuns

-----------------------------------------------------------------------------
(* The lists of proc_check_signals, and the first free slot *)

\* The two lists as sets.
LEMMA SigLists ==
  /\ StopSigs = {"STOP", "TSTP", "TTIN", "TTOU"}
  /\ TermSigs = {"TERM", "INT", "HUP", "QUIT", "PIPE", "ALRM", "USR1", "USR2"}
BY DEF StopSigs, TermSigs, Elems, stop_sigs, term_sigs

\* The loop over the stop signals ends at one that is pending.
LEMMA FirstStop ==
  ASSUME NEW S, S \cap StopSigs # {}
  PROVE  FirstOf(stop_sigs, S) \in S \cap StopSigs
BY DEF FirstOf, StopSigs, Elems, stop_sigs

\* So does the loop over the terminating signals.
LEMMA FirstTerm ==
  ASSUME NEW S, S \cap TermSigs # {}
  PROVE  FirstOf(term_sigs, S) \in S \cap TermSigs
BY DEF FirstOf, TermSigs, Elems, term_sigs

\* The first slot of a set that is not empty is one of the set.
LEMMA LowestIn ==
  ASSUME NEW S, S \subseteq Slots, S # {}
  PROVE  Lowest(S) \in S
<1>1. S \subseteq Nat
  BY DEF Slots
<1>2. PICK x \in S : \A y \in S : ~(<<y, x>> \in OpToRel(<, Nat))
  BY <1>1, NatLessThanWellFounded, WFMin
<1>3. ASSUME NEW y \in S PROVE x <= y
  <2>1. ~(y < x)
    BY <1>1, <1>2 DEF OpToRel
  <2> QED BY <1>1, <2>1
<1> QED BY <1>3 DEF Lowest

-----------------------------------------------------------------------------
(* Types *)

\* One step keeps the types and leaves the slot inside a system call RUNNABLE.
LEMMA InvStep == Inv /\ [Next]_vars => Inv'
<1> SUFFICES ASSUME Inv, [Next]_vars PROVE Inv'
  OBVIOUS
<1>0. /\ None \notin Slots /\ 0 \in Pids
      /\ AnyChild \in Waits /\ Wants \subseteq Waits /\ Groups \subseteq Pids
      /\ MaxSignals \in Nat /\ MaxPid \in Nat
  BY LifeAssumption DEF LifeAssumption, None, Slots, AnyChild, Waits, Pids
<1> USE <1>0 DEF Inv, TypeOK, KernRuns, InUser, Resumes, Returns, InCheck, States, PCs
<1>1. ASSUME NEW s \in Slots, NEW status \in Statuses, NEW left \in SUBSET (Sigs \cup {"KILL"}),
             Cleanup(s, status, left), UNCHANGED <<stopsig, want, nextpid, sent>>
      PROVE  Inv'
  <2>1. kern' = None /\ pc' = [pc EXCEPT ![s] = "user"]
    BY <1>1 DEF Cleanup
  <2>2. CASE parent[s] # None
    BY <1>1, <2>1, <2>2 DEF Cleanup, Woken
  <2>3. CASE parent[s] = None
    BY <1>1, <2>1, <2>3 DEF Cleanup, Freed, Statuses
  <2> QED BY <2>2, <2>3
<1>2. ASSUME NEW s \in Slots, Fork(s) PROVE Inv'
  <2>1. Lowest(Free) \in Free
    BY <1>2, LowestIn DEF Fork, Free
  <2>2. nextpid \in Pids /\ nextpid + 1 \in 1 .. MaxPid + 1
    BY <1>2 DEF Fork, Pids
  <2> QED BY <1>2, <2>1, <2>2 DEF Fork, Free
<1>3. ASSUME NEW s \in Slots, ForkFails(s) PROVE Inv'
  BY <1>3 DEF ForkFails
<1>4. ASSUME NEW s \in Slots, Exit(s) \/ Fault(s) PROVE Inv'
  BY <1>4, <1>1 DEF Exit, Fault, Statuses
<1>5. ASSUME NEW s \in Slots, NEW w \in Wants \cup {AnyChild}, SysWaitpid(s, w) PROVE Inv'
  BY <1>5 DEF SysWaitpid
<1>6. ASSUME NEW s \in Slots, Reap(s) PROVE Inv'
  <2>1. Lowest(Zombies(s)) \in Zombies(s)
    BY <1>6, LowestIn DEF Reap, Zombies, Children
  <2> QED BY <1>6, <2>1 DEF Reap, Zombies, Children, Freed, Statuses
<1>7. ASSUME NEW s \in Slots, WaitReturns(s) \/ WaitBlocks(s) \/ WaitResumes(s) PROVE Inv'
  BY <1>7 DEF WaitReturns, WaitBlocks, WaitResumes
<1>8. ASSUME NEW s \in Slots, Sleep(s) \/ SleepEnds(s) \/ SleepResumes(s) PROVE Inv'
  BY <1>8 DEF Sleep, SleepEnds, SleepResumes
<1>9. ASSUME NEW S \in SUBSET Slots, NEW sig \in Sigs, Signal(S, sig), sent < MaxSignals
      PROVE  /\ state' \in [Slots -> States]
             /\ pending' \in [Slots -> SUBSET (Sigs \cup {"KILL"})]
             /\ stopsig' \in [Slots -> StopSigs \cup {"none"}]
             /\ sent' \in 0 .. MaxSignals
             /\ \A s \in Slots : state[s] = "RUNNABLE" => state'[s] = "RUNNABLE"
  BY <1>9 DEF Signal, Signalled
<1>10. ASSUME NEW s \in Slots, NEW S \in SUBSET Slots, NEW sig \in Sigs, Kill(s, S, sig)
       PROVE  Inv'
  BY <1>10, <1>9 DEF Kill
<1>11. ASSUME NEW g \in Pids, NEW sig \in Sigs, ConsoleSignal(g, sig) PROVE Inv'
  <2>1. Members(g) \subseteq Slots
    BY DEF Members, Live
  <2> QED BY <1>11, <2>1, <1>9 DEF ConsoleSignal
<1>12. ASSUME NEW s \in Slots, NEW t \in Slots, NEW g \in Groups, Setpgid(s, t, g) PROVE Inv'
  BY <1>12 DEF Setpgid
<1>13. ASSUME NEW s \in Slots, CheckNothing(s) PROVE Inv'
  BY <1>13 DEF CheckNothing
<1>14. ASSUME NEW s \in Slots, CheckKill(s) PROVE Inv'
  BY <1>14, <1>1 DEF CheckKill, Statuses
<1>15. ASSUME NEW s \in Slots, CheckStop(s) PROVE Inv'
  <2>1. FirstOf(stop_sigs, pending[s]) \in StopSigs
    BY <1>15, FirstStop DEF CheckStop
  <2> QED BY <1>15, <2>1 DEF CheckStop, Woken
<1>16. ASSUME NEW s \in Slots, CheckTerm(s) PROVE Inv'
  <2>1. FirstOf(term_sigs, pending[s]) \in TermSigs
    BY <1>16, FirstTerm DEF CheckTerm
  <2> QED BY <1>16, <2>1, <1>1 DEF CheckTerm, TermAction, Statuses
<1>17. ASSUME NEW s \in Slots, StopResumes(s) PROVE Inv'
  <2>1. CASE "KILL" \in pending[s]
    BY <1>17, <2>1, <1>1 DEF StopResumes, Statuses
  <2>2. CASE "KILL" \notin pending[s]
    BY <1>17, <2>2 DEF StopResumes
  <2> QED BY <2>1, <2>2
<1>18. CASE UNCHANGED vars
  BY <1>18 DEF vars, slotVars
<1>19. ASSUME NEW s \in Slots, Kernel(s) PROVE Inv'
  BY <1>19, <1>6, <1>7, <1>8, <1>13, <1>14, <1>15, <1>16, <1>17 DEF Kernel
<1>20. ASSUME NEW s \in Slots, InitMain(s) PROVE Inv'
  BY <1>20, <1>2, <1>3, <1>5 DEF InitMain
<1>21. ASSUME NEW s \in Slots, Program(s) PROVE Inv'
  <2>1. ASSUME NEW t \in Slots, NEW sig \in Sigs, KillProcess(s, t, sig) PROVE Inv'
    BY <2>1, <1>10 DEF KillProcess
  <2>2. ASSUME NEW g \in Pids, NEW sig \in Sigs, KillGroup(s, g, sig) PROVE Inv'
    <3>1. Members(g) \subseteq Slots
      BY DEF Members, Live
    <3> QED BY <2>2, <3>1, <1>10 DEF KillGroup
  <2> QED BY <1>21, <2>1, <2>2, <1>2, <1>3, <1>4, <1>5, <1>8, <1>12 DEF Program
<1> QED
  BY <1>8, <1>11, <1>18, <1>19, <1>20, <1>21 DEF Next

\* After init.c the only process is in user mode.
LEMMA InvInit == Init => Inv
<1> SUFFICES ASSUME Init PROVE Inv
  OBVIOUS
<1>1. /\ 1 \in Slots /\ 0 \in Pids /\ 1 \in Pids /\ AnyChild \in Waits
      /\ 2 \in 1 .. MaxPid + 1 /\ 0 \in 0 .. MaxSignals
  BY LifeAssumption DEF LifeAssumption, Slots, AnyChild, Waits, Pids
<1> QED
  BY <1>1 DEF Init, Inv, TypeOK, KernRuns, States, PCs, Statuses

\* The process table keeps its types, and the slot inside a system call stays
\* RUNNABLE, under every call, signal and resumption.
LEMMA Invariance == Spec => []Inv
<1>1. Init => Inv
  BY InvInit
<1>2. Inv /\ [Next]_vars => Inv'
  BY InvStep
<1> QED BY <1>1, <1>2, PTL DEF Spec

\* The type invariant: every field of a slot, nextpid and the bound on signals
\* keep their ranges (proc_alloc hands out no pid beyond the bound, the lists of
\* proc_check_signals yield statuses and stop signals of their own).
THEOREM TypeCorrect == Spec => []TypeOK
<1>1. Inv => TypeOK
  BY DEF Inv
<1> QED BY <1>1, Invariance, PTL

-----------------------------------------------------------------------------
(* A process that sleeps in wait has nothing to collect *)

\* Only a child that becomes a ZOMBIE or STOPPED, a signal, and going to sleep can
\* touch NoMissedChild: the first two wake the parent slot in the same step, and a
\* process goes to sleep right after a scan that found nothing.
LEMMA MissedStep == Inv /\ NoMissedChild /\ [Next]_vars => NoMissedChild'
<1> SUFFICES ASSUME Inv, NoMissedChild, [Next]_vars PROVE NoMissedChild'
  OBVIOUS
<1>0. None \notin Slots
  BY DEF None, Slots
<1> USE <1>0 DEF Inv, TypeOK, NoMissedChild, Zombies, Stopped, Children, InUser, Resumes, Returns,
        InCheck
<1>1. ASSUME NEW s \in Slots, NEW status, NEW left, Cleanup(s, status, left), UNCHANGED want
      PROVE  NoMissedChild'
  <2>1. CASE parent[s] # None
    BY <1>1, <2>1 DEF Cleanup, Woken
  <2>2. CASE parent[s] = None
    BY <1>1, <2>2 DEF Cleanup, Freed
  <2> QED BY <2>1, <2>2
<1>2. ASSUME NEW s \in Slots, Fork(s) PROVE NoMissedChild'
  <2>1. Lowest(Free) \in Free
    BY <1>2, LowestIn DEF Fork, Free
  <2> QED BY <1>2, <2>1 DEF Fork, Free
<1>3. ASSUME NEW s \in Slots, ForkFails(s) PROVE NoMissedChild'
  BY <1>3 DEF ForkFails
<1>4. ASSUME NEW s \in Slots, Exit(s) \/ Fault(s) PROVE NoMissedChild'
  BY <1>4, <1>1 DEF Exit, Fault
<1>5. ASSUME NEW s \in Slots, NEW w, SysWaitpid(s, w) PROVE NoMissedChild'
  BY <1>5 DEF SysWaitpid
<1>6. ASSUME NEW s \in Slots, Reap(s) PROVE NoMissedChild'
  <2>1. Lowest(Zombies(s)) \in Zombies(s)
    BY <1>6, LowestIn DEF Reap
  <2> QED BY <1>6, <2>1, SMTT(30) DEF Reap, Freed
<1>7. ASSUME NEW s \in Slots, WaitReturns(s) \/ WaitResumes(s) PROVE NoMissedChild'
  BY <1>7 DEF WaitReturns, WaitResumes
<1>8. ASSUME NEW s \in Slots, WaitBlocks(s) PROVE NoMissedChild'
  BY <1>8 DEF WaitBlocks, Interrupts
<1>9. ASSUME NEW s \in Slots, Sleep(s) \/ SleepEnds(s) \/ SleepResumes(s) PROVE NoMissedChild'
  BY <1>9 DEF Sleep, SleepEnds, SleepResumes
<1>10. ASSUME NEW S \in SUBSET Slots, NEW sig, Signal(S, sig), UNCHANGED <<pid, parent>>,
              \A s \in Slots : pc'[s] = "wait" => pc[s] = "wait" /\ want'[s] = want[s]
       PROVE  NoMissedChild'
  BY <1>10 DEF Signal, Signalled
<1>11. ASSUME NEW s \in Slots, NEW S \in SUBSET Slots, NEW sig, Kill(s, S, sig)
       PROVE  NoMissedChild'
  BY <1>11, <1>10 DEF Kill
<1>12. ASSUME NEW g \in Pids, NEW sig \in Sigs, ConsoleSignal(g, sig) PROVE NoMissedChild'
  <2>1. Members(g) \subseteq Slots
    BY DEF Members, Live
  <2> QED BY <1>12, <2>1, <1>10 DEF ConsoleSignal
<1>13. ASSUME NEW s \in Slots, NEW t \in Slots, NEW g, Setpgid(s, t, g) PROVE NoMissedChild'
  BY <1>13 DEF Setpgid
<1>14. ASSUME NEW s \in Slots, CheckNothing(s) PROVE NoMissedChild'
  BY <1>14 DEF CheckNothing
<1>15. ASSUME NEW s \in Slots, CheckKill(s) \/ CheckTerm(s) PROVE NoMissedChild'
  BY <1>15, <1>1 DEF CheckKill, CheckTerm, TermAction
<1>16. ASSUME NEW s \in Slots, CheckStop(s) PROVE NoMissedChild'
  BY <1>16 DEF CheckStop, Woken
<1>17. ASSUME NEW s \in Slots, StopResumes(s) PROVE NoMissedChild'
  <2>1. CASE "KILL" \in pending[s]
    BY <1>17, <2>1, <1>1 DEF StopResumes
  <2>2. CASE "KILL" \notin pending[s]
    BY <1>17, <2>2 DEF StopResumes
  <2> QED BY <2>1, <2>2
<1>18. CASE UNCHANGED vars
  BY <1>18 DEF vars, slotVars
<1>19. ASSUME NEW s \in Slots, Kernel(s) PROVE NoMissedChild'
  BY <1>19, <1>6, <1>7, <1>8, <1>9, <1>14, <1>15, <1>16, <1>17 DEF Kernel
<1>20. ASSUME NEW s \in Slots, InitMain(s) PROVE NoMissedChild'
  BY <1>20, <1>2, <1>3, <1>5 DEF InitMain
<1>21. ASSUME NEW s \in Slots, Program(s) PROVE NoMissedChild'
  <2>1. ASSUME NEW t \in Slots, NEW sig \in Sigs, KillProcess(s, t, sig) PROVE NoMissedChild'
    BY <2>1, <1>11 DEF KillProcess
  <2>2. ASSUME NEW g \in Pids, NEW sig \in Sigs, KillGroup(s, g, sig) PROVE NoMissedChild'
    <3>1. Members(g) \subseteq Slots
      BY DEF Members, Live
    <3> QED BY <2>2, <3>1, <1>11 DEF KillGroup
  <2> QED BY <1>21, <2>1, <2>2, <1>2, <1>3, <1>4, <1>5, <1>9, <1>13 DEF Program
<1> QED
  BY <1>9, <1>12, <1>18, <1>19, <1>20, <1>21 DEF Next

\* No exit or stop of a child falls between the scan of sys_waitpid and its sleep,
\* and no signal either: what would be reported wakes the parent slot.
THEOREM NoChildMissed == Spec => []NoMissedChild
<1>1. Init => NoMissedChild
  BY DEF Init, NoMissedChild
<1>2. Inv /\ NoMissedChild /\ [Next]_vars => NoMissedChild'
  BY MissedStep
<1> QED BY <1>1, <1>2, Invariance, PTL DEF Spec

-----------------------------------------------------------------------------
(* What a step may do to a stopped process, and to a pending signal *)

\* A stopped process is resumed by SIGCONT or SIGKILL only.
ResumedRightly(s) ==
  state[s] = "STOPPED" /\ state'[s] # "STOPPED" => pending'[s] \cap {"CONT", "KILL"} # {}

\* A terminating signal is taken off with a change of the process's state.
TakenWithProcess(s, sig) ==
  sig \in pending[s] /\ sig \notin pending'[s] => state'[s] # state[s]

StepRight == \A s \in Slots : ResumedRightly(s) /\ \A sig \in TermSigs : TakenWithProcess(s, sig)

\* proc_cleanup of a RUNNABLE process ends that process and wakes at most a sleeper.
LEMMA CleanupRight ==
  ASSUME Inv, NEW s \in Slots, state[s] = "RUNNABLE", NEW status, NEW left, Cleanup(s, status, left)
  PROVE  StepRight
<1> USE DEF Inv, TypeOK, StepRight, ResumedRightly, TakenWithProcess
<1>1. CASE parent[s] # None
  BY <1>1 DEF Cleanup, Woken
<1>2. CASE parent[s] = None
  BY <1>2 DEF Cleanup
<1> QED BY <1>1, <1>2

\* A signal resumes a stopped process only as SIGCONT or SIGKILL, and removes nothing.
LEMMA SignalRight ==
  ASSUME Inv, NEW S \in SUBSET Slots, NEW sig, Signal(S, sig)
  PROVE  StepRight
BY DEF Inv, TypeOK, StepRight, ResumedRightly, TakenWithProcess, Signal, Signalled

\* Every step of the system is right in both respects.
LEMMA AllStepsRight == Inv /\ [Next]_vars => StepRight
<1> SUFFICES ASSUME Inv, [Next]_vars PROVE StepRight
  OBVIOUS
<1>0. None \notin Slots
  BY DEF None, Slots
<1> USE <1>0 DEF InUser, Resumes, InCheck
<1>1. ASSUME UNCHANGED <<state, pending>> PROVE StepRight
  BY <1>1 DEF StepRight, ResumedRightly, TakenWithProcess
<1>2. ASSUME NEW s \in Slots, kern = s PROVE state[s] = "RUNNABLE"
  BY <1>2 DEF Inv, KernRuns
<1>3. ASSUME NEW s \in Slots, Fork(s) PROVE StepRight
  <2>1. Lowest(Free) \in Free
    BY <1>3, LowestIn DEF Fork, Free
  <2> QED BY <1>3, <2>1 DEF Fork, Free, Inv, TypeOK, StepRight, ResumedRightly, TakenWithProcess
<1>4. ASSUME NEW s \in Slots, Exit(s) \/ Fault(s) PROVE StepRight
  BY <1>4, CleanupRight DEF Exit, Fault
<1>5. ASSUME NEW s \in Slots, Reap(s) PROVE StepRight
  <2>1. Lowest(Zombies(s)) \in Zombies(s)
    BY <1>5, LowestIn DEF Reap, Zombies, Children
  <2> QED BY <1>5, <2>1 DEF Reap, Zombies, Children, Inv, TypeOK, StepRight, ResumedRightly,
          TakenWithProcess
<1>6. ASSUME NEW s \in Slots, WaitBlocks(s) \/ Sleep(s) \/ SleepEnds(s) PROVE StepRight
  BY <1>6, <1>2 DEF WaitBlocks, Sleep, SleepEnds, Inv, TypeOK, StepRight, ResumedRightly,
     TakenWithProcess
<1>7. ASSUME NEW s \in Slots, WaitReturns(s) \/ WaitResumes(s) \/ SleepResumes(s) PROVE StepRight
  BY <1>7, <1>1 DEF WaitReturns, WaitResumes, SleepResumes
<1>8. ASSUME NEW s \in Slots, ForkFails(s) PROVE StepRight
  BY <1>8, <1>1 DEF ForkFails
<1>9. ASSUME NEW s \in Slots, NEW w, SysWaitpid(s, w) PROVE StepRight
  BY <1>9, <1>1 DEF SysWaitpid
<1>10. ASSUME NEW s \in Slots, NEW S \in SUBSET Slots, NEW sig, Kill(s, S, sig) PROVE StepRight
  BY <1>10, SignalRight DEF Kill
<1>11. ASSUME NEW g \in Pids, NEW sig \in Sigs, ConsoleSignal(g, sig) PROVE StepRight
  <2>1. Members(g) \subseteq Slots
    BY DEF Members, Live
  <2> QED BY <1>11, <2>1, SignalRight DEF ConsoleSignal
<1>12. ASSUME NEW s \in Slots, NEW t \in Slots, NEW g, Setpgid(s, t, g) PROVE StepRight
  BY <1>12, <1>1 DEF Setpgid
<1>13. ASSUME NEW s \in Slots, CheckNothing(s) PROVE StepRight
  BY <1>13, SigLists DEF CheckNothing, Inv, TypeOK, StepRight, ResumedRightly, TakenWithProcess
<1>14. ASSUME NEW s \in Slots, CheckKill(s) \/ CheckTerm(s) PROVE StepRight
  BY <1>14, <1>2, CleanupRight DEF CheckKill, CheckTerm, TermAction
<1>15. ASSUME NEW s \in Slots, CheckStop(s) PROVE StepRight
  <2>1. FirstOf(stop_sigs, pending[s]) \in StopSigs
    BY <1>15, FirstStop DEF CheckStop
  <2>2. StopSigs \cap TermSigs = {}
    BY SigLists
  <2> QED BY <1>15, <1>2, <2>1, <2>2 DEF CheckStop, Woken, Inv, TypeOK, StepRight, ResumedRightly,
          TakenWithProcess
<1>16. ASSUME NEW s \in Slots, StopResumes(s) PROVE StepRight
  <2>1. CASE "KILL" \in pending[s]
    BY <1>16, <2>1, CleanupRight DEF StopResumes
  <2>2. CASE "KILL" \notin pending[s]
    BY <1>16, <2>2, SigLists DEF StopResumes, Inv, TypeOK, StepRight, ResumedRightly, TakenWithProcess
  <2> QED BY <2>1, <2>2
<1>17. CASE UNCHANGED vars
  BY <1>17, <1>1 DEF vars, slotVars
<1>18. ASSUME NEW s \in Slots, Kernel(s) PROVE StepRight
  BY <1>18, <1>5, <1>6, <1>7, <1>13, <1>14, <1>15, <1>16 DEF Kernel
<1>19. ASSUME NEW s \in Slots, InitMain(s) PROVE StepRight
  BY <1>19, <1>3, <1>8, <1>9 DEF InitMain
<1>20. ASSUME NEW s \in Slots, Program(s) PROVE StepRight
  <2>1. ASSUME NEW t \in Slots, NEW sig \in Sigs, KillProcess(s, t, sig) PROVE StepRight
    BY <2>1, <1>10 DEF KillProcess
  <2>2. ASSUME NEW g \in Pids, NEW sig \in Sigs, KillGroup(s, g, sig) PROVE StepRight
    <3>1. Members(g) \subseteq Slots
      BY DEF Members, Live
    <3> QED BY <2>2, <3>1, <1>10 DEF KillGroup
  <2> QED BY <1>20, <2>1, <2>2, <1>3, <1>4, <1>6, <1>8, <1>9, <1>12 DEF Program
<1> QED
  BY <1>6, <1>11, <1>17, <1>18, <1>19, <1>20 DEF Next

\* No wakeup of a channel, no timeout and no signal but SIGCONT and SIGKILL makes a
\* STOPPED process runnable (proc_wakeup, proc_signal, proc_signal_pgrp).
THEOREM StoppedStays == Spec => StopsUntilContinued
<1>1. Inv /\ [Next]_vars =>
        [\A s \in Slots : state[s] = "STOPPED" /\ state'[s] # "STOPPED"
                            => pending'[s] \cap {"CONT", "KILL"} # {}]_vars
  BY AllStepsRight DEF StepRight, ResumedRightly
<1> QED BY <1>1, Invariance, PTL DEF Spec, StopsUntilContinued

\* proc_check_signals clears a terminating signal only when it ends the process.
THEOREM SignalsAreActed == Spec => SignalsActed
<1>1. Inv /\ [Next]_vars =>
        [\A s \in Slots, sig \in TermSigs :
           sig \in pending[s] /\ sig \notin pending'[s] => state'[s] # state[s]]_vars
  BY AllStepsRight DEF StepRight, TakenWithProcess
<1> QED BY <1>1, Invariance, PTL DEF Spec, SignalsActed
=============================================================================
