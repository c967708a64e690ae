------------------------------ MODULE ProcLife ------------------------------
(***************************************************************************)
(* The life of a process: fork, exit, wait and waitpid, signals, stopping  *)
(* and continuing, process groups (kernel/proc.c, the process calls of     *)
(* kernel/syscall.c, the end of the trap in kernel/exception.c).           *)
(*                                                                         *)
(* A system call runs with interrupts masked from the trap to the next     *)
(* context switch, so the process that is inside one (kern) excludes all   *)
(* others; which RUNNABLE process runs next is left open, and RUNNABLE     *)
(* stands for RUNNING too (Sched has the scheduler).  EMBRYO is never seen *)
(* by anybody.  The memory and the files of a process are not here.        *)
(*                                                                         *)
(* A signal is named, not numbered.  proc_cleanup(-1) leaves the status    *)
(* that a death by signal 1 leaves, so it is written "HUP".                *)
(*                                                                         *)
(* A field that nobody reads before it is written again has a fixed value  *)
(* here: all of a free slot's, exit_status unless ZOMBIE, stop_signal      *)
(* unless STOPPED, the arguments of waitpid outside waitpid.               *)
(***************************************************************************)
EXTENDS Naturals, Sequences, FiniteSets

CONSTANTS
  NPROC,       \* slots of the process table
  MaxPid,      \* bound: pids handed out
  Sigs,        \* the signals that processes send
  Wants,       \* the arguments that waitpid is called with
  Groups,      \* the groups that setpgid is called with
  MaxSignals   \* bound: signals sent in a behaviour

Slots == 1 .. NPROC
None  == 0

stop_sigs == <<"STOP", "TSTP", "TTIN", "TTOU">>
term_sigs == <<"TERM", "INT", "HUP", "QUIT", "PIPE", "ALRM", "USR1", "USR2">>

Elems(seq) == {seq[i] : i \in DOMAIN seq}

\* The signals that proc_check_signals takes off the pending set; it leaves the
\* others (CHLD, SEGV, ...) there for good.
StopSigs == Elems(stop_sigs)
TermSigs == Elems(term_sigs)

Pids == 0 .. MaxPid

\* waitpid's pid (0 stands for pid <= 0, "any child") and its two options.
Waits == [pid : Pids, nohang : BOOLEAN, untraced : BOOLEAN]
AnyChild == [pid |-> 0, nohang |-> FALSE, untraced |-> FALSE]

ASSUME LifeAssumption ==
  /\ NPROC \in Nat \ {0}
  /\ MaxPid \in Nat \ {0}
  /\ MaxSignals \in Nat
  /\ Wants \subseteq Waits
  /\ Groups \subseteq Pids
  /\ "KILL" \notin StopSigs \cup TermSigs
  /\ "CONT" \notin StopSigs \cup TermSigs

VARIABLES
  state,      \* p->state
  pid,        \* p->pid
  pgid,       \* p->pgid
  parent,     \* p->parent: a slot, None for 0
  pending,    \* p->pending
  exit,       \* p->exit_status
  stopsig,    \* p->stop_signal
  pc,         \* where the process is: see PCs
  want,       \* the arguments of its waitpid
  nextpid,    \* the global nextpid
  kern,       \* the slot inside a system call, None if the CPU is in user mode
  sent,       \* signals sent so far
  forker      \* history: the pid of the process whose fork returned this one

slotVars == <<state, pid, pgid, parent, pending, exit, stopsig, pc, want>>
vars == <<slotVars, nextpid, kern, sent, forker>>

States == {"UNUSED", "RUNNABLE", "SLEEPING", "STOPPED", "ZOMBIE"}

\* user: in user mode; scan: in sys_wait, sys_waitpid before its scan; wait: in
\* its proc_wait; sleep: in another interruptible wait; check: in
\* proc_check_signals after a call; stop: switched out in there.
PCs == {"user", "scan", "wait", "sleep", "check", "stop"}

Statuses == {"ok", "KILL", "HUP"} \cup TermSigs

TypeOK ==
  /\ state \in [Slots -> States]
  /\ pid \in [Slots -> Pids]
  /\ pgid \in [Slots -> Pids]
  /\ parent \in [Slots -> Slots \cup {None}]
  /\ pending \in [Slots -> SUBSET (Sigs \cup {"KILL"})]
  /\ exit \in [Slots -> Statuses]
  /\ stopsig \in [Slots -> StopSigs \cup {"none"}]
  /\ pc \in [Slots -> PCs]
  /\ want \in [Slots -> Waits]
  /\ nextpid \in 1 .. MaxPid + 1
  /\ kern \in Slots \cup {None}
  /\ sent \in 0 .. MaxSignals
  /\ forker \in [Slots -> Pids]

\* After init.c: slot 1 holds init, made by proc_create_user, without a parent.
Init ==
  /\ state = [s \in Slots |-> IF s = 1 THEN "RUNNABLE" ELSE "UNUSED"]
  /\ pid = [s \in Slots |-> IF s = 1 THEN 1 ELSE 0]
  /\ pgid = [s \in Slots |-> IF s = 1 THEN 1 ELSE 0]
  /\ parent = [s \in Slots |-> None]
  /\ pending = [s \in Slots |-> {}]
  /\ exit = [s \in Slots |-> "ok"]
  /\ stopsig = [s \in Slots |-> "none"]
  /\ pc = [s \in Slots |-> "user"]
  /\ want = [s \in Slots |-> AnyChild]
  /\ nextpid = 2
  /\ kern = None
  /\ sent = 0
  /\ forker = [s \in Slots |-> 0]

-----------------------------------------------------------------------------
(* Running *)

\* The process in slot s executes in user mode and makes a system call.
InUser(s) == kern = None /\ state[s] = "RUNNABLE" /\ pc[s] = "user"

\* The scheduler resumes slot s inside the kernel, at the place where it waited.
Resumes(s, at) == kern = None /\ state[s] = "RUNNABLE" /\ pc[s] = at

\* The system call returns to the trap handler: proc_check_signals is next.
Returns(s) ==
  /\ kern' = s
  /\ pc' = [pc EXCEPT ![s] = "check"]
  /\ want' = [want EXCEPT ![s] = AnyChild]

\* proc_wakeup(p): slot p itself is the channel of its own proc_wait.
\* (mutant: exit forgets to wake the parent)
NoWakeup(st, p) == st
Woken(st, p) ==
  [q \in Slots |-> IF q = p /\ st[q] = "SLEEPING" /\ pc[q] = "wait" THEN "RUNNABLE" ELSE st[q]]

\* Slot s is free.
Freed(s) ==
  /\ pid' = [pid EXCEPT ![s] = 0]
  /\ pgid' = [pgid EXCEPT ![s] = 0]
  /\ parent' = [parent EXCEPT ![s] = None]
  /\ forker' = [forker EXCEPT ![s] = 0]
  /\ exit' = [exit EXCEPT ![s] = "ok"]

\* proc_cleanup, with left the signals that are still pending: the slot becomes
\* a ZOMBIE and its parent slot is woken, or, if it has no parent, it is free.
Cleanup(s, status, left) ==
  /\ \/ /\ parent[s] # None
        /\ state' = Woken([state EXCEPT ![s] = "ZOMBIE"], parent[s])
        /\ exit' = [exit EXCEPT ![s] = status]
        /\ pending' = [pending EXCEPT ![s] = left]
        /\ UNCHANGED <<pid, pgid, parent, forker>>
     \/ /\ parent[s] = None
        /\ state' = [state EXCEPT ![s] = "UNUSED"]
        /\ pending' = [pending EXCEPT ![s] = {}]
        /\ Freed(s)
  /\ pc' = [pc EXCEPT ![s] = "user"]
  /\ kern' = None

-----------------------------------------------------------------------------
(* fork and exit *)

Free == {s \in Slots : state[s] = "UNUSED"}
Lowest(S) == CHOOSE s \in S : \A t \in S : s <= t

\* sys_fork with proc_alloc: the first free slot, a new pid, the caller's group.
Fork(s) ==
  /\ InUser(s)
  /\ Free # {}
  /\ nextpid <= MaxPid
  /\ LET c == Lowest(Free) IN
     /\ state' = [state EXCEPT ![c] = "RUNNABLE"]
     /\ pid' = [pid EXCEPT ![c] = nextpid]
     /\ pgid' = [pgid EXCEPT ![c] = pgid[s]]
     /\ parent' = [parent EXCEPT ![c] = s]
     /\ pending' = [pending EXCEPT ![c] = {}]
     /\ pc' = [pc EXCEPT ![c] = "user", ![s] = "check"]
     /\ forker' = [forker EXCEPT ![c] = pid[s]]
  /\ nextpid' = nextpid + 1
  /\ kern' = s
  /\ UNCHANGED <<exit, stopsig, want, sent>>

\* -ENOMEM: no memory for the page table or no free slot; or no memory for the
\* kernel stack, when proc_alloc has used up a pid.
ForkFails(s) ==
  /\ InUser(s)
  /\ \/ UNCHANGED nextpid
     \/ Free # {} /\ nextpid <= MaxPid /\ nextpid' = nextpid + 1
  /\ Returns(s)
  /\ UNCHANGED <<state, pid, pgid, parent, pending, exit, stopsig, sent, forker>>

Exit(s) ==
  /\ InUser(s)
  /\ Cleanup(s, "ok", pending[s])
  /\ UNCHANGED <<stopsig, want, nextpid, sent>>

\* A fault in user mode: SIGKILL becomes pending and proc_cleanup(-1) follows,
\* without proc_check_signals.
Fault(s) ==
  /\ InUser(s)
  /\ Cleanup(s, "HUP", pending[s] \cup {"KILL"})
  /\ UNCHANGED <<stopsig, want, nextpid, sent>>

-----------------------------------------------------------------------------
(* wait and waitpid *)

SysWaitpid(s, w) ==
  /\ InUser(s)
  /\ want' = [want EXCEPT ![s] = w]
  /\ pc' = [pc EXCEPT ![s] = "scan"]
  /\ kern' = s
  /\ UNCHANGED <<state, pid, pgid, parent, pending, exit, stopsig, nextpid, sent, forker>>

Children(s) ==
  {c \in Slots : state[c] # "UNUSED" /\ parent[c] = s /\ want[s].pid \in {0, pid[c]}}
Zombies(s) == {c \in Children(s) : state[c] = "ZOMBIE"}
Stopped(s) == {c \in Children(s) : want[s].untraced /\ state[c] = "STOPPED"}

\* The scan finds a ZOMBIE: encode_wait_status frees its slot.
Reap(s) ==
  /\ kern = s /\ pc[s] = "scan"
  /\ Zombies(s) # {}
  /\ LET c == Lowest(Zombies(s)) IN
     /\ state' = [state EXCEPT ![c] = "UNUSED"]
     /\ pending' = [pending EXCEPT ![c] = {}]
     /\ Freed(c)
  /\ Returns(s)
  /\ UNCHANGED <<stopsig, nextpid, sent>>

\* No child (-ESRCH), a stopped child (its status), or WNOHANG (0).
WaitReturns(s) ==
  /\ kern = s /\ pc[s] = "scan"
  /\ Zombies(s) = {}
  /\ Children(s) = {} \/ Stopped(s) # {} \/ want[s].nohang
  /\ Returns(s)
  /\ UNCHANGED <<state, pid, pgid, parent, pending, exit, stopsig, nextpid, sent, forker>>

\* proc_wait: -EINTR if a signal is pending, else sleep.
\* (mutant: the test of pending before sleeping is dropped)
Undisturbed(s) == {}
Interrupts(s) == pending[s]

WaitBlocks(s) ==
  /\ kern = s /\ pc[s] = "scan"
  /\ Zombies(s) = {} /\ Children(s) # {} /\ Stopped(s) = {} /\ ~want[s].nohang
  /\ \/ /\ Interrupts(s) # {}
        /\ Returns(s)
        /\ UNCHANGED state
     \/ /\ Interrupts(s) = {}
        /\ state' = [state EXCEPT ![s] = "SLEEPING"]
        /\ pc' = [pc EXCEPT ![s] = "wait"]
        /\ kern' = None
        /\ UNCHANGED want
  /\ UNCHANGED <<pid, pgid, parent, pending, exit, stopsig, nextpid, sent, forker>>

\* Woken in proc_wait: -EINTR if a signal is pending, else scan again.
WaitResumes(s) ==
  /\ Resumes(s, "wait")
  /\ \/ /\ pending[s] # {}
        /\ Returns(s)
     \/ /\ pending[s] = {}
        /\ kern' = s
        /\ pc' = [pc EXCEPT ![s] = "scan"]
        /\ UNCHANGED want
  /\ UNCHANGED <<state, pid, pgid, parent, pending, exit, stopsig, nextpid, sent, forker>>

-----------------------------------------------------------------------------
(* The other interruptible waits: sleep, pipes, the console *)

Sleep(s) ==
  /\ InUser(s)
  /\ \/ /\ Interrupts(s) # {}
        /\ Returns(s)
        /\ UNCHANGED state
     \/ /\ Interrupts(s) = {}
        /\ state' = [state EXCEPT ![s] = "SLEEPING"]
        /\ pc' = [pc EXCEPT ![s] = "sleep"]
        /\ UNCHANGED <<kern, want>>
  /\ UNCHANGED <<pid, pgid, parent, pending, exit, stopsig, nextpid, sent, forker>>

\* What it waits for happens: its timeout, data, room.
SleepEnds(s) ==
  /\ kern = None
  /\ state[s] = "SLEEPING" /\ pc[s] = "sleep"
  /\ state' = [state EXCEPT ![s] = "RUNNABLE"]
  /\ UNCHANGED <<pid, pgid, parent, pending, exit, stopsig, pc, want, nextpid, kern, sent, forker>>

SleepResumes(s) ==
  /\ Resumes(s, "sleep")
  /\ Returns(s)
  /\ UNCHANGED <<state, pid, pgid, parent, pending, exit, stopsig, nextpid, sent, forker>>

-----------------------------------------------------------------------------
(* Signals *)

\* What proc_signal and proc_signal_pgrp do to one process.
\* (mutants: a signal does not wake a sleeper; any signal resumes a stopped one)
SignalledAny(s, sig) == IF state[s] \in {"STOPPED", "SLEEPING"} THEN "RUNNABLE" ELSE state[s]
SignalledOnlyStopped(s, sig) ==
  IF sig \in {"CONT", "KILL"} /\ state[s] = "STOPPED" THEN "RUNNABLE" ELSE state[s]
Signalled(s, sig) ==
  IF \/ sig \in {"CONT", "KILL"} /\ state[s] = "STOPPED"
     \/ state[s] = "SLEEPING"
  THEN "RUNNABLE" ELSE state[s]

\* stop_signal is read only while the process is STOPPED, and set before that.
Signal(S, sig) ==
  /\ pending' = [s \in Slots |-> IF s \in S THEN pending[s] \cup {sig} ELSE pending[s]]
  /\ state' = [s \in Slots |-> IF s \in S THEN Signalled(s, sig) ELSE state[s]]
  /\ stopsig' = [s \in Slots |-> IF state'[s] = "STOPPED" THEN stopsig[s] ELSE "none"]
  /\ sent' = sent + 1

Live == {s \in Slots : state[s] # "UNUSED"}
Members(g) == {t \in Live : pgid[t] = g}

\* sys_kill: a pid > 0 is a process, a pid < -1 a group (kill(-1) is refused, so
\* that group 1 cannot be named).
Kill(s, S, sig) ==
  /\ InUser(s)
  /\ sent < MaxSignals
  /\ Signal(S, sig)
  /\ Returns(s)
  /\ UNCHANGED <<pid, pgid, parent, exit, nextpid, forker>>

KillProcess(s, t, sig) == t \in Live /\ Kill(s, {t}, sig)
KillGroup(s, g, sig) == g # 1 /\ Members(g) # {} /\ Kill(s, Members(g), sig)

\* uart_irq_handler: Ctrl-C and Ctrl-Z signal the foreground group.
ConsoleSignal(g, sig) ==
  /\ kern = None
  /\ sent < MaxSignals
  /\ sig \in {"INT", "TSTP"} \cap Sigs
  /\ Members(g) # {}
  /\ Signal(Members(g), sig)
  /\ UNCHANGED <<pid, pgid, parent, exit, pc, want, nextpid, kern, forker>>

\* sys_setpgid: any live process, any positive group; 0 is the process's own pid.
Setpgid(s, t, g) ==
  /\ InUser(s)
  /\ state[t] # "UNUSED"
  /\ pgid' = [pgid EXCEPT ![t] = IF g = 0 THEN pid[t] ELSE g]
  /\ Returns(s)
  /\ UNCHANGED <<state, pid, parent, pending, exit, stopsig, nextpid, sent, forker>>

\* The first signal of a list that is pending.
\* (mutant: any signal that is pending)
AnyOf(list, S) == CHOOSE sig \in S : TRUE
FirstOf(list, S) ==
  list[CHOOSE i \in DOMAIN list : list[i] \in S /\ \A j \in DOMAIN list : list[j] \in S => i <= j]

InCheck(s) == kern = s /\ pc[s] = "check"

\* proc_check_signals finds nothing to act on.  A pending SIGCONT goes away.
CheckNothing(s) ==
  /\ InCheck(s)
  /\ pending[s] \cap ({"KILL"} \cup StopSigs \cup TermSigs) = {}
  /\ pending' = [pending EXCEPT ![s] = @ \ {"CONT"}]
  /\ pc' = [pc EXCEPT ![s] = "user"]
  /\ kern' = None
  /\ UNCHANGED <<state, pid, pgid, parent, exit, stopsig, want, nextpid, sent, forker>>

CheckKill(s) ==
  /\ InCheck(s)
  /\ "KILL" \in pending[s]
  /\ Cleanup(s, "KILL", pending[s] \ {"KILL"})
  /\ UNCHANGED <<stopsig, want, nextpid, sent>>

\* The first pending stop signal; the parent slot is told.
CheckStop(s) ==
  /\ InCheck(s)
  /\ "KILL" \notin pending[s]
  /\ pending[s] \cap StopSigs # {}
  /\ LET sig == FirstOf(stop_sigs, pending[s]) IN
     /\ pending' = [pending EXCEPT ![s] = @ \ {sig}]
     /\ stopsig' = [stopsig EXCEPT ![s] = sig]
  /\ state' = Woken([state EXCEPT ![s] = "STOPPED"], parent[s])
  /\ pc' = [pc EXCEPT ![s] = "stop"]
  /\ kern' = None
  /\ UNCHANGED <<pid, pgid, parent, exit, want, nextpid, sent, forker>>

\* A terminating signal, when nothing stops the process.
\* (mutant: the signal is taken off the set and the process goes on)
TermIgnored(s, sig, left) ==
  /\ pending' = [pending EXCEPT ![s] = left]
  /\ pc' = [pc EXCEPT ![s] = "user"]
  /\ kern' = None
  /\ UNCHANGED <<state, pid, pgid, parent, exit, forker>>
TermAction(s, sig, left) == Cleanup(s, sig, left)

CheckTerm(s) ==
  /\ InCheck(s)
  /\ pending[s] \cap ({"KILL"} \cup StopSigs) = {}
  /\ pending[s] \cap TermSigs # {}
  /\ LET sig == FirstOf(term_sigs, pending[s]) IN
     TermAction(s, sig, pending[s] \ {sig, "CONT"})
  /\ UNCHANGED <<stopsig, want, nextpid, sent>>

\* Resumed in proc_check_signals: SIGCONT goes, and the trap handler kills the
\* process with -1 if SIGKILL is pending.
StopResumes(s) ==
  /\ Resumes(s, "stop")
  /\ \/ /\ "KILL" \in pending[s]
        /\ Cleanup(s, "HUP", pending[s] \ {"CONT"})
     \/ /\ "KILL" \notin pending[s]
        /\ pending' = [pending EXCEPT ![s] = @ \ {"CONT"}]
        /\ pc' = [pc EXCEPT ![s] = "user"]
        /\ UNCHANGED <<state, pid, pgid, parent, exit, kern, forker>>
  /\ UNCHANGED <<stopsig, want, nextpid, sent>>

-----------------------------------------------------------------------------
Kernel(s) ==
  \/ Reap(s) \/ WaitReturns(s) \/ WaitBlocks(s) \/ WaitResumes(s) \/ SleepResumes(s)
  \/ CheckNothing(s) \/ CheckKill(s) \/ CheckStop(s) \/ CheckTerm(s) \/ StopResumes(s)

\* init forks its first children and waits, for ever (cmd/init/init.c).
InitMain(s) == pid[s] = 1 /\ (Fork(s) \/ ForkFails(s) \/ SysWaitpid(s, AnyChild))

\* Any other program.
Program(s) ==
  \/ Fork(s) \/ ForkFails(s) \/ Exit(s) \/ Fault(s) \/ Sleep(s)
  \/ \E w \in Wants : SysWaitpid(s, w)
  \/ \E t \in Slots, sig \in Sigs : KillProcess(s, t, sig)
  \/ \E g \in Pids, sig \in Sigs : KillGroup(s, g, sig)
  \/ \E t \in Slots, g \in Groups : Setpgid(s, t, g)

Next ==
  \/ \E s \in Slots : Kernel(s) \/ SleepEnds(s)
  \/ \E s \in Slots : InitMain(s) \/ (pid[s] # 1 /\ Program(s))
  \/ \E g \in Pids \ {0}, sig \in Sigs : ConsoleSignal(g, sig)

\* A process that is RUNNABLE inside the kernel is scheduled and goes on (Sched
\* shows that RUNNABLE leads to running).  What a process does in user mode, and
\* when a sleep ends, is up to the world.
Fairness == \A s \in Slots : SF_vars(Kernel(s))

Spec == Init /\ [][Next]_vars

FairSpec == Spec /\ Fairness

-----------------------------------------------------------------------------
(* Properties *)

\* No child is missed: a process asleep in wait or waitpid has no child left that
\* its scan would report; the exit or the stop of a child cannot fall between the
\* scan and the sleep.
NoMissedChild ==
  \A s \in Slots : state[s] = "SLEEPING" /\ pc[s] = "wait" =>
    Zombies(s) = {} /\ Stopped(s) = {} /\ pending[s] = {}

\* A stopped process stays stopped until SIGCONT or SIGKILL: no wakeup of a
\* channel, no other signal and no timeout resumes it.
StopsUntilContinued ==
  [][\A s \in Slots : state[s] = "STOPPED" /\ state'[s] # "STOPPED"
                        => pending'[s] \cap {"CONT", "KILL"} # {}]_vars

\* A terminating signal leaves the pending set only together with its process.
SignalsActed ==
  [][\A s \in Slots, sig \in TermSigs :
       sig \in pending[s] /\ sig \notin pending'[s] => state'[s] # state[s]]_vars

\* kill -9 reaches a process wherever it blocks in the kernel: asleep, in wait,
\* or stopped.
KillReachesBlocked ==
  \A s \in Slots : ("KILL" \in pending[s] /\ pc[s] \in {"sleep", "wait", "stop"})
                     ~> (state[s] \in {"ZOMBIE", "UNUSED"})

\* wait and waitpid reap the caller's own children, those that its fork returned:
\* the slot that p->parent points to still holds the process that forked p.
OwnChildrenOnly ==
  \A s \in Slots : kern = s /\ pc[s] = "scan" =>
    \A c \in Zombies(s) : forker[c] = pid[s]
=============================================================================
