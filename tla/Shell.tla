------------------------------- MODULE Shell -------------------------------
(***************************************************************************)
(* cmd/shell/shell.c: the parser of command lines, runcmd, and the jobs,   *)
(* with the shell's children running beside it.  A line is a sequence of   *)
(* tokens: "<", ">", ">>", "|", "&" and words.                             *)
(*                                                                         *)
(* waitpid, setpgid, kill and tcsetpgrp are those of kernel/syscall.c, one *)
(* step each where another process can come between.  The children are     *)
(* external.  fork succeeds, files that have a name can be opened, and no  *)
(* signal is sent to the shell itself.                                     *)
(***************************************************************************)
EXTENDS Integers, Sequences, FiniteSetsExt, SequencesExt

CONSTANTS
  MAXARGS, MAXCMDS, MAXJOBS,
  Lines,    \* the command lines that are entered
  Bin,      \* names that exist in /bin
  MaxProcs  \* bound: how many children are made

VARIABLES
  pc,       \* "prompt", "read", "forked", "wait", "fgwait" or "gone"
  jobs,     \* the table: [jid, pgid, state, status]
  next_jid, last_exit_status,
  child,    \* the child in the foreground, or just forked; 0: none
  bg,       \* background
  procs,    \* the children by pid: "run", "stop", "zombie" or "reaped", their group, how they ended
  fg_pgid,  \* the foreground group of the console; 0 is the shell's
  lost,     \* children add_job had no room for
  ran       \* the line just entered, and what is made of it

vars == <<pc, jobs, next_jid, last_exit_status, child, bg, procs, fg_pgid, lost, ran>>

NoJob == [jid |-> 0, pgid |-> 0, state |-> "free", status |-> 0]
NoRun == [line |-> <<>>, kind |-> "none", progs |-> <<>>]

Init ==
  /\ pc = "prompt"
  /\ jobs = [i \in 1 .. MAXJOBS |-> NoJob]
  /\ next_jid = 1 /\ last_exit_status = 0
  /\ child = 0 /\ bg = FALSE
  /\ procs = <<>>
  /\ fg_pgid = 0 /\ lost = {}
  /\ ran = NoRun

-----------------------------------------------------------------------------
(* parsecmd, parsepipe, parseexec, parseredirs and gettoken, token by token.  A command
   is a tree of exec, redir and pipe nodes; err stands for a null pointer. *)

Redirections == {"<", ">", ">>"}
Special == Redirections \cup {"|", "&"}

Exec(argv) == [type |-> "exec", argv |-> argv]
Redir(cmd, op, file) == [type |-> "redir", cmd |-> cmd, file |-> file, fd |-> IF op = "<" THEN 0 ELSE 1]
Pipe(left, right) == [type |-> "pipe", left |-> left, right |-> right]

\* redirs: those of the command being read, first to last.
Command(p) == FoldLeft(LAMBDA cmd, r : Redir(cmd, r[1], r[2]), Exec(p.argv), p.redirs)
Joined(p) == IF p.left = <<>> THEN Command(p) ELSE Pipe(p.left[1], Command(p))

AddRedir(p, file) ==
  IF p.nredir >= MAXCMDS THEN [p EXCEPT !.err = TRUE]
  ELSE [p EXCEPT !.redirs = Append(@, <<p.want, file>>), !.want = "", !.nredir = @ + 1]

\* "&" ends the command; as the name of a file it is an empty word, and then ends it.
Background(p) == [(IF p.want = "" THEN p ELSE AddRedir(p, "")) EXCEPT !.bg = TRUE]

ParseToken(p, tok) ==
  IF p.err \/ p.bg \/ (p.want # "" /\ tok \in Redirections \cup {"|"}) THEN [p EXCEPT !.err = TRUE]
  ELSE IF tok = "&" THEN Background(p)
  ELSE IF tok \in Redirections THEN [p EXCEPT !.want = tok]
  ELSE IF tok = "|"
       THEN IF p.nexec >= MAXCMDS THEN [p EXCEPT !.err = TRUE]
            ELSE [p EXCEPT !.left = <<Joined(p)>>, !.argv = <<>>, !.redirs = <<>>, !.nexec = @ + 1]
  ELSE IF p.want # "" THEN AddRedir(p, tok)
  ELSE IF Len(p.argv) >= MAXARGS - 1 THEN [p EXCEPT !.err = TRUE]
  ELSE [p EXCEPT !.argv = Append(@, tok)]

parsecmd(line) ==
  LET p == FoldLeft(ParseToken, [left |-> <<>>, argv |-> <<>>, redirs |-> <<>>, want |-> "",
                                 nexec |-> 1, nredir |-> 0, bg |-> FALSE, err |-> FALSE], line)
  IN  [cmd |-> Joined(p), bg |-> p.bg, err |-> p.err \/ p.want # ""]

\* expand_variables
Expand(line) == [k \in DOMAIN line |-> IF line[k] = "$?" THEN ToString(last_exit_status) ELSE line[k]]

-----------------------------------------------------------------------------
(* runcmd: the programs, left to right, each with where its descriptors 0 and 1 lead.
   A name without a slash is looked for in /bin, and else in the root. *)

Tty(k)  == <<"tty", k>>
File(f) == <<"file", f>>

\* (mutant: the reader and the writer of a pipe are swapped)
EndsSwapped(id) == [write |-> <<"pipe read", id>>, read |-> <<"pipe write", id>>]
Ends(id) == [write |-> <<"pipe write", id>>, read |-> <<"pipe read", id>>]

RECURSIVE PipeCount(_)
PipeCount(cmd) ==
  CASE cmd.type = "exec" -> 0 [] cmd.type = "redir" -> PipeCount(cmd.cmd)
    [] cmd.type = "pipe" -> 1 + PipeCount(cmd.left)

RECURSIVE runcmd(_, _)
runcmd(cmd, fds) ==
  CASE cmd.type = "exec" ->
         IF cmd.argv = <<>> THEN <<>>
         ELSE <<[argv |-> cmd.argv, dir |-> IF cmd.argv[1] \in Bin THEN "/bin/" ELSE "/", fds |-> fds]>>
    [] cmd.type = "redir" ->
         \* a file that cannot be opened ends the command
         IF cmd.file = "" THEN <<>> ELSE runcmd(cmd.cmd, [fds EXCEPT ![cmd.fd] = File(cmd.file)])
    [] cmd.type = "pipe" ->
         LET id == PipeCount(cmd) IN
         runcmd(cmd.left, [fds EXCEPT ![1] = Ends(id).write])
           \o runcmd(cmd.right, [fds EXCEPT ![0] = Ends(id).read])

-----------------------------------------------------------------------------
(* The table of jobs *)

FreeJobs == {i \in 1 .. MAXJOBS : jobs[i].state = "free"}

\* add_job
AddJob(pid, state) ==
  IF FreeJobs = {} THEN /\ lost' = lost \cup {pid} /\ UNCHANGED <<jobs, next_jid>>
  ELSE /\ jobs' = [jobs EXCEPT ![Min(FreeJobs)] =
                     [jid |-> next_jid, pgid |-> pid, state |-> state, status |-> 0]]
       /\ next_jid' = next_jid + 1
       /\ UNCHANGED lost

\* proc_setpgid(pid, pid)
setpgid(ps, pid) == [ps EXCEPT ![pid].pgid = pid]

\* What sys_waitpid sees of a child, and what it leaves of one that has ended.
Ended(pid)   == procs[pid].state = "zombie"
Stopped(pid) == procs[pid].state = "stop"
Reap(ps, pids) == [p \in DOMAIN ps |-> IF p \in pids THEN [ps[p] EXCEPT !.state = "reaped"] ELSE ps[p]]

encode_exit_status(st) == IF st >= 0 THEN st ELSE 128 - st

\* The head of the loop of main: update_jobs and report_done_jobs, then the prompt.
Polled == {i \in 1 .. MAXJOBS : jobs[i].state \notin {"free", "done"}}

Prompt ==
  LET done == {i \in Polled : Ended(jobs[i].pgid)} IN
  /\ pc = "prompt"
  /\ jobs' = [i \in 1 .. MAXJOBS |->
                IF i \in done THEN [jobs[i] EXCEPT !.state = "free"]
                ELSE IF i \in Polled /\ Stopped(jobs[i].pgid) THEN [jobs[i] EXCEPT !.state = "stopped"]
                ELSE jobs[i]]
  /\ procs' = Reap(procs, {jobs[i].pgid : i \in done})
  /\ pc' = "read"
  /\ ran' = NoRun
  /\ UNCHANGED <<next_jid, last_exit_status, child, bg, fg_pgid, lost>>

\* fg and bg name a job with "%", or else take the last one; 0: there is none.
JobNames == {"%" \o ToString(j) : j \in 1 .. MaxProcs + 1}

FindJob(argv, stopped) ==
  LET named == Len(argv) > 1 /\ argv[2] \in JobNames
      live == {i \in 1 .. MAXJOBS :
                 IF named THEN jobs[i].state # "free" /\ "%" \o ToString(jobs[i].jid) = argv[2]
                 ELSE jobs[i].state = "stopped" \/ (~stopped /\ jobs[i].state = "running")}
  IN  IF live = {} THEN 0 ELSE CHOOSE i \in live : \A j \in live : jobs[j].jid <= jobs[i].jid

\* kill(-pgid, SIGCONT)
Continue(ps, pgid) ==
  [p \in DOMAIN ps |-> IF ps[p].pgid = pgid /\ ps[p].state = "stop" THEN [ps[p] EXCEPT !.state = "run"]
                       ELSE ps[p]]

Stay(status) ==
  /\ pc' = "prompt" /\ last_exit_status' = status
  /\ UNCHANGED <<jobs, next_jid, child, bg, procs, fg_pgid, lost>>

builtin_fg(argv) ==
  LET i == FindJob(argv, FALSE) IN
  IF i = 0 THEN Stay(1)
  ELSE /\ procs' = IF jobs[i].state = "stopped" THEN Continue(procs, jobs[i].pgid) ELSE procs
       /\ jobs' = [jobs EXCEPT ![i].state = "running"]
       /\ fg_pgid' = jobs[i].pgid /\ child' = jobs[i].pgid
       /\ pc' = "fgwait"
       /\ UNCHANGED <<next_jid, last_exit_status, bg, lost>>

builtin_bg(argv) ==
  LET i == FindJob(argv, TRUE) IN
  IF i = 0 \/ jobs[i].state # "stopped" THEN Stay(1)
  ELSE /\ procs' = Continue(procs, jobs[i].pgid)
       /\ jobs' = [jobs EXCEPT ![i].state = "running"]
       /\ pc' = "prompt" /\ last_exit_status' = 0
       /\ UNCHANGED <<next_jid, child, bg, fg_pgid, lost>>

\* A line: a syntax error, a builtin (only without redirections and pipes), or a child.
builtins == {"cd", "pwd", "exit", "jobs", "fg", "bg"}

run_builtin(argv) ==
  \/ argv = <<>> /\ Stay(0)
  \/ argv # <<>> /\ argv[1] \in {"cd", "pwd"} /\ \E status \in {0, 1} : Stay(status)
  \/ argv # <<>> /\ argv[1] = "jobs" /\ Stay(0)
  \/ argv # <<>> /\ argv[1] = "fg" /\ builtin_fg(argv)
  \/ argv # <<>> /\ argv[1] = "bg" /\ builtin_bg(argv)
  \/ /\ argv # <<>> /\ argv[1] = "exit"
     /\ pc' = "gone"
     /\ UNCHANGED <<jobs, next_jid, last_exit_status, child, bg, procs, fg_pgid, lost>>

\* fork: the child starts in the group of the shell.
Fork(background) ==
  /\ Len(procs) < MaxProcs
  /\ procs' = Append(procs, [state |-> "run", pgid |-> 0, status |-> 0])
  /\ child' = Len(procs) + 1 /\ bg' = background
  /\ pc' = "forked"
  /\ UNCHANGED <<jobs, next_jid, last_exit_status, fg_pgid, lost>>

Enter(line) ==
  LET expanded == Expand(line)
      c == parsecmd(expanded)
      builtin == c.cmd.type = "exec" /\ (c.cmd.argv = <<>> \/ c.cmd.argv[1] \in builtins)
  IN
  /\ pc = "read"
  /\ \/ /\ c.err
        /\ Stay(last_exit_status)
        /\ ran' = [line |-> expanded, kind |-> "error", progs |-> <<>>]
     \/ /\ ~c.err /\ builtin
        /\ run_builtin(c.cmd.argv)
        /\ ran' = [line |-> expanded, kind |-> "builtin", progs |-> <<>>]
     \/ /\ ~c.err /\ ~builtin
        /\ Fork(c.bg)
        /\ ran' = [line |-> expanded, kind |-> "program",
                   progs |-> runcmd(c.cmd, (0 :> Tty(0)) @@ (1 :> Tty(1)))]

\* After fork: setpgid, then the job, or the terminal for the child.
Launch ==
  /\ pc = "forked"
  /\ procs' = setpgid(procs, child)
  /\ IF bg THEN AddJob(child, "running") /\ pc' = "prompt" /\ child' = 0 /\ UNCHANGED fg_pgid
     ELSE pc' = "wait" /\ fg_pgid' = child /\ UNCHANGED <<jobs, next_jid, child, lost>>
  /\ ran' = NoRun
  /\ UNCHANGED <<last_exit_status, bg>>

\* waitpid(child, &status, WUNTRACED) returns; the terminal comes back.
WaitForeground ==
  /\ pc = "wait"
  /\ \/ /\ Stopped(child)
        /\ AddJob(child, "running")
        /\ UNCHANGED <<last_exit_status, procs>>
     \/ /\ Ended(child)
        /\ last_exit_status' = encode_exit_status(procs[child].status)
        /\ procs' = Reap(procs, {child})
        /\ UNCHANGED <<jobs, next_jid, lost>>
  /\ fg_pgid' = 0 /\ child' = 0 /\ pc' = "prompt"
  /\ UNCHANGED <<bg, ran>>

\* In builtin_fg; main then takes the 0 it returns for the status.
WaitJob ==
  LET i == CHOOSE k \in 1 .. MAXJOBS : jobs[k].state # "free" /\ jobs[k].pgid = child IN
  /\ pc = "fgwait"
  /\ \/ /\ Stopped(child)
        /\ jobs' = [jobs EXCEPT ![i].state = "stopped"]
        /\ UNCHANGED procs
     \/ /\ Ended(child)
        /\ jobs' = [jobs EXCEPT ![i].state = "free"]
        /\ procs' = Reap(procs, {child})
  /\ fg_pgid' = 0 /\ child' = 0 /\ pc' = "prompt" /\ last_exit_status' = 0
  /\ UNCHANGED <<next_jid, bg, lost, ran>>

-----------------------------------------------------------------------------
(* The children: one puts itself into its own group, unless the shell was first; ends, by
   itself or by a signal; stops on a signal, or because it reads the terminal while it is
   not in the foreground; or another process continues it. *)

ChildSteps(pid, from, to, status) ==
  /\ procs[pid].state \in from
  /\ procs' = [procs EXCEPT ![pid].state = to, ![pid].status = status]
  /\ UNCHANGED <<pc, jobs, next_jid, last_exit_status, child, bg, fg_pgid, lost, ran>>

ChildStarts(pid) ==
  /\ procs[pid].state = "run" /\ procs[pid].pgid # pid
  /\ procs' = setpgid(procs, pid)
  /\ UNCHANGED <<pc, jobs, next_jid, last_exit_status, child, bg, fg_pgid, lost, ran>>

ChildExits(pid) == procs[pid].pgid = pid /\ ChildSteps(pid, {"run"}, "zombie", 1)
ChildKilled(pid) == ChildSteps(pid, {"run", "stop"}, "zombie", -9)
ChildStops(pid) == ChildSteps(pid, {"run"}, "stop", 0)
ChildContinued(pid) == ChildSteps(pid, {"stop"}, "run", 0)

ChildNext(pid) ==
  ChildStarts(pid) \/ ChildExits(pid) \/ ChildKilled(pid) \/ ChildStops(pid) \/ ChildContinued(pid)

Next ==
  \/ Prompt
  \/ \E line \in Lines : Enter(line)
  \/ Launch \/ WaitForeground \/ WaitJob
  \/ \E pid \in DOMAIN procs : ChildNext(pid)

Spec == Init /\ [][Next]_vars

-----------------------------------------------------------------------------
(* Properties *)

\* While the shell reads a line the terminal is its own, and every child it has not waited
\* for is in the table once, running or stopped, unless the table was full; no job in the
\* table is a child that was already waited for, and job numbers are not used twice.  A job
\* is the leader of its own group whoever was first to call setpgid, so that signals to the
\* job reach it, and the terminal is with the group of the child the shell waits for.
JobsExact ==
  LET used == {i \in 1 .. MAXJOBS : jobs[i].state # "free"} IN
  /\ pc \in {"prompt", "read"} =>
       /\ fg_pgid = 0
       /\ \A pid \in DOMAIN procs :
            procs[pid].state # "reaped" <=>
              (pid \in lost \/ \E i \in used : jobs[i].pgid = pid)
  /\ \A i, j \in used : i # j => jobs[i].jid # jobs[j].jid /\ jobs[i].pgid # jobs[j].pgid
  /\ \A i \in used : procs[jobs[i].pgid].pgid = jobs[i].pgid
  /\ pc \in {"wait", "fgwait"} => fg_pgid = procs[child].pgid
  /\ pc = "read" => \A i \in used : jobs[i].state \in {"running", "stopped"}

\* The parts of a line between its pipes; the words of one, and the files it names after
\* one of ops, in order.
Parts(line) ==
  LET at == <<0>> \o SelectSeq([k \in DOMAIN line |-> k], LAMBDA k : line[k] = "|") \o <<Len(line) + 1>>
  IN  [k \in 1 .. Len(at) - 1 |-> SubSeq(line, at[k] + 1, at[k + 1] - 1)]

Names(part, at) ==
  LET which == SelectSeq([k \in DOMAIN part |-> k], LAMBDA k : k \in at) IN
  [k \in DOMAIN which |-> part[which[k]]]

Files(part, ops) == Names(part, {k \in 2 .. Len(part) : part[k - 1] \in ops})
Words(part) == Names(part, {k \in DOMAIN part : /\ part[k] \notin Special
                                                /\ k > 1 => part[k - 1] \notin Redirections})

\* A line the shell takes: every redirection names a file, "&" ends the line, and there are
\* no more words, redirections and parts than there is room for.
WellFormed(line) ==
  LET parts == Parts(line)
      redirs == {k \in DOMAIN line : line[k] \in Redirections}
  IN
  /\ \A k \in redirs : k < Len(line) /\ line[k + 1] \notin Redirections \cup {"|"}
  /\ \A k \in DOMAIN line : line[k] = "&" => k = Len(line)
  /\ Cardinality(redirs) <= MAXCMDS /\ Len(parts) <= MAXCMDS
  /\ \A k \in DOMAIN parts : Len(Words(parts[k])) < MAXARGS

\* What a line says is what is done.  A line that is not well formed is refused; one that
\* is only the words of a builtin is that; of any other every part that has a word is one
\* program, in order, with its words as arguments: it reads the file the part names first
\* after "<", or else what the part before it writes, or else the terminal, and the same for
\* what it writes.  A file without a name cannot be opened, and its part is not run.
PlumbingExact ==
  LET parts == Parts(ran.line)
      n == Len(parts)
      Source(k) == IF Files(parts[k], {"<"}) # <<>> THEN File(Files(parts[k], {"<"})[1])
                   ELSE IF k = 1 THEN Tty(0) ELSE <<"pipe read", k - 1>>
      Target(k) == IF Files(parts[k], {">", ">>"}) # <<>> THEN File(Files(parts[k], {">", ">>"})[1])
                   ELSE IF k = n THEN Tty(1) ELSE <<"pipe write", k>>
      runs == SelectSeq([k \in 1 .. n |-> k],
                        LAMBDA k : /\ Words(parts[k]) # <<>>
                                   /\ "&" \notin ToSet(Files(parts[k], Redirections)))
      builtin == /\ ToSet(ran.line) \cap (Special \ {"&"}) = {}
                 /\ Words(ran.line) # <<>> => Words(ran.line)[1] \in builtins
  IN
  ran.kind # "none" =>
    /\ ran.kind = IF ~WellFormed(ran.line) THEN "error" ELSE IF builtin THEN "builtin" ELSE "program"
    /\ ran.kind = "program" =>
         /\ Len(ran.progs) = Len(runs)
         /\ \A j \in DOMAIN runs :
              /\ ran.progs[j].argv = Words(parts[runs[j]])
              /\ ran.progs[j].fds[0] = Source(runs[j]) /\ ran.progs[j].fds[1] = Target(runs[j])
=============================================================================
