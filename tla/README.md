# Slopix in TLA+

Slopix is a small Unix-like kernel for ARM64 (QEMU virt, one CPU) with its own
libc, shell, compiler and tools.  This directory models the parts of the kernel
where order matters: the scheduler and its interrupts, the life of processes,
the page allocator, pipes, the file table, the buffer cache with the disk
driver, and names and inodes; and the sequential parts where a long sequence of
legal calls can go wrong: the blocks of files, address spaces, the library's
streams and heap, the shell, the editor, the linker and the assembler.  TLC checks
every model on a small instance; TLAPS proves the safety properties of the concurrent
parts (the scheduler, processes, the page allocator, pipes, the file table, the buffer
cache and names, rename's check against cycles included) and of the heap and the line
editor, for every size.

Line numbers and names refer to the C source; `PROJECT.json` ("map") gives for
each definition the lines it stands for.

## Inventory

The kernel runs on one CPU.  A system call and an interrupt handler run with
interrupts masked (the trap sets DAIF.I), so another process runs only where the
kernel waits (`proc_wait`, `proc_wait_nointr`, ...), or where it unmasks
(`sleep_lock`, `sleep_unlock`, the scheduler loop).  User mode is preempted by the
timer.  All of the concurrency is therefore at the waits, and all of the hazards
are about what is still true after one.

| component | state | operations | interacts by |
|---|---|---|---|
| scheduler (`proc.c`, `switch.S`, `timer.c`, `vectors.S`) | process states, channels, ticks, `current`, DAIF.I | dispatch, yield, wait, wakeup, timed wakeup | everyone's waits; interrupts |
| locks (`sync.c`, inode lock of `fs.c`) | `locked` flags | lock, unlock | wait and wakeup on the lock's address |
| processes (`proc.c`, `syscall.c`, `exception.c`) | pid, group, parent slot, pending signals, status | fork, exit, fault, wait, waitpid, kill, setpgid, signal check | parent is woken through its slot's address |
| physical memory (`pmm.c`) | sorted free list, count | alloc, contiguous alloc, free | no lock: relies on masking |
| pipes (`pipe.c`) | ring, two counters, two open flags | read, write, close | wait and wakeup on the counters |
| files (`file.c`) | file table, descriptors, reference counts | open, pipe, dup, close, fork, exit | pipe ends, inode references |
| buffer cache (`bio.c`, `disk.c`) | buffers, LRU list, `disk_busy` | read, write, release | waits for the disk; eviction |
| disk driver (`virtio.c`) | descriptors, one request, status byte | request, retry, timeout, interrupt | device, timer |
| file system (`fs.c`, paths in `syscall.c`) | inodes, bitmap, directories | create, link, unlink, rename, read, write, truncate | buffers, inode locks |
| virtual memory (`vmm.c`, `elf.c`) | page tables, break | map, copy, copyin/out, sbrk, exec | pages |
| console (`uart.c`, `console.c`) | receive ring, foreground group | read, poll, signals | interrupt |
| boot, device tree, GIC, RTC, PSCI, kprintf, string | none that changes later | initialisation | - |
| mkfs and the boot loader (`cmd/mkfs`, `boot/fs.c`) | an image; the disk | build, look up, read | the layout of `fs.c` |
| libc (`stdio_file.c`, `malloc.c`) | two buffers per stream, free list | stream calls, printf; malloc, free, realloc | system calls; sbrk |
| shell (`cmd/shell`) | line, history, job table, foreground group | edit, complete, parse, run, fg, bg | fork, waitpid, tcsetpgrp, pipes |
| assembler (`cmd/as`) | sections, symbols, literal pools, relocations | two passes, object file | its output is the linker's input |
| linker and archiver (`cmd/ld`, `cmd/ar`) | symbols, sections, addresses | collect, resolve, merge, relocate, write | its output is loaded by exec |
| editor (`cmd/ed`) | rows, cursor and scroll offsets, changes, search | keys | files |
| compiler and other commands | sequential programs | - | files |

What makes them correct: a process that can run does run, and none is lost
between a test and a sleep; locks exclude; a child's end is reported once, to its
parent; a signal is acted on; a page has one owner; a pipe is a byte stream with
an end; a reference is counted once on every path, failures included; a block has
one buffer, and what was reported written is on the disk; every name leads to an
inode in use, and every block to one file; a process finds its own memory and no
other; a stream, a heap block, a line and a row hold what was put there; a command
line runs as written; a word of code means the instruction that was asked for, and
an address the definition that was named.

The hazards in `PROJECT.json` list where each of these bites.

## Modules

| module | models | abstract from |
|---|---|---|
| `Sched` | `proc_scheduler`, context switch, timer and disk interrupts, `proc_wait*`, `proc_wakeup*`, `fs_ilock`, `sleep_lock`, DAIF.I at every step | registers are a program counter (`pc`) and how the context resumes (`preempted`, `derailed`) |
| `ProcLife` | fork to reaping, signals, stop and continue, groups | memory, files; statuses are names |
| `PageSet`, `Pmm` | the allocator with each loop as an action, and the set of pages it implements | addresses are page numbers; a page's content is its link |
| `Stream`, `Pipe` | one pipe with its descriptors, and the byte stream it implements | counters modulo a small power of two |
| `FileTable` | file table, descriptors, pipe pages and inode references on every path | offsets, content |
| `Bio` | buffer cache over driver and device | a half block's content is the set of processes whose entry in it is set |
| `Names` | inode table, path lookup, open(O_CREAT), mkdir, mknod, link, unlink, rename, cut at every lock and every write to the disk | a directory is a function from names; content |
| `DiskImage`, `FileBlocks` | mkfs and the boot loader; block maps, read, write, truncate, lseek with the bitmap, the cache and the disk | a block is as many words as it has pointers |
| `AddrSpace` | page tables, exec, fork, exit, sbrk, mmap, munmap, the checks of user pointers | a page of two words, tables of two entries |
| `Stdio`, `Malloc` | a stream in every mode, memory streams, formatted output; the heap | bytes are small numbers; sizes in units of the header |
| `LineEdit`, `Shell` | the line editor with the terminal's row; parser, plumbing, jobs, built-ins | words are names |
| `Ed` | keys of the editor over rows and screen | characters |
| `Ld` | ar, archive lookup, symbols, sections, relocation, both output formats | an object is a record; a byte knows where it came from |
| `Insn`, `Decode`, `Encode` | every encoder, the choice of one for a mnemonic, and the machine's reading of a word | a word is the set of its bits |
| `As` | both passes, macros, pools, relocations, the object file | a line is a record: its kind, its symbol, its number |

`SchedProofs`, `ProcLifeProofs`, `PmmProofs`, `PipeProofs`, `FileTableProofs`, `BioProofs`
and `NamesProofs` hold the theorems about the module each is named after, `UserProofs` those about
`Malloc` and `LineEdit`, which `UserParts` puts side by side.  `MC*` modules and `.cfg` files are the instances.  Operators marked "mutant" are plausible faults used to see
that a property can fail.

**Sched.**  `pc` names the places where an interrupt can matter: the head of a lock
loop, before and after the process marks itself SLEEPING, the trap return.
`cpu` says whether a process, the scan of `proc_scheduler`, or the code right after
`context_switch` runs.  `masked` is DAIF.I: `irq_restore` puts back what `irq_save`
found, while `sleep_lock` and `sleep_unlock` leave it clear.  A context saved by
`proc_yield` in a timer interrupt that hit the scheduler itself is `derailed`:
resuming it goes on in the scheduler on a wrong stack.  `timed` is `wakeup_tick # 0`: a
timed wait sets it and clears it when it returns, and `proc_wait_nointr` leaves it alone, so
a tick that was left over would show in a later wait (`NoStaleTick`).

**ProcLife.**  A system call is atomic up to its waits; `kern` holds the CPU while
it runs.  wait, sleep, stop are the waits.  `forker` is a history variable.  Slot 1
runs `cmd/init`, which forks and waits.  A slot that becomes UNUSED is reset here,
while the code resets it in `proc_alloc`; nothing reads it in between.

**Pmm.**  One action per loop iteration, so that the invariants speak about the
cursors (`pp`, `run_start`, `end`) in the middle of a call.  `free` and `owned` are
history variables; calls free pages they own, and also pages already on the list.

**Pipe.**  A read, or a write up to its next wait, is one action, as it is masked.
`Wrap` is the modulus of the counters, a multiple of PIPESIZE as 2^32 is of 512.

**FileTable.**  The operations of `file.c` and `pipe.c` are functions from table to
table, composed as the calls compose them.  `open` takes its inode reference before it asks
for a file, and gives it back when there is none.  `open` and the cleanup of an exiting
process are cut where they may wait for the disk.

**Bio.**  Processes read a block, or read, change their own entry, write and
release it.  The driver's request, retry, second half and timeout are steps of
the process; `Transfer` and `Answer` are the device's (external).  `lru[i]` is the buffer
at place `i` of the list behind `bcache.head`; a release moves it to place 1 (`ToFront`).  A request that
timed out is taken to be forgotten by the device; the code assumes so too
(`virtio_disk_rw` reuses descriptors, header and status byte at once).

**Names.**  A call is cut wherever another process can run: at the lock of an inode, at
`rename_lock`, and at the write of a block, since `bio_write` waits for the disk.  `fs.disk`
and `fs.dirs` are what a stop of the machine would leave; `fs.ic` is the inode table.
`proc` holds the locals of each call (`at`, `ip`, `target`: the inodes it refers to).
`fs.up` is the `..` entry of each directory, which the climb of rename follows and which a
rename may leave stale.  A path is a sequence of names, `.` and `..`; the empty one is `/`.
`spoilt` is set by the steps at which rename itself breaks the disk or its locks
(`TargetDots`, `ReplaceFails`, `RelinkRoot`, `OldSpoils`: see "Where the code falls short").
Such a step is the last of its behaviour, and the properties speak of the states before it.  `MCNames` starts from the disk of mkfs, or from one that has
`/a`, `/b` and `/a/d`.

**FileBlocks** starts from the image that `DiskImage` builds with mkfs's own
operations.  `fs.blk` and `fs.ino` are the cached state, `fs.dblk` and `fs.dino` the
disk; `Evict` drops a buffer, so a block that was changed and not written shows.  When the
double index block that `fs_itrunc_to` cut and did not write is dropped, `fs.lost` is set,
and of the bitmap nothing is asked any more.
`data` is what the program wrote.  Interference between processes is `Bio`'s and `Names`' matter:
an inode's blocks change under its lock only.

**AddrSpace.**  Each operation is a function from memory to memory and returns what it
could do; frames run out within a few calls, so that every failing path is taken.
`view` is what each process should find.  An address past the end of the tables is cut to
their bits, as `walk` does: a break or a munmap above the stack comes back at the bottom.

**Stdio.**  `text` and `pos` are the file as the program has made it, `answer` what the
last call returned and should have returned.  A write of the file is whole or fails; short
writes are not modelled.  A format is a record of its flags; its
result is compared with a definition by padding and digits.

**LineEdit.**  An arrow key is three bytes that may arrive with a pause inside, which the
editor takes for other keys.  The terminal (external) is a cursor and a row that has no end.

**Shell.**  A line is parsed by the parser's own rules and run; `ran` keeps what was
connected to what.  The child and the shell both call setpgid, in either order.  Children
run, stop, continue and end at any time; `lost` are those that did not fit in the table.
fork always gives a child, and no signal reaches the shell itself.

**Ed.**  `doc` is the document as a sequence of characters with one place in it, which
each key changes as its name says; `row` and `cur` are the editor's.  `astray` is set by the
four keys that lose the cursor; the text is held to its promise even after them.

**Ld.**  A byte of the output is `<<object, section, offset>>`, so that the property can ask
whether the byte at an address is the one that was meant.  A relocation is written as its
field, cut to the bits of the instruction, and read back as the machine does (`Computed`).

**Insn, Decode, Encode.**  An encoder is a row of a table, its base and its fields.  Fields
are joined as the code joins them, without masks.  `Decode` reads a word back by
every row that matches; the property asks for exactly one reading, the one asked for.
The bases themselves are checked only to tell the instructions apart (and system
registers against their numbers): an opcode that is wrong and free would not show.

**As.**  Pass 1 counts, pass 2 emits, and both have their own idea of a line's size;
`st.items` is what pass 2 did and where.

## Runs

| run | instance | shows |
|---|---|---|
| `sched_masked` | 3 slots, nobody renames | masking discipline, no lost wakeup, no process lost, every runnable process runs, every sleeper runs even if the disk never answers |
| `sched_rename` | 3 slots, 2 of them rename | mutual exclusion survives the windows that `sleep_lock` opens, and no tick of an earlier wait is left for a later one |
| `sched_window` | same | **violation**: the scheduler runs unmasked with `current` set |
| `proc_life` | 3 slots, 3 pids, 2 signals | no child's end is missed, stops last, signals act, SIGKILL gets through |
| `proc_orphan` | 3 slots, 4 pids | **violation**: a process reaps a child that it did not fork |
| `pmm` | 7 pages, one reserved, runs up to 3 | no page shared or lost, calls return, implements `PageSet` |
| `pipe` | 2 processes, 2 bytes of ring, counters mod 4 | nobody sleeps for nothing, ends are held, implements `Stream`, a hangup returns |
| `files` | 4 files, 2 descriptors, 2 pages, 2 processes | references, pipe ends and inode references exact on all failing paths |
| `bio` | 3 processes, 2 buffers, 3 blocks, 2 attempts | one buffer per block, one request at a time, stored stays stored, the disk comes free |
| `bio_shared` | 2 processes with entries in one block | **violation**: an update that `bio_write` reported is lost |
| `names` | 2 processes, an empty disk or one with `/a`, `/b` and `/a/d`, 5 inodes, 3 names, paths of up to four elements, `/`, `.` and `..` among them, 3 calls | up to a step that spoils the disk: no name to a freed inode, references and locks given back, no deadlock, no directory below itself without a stale `..` |
| `parts` | one sequential part at a time, see `MCParts` | files, memory, streams, heap, line, shell, editor, linker, encoder and assembler do what they promise |

The sequential parts share no state, so one run checks them all: a behaviour picks a
part (`part`) and the variables of the others stand still.  Each operation of each part is a
disjunct of `PartsNext`, so that TLC's coverage tells which of them happened.  Their properties are in their
own modules, and `MCParts` and `UserParts` only join them: `FilesExact` is `BlocksExact` and
`FileContents` of `FileBlocks`, `MemoryExact` is `FramesExact`, `OwnMemory` and
`PointersChecked` of `AddrSpace`, `ShellExact` is `JobsExact` and `PlumbingExact` of `Shell`.

Bounds. Three slots are the least in which one process can be interrupted, one can wait
and one can take what is free; a third pid lets a slot be reused. Seven pages with a hole
have runs that end at a gap, at the end and at the head. A ring of two with counters
modulo four is full, empty and wrapped. Four files and two descriptors run out one before
the other. With two buffers and three processes the cache runs out, evicts and shares.
Three calls let two renames, or a rename and an unlink, meet in one directory or cross,
and a third call come after; the one inode more than the tree has runs out. A cycle takes
a directory to move, one to move it into and one in between, hence the tree: two renames
that cross in it without the lock of rename (the mutant) make a cycle, and so do an unlink
during a rename and a rename after it, the case that `ClimbSound` excepts. The processes
are interchangeable (`Alike`). In `parts`: a file of one direct, one indirect and one
double indirect pointer with two pointers to a block has all levels within seven blocks;
the first file reaches into the last of them, writes of twelve words fill the disk in
the middle, and the lengths of the truncations cut at each level, inside the double index
too.  24 frames hold two address spaces and not three: forks and execs succeed, in the
second process too, and run out of memory at each point.  Buffers of three bytes over a
file of four are passed by chunks of one, three and five, and five calls are enough to
read, turn to writing or seek, and read again; a heap of 14 units splits, reuses and
runs out; a line of seven characters fills up; two job slots and three children fill
the table and overflow it; a screen of two by two scrolls both ways; the linker sees each
mix of strong, weak and archived definitions in each mode, and targets that are too far
for fields of eight bits; the encoder each mnemonic with values on both sides of each limit,
those that the code does not check included; the assembler each program that takes one
line from each of seven sets.
`CHECK_DEADLOCK FALSE` is set where the system may stop: all processes have exited, or a
bound (pids, signals, calls) is reached.

Fairness.  `Sched` assumes only that the CPU executes and that the timer ticks.
`ProcLife`, `Pipe` and `Bio` assume what `Sched` then shows, that a runnable process
is scheduled (strongly in `ProcLife` and `Bio`, where others may run in between again and again), and `Bio` that a
deadline passes.  Nothing is assumed of the device, of signals, or of what a
program does in user mode.  `Pmm` assumes that its loops go on.

## The three disagreements

*sched_window.*  `proc_scheduler` says why it must be masked while `current` is set
(proc.c:132-134).  `sleep_lock` calls `enable_irq` before `proc_wait_nointr`
(sync.c:28-29), so a rename that waits for another switches to the scheduler
unmasked; a timer tick before `current = 0` saves the scheduler's stack pointer in
the process.  The same window loses the wakeup of an unlock that comes first.

*proc_orphan.*  `p->parent` points to a slot.  A process that exits does not hand its
children to init, and `proc_alloc` reuses the slot: the next process in it is the
parent of the orphans for `sys_wait` and `sys_waitpid`.

*bio_shared.*  `bio_read` tests `valid` before `disk_wait`.  A second reader of a block
that is being read waits, then reads the block again into the same buffer, while
another call has found the buffer valid and changed it.

## Proofs

*Sched*, for any NPROC and any set of renamers: `TypeCorrect`, and `Exclusion` from
`LockExclusion /\ RenamingAt` (where a process can be inside and outside of a rename); and
`TicksSettled`, that no process waits for a lock with a tick of an earlier wait, from
`TickPlaces` (where in the code a process can have a tick).
Without renamers (`ASSUME Renamers = {}`, that is without the windows of `sleep_lock`,
the case in which the claim is true): `WakeupsNotLost`, `NoProcessLost` and
`SchedulerIsMasked`, from `MaskDiscipline`: code in the kernel and the scheduler it
switches to run masked, a process is preempted in user mode only, and every saved kernel
context is at the head of a loop that tests again. `ReturnsMasked` follows from the same
discipline. Without the discipline `NoLostWakeup` is not inductive: the step from the
test of a lock to the sleep would not be protected.

*Pmm*, for any number of pages, any reserved region and any length of run:
`Invariance` of `Inv`, which adds to the sorted list what each loop knows of its
cursors (`ScanInv`: the pages from `base` are free, adjacent and counted, and
`run_start` is the link before them; `CutInv`: `end` is `i` pages into the run;
`InsertInv`: all free pages up to `pp` are below `pa`).  From it `ListSorted`,
`CountIsExact`, `PagesKept` and `ListImplementsSet`, the refinement of `PageSet`: a
request is granted as an adjacent run of free pages, or refused only if there is
none.

*Pipe*, for any number of processes, any size of the ring and any modulus that is a
multiple of it: `TypeCorrect`, `SleepersAreJustified`, `EndsAreHeld` and
`PipeImplementsStream`, the refinement of `Stream`.  The invariant adds `Bounded`
(the unsigned difference of the counters is at most PIPESIZE; only then do the two
tests of `pipe.c` mean empty and full) and `Wanting` (a call that resumes still
wants a byte; else its read would look like the end of the stream).  The
refinement rests on two facts about slots: adding to a counter modulo `Wrap` leaves the
slot where addition without a wrap puts it (`PlusSlot`), and the bytes of a
write land behind the unread ones and on none of them (`WriteSlot`).

*ProcLife*, for a table of any size, any pids and signals: `TypeCorrect`, `NoChildMissed`,
and the action properties `StoppedStays` and `SignalsAreActed`.  The invariant adds
`KernRuns`: the process inside a system call is RUNNABLE, at its scan or at
`proc_check_signals`.  Without it the two action properties do not follow from a state's
types: a system call that ends would have to be told from a stopped process that resumes.

*FileTable*, for any number of files, descriptors, pages and processes: `ReferencesExact`,
`EndsExact` and `InodesHeld`, proved together.  Each function of `file.c` and `pipe.c` has a
lemma that says what it does to a table that is `Sound` (a free entry refers to nothing, an
open one to something, no two files are the same end of a pipe, ends and inode references
exact) and to the counts; an action is the composition of those.  Only the actions know the
descriptors, so `RefCounts` is argued there, with `Gone` (a process that is not there
holds nothing): the set of holders gains or loses one element where the count does.

*Bio*, for any number of processes, blocks, buffers, descriptors and attempts: `OneBuffer`
and `DriverHasOneUser` from `Holding` (who holds which buffer), `Counts` (`refcnt` is the
number of holders), `Driver`, and `Order`: of the buffers of one block only the first
on the list may be in use.  `OneBufferPerBlock` alone is not inductive, since every buffer
starts with the label of block 0 and bget takes the first that has the label, valid or not.
`UpdatesKept` needs the assumption `Apart`, that nobody reads or writes a block in which
another owns an entry; `bio_shared` shows that it fails without.  It holds for a data block
under its inode's lock; the blocks of the bitmap and of inodes are shared, and there
the finding applies.  The argument (`Copies`) follows a change from the buffer through the
request in flight to the half on the disk.

*Names*, for any number of processes, inodes and names and any mix of calls, under
`PlainPaths` (paths of names, the root among them, and none with `.` or `..`), up to the first
spoilt step: `ReferencesGivenBack`, `NamesSafe` and `NoCircularWait`.  Both limits are needed.
With `.` or `..` as the last element rename waits for itself or against the order, and
after `..` in the middle a walk stands on an inode that may have been freed and made anew,
which no lock and no count keeps; after a spoilt step the disk is what the code has made
of it.  TLC checks the same properties with `.` and `..` on the small instance.  The invariant says of the file
system that what is read of an inode is what is on the disk and that a free inode is
empty (`Disk`); of each process which locks it has, and what it relies on until it lets them go
(`Uses`, `Relies`); that a new inode is known to its maker only (`Fresh`); that
`rename_lock` is held by the rename that has passed it (`Renaming`); that references are the
processes' (`References`); and `Ledger`: the count of an inode covers its names, the `..` of
the directories in it, and the links that calls under way will use or give back
(`Claims`).  The ledger is an inequality and has one debt, `Missing`: between
`fs_dirlink` and `new_dp->nlink++` rename has a directory in the new parent that is not
counted there yet.  The debt does not reach the names: the new parent then has a directory
in it whose `..` the ledger asks for as well.  A step of a process is many
operations on the inode table; `Mid` is the invariant in the middle of a step, with what
this process holds as parameters, and each operation (`fs_iget`, `fs_iput` with the
last holder's free, lock, read, update, write of an entry) has a lemma from `Mid` to `Mid`.
`Keeps` says that nothing another process relies on has changed.  `NoCircularWait`: who
waits and holds a lock holds a directory and waits for something in it (`Waiter`), so a circle
of waiting processes would be a circle of directories.

*Names*, the check of rename: `ClimbKeepsTree` says that in a behaviour in which no rename
leaves a stale `..` (`NoneStale` always) no directory is ever below itself, and with it
`NoDeadlockWithoutStale` drops the hypothesis of `NoDeadlock`.  The hypothesis is needed:
the case it leaves out is the one under "Where the code falls short".  `NoCycle` is not
inductive, as the write of the new name is the last of many steps and what forbids it
was seen earlier, one lock at a time.  `TreeInv` keeps what was seen (`Climbs`): while a
rename climbs there is a set of directories that has the new parent and, with each of its
directories but the one just reached, every directory that one is in, and does not have the
inode that moves (`Climbed`); at the end of the climb the set is closed.  The operations of
`fs.c` other than a new name add no edge to the tree (`Shrinks`).  Three steps do: a new directory
is empty and so on no cycle (it is dropped from the set); `fs_dirlink` of link adds a
file; and the new name of a rename goes from inside the set to outside, so a cycle through it
would enter the set again by an old edge, against its being closed.  A second rename
is kept out by `rename_lock`.  `NoneStale` is used in one place, the step from a directory
to its `..` (`UpIsParent`).

*Malloc*, for a heap and requests of any size: `HeapCorrect`, that `HeapExact` holds after
any calls of malloc, calloc, realloc and free.  `HeapExact` speaks of blocks the program
has and of headers; it is not inductive, since two free blocks that overlap show only
when one is handed out and written.  `Sound` adds that all blocks, used and
free, are pairwise `Apart` and `Whole` below the break, and `Held` that a pointer of the
program is the start of a block with room for what was asked.  Each function has a lemma: `malloc` takes the
first block that fits, splits it or not, or moves the break (`Grants`: the new block is
`Apart` from all others, and nothing in those has changed); `free` puts a block in front of the list;
`realloc` copies no more than the old block has.

*LineEdit*, for any size of line and history, any builtins and directories and any bytes
typed at any pace: `LineCorrect`, that `LineShown` holds.  `LineInv` adds that the saved line and the
history are lines and that `hidx` is in the history, or the history keys would recall what
is not there.  The output of a key is a sequence of writes and moves of the cursor;
`Painted` gives the row after each of them column by column, and each key has a lemma that
composes them (`Replace` and `Substitute` write blanks over what was longer).
`LineConsts` asks that what is typed and the names of builtins and entries are sequences over one
character set with the blank and the slash in it, and that the history can keep a line.

Models changed for the proofs, without change of meaning.  `lru` of `Bio` was a sequence and
is a function from places to buffers; `PipeAlloc` of `FileTable` was a CASE with overlapping
guards, which TLC reads in order and TLA+ does not; `Matches` of `LineEdit` was a fold over
the candidates and is a set, and the keys of one read are pressed one after another
(`Press`) and not by a fold; `Heap`, `Hold` and `Line` build records and functions that were
nested EXCEPTs; `HeapExact` says of the free list that it is injective and not how many
elements it has.

Assumptions on constants (`SchedAssumption`, ...) are natural numbers, finite sets and subsets
of the obvious sets; TLC evaluates them in each run.

Only model-checked: liveness (`RunnableRuns`, `SleeperRuns`, `KillReachesBlocked`,
`Returns`, `HangupReturns`, `DiskComesFree`), because it rests on fairness.
`ClimbSound`, which says more than `ClimbKeepsTree`: in every state without a stale `..`
there is no cycle, even if there was a stale one before.  For that a directory must be
shown to have one name outside of a rename, hence that the old path of a rename still leads to
the old parent when it is looked up again, an induction over the path.
`FilesExact`, `MemoryExact`, `StreamExact`, `ShellExact`, `EditorExact`, `LinkExact` and
`AsExact` compare what a recursive definition or a fold computes (the walk of a page table
or of index blocks, the digits of a number, the tokens of a line, the sections of a
program) with a reference, an induction over data; `EncodeExact` is about the listed
operands of each mnemonic.

## Where the code falls short

Met while modelling.  Where a property would fail because of one of these, the model does
what the code does, and the property or the instance leaves out exactly that case, under
the name given here.

Kernel
- `sleep_unlock` (sync.c:36) leaves interrupts on, so a rename returns to user mode through
  the code that needs them masked (vectors.S:170): `TrapReturnMasked` is checked and proved
  for processes that do not rename.
- `fs_itrunc_to` (fs.c:466-512) clears entries of the double indirect block in its buffer and
  never writes it: once the buffer is dropped, the file has pointers to blocks that the
  bitmap has free: `lost`.
- rename writes the new name first, then looks the old one up again.  unlink does not take
  `rename_lock`: if it has removed the old name meanwhile, rename returns -ENOENT
  (syscall.c:1215-1230) with the directory under its new name and its `..` that of the old
  parent.  The climb by which a later rename sees that it does not move a directory below
  itself (syscall.c:1159) follows the stale `..` into another branch.  Example: unlink of
  `a/d` while rename moves `a/d` to `b/d`, then rename of `b` to `b/d/a`; TLC finds it
  when `NoCycle` takes the place of `ClimbSound` in `MCNames.cfg`: `Stale`.
- rename with `.` or `..` (syscall.c:1182-1187): a new path `d/.` has `d` locked and locks it
  again, a process that waits for itself and keeps `rename_lock`; `d/..` locks the parent
  after the child, against the order of everyone else: `TargetDots`.  An old path `d/.` or
  `d/..` clears that entry of the directory: `OldSpoils`.
- rename of `/` (syscall.c:1163): the climb stops at the root without comparing it, so the
  root comes to be below itself, against the comment at 1159: `RelinkRoot`.
- rename ignores what `fs_writei` returns: if the old name (1234), or that of the file it
  replaces (1195), cannot be cleared, the count goes down with the name still there; if `..`
  (1254) cannot be written, it is stale: `OldSpoils`, `ReplaceFails`, `DotDot`.
- A directory that was removed still has its `..`, and a process that walks `..` from it may
  reach an inode that is free on the disk: its `fs_iput` then writes a free inode while
  `fs_ialloc` may be handing it out (fs.c:107, 545).  Found by reading; in the model a walk
  that comes to a free inode only uses what it finds there.
- A stop of the machine inside `fs_itrunc` (fs.c:360) or inside the rename of a directory
  leaves an inode that owns free blocks, or a stale `..`; nothing repairs a disk.
- `fork` does not copy the break (syscall.c:246): the child's first sbrk fails at pages that
  are there.  A negative sbrk keeps its pages (syscall.c:418), and a failed one too.  Neither
  sbrk nor munmap compares an address with the end of user memory (syscall.c:418-444, 937-955):
  one above it is another page of the same table.
- mkfs never compares `freeblock` with the size of the disk, and `create_device` does not look
  at the number of inodes.

Library
- After a write that fails or is short, `fflush` empties or keeps the buffer without telling what was
  written (stdio_file.c:89), and a program that goes on writing then writes behind its end
  (`wbuf[BUFSIZ]`, stdio_file.c:137): `Overrun`, excepted in `StreamExact` after a failed write only.
  `realloc` to a smaller size keeps the block, and blocks
  are never joined (malloc.c).

Shell and editor
- A child may read the terminal before `tcsetpgrp` (shell.c:1119-1125) and be stopped for it; a
  stopped job that finds the table full is forgotten; the status of `fg` is overwritten by 0;
  of two `>` the first one wins.  A failed fork is not noticed: the shell then calls setpgid and
  waitpid for process -1.
- A line that fills its buffer is run without Enter, and completions are added with no regard to
  the row's end.
- The editor's cursor goes astray (`astray`) in four places.  Backspace at column 0 below a row
  that is wider than the screen takes the wrong shift (ed.c:902); ARROW_LEFT at column 0 of
  the top row of a scrolled screen makes `cy` negative (ed.c:1274), and two rows below the
  last one it reads the size of a row that is not there (ed.c:1275), which may be any number,
  or end the editor; a match at a column past the screen leaves the cursor outside (ed.c:1248).

Linker and assembler
- `write_executable` puts .rodata behind .text without the padding its address has
  (output.c:50), so it is loaded too low: `Displaced`, by exactly the padding.  The size in
  memory of .data and .bss leaves out the padding between them, and the end of .bss is not in
  memory: `DataEnd`.
- It takes its sections by the numbers of a program (output.c:42-45).  With `-T kernel` and
  without `--oformat=binary` those are other sections; there `LinkExact` asks for the addresses
  and fields and not for the bytes.  That the boot code and its tables fit in
  KERNEL_BOOT_SIZE is not checked (section.c:296).
- Pass 1 counts a mov of several words as one (parser.c:1714), a macro used before its
  definition as one instruction of 4 bytes (parser.c:621-628), a second definition of a name silently, and `.quad` of a sum
  wrongly: `Agreeing` (`NoLongMove`, `MacroFirst`, `DefinedOnce`, `NoSum`).
- A conditional branch to a label of another section has offset 0, `ldr =` in .data uses the pool
  of .text, `.quad` of an unknown name relocates against the empty name, `.word` of a name emits
  nothing, and the alignment of .bss is always 8: `Supported`.
- Writeback is dropped from byte, halfword, signed and unscaled accesses
  (parser.c:2177, 2513): `IndexDropped`.  `mov w0, #-65537` uses halves that a w register does not have
  (parser.c:1714-1735): `HeldByRegister`.  Some logical immediates are refused that
  have an encoding (encode.c:233).  The immediates of svc, hvc, movz, movk and movn are cut to 16
  bits and those of msr to 4 without a word, and shift amounts and the halves of movz are
  or-ed in unchecked: `Unchecked`.  sxtb and sxth extend to 64 bits even if a w register is
  asked for (parser.c:1940-1968), as the compiler does (codegen.c:394-405): `Widened`.
  Condition names and operands after the last one that is read are not checked.

## Plan

1. `Sched`, `ProcLife`, `Pmm`, `Pipe`, `FileTable`, `Bio`, `Names`, and the sequential parts of
   `MCParts`: done.
2. Proofs of the safety properties of the concurrent parts: done; of `ClimbSound` the form
   in which it matters for a whole behaviour.
3. Proofs about the sequential parts whose properties need no induction over data, the heap
   and the line editor: done.  What the recursive definitions of the others compute stays
   with TLC.

## Not modelled

Boot, device discovery, GIC, RTC and PSCI are straight-line register accesses.
`kprintf` and `string.c` format and copy.  Spin locks guard the console output only.
The polling wait of the driver is used before the first process exists.  The freeing of
the stacks of finished kernel processes by the scheduler is left out.  The console's
receive ring has one writer and one reader, both masked.  O_EXCL is not an action
of `Names`, nor are current directories other than the root; its inode table has room for
every inode, while `fs_iget` returns 0 when the table is full (fs.c:48-51), and reads and
writes of inodes do not fail (`fs_ilock` and `fs_iupdate` only leave the inode as it was).
What the assembler calls its text section, and the nops it pads it with (parser.c:444-457),
are left out: no size or address depends on it.

The compiler is the largest program left out: a preprocessor, a parser and a generator
of some seven thousand lines without state that outlives a line.  What makes it correct is
the meaning of C; a model that a checker can exhaust would leave that out.  `sed`, `ls`
and the other commands read, print and end; mkramfs writes an archive front to back.
