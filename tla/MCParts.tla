------------------------------ MODULE MCParts ------------------------------
(***************************************************************************)
(* The sequential parts of the system, each by itself: files on the disk   *)
(* that mkfs made, address spaces, the C library's streams and heap, the   *)
(* line editor, the shell, the text editor, the linker and the assembler.  *)
(* None of them shares state with another, so a behaviour runs one part;   *)
(* the variables of the others keep what they had at first.                *)
(***************************************************************************)
EXTENDS UserParts, Encode  \* tables of Encode are large: TLC then computes them once

VARIABLES
  part,                                               \* the part that runs
  fs, open, data,                                     \* FileBlocks
  mem, pagetable, sz, view,                           \* AddrSpace
  under, stream, text, pos, turn, answer,             \* Stdio
  pc, jobs, next_jid, last_exit_status, child, bg,    \* Shell
  procs, fg_pgid, lost, ran,
  row, cur, dirty, quit_times, saved, find, doc, mode,\* Ed
  phase, in, objects, taken, global, sections, image, \* Ld
  pass, prog, line, st, obj                           \* As

-----------------------------------------------------------------------------
(* Files: a disk of 35 blocks with every kind of entry mkfs knows, and a   *)
(* first file that reaches into its double index.                          *)
Image ==
  <<[kind |-> "file", path |-> <<3>>, words |-> [k \in 1 .. 13 |-> 6 + (k % 3)]],
    [kind |-> "dir", path |-> <<4>>],
    [kind |-> "cdev", path |-> <<4, 3>>],
    [kind |-> "file", path |-> <<4, 5>>, words |-> <<9>>],
    [kind |-> "tree", path |-> <<4, 6>>,
     tree |-> <<[kind |-> "file", name |-> 9, words |-> <<1>>],
                [kind |-> "dir", name |-> 3, tree |-> <<>>]>>]>>

Blocks  == 0 .. 34
Lens    == {1, 12}
SeekTo  == {0, -1, 9}
Cuts    == {0, 3, 7, 10}

FB == INSTANCE FileBlocks WITH
        file <- open, NDIRECT <- 1, NINDIRECT <- 2, SIZE <- 35, NINODES <- 9, IPB <- 4,
        BPB <- 16, Specs <- Image, Ignored <- {9}, Offsets <- SeekTo, MaxOps <- 4

(* Address spaces: init's program; one whose two segments load; one where  *)
(* they share a page; one with more file than there is, and one that is no *)
(* program.  There are frames for two of them, and not for three.          *)
Segment(va, filesz, memsz, offset, write) ==
  [va |-> va, filesz |-> filesz, memsz |-> memsz, offset |-> offset, write |-> write,
   exec |-> ~ write]

Executables ==
  {[init |-> TRUE, valid |-> TRUE, file |-> <<0, 5, 6, 7>>,
    segments |-> <<Segment(1, 2, 2, 1, FALSE), Segment(4, 1, 2, 3, TRUE)>>],
   [init |-> FALSE, valid |-> TRUE, file |-> <<8, 3>>,
    segments |-> <<Segment(0, 2, 2, 0, FALSE), Segment(3, 0, 1, 0, TRUE)>>],
   [init |-> FALSE, valid |-> TRUE, file |-> <<5, 6>>,
    segments |-> <<Segment(0, 2, 3, 0, FALSE), Segment(3, 0, 1, 0, TRUE)>>],
   [init |-> FALSE, valid |-> TRUE, file |-> <<5>>, segments |-> <<Segment(0, 2, 2, 0, FALSE)>>],
   [init |-> FALSE, valid |-> FALSE, file |-> <<5>>, segments |-> <<>>]}

Users   == {1, 2}
Amounts == {-1, 3}
Vas     == {1, 7}      \* a page of the program, and that of the stack

AD == INSTANCE AddrSpace WITH
        Procs <- Users, NFRAMES <- 24, LEVELS <- 3, FANOUT <- 2, PAGE <- 2, STACK_PAGES <- 1,
        Programs <- Executables, Sizes <- Amounts, MaxOps <- 4

(* Streams: buffers of 3 bytes on a file of 4, chunks that fit, end a      *)
(* line, or do not fit.                                                    *)
Plain ==
  [conv |-> "d", left |-> FALSE, zero |-> FALSE, plus |-> FALSE, space |-> FALSE, alt |-> FALSE,
   width |-> 0, prec |-> -1, length |-> 0, val |-> 0, str |-> <<"a", "b", "c">>]

Conversions ==
  {[Plain EXCEPT !.conv = c, !.val = v, !.left = l, !.zero = z, !.alt = a, !.plus = p,
                 !.width = w, !.prec = pr, !.length = IF v > 200 THEN -2 ELSE 0] :
     c \in {"d", "x", "o", "s", "p", "c", "u", "%", "q"}, v \in {0, 11, 254},
     l, z, a, p \in BOOLEAN, w \in {-4, 0, 5}, pr \in {-1, 2}}
  \cup {[Plain EXCEPT !.val = -7, !.zero = z, !.width = 4, !.space = TRUE] : z \in BOOLEAN}

Chunks == {<<1>>, <<2, 10, 3>>, <<4, 4, 4, 4, 10>>}
Counts == {1, 4}

SI == INSTANCE Stdio WITH
        file <- under, BUFSIZ <- 3, MEMSIZ <- 2, Content <- <<5, 6, 10, 7>>,
        Formats <- Conversions, MaxOps <- 5

(* The heap has room for two or three blocks (LIMIT).  The line editor:    *)
(* three directories to complete names from, and what is typed.            *)
Entry(name, dir) == [name |-> name, dir |-> dir]

Directories ==
  [d \in {<<".">>, <<"/", "b", "/">>, <<"a", "/">>} |->
     CASE d = <<".">> -> <<Entry(<<"a">>, TRUE), Entry(<<"b", "a">>, FALSE),
                           Entry(<<"b", "a", "b">>, FALSE)>>
       [] d = <<"/", "b", "/">> -> <<Entry(<<"b", "a">>, FALSE)>>
       [] OTHER -> <<Entry(<<"b">>, FALSE)>>]

Commands == <<<<"b", "g">>>>

Typed == {<<c>> : c \in {"a", "b", " ", "ENTER", "BS", "TAB", "CTRL_C"}}
         \cup {<<"ESC", "[", c>> : c \in {"A", "B", "D"}}

(* The shell: command lines with every redirection, pipelines at and past  *)
(* the limits, built-ins and the lines the parser refuses.                 *)
Lines ==
  {<<"a">>, <<"a", "&">>, <<"fg">>, <<"bg">>, <<"fg", "%1">>, <<"fg", "1">>, <<"exit">>,
   <<"cd", "$?">>, <<"a", "<", "f", ">", "g", "|", "b", "|", "a", ">>", "h">>,
   <<"a", "x", "y">>, <<"a", "x", "|">>, <<"a", ">">>, <<"a", "&", "b">>,
   <<"|", "|">>, <<">", "f", ">", "g", "a", "<", "h", "&">>,
   <<">", "f", ">", "g", "a", "<", "h", ">>", "f">>,
   <<"a", ">", "&">>, <<"a", "|", "b", "|", "b", "|", "a">>}

SH == INSTANCE Shell WITH MAXARGS <- 3, MAXCMDS <- 3, MAXJOBS <- 2, Bin <- {"a"}, MaxProcs <- 3

(* The editor: four lines, one of them empty and one longer than a row, or *)
(* no file at all, on a screen of two by two.                              *)
NewLine == "NL"
Letters == {"b"}
ED == INSTANCE Ed WITH
        file <- saved, screenrows <- 2, screencols <- 2, Chars <- Letters,
        Saved <- {<<>>, <<"a", "b", NewLine, NewLine, "b", NewLine, "a", "a", "b">>}, MaxOps <- 5

(* The linker: a program, libraries with weak and global definitions of    *)
(* the same names, and a boot image, in every mode.  The fields of the     *)
(* branches and of adrp are 8 bits wide, so that some are too far.         *)
Section(kind, size, align) == [kind |-> kind, size |-> size, align |-> align, nobits |-> kind = "bss"]
Symbol(name, bind, sec, value) == [name |-> name, bind |-> bind, sec |-> sec, value |-> value]
Rela(sec, off, sym, type, add) == [sec |-> sec, off |-> off, sym |-> sym, type |-> type, add |-> add]
Absolute == -1

MainObject ==
  [secs |-> <<Section("text", 8, 4), Section("debug", 4, 1), Section("data", 8, 8),
              Section("bss", 4, 4)>>,
   syms |-> <<Symbol("_start", "global", 1, 0), Symbol("f", "global", 0, 0),
              Symbol("v", "weak", 0, 0), Symbol("b", "local", 4, 0),
              Symbol("k", "global", Absolute, 5)>>,
   relas |-> <<Rela(1, 0, 2, "call26", 0), Rela(1, 4, 3, "page21", 0), Rela(3, 0, 4, "abs64", 2),
               Rela(2, 0, 2, "abs64", 0), Rela(1, 4, 5, "prel21", 0)>>]

FObject(bind, type) ==
  [secs |-> <<Section("text", 8, 8), Section("rodata", 4, IF bind = "weak" THEN 16 ELSE 8)>>,
   syms |-> <<Symbol("f", bind, 1, 4), Symbol("r", "local", 2, 0), Symbol("v", "global", 0, 0)>>,
   relas |-> <<Rela(1, 0, 2, "page21", 0), Rela(1, 4, 2, "add12", 1), Rela(1, 0, 3, type, 0)>>]

VObject(bind) ==
  [secs |-> <<Section("data", 8, 0), Section("rodata", 8, 4)>>,
   syms |-> <<Symbol("v", bind, 1, 4), Symbol("w", "global", 2, 4)>>,
   relas |-> <<Rela(1, 0, 2, "abs64", 1)>>]

BootObject(type) ==
  [secs |-> <<Section("text.boot", 8, 4), Section("tables", 8, 8), Section("text", 4, 4),
              Section("bss", 8, 16)>>,
   syms |-> <<Symbol("_start", "global", 1, 0), Symbol("__stack_top", "global", 0, 0),
              Symbol("__bss_end", "global", 0, 0), Symbol("g", "global", 3, 0),
              Symbol("v", "weak", 0, 0)>>,
   relas |-> <<Rela(1, 0, 2, "abs64", 0), Rela(1, 0, 3, "abs64", 0), Rela(1, 4, 4, "ldst32", 0),
               Rela(1, 0, 4, type, 0), Rela(3, 0, 4, "call26", 0)>>]

CommandLines ==
  {[objs |-> o, archives |-> a, mode |-> m, entry |-> "_start", binary |-> b] :
     o \in {<<MainObject>>, <<MainObject, FObject("weak", "ldst16"), FObject("global", "ldst64")>>,
            <<FObject("weak", "ldst8"), MainObject>>,
            <<MainObject, FObject("weak", "ldst32"), FObject("weak", "add12"), VObject("weak")>>,
            <<BootObject("page21")>>, <<BootObject("jump26")>>,
            <<BootObject("abs64"), FObject("global", "jump26"), VObject("global")>>},
     a \in {<<>>, <<<<VObject("global"), FObject("global", "ldst32")>>>>,
            <<<<FObject("weak", "ldst32")>>, <<VObject("weak"), MainObject>>>>},
     m \in {"user", "kernel", "bootloader"}, b \in BOOLEAN}

LD == INSTANCE Ld WITH
        out <- sections, Inputs <- CommandLines, PAGE_SIZE <- 32, TEXT_BASE <- 64,
        PHYS_BASE <- 128, VIRT_BASE <- 8192, BOOT_SIZE <- 64, STACK_SIZE <- 64,
        CALL_BITS <- 8, ADR_BITS <- 8

(* The assembler: every program that takes one line from each slot. *)
Line(kind, sym, n) == [kind |-> kind, sym |-> sym, n |-> n]

Programs ==
  <<{Line("globl", "f", 0), Line("local", "f", 0), Line("equ", "K", 8), Line("macro", "", 0)},
    {Line("label", "f", 0), Line("use", "f", 0), Line("ldr", "f", 0), Line("b", "g", 0)},
    {Line("ascii", "", 3), Line("mov", "", 1), Line("mov", "", 2), Line("ldr", "K", 0),
     Line("section", "bss", 0), Line("macro", "", 0)},
    {Line("align", "", 16), Line("balign", "K", 0), Line("adrp", "f", 0),
     Line("section", "data", 0)},
    {Line("label", "g", 0), Line("bl", "f", 0), Line("quad", "f", 4), Line("quadsum", "", 1)},
    {Line("lo12", "h", 0), Line("bcond", "g", 0), Line("ldr", "g", 0), Line("section", "text", 0)},
    {Line("b", "f", 0), Line("use", "g", 0), Line("space", "", 5), Line("quad", "", 7)}>>

AS == INSTANCE As WITH
        Slots <- Programs,
        MacroBody <- <<Line("label", "arg", 0), Line("insn", "", 0), Line("ldr", "", 9)>>

-----------------------------------------------------------------------------
fbVars == <<fs, open, data>>
adVars == <<mem, pagetable, sz, view>>
siVars == <<under, stream, text, pos, turn, answer>>
maVars == <<heap, live>>
leVars == <<ed, tty, history>>
shVars == <<pc, jobs, next_jid, last_exit_status, child, bg, procs, fg_pgid, lost, ran>>
edVars == <<row, cur, dirty, quit_times, saved, find, doc, mode>>
ldVars == <<phase, in, objects, taken, global, sections, image>>
asVars == <<pass, prog, line, st, obj>>
partVars == <<part, ops, fbVars, adVars, siVars, maVars, leVars, shVars, edVars, ldVars, vars, asVars>>

Sequential == {"files", "memory", "stdio", "heap", "line", "shell", "editor", "link", "encode",
               "assemble"}

\* What the variables of a part that does not run hold: fewer values for TLC to compare.
Idle == "idle"
FilesIdle ==
  /\ fs = Idle /\ open = Idle /\ data = Idle
MemoryIdle ==
  /\ mem = Idle /\ pagetable = Idle /\ sz = Idle /\ view = Idle
StreamsIdle ==
  /\ under = Idle /\ stream = Idle /\ text = Idle /\ pos = Idle /\ turn = Idle
  /\ answer = Idle
ShellIdle ==
  /\ pc = Idle /\ jobs = Idle /\ next_jid = Idle /\ last_exit_status = Idle /\ child = Idle
  /\ bg = Idle /\ procs = Idle /\ fg_pgid = Idle /\ lost = Idle /\ ran = Idle
EditorIdle ==
  /\ row = Idle /\ cur = Idle /\ dirty = Idle /\ quit_times = Idle /\ saved = Idle
  /\ find = Idle /\ doc = Idle /\ mode = Idle
LinkerIdle ==
  /\ phase = Idle /\ in = Idle /\ objects = Idle /\ taken = Idle /\ global = Idle
  /\ sections = Idle /\ image = Idle
AssemblerIdle ==
  /\ pass = Idle /\ prog = Idle /\ line = Idle /\ st = Idle /\ obj = Idle

PartsInit ==
  /\ part \in Sequential
  /\ MA!Init /\ LE!Init /\ Init
  /\ IF part = "files" THEN FB!Init ELSE FilesIdle
  /\ IF part = "memory" THEN AD!Init ELSE MemoryIdle
  /\ IF part = "stdio" THEN SI!Init ELSE StreamsIdle
  /\ IF part = "shell" THEN SH!Init ELSE ShellIdle
  /\ IF part = "editor" THEN ED!Init ELSE EditorIdle
  /\ IF part = "link" THEN LD!Init ELSE LinkerIdle
  /\ IF part = "assemble" THEN AS!Init ELSE AssemblerIdle

\* A step of one part leaves the others as they are.
Files(A) ==
  /\ part = "files" /\ A /\ part' = part
  /\ UNCHANGED <<adVars, siVars, maVars, leVars, shVars, edVars, ldVars, vars, asVars>>
Memory(A) ==
  /\ part = "memory" /\ A /\ part' = part
  /\ UNCHANGED <<fbVars, siVars, maVars, leVars, shVars, edVars, ldVars, vars, asVars>>
Streams(A) ==
  /\ part = "stdio" /\ A /\ part' = part
  /\ UNCHANGED <<fbVars, adVars, maVars, leVars, shVars, edVars, ldVars, vars, asVars>>
Heap(A) ==
  /\ part = "heap" /\ A /\ part' = part
  /\ UNCHANGED <<fbVars, adVars, siVars, leVars, shVars, edVars, ldVars, vars, asVars>>
LineRead(A) ==
  /\ part = "line" /\ A /\ part' = part
  /\ UNCHANGED <<fbVars, adVars, siVars, maVars, shVars, edVars, ldVars, vars, asVars>>
Shell(A) ==
  /\ part = "shell" /\ A /\ part' = part
  /\ UNCHANGED <<ops, fbVars, adVars, siVars, maVars, leVars, edVars, ldVars, vars, asVars>>
Editor(A) ==
  /\ part = "editor" /\ A /\ part' = part
  /\ UNCHANGED <<fbVars, adVars, siVars, maVars, leVars, shVars, ldVars, vars, asVars>>
Linker(A) ==
  /\ part = "link" /\ A /\ part' = part
  /\ UNCHANGED <<ops, fbVars, adVars, siVars, maVars, leVars, shVars, edVars, vars, asVars>>
Encoder(A) ==
  /\ part = "encode" /\ ins.mn = "none" /\ A /\ part' = part
  /\ UNCHANGED <<ops, fbVars, adVars, siVars, maVars, leVars, shVars, edVars, ldVars, asVars>>
Assembler(A) ==
  /\ part = "assemble" /\ A /\ part' = part
  /\ UNCHANGED <<ops, fbVars, adVars, siVars, maVars, leVars, shVars, edVars, ldVars, vars>>

PartsNext ==
  \/ Files(\E n \in Lens : FB!filewrite(n))
  \/ Files(\E n \in Lens : FB!fileread(n))
  \/ Files(\E whence \in 0 .. 2, offset \in SeekTo : FB!sys_lseek(whence, offset))
  \/ Files(\E len \in Cuts : FB!sys_ftruncate(len))
  \/ Files(\E i \in FB!Files, trunc, append \in BOOLEAN : FB!sys_open(i, trunc, append))
  \/ Files(\E b \in Blocks : FB!Evict(b))
  \/ Memory(\E p \in Users, e \in Executables : AD!sys_exec(p, e))
  \/ Memory(\E p \in Users : AD!sys_fork(p))
  \/ Memory(\E p \in Users : AD!Gone(p))
  \/ Memory(\E p \in Users, n \in Amounts : AD!sys_sbrk(p, n))
  \/ Memory(\E p \in Users, fixed \in {-1, 1}, len \in Amounts, write \in BOOLEAN :
       AD!sys_mmap(p, fixed, len, write))
  \/ Memory(\E p \in Users, va \in Vas, len \in Amounts : AD!sys_munmap(p, va, len))
  \/ Memory(\E p \in Users, va \in Vas : AD!Store(p, va))
  \/ Streams(\E m \in SI!Modes : SI!fopen(m))
  \/ Streams(\E fd \in {1, 2} : SI!Standard(fd))
  \/ Streams(SI!open_memstream)
  \/ Streams(\E cs \in Chunks : SI!Write(cs))
  \/ Streams(\E n \in Counts, l \in BOOLEAN : SI!Read(n, l))
  \/ Streams(\E offset \in -1 .. 1, whence \in 0 .. 2 : SI!Seek(offset, whence))
  \/ Streams(SI!Flush) \/ Streams(SI!fclose) \/ Streams(SI!Break)
  \/ Streams(\E spec \in Conversions, size \in {0, 2, 9} : SI!snprintf(spec, size))
  \/ Heap(\E size \in Sizes : MA!malloc(size))
  \/ Heap(\E size \in Sizes : MA!calloc(1, size))
  \/ Heap(\E ptr \in DOMAIN live : MA!free(ptr))
  \/ Heap(\E ptr \in DOMAIN live, size \in Sizes : MA!realloc(ptr, size))
  \/ LineRead(\E bs \in Bytes, late \in {0, 2, 3} : LE!Type(bs, late))
  \/ Shell(\E l \in Lines : SH!Enter(l))
  \/ Shell(SH!Prompt) \/ Shell(SH!Launch) \/ Shell(SH!WaitForeground) \/ Shell(SH!WaitJob)
  \/ Shell(\E pid \in DOMAIN procs : SH!ChildStarts(pid))
  \/ Shell(\E pid \in DOMAIN procs : SH!ChildExits(pid))
  \/ Shell(\E pid \in DOMAIN procs : SH!ChildKilled(pid))
  \/ Shell(\E pid \in DOMAIN procs : SH!ChildStops(pid))
  \/ Shell(\E pid \in DOMAIN procs : SH!ChildContinued(pid))
  \/ Editor(\E ch \in Letters : ED!Char(ch))
  \/ Editor(ED!Enter) \/ Editor(ED!Backspace)
  \/ Editor(\E key \in {"LEFT", "RIGHT", "UP", "DOWN"} : ED!Move(key))
  \/ Editor(\E key \in {"UP", "DOWN"} : ED!MovePage(key))
  \/ Editor(ED!ReadFaults) \/ Editor(ED!editorSave) \/ Editor(ED!Quit) \/ Editor(ED!Ignored)
  \/ Editor(ED!OpenFind)
  \/ Editor(\E ch \in Letters : ED!FindMore(ch))
  \/ Editor(ED!FindLess)
  \/ Editor(\E dir \in {1, -1} : ED!FindKey(find.query, dir))
  \/ Editor(\E restore \in BOOLEAN : ED!CloseFind(restore))
  \/ Linker(\E input \in CommandLines : LD!Load(input))
  \/ Linker(LD!Collect) \/ Linker(LD!ResolveArchives) \/ Linker(LD!Check)
  \/ Linker(LD!Merge) \/ Linker(LD!Relocate) \/ Linker(LD!Write)
  \/ Encoder(FixedIns) \/ Encoder(SystemRegIns) \/ Encoder(JumpRegIns) \/ Encoder(BranchIns)
  \/ Encoder(AddressIns) \/ Encoder(AddSubIns) \/ Encoder(CompareIns) \/ Encoder(MultiplyIns)
  \/ Encoder(LogicalIns) \/ Encoder(ShiftIns) \/ Encoder(MoveRegIns) \/ Encoder(MoveIns)
  \/ Encoder(CondIns) \/ Encoder(ExtendIns) \/ Encoder(LoadStoreIns) \/ Encoder(LoadPartIns)
  \/ Encoder(LoadPairIns) \/ Encoder(UnscaledIns) \/ Encoder(FloatIns) \/ Encoder(ConvertIns)
  \/ Assembler(AS!ReadLine) \/ Assembler(AS!EndPass1) \/ Assembler(AS!EmitNext)
  \/ Assembler(AS!EndPass2) \/ Assembler(AS!WriteElf)

PartsSpec == PartsInit /\ [][PartsNext]_partVars

-----------------------------------------------------------------------------
(* Files (fs.c over the image of mkfs.c): the bitmap marks exactly the metadata and the
   blocks some pointer leads to, no block is shared or lost, and the blocks hold what was
   written to each file, through the cache and from the disk: FileBlocks says it in full. *)
FilesExact == part = "files" => FB!BlocksExact /\ FB!FileContents

(* Address spaces (vmm.c, elf.c, fork, sbrk and mmap): every frame is free or in one place
   of one process, calls that run out of memory half way included; every process finds the
   memory it was given and has written; and the checks of user pointers accept exactly what
   is mapped. *)
MemoryExact == part = "memory" => AD!FramesExact /\ AD!OwnMemory /\ AD!PointersChecked

(* Streams (libc/stdio_file.c): the program reads what the file holds and
   what it has written, where it has got to, and no buffer is written past its end. *)
StreamExact == part = "stdio" => SI!StreamExact

(* The shell (shell.c): every child is waited for or in the table once, the terminal is the
   shell's own while it reads, and a pipeline is connected as its line says. *)
ShellExact == part = "shell" => SH!JobsExact /\ SH!PlumbingExact

(* The editor (ed.c): the rows are the document the keys made, and the next character goes
   where the cursor is shown. *)
EditorExact == part = "editor" => ED!EditorExact

(* The linker and archiver (cmd/ld, cmd/ar): every reference leads to the bytes of the
   definition it means, in the file that is loaded. *)
LinkExact == part = "link" => LD!LinkExact

(* The assembler (parser.c and elf_write.c): every label has the value of the place where
   pass 2 put it, and every reference means what the program says. *)
AsExact == part = "assemble" => AS!AsExact
=============================================================================
