------------------------------ MODULE MCNames ------------------------------
(***************************************************************************)
(* Names with two processes, on the disk of mkfs and on one that already   *)
(* has the directories /a, /b and /a/d.                                    *)
(***************************************************************************)
EXTENDS Names, TLC

CONSTANTS a, b, d

\* The inodes that three calls of mkdir gave the directories.
A == 2
B == 3
D == 4

TreePaths == {<<a>>, <<b>>, <<a, d>>, <<b, d>>, <<b, d, a>>}

Request(call, old, new) == [call |-> call, old |-> old, new |-> new]

\* Calls on the paths of the tree, on the root, and on paths with . and ..
TreeRequests ==
  {Request(c, path, <<>>) : c \in {"creat", "mkdir", "unlink"}, path \in TreePaths}
  \cup {Request("rename", old, new) : old, new \in TreePaths}
  \cup {Request("link", old, new) : old, new \in {<<b>>, <<a, d>>, <<b, d>>}}
  \cup {Request("mknod", <<a, d>>, <<>>), Request("creat", <<>>, <<>>),
        Request("unlink", <<a, "..">>, <<>>), Request("mkdir", <<b, ".">>, <<>>),
        Request("creat", <<a, d, "..", a>>, <<>>),
        Request("rename", <<>>, <<a>>), Request("rename", <<a>>, <<b, ".">>),
        Request("rename", <<a, "..">>, <<b, d>>), Request("rename", <<a, ".">>, <<b, d>>),
        Request("rename", <<a>>, <<>>)}

\* What the three calls left: a directory counts its name and the directories in it.
Tree ==
  [disk |-> [i \in Inums |-> CASE i = ROOTINO -> Dinode("dir", 3)
                               [] i = A -> Dinode("dir", 2)
                               [] i \in {B, D} -> Dinode("dir", 1)
                               [] OTHER -> Dinode("free", 0)],
   dirs |-> [i \in Inums |-> CASE i = ROOTINO -> [Empty EXCEPT ![a] = A, ![b] = B]
                               [] i = A -> [Empty EXCEPT ![d] = D]
                               [] OTHER -> Empty],
   up |-> [i \in Inums |-> CASE i \in {ROOTINO, A, B} -> ROOTINO
                             [] i = D -> A
                             [] OTHER -> NoInode],
   ic |-> Booted]

TreeInit ==
  /\ fs = Tree
  /\ rename_lock = NoProc
  /\ proc = [p \in Procs |-> Idle]
  /\ calls = 0
  /\ spoilt = FALSE

MCSpec == (Init \/ TreeInit) /\ [][Next]_vars

\* The processes are alike.
Alike == Permutations(Procs)
=============================================================================
