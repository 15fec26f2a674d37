-------------------------------- MODULE MemFs --------------------------------
(***************************************************************************)
(* The in-memory file system (terminal/fs.rs) as the system calls and the  *)
(* terminal's commands use it.  A system call resolves its path and does   *)
(* its work with interrupts masked and is one step.  A terminal command    *)
(* runs in the main loop and takes the lock once to resolve its path and   *)
(* once more to act, so system calls of processes come between the two and *)
(* the directory it acts on may be gone or be somewhere else.  mv takes    *)
(* the lock three times to resolve its two paths; here that is one step.   *)
(*                                                                         *)
(* An inode is a directory or a file.  The contents of files are left out: *)
(* write_file and append_file, and the truncation of an existing file,     *)
(* change nothing here.  "." and ".." never name an operand: both callers  *)
(* normalise paths.  up is the ".." entry.                                 *)
(***************************************************************************)
EXTENDS Integers

CONSTANTS
    Names,
    MaxIno,     \* bound on next_ino
    None

Inos == 1..MaxIno
Root == 1

VARIABLES
    inodes,     \* the table: None, or [dir, entries, up, nlink]
    nextIno,
    shell,      \* the command between resolving and acting, or None
    lost        \* history: inodes put where no path leads

vars == <<inodes, nextIno, shell, lost>>

NoEntries == [n \in Names |-> None]
Directory(up) == [dir |-> TRUE, entries |-> NoEntries, up |-> up, nlink |-> 2]
File == [dir |-> FALSE, entries |-> NoEntries, up |-> None, nlink |-> 1]

\* The root alone, as MemFs::new leaves it; populate_defaults then fills the
\* tree by the operations below.
Init ==
    /\ inodes = [i \in Inos |-> IF i = Root THEN Directory(Root) ELSE None]
    /\ nextIno = 2
    /\ shell = None
    /\ lost = {}

IsDir(t, i) == t[i] # None /\ t[i].dir

\* What a path below the inodes of set S can name in table t.
Below(t, S) ==
    LET level[k \in 0..MaxIno] ==
          IF k = 0 THEN S
          ELSE LET prev == level[k - 1]
                   held == {t[i].entries[n] : i \in {j \in prev : t[j] # None}, n \in Names}
               IN  prev \cup (held \ {None})
    IN  level[MaxIno]

Reachable == Below(inodes, {Root})

-----------------------------------------------------------------------------
(* The operations: the table each leaves, as a function of the table *)

HasEntry(t, d, n) == IsDir(t, d) /\ t[d].entries[n] # None

\* A child of inode type node is added to d under n, unless the name is taken
\* (create_file then truncates a file and refuses a directory).
Added(t, d, n, node) == [t EXCEPT ![nextIno] = node, ![d].entries[n] = nextIno]

\* mkdir also counts the link of the new directory's "..".
MadeDir(t, d, n) ==
    LET t1 == Added(t, d, n, Directory(d)) IN [t1 EXCEPT ![d].nlink = @ + 1]

\* Fault: a directory is removed with what it holds.
AnyChild(t, i) == TRUE

Removable(t, i) == t[i].dir => t[i].entries = NoEntries

\* remove: the entry goes, and the inode when its count reaches 0.  That of a
\* directory starts at 2, so a removed directory stays in the table.
Removed(t, d, n) ==
    IF ~HasEntry(t, d, n) \/ ~Removable(t, t[d].entries[n]) THEN t
    ELSE LET c == t[d].entries[n]
             t1 == [t EXCEPT ![d].entries[n] = None]
         IN  IF t[c].nlink <= 1 THEN [t1 EXCEPT ![c] = None]
             ELSE [t1 EXCEPT ![c].nlink = @ - 1]

\* Fault: the moved directory keeps its "..".
SameUp(t, i, d) == t

NewUp(t, i, d) == IF IsDir(t, i) THEN [t EXCEPT ![i].up = d] ELSE t

SourceTaken(t, d, n) == [t EXCEPT ![d].entries[n] = None]

\* rename: the result of removing the destination is ignored, and nothing is
\* inserted when the destination's parent is not a directory.
Renamed(t, d1, n1, d2, n2) ==
    LET i == t[d1].entries[n1]
        t1 == SourceTaken(t, d1, n1)
        t2 == Removed(t1, d2, n2)
        t3 == IF IsDir(t2, d2) THEN [t2 EXCEPT ![d2].entries[n2] = i] ELSE t2
    IN  NewUp(t3, i, d2)

\* What a rename puts out of reach: the moved inode when its new parent is not
\* a directory some path leads to, and a directory with entries it overwrites.
LostBy(t, d1, n1, d2, n2) ==
    LET i == t[d1].entries[n1]
        t1 == [t EXCEPT ![d1].entries[n1] = None]
        gone == ~IsDir(t1, d2) \/ d2 \notin Below(t1, {Root})
        hit == IF HasEntry(t1, d2, n2) THEN t1[d2].entries[n2] ELSE None
    IN  (IF gone THEN Below(t1, {i}) ELSE {})
        \cup (IF hit # None /\ t1[hit].entries # NoEntries THEN Below(t1, {hit}) ELSE {})

-----------------------------------------------------------------------------
(* System calls, and the last step of a command.  The directories a path      *)
(* resolves to are chosen in Next among the reachable inodes. *)

\* mkdir in directory d.
DoMkdir(d, n) ==
    /\ IsDir(inodes, d) /\ ~HasEntry(inodes, d, n)
    /\ nextIno \in Inos
    /\ inodes' = MadeDir(inodes, d, n)
    /\ nextIno' = nextIno + 1
    /\ UNCHANGED lost

\* create_file of a new file in directory d.
DoCreate(d, n) ==
    /\ IsDir(inodes, d) /\ ~HasEntry(inodes, d, n)
    /\ nextIno \in Inos
    /\ inodes' = Added(inodes, d, n, File)
    /\ nextIno' = nextIno + 1
    /\ lost' = lost \cup (IF d \in Reachable THEN {} ELSE {nextIno})

DoRemove(d, n) ==
    /\ HasEntry(inodes, d, n)
    /\ inodes' = Removed(inodes, d, n)
    /\ UNCHANGED <<nextIno, lost>>

DoRename(d1, n1, d2, n2) ==
    /\ HasEntry(inodes, d1, n1)
    /\ inodes' = Renamed(inodes, d1, n1, d2, n2)
    /\ lost' = lost \cup LostBy(inodes, d1, n1, d2, n2)
    /\ UNCHANGED nextIno

SysMkdir(d, n) == DoMkdir(d, n) /\ UNCHANGED shell

\* open with O_CREAT of a path that does not resolve; opening one that does
\* changes no inode.
SysCreate(d, n) == DoCreate(d, n) /\ UNCHANGED shell

\* sys_unlink of a file, sys_rmdir of a directory.
SysRemove(d, n) == DoRemove(d, n) /\ UNCHANGED shell

\* sys_rename copies a file under the new name and removes the old one; a
\* directory at either end refuses it.
SysRename(d1, n1, d2, n2) ==
    /\ HasEntry(inodes, d1, n1) /\ ~IsDir(inodes, inodes[d1].entries[n1])
    /\ IsDir(inodes, d2)
    /\ \/ /\ HasEntry(inodes, d2, n2) /\ ~IsDir(inodes, inodes[d2].entries[n2])
          /\ inodes' = Removed(inodes, d1, n1)
          /\ UNCHANGED nextIno
       \/ /\ ~HasEntry(inodes, d2, n2)
          /\ nextIno \in Inos
          /\ inodes' = Removed(Added(inodes, d2, n2, File), d1, n1)
          /\ nextIno' = nextIno + 1
    /\ UNCHANGED <<shell, lost>>

-----------------------------------------------------------------------------
(* Terminal commands *)

Command(op, d1, n1, d2, n2) == [op |-> op, d1 |-> d1, n1 |-> n1, d2 |-> d2, n2 |-> n2]

\* cmd_mkdir, cmd_touch and cmd_cp, cmd_rm and cmd_rmdir: the parent of a path.
Resolve(op, d, n) ==
    /\ shell = None
    /\ shell' = Command(op, d, n, None, None)
    /\ UNCHANGED <<inodes, nextIno, lost>>

\* cmd_mv: a destination that is a directory stands for a name inside it.
ResolveMove(d1, n1, d2, n2) ==
    /\ shell = None
    /\ shell' = IF HasEntry(inodes, d2, n2) /\ IsDir(inodes, inodes[d2].entries[n2])
                THEN Command("mv", d1, n1, inodes[d2].entries[n2], n1)
                ELSE Command("mv", d1, n1, d2, n2)
    /\ UNCHANGED <<inodes, nextIno, lost>>

\* The inode is gone, the name is taken or missing (or the bound is reached).
Refused ==
    IF shell.op \in {"rm", "mv"} THEN ~HasEntry(inodes, shell.d1, shell.n1)
    ELSE ~IsDir(inodes, shell.d1) \/ HasEntry(inodes, shell.d1, shell.n1) \/ nextIno \notin Inos

Act ==
    /\ shell # None
    /\ shell' = None
    /\ \/ shell.op = "mkdir" /\ DoMkdir(shell.d1, shell.n1)
       \/ shell.op = "create" /\ DoCreate(shell.d1, shell.n1)
       \/ shell.op = "rm" /\ DoRemove(shell.d1, shell.n1)
       \/ shell.op = "mv" /\ DoRename(shell.d1, shell.n1, shell.d2, shell.n2)
       \/ Refused /\ UNCHANGED <<inodes, nextIno, lost>>

Next ==
    \/ \E d \in Reachable, n \in Names :
         \/ SysMkdir(d, n) \/ SysCreate(d, n) \/ SysRemove(d, n)
         \/ \E op \in {"mkdir", "create", "rm"} : Resolve(op, d, n)
         \/ \E e \in Reachable, m \in Names : SysRename(d, n, e, m) \/ ResolveMove(d, n, e, m)
    \/ Act

Spec == Init /\ [][Next]_vars

-----------------------------------------------------------------------------
(* Properties *)

\* The directories form a tree that holds every file, whatever the order of
\* moves and removals.  A file in the table can be named by a path, unless a
\* command put it where none leads: a move below the moved directory, below a
\* file, over a directory with entries, or into a directory that was removed or
\* cut off meanwhile.  No inode has two entries, so removing a name never takes
\* away what another name stands for.  ".." of a directory a path leads to is the
\* directory that holds it.
TreeSound ==
    /\ \A i \in Inos : inodes[i] # None /\ ~inodes[i].dir => i \in Reachable \cup lost
    /\ \A c, d \in Inos, m, n \in Names :
         HasEntry(inodes, c, m) /\ HasEntry(inodes, d, n) =>
           (inodes[c].entries[m] = inodes[d].entries[n] => c = d /\ m = n)
    /\ \A d \in Reachable, n \in Names :
         HasEntry(inodes, d, n) /\ IsDir(inodes, inodes[d].entries[n]) =>
           inodes[inodes[d].entries[n]].up = d
=============================================================================
