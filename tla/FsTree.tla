------------------------------- MODULE FsTree -------------------------------
(***************************************************************************)
(* What the filesystem promises its user: a tree of named files and        *)
(* directories, a current directory in it, and a saved copy of both.  No   *)
(* nodes, slots or indices: a place is the sequence of names that leads to *)
(* it from the root.  Any command may be refused (it then changes nothing  *)
(* and is a stutter), because the pool and the directories are finite.     *)
(* This is what a disk that works allows; module FileSystem also has the   *)
(* others.                                                                 *)
(***************************************************************************)
EXTENDS Integers, Sequences, Functions

CONSTANTS Name, Path

VARIABLES
  tree,    \* place -> "FS_DIR" or "FS_FILE", the root <<>> included
  wd,      \* the place of the current directory
  listed,  \* is the filesystem on the save list?
  saved    \* the one [tree, wd] that is saved, as a set; {} when none is

vars == <<tree, wd, listed, saved>>

DefaultTree == [p \in {<<>>, <<"home">>, <<"tmp">>} |-> "FS_DIR"]

Init == tree = DefaultTree /\ wd = <<>> /\ listed = TRUE /\ saved = {}

KeepCopy ==
  saved' = IF listed THEN {[tree |-> tree', wd |-> wd']} ELSE saved

Make(name, type) ==
  LET place == Append(wd, name) IN
  /\ place \notin DOMAIN tree
  /\ tree' = [p \in DOMAIN tree \cup {place} |->
                IF p = place THEN type ELSE tree[p]]
  /\ UNCHANGED <<wd, listed>>
  /\ KeepCopy

Remove(name) ==
  LET place == Append(wd, name) IN
  /\ place \in DOMAIN tree
  /\ tree[place] = "FS_FILE"
  /\ tree' = Restrict(tree, DOMAIN tree \ {place})
  /\ UNCHANGED <<wd, listed>>
  /\ KeepCopy

Parent(p) == SubSeq(p, 1, Len(p) - 1)

\* Where one component leads from place p.
StepTo(p, component, q) ==
  \/ component \in {"", "."} /\ q = p
  \/ component = ".." /\ q = IF p = <<>> THEN p ELSE Parent(p)
  \/ /\ component \notin {"", ".", ".."}
     /\ q = Append(p, component)
     /\ q \in DOMAIN tree
     /\ tree[q] = "FS_DIR"

\* cd follows its components one by one; each place on the way is a place of
\* the tree.
ChangeDir(path) ==
  LET n == Len(path.components) IN
  \/ n = 0 /\ wd' = <<>> /\ UNCHANGED <<tree, listed, saved>>
  \/ /\ n > 0
     /\ \E trail \in [1 .. n -> DOMAIN tree] :
          /\ \A i \in 1 .. n :
               StepTo(IF i > 1 THEN trail[i - 1]
                      ELSE IF path.absolute THEN <<>> ELSE wd,
                      path.components[i], trail[i])
          /\ wd' = trail[n]
     /\ UNCHANGED <<tree, listed>>
     /\ KeepCopy

Keep == UNCHANGED <<tree, wd, listed>> /\ KeepCopy

Restore == \E copy \in saved : tree' = copy.tree /\ wd' = copy.wd

BringBack == Restore /\ UNCHANGED <<listed, saved>>

Relist == listed' = ~listed /\ UNCHANGED <<tree, wd, saved>>

StartAgain ==
  /\ \/ Restore
     \/ saved = {} /\ tree' = DefaultTree /\ wd' = <<>>
  /\ UNCHANGED <<listed, saved>>

Next ==
  \/ \E name \in Name :
       Make(name, "FS_DIR") \/ Make(name, "FS_FILE") \/ Remove(name)
  \/ \E path \in Path : ChangeDir(path)
  \/ Keep \/ BringBack \/ Relist \/ StartAgain

Spec == Init /\ [][Next]_vars
=============================================================================
