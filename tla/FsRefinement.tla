---------------------------- MODULE FsRefinement ----------------------------
(***************************************************************************)
(* The pool of fs.c implements the tree of FsTree: a node stands for the   *)
(* place its chain of parents spells.                                      *)
(***************************************************************************)
EXTENDS FileSystem

\* The place of every node that hangs in the tree.
PlacesIn(s) ==
  LET place[i \in {j \in Index : Attached(s, j)}] ==
        IF i = 0 THEN <<>>
        ELSE Append(place[s.pool[i].parent], s.pool[i].name)
  IN place

TreeOf(s) ==
  LET place == PlacesIn(s)
  IN [p \in {place[i] : i \in DOMAIN place} |->
        s.pool[CHOOSE i \in DOMAIN place : place[i] = p].type]

Abstraction(s) == [tree |-> TreeOf(s), wd |-> PlacesIn(s)[s.cwd]]

\* What the next boot can load.
SavedCopy ==
  IF disk = NoSnapshot \/ ~header_ok THEN {} ELSE {Abstraction(disk)}

Tree == INSTANCE FsTree WITH
  tree <- TreeOf(Image),
  wd <- PlacesIn(Image)[cwd],
  listed <- fs_listed,
  saved <- SavedCopy

\* While the disk works, every command, save, load and reboot of fs.c does to
\* the tree of places what the abstract filesystem allows: parent links and
\* child slots never disagree with the paths a user sees, and removed or
\* leaked nodes are never seen again.
ImplementsTree == Tree!Spec
=============================================================================
