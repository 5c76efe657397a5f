-------------------------- MODULE FileSystem_proofs --------------------------
(***************************************************************************)
(* fs/fs.c for every pool size, directory size, name set and path set:     *)
(* types, the tree invariant of the pool and of the saved snapshot, that   *)
(* directories stay, that listed changes are saved, and that the path pwd  *)
(* prints leads back.                                                      *)
(***************************************************************************)
EXTENDS FileSystem, SequenceTheorems, WellFoundedInduction, FiniteSetTheorems,
        TLAPS

-----------------------------------------------------------------------------
(* What the helpers of the module return. *)

\* A non-empty set of natural numbers has a least element.
LEMMA LeastElement ==
  ASSUME NEW T, T \subseteq Nat, T # {}
  PROVE  \E m \in T : \A j \in T : m <= j
<1>1. PICK m \in T : \A j \in T : ~ (<<j, m>> \in OpToRel(<, Nat))
  BY NatLessThanWellFounded, WFMin
<1>2. \A j \in T : ~ (j < m)
  BY <1>1 DEF OpToRel
<1> QED
  BY <1>2

\* A snapshot is well typed exactly when its three parts are.
LEMMA ImageType ==
  ASSUME TypeOK PROVE Image \in SnapshotType
BY DEF TypeOK, Image, SnapshotType

\* node_find_child() finds a live entry with that name, or there is none.
LEMMA FindChildFinds ==
  ASSUME NEW p \in [Index -> NodeType], NEW d \in Index, NEW name
  PROVE  \/ /\ FindChild(p, d, name) = -1
            /\ Matches(p, d, name) = {}
         \/ \E k \in Live(p[d]) :
              /\ FindChild(p, d, name) = p[d].children[k]
              /\ p[d].children[k] \in Index
              /\ p[p[d].children[k]].name = name
<1> DEFINE M == Matches(p, d, name)
<1>1. CASE M = {}
  BY <1>1 DEF FindChild
<1>2. CASE M # {}
  <2>1. M \subseteq Slot /\ Slot \subseteq Nat
    BY DEF Matches, Live, Slot
  <2>2. \E k \in M : \A j \in M : k <= j
    BY <1>2, <2>1, LeastElement
  <2> DEFINE m == CHOOSE k \in M : \A j \in M : k <= j
  <2>3. m \in M
    BY <2>2
  <2>4. FindChild(p, d, name) = p[d].children[m]
    BY <1>2 DEF FindChild
  <2>5. m \in Live(p[d]) /\ p[p[d].children[m]].name = name
    BY <2>3 DEF Matches
  <2>6. p[d].children \in [Slot -> Index]
    BY DEF NodeType
  <2>7. p[d].children[m] \in Index
    BY <2>5, <2>6 DEF Live
  <2> QED
    BY <2>4, <2>5, <2>7
<1> QED
  BY <1>1, <1>2
-----------------------------------------------------------------------------
(* Types. *)

\* The fields of a node.
LEMMA NodeFields ==
  ASSUME NEW node \in NodeType
  PROVE  /\ node.name \in Name \cup {"", "/"}
         /\ node.type \in {"FS_DIR", "FS_FILE"}
         /\ node.parent \in Index \cup {-1}
         /\ node.children \in [Slot -> Index]
         /\ node.child_count \in 0 .. MaxChildren
BY DEF NodeType

\* Their types.
LEMMA NodeTypes ==
  /\ ZeroNode \in NodeType
  /\ \A name \in Name, type \in {"FS_DIR", "FS_FILE"}, parent \in Index \cup {-1} :
       Fresh(name, type, parent) \in NodeType
  /\ \A node \in NodeType, i \in Slot :
       i < node.child_count => Compact(node, i) \in NodeType
<1>1. 0 \in Index /\ 0 \in 0 .. MaxChildren
  BY SizeAssumption DEF Index
<1>2. ZeroNode \in NodeType
  BY <1>1 DEF ZeroNode, NodeType
<1>3. ASSUME NEW name \in Name, NEW type \in {"FS_DIR", "FS_FILE"},
             NEW parent \in Index \cup {-1}
      PROVE  Fresh(name, type, parent) \in NodeType
  BY <1>2 DEF Fresh, NodeType
<1>4. ASSUME NEW node \in NodeType, NEW i \in Slot, i < node.child_count
      PROVE  Compact(node, i) \in NodeType
  <2>0. node.child_count \in 0 .. MaxChildren
    BY NodeFields
  <2>1. \A k \in Slot : k < node.child_count - 1 => k + 1 \in Slot
    BY <2>0, SizeAssumption DEF Slot
  <2>2. [k \in Slot |-> IF k >= i /\ k < node.child_count - 1
                        THEN node.children[k + 1]
                        ELSE node.children[k]] \in [Slot -> Index]
    BY <2>1 DEF NodeType
  <2>3. node.child_count - 1 \in 0 .. MaxChildren
    BY <1>4, <2>0, SizeAssumption DEF Slot
  <2> QED
    BY <2>2, <2>3 DEF Compact, NodeType
<1> QED
  BY <1>2, <1>3, <1>4

\* The tree of fs_init() is a pool.
LEMMA DefaultType == DefaultPool \in [Index -> NodeType]
<1>1. /\ 0 \in Index /\ 1 \in Index /\ 2 \in Index
      /\ 2 \in 0 .. MaxChildren
  BY SizeAssumption DEF Index
<1>2. [k \in Slot |-> IF k < 2 THEN k + 1 ELSE 0] \in [Slot -> Index]
  BY <1>1 DEF Slot
<1>3. [ZeroNode EXCEPT !.name = "/", !.parent = -1, !.child_count = 2,
         !.children = [k \in Slot |-> IF k < 2 THEN k + 1 ELSE 0]] \in NodeType
  BY <1>1, <1>2, NodeTypes DEF NodeType
<1>4. /\ Fresh("home", "FS_DIR", 0) \in NodeType
      /\ Fresh("tmp", "FS_DIR", 0) \in NodeType
      /\ ZeroNode \in NodeType
  BY <1>1, NodeTypes, NameAssumption
<1> QED
  BY <1>3, <1>4 DEF DefaultPool

\* Whatever the disk does, a save leaves the old snapshot, the new image or
\* nothing there.
LEMMA SaveOutcomes ==
  ASSUME SaveFs
  PROVE  disk' = disk \/ disk' = Image' \/ disk' = NoSnapshot
BY DEF SaveFs, saved_vars

\* What a save leaves.
LEMMA SaveType ==
  ASSUME TypeOK, SaveFs, fs_listed' \in BOOLEAN,
         pool' \in [Index -> NodeType], pool_used' \in 0 .. MaxNodes,
         cwd' \in Index
  PROVE  TypeOK'
<1>1. Image' \in SnapshotType
  BY DEF Image, SnapshotType
<1>2. disk' \in SnapshotType \cup {NoSnapshot}
  BY <1>1, SaveOutcomes DEF TypeOK
<1>3. header_ok' \in BOOLEAN
  BY DEF SaveFs, saved_vars, TypeOK
<1> QED
  BY <1>2, <1>3 DEF TypeOK

\* The fields of a saved image.
LEMMA SnapshotFields ==
  ASSUME NEW s \in SnapshotType
  PROVE  /\ s.pool \in [Index -> NodeType]
         /\ s.pool_used \in 0 .. MaxNodes
         /\ s.cwd \in Index
BY DEF SnapshotType

\* At power-on.
LEMMA InitType == Init => TypeOK
<1>1. 0 \in Index /\ 3 \in 0 .. MaxNodes
  BY SizeAssumption DEF Index
<1> QED
  BY <1>1, DefaultType DEF Init, TypeOK

\* A new node keeps the pool a pool.
LEMMA AddChildType ==
  ASSUME NEW node \in NodeType, NEW child \in Index,
         node.child_count < MaxChildren
  PROVE  /\ AddChild(node, child) \in NodeType
         /\ node.child_count \in Slot
<1>1. node.child_count \in 0 .. MaxChildren
  BY NodeFields
<1>2. node.child_count \in Slot /\ node.child_count + 1 \in 0 .. MaxChildren
  BY <1>1, SizeAssumption DEF Slot
<1>3. [node.children EXCEPT ![node.child_count] = child] \in [Slot -> Index]
  BY <1>2, NodeFields
<1> QED
  BY <1>2, <1>3 DEF AddChild, NodeType

\* What mkdir and touch do to the pool when the directory has room.
LEMMA AttachEffect ==
  ASSUME TypeOK, NEW name \in Name, NEW type \in {"FS_DIR", "FS_FILE"},
         pool_used < MaxNodes, Attach(name, type), pool_used # cwd
  PROVE  /\ pool_used \in Index
         /\ pool[cwd].child_count \in Slot
         /\ pool' \in [Index -> NodeType]
         /\ pool_used' \in 0 .. MaxNodes
         /\ pool'[pool_used] = Fresh(name, type, cwd)
         /\ pool'[cwd] = AddChild(pool[cwd], pool_used)
         /\ \A i \in Index : i \notin {pool_used, cwd} => pool'[i] = pool[i]
<1>1. /\ pool_used \in Index /\ cwd \in Index
      /\ pool_used + 1 \in 0 .. MaxNodes
      /\ pool \in [Index -> NodeType]
  BY SizeAssumption DEF TypeOK, Index
<1>2. Fresh(name, type, cwd) \in NodeType
  BY <1>1, NodeTypes
<1>3. pool[cwd].child_count \in Slot /\ AddChild(pool[cwd], pool_used) \in NodeType
  BY <1>1, AddChildType DEF Attach
<1> QED
  BY <1>1, <1>2, <1>3 DEF Attach


-----------------------------------------------------------------------------
(* The tree invariant, for snapshots s (before) and t (after a command).   *)

\* Every node that hangs in the tree has been allocated.
LEMMA AttachedIsUsed ==
  ASSUME NEW s \in SnapshotType, WellFormed(s), NEW i \in Index, Attached(s, i)
  PROVE  i < s.pool_used
<1>1. s.pool \in [Index -> NodeType] /\ s.pool_used \in 0 .. MaxNodes
  BY SnapshotFields
<1>2. CASE i = 0
  BY <1>1, <1>2 DEF WellFormed, RootIsFixed
<1>3. CASE s.pool[i].parent >= 0 /\ IsChildOf(s, i, s.pool[i].parent)
  <2>1. s.pool[i].parent \in Index \cup {-1}
    BY <1>1, NodeFields
  <2>2. s.pool[i].parent \in Index
    BY <1>3, <2>1
  <2> QED
    BY <1>3, <2>2 DEF WellFormed, EntriesPointBack, IsChildOf
<1> QED
  BY <1>2, <1>3 DEF Attached

\* A directory that has an entry is in the tree, and a directory.
LEMMA ParentIsDirectory ==
  ASSUME NEW s \in SnapshotType, WellFormed(s),
         NEW d \in Index, NEW k \in Live(s.pool[d])
  PROVE  Attached(s, d) /\ s.pool[d].type = "FS_DIR"
<1>1. s.pool[d].child_count \in 0 .. MaxChildren
  BY SnapshotFields, NodeFields
<1>2. k \in Nat /\ k < s.pool[d].child_count
  BY SizeAssumption DEF Live, Slot
<1>3. s.pool[d].child_count > 0
  BY <1>1, <1>2
<1> QED
  BY <1>3 DEF WellFormed, NoOrphanSubtree, EntriesPointBack

\* The fields of a new node.
LEMMA FreshFields ==
  ASSUME NEW name, NEW type, NEW parent
  PROVE  /\ Fresh(name, type, parent).name = name
         /\ Fresh(name, type, parent).type = type
         /\ Fresh(name, type, parent).parent = parent
         /\ Fresh(name, type, parent).child_count = 0
         /\ Live(Fresh(name, type, parent)) = {}
<1>1. /\ Fresh(name, type, parent).name = name
      /\ Fresh(name, type, parent).type = type
      /\ Fresh(name, type, parent).parent = parent
      /\ Fresh(name, type, parent).child_count = 0
  BY DEF Fresh, ZeroNode
<1>2. \A k \in Slot : ~ (k < 0)
  BY SizeAssumption DEF Slot
<1> QED
  BY <1>1, <1>2 DEF Live

\* What adding a child changes.
LEMMA AddChildFields ==
  ASSUME NEW node \in NodeType, NEW child \in Index, node.child_count \in Slot
  PROVE  LET new == AddChild(node, child) IN
         /\ new.name = node.name
         /\ new.type = node.type
         /\ new.parent = node.parent
         /\ new.child_count = node.child_count + 1
         /\ Live(new) = Live(node) \cup {node.child_count}
         /\ new.children[node.child_count] = child
         /\ \A k \in Live(node) : /\ k < node.child_count
                                  /\ k # node.child_count
                                  /\ new.children[k] = node.children[k]
<1> DEFINE new == AddChild(node, child)
<1>1. /\ new.name = node.name
      /\ new.type = node.type
      /\ new.parent = node.parent
      /\ new.child_count = node.child_count + 1
      /\ new.children = [node.children EXCEPT ![node.child_count] = child]
  BY DEF AddChild, NodeType
<1>2. node.children \in [Slot -> Index]
  BY NodeFields
<1>3. Live(new) = Live(node) \cup {node.child_count}
  BY <1>1, SizeAssumption DEF Live, Slot
<1>4. \A k \in Live(node) : k < node.child_count /\ k # node.child_count /\ k \in Slot
  BY SizeAssumption DEF Live, Slot
<1> QED
  BY <1>1, <1>2, <1>3, <1>4

\* mkdir and touch in a directory with room keep the shape.
LEMMA AttachKeepsShape ==
  ASSUME NEW s \in SnapshotType, NEW t \in SnapshotType, WellFormed(s),
         NEW name \in Name, NEW type \in {"FS_DIR", "FS_FILE"},
         s.pool_used \in Index, s.pool[s.cwd].child_count \in Slot,
         Matches(s.pool, s.cwd, name) = {},
         t.pool_used = s.pool_used + 1, t.cwd = s.cwd,
         t.pool[s.pool_used] = Fresh(name, type, s.cwd),
         t.pool[s.cwd] = AddChild(s.pool[s.cwd], s.pool_used),
         \A i \in Index : i \notin {s.pool_used, s.cwd} => t.pool[i] = s.pool[i]
  PROVE  WellFormed(t)
<1> DEFINE n == s.pool_used
           w == s.cwd
           count == s.pool[w].child_count
<1>1. /\ s.pool \in [Index -> NodeType] /\ w \in Index /\ n \in 0 .. MaxNodes
      /\ 0 \in Index
  BY SnapshotFields, SizeAssumption DEF Index
<1>2. Attached(s, w) /\ s.pool[w].type = "FS_DIR"
  BY DEF WellFormed, CwdInTree
<1>3. w < n /\ n # w /\ 0 < n
  BY <1>1, <1>2, AttachedIsUsed DEF WellFormed, RootIsFixed, Index
<1>4. /\ t.pool[n].name = name /\ t.pool[n].type = type
      /\ t.pool[n].parent = w /\ t.pool[n].child_count = 0
      /\ Live(t.pool[n]) = {}
  BY FreshFields
<1>5. /\ t.pool[w].name = s.pool[w].name
      /\ t.pool[w].type = s.pool[w].type
      /\ t.pool[w].parent = s.pool[w].parent
      /\ Live(t.pool[w]) = Live(s.pool[w]) \cup {count}
      /\ t.pool[w].children[count] = n
      /\ \A k \in Live(s.pool[w]) :
           k < count /\ t.pool[w].children[k] = s.pool[w].children[k]
  <2>1. s.pool[w] \in NodeType
    BY <1>1
  <2> QED
    BY <2>1, AddChildFields
<1>6. \A i \in Index : i # n => /\ t.pool[i].name = s.pool[i].name
                                /\ t.pool[i].type = s.pool[i].type
                                /\ t.pool[i].parent = s.pool[i].parent
  BY <1>5
<1>7. \A d \in Index : \A k \in Live(s.pool[d]) :
        /\ s.pool[d].children[k] \in Index
        /\ s.pool[d].children[k] < n
        /\ s.pool[d].children[k] # n
        /\ s.pool[d].children[k] < t.pool_used
        /\ Attached(s, d) /\ d # n
  <2> SUFFICES ASSUME NEW d \in Index, NEW k \in Live(s.pool[d])
               PROVE  /\ s.pool[d].children[k] \in Index
                      /\ s.pool[d].children[k] < n
                      /\ s.pool[d].children[k] # n
                      /\ s.pool[d].children[k] < n + 1
                      /\ Attached(s, d) /\ d # n
    OBVIOUS
  <2>1. s.pool[d].children[k] \in Index
    <3>1. s.pool[d].children \in [Slot -> Index]
      BY <1>1, NodeFields
    <3> QED
      BY <3>1 DEF Live
  <2>2. s.pool[d].children[k] < n
    BY DEF WellFormed, EntriesPointBack
  <2>3. Attached(s, d)
    BY ParentIsDirectory
  <2>4. d < n
    BY <2>3, AttachedIsUsed
  <2>5. n \in Int /\ s.pool[d].children[k] \in Int
    BY <1>1, <2>1 DEF Index
  <2> QED
    BY <2>1, <2>2, <2>3, <2>4, <2>5 DEF Index
\* Every entry is an old one, or the new node at the end of the directory.
<1>8. \A d \in Index : \A k \in Live(t.pool[d]) :
        \/ k \in Live(s.pool[d]) /\ t.pool[d].children[k] = s.pool[d].children[k]
        \/ d = w /\ k = count /\ t.pool[d].children[k] = n
  BY <1>4, <1>5
<1>9. \A d \in Index : \A k \in Live(s.pool[d]) :
        k \in Live(t.pool[d]) /\ t.pool[d].children[k] = s.pool[d].children[k]
  BY <1>5, <1>7
<1>10. \A i \in Index : Attached(s, i) => Attached(t, i)
  <2> SUFFICES ASSUME NEW i \in Index, Attached(s, i), i # 0
               PROVE  Attached(t, i)
    BY DEF Attached
  <2>1. i # n
    BY <1>1, AttachedIsUsed DEF Index
  <2>2. s.pool[i].parent \in Index /\ IsChildOf(s, i, s.pool[i].parent)
    <3>1. s.pool[i].parent \in Index \cup {-1}
      BY <1>1, NodeFields
    <3> QED
      BY <3>1 DEF Attached
  <2>3. t.pool[i].parent = s.pool[i].parent
    BY <1>6, <2>1
  <2>4. IsChildOf(t, i, s.pool[i].parent)
    BY <1>9, <2>2 DEF IsChildOf
  <2>5. s.pool[i].parent >= 0
    BY <2>2 DEF Index
  <2> QED
    BY <2>3, <2>4, <2>5 DEF Attached
<1>11. RootIsFixed(t)
  BY <1>1, <1>3, <1>6 DEF WellFormed, RootIsFixed, Index
<1>12. EntriesPointBack(t)
  <2> SUFFICES ASSUME NEW d \in Index, NEW k \in Live(t.pool[d])
               PROVE  LET c == t.pool[d].children[k]
                      IN /\ t.pool[d].type = "FS_DIR"
                         /\ d < c
                         /\ c < t.pool_used
                         /\ t.pool[c].parent = d
                         /\ t.pool[c].name # ""
    BY DEF EntriesPointBack
  <2>1. CASE k \in Live(s.pool[d]) /\ t.pool[d].children[k] = s.pool[d].children[k]
    <3> DEFINE c == s.pool[d].children[k]
    <3>1. /\ s.pool[d].type = "FS_DIR"
          /\ d < c /\ c < s.pool_used
          /\ s.pool[c].parent = d
          /\ s.pool[c].name # ""
      BY <2>1 DEF WellFormed, EntriesPointBack
    <3>2. c \in Index /\ c # n /\ d # n
      BY <1>7, <2>1
    <3>3. t.pool[d].type = "FS_DIR" /\ t.pool[c].parent = d /\ t.pool[c].name # ""
      BY <1>6, <3>1, <3>2
    <3>4. c < t.pool_used
      BY <1>7, <2>1
    <3> QED
      BY <2>1, <3>1, <3>3, <3>4
  <2>2. CASE d = w /\ k = count /\ t.pool[d].children[k] = n
    <3>1. t.pool[w].type = "FS_DIR"
      BY <1>2, <1>5
    <3>2. n < t.pool_used
      BY <1>1
    <3>3. name # ""
      BY NameAssumption
    <3> QED
      BY <1>3, <1>4, <2>2, <3>1, <3>2, <3>3
  <2> QED
    BY <1>8, <2>1, <2>2
<1>13. EntriesInCreationOrder(t)
  <2> SUFFICES ASSUME NEW d \in Index, NEW j \in Live(t.pool[d]),
                      NEW k \in Live(t.pool[d]), j < k
               PROVE  t.pool[d].children[j] < t.pool[d].children[k]
    BY DEF EntriesInCreationOrder
  <2>1. j \in Int /\ k \in Int
    BY SizeAssumption DEF Live, Slot
  <2>2. CASE j \in Live(s.pool[d]) /\ k \in Live(s.pool[d])
    BY <1>9, <2>2 DEF WellFormed, EntriesInCreationOrder
  <2>3. CASE j \in Live(s.pool[d]) /\ k \notin Live(s.pool[d])
    BY <1>7, <1>8, <1>9, <2>3
  <2>4. CASE j \notin Live(s.pool[d])
    <3>1. d = w /\ j = count
      BY <1>8, <2>4
    <3>2. k \in Live(s.pool[d]) \/ k = count
      BY <1>8
    <3>3. k < count \/ k = count
      BY <1>5, <3>1, <3>2
    <3> QED
      BY <2>1, <3>1, <3>3
  <2> QED
    BY <2>2, <2>3, <2>4
<1>14. SiblingNamesDiffer(t)
  <2>1. \A k \in Live(s.pool[w]) : s.pool[s.pool[w].children[k]].name # name
    BY DEF Matches
  <2> SUFFICES ASSUME NEW d \in Index, NEW j \in Live(t.pool[d]),
                      NEW k \in Live(t.pool[d]), j # k
               PROVE  t.pool[t.pool[d].children[j]].name
                        # t.pool[t.pool[d].children[k]].name
    BY DEF SiblingNamesDiffer
  <2>2. \A i \in Live(s.pool[d]) :
          t.pool[t.pool[d].children[i]].name = s.pool[s.pool[d].children[i]].name
    BY <1>6, <1>7, <1>9
  <2>3. CASE j \in Live(s.pool[d]) /\ k \in Live(s.pool[d])
    BY <2>2, <2>3 DEF WellFormed, SiblingNamesDiffer
  <2>4. \A i \in Live(t.pool[d]) :
          i \notin Live(s.pool[d])
          => d = w /\ i = count /\ t.pool[t.pool[d].children[i]].name = name
    BY <1>4, <1>8
  <2>6. CASE j \in Live(s.pool[d]) /\ k \notin Live(s.pool[d])
    BY <2>1, <2>2, <2>4, <2>6
  <2>7. CASE j \notin Live(s.pool[d]) /\ k \in Live(s.pool[d])
    BY <2>1, <2>2, <2>4, <2>7
  <2>5. CASE j \notin Live(s.pool[d]) /\ k \notin Live(s.pool[d])
    BY <1>8, <2>5
  <2> QED
    BY <2>3, <2>5, <2>6, <2>7
<1>15. NoOrphanSubtree(t)
  <2> SUFFICES ASSUME NEW d \in Index, t.pool[d].child_count > 0
               PROVE  Attached(t, d)
    BY DEF NoOrphanSubtree
  <2>1. CASE d = n
    BY <1>4, <2>1
  <2>2. CASE d = w
    BY <1>2, <1>10, <2>2
  <2>3. CASE d \notin {n, w}
    BY <1>10, <2>3 DEF WellFormed, NoOrphanSubtree
  <2> QED
    BY <2>1, <2>2, <2>3
<1>16. CwdInTree(t)
  BY <1>1, <1>2, <1>5, <1>10 DEF CwdInTree
<1>17. UnusedSlotsEmpty(t)
  <2> SUFFICES ASSUME NEW i \in Index, i >= n + 1
               PROVE  t.pool[i] = ZeroNode
    BY DEF UnusedSlotsEmpty
  <2>1. i \in Int /\ n \in Int /\ w \in Int
    BY <1>1 DEF Index
  <2>2. i >= n /\ i # n /\ i # w
    BY <1>3, <2>1
  <2> QED
    BY <2>2 DEF WellFormed, UnusedSlotsEmpty
<1> QED
  BY <1>11, <1>12, <1>13, <1>14, <1>15, <1>16, <1>17 DEF WellFormed

\* mkdir and touch in a full directory keep the shape: the leaked node hangs
\* nowhere.
LEMMA LeakKeepsShape ==
  ASSUME NEW s \in SnapshotType, NEW t \in SnapshotType, WellFormed(s),
         NEW name \in Name, NEW type \in {"FS_DIR", "FS_FILE"},
         s.pool_used \in Index,
         t.pool_used = s.pool_used + 1, t.cwd = s.cwd,
         t.pool[s.pool_used] = Fresh(name, type, -1),
         \A i \in Index : i # s.pool_used => t.pool[i] = s.pool[i]
  PROVE  WellFormed(t)
<1> DEFINE n == s.pool_used
<1>1. /\ s.pool \in [Index -> NodeType] /\ s.cwd \in Index
      /\ n \in 0 .. MaxNodes /\ 0 \in Index /\ n \in Int
  BY SnapshotFields, SizeAssumption DEF Index
<1>2. \A i \in Index : Attached(s, i) => i # n
  BY <1>1, AttachedIsUsed DEF Index
<1>3. t.pool[n].child_count = 0 /\ Live(t.pool[n]) = {}
  BY FreshFields
<1>4. \A d \in Index : \A k \in Live(s.pool[d]) : d # n
  BY <1>2, ParentIsDirectory
<1>5. \A d \in Index : \A k \in Live(s.pool[d]) :
        /\ s.pool[d].children[k] \in Index
        /\ s.pool[d].children[k] # n
        /\ s.pool[d].children[k] < t.pool_used
  <2> SUFFICES ASSUME NEW d \in Index, NEW k \in Live(s.pool[d])
               PROVE  /\ s.pool[d].children[k] \in Index
                      /\ s.pool[d].children[k] # n
                      /\ s.pool[d].children[k] < n + 1
    OBVIOUS
  <2>1. s.pool[d].children \in [Slot -> Index]
    BY <1>1, NodeFields
  <2>2. s.pool[d].children[k] \in Index
    BY <2>1 DEF Live
  <2>3. s.pool[d].children[k] < n
    BY DEF WellFormed, EntriesPointBack
  <2> QED
    BY <1>1, <2>2, <2>3 DEF Index
<1>6. \A d \in Index : Live(t.pool[d]) = {} \/ t.pool[d] = s.pool[d]
  BY <1>3
<1>7. \A i \in Index : Attached(s, i) => Attached(t, i)
  <2> SUFFICES ASSUME NEW i \in Index, Attached(s, i), i # 0
               PROVE  Attached(t, i)
    BY DEF Attached
  <2>1. t.pool[i] = s.pool[i]
    BY <1>2
  <2>2. s.pool[i].parent \in Index \cup {-1}
    BY <1>1, NodeFields
  <2>3. s.pool[i].parent \in Index /\ IsChildOf(s, i, s.pool[i].parent)
    BY <2>2 DEF Attached
  <2>4. t.pool[s.pool[i].parent] = s.pool[s.pool[i].parent]
    BY <1>4, <2>3 DEF IsChildOf
  <2> QED
    BY <2>1, <2>3, <2>4 DEF Attached, IsChildOf
<1>8. RootIsFixed(t)
  <2>1. t.pool[0] = s.pool[0] /\ n > 0
    BY <1>1 DEF WellFormed, RootIsFixed
  <2> QED
    BY <1>1, <2>1 DEF WellFormed, RootIsFixed
<1>9. EntriesPointBack(t)
  <2> SUFFICES ASSUME NEW d \in Index, NEW k \in Live(t.pool[d])
               PROVE  LET c == t.pool[d].children[k]
                      IN /\ t.pool[d].type = "FS_DIR"
                         /\ d < c
                         /\ c < t.pool_used
                         /\ t.pool[c].parent = d
                         /\ t.pool[c].name # ""
    BY DEF EntriesPointBack
  <2>1. t.pool[d] = s.pool[d]
    BY <1>6
  <2>2. t.pool[s.pool[d].children[k]] = s.pool[s.pool[d].children[k]]
    BY <1>5, <2>1
  <2> QED
    <3> DEFINE c == s.pool[d].children[k]
    <3>1. /\ s.pool[d].type = "FS_DIR"
          /\ d < c
          /\ s.pool[c].parent = d
          /\ s.pool[c].name # ""
      BY <2>1 DEF WellFormed, EntriesPointBack
    <3>2. c < t.pool_used
      BY <1>5, <2>1
    <3> QED
      BY <2>1, <2>2, <3>1, <3>2
<1>10. EntriesInCreationOrder(t)
  BY <1>6 DEF WellFormed, EntriesInCreationOrder
<1>11. SiblingNamesDiffer(t)
  <2> SUFFICES ASSUME NEW d \in Index, NEW j \in Live(t.pool[d]),
                      NEW k \in Live(t.pool[d]), j # k
               PROVE  t.pool[t.pool[d].children[j]].name
                        # t.pool[t.pool[d].children[k]].name
    BY DEF SiblingNamesDiffer
  <2>1. t.pool[d] = s.pool[d]
    BY <1>6
  <2>2. \A i \in Live(s.pool[d]) :
          t.pool[s.pool[d].children[i]] = s.pool[s.pool[d].children[i]]
    BY <1>5
  <2> QED
    BY <2>1, <2>2 DEF WellFormed, SiblingNamesDiffer
<1>12. NoOrphanSubtree(t)
  <2> SUFFICES ASSUME NEW d \in Index, t.pool[d].child_count > 0
               PROVE  Attached(t, d)
    BY DEF NoOrphanSubtree
  <2>1. d # n
    BY <1>3
  <2> QED
    BY <1>7, <2>1 DEF WellFormed, NoOrphanSubtree
<1>13. CwdInTree(t)
  BY <1>1, <1>2, <1>7 DEF WellFormed, CwdInTree
<1>14. UnusedSlotsEmpty(t)
  <2> SUFFICES ASSUME NEW i \in Index, i >= n + 1
               PROVE  t.pool[i] = ZeroNode
    BY DEF UnusedSlotsEmpty
  <2>1. i >= n /\ i # n
    BY <1>1 DEF Index
  <2> QED
    BY <2>1 DEF WellFormed, UnusedSlotsEmpty
<1> QED
  BY <1>8, <1>9, <1>10, <1>11, <1>12, <1>13, <1>14 DEF WellFormed

\* The slot of the old directory that slot k of the compacted one holds.
Source(k, i) == IF k >= i THEN k + 1 ELSE k

\* What closing the gap in a list of children changes.
LEMMA CompactFields ==
  ASSUME NEW node \in NodeType, NEW i \in Live(node)
  PROVE  LET new == Compact(node, i) IN
         /\ new \in NodeType
         /\ new.name = node.name
         /\ new.type = node.type
         /\ new.parent = node.parent
         /\ new.child_count = node.child_count - 1
         /\ \A k \in Live(new) :
              /\ Source(k, i) \in Live(node) \ {i}
              /\ new.children[k] = node.children[Source(k, i)]
         /\ \A j, k \in Live(new) : j < k => Source(j, i) < Source(k, i)
         /\ \A k \in Live(node) \ {i} :
              \E j \in Live(new) : new.children[j] = node.children[k]
<1> DEFINE new == Compact(node, i)
<1>1. /\ node.child_count \in 0 .. MaxChildren
      /\ node.children \in [Slot -> Index]
  BY NodeFields
<1>2. i \in Slot /\ i < node.child_count
  BY DEF Live
<1>3. new \in NodeType
  BY <1>2, NodeTypes
<1>4. /\ new.name = node.name /\ new.type = node.type
      /\ new.parent = node.parent
      /\ new.child_count = node.child_count - 1
      /\ new.children = [k \in Slot |-> IF k >= i /\ k < node.child_count - 1
                                        THEN node.children[k + 1]
                                        ELSE node.children[k]]
  BY DEF Compact, NodeType
<1>5. Live(new) = {k \in Slot : k < node.child_count - 1}
  BY <1>4 DEF Live
<1>6. ASSUME NEW k \in Live(new)
      PROVE  /\ Source(k, i) \in Live(node) \ {i}
             /\ new.children[k] = node.children[Source(k, i)]
  <2>1. k \in Slot /\ k < node.child_count - 1 /\ i \in Int /\ k \in Int
    BY <1>2, <1>5, SizeAssumption DEF Slot
  <2>2. Source(k, i) \in Slot /\ Source(k, i) < node.child_count /\ Source(k, i) # i
    BY <1>1, <2>1, SizeAssumption DEF Source, Slot
  <2>3. new.children[k] = node.children[Source(k, i)]
    BY <1>4, <2>1 DEF Source
  <2> QED
    BY <2>2, <2>3 DEF Live
<1>7. \A j, k \in Live(new) : j < k => Source(j, i) < Source(k, i)
  BY <1>2, <1>5, SizeAssumption DEF Source, Slot
<1>8. ASSUME NEW k \in Live(node) \ {i}
      PROVE  \E j \in Live(new) : new.children[j] = node.children[k]
  <2>1. k \in Slot /\ k < node.child_count /\ k \in Int /\ i \in Int /\ k # i
    BY <1>2, SizeAssumption DEF Live, Slot
  <2>2. CASE k < i
    <3>1. k \in Live(new)
      BY <1>1, <1>2, <1>5, <2>1, <2>2
    <3>2. new.children[k] = node.children[k]
      BY <1>4, <2>1, <2>2
    <3> QED
      BY <3>1, <3>2
  <2>3. CASE k > i
    <3>1. k - 1 \in Live(new) /\ k - 1 \in Slot
      BY <1>1, <1>2, <1>5, <2>1, <2>3, SizeAssumption DEF Slot
    <3>2. k - 1 >= i /\ k - 1 < node.child_count - 1 /\ (k - 1) + 1 = k
      BY <1>1, <2>1, <2>3
    <3>3. new.children[k - 1] = node.children[k]
      BY <1>4, <3>1, <3>2
    <3> QED
      BY <3>1, <3>3
  <2> QED
    BY <2>1, <2>2, <2>3
<1> QED
  BY <1>3, <1>4, <1>6, <1>7, <1>8

\* What rm does to the file c in slot i of the current directory.
Removes(s, t, i, c) ==
  /\ i \in Live(s.pool[s.cwd])
  /\ c \in Index
  /\ s.pool[s.cwd].children[i] = c
  /\ s.pool[c].type = "FS_FILE"
  /\ t.pool_used = s.pool_used /\ t.cwd = s.cwd
  /\ t.pool[s.cwd] = Compact(s.pool[s.cwd], i)
  /\ t.pool[c] = [s.pool[c] EXCEPT !.name = ""]
  /\ \A x \in Index : x \notin {s.cwd, c} => t.pool[x] = s.pool[x]

\* rm keeps the shape.
LEMMA RmKeepsShape ==
  ASSUME NEW s \in SnapshotType, NEW t \in SnapshotType, WellFormed(s),
         NEW i, NEW c, Removes(s, t, i, c)
  PROVE  WellFormed(t)
<1> DEFINE w == s.cwd
<1>1. /\ s.pool \in [Index -> NodeType] /\ w \in Index
      /\ s.pool_used \in 0 .. MaxNodes /\ 0 \in Index
      /\ t.pool \in [Index -> NodeType]
  BY SnapshotFields, SizeAssumption DEF Index
<1>a. /\ i \in Live(s.pool[w])
      /\ s.pool[w].children[i] = c
      /\ c \in Index
      /\ t.pool_used = s.pool_used /\ t.cwd = w
  BY DEF Removes
<1>b. \A x \in Index : x \notin {w, c} => t.pool[x] = s.pool[x]
  BY DEF Removes
<1>2. \A d \in Index : \A k \in Live(s.pool[d]) : s.pool[d].children[k] \in Index
  <2> SUFFICES ASSUME NEW d \in Index, NEW k \in Live(s.pool[d])
               PROVE  s.pool[d].children[k] \in Index
    OBVIOUS
  <2>1. s.pool[d].children \in [Slot -> Index]
    BY <1>1, NodeFields
  <2> QED
    BY <2>1 DEF Live
<1>3. c \in Index /\ w < c /\ c < s.pool_used /\ s.pool[c].parent = w
  BY <1>1, <1>a DEF WellFormed, EntriesPointBack
<1>4. c # w /\ c # 0
  BY <1>1, <1>3 DEF Index
<1>5. Attached(s, w) /\ s.pool[w].type = "FS_DIR"
  BY DEF WellFormed, CwdInTree
<1>6. /\ t.pool[c].name = ""
      /\ t.pool[c].type = s.pool[c].type /\ s.pool[c].type = "FS_FILE"
      /\ t.pool[c].parent = s.pool[c].parent
      /\ t.pool[c].child_count = s.pool[c].child_count
  <2>1. s.pool[c] \in NodeType
    BY <1>1, <1>3
  <2>2. t.pool[c] = [s.pool[c] EXCEPT !.name = ""] /\ s.pool[c].type = "FS_FILE"
    BY DEF Removes
  <2> QED
    BY <2>1, <2>2 DEF NodeType
<1>7. s.pool[w] \in NodeType /\ t.pool[w] = Compact(s.pool[w], i)
  BY <1>1 DEF Removes
<1>8. /\ t.pool[w].name = s.pool[w].name
      /\ t.pool[w].type = s.pool[w].type
      /\ t.pool[w].parent = s.pool[w].parent
      /\ t.pool[w].child_count = s.pool[w].child_count - 1
      /\ \A k \in Live(t.pool[w]) :
           /\ Source(k, i) \in Live(s.pool[w]) \ {i}
           /\ t.pool[w].children[k] = s.pool[w].children[Source(k, i)]
      /\ \A j, k \in Live(t.pool[w]) : j < k => Source(j, i) < Source(k, i)
      /\ \A k \in Live(s.pool[w]) \ {i} :
           \E j \in Live(t.pool[w]) : t.pool[w].children[j] = s.pool[w].children[k]
  BY <1>7, <1>a, CompactFields
<1>9. \A x \in Index : /\ t.pool[x].type = s.pool[x].type
                       /\ t.pool[x].parent = s.pool[x].parent
                       /\ x # c => t.pool[x].name = s.pool[x].name
  BY <1>b, <1>6, <1>8
\* A file has no entries.
<1>10. s.pool[c].child_count = 0 /\ Live(t.pool[c]) = {}
  <2>1. s.pool[c].child_count \in 0 .. MaxChildren
    BY <1>1, <1>3, NodeFields
  <2>2. Live(s.pool[c]) = {}
    BY <1>3, <1>6, ParentIsDirectory
  <2>3. 0 \in Slot
    BY SizeAssumption DEF Slot
  <2>4. ~ (0 < s.pool[c].child_count)
    BY <2>2, <2>3 DEF Live
  <2>5. s.pool[c].child_count = 0
    BY <2>1, <2>4
  <2>6. Live(t.pool[c]) = Live(s.pool[c])
    BY <1>6 DEF Live
  <2> QED
    BY <2>2, <2>5, <2>6
\* Outside cwd, the entries are the old ones.
<1>11. \A d \in Index : d = w \/ Live(t.pool[d]) = {} \/ t.pool[d] = s.pool[d]
  BY <1>b, <1>10
\* The removed node is no entry of any directory any more.
<1>12. \A k \in Live(s.pool[w]) : k # i => s.pool[w].children[k] # c
  <2> SUFFICES ASSUME NEW k \in Live(s.pool[w]), k # i
               PROVE  s.pool[w].children[k] # c
    OBVIOUS
  <2>1. i \in Int /\ k \in Int
    BY <1>a, SizeAssumption DEF Live, Slot
  <2>2. s.pool[w].children[k] \in Int /\ c \in Int
    BY <1>1, <1>2, <1>3 DEF Index
  <2>3. i < k \/ k < i
    BY <2>1
  <2>4. \/ s.pool[w].children[i] < s.pool[w].children[k]
        \/ s.pool[w].children[k] < s.pool[w].children[i]
    BY <1>1, <1>a, <2>3 DEF WellFormed, EntriesInCreationOrder
  <2> QED
    BY <1>a, <2>2, <2>4
<1>13. \A d \in Index : \A k \in Live(t.pool[d]) :
         \E m \in Live(s.pool[d]) :
           /\ t.pool[d].children[k] = s.pool[d].children[m]
           /\ s.pool[d].children[m] # c
  <2> SUFFICES ASSUME NEW d \in Index, NEW k \in Live(t.pool[d])
               PROVE  \E m \in Live(s.pool[d]) :
                        /\ t.pool[d].children[k] = s.pool[d].children[m]
                        /\ s.pool[d].children[m] # c
    OBVIOUS
  <2>1. CASE d = w
    BY <1>8, <1>12, <2>1
  <2>2. CASE d # w
    <3>1. t.pool[d] = s.pool[d]
      BY <1>11, <2>2
    <3>2. s.pool[s.pool[d].children[k]].parent = d
      BY <3>1 DEF WellFormed, EntriesPointBack
    <3> QED
      BY <1>3, <2>2, <3>1, <3>2
  <2> QED
    BY <2>1, <2>2
<1>14. \A x \in Index : Attached(s, x) /\ x # c => Attached(t, x)
  <2> SUFFICES ASSUME NEW x \in Index, Attached(s, x), x # c, x # 0
               PROVE  Attached(t, x)
    BY DEF Attached
  <2> DEFINE d == s.pool[x].parent
  <2>1. d \in Index \cup {-1}
    BY <1>1, NodeFields
  <2>2. d \in Index /\ IsChildOf(s, x, d)
    BY <2>1 DEF Attached
  <2>3. PICK k \in Live(s.pool[d]) : s.pool[d].children[k] = x
    BY <2>2 DEF IsChildOf
  <2>4. IsChildOf(t, x, d)
    <3>1. CASE d = w
      BY <1>8, <1>a, <2>3, <3>1 DEF IsChildOf
    <3>2. CASE d # w
      <4>1. d # c
        BY <1>6, <2>2, <2>3, ParentIsDirectory
      <4> QED
        BY <1>b, <2>2, <2>3, <3>2, <4>1 DEF IsChildOf
    <3> QED
      BY <3>1, <3>2
  <2>5. t.pool[x].parent = d /\ d >= 0
    BY <1>9, <2>2 DEF Index
  <2> QED
    BY <2>4, <2>5 DEF Attached
<1>15. RootIsFixed(t)
  BY <1>1, <1>4, <1>9, <1>a DEF WellFormed, RootIsFixed
<1>16. EntriesPointBack(t)
  <2> SUFFICES ASSUME NEW d \in Index, NEW k \in Live(t.pool[d])
               PROVE  LET e == t.pool[d].children[k]
                      IN /\ t.pool[d].type = "FS_DIR"
                         /\ d < e
                         /\ e < t.pool_used
                         /\ t.pool[e].parent = d
                         /\ t.pool[e].name # ""
    BY DEF EntriesPointBack
  <2>1. PICK m \in Live(s.pool[d]) :
          /\ t.pool[d].children[k] = s.pool[d].children[m]
          /\ s.pool[d].children[m] # c
    BY <1>13
  <2> DEFINE e == s.pool[d].children[m]
  <2>2. /\ s.pool[d].type = "FS_DIR"
        /\ d < e
        /\ e < s.pool_used
        /\ s.pool[e].parent = d
        /\ s.pool[e].name # ""
    BY DEF WellFormed, EntriesPointBack
  <2>3. e \in Index
    BY <1>2
  <2> QED
    BY <1>9, <1>a, <2>1, <2>2, <2>3
<1>17. EntriesInCreationOrder(t)
  <2> SUFFICES ASSUME NEW d \in Index, NEW j \in Live(t.pool[d]),
                      NEW k \in Live(t.pool[d]), j < k
               PROVE  t.pool[d].children[j] < t.pool[d].children[k]
    BY DEF EntriesInCreationOrder
  <2>1. CASE d = w
    BY <1>1, <1>8, <2>1 DEF WellFormed, EntriesInCreationOrder
  <2>2. CASE d # w
    BY <1>11, <2>2 DEF WellFormed, EntriesInCreationOrder
  <2> QED
    BY <2>1, <2>2
<1>18. SiblingNamesDiffer(t)
  <2> SUFFICES ASSUME NEW d \in Index, NEW j \in Live(t.pool[d]),
                      NEW k \in Live(t.pool[d]), j # k
               PROVE  t.pool[t.pool[d].children[j]].name
                        # t.pool[t.pool[d].children[k]].name
    BY DEF SiblingNamesDiffer
  <2> DEFINE a == t.pool[d].children[j]
             b == t.pool[d].children[k]
  <2>1. a \in Index \ {c} /\ b \in Index \ {c}
    BY <1>2, <1>13
  <2>2. s.pool[a].name # s.pool[b].name
    <3>1. CASE d = w
      <4>1. j \in Int /\ k \in Int
        BY SizeAssumption DEF Live, Slot
      <4>2. Source(j, i) # Source(k, i)
        <5>1. j < k \/ k < j
          BY <4>1
        <5>2. Source(j, i) \in Int /\ Source(k, i) \in Int
          BY <1>8, <3>1, SizeAssumption DEF Live, Slot
        <5> QED
          BY <1>8, <3>1, <5>1, <5>2
      <4>3. /\ Source(j, i) \in Live(s.pool[w])
            /\ Source(k, i) \in Live(s.pool[w])
            /\ a = s.pool[w].children[Source(j, i)]
            /\ b = s.pool[w].children[Source(k, i)]
        BY <1>8, <3>1
      <4>4. SiblingNamesDiffer(s)
        BY DEF WellFormed
      <4> HIDE DEF a, b
      <4> QED
        BY <1>1, <4>2, <4>3, <4>4 DEF SiblingNamesDiffer
    <3>2. CASE d # w
      BY <1>11, <3>2 DEF WellFormed, SiblingNamesDiffer
    <3> QED
      BY <3>1, <3>2
  <2> QED
    BY <1>9, <2>1, <2>2
<1>19. NoOrphanSubtree(t)
  <2> SUFFICES ASSUME NEW d \in Index, t.pool[d].child_count > 0
               PROVE  Attached(t, d)
    BY DEF NoOrphanSubtree
  <2>1. d # c
    <3>1. t.pool[c].child_count = 0
      BY <1>6, <1>10
    <3> QED
      BY <3>1
  <2>2. CASE d = w
    BY <1>4, <1>5, <1>14, <2>2
  <2>3. CASE d # w
    <3>1. t.pool[d] = s.pool[d]
      BY <1>b, <2>1, <2>3
    <3> QED
      BY <1>14, <2>1, <3>1 DEF WellFormed, NoOrphanSubtree
  <2> QED
    BY <2>2, <2>3
<1>20. CwdInTree(t)
  BY <1>1, <1>4, <1>5, <1>8, <1>14, <1>a DEF CwdInTree
<1>21. UnusedSlotsEmpty(t)
  <2> SUFFICES ASSUME NEW x \in Index, x >= s.pool_used
               PROVE  t.pool[x] = ZeroNode
    BY <1>a DEF UnusedSlotsEmpty
  <2>1. x # c /\ x # w
    BY <1>1, <1>3 DEF Index
  <2> QED
    BY <1>b, <2>1 DEF WellFormed, UnusedSlotsEmpty
<1> QED
  BY <1>15, <1>16, <1>17, <1>18, <1>19, <1>20, <1>21 DEF WellFormed

\* Where cd may stand: a directory that hangs in the tree.
InTree(s, d) == s.pool[d].type = "FS_DIR" /\ Attached(s, d)

\* One component of a path leads from a directory of the tree to one.
LEMMA EnterStaysInTree ==
  ASSUME NEW s \in SnapshotType, WellFormed(s),
         NEW d \in Index, InTree(s, d),
         NEW component, Enter(s.pool, d, component) \in Index
  PROVE  InTree(s, Enter(s.pool, d, component))
<1> DEFINE child == FindChild(s.pool, d, component)
           e == Enter(s.pool, d, component)
<1>1. s.pool \in [Index -> NodeType]
  BY SnapshotFields
<1>2. CASE component \in {"", "."}
  BY <1>2 DEF Enter
<1>3. CASE component = ".."
  <2>1. s.pool[d].parent \in Index \cup {-1}
    BY <1>1, NodeFields
  <2>2. CASE s.pool[d].parent >= 0
    <3>1. d # 0
      BY <2>2 DEF WellFormed, RootIsFixed
    <3>2. s.pool[d].parent \in Index /\ IsChildOf(s, d, s.pool[d].parent)
      BY <2>1, <2>2, <3>1 DEF InTree, Attached
    <3>3. InTree(s, s.pool[d].parent)
      BY <3>2, ParentIsDirectory DEF IsChildOf, InTree
    <3>4. e = s.pool[d].parent
      BY <1>3, <2>2 DEF Enter
    <3> QED
      BY <3>3, <3>4
  <2>3. CASE ~ (s.pool[d].parent >= 0)
    <3>1. e = d
      BY <1>3, <2>3 DEF Enter
    <3> QED
      BY <3>1
  <2> QED
    BY <2>2, <2>3
<1>4. CASE component \notin {"", ".", ".."}
  <2>1. e = IF child >= 0 /\ s.pool[child].type = "FS_DIR" THEN child ELSE -1
    BY <1>4 DEF Enter
  <2>2. -1 \notin Index
    BY SizeAssumption DEF Index
  <2>3. child >= 0 /\ s.pool[child].type = "FS_DIR" /\ e = child
    BY <2>1, <2>2
  <2>4. child # -1
    BY <2>2, <2>3
  <2>5. PICK k \in Live(s.pool[d]) : child = s.pool[d].children[k]
    BY <1>1, <2>4, FindChildFinds
  <2>6. s.pool[child].parent = d
    BY <2>5 DEF WellFormed, EntriesPointBack
  <2>7. Attached(s, child)
    BY <2>5, <2>6 DEF Attached, IsChildOf, Index
  <2> QED
    BY <2>3, <2>7 DEF InTree
<1> QED
  BY <1>2, <1>3, <1>4

\* A walk that starts in a directory of the tree never leaves the tree.
LEMMA TrailStaysInTree ==
  ASSUME NEW s \in SnapshotType, WellFormed(s),
         NEW start \in Index, InTree(s, start),
         NEW components \in Seq(Component),
         NEW trail \in Trails(s.pool, start, components)
  PROVE  \A i \in 1 .. Len(components) : trail[i] \in Index /\ InTree(s, trail[i])
<1> DEFINE n == Len(components)
           Bad == {i \in 1 .. n : ~ InTree(s, trail[i])}
<1>1. n \in Nat
  BY LenProperties
<1>2. /\ trail \in [1 .. n -> Index]
      /\ \A i \in 1 .. n :
           trail[i] = Enter(s.pool, IF i = 1 THEN start ELSE trail[i - 1],
                            components[i])
  BY DEF Trails
<1>3. Bad = {}
  <2> SUFFICES ASSUME Bad # {} PROVE FALSE
    OBVIOUS
  <2>1. Bad \subseteq Nat
    BY <1>1
  <2>2. PICK m \in Bad : \A j \in Bad : m <= j
    BY <2>1, LeastElement
  <2>3. m \in 1 .. n /\ ~ InTree(s, trail[m])
    BY <2>2
  <2> DEFINE before == IF m = 1 THEN start ELSE trail[m - 1]
  <2>4. before \in Index /\ InTree(s, before)
    <3>1. CASE m = 1
      BY <3>1
    <3>2. CASE m # 1
      <4>1. m - 1 \in 1 .. n /\ m - 1 < m
        BY <1>1, <2>3, <3>2
      <4>2. m - 1 \notin Bad
        BY <2>1, <2>2, <4>1
      <4>3. InTree(s, trail[m - 1]) /\ trail[m - 1] \in Index
        BY <1>2, <4>1, <4>2
      <4> QED
        BY <3>2, <4>3
    <3> QED
      BY <3>1, <3>2
  <2>5. trail[m] = Enter(s.pool, before, components[m]) /\ trail[m] \in Index
    BY <1>2, <2>3
  <2> QED
    BY <2>3, <2>4, <2>5, EnterStaysInTree
<1> QED
  BY <1>2, <1>3

-----------------------------------------------------------------------------
(* The commands, one by one. *)

\* fs_init() builds a tree.
DefaultImage == [pool |-> DefaultPool, pool_used |-> 3, cwd |-> 0]

\* The three nodes of the default pool.
LEMMA DefaultNodes ==
  LET p == DefaultPool IN
  /\ 0 \in Index /\ 1 \in Index /\ 2 \in Index
  /\ p[0].name = "/" /\ p[0].type = "FS_DIR" /\ p[0].parent = -1
  /\ Live(p[0]) = {0, 1} /\ p[0].children[0] = 1 /\ p[0].children[1] = 2
  /\ p[1].name = "home" /\ p[1].type = "FS_DIR" /\ p[1].parent = 0
  /\ p[2].name = "tmp" /\ p[2].type = "FS_DIR" /\ p[2].parent = 0
  /\ p[1] = Fresh("home", "FS_DIR", 0) /\ p[2] = Fresh("tmp", "FS_DIR", 0)
  /\ \A i \in Index : i > 2 => p[i] = ZeroNode
<1> DEFINE p == DefaultPool
           root == [ZeroNode EXCEPT
                      !.name = "/", !.parent = -1, !.child_count = 2,
                      !.children = [k \in Slot |-> IF k < 2 THEN k + 1 ELSE 0]]
<1>1. /\ 0 \in Index /\ 1 \in Index /\ 2 \in Index
      /\ 3 \in 0 .. MaxNodes /\ 0 \in Slot /\ 1 \in Slot
  BY SizeAssumption DEF Index, Slot
<1>2. /\ p[0] = root
      /\ p[1] = Fresh("home", "FS_DIR", 0)
      /\ p[2] = Fresh("tmp", "FS_DIR", 0)
      /\ \A i \in Index : i > 2 => p[i] = ZeroNode
  <2>1. p[0] = root
    BY <1>1 DEF DefaultPool
  <2>2. p[1] = Fresh("home", "FS_DIR", 0)
    BY <1>1 DEF DefaultPool
  <2>3. p[2] = Fresh("tmp", "FS_DIR", 0)
    BY <1>1 DEF DefaultPool
  <2>4. \A i \in Index : i > 2 => p[i] = ZeroNode
    BY DEF DefaultPool
  <2> QED
    BY <2>1, <2>2, <2>3, <2>4
<1>3. /\ root.name = "/" /\ root.type = "FS_DIR" /\ root.parent = -1
      /\ root.child_count = 2
      /\ root.children = [k \in Slot |-> IF k < 2 THEN k + 1 ELSE 0]
  BY DEF ZeroNode
<1>4. /\ Live(p[0]) = {0, 1}
      /\ p[0].children[0] = 1 /\ p[0].children[1] = 2
  <2>1. p[0].children[0] = 1 /\ p[0].children[1] = 2
    BY <1>1, <1>2, <1>3
  <2>2. p[0].child_count = 2
    BY <1>2, <1>3
  <2>3. \A k \in Slot : k < 2 => k \in {0, 1}
    BY SizeAssumption DEF Slot
  <2> QED
    BY <1>1, <2>1, <2>2, <2>3 DEF Live
<1>5. /\ p[1].name = "home" /\ p[1].type = "FS_DIR" /\ p[1].parent = 0
      /\ p[2].name = "tmp" /\ p[2].type = "FS_DIR" /\ p[2].parent = 0
  BY <1>2, FreshFields
<1>6. p[0].name = "/" /\ p[0].type = "FS_DIR" /\ p[0].parent = -1
  BY <1>2, <1>3
<1> QED
  BY <1>1, <1>2, <1>4, <1>5, <1>6

\* The tree of fs_init() is a tree.
LEMMA DefaultShape == DefaultImage \in SnapshotType /\ WellFormed(DefaultImage)
<1> DEFINE p == DefaultPool
<1>1. /\ 0 \in Index /\ 1 \in Index /\ 2 \in Index
      /\ 3 \in 0 .. MaxNodes
  BY SizeAssumption DEF Index
<1>2. DefaultImage \in SnapshotType
  BY <1>1, DefaultType DEF DefaultImage, SnapshotType
<1>3. /\ p[1] = Fresh("home", "FS_DIR", 0) /\ p[2] = Fresh("tmp", "FS_DIR", 0)
      /\ \A i \in Index : i > 2 => p[i] = ZeroNode
  BY DefaultNodes
<1>4. p[0].name = "/" /\ p[0].type = "FS_DIR" /\ p[0].parent = -1
  BY DefaultNodes
<1>5. /\ Live(p[0]) = {0, 1}
      /\ p[0].children[0] = 1 /\ p[0].children[1] = 2
  BY DefaultNodes
<1>6. /\ p[1].name = "home" /\ p[1].type = "FS_DIR" /\ p[1].parent = 0
      /\ p[2].name = "tmp" /\ p[2].type = "FS_DIR" /\ p[2].parent = 0
  BY DefaultNodes
<1>7. \A d \in Index : d # 0 => p[d].child_count = 0 /\ Live(p[d]) = {}
  <2> SUFFICES ASSUME NEW d \in Index, d # 0
               PROVE  p[d].child_count = 0 /\ Live(p[d]) = {}
    OBVIOUS
  <2>1. d = 1 \/ d = 2 \/ d > 2
    BY DEF Index
  <2>2. ZeroNode.child_count = 0 /\ Live(ZeroNode) = {}
    <3>1. ZeroNode.child_count = 0
      BY DEF ZeroNode
    <3>2. \A k \in Slot : ~ (k < 0)
      BY SizeAssumption DEF Slot
    <3> QED
      BY <3>1, <3>2 DEF Live
  <2>3. CASE d = 1
    BY <1>3, <2>3, FreshFields
  <2>4. CASE d = 2
    BY <1>3, <2>4, FreshFields
  <2>5. CASE d > 2
    BY <1>3, <2>2, <2>5
  <2> QED
    BY <2>1, <2>3, <2>4, <2>5
<1> HIDE DEF p
<1>8. /\ DefaultImage.pool = p /\ DefaultImage.pool_used = 3
      /\ DefaultImage.cwd = 0
  BY DEF DefaultImage, p
<1>9. RootIsFixed(DefaultImage)
  BY <1>3, <1>4, <1>8 DEF RootIsFixed
<1>10. EntriesPointBack(DefaultImage)
  <2> SUFFICES ASSUME NEW d \in Index, NEW k \in Live(p[d])
               PROVE  LET c == p[d].children[k]
                      IN /\ p[d].type = "FS_DIR"
                         /\ d < c
                         /\ c < 3
                         /\ p[c].parent = d
                         /\ p[c].name # ""
    BY <1>8 DEF EntriesPointBack
  <2>1. d = 0 /\ k \in {0, 1}
    BY <1>5, <1>7
  <2>2. p[0].type = "FS_DIR"
    BY <1>3, <1>4
  <2> DEFINE c == p[d].children[k]
  <2>3. c = 1 \/ c = 2
    BY <1>5, <2>1
  <2>4. p[c].parent = 0 /\ (p[c].name = "home" \/ p[c].name = "tmp")
    BY <1>6, <2>3
  <2>5. 0 < c /\ c < 3
    BY <2>3
  <2> QED
    BY <2>1, <2>2, <2>4, <2>5
<1>11. EntriesInCreationOrder(DefaultImage)
  BY <1>5, <1>7, <1>8 DEF EntriesInCreationOrder
<1>12. SiblingNamesDiffer(DefaultImage)
  BY <1>5, <1>6, <1>7, <1>8 DEF SiblingNamesDiffer
<1>13. NoOrphanSubtree(DefaultImage)
  BY <1>7, <1>8 DEF NoOrphanSubtree, Attached
<1>14. CwdInTree(DefaultImage)
  BY <1>3, <1>4, <1>8 DEF CwdInTree, Attached
<1>15. UnusedSlotsEmpty(DefaultImage)
  BY <1>3, <1>8 DEF UnusedSlotsEmpty, Index
<1> QED
  BY <1>2, <1>9, <1>10, <1>11, <1>12, <1>13, <1>14, <1>15 DEF WellFormed

\* A command that keeps the shape of the pool and ends with a save keeps the
\* invariant, whatever the disk does.
LEMMA SaveKeepsTreeInv ==
  ASSUME TreeInv, SaveFs, fs_listed' \in BOOLEAN,
         Image' \in SnapshotType, WellFormed(Image')
  PROVE  TreeInv'
<1>1. /\ pool' \in [Index -> NodeType]
      /\ pool_used' \in 0 .. MaxNodes
      /\ cwd' \in Index
  BY DEF Image, SnapshotType
<1>2. TypeOK'
  BY <1>1, SaveType DEF TreeInv
<1>3. SavedTreeIsWellFormed'
  BY SaveOutcomes DEF TreeInv, SavedTreeIsWellFormed
<1> QED
  BY <1>2, <1>3 DEF TreeInv, TreeIsWellFormed

\* A command that does not save.
LEMMA NoSaveKeepsTreeInv ==
  ASSUME TreeInv, disk' = disk, header_ok' \in BOOLEAN, fs_listed' \in BOOLEAN,
         Image' \in SnapshotType, WellFormed(Image')
  PROVE  TreeInv'
<1>1. /\ pool' \in [Index -> NodeType]
      /\ pool_used' \in 0 .. MaxNodes
      /\ cwd' \in Index
  BY DEF Image, SnapshotType
<1>2. TypeOK'
  BY <1>1 DEF TreeInv, TypeOK
<1> QED
  BY <1>2 DEF TreeInv, TreeIsWellFormed, SavedTreeIsWellFormed

\* The saved image has the fields of the pool.
LEMMA ImageFields ==
  /\ Image.pool = pool /\ Image.pool_used = pool_used /\ Image.cwd = cwd
  /\ Image'.pool = pool' /\ Image'.pool_used = pool_used' /\ Image'.cwd = cwd'
BY DEF Image

\* cwd hangs in the tree, so it is not the slot handed out next.
LEMMA NextSlotIsNotCwd ==
  ASSUME TreeInv PROVE pool_used # cwd
<1>1. Image \in SnapshotType /\ WellFormed(Image)
  BY ImageType DEF TreeInv, TreeIsWellFormed
<1>2. cwd \in Index /\ Attached(Image, cwd)
  BY <1>1, ImageFields DEF WellFormed, CwdInTree, TreeInv, TypeOK
<1>3. cwd < pool_used
  BY <1>1, <1>2, AttachedIsUsed, ImageFields
<1> QED
  BY <1>2, <1>3 DEF Index

\* A new last entry of the current directory.
Adds(s, t, name, type) ==
  /\ s.pool_used \in Index /\ s.pool[s.cwd].child_count \in Slot
  /\ Matches(s.pool, s.cwd, name) = {}
  /\ t.pool_used = s.pool_used + 1 /\ t.cwd = s.cwd
  /\ t.pool[s.pool_used] = Fresh(name, type, s.cwd)
  /\ t.pool[s.cwd] = AddChild(s.pool[s.cwd], s.pool_used)
  /\ \A i \in Index : i \notin {s.pool_used, s.cwd} => t.pool[i] = s.pool[i]

\* A new node that no directory has room for.
Leaks(s, t, name, type) ==
  /\ s.pool_used \in Index
  /\ t.pool_used = s.pool_used + 1 /\ t.cwd = s.cwd
  /\ t.pool[s.pool_used] = Fresh(name, type, -1)
  /\ \A i \in Index : i # s.pool_used => t.pool[i] = s.pool[i]

\* mkdir and touch.
LEMMA CreateEffect ==
  ASSUME TreeInv, NEW name \in Name, NEW type \in {"FS_DIR", "FS_FILE"},
         Create(name, type)
  PROVE  /\ Image \in SnapshotType /\ WellFormed(Image)
         /\ Image' \in SnapshotType /\ WellFormed(Image')
         /\ fs_listed' = fs_listed
         /\ \/ Adds(Image, Image', name, type) /\ SaveFs
            \/ Leaks(Image, Image', name, type) /\ UNCHANGED saved_vars
<1>1. TypeOK /\ Image \in SnapshotType /\ WellFormed(Image)
  BY ImageType DEF TreeInv, TreeIsWellFormed
<1>2. pool_used < MaxNodes /\ pool_used # cwd
  BY NextSlotIsNotCwd DEF Create
<1>3. Matches(pool, cwd, name) = {}
  <2>1. FindChild(pool, cwd, name) = -1
    BY DEF Create
  <2>2. pool \in [Index -> NodeType] /\ cwd \in Index /\ -1 \notin Index
    BY <1>1, SizeAssumption DEF TypeOK, Index
  <2> QED
    BY <2>1, <2>2, FindChildFinds
<1>4. /\ pool_used \in Index /\ cwd \in Index
      /\ pool_used + 1 \in 0 .. MaxNodes
      /\ pool \in [Index -> NodeType]
  BY <1>1, <1>2, SizeAssumption DEF TypeOK, Index
<1>5. CASE Attach(name, type)
  <2>1. /\ pool[cwd].child_count \in Slot
        /\ pool' \in [Index -> NodeType]
        /\ pool_used' \in 0 .. MaxNodes
        /\ pool'[pool_used] = Fresh(name, type, cwd)
        /\ pool'[cwd] = AddChild(pool[cwd], pool_used)
        /\ \A i \in Index : i \notin {pool_used, cwd} => pool'[i] = pool[i]
    BY <1>1, <1>2, <1>5, AttachEffect
  <2>2. /\ pool_used' = pool_used + 1 /\ cwd' = cwd
        /\ fs_listed' = fs_listed /\ SaveFs
    BY <1>5 DEF Attach
  <2>3. Image' \in SnapshotType
    BY <1>4, <2>1, <2>2 DEF Image, SnapshotType
  <2>4. Adds(Image, Image', name, type)
    BY <1>3, <1>4, <2>1, <2>2, ImageFields DEF Adds
  <2>5. WellFormed(Image')
    BY <1>1, <2>3, <2>4, AttachKeepsShape DEF Adds
  <2> QED
    BY <1>1, <2>2, <2>3, <2>4, <2>5
<1>6. CASE Leak(name, type)
  <2>1. Fresh(name, type, -1) \in NodeType
    BY NodeTypes
  <2>2. /\ pool' = [pool EXCEPT ![pool_used] = Fresh(name, type, -1)]
        /\ pool_used' = pool_used + 1 /\ cwd' = cwd
        /\ fs_listed' = fs_listed /\ UNCHANGED saved_vars
    BY <1>6 DEF Leak, saved_vars
  <2>3. /\ pool' \in [Index -> NodeType]
        /\ pool'[pool_used] = Fresh(name, type, -1)
        /\ \A i \in Index : i # pool_used => pool'[i] = pool[i]
    BY <1>4, <2>1, <2>2
  <2>4. Image' \in SnapshotType
    BY <1>4, <2>2, <2>3 DEF Image, SnapshotType
  <2>5. Leaks(Image, Image', name, type)
    BY <1>4, <2>2, <2>3, ImageFields DEF Leaks
  <2>6. WellFormed(Image')
    BY <1>1, <2>4, <2>5, LeakKeepsShape DEF Leaks
  <2> QED
    BY <1>1, <2>2, <2>4, <2>5, <2>6
<1> QED
  BY <1>5, <1>6 DEF Create

\* mkdir and touch.
LEMMA CreateKeepsTreeInv ==
  ASSUME TreeInv, NEW name \in Name, NEW type \in {"FS_DIR", "FS_FILE"},
         Create(name, type)
  PROVE  TreeInv'
<1>1. fs_listed \in BOOLEAN /\ header_ok \in BOOLEAN
  BY DEF TreeInv, TypeOK
<1> QED
  BY <1>1, CreateEffect, SaveKeepsTreeInv, NoSaveKeepsTreeInv DEF saved_vars

\* rm.
LEMMA RmEffect ==
  ASSUME TreeInv, NEW name \in Name, Rm(name)
  PROVE  /\ Image \in SnapshotType /\ WellFormed(Image)
         /\ Image' \in SnapshotType /\ WellFormed(Image')
         /\ fs_listed' = fs_listed /\ SaveFs
         /\ \E i, c : Removes(Image, Image', i, c) /\ pool[c].name = name
<1> DEFINE child == FindChild(pool, cwd, name)
           Here == {k \in Live(pool[cwd]) : pool[cwd].children[k] = child}
           i == CHOOSE k \in Live(pool[cwd]) :
                  /\ pool[cwd].children[k] = child
                  /\ \A j \in Live(pool[cwd]) :
                       pool[cwd].children[j] = child => k <= j
<1>1. TypeOK /\ Image \in SnapshotType /\ WellFormed(Image)
  BY ImageType DEF TreeInv, TreeIsWellFormed
<1>2. /\ pool \in [Index -> NodeType] /\ cwd \in Index
      /\ pool_used \in 0 .. MaxNodes /\ fs_listed \in BOOLEAN
  BY <1>1 DEF TypeOK
<1>3. /\ child >= 0
      /\ pool[child].type = "FS_FILE"
      /\ pool' = [pool EXCEPT ![cwd] = Compact(@, i),
                              ![child] = [@ EXCEPT !.name = ""]]
      /\ pool_used' = pool_used /\ cwd' = cwd /\ fs_listed' = fs_listed
      /\ SaveFs
  BY DEF Rm
<1>4. PICK k0 \in Live(pool[cwd]) :
        /\ child = pool[cwd].children[k0] /\ child \in Index
        /\ pool[child].name = name
  <2>1. child # -1
    <3>1. child >= 0
      BY <1>3
    <3> HIDE DEF child
    <3> QED
      BY <3>1
  <2> QED
    BY <1>2, <2>1, FindChildFinds
<1>5. i \in Live(pool[cwd]) /\ pool[cwd].children[i] = child
  <2>1. Here \subseteq Nat /\ Here # {}
    BY <1>4, SizeAssumption DEF Live, Slot
  <2>2. \E k \in Here : \A j \in Here : k <= j
    BY <2>1, LeastElement
  <2> QED
    BY <2>2
<1> HIDE DEF child, i
<1>6. child # cwd
  <2>1. EntriesPointBack(Image) /\ k0 \in Live(Image.pool[cwd])
    BY <1>1, <1>4, ImageFields DEF WellFormed
  <2>2. cwd < Image.pool[cwd].children[k0]
    BY <1>2, <2>1 DEF EntriesPointBack
  <2> QED
    BY <1>2, <1>4, <2>2, ImageFields DEF Index
<1>7. Compact(pool[cwd], i) \in NodeType
  BY <1>2, <1>5, CompactFields
<1>8. [pool[child] EXCEPT !.name = ""] \in NodeType
  <2>1. pool[child] \in NodeType
    BY <1>2, <1>4
  <2> QED
    BY <2>1 DEF NodeType
<1>9. /\ pool' \in [Index -> NodeType]
      /\ pool'[cwd] = Compact(pool[cwd], i)
      /\ pool'[child] = [pool[child] EXCEPT !.name = ""]
      /\ \A x \in Index : x \notin {cwd, child} => pool'[x] = pool[x]
  BY <1>2, <1>3, <1>4, <1>6, <1>7, <1>8
<1>10. Image' \in SnapshotType
  BY <1>2, <1>3, <1>9 DEF Image, SnapshotType
<1>11. Removes(Image, Image', i, child)
  BY <1>3, <1>4, <1>5, <1>9, ImageFields DEF Removes
<1>12. WellFormed(Image')
  BY <1>1, <1>10, <1>11, RmKeepsShape
<1> QED
  BY <1>1, <1>3, <1>4, <1>10, <1>11, <1>12

\* rm and rmdir.
LEMMA RmKeepsTreeInv ==
  ASSUME TreeInv, NEW name \in Name, Rm(name)
  PROVE  TreeInv'
<1>1. fs_listed \in BOOLEAN
  BY DEF TreeInv, TypeOK
<1> QED
  BY <1>1, RmEffect, SaveKeepsTreeInv

\* A snapshot with another current directory of the same tree.
LEMMA MoveKeepsShape ==
  ASSUME NEW s \in SnapshotType, NEW t \in SnapshotType, WellFormed(s),
         t.pool = s.pool, t.pool_used = s.pool_used, InTree(s, t.cwd)
  PROVE  WellFormed(t)
<1>1. \A i : Attached(s, i) => Attached(t, i)
  BY DEF Attached, IsChildOf
<1>2. RootIsFixed(t) /\ EntriesInCreationOrder(t)
  BY DEF WellFormed, RootIsFixed, EntriesInCreationOrder
<1>3. EntriesPointBack(t)
  <2> DEFINE Good(p, used, d, k) ==
               /\ p[d].type = "FS_DIR"
               /\ d < p[d].children[k]
               /\ p[d].children[k] < used
               /\ p[p[d].children[k]].parent = d
               /\ p[p[d].children[k]].name # ""
  <2>1. \A d \in Index : \A k \in Live(s.pool[d]) :
          Good(s.pool, s.pool_used, d, k)
    BY DEF WellFormed, EntriesPointBack
  <2>2. (\A d \in Index : \A k \in Live(t.pool[d]) :
           Good(t.pool, t.pool_used, d, k)) => EntriesPointBack(t)
    BY DEF EntriesPointBack
  <2> HIDE DEF Good
  <2> QED
    BY <2>1, <2>2
<1>4. SiblingNamesDiffer(t) /\ UnusedSlotsEmpty(t)
  BY DEF WellFormed, SiblingNamesDiffer, UnusedSlotsEmpty
<1>5. NoOrphanSubtree(t) /\ CwdInTree(t)
  BY <1>1 DEF WellFormed, NoOrphanSubtree, CwdInTree, InTree
<1> QED
  BY <1>2, <1>3, <1>4, <1>5 DEF WellFormed

\* cd.
LEMMA CdKeepsTreeInv ==
  ASSUME TreeInv, NEW path \in Path, Cd(path)
  PROVE  TreeInv'
<1>1. TypeOK /\ Image \in SnapshotType /\ WellFormed(Image)
  BY ImageType DEF TreeInv, TreeIsWellFormed
<1>2. /\ pool \in [Index -> NodeType] /\ cwd \in Index
      /\ pool_used \in 0 .. MaxNodes /\ fs_listed \in BOOLEAN
      /\ 0 \in Index
  BY <1>1, SizeAssumption DEF TypeOK, Index
<1>3. /\ pool' = pool /\ pool_used' = pool_used
      /\ fs_listed' = fs_listed
  BY DEF Cd, CdRoot, CdWalk
<1>4. InTree(Image, 0) /\ InTree(Image, cwd)
  BY <1>1, ImageFields
     DEF WellFormed, RootIsFixed, CwdInTree, InTree, Attached
<1>5. cwd' \in Index /\ InTree(Image, cwd')
  <2>1. CASE CdRoot(path)
    BY <1>2, <1>4, <2>1 DEF CdRoot
  <2>2. CASE CdWalk(path)
    <3> DEFINE start == IF path.absolute THEN 0 ELSE cwd
               components == path.components
    <3>1. components # <<>>
      BY <2>2 DEF CdWalk
    <3>2. PICK trail \in Trails(pool, start, components) :
            cwd' = trail[Len(components)]
      BY <2>2 DEF CdWalk
    <3>3. components \in Seq(Component)
      <4>1. path \in PathType
        BY PathAssumption
      <4> QED
        BY <4>1 DEF PathType
    <3>4. start \in Index /\ InTree(Image, start)
      BY <1>2, <1>4
    <3>5. Len(components) \in 1 .. Len(components)
      BY <3>1, <3>3, EmptySeq, LenProperties
    <3>6. \A i \in 1 .. Len(components) : trail[i] \in Index /\ InTree(Image, trail[i])
      BY <1>1, <3>2, <3>3, <3>4, ImageFields, TrailStaysInTree
    <3> QED
      BY <3>2, <3>5, <3>6
  <2> QED
    BY <2>1, <2>2 DEF Cd
<1>6. Image' \in SnapshotType
  BY <1>2, <1>3, <1>5 DEF Image, SnapshotType
<1>7. WellFormed(Image')
  BY <1>1, <1>3, <1>5, <1>6, ImageFields, MoveKeepsShape
<1>8. SaveFs \/ (disk' = disk /\ header_ok' \in BOOLEAN)
  BY <1>1 DEF Cd, CdRoot, CdWalk, saved_vars, TypeOK
<1> QED
  BY <1>2, <1>3, <1>6, <1>7, <1>8, SaveKeepsTreeInv, NoSaveKeepsTreeInv

\* load and a boot that finds a snapshot.
LEMMA LoadKeepsShape ==
  ASSUME TreeInv, LoadState
  PROVE  Image' \in SnapshotType /\ WellFormed(Image')
<1>1. disk \in SnapshotType /\ WellFormed(disk)
  BY DEF TreeInv, TypeOK, SavedTreeIsWellFormed, LoadState
<1>2. pool' = disk.pool /\ pool_used' = disk.pool_used /\ cwd' = disk.cwd
  BY DEF LoadState
<1>3. Image' = disk
  BY <1>1, <1>2 DEF Image, SnapshotType
<1> QED
  BY <1>1, <1>3

\* A restart, with or without a saved image.
LEMMA RebootKeepsTreeInv ==
  ASSUME TreeInv, Reboot
  PROVE  TreeInv'
<1>1. disk' = disk /\ header_ok' \in BOOLEAN /\ fs_listed' \in BOOLEAN
  BY FaultAssumption DEF Reboot, TreeInv, TypeOK, saved_vars
<1>2. CASE LoadState
  BY <1>1, <1>2, LoadKeepsShape, NoSaveKeepsTreeInv
<1>3. CASE FsInit
  <2>1. Image' = DefaultImage
    BY <1>3 DEF FsInit, Image, DefaultImage
  <2> QED
    BY <1>1, <2>1, DefaultShape, NoSaveKeepsTreeInv
<1> QED
  BY <1>2, <1>3 DEF Reboot

\* One step.
LEMMA StepKeepsTreeInv == TreeInv /\ [Next]_vars => TreeInv'
<1> SUFFICES ASSUME TreeInv, [Next]_vars PROVE TreeInv'
  OBVIOUS
<1>1. /\ Image \in SnapshotType /\ WellFormed(Image)
      /\ fs_listed \in BOOLEAN /\ header_ok \in BOOLEAN
  BY ImageType DEF TreeInv, TreeIsWellFormed, TypeOK
<1>2. ASSUME NEW name \in Name, Mkdir(name) PROVE TreeInv'
  BY <1>2, CreateKeepsTreeInv DEF Mkdir
<1>3. ASSUME NEW name \in Name, Touch(name) PROVE TreeInv'
  BY <1>3, CreateKeepsTreeInv DEF Touch
<1>4. ASSUME NEW name \in Name, Rm(name) PROVE TreeInv'
  BY <1>4, RmKeepsTreeInv
<1>5. ASSUME NEW path \in Path, Cd(path) PROVE TreeInv'
  BY <1>5, CdKeepsTreeInv
<1>6. CASE Save
  <2>1. Image' = Image /\ fs_listed' = fs_listed /\ SaveFs
    BY <1>6 DEF Save, Image
  <2> QED
    BY <1>1, <2>1, SaveKeepsTreeInv
<1>7. CASE Load
  <2>1. LoadState /\ fs_listed' = fs_listed /\ disk' = disk
        /\ header_ok' = header_ok
    BY <1>7 DEF Load, saved_vars
  <2> QED
    BY <1>1, <2>1, LoadKeepsShape, NoSaveKeepsTreeInv
<1>8. CASE SavelistSet
  <2>1. Image' = Image /\ fs_listed' \in BOOLEAN
    BY <1>8 DEF SavelistSet, Image
  <2>2. disk' = disk /\ header_ok' \in BOOLEAN
    BY <1>1, <1>8 DEF SavelistSet, RewriteHeader
  <2> QED
    BY <1>1, <2>1, <2>2, NoSaveKeepsTreeInv
<1>9. CASE SaveAliases
  <2>1. Image' = Image /\ fs_listed' \in BOOLEAN
    BY <1>1, <1>9 DEF SaveAliases, Image
  <2>2. disk' = disk /\ header_ok' \in BOOLEAN
    BY <1>1, <1>9 DEF SaveAliases, RewriteHeader
  <2> QED
    BY <1>1, <2>1, <2>2, NoSaveKeepsTreeInv
<1>10. CASE Reboot
  BY <1>10, RebootKeepsTreeInv
<1>11. CASE UNCHANGED vars
  <2>1. /\ Image' = Image /\ fs_listed' = fs_listed /\ disk' = disk
        /\ header_ok' = header_ok
    BY <1>11 DEF vars, saved_vars, Image
  <2> QED
    BY <1>1, <2>1, NoSaveKeepsTreeInv
<1> QED
  BY <1>2, <1>3, <1>4, <1>5, <1>6, <1>7, <1>8, <1>9, <1>10,
     <1>11 DEF Next

\* At power-on.
LEMMA InitTreeInv == Init => TreeInv
<1> SUFFICES ASSUME Init PROVE TreeInv
  OBVIOUS
<1>1. Image = DefaultImage /\ disk = NoSnapshot
  BY DEF Init, Image, DefaultImage
<1> QED
  BY <1>1, InitType, DefaultShape
     DEF TreeInv, TreeIsWellFormed, SavedTreeIsWellFormed

-----------------------------------------------------------------------------
(* The theorems. *)

\* The invariant is inductive: every command, save, load and reboot keeps it.
THEOREM TreeInvHolds == Spec => []TreeInv
BY InitTreeInv, StepKeepsTreeInv, PTL DEF Spec

\* Every variable of fs.c stays within its array bounds and types.
THEOREM TypeCorrect == Spec => []TypeOK
BY TreeInvHolds, PTL DEF TreeInv

\* The pool is a tree with distinct sibling names in which cwd is a directory,
\* after any run of commands, saves, loads and reboots (fs.c follows indices
\* without checking them).
THEOREM TreeStaysWellFormed == Spec => []TreeIsWellFormed
BY TreeInvHolds, PTL DEF TreeInv

\* What a later boot or load copies over the pool, unchecked, is such a tree
\* too.
THEOREM SavedTreeStaysWellFormed == Spec => []SavedTreeIsWellFormed
BY TreeInvHolds, PTL DEF TreeInv

-----------------------------------------------------------------------------
(* What a command does to the nodes of the tree. *)

\* The nodes of the tree.
InUse(s) == {i \in Index : Attached(s, i)}

\* The root is in use.
LEMMA RootInUse == ASSUME NEW s PROVE 0 \in InUse(s)
BY SizeAssumption DEF InUse, Attached, Index

\* The nodes in B are the same in both snapshots, but for their entries.
SameNodes(s, t, B) ==
  \A i \in B : /\ t.pool[i].parent = s.pool[i].parent
               /\ t.pool[i].name = s.pool[i].name
               /\ t.pool[i].type = s.pool[i].type

\* A slot nobody has allocated has no entries and is nobody's entry.
LEMMA UnusedLinks ==
  ASSUME NEW s \in SnapshotType, WellFormed(s), s.pool_used \in Index
  PROVE  /\ s.pool_used \notin InUse(s)
         /\ s.pool_used # 0
         /\ Live(s.pool[s.pool_used]) = {}
         /\ \A d \in Index : ~IsChildOf(s, s.pool_used, d)
<1> DEFINE n == s.pool_used
<1>1. n \in Int
  BY DEF Index
<1>2. n \notin InUse(s)
  <2>1. ASSUME n \in InUse(s) PROVE FALSE
    <3>1. n < n
      BY <2>1, AttachedIsUsed DEF InUse
    <3> HIDE DEF n
    <3> QED BY <1>1, <3>1
  <2> QED BY <2>1
<1>3. n # 0
  BY <1>2, RootInUse
<1>4. Live(s.pool[n]) = {}
  <2>1. s.pool[n] = ZeroNode
    BY <1>1 DEF WellFormed, UnusedSlotsEmpty
  <2>2. ZeroNode.child_count = 0
    BY DEF ZeroNode
  <2>3. \A k \in Slot : ~(k < 0)
    BY DEF Slot
  <2> QED BY <2>1, <2>2, <2>3 DEF Live
<1>5. \A d \in Index : ~IsChildOf(s, n, d)
  <2> SUFFICES ASSUME NEW d \in Index, NEW k \in Live(s.pool[d]), s.pool[d].children[k] = n
               PROVE  FALSE
    BY DEF IsChildOf
  <2>1. n < n
    BY DEF WellFormed, EntriesPointBack
  <2> HIDE DEF n
  <2> QED BY <1>1, <2>1
<1> QED BY <1>2, <1>3, <1>4, <1>5

\* A new child adds one link.
LEMMA AddsLinks ==
  ASSUME NEW s \in SnapshotType, NEW t \in SnapshotType, WellFormed(s),
         NEW name \in Name, NEW type \in {"FS_DIR", "FS_FILE"}, Adds(s, t, name, type)
  PROVE  LET n == s.pool_used IN
         /\ n \in Index /\ n # 0 /\ n \notin InUse(s) /\ s.cwd \in InUse(s)
         /\ InUse(t) = InUse(s) \cup {n}
         /\ SameNodes(s, t, InUse(s))
         /\ t.pool[n].parent = s.cwd /\ t.pool[n].name = name /\ t.pool[n].type = type
<1> DEFINE n == s.pool_used
           cd == s.cwd
<1>1. /\ n \in Index /\ n # 0 /\ n \notin InUse(s) /\ Live(s.pool[n]) = {}
      /\ \A d \in Index : ~IsChildOf(s, n, d)
  BY UnusedLinks DEF Adds
<1>2. cd \in InUse(s) /\ cd # n /\ cd \in Index
  BY <1>1, SnapshotFields DEF WellFormed, CwdInTree, InUse
<1>3. /\ t.pool[n] = Fresh(name, type, cd)
      /\ t.pool[cd] = AddChild(s.pool[cd], n)
      /\ \A i \in Index : i \notin {n, cd} => t.pool[i] = s.pool[i]
      /\ s.pool[cd].child_count \in Slot /\ s.pool[cd] \in NodeType
  BY <1>2, SnapshotFields DEF Adds
<1>4. /\ t.pool[n].parent = cd /\ t.pool[n].name = name /\ t.pool[n].type = type
      /\ Live(t.pool[n]) = {}
  BY <1>3, FreshFields
<1>5. /\ t.pool[cd].name = s.pool[cd].name /\ t.pool[cd].type = s.pool[cd].type
      /\ t.pool[cd].parent = s.pool[cd].parent
      /\ Live(t.pool[cd]) = Live(s.pool[cd]) \cup {s.pool[cd].child_count}
      /\ t.pool[cd].children[s.pool[cd].child_count] = n
      /\ \A k \in Live(s.pool[cd]) : t.pool[cd].children[k] = s.pool[cd].children[k]
  BY <1>1, <1>3, AddChildFields
<1>6. \A i \in Index : i # n => /\ t.pool[i].parent = s.pool[i].parent
                                /\ t.pool[i].name = s.pool[i].name
                                /\ t.pool[i].type = s.pool[i].type
  BY <1>3, <1>5
<1>7. ASSUME NEW i \in Index, i # n, NEW d \in Index
      PROVE  IsChildOf(t, i, d) <=> IsChildOf(s, i, d)
  <2>1. CASE d = n
    BY <1>1, <1>4, <2>1 DEF IsChildOf
  <2>2. CASE d = cd
    BY <1>5, <1>7, <2>2 DEF IsChildOf
  <2>3. CASE d \notin {n, cd}
    BY <1>3, <2>3 DEF IsChildOf
  <2> QED BY <2>1, <2>2, <2>3
<1>8. ASSUME NEW i \in Index, i # n
      PROVE  Attached(t, i) <=> Attached(s, i)
  <2>1. s.pool[i].parent \in Index \cup {-1} /\ t.pool[i].parent = s.pool[i].parent
    BY <1>6, <1>8, SnapshotFields, NodeFields
  <2>2. CASE s.pool[i].parent \in Index
    BY <1>7, <1>8, <2>1, <2>2 DEF Attached
  <2>3. CASE s.pool[i].parent = -1
    BY <2>1, <2>3 DEF Attached
  <2> QED BY <2>1, <2>2, <2>3
<1>9. Attached(t, n)
  <2>1. IsChildOf(t, n, cd)
    BY <1>5 DEF IsChildOf
  <2>2. cd >= 0
    BY <1>2 DEF Index
  <2> QED BY <1>4, <2>1, <2>2 DEF Attached
<1>10. InUse(t) = InUse(s) \cup {n}
  BY <1>1, <1>8, <1>9 DEF InUse
<1>11. SameNodes(s, t, InUse(s))
  BY <1>1, <1>6 DEF SameNodes, InUse
<1> QED BY <1>1, <1>2, <1>4, <1>10, <1>11

\* A node that is taken but not linked changes no link.
LEMMA LeaksLinks ==
  ASSUME NEW s \in SnapshotType, NEW t \in SnapshotType, WellFormed(s),
         NEW name \in Name, NEW type \in {"FS_DIR", "FS_FILE"}, Leaks(s, t, name, type)
  PROVE  InUse(t) = InUse(s) /\ SameNodes(s, t, InUse(s))
<1> DEFINE n == s.pool_used
<1>1. /\ n \in Index /\ n # 0 /\ n \notin InUse(s) /\ Live(s.pool[n]) = {}
      /\ \A d \in Index : ~IsChildOf(s, n, d)
  BY UnusedLinks DEF Leaks
<1>2. /\ t.pool[n] = Fresh(name, type, -1)
      /\ \A i \in Index : i # n => t.pool[i] = s.pool[i]
  BY DEF Leaks
<1>3. t.pool[n].parent = -1 /\ Live(t.pool[n]) = {}
  BY <1>2, FreshFields
<1>4. ASSUME NEW i \in Index, NEW d \in Index
      PROVE  IsChildOf(t, i, d) <=> IsChildOf(s, i, d)
  BY <1>1, <1>2, <1>3 DEF IsChildOf
<1>5. ASSUME NEW i \in Index
      PROVE  Attached(t, i) <=> Attached(s, i)
  <2>1. CASE i = n
    <3>1. ~Attached(s, i)
      BY <1>1, <2>1 DEF InUse
    <3>2. ~Attached(t, i)
      BY <1>1, <1>3, <2>1 DEF Attached
    <3> QED BY <3>1, <3>2
  <2>2. CASE i # n
    <3>1. s.pool[i].parent \in Index \cup {-1} /\ t.pool[i] = s.pool[i]
      BY <1>2, <2>2, SnapshotFields, NodeFields
    <3>2. CASE s.pool[i].parent \in Index
      BY <1>4, <3>1, <3>2 DEF Attached
    <3>3. CASE s.pool[i].parent = -1
      BY <3>1, <3>3 DEF Attached
    <3> QED BY <3>1, <3>2, <3>3
  <2> QED BY <2>1, <2>2
<1>6. InUse(t) = InUse(s)
  BY <1>5 DEF InUse
<1>7. SameNodes(s, t, InUse(s))
  BY <1>1, <1>2 DEF SameNodes, InUse
<1> QED BY <1>6, <1>7

\* A removed file takes one link away.
LEMMA RemovesLinks ==
  ASSUME NEW s \in SnapshotType, NEW t \in SnapshotType, WellFormed(s),
         NEW i, NEW c, Removes(s, t, i, c)
  PROVE  /\ c \in InUse(s) /\ c # 0 /\ s.pool[c].parent = s.cwd /\ s.cwd \in InUse(s)
         /\ s.pool[c].type = "FS_FILE" /\ c # s.cwd
         /\ InUse(t) = InUse(s) \ {c}
         /\ SameNodes(s, t, InUse(s) \ {c})
<1> DEFINE cd == s.cwd
<1>1. cd \in InUse(s) /\ cd \in Index /\ s.pool[cd].type = "FS_DIR" /\ s.pool[cd] \in NodeType
  BY SnapshotFields DEF WellFormed, CwdInTree, InUse
<1>2. /\ i \in Live(s.pool[cd]) /\ c \in Index /\ s.pool[cd].children[i] = c
      /\ s.pool[c].type = "FS_FILE"
      /\ t.pool[cd] = Compact(s.pool[cd], i)
      /\ t.pool[c] = [s.pool[c] EXCEPT !.name = ""]
      /\ \A x \in Index : x \notin {cd, c} => t.pool[x] = s.pool[x]
  BY DEF Removes
<1>3. s.pool[c].parent = cd /\ cd < c /\ c # cd
  BY <1>1, <1>2 DEF WellFormed, EntriesPointBack
<1>4. IsChildOf(s, c, cd) /\ cd >= 0 /\ c # 0
  <2>1. IsChildOf(s, c, cd)
    BY <1>2 DEF IsChildOf
  <2>2. cd >= 0 /\ c # 0
    <3> HIDE DEF cd
    <3> QED BY <1>1, <1>3 DEF Index
  <2> QED BY <2>1, <2>2
<1>5. c \in InUse(s)
  <2>1. Attached(s, c)
    <3> HIDE DEF cd
    <3> QED BY <1>3, <1>4 DEF Attached
  <2> QED BY <1>2, <2>1 DEF InUse
<1>6. /\ t.pool[cd].name = s.pool[cd].name /\ t.pool[cd].type = s.pool[cd].type
      /\ t.pool[cd].parent = s.pool[cd].parent
      /\ \A k \in Live(t.pool[cd]) :
           \E j \in Live(s.pool[cd]) \ {i} : t.pool[cd].children[k] = s.pool[cd].children[j]
      /\ \A k \in Live(s.pool[cd]) \ {i} :
           \E j \in Live(t.pool[cd]) : t.pool[cd].children[j] = s.pool[cd].children[k]
  <2> DEFINE node == s.pool[cd]
             new == Compact(node, i)
  <2>1. /\ new.name = node.name /\ new.type = node.type /\ new.parent = node.parent
        /\ \A k \in Live(new) : /\ Source(k, i) \in Live(node) \ {i}
                                /\ new.children[k] = node.children[Source(k, i)]
        /\ \A k \in Live(node) \ {i} :
             \E j \in Live(new) : new.children[j] = node.children[k]
    <3>1. node \in NodeType /\ i \in Live(node)
      BY <1>1, <1>2
    <3> HIDE DEF node
    <3> QED BY <3>1, CompactFields
  <2>2. \A k \in Live(new) : \E j \in Live(node) \ {i} : new.children[k] = node.children[j]
    <3> HIDE DEF new, node
    <3> QED BY <2>1
  <2>3. t.pool[cd] = new
    BY <1>2
  <2> HIDE DEF new
  <2> QED BY <2>1, <2>2, <2>3
<1>7. ASSUME NEW k \in Live(s.pool[cd]) \ {i}
      PROVE  s.pool[cd].children[k] # c
  <2>1. s.pool[s.pool[cd].children[k]].name # s.pool[s.pool[cd].children[i]].name
    <3>1. SiblingNamesDiffer(s) /\ cd \in Index /\ k \in Live(s.pool[cd]) /\ k # i
          /\ i \in Live(s.pool[cd])
      BY <1>1, <1>2, <1>7 DEF WellFormed
    <3> HIDE DEF cd
    <3> QED BY <3>1 DEF SiblingNamesDiffer
  <2> QED BY <1>2, <2>1
<1>8. \A x \in Index : x # c => /\ t.pool[x].parent = s.pool[x].parent
                                /\ t.pool[x].name = s.pool[x].name
                                /\ t.pool[x].type = s.pool[x].type
  BY <1>2, <1>6
<1>9. \A d \in Index : \A k \in Live(s.pool[d]) : s.pool[d].type = "FS_DIR"
  BY DEF WellFormed, EntriesPointBack
<1>10. Live(t.pool[c]) = Live(s.pool[c]) /\ t.pool[c].children = s.pool[c].children
       /\ t.pool[c].parent = s.pool[c].parent
  <2>1. s.pool[c] \in NodeType
    BY <1>2, SnapshotFields
  <2>2. t.pool[c].child_count = s.pool[c].child_count
        /\ t.pool[c].children = s.pool[c].children
        /\ t.pool[c].parent = s.pool[c].parent
    BY <1>2, <2>1 DEF NodeType
  <2> QED BY <2>2 DEF Live
<1>11. ASSUME NEW x \in Index, x # c, NEW d \in Index
       PROVE  IsChildOf(t, x, d) <=> IsChildOf(s, x, d)
  <2>1. CASE d = cd
    <3>1. IsChildOf(t, x, cd) => IsChildOf(s, x, cd)
      BY <1>6 DEF IsChildOf
    <3>2. ASSUME NEW k \in Live(s.pool[cd]), s.pool[cd].children[k] = x
          PROVE  IsChildOf(t, x, cd)
      <4>1. k # i
        BY <1>2, <1>11, <3>2
      <4>2. PICK j \in Live(t.pool[cd]) : t.pool[cd].children[j] = s.pool[cd].children[k]
        BY <1>6, <4>1
      <4> QED BY <3>2, <4>2 DEF IsChildOf
    <3> QED BY <2>1, <3>1, <3>2 DEF IsChildOf
  <2>2. CASE d = c
    BY <1>10, <2>2 DEF IsChildOf
  <2>3. CASE d \notin {cd, c}
    BY <1>2, <2>3 DEF IsChildOf
  <2> QED BY <2>1, <2>2, <2>3
<1>12. ASSUME NEW x \in Index, x # c
       PROVE  Attached(t, x) <=> Attached(s, x)
  <2>1. s.pool[x].parent \in Index \cup {-1} /\ t.pool[x].parent = s.pool[x].parent
    BY <1>8, <1>12, SnapshotFields, NodeFields
  <2>2. CASE s.pool[x].parent \in Index
    BY <1>11, <1>12, <2>1, <2>2 DEF Attached
  <2>3. CASE s.pool[x].parent = -1
    BY <2>1, <2>3 DEF Attached
  <2> QED BY <2>1, <2>2, <2>3
<1>13. ~Attached(t, c)
  <2>1. ~IsChildOf(t, c, cd)
    BY <1>6, <1>7 DEF IsChildOf
  <2> QED BY <1>3, <1>4, <1>10, <2>1 DEF Attached
<1>14. InUse(t) = InUse(s) \ {c}
  BY <1>12, <1>13 DEF InUse
<1>15. SameNodes(s, t, InUse(s) \ {c})
  BY <1>8 DEF SameNodes, InUse
<1> QED BY <1>1, <1>2, <1>3, <1>4, <1>5, <1>14, <1>15

-----------------------------------------------------------------------------
(* Directories stay. *)

\* A node of the tree that is still one afterwards, with its fields.
StayPut(s, t, d) ==
  /\ Attached(t, d)
  /\ t.pool[d].type = s.pool[d].type
  /\ t.pool[d].name = s.pool[d].name
  /\ t.pool[d].parent = s.pool[d].parent

DirectoriesStayPut(s, t) ==
  \A d \in Index : Attached(s, d) /\ s.pool[d].type = "FS_DIR" => StayPut(s, t, d)

\* mkdir and touch move no directory.
LEMMA CreateKeepsDirectories ==
  ASSUME TreeInv, NEW name \in Name, NEW type \in {"FS_DIR", "FS_FILE"},
         Create(name, type)
  PROVE  DirectoriesStayPut(Image, Image')
<1>1. /\ Image \in SnapshotType /\ WellFormed(Image) /\ Image' \in SnapshotType
      /\ Adds(Image, Image', name, type) \/ Leaks(Image, Image', name, type)
  BY CreateEffect
<1>2. InUse(Image) \subseteq InUse(Image') /\ SameNodes(Image, Image', InUse(Image))
  <2>1. CASE Adds(Image, Image', name, type)
    BY <1>1, <2>1, AddsLinks
  <2>2. CASE Leaks(Image, Image', name, type)
    BY <1>1, <2>2, LeaksLinks
  <2> QED BY <1>1, <2>1, <2>2
<1> QED BY <1>2 DEF DirectoriesStayPut, StayPut, SameNodes, InUse

\* Nor does rm.
LEMMA RmKeepsDirectories ==
  ASSUME TreeInv, NEW name \in Name, Rm(name)
  PROVE  DirectoriesStayPut(Image, Image')
<1>1. /\ Image \in SnapshotType /\ WellFormed(Image) /\ Image' \in SnapshotType
      /\ \E i, c : Removes(Image, Image', i, c) /\ pool[c].name = name
  BY RmEffect
<1>2. PICK i, c : Removes(Image, Image', i, c)
  BY <1>1
<1>3. /\ Image.pool[c].type = "FS_FILE"
      /\ InUse(Image') = InUse(Image) \ {c}
      /\ SameNodes(Image, Image', InUse(Image) \ {c})
  BY <1>1, <1>2, RemovesLinks
<1> QED BY <1>3 DEF DirectoriesStayPut, StayPut, SameNodes, InUse

\* Nor does what leaves the pool alone.
LEMMA SamePoolKeepsDirectories ==
  ASSUME pool' = pool
  PROVE  DirectoriesStayPut(Image, Image')
<1>1. Image'.pool = Image.pool
  BY ImageFields
<1> QED BY <1>1 DEF DirectoriesStayPut, StayPut, Attached, IsChildOf

\* cwd, and every parent link, is an index that is kept from one command to
\* the next: within one boot the directory it names stays what and where it was.
THEOREM DirectoriesNeverMove == Spec => DirectoriesStay
<1> DEFINE Kept == \A d \in Index :
             Attached(Image, d) /\ pool[d].type = "FS_DIR"
             => /\ Attached(Image', d)
                /\ pool'[d].type = "FS_DIR"
                /\ pool'[d].name = pool[d].name
                /\ pool'[d].parent = pool[d].parent
<1>1. ASSUME TreeInv, [Next]_vars
      PROVE  [Kept \/ Load \/ Reboot]_pool
  <2>1. DirectoriesStayPut(Image, Image') => Kept
    BY ImageFields DEF DirectoriesStayPut, StayPut
  <2>2. ASSUME NEW name \in Name, Mkdir(name) \/ Touch(name) \/ Rm(name)
        PROVE  Kept
    BY <1>1, <2>1, <2>2, CreateKeepsDirectories, RmKeepsDirectories DEF Mkdir, Touch
  <2>3. ASSUME NEW path \in Path, Cd(path)
        PROVE  Kept
    BY <2>1, <2>3, SamePoolKeepsDirectories DEF Cd, CdRoot, CdWalk
  <2>4. CASE Save \/ SavelistSet \/ SaveAliases
    BY <2>4 DEF Save, SavelistSet, SaveAliases
  <2>5. CASE UNCHANGED vars
    BY <2>5 DEF vars
  <2> HIDE DEF Kept
  <2> QED BY <1>1, <2>2, <2>3, <2>4, <2>5 DEF Next
<1> QED BY <1>1, TreeInvHolds, PTL DEF Spec, DirectoriesStay

-----------------------------------------------------------------------------
(* Changes of a listing are saved. *)

\* A leaked node is in no listing.
LEMMA LeakKeepsListings ==
  ASSUME NEW s \in SnapshotType, NEW t \in SnapshotType, WellFormed(s),
         NEW name \in Name, NEW type \in {"FS_DIR", "FS_FILE"}, Leaks(s, t, name, type)
  PROVE  Listings(t.pool) = Listings(s.pool)
<1> DEFINE n == s.pool_used
<1>1. /\ n \in Index /\ t.pool[n] = Fresh(name, type, -1)
      /\ \A i \in Index : i # n => t.pool[i] = s.pool[i]
  BY DEF Leaks
<1> SUFFICES ASSUME NEW d \in Index
             PROVE  Listing(t.pool, d) = Listing(s.pool, d)
  BY DEF Listings
<1>2. CASE d = n
  <2>1. s.pool[d].child_count = 0
    <3>1. s.pool[d] = ZeroNode
      BY <1>1, <1>2 DEF WellFormed, UnusedSlotsEmpty, Index
    <3>2. ZeroNode.child_count = 0
      BY DEF ZeroNode
    <3> QED BY <3>1, <3>2
  <2>2. t.pool[d].child_count = 0
    BY <1>1, <1>2, FreshFields
  <2>3. 1 .. 0 = {}
    OBVIOUS
  <2> QED BY <2>1, <2>2, <2>3 DEF Listing
<1>3. CASE d # n
  <2>1. t.pool[d] = s.pool[d]
    BY <1>1, <1>3
  <2>2. ASSUME NEW k \in 1 .. s.pool[d].child_count
        PROVE  t.pool[s.pool[d].children[k - 1]] = s.pool[s.pool[d].children[k - 1]]
    <3>1. s.pool[d] \in NodeType
      BY SnapshotFields
    <3>2. k - 1 \in Live(s.pool[d])
      <4>1. s.pool[d].child_count \in 0 .. MaxChildren
        BY <3>1, NodeFields
      <4> QED BY <4>1, SizeAssumption DEF Live, Slot
    <3>3. s.pool[d].children[k - 1] < n
      BY <3>2 DEF WellFormed, EntriesPointBack
    <3>4. s.pool[d].children[k - 1] \in Index
      BY <3>1, <3>2, NodeFields DEF Live
    <3> QED BY <1>1, <3>3, <3>4 DEF Index
  <2> QED BY <2>1, <2>2 DEF Listing
<1> QED BY <1>2, <1>3

\* On a disk that works and with fs on the save list, what ls prints after a
\* command is what ls prints after a power cycle.
THEOREM ListedIsSaved == ~DiskFaults => (Spec => ListingChangesAreSaved)
<1> SUFFICES ASSUME ~DiskFaults PROVE Spec => ListingChangesAreSaved
  OBVIOUS
<1> DEFINE Saved == disk' = Image' /\ header_ok'
           Ok == ~fs_listed \/ Listings(pool') = Listings(pool) \/ Saved \/ Reboot
<1>1. ASSUME TreeInv, [Next]_vars
      PROVE  [Ok]_pool
  <2>1. SaveFs /\ fs_listed => Saved
    BY DEF SaveFs
  <2>2. ASSUME NEW name \in Name, NEW type \in {"FS_DIR", "FS_FILE"}, Create(name, type)
        PROVE  Ok
    <3>1. /\ Image \in SnapshotType /\ WellFormed(Image) /\ Image' \in SnapshotType
          /\ (Adds(Image, Image', name, type) /\ SaveFs) \/ Leaks(Image, Image', name, type)
      BY <1>1, <2>2, CreateEffect
    <3>2. CASE Leaks(Image, Image', name, type)
      BY <3>1, <3>2, LeakKeepsListings, ImageFields
    <3> QED BY <2>1, <3>1, <3>2
  <2>3. ASSUME NEW name \in Name, Rm(name)
        PROVE  Ok
    BY <2>1, <2>3 DEF Rm
  <2>4. ASSUME NEW path \in Path, Cd(path)
        PROVE  UNCHANGED pool
    BY <2>4 DEF Cd, CdRoot, CdWalk
  <2>5. CASE Save \/ SavelistSet \/ SaveAliases \/ UNCHANGED vars
    BY <2>5 DEF Save, SavelistSet, SaveAliases, vars
  <2>6. CASE Load
    <3>1. disk \in SnapshotType
      BY <1>1, <2>6 DEF TreeInv, TypeOK, Load, LoadState
    <3>2. disk = [pool |-> disk.pool, pool_used |-> disk.pool_used, cwd |-> disk.cwd]
      BY <3>1 DEF SnapshotType
    <3> QED BY <2>6, <3>2 DEF Load, LoadState, Image, saved_vars
  <2> HIDE DEF Ok
  <2>7. Reboot => Ok
    BY DEF Ok
  <2> QED BY <1>1, <2>2, <2>3, <2>4, <2>5, <2>6, <2>7 DEF Next, Mkdir, Touch
<1> QED BY <1>1, TreeInvHolds, PTL DEF Spec, ListingChangesAreSaved

-----------------------------------------------------------------------------
(* pwd leads back. *)

\* The names cd can walk down to.
Walkable == Component \ {"", ".", ".."}

\* The directories from d up to the root, and what they are called.  mkdir
\* makes others; this is why nobody ever stands in one of them.
IsWay(s, S) ==
  /\ S \subseteq Index
  /\ \A i \in S \ {0} : /\ InTree(s, i)
                        /\ s.pool[i].name \in Walkable
                        /\ s.pool[i].parent \in S

StandsAt(s, d) == \E S : IsWay(s, S) /\ d \in S

\* The root stands anywhere.
LEMMA RootStands == ASSUME NEW s PROVE StandsAt(s, 0)
<1>1. IsWay(s, {0})
  BY SizeAssumption DEF IsWay, Index
<1> QED BY <1>1 DEF StandsAt

\* One component of a path leads from such a directory to such a directory.
LEMMA EnterStands ==
  ASSUME NEW s \in SnapshotType, WellFormed(s),
         NEW d \in Index, InTree(s, d), StandsAt(s, d),
         NEW component \in Component,
         NEW e \in Index, e = Enter(s.pool, d, component)
  PROVE  StandsAt(s, e)
<1>1. PICK S : IsWay(s, S) /\ d \in S
  BY DEF StandsAt
<1>2. s.pool \in [Index -> NodeType]
  BY SnapshotFields
<1>3. CASE component \in {"", "."}
  BY <1>3 DEF Enter
<1>4. CASE component = ".."
  <2>1. e = IF s.pool[d].parent >= 0 THEN s.pool[d].parent ELSE d
    BY <1>4 DEF Enter
  <2>2. CASE d = 0
    <3>1. s.pool[d].parent = -1
      BY <2>2 DEF WellFormed, RootIsFixed
    <3> QED BY <2>1, <3>1
  <2>3. CASE d # 0
    <3>1. s.pool[d].parent \in S
      BY <1>1, <2>3 DEF IsWay
    <3>2. e \in S
      BY <1>1, <2>1, <3>1
    <3> QED BY <1>1, <3>2 DEF StandsAt
  <2> QED BY <2>2, <2>3
<1>5. CASE component \notin {"", ".", ".."}
  <2> DEFINE child == FindChild(s.pool, d, component)
  <2>1. e = IF child >= 0 /\ s.pool[child].type = "FS_DIR" THEN child ELSE -1
    BY <1>5 DEF Enter
  <2>2. -1 \notin Index
    BY SizeAssumption DEF Index
  <2>3. e = child /\ e # -1
    BY <2>1, <2>2
  <2>4. PICK k \in Live(s.pool[d]) : e = s.pool[d].children[k] /\ s.pool[e].name = component
    BY <1>2, <2>3, FindChildFinds
  <2>5. s.pool[e].parent = d
    BY <2>4 DEF WellFormed, EntriesPointBack
  <2>6. InTree(s, e)
    BY EnterStaysInTree
  <2>7. component \in Walkable
    BY <1>5 DEF Walkable
  <2>8. IsWay(s, S \cup {e}) /\ e \in S \cup {e}
    BY <1>1, <2>4, <2>5, <2>6, <2>7 DEF IsWay
  <2> QED BY <2>8 DEF StandsAt
<1> QED BY <1>3, <1>4, <1>5

\* The directories above one that stands.
LEMMA TrailStands ==
  ASSUME NEW s \in SnapshotType, WellFormed(s),
         NEW start \in Index, InTree(s, start), StandsAt(s, start),
         NEW components \in Seq(Component),
         NEW trail \in Trails(s.pool, start, components)
  PROVE  \A i \in 1 .. Len(components) : StandsAt(s, trail[i])
<1> DEFINE n == Len(components)
           Bad == {i \in 1 .. n : ~StandsAt(s, trail[i])}
<1> SUFFICES ASSUME Bad # {} PROVE FALSE
  OBVIOUS
<1>1. n \in Nat
  BY LenProperties
<1>2. \A i \in 1 .. n :
        trail[i] = Enter(s.pool, IF i = 1 THEN start ELSE trail[i - 1], components[i])
  BY DEF Trails
<1>3. \A i \in 1 .. n : trail[i] \in Index /\ InTree(s, trail[i])
  BY TrailStaysInTree
<1>4. PICK m \in Bad : \A j \in Bad : m <= j
  <2>1. Bad \subseteq Nat
    BY <1>1
  <2> HIDE DEF Bad
  <2> QED BY <2>1, LeastElement
<1> DEFINE before == IF m = 1 THEN start ELSE trail[m - 1]
<1>5. before \in Index /\ InTree(s, before) /\ StandsAt(s, before)
  <2>1. ASSUME m # 1
        PROVE  m - 1 \in 1 .. n /\ m - 1 \notin Bad
    BY <1>1, <1>4, <2>1
  <2>2. m # 1 => before = trail[m - 1] /\ StandsAt(s, trail[m - 1])
    BY <2>1
  <2> QED BY <1>3, <2>1, <2>2
<1>6. trail[m] = Enter(s.pool, before, components[m]) /\ trail[m] \in Index
  BY <1>2, <1>3, <1>4
<1>7. components[m] \in Component
  BY <1>1, <1>4
<1>8. StandsAt(s, trail[m])
  <2> HIDE DEF before
  <2> QED BY <1>5, <1>6, <1>7, EnterStands
<1> QED BY <1>4, <1>8

\* Where the user stands, and where the saved current directory is.
StandInv ==
  /\ StandsAt(Image, cwd)
  /\ disk # NoSnapshot => StandsAt(disk, disk.cwd)

\* A step that leaves the pool alone.
LEMMA StayStands ==
  ASSUME NEW s, NEW t, DirectoriesStayPut(s, t), NEW d, StandsAt(s, d)
  PROVE  StandsAt(t, d)
<1>1. PICK S : IsWay(s, S) /\ d \in S
  BY DEF StandsAt
<1>2. IsWay(t, S)
  BY <1>1 DEF IsWay, InTree, DirectoriesStayPut, StayPut
<1> QED BY <1>1, <1>2 DEF StandsAt

\* A save.
LEMMA SaveStands ==
  ASSUME StandInv, SaveFs, StandsAt(Image', cwd')
  PROVE  StandInv'
<1>1. disk' = disk \/ disk' = Image' \/ disk' = NoSnapshot
  BY SaveOutcomes
<1> QED BY <1>1, ImageFields DEF StandInv

\* One step.
LEMMA StepKeepsStandInv == TreeInv /\ StandInv /\ [Next]_vars => StandInv'
<1> SUFFICES ASSUME TreeInv, StandInv, [Next]_vars
             PROVE  StandInv'
  OBVIOUS
<1>0. /\ Image \in SnapshotType /\ WellFormed(Image) /\ Image.pool = pool
      /\ StandsAt(Image, cwd)
  BY ImageType, ImageFields DEF TreeInv, TreeIsWellFormed, StandInv
<1>1. ASSUME NEW name \in Name, NEW type \in {"FS_DIR", "FS_FILE"}, Create(name, type)
      PROVE  StandInv'
  <2>1. StandsAt(Image', cwd')
    <3>1. cwd' = cwd
      BY <1>1 DEF Create, Attach, Leak
    <3> QED BY <1>0, <1>1, <3>1, CreateKeepsDirectories, StayStands
  <2>2. SaveFs \/ disk' = disk
    BY <1>1 DEF Create, Attach, Leak, saved_vars
  <2> QED BY <2>1, <2>2, SaveStands DEF StandInv
<1>2. ASSUME NEW name \in Name, Rm(name)
      PROVE  StandInv'
  <2>1. cwd' = cwd /\ SaveFs
    BY <1>2 DEF Rm
  <2>2. StandsAt(Image', cwd')
    BY <1>0, <1>2, <2>1, RmKeepsDirectories, StayStands
  <2> QED BY <2>1, <2>2, SaveStands
<1>3. ASSUME NEW path \in Path, Cd(path)
      PROVE  StandInv'
  <2>1. pool' = pool
    BY <1>3 DEF Cd, CdRoot, CdWalk
  <2>2. CASE CdRoot(path)
    BY <2>2, RootStands DEF CdRoot, StandInv, saved_vars
  <2>3. CASE CdWalk(path)
    <3> DEFINE start == IF path.absolute THEN 0 ELSE cwd
               n == Len(path.components)
    <3>1. path.components \in Seq(Component) /\ path.components # <<>>
      BY <2>3, PathAssumption DEF PathType, CdWalk
    <3>2. n \in 1 .. n
      <4>1. n \in Nat /\ n # 0
        BY <3>1, EmptySeq, LenProperties
      <4> HIDE DEF n
      <4> QED BY <4>1
    <3>3. PICK trail \in Trails(pool, start, path.components) : cwd' = trail[n]
      BY <2>3 DEF CdWalk
    <3>4. start \in Index /\ InTree(Image, start) /\ StandsAt(Image, start)
      <4>1. 0 \in Index /\ InTree(Image, 0)
        BY <1>0, RootInUse DEF InUse, InTree, WellFormed, RootIsFixed
      <4>2. cwd \in Index /\ InTree(Image, cwd)
        BY <1>0, ImageFields DEF TreeInv, TypeOK, WellFormed, CwdInTree, InTree
      <4> QED BY <1>0, <4>1, <4>2, RootStands
    <3>5. StandsAt(Image, cwd')
      <4> HIDE DEF start
      <4> QED BY <1>0, <3>1, <3>2, <3>3, <3>4, TrailStands
    <3>6. StandsAt(Image', cwd')
      BY <2>1, <3>5, SamePoolKeepsDirectories, StayStands
    <3> QED BY <2>3, <3>6, SaveStands DEF CdWalk
  <2> QED BY <1>3, <2>2, <2>3 DEF Cd
<1>4. CASE Save
  <2>1. Image' = Image /\ cwd' = cwd
    BY <1>4 DEF Save, Image
  <2> QED BY <1>0, <1>4, <2>1, SaveStands DEF Save
<1>5. ASSUME LoadState, disk' = disk
      PROVE  StandInv'
  <2>1. disk \in SnapshotType /\ disk # NoSnapshot
    BY <1>5 DEF LoadState, TreeInv, TypeOK
  <2>2. disk = [pool |-> disk.pool, pool_used |-> disk.pool_used, cwd |-> disk.cwd]
    BY <2>1 DEF SnapshotType
  <2>3. Image' = disk /\ cwd' = disk.cwd
    BY <1>5, <2>2 DEF LoadState, Image
  <2> QED BY <1>5, <2>1, <2>3 DEF StandInv
<1>6. CASE SavelistSet \/ SaveAliases \/ UNCHANGED vars
  <2>1. Image' = Image /\ cwd' = cwd /\ disk' = disk
    BY <1>6 DEF SavelistSet, SaveAliases, RewriteHeader, vars, saved_vars, Image
  <2> QED BY <2>1 DEF StandInv
<1>7. CASE Reboot
  <2>1. disk' = disk
    BY <1>7 DEF Reboot, saved_vars
  <2>2. CASE FsInit
    BY <2>1, <2>2, RootStands DEF FsInit, StandInv
  <2> QED BY <1>5, <1>7, <2>1, <2>2 DEF Reboot
<1>8. Load => LoadState /\ disk' = disk
  BY DEF Load, saved_vars
<1> QED BY <1>1, <1>2, <1>3, <1>4, <1>5, <1>6, <1>7, <1>8 DEF Next, Mkdir, Touch

\* The recursion of PwdNodes: n steps up from cwd.
Climbs(n, f) ==
  /\ f \in [0 .. n -> Index]
  /\ \A k \in 0 .. n :
       f[k] = IF k = 0 THEN cwd
              ELSE IF f[k - 1] = 0 THEN 0 ELSE pool[f[k - 1]].parent

\* A climb of any length exists, among directories that stand.
LEMMA ClimbExists ==
  ASSUME TreeInv, StandInv
  PROVE  \A n \in Nat : \E f : Climbs(n, f) /\ \A k \in 0 .. n : StandsAt(Image, f[k])
<1> DEFINE Bad == {n \in Nat :
             ~ \E f : Climbs(n, f) /\ \A k \in 0 .. n : StandsAt(Image, f[k])}
<1> SUFFICES ASSUME Bad # {} PROVE FALSE
  OBVIOUS
<1>1. PICK m \in Bad : \A j \in Bad : m <= j
  <2>1. Bad \subseteq Nat
    OBVIOUS
  <2> HIDE DEF Bad
  <2> QED BY <2>1, LeastElement
<1>2. cwd \in Index /\ StandsAt(Image, cwd)
  BY DEF TreeInv, TypeOK, StandInv
<1>3. m # 0
  <2> DEFINE f == [k \in 0 .. 0 |-> cwd]
  <2>1. Climbs(0, f) /\ \A k \in 0 .. 0 : StandsAt(Image, f[k])
    BY <1>2 DEF Climbs
  <2> HIDE DEF f
  <2> QED BY <1>1, <2>1
<1>4. m - 1 \in Nat /\ m - 1 \notin Bad
  BY <1>1, <1>3
<1>5. PICK f : Climbs(m - 1, f) /\ \A k \in 0 .. m - 1 : StandsAt(Image, f[k])
  BY <1>4
<1> DEFINE last == IF f[m - 1] = 0 THEN 0 ELSE pool[f[m - 1]].parent
           g == [k \in 0 .. m |-> IF k = m THEN last ELSE f[k]]
<1>6. /\ f \in [0 .. m - 1 -> Index]
      /\ \A k \in 0 .. m - 1 :
           f[k] = IF k = 0 THEN cwd
                  ELSE IF f[k - 1] = 0 THEN 0 ELSE pool[f[k - 1]].parent
      /\ \A k \in 0 .. m - 1 : StandsAt(Image, f[k])
  BY <1>5 DEF Climbs
<1>7. last \in Index /\ StandsAt(Image, last)
  <2>1. CASE f[m - 1] = 0
    BY <2>1, RootStands, SizeAssumption DEF Index
  <2>2. CASE f[m - 1] # 0
    <3>1. StandsAt(Image, f[m - 1])
      BY <1>4, <1>6
    <3>2. PICK S : IsWay(Image, S) /\ f[m - 1] \in S
      BY <3>1 DEF StandsAt
    <3>3. pool[f[m - 1]].parent \in S /\ S \subseteq Index
      BY <2>2, <3>2, ImageFields DEF IsWay
    <3> QED BY <2>2, <3>2, <3>3 DEF StandsAt
  <2> QED BY <2>1, <2>2
<1>8. \A k \in 0 .. m : k # m => k \in 0 .. m - 1 /\ k - 1 # m
  BY <1>1
<1>9. g \in [0 .. m -> Index] /\ \A k \in 0 .. m : StandsAt(Image, g[k])
  <2> HIDE DEF last
  <2> QED BY <1>6, <1>7, <1>8
<1>10. ASSUME NEW k \in 0 .. m
       PROVE  g[k] = IF k = 0 THEN cwd
                     ELSE IF g[k - 1] = 0 THEN 0 ELSE pool[g[k - 1]].parent
  <2>1. CASE k = m
    <3>1. m - 1 \in 0 .. m /\ m - 1 # m
      BY <1>1, <1>3
    <3>2. g[m - 1] = f[m - 1] /\ g[k] = last
      BY <2>1, <3>1
    <3> HIDE DEF g
    <3> QED BY <1>3, <2>1, <3>2
  <2>2. CASE k # m
    <3>1. k \in 0 .. m - 1 /\ (k # 0 => k - 1 \in 0 .. m /\ k - 1 # m)
      BY <1>1, <2>2
    <3>2. g[k] = f[k] /\ (k # 0 => g[k - 1] = f[k - 1])
      BY <2>2, <3>1
    <3> HIDE DEF g
    <3> QED BY <1>6, <3>1, <3>2
  <2> QED BY <2>1, <2>2
<1>11. Climbs(m, g) /\ \A k \in 0 .. m : StandsAt(Image, g[k])
  <2> HIDE DEF g
  <2> QED BY <1>9, <1>10 DEF Climbs
<1> HIDE DEF g
<1> QED BY <1>1, <1>11

\* How many directories pwd prints: those before the root, or MaxPwdDepth.
LEMMA PwdLength ==
  ASSUME NEW f, Climbs(MaxPwdDepth, f)
  PROVE  \E m \in 0 .. MaxPwdDepth :
           /\ {k \in 0 .. MaxPwdDepth - 1 : f[k] # 0} = 0 .. m - 1
           /\ Cardinality({k \in 0 .. MaxPwdDepth - 1 : f[k] # 0}) = m
<1> DEFINE M == MaxPwdDepth
           Stop == {k \in 0 .. M : k = M \/ f[k] = 0}
           Named == {k \in 0 .. M - 1 : f[k] # 0}
<1>1. M \in Nat /\ M # 0
  BY SizeAssumption
<1>2. PICK m \in Stop : \A j \in Stop : m <= j
  <2>1. Stop \subseteq Nat /\ M \in Stop
    BY <1>1
  <2> HIDE DEF Stop, M
  <2> QED BY <2>1, LeastElement
<1>3. m \in 0 .. M
  BY <1>2
<1>4. \A k \in 0 .. M : k > 0 => f[k] = IF f[k - 1] = 0 THEN 0 ELSE pool[f[k - 1]].parent
  BY DEF Climbs
<1>5. \A k \in 0 .. M : k < m => f[k] # 0
  BY <1>2, <1>3
<1>6. \A k \in 0 .. M - 1 : k >= m => f[k] = 0
  <2> DEFINE Late == {k \in 0 .. M - 1 : k >= m /\ f[k] # 0}
  <2> SUFFICES ASSUME Late # {} PROVE FALSE
    OBVIOUS
  <2>1. PICK l \in Late : \A j \in Late : l <= j
    <3>1. Late \subseteq Nat
      BY <1>1
    <3> HIDE DEF Late
    <3> QED BY <3>1, LeastElement
  <2>2. l # m
    <3>1. m = M \/ f[m] = 0
      BY <1>2
    <3> QED BY <1>1, <1>3, <2>1, <3>1
  <2>3. l - 1 \in 0 .. M - 1 /\ l - 1 >= m /\ l > 0 /\ l \in 0 .. M
    BY <1>1, <1>3, <2>1, <2>2
  <2>4. f[l - 1] = 0
    BY <2>1, <2>3
  <2> QED BY <1>4, <2>1, <2>3, <2>4
<1>7. Named = 0 .. m - 1
  <2>1. \A k \in 0 .. M - 1 : f[k] # 0 <=> k < m
    <3> SUFFICES ASSUME NEW k \in 0 .. M - 1
                 PROVE  f[k] # 0 <=> k < m
      OBVIOUS
    <3>1. k \in 0 .. M /\ (k < m \/ k >= m) /\ (k < m => ~(k >= m))
      BY <1>1, <1>3
    <3> QED BY <1>5, <1>6, <3>1
  <2>2. \A k : k \in 0 .. m - 1 <=> k \in 0 .. M - 1 /\ k < m
    BY <1>1, <1>3
  <2> HIDE DEF M
  <2> QED BY <2>1, <2>2
<1>8. Cardinality(0 .. m - 1) = m
  <2>1. 0 \in Int /\ m - 1 \in Int
    BY <1>3
  <2>2. Cardinality(0 .. m - 1) = IF 0 > m - 1 THEN 0 ELSE m - 1 - 0 + 1
    BY <2>1, FS_Interval
  <2> QED BY <1>3, <2>2
<1> QED BY <1>3, <1>7, <1>8

\* The recursion of fs_pwd_str() in PwdNodes.
ClimbOf(f) ==
  [k \in 0 .. MaxPwdDepth |->
     IF k = 0 THEN cwd ELSE IF f[k - 1] = 0 THEN 0 ELSE pool[f[k - 1]].parent]

PwdOf(f) ==
  LET depth == Cardinality({k \in 0 .. MaxPwdDepth - 1 : f[k] # 0})
  IN [j \in 1 .. depth |-> f[depth - j]]

\* pwd is the path of the parent and one name more.
LEMMA PwdUnfolds ==
  ASSUME NEW f, f = ClimbOf(f)
  PROVE  \E g : g = ClimbOf(g) /\ PwdNodes = PwdOf(g)
<1> DEFINE up == CHOOSE g : g = ClimbOf(g)
<1>1. up = ClimbOf(up)
  OBVIOUS
<1>2. PwdNodes = PwdOf(up)
  BY DEF PwdNodes, PwdOf, ClimbOf
<1> QED BY <1>1, <1>2

\* What pwd prints.
LEMMA PwdFacts ==
  ASSUME TreeInv, StandInv
  PROVE  \E f : \E m \in 0 .. MaxPwdDepth :
           /\ Climbs(MaxPwdDepth, f)
           /\ \A k \in 0 .. MaxPwdDepth : StandsAt(Image, f[k])
           /\ \A k \in 0 .. m - 1 : f[k] # 0
           /\ m < MaxPwdDepth => f[m] = 0
           /\ PwdNodes = [j \in 1 .. m |-> f[m - j]]
<1> DEFINE M == MaxPwdDepth
<1>1. M \in Nat /\ M # 0
  BY SizeAssumption
<1>2. PICK f : Climbs(M, f) /\ \A k \in 0 .. M : StandsAt(Image, f[k])
  BY <1>1, ClimbExists
<1>3. f = ClimbOf(f)
  <2>1. f = [k \in 0 .. M |-> f[k]]
    BY <1>2 DEF Climbs
  <2>2. \A k \in 0 .. M :
          f[k] = IF k = 0 THEN cwd
                 ELSE IF f[k - 1] = 0 THEN 0 ELSE pool[f[k - 1]].parent
    BY <1>2 DEF Climbs
  <2>3. [k \in 0 .. M |-> f[k]] = ClimbOf(f)
    BY <2>2 DEF ClimbOf
  <2> QED BY <2>1, <2>3
<1>4. PICK g : g = ClimbOf(g) /\ PwdNodes = PwdOf(g)
  BY <1>3, PwdUnfolds
<1>5. g = f
  <2> DEFINE Bad == {k \in 0 .. M : g[k] # f[k]}
  <2>1. ASSUME Bad # {} PROVE FALSE
    <3>1. PICK k \in Bad : \A j \in Bad : k <= j
      <4>1. Bad \subseteq Nat
        BY <1>1
      <4> HIDE DEF Bad
      <4> QED BY <2>1, <4>1, LeastElement
    <3>2. k \in 0 .. M /\ (k # 0 => k - 1 \in 0 .. M /\ k - 1 \notin Bad)
      BY <1>1, <3>1
    <3>3. k # 0 => g[k - 1] = f[k - 1]
      BY <3>2
    <3>4. \A j \in 0 .. M :
            g[j] = IF j = 0 THEN cwd
                   ELSE IF g[j - 1] = 0 THEN 0 ELSE pool[g[j - 1]].parent
      BY <1>4 DEF ClimbOf
    <3>5. \A j \in 0 .. M :
            f[j] = IF j = 0 THEN cwd
                   ELSE IF f[j - 1] = 0 THEN 0 ELSE pool[f[j - 1]].parent
      BY <1>2 DEF Climbs
    <3>6. g[k] = f[k]
      BY <3>2, <3>3, <3>4, <3>5
    <3> QED BY <3>1, <3>6
  <2>2. \A k \in 0 .. M : g[k] = f[k]
    BY <2>1
  <2>3. g = [k \in 0 .. M |-> g[k]] /\ f = [k \in 0 .. M |-> f[k]]
    BY <1>3, <1>4 DEF ClimbOf
  <2>4. [k \in 0 .. M |-> g[k]] = [k \in 0 .. M |-> f[k]]
    BY <2>2
  <2> QED BY <2>3, <2>4
<1>6. PICK m \in 0 .. M :
        /\ {k \in 0 .. M - 1 : f[k] # 0} = 0 .. m - 1
        /\ Cardinality({k \in 0 .. M - 1 : f[k] # 0}) = m
  BY <1>2, PwdLength
<1>7. PwdNodes = [j \in 1 .. m |-> f[m - j]]
  BY <1>4, <1>5, <1>6 DEF PwdOf
<1>8. \A k \in 0 .. m - 1 : f[k] # 0
  BY <1>6
<1>9. m < M => f[m] = 0
  <2>1. m \notin 0 .. m - 1
    BY <1>6
  <2>2. m < M => m \in 0 .. M - 1
    BY <1>1, <1>6
  <2> QED BY <1>6, <2>1, <2>2
<1> QED BY <1>2, <1>6, <1>7, <1>8, <1>9

\* cd finds a directory of the tree under its name, in its parent.
LEMMA EnterFinds ==
  ASSUME NEW s \in SnapshotType, WellFormed(s),
         NEW e \in Index \ {0}, InTree(s, e), s.pool[e].name \in Walkable
  PROVE  Enter(s.pool, s.pool[e].parent, s.pool[e].name) = e
<1> DEFINE d == s.pool[e].parent
           name == s.pool[e].name
           child == FindChild(s.pool, d, name)
<1>1. s.pool \in [Index -> NodeType]
  BY SnapshotFields
<1>2. d \in Index /\ IsChildOf(s, e, d)
  <2>1. d >= 0 /\ IsChildOf(s, e, d)
    BY DEF InTree, Attached
  <2>2. d \in Index \cup {-1}
    BY <1>1, NodeFields
  <2>3. ~(-1 >= 0)
    OBVIOUS
  <2> HIDE DEF d
  <2> QED BY <2>1, <2>2, <2>3
<1>3. PICK k \in Live(s.pool[d]) : s.pool[d].children[k] = e
  BY <1>2 DEF IsChildOf
<1>4. k \in Matches(s.pool, d, name)
  BY <1>3 DEF Matches
<1>5. PICK j \in Live(s.pool[d]) : child = s.pool[d].children[j] /\ s.pool[child].name = name
  <2> HIDE DEF d, name
  <2>1. Matches(s.pool, d, name) # {}
    BY <1>4
  <2> QED BY <1>1, <1>2, <2>1, FindChildFinds
<1>6. j = k
  <2>1. s.pool[s.pool[d].children[j]].name = s.pool[s.pool[d].children[k]].name
    BY <1>3, <1>5
  <2>2. SiblingNamesDiffer(s)
    BY DEF WellFormed
  <2> HIDE DEF d, child, name
  <2> QED BY <1>2, <2>1, <2>2 DEF SiblingNamesDiffer
<1>7. child = e
  BY <1>3, <1>5, <1>6
<1>8. child >= 0 /\ s.pool[child].type = "FS_DIR"
  BY <1>7 DEF InTree, Index
<1>9. name \notin {"", ".", ".."}
  BY DEF Walkable
<1>10. Enter(s.pool, d, name) = child
  <2> HIDE DEF d, name
  <2> QED BY <1>8, <1>9 DEF Enter, child
<1> QED BY <1>7, <1>10

\* A directory that stands is reached again along its own path.
LEMMA StandingLeadsBack ==
  ASSUME TreeInv, StandInv
  PROVE  PwdLeadsBack
<1> DEFINE M == MaxPwdDepth
           start == pool[PwdNodes[1]].parent
<1> SUFFICES ASSUME cwd # 0
             PROVE  /\ PwdNames \in Seq(Component)
                    /\ \E trail \in Trails(pool, start, PwdNames) : trail[Len(PwdNames)] = cwd
                    /\ Len(PwdNames) < M => start = 0
  BY DEF PwdLeadsBack
<1>0. M \in Nat /\ M # 0
  BY SizeAssumption
<1>1. /\ Image \in SnapshotType /\ WellFormed(Image) /\ Image.pool = pool
      /\ pool \in [Index -> NodeType]
  BY ImageType, ImageFields DEF TreeInv, TreeIsWellFormed, TypeOK
<1>2. PICK f : \E m \in 0 .. M :
        /\ Climbs(M, f)
        /\ \A k \in 0 .. M : StandsAt(Image, f[k])
        /\ \A k \in 0 .. m - 1 : f[k] # 0
        /\ m < M => f[m] = 0
        /\ PwdNodes = [j \in 1 .. m |-> f[m - j]]
  BY PwdFacts
<1>3. PICK m \in 0 .. M :
        /\ Climbs(M, f)
        /\ \A k \in 0 .. M : StandsAt(Image, f[k])
        /\ \A k \in 0 .. m - 1 : f[k] # 0
        /\ m < M => f[m] = 0
        /\ PwdNodes = [j \in 1 .. m |-> f[m - j]]
  BY <1>2
<1>4. /\ f \in [0 .. M -> Index] /\ f[0] = cwd
      /\ \A k \in 0 .. M : k > 0 /\ f[k - 1] # 0 => f[k] = pool[f[k - 1]].parent
  <2>1. f \in [0 .. M -> Index]
    BY <1>3 DEF Climbs
  <2>2. \A k \in 0 .. M :
          f[k] = IF k = 0 THEN cwd
                 ELSE IF f[k - 1] = 0 THEN 0 ELSE pool[f[k - 1]].parent
    BY <1>3 DEF Climbs
  <2>3. 0 \in 0 .. M
    BY <1>0
  <2> QED BY <2>1, <2>2, <2>3
<1>5. m # 0
  <2>1. m = 0 => m < M
    BY <1>0
  <2> QED BY <1>3, <1>4, <2>1
<1> DEFINE trail == [j \in 1 .. m |-> f[m - j]]
           names == [j \in 1 .. m |-> pool[f[m - j]].name]
<1>6. ASSUME NEW j \in 1 .. m
      PROVE  /\ m - j \in 0 .. m - 1 /\ m - j \in 0 .. M
             /\ f[m - j] \in Index \ {0} /\ InTree(Image, f[m - j])
             /\ pool[f[m - j]].name \in Walkable
  <2>1. m - j \in 0 .. m - 1 /\ m - j \in 0 .. M
    BY <1>0, <1>3
  <2>2. f[m - j] # 0 /\ f[m - j] \in Index /\ StandsAt(Image, f[m - j])
    BY <1>3, <1>4, <2>1
  <2>3. PICK S : IsWay(Image, S) /\ f[m - j] \in S
    BY <2>2 DEF StandsAt
  <2> QED BY <1>1, <2>1, <2>2, <2>3 DEF IsWay
<1>7. PwdNames = names
  <2>1. DOMAIN PwdNodes = 1 .. m /\ \A j \in 1 .. m : PwdNodes[j] = f[m - j]
    BY <1>3
  <2> QED BY <2>1 DEF PwdNames
<1>8. names \in Seq(Component) /\ Len(names) = m
  <2>1. m \in Nat
    BY <1>3
  <2>2. \A j \in 1 .. m : pool[f[m - j]].name \in Component
    BY <1>6 DEF Walkable
  <2> QED BY <2>1, <2>2
<1>9. trail \in [1 .. m -> Index] /\ trail[m] = cwd
  <2>1. m \in 1 .. m /\ m - m = 0
    BY <1>3, <1>5
  <2> QED BY <1>4, <1>6, <2>1
<1>10. ASSUME NEW j \in 1 .. m
       PROVE  trail[j] = Enter(pool, IF j = 1 THEN start ELSE trail[j - 1], names[j])
  <2> DEFINE e == f[m - j]
  <2>1. Enter(pool, pool[e].parent, pool[e].name) = e
    BY <1>1, <1>6, EnterFinds
  <2>2. pool[e].parent = IF j = 1 THEN start ELSE trail[j - 1]
    <3>1. CASE j = 1
      <4>1. PwdNodes[1] = e
        BY <1>3, <3>1
      <4> QED BY <3>1, <4>1
    <3>2. CASE j # 1
      <4>1. /\ j - 1 \in 1 .. m /\ m - (j - 1) \in 0 .. M /\ m - (j - 1) > 0
            /\ (m - (j - 1)) - 1 = m - j
        BY <1>0, <1>3, <3>2
      <4>2. trail[j - 1] = f[m - (j - 1)]
        BY <4>1
      <4>3. f[m - (j - 1)] = pool[e].parent
        <5>1. f[(m - (j - 1)) - 1] = e
          BY <4>1
        <5>2. e # 0
          BY <1>6
        <5> DEFINE l == m - (j - 1)
        <5>3. l \in 0 .. M /\ l > 0 /\ f[l - 1] = e
          BY <4>1, <5>1
        <5> HIDE DEF l, e
        <5>4. f[l] = pool[e].parent
          BY <1>4, <5>2, <5>3
        <5> QED BY <5>4 DEF l, e
      <4> QED BY <3>2, <4>2, <4>3
    <3> QED BY <3>1, <3>2
  <2>3. trail[j] = e /\ names[j] = pool[e].name
    OBVIOUS
  <2> HIDE DEF e, trail, names, start
  <2> QED BY <2>1, <2>2, <2>3
<1>11. trail \in Trails(pool, start, names)
  <2> HIDE DEF trail, names, start
  <2> QED BY <1>8, <1>9, <1>10 DEF Trails
<1>12. m < M => start = 0
  <2>1. 1 \in 1 .. m /\ m \in 0 .. M /\ m > 0 /\ m - 1 \in 0 .. m - 1
    BY <1>0, <1>3, <1>5
  <2>2. PwdNodes[1] = f[m - 1] /\ f[m - 1] # 0
    BY <1>3, <2>1
  <2>3. f[m] = pool[f[m - 1]].parent
    BY <1>4, <2>1, <2>2
  <2> QED BY <1>3, <2>2, <2>3
<1> HIDE DEF trail, names, start, M
<1> QED BY <1>7, <1>8, <1>9, <1>11, <1>12

\* Wherever the commands lead: cd understands the names that pwd prints, from
\* the root if they are fewer than MaxPwdDepth, and in a directory however deep
\* from the ancestor where they begin.
THEOREM PwdAlwaysLeadsBack == Spec => []PwdLeadsBack
<1>1. Init => StandInv
  BY RootStands DEF Init, StandInv
<1>2. TreeInv /\ StandInv /\ [Next]_vars => StandInv'
  BY StepKeepsStandInv
<1>3. TreeInv /\ StandInv => PwdLeadsBack
  BY StandingLeadsBack
<1> QED BY <1>1, <1>2, <1>3, TreeInvHolds, PTL DEF Spec
=============================================================================
