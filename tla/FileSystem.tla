----------------------------- MODULE FileSystem -----------------------------
(***************************************************************************)
(* fs/fs.c: the in-memory filesystem of DahleOS, a flat pool of nodes that *)
(* are linked by index, and the snapshot of it that every mutating command *)
(* hands to persist_save_fs().  One action is one shell command, run to    *)
(* its end (the shell is single-threaded), including the save it finishes  *)
(* with.  How the snapshot reaches the disk, sector by sector, is module   *)
(* Persist; here a save has one of three outcomes (see SaveFs).            *)
(***************************************************************************)
EXTENDS Integers, FiniteSets, Sequences

CONSTANTS
  MaxNodes,     \* FS_MAX_NODES, 64 in the code
  MaxChildren,  \* FS_MAX_CHILDREN, 16 in the code
  MaxPwdDepth,  \* the length of stack[] in fs_pwd_str(), 32 in the code
  Name,         \* names a user may type after mkdir, touch and rm
  SlashName,    \* those of them with a slash inside
  Path,         \* arguments a user may type after cd, see PathType
  DiskFaults,   \* may a save, or the read at boot, fail or be cut short?
  NoSnapshot    \* the data sectors hold no image, or parts of several

\* A typed name is what first_token() leaves: never empty.  A component of a
\* path may be (two slashes in a row) and holds no slash.
Component == (Name \ SlashName) \cup {"", ".", ".."}
PathType == [absolute : BOOLEAN, components : Seq(Component)]

ASSUME SizeAssumption == /\ MaxNodes \in Nat /\ MaxNodes >= 3
                         /\ MaxChildren \in Nat /\ MaxChildren >= 2
                         /\ MaxPwdDepth \in Nat \ {0}
ASSUME NameAssumption == /\ {"home", "tmp"} \subseteq Name \ SlashName
                         /\ "" \notin Name
                         /\ "/" \notin Name
ASSUME PathAssumption == Path \subseteq PathType
ASSUME FaultAssumption == DiskFaults \in BOOLEAN

VARIABLES
  pool,       \* every node, by index; node 0 is the root
  pool_used,  \* nodes handed out so far; no slot is ever given back
  cwd,        \* index of the current directory
  fs_listed,  \* the SAVELIST_FS bit of savelist_flags
  disk,       \* the image in the data sectors, or NoSnapshot
  header_ok   \* does the header vouch for it (FS flag and checksum)?

saved_vars == <<disk, header_ok>>
vars == <<pool, pool_used, cwd, fs_listed, saved_vars>>

Index == 0 .. MaxNodes - 1
Slot == 0 .. MaxChildren - 1

NodeType == [name : Name \cup {"", "/"}, type : {"FS_DIR", "FS_FILE"},
             parent : Index \cup {-1}, children : [Slot -> Index],
             child_count : 0 .. MaxChildren]

SnapshotType == [pool : [Index -> NodeType], pool_used : 0 .. MaxNodes,
                 cwd : Index]

ASSUME SnapshotAssumption == NoSnapshot \notin SnapshotType

TypeOK ==
  /\ pool \in [Index -> NodeType]
  /\ pool_used \in 0 .. MaxNodes
  /\ cwd \in Index
  /\ fs_listed \in BOOLEAN
  /\ disk \in SnapshotType \cup {NoSnapshot}
  /\ header_ok \in BOOLEAN

-----------------------------------------------------------------------------
(* Nodes and the search of a directory. *)

\* memset(&pool[idx], 0, ...): a slot nobody has allocated.
ZeroNode == [name |-> "", type |-> "FS_DIR", parent |-> 0,
             children |-> [k \in Slot |-> 0], child_count |-> 0]

Fresh(name, type, parent) ==
  [ZeroNode EXCEPT !.name = name, !.type = type, !.parent = parent]

Live(node) == {k \in Slot : k < node.child_count}

Matches(p, d, name) ==
  {k \in Live(p[d]) : p[p[d].children[k]].name = name}

\* node_find_child(): the first match, or -1.
FindChild(p, d, name) ==
  IF Matches(p, d, name) = {}
  THEN -1
  ELSE p[d].children[CHOOSE k \in Matches(p, d, name) :
                       \A j \in Matches(p, d, name) : k <= j]

\* The image persist_save_fs() serialises.
Image == [pool |-> pool, pool_used |-> pool_used, cwd |-> cwd]

\* Mutant: pool_used is taken before the command, the rest after it.
SaveFsOldCount ==
  IF ~fs_listed THEN UNCHANGED saved_vars
  ELSE /\ disk' = [Image' EXCEPT !.pool_used = pool_used]
       /\ header_ok' = TRUE

\* Mutant: the image is serialised before the command has changed it.
SaveFsTooEarly ==
  IF ~fs_listed THEN UNCHANGED saved_vars
  ELSE disk' = Image /\ header_ok' = TRUE

\* persist_save_fs() as a command sees it: skipped when the category is off
\* the save list; otherwise the new image and its header are on disk.  When
\* the disk may fail or lose power, the save may also stop before the first
\* sector, among the sectors, or before its header.
SaveFs ==
  IF ~fs_listed THEN UNCHANGED saved_vars
  ELSE \/ disk' = Image' /\ header_ok' = TRUE
       \/ /\ DiskFaults
          /\ \/ UNCHANGED saved_vars
             \/ disk' \in {Image', NoSnapshot} /\ header_ok' \in BOOLEAN

\* A save of the aliases, or of the save list, writes the header again with
\* the fields of the last one it read: an old one when that read failed.
RewriteHeader ==
  /\ UNCHANGED disk
  /\ header_ok' \in IF DiskFaults THEN BOOLEAN ELSE {header_ok}

-----------------------------------------------------------------------------
(* The commands. *)

\* fs_init(): the root with "home" and "tmp".
DefaultPool ==
  [i \in Index |->
    CASE i = 0 -> [ZeroNode EXCEPT
                     !.name = "/", !.parent = -1, !.child_count = 2,
                     !.children = [k \in Slot |->
                        IF k < 2 THEN k + 1 ELSE 0]]
      [] i = 1 -> Fresh("home", "FS_DIR", 0)
      [] i = 2 -> Fresh("tmp", "FS_DIR", 0)
      [] OTHER -> ZeroNode]

FsInit == pool' = DefaultPool /\ pool_used' = 3 /\ cwd' = 0

Init == /\ pool = DefaultPool /\ pool_used = 3 /\ cwd = 0
        /\ fs_listed = TRUE
        /\ disk = NoSnapshot
        /\ header_ok = FALSE

\* node_add_child() on a directory with room.
AddChild(node, child) ==
  [node EXCEPT !.children = [@ EXCEPT ![node.child_count] = child],
               !.child_count = @ + 1]

\* node_add_child() succeeds: the new node becomes the last child of cwd.
Attach(name, type) ==
  /\ pool[cwd].child_count < MaxChildren
  /\ pool' = [pool EXCEPT ![pool_used] = Fresh(name, type, cwd),
                          ![cwd] = AddChild(@, pool_used)]
  /\ pool_used' = pool_used + 1
  /\ UNCHANGED <<cwd, fs_listed>>
  /\ SaveFs

\* node_add_child() fails: the node stays allocated, named and without a
\* parent, and nothing is saved.
Leak(name, type) ==
  /\ pool[cwd].child_count >= MaxChildren
  /\ pool' = [pool EXCEPT ![pool_used] = Fresh(name, type, -1)]
  /\ pool_used' = pool_used + 1
  /\ UNCHANGED <<cwd, fs_listed, saved_vars>>

\* Mutant: node_alloc() lets the count pass the array.
CreateBeyondPool(name, type) ==
  /\ FindChild(pool, cwd, name) = -1
  /\ pool_used <= MaxNodes
  /\ Attach(name, type) \/ Leak(name, type)

Create(name, type) ==
  /\ FindChild(pool, cwd, name) = -1
  /\ pool_used < MaxNodes
  /\ Attach(name, type) \/ Leak(name, type)

Mkdir(name) == Create(name, "FS_DIR")

Touch(name) == Create(name, "FS_FILE")

\* Mutant: the shift starts one slot late.
CompactLate(node, i) ==
  [node EXCEPT
     !.children = [k \in Slot |-> IF k > i /\ k < node.child_count - 1
                                  THEN node.children[k + 1]
                                  ELSE node.children[k]],
     !.child_count = @ - 1]

\* The shift left that closes the gap at slot i; the last live slot keeps its
\* old index behind child_count.
Compact(node, i) ==
  [node EXCEPT
     !.children = [k \in Slot |-> IF k >= i /\ k < node.child_count - 1
                                  THEN node.children[k + 1]
                                  ELSE node.children[k]],
     !.child_count = @ - 1]

\* Mutant: the test of the node's type is gone.
RmAnyType(name) ==
  LET child == FindChild(pool, cwd, name)
      i == CHOOSE k \in Live(pool[cwd]) : pool[cwd].children[k] = child
  IN /\ child >= 0
     /\ pool' = [pool EXCEPT ![cwd] = Compact(@, i),
                             ![child] = [@ EXCEPT !.name = ""]]
     /\ UNCHANGED <<pool_used, cwd, fs_listed>>
     /\ SaveFs

Rm(name) ==
  LET child == FindChild(pool, cwd, name)
      i == CHOOSE k \in Live(pool[cwd]) :
             /\ pool[cwd].children[k] = child
             /\ \A j \in Live(pool[cwd]) :
                  pool[cwd].children[j] = child => k <= j
  IN /\ child >= 0
     /\ pool[child].type = "FS_FILE"
     /\ pool' = [pool EXCEPT ![cwd] = Compact(@, i),
                             ![child] = [@ EXCEPT !.name = ""]]
     /\ UNCHANGED <<pool_used, cwd, fs_listed>>
     /\ SaveFs

\* Mutant: cd takes a file for a directory.
EnterAnyType(p, d, component) ==
  CASE component \in {"", "."} -> d
    [] component = ".." -> IF p[d].parent >= 0 THEN p[d].parent ELSE d
    [] OTHER -> FindChild(p, d, component)

\* One component of a path walked from directory d: the next directory, or -1
\* for "no such directory" and "not a directory".
Enter(p, d, component) ==
  LET child == FindChild(p, d, component) IN
  CASE component \in {"", "."} -> d
    [] component = ".." -> IF p[d].parent >= 0 THEN p[d].parent ELSE d
    [] OTHER -> IF child >= 0 /\ p[child].type = "FS_DIR" THEN child ELSE -1

\* The walk of fs_cmd_cd() over a whole path: where it stands after each
\* component.  It is unique, and there is none when a component is refused.
Trails(p, start, components) ==
  {trail \in [1 .. Len(components) -> Index] :
     \A i \in 1 .. Len(components) :
       trail[i] = Enter(p, IF i = 1 THEN start ELSE trail[i - 1],
                        components[i])}

\* "cd" and "cd /" return before the save; every other cd saves.
CdRoot(path) ==
  /\ path.components = <<>>
  /\ cwd' = 0
  /\ UNCHANGED <<pool, pool_used, fs_listed, saved_vars>>

CdWalk(path) ==
  /\ path.components # <<>>
  /\ \E trail \in Trails(pool, IF path.absolute THEN 0 ELSE cwd,
                         path.components) :
       cwd' = trail[Len(path.components)]
  /\ UNCHANGED <<pool, pool_used, fs_listed>>
  /\ SaveFs

Cd(path) == CdRoot(path) \/ CdWalk(path)

\* The filesystem half of the save command.
Save == UNCHANGED <<pool, pool_used, cwd, fs_listed>> /\ SaveFs

\* Mutant: the current directory survives a load.
LoadStateKeepsCwd == /\ disk # NoSnapshot
                     /\ header_ok
                     /\ pool' = disk.pool
                     /\ pool_used' = disk.pool_used
                     /\ cwd' = cwd

\* persist_load_fs() accepts the snapshot, and fs_load_state() copies whatever
\* it holds.
LoadState == /\ disk # NoSnapshot
             /\ header_ok
             /\ pool' = disk.pool
             /\ pool_used' = disk.pool_used
             /\ cwd' = disk.cwd

\* The filesystem half of the load command.  It ignores the save list.
Load == LoadState /\ UNCHANGED <<fs_listed, saved_vars>>

\* savelist add fs, savelist remove fs.
SavelistSet == /\ fs_listed' = ~fs_listed
               /\ UNCHANGED <<pool, pool_used, cwd>>
               /\ RewriteHeader

\* alias: the filesystem only sees the header change.
SaveAliases == UNCHANGED <<pool, pool_used, cwd, fs_listed>> /\ RewriteHeader

\* Power off at any moment, then the start of shell_run(): the snapshot is
\* loaded, or the default tree is built when there is none or the disk could
\* not be read.
Reboot ==
  /\ LoadState \/ ((disk = NoSnapshot \/ ~header_ok \/ DiskFaults) /\ FsInit)
  /\ fs_listed' \in IF DiskFaults THEN BOOLEAN ELSE {fs_listed}
  /\ UNCHANGED saved_vars

Next ==
  \/ \E name \in Name : Mkdir(name) \/ Touch(name) \/ Rm(name)
  \/ \E path \in Path : Cd(path)
  \/ Save \/ Load \/ SavelistSet \/ SaveAliases \/ Reboot

Spec == Init /\ [][Next]_vars

-----------------------------------------------------------------------------
(* What pwd and ls print. *)

\* fs_pwd_str(): the nodes from cwd upwards, at most MaxPwdDepth of them,
\* reversed.  A deeper directory loses those nearest to the root.
PwdNodes ==
  LET up[k \in 0 .. MaxPwdDepth] ==
        IF k = 0 THEN cwd
        ELSE IF up[k - 1] = 0 THEN 0 ELSE pool[up[k - 1]].parent
      depth == Cardinality({k \in 0 .. MaxPwdDepth - 1 : up[k] # 0})
  IN [j \in 1 .. depth |-> up[depth - j]]

PwdNames == [j \in DOMAIN PwdNodes |-> pool[PwdNodes[j]].name]

\* fs_cmd_ls(): one entry per live slot, in slot order.
Listing(p, d) ==
  [k \in 1 .. p[d].child_count |->
     [name |-> p[p[d].children[k - 1]].name,
      type |-> p[p[d].children[k - 1]].type]]

-----------------------------------------------------------------------------
(* The shape every reachable pool has.  s is Image or a saved snapshot. *)

IsChildOf(s, c, d) == \E k \in Live(s.pool[d]) : s.pool[d].children[k] = c

Attached(s, i) ==
  i = 0 \/ (s.pool[i].parent >= 0 /\ IsChildOf(s, i, s.pool[i].parent))

RootIsFixed(s) ==
  /\ s.pool[0].type = "FS_DIR"
  /\ s.pool[0].parent = -1
  /\ s.pool[0].name = "/"
  /\ s.pool_used > 0

\* Every entry of a directory is an allocated, named node younger than the
\* directory and points back at it; a file has no entries.
EntriesPointBack(s) ==
  \A d \in Index : \A k \in Live(s.pool[d]) :
    LET c == s.pool[d].children[k]
    IN /\ s.pool[d].type = "FS_DIR"
       /\ d < c
       /\ c < s.pool_used
       /\ s.pool[c].parent = d
       /\ s.pool[c].name # ""

\* ls lists a directory in the order of creation, so no entry appears twice.
EntriesInCreationOrder(s) ==
  \A d \in Index : \A j, k \in Live(s.pool[d]) :
    j < k => s.pool[d].children[j] < s.pool[d].children[k]

SiblingNamesDiffer(s) ==
  \A d \in Index : \A j, k \in Live(s.pool[d]) :
    j # k => s.pool[s.pool[d].children[j]].name
               # s.pool[s.pool[d].children[k]].name

\* Only the root and nodes that hang in the tree have entries, so every
\* entry is reachable from the root.
NoOrphanSubtree(s) ==
  \A d \in Index : s.pool[d].child_count > 0 => Attached(s, d)

CwdInTree(s) == s.pool[s.cwd].type = "FS_DIR" /\ Attached(s, s.cwd)

UnusedSlotsEmpty(s) == \A i \in Index : i >= s.pool_used => s.pool[i] = ZeroNode

WellFormed(s) ==
  /\ RootIsFixed(s)
  /\ EntriesPointBack(s)
  /\ EntriesInCreationOrder(s)
  /\ SiblingNamesDiffer(s)
  /\ NoOrphanSubtree(s)
  /\ CwdInTree(s)
  /\ UnusedSlotsEmpty(s)

\* After any run of commands, saves, loads and reboots the pool is a tree
\* rooted at node 0 with distinct names in every directory, and cwd is a
\* directory of it: fs.c follows parent and children[] without a check, and
\* fs_load_state() validates nothing it copies.
TreeIsWellFormed == WellFormed(Image)

\* The same of what a later boot or load will copy into the pool.
SavedTreeIsWellFormed == disk # NoSnapshot => WellFormed(disk)

\* The two together are inductive.
TreeInv == TypeOK /\ TreeIsWellFormed /\ SavedTreeIsWellFormed

\* The walk of fs_cmd_cd() along the names that pwd prints (fs_pwd_str()) comes
\* back to the same directory.  It sets out from the root when they are fewer
\* than MaxPwdDepth; in a deeper directory, where pwd has lost the head of the
\* path, from the ancestor at which what is left of it begins.  mkdir takes
\* names cd cannot walk (".", "..", or with a slash inside, which cd takes for
\* two), but nobody can ever stand in or below such a directory.
PwdLeadsBack ==
  cwd # 0
  => LET start == pool[PwdNodes[1]].parent
     IN /\ PwdNames \in Seq(Component)
        /\ \E trail \in Trails(pool, start, PwdNames) : trail[Len(PwdNames)] = cwd
        /\ Len(PwdNames) < MaxPwdDepth => start = 0

\* Within one boot a directory stays where it was made, under the name it was
\* made with: rm refuses it and no other command unlinks anything.  So the
\* index in cwd, kept between commands, never goes stale.
DirectoriesStay ==
  [][\/ \A d \in Index :
          Attached(Image, d) /\ pool[d].type = "FS_DIR"
          => /\ Attached(Image', d)
             /\ pool'[d].type = "FS_DIR"
             /\ pool'[d].name = pool[d].name
             /\ pool'[d].parent = pool[d].parent
     \/ Load
     \/ Reboot]_pool

\* What ls can show, directory by directory.
Listings(p) == [d \in Index |-> Listing(p, d)]

\* On a disk that works, while fs is on the save list, a command that changes
\* what any ls prints ends with the whole image on disk (CHANGELOG, v0.2.1:
\* auto-save on mkdir, touch, rm).
ListingChangesAreSaved ==
  [][\/ ~fs_listed
     \/ Listings(pool') = Listings(pool)
     \/ disk' = Image' /\ header_ok'
     \/ Reboot]_pool
=============================================================================
