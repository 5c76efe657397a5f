------------------------ MODULE FsRefinement_proofs ------------------------
(***************************************************************************)
(* The pool of fs.c implements the tree of FsTree, for every pool size,    *)
(* directory size, name set and path set, on a disk that works.            *)
(*                                                                         *)
(* Places are defined by recursion over parents.  Every fact about them is *)
(* proved for the node with the least index of which it could be wrong:    *)
(* a parent is older than its entries.                                     *)
(***************************************************************************)
EXTENDS FsRefinement, FileSystem_proofs

-----------------------------------------------------------------------------
(* Places. *)

\* The equation of PlacesIn.
Spells(s, f) ==
  f = [i \in InUse(s) |->
         IF i = 0 THEN <<>> ELSE Append(f[s.pool[i].parent], s.pool[i].name)]

\* What a place is made of.
NodeName == Name \cup {"", "/"}
Places == Seq(NodeName)

\* A place and the place of one of its entries.
LEMMA AppendPlace ==
  ASSUME NEW p \in Places, NEW name \in NodeName
  PROVE  /\ Append(p, name) \in Places /\ Append(p, name) # <<>>
         /\ Len(p) \in Nat /\ Len(Append(p, name)) = Len(p) + 1
         /\ Append(p, name)[Len(p) + 1] = name
         /\ \A k \in 1 .. Len(p) : Append(p, name)[k] = p[k]
BY AppendProperties DEF Places

\* Two equal places have equal ends.
LEMMA PlaceEnds ==
  ASSUME NEW p \in Places, NEW q \in Places, NEW x \in NodeName, NEW y \in NodeName,
         Append(p, x) = Append(q, y)
  PROVE  p = q /\ x = y
<1> DEFINE m == Len(p)
           n == Len(q)
           r == Append(q, y)
<1>1. m \in Nat /\ Len(r) = m + 1 /\ r[m + 1] = x /\ \A k \in 1 .. m : r[k] = p[k]
  <2> DEFINE t == Append(p, x)
  <2>1. m \in Nat /\ Len(t) = m + 1 /\ t[m + 1] = x /\ \A k \in 1 .. m : t[k] = p[k]
    BY AppendPlace
  <2>2. t = r
    OBVIOUS
  <2> HIDE DEF t, r, m
  <2> QED BY <2>1, <2>2
<1>2. n \in Nat /\ Len(r) = n + 1 /\ r[n + 1] = y /\ \A k \in 1 .. n : r[k] = q[k]
  BY AppendPlace
<1>3. m = n
  <2> HIDE DEF m, n, r
  <2> QED BY <1>1, <1>2
<1>4. x = y /\ \A k \in 1 .. m : p[k] = q[k]
  <2> HIDE DEF m, n, r
  <2> QED BY <1>1, <1>2, <1>3
<1>5. p = q
  BY <1>3, <1>4, SeqEqual DEF Places
<1> QED BY <1>4, <1>5

\* A place is spelled by its path.
LEMMA PlacesSpell ==
  ASSUME NEW s, NEW f, Spells(s, f)
  PROVE  Spells(s, PlacesIn(s))
BY DEF Spells, PlacesIn, InUse

\* The parent of a node of the tree.
LEMMA ParentInUse ==
  ASSUME NEW s \in SnapshotType, WellFormed(s), NEW i \in InUse(s), i # 0
  PROVE  /\ s.pool[i].parent \in InUse(s) /\ s.pool[i].parent < i
         /\ s.pool[i].name \in NodeName
         /\ s.pool[s.pool[i].parent].type = "FS_DIR"
         /\ IsChildOf(s, i, s.pool[i].parent)
<1>1. s.pool \in [Index -> NodeType] /\ i \in Index
  BY SnapshotFields DEF InUse
<1>2. s.pool[i].parent \in Index /\ s.pool[i].name \in NodeName
      /\ IsChildOf(s, i, s.pool[i].parent)
  <2>1. s.pool[i].parent >= 0 /\ IsChildOf(s, i, s.pool[i].parent)
    BY DEF InUse, Attached
  <2>2. s.pool[i].parent \in Index \cup {-1} /\ s.pool[i].name \in NodeName
    BY <1>1, NodeFields DEF NodeName
  <2>3. s.pool[i].parent \in Index
    <3> DEFINE d == s.pool[i].parent
    <3>1. d >= 0 /\ d \in Index \cup {-1}
      BY <2>1, <2>2
    <3> HIDE DEF d
    <3>2. d \in Index
      BY <3>1
    <3> QED BY <3>2 DEF d
  <2> QED BY <2>1, <2>2, <2>3
<1>3. PICK k \in Live(s.pool[s.pool[i].parent]) : s.pool[s.pool[i].parent].children[k] = i
  BY <1>2 DEF IsChildOf
<1>4. Attached(s, s.pool[i].parent) /\ s.pool[s.pool[i].parent].type = "FS_DIR"
  BY <1>2, <1>3, ParentIsDirectory
<1>5. s.pool[i].parent < i
  BY <1>2, <1>3 DEF WellFormed, EntriesPointBack
<1> QED BY <1>2, <1>4, <1>5 DEF InUse

\* Two snapshots spell alike the nodes whose ancestors they have in common.
LEMMA SpellAlike ==
  ASSUME NEW s \in SnapshotType, WellFormed(s), NEW t, NEW f, NEW g,
         Spells(s, f), Spells(t, g),
         NEW B, B \subseteq InUse(s), B \subseteq InUse(t),
         \A i \in B \ {0} : /\ t.pool[i].parent = s.pool[i].parent
                            /\ t.pool[i].name = s.pool[i].name
                            /\ s.pool[i].parent \in B
  PROVE  \A i \in B : g[i] = f[i]
<1> DEFINE Bad == {i \in B : g[i] # f[i]}
<1> SUFFICES ASSUME Bad # {} PROVE FALSE
  OBVIOUS
<1>0. InUse(s) \subseteq Nat
  BY SizeAssumption DEF InUse, Index
<1>1. Bad \subseteq Nat
  BY <1>0
<1>2. PICK m \in Bad : \A j \in Bad : m <= j
  BY <1>1, LeastElement
<1>3. m \in InUse(s) /\ m \in InUse(t) /\ m \in B /\ m \in Nat
  BY <1>1, <1>2
<1>4. CASE m = 0
  BY <1>2, <1>3, <1>4 DEF Spells
<1>5. CASE m # 0
  <2> DEFINE d == s.pool[m].parent
  <2>1. d \in B /\ d < m
    BY <1>3, <1>5, ParentInUse
  <2>2. d \in Nat
    BY <2>1, SizeAssumption DEF InUse, Index
  <2>3. g[d] = f[d]
    BY <1>1, <1>2, <2>1, <2>2
  <2>4. f[m] = Append(f[d], s.pool[m].name)
    BY <1>3, <1>5 DEF Spells
  <2>5. g[m] = Append(g[d], s.pool[m].name)
    BY <1>3, <1>5 DEF Spells
  <2> QED BY <1>2, <2>3, <2>4, <2>5
<1> QED BY <1>4, <1>5

\* The nodes older than n have places.
Spelled(s, n, f) ==
  /\ f \in [InUse(s) \cap 0 .. n - 1 -> Places]
  /\ \A i \in InUse(s) \cap 0 .. n - 1 :
       f[i] = IF i = 0 THEN <<>> ELSE Append(f[s.pool[i].parent], s.pool[i].name)

\* A new child is one more place.
LEMMA OneMorePlace ==
  ASSUME NEW s \in SnapshotType, WellFormed(s), NEW n \in Nat, NEW f, Spelled(s, n, f)
  PROVE  \E g : Spelled(s, n + 1, g)
<1> DEFINE Old == InUse(s) \cap 0 .. n - 1
           New == InUse(s) \cap 0 .. n + 1 - 1
           last == IF n = 0 THEN <<>> ELSE Append(f[s.pool[n].parent], s.pool[n].name)
           g == [i \in New |-> IF i = n THEN last ELSE f[i]]
<1>1. /\ f \in [Old -> Places]
      /\ \A i \in Old :
           f[i] = IF i = 0 THEN <<>> ELSE Append(f[s.pool[i].parent], s.pool[i].name)
  BY DEF Spelled
<1>2. InUse(s) \subseteq Nat
  BY SizeAssumption DEF InUse, Index
<1>3. \A i \in New : i # n => i \in Old
  BY <1>2
<1>4. \A i \in New : i # 0 => s.pool[i].parent \in Old /\ s.pool[i].parent # n
  <2> SUFFICES ASSUME NEW i \in New, i # 0
               PROVE  s.pool[i].parent \in Old /\ s.pool[i].parent # n
    OBVIOUS
  <2>1. s.pool[i].parent \in InUse(s) /\ s.pool[i].parent < i
    BY ParentInUse
  <2> QED BY <1>2, <2>1
<1>5. n \in InUse(s) => last \in Places
  <2>1. CASE n = 0
    BY <2>1 DEF Places
  <2>2. CASE n # 0
    <3> SUFFICES ASSUME n \in InUse(s) PROVE last \in Places
      OBVIOUS
    <3>1. n \in New
      OBVIOUS
    <3>2. f[s.pool[n].parent] \in Places
      BY <1>1, <1>4, <2>2, <3>1
    <3>3. s.pool[n].name \in NodeName
      BY <2>2, ParentInUse
    <3>4. Append(f[s.pool[n].parent], s.pool[n].name) \in Places
      BY <3>2, <3>3, AppendPlace
    <3> QED BY <2>2, <3>4
  <2> QED BY <2>1, <2>2
<1>6. g \in [New -> Places]
  <2>1. \A i \in New : (IF i = n THEN last ELSE f[i]) \in Places
    <3> HIDE DEF last
    <3> QED BY <1>1, <1>3, <1>5
  <2> QED BY <2>1
<1>7. ASSUME NEW i \in New
      PROVE  g[i] = IF i = 0 THEN <<>> ELSE Append(g[s.pool[i].parent], s.pool[i].name)
  <2>1. i # 0 => g[s.pool[i].parent] = f[s.pool[i].parent]
    <3> SUFFICES ASSUME i # 0 PROVE g[s.pool[i].parent] = f[s.pool[i].parent]
      OBVIOUS
    <3>1. s.pool[i].parent \in Old /\ s.pool[i].parent # n
      BY <1>4
    <3>2. s.pool[i].parent \in New
      BY <3>1, <1>2
    <3> HIDE DEF last
    <3> QED BY <3>1, <3>2
  <2>2. CASE i = n
    BY <2>1, <2>2
  <2>3. CASE i # n
    BY <1>1, <1>3, <2>1, <2>3
  <2> QED BY <2>2, <2>3
<1>8. Spelled(s, n + 1, g)
  <2>1. InUse(s) \cap 0 .. (n + 1) - 1 = New
    OBVIOUS
  <2> HIDE DEF g, New
  <2> QED BY <1>6, <1>7, <2>1 DEF Spelled
<1> QED BY <1>8

\* So every node of the tree has one.
LEMMA PlacesExist ==
  ASSUME NEW s \in SnapshotType, WellFormed(s)
  PROVE  \E f \in [InUse(s) -> Places] : Spells(s, f)
<1> DEFINE Bad == {n \in Nat : ~ \E f : Spelled(s, n, f)}
<1>1. Bad = {}
  <2> SUFFICES ASSUME Bad # {} PROVE FALSE
    OBVIOUS
  <2>1. PICK m \in Bad : \A j \in Bad : m <= j
    <3>1. Bad \subseteq Nat
      OBVIOUS
    <3> HIDE DEF Bad
    <3> QED BY <3>1, LeastElement
  <2>2. m # 0
    <3>1. InUse(s) \cap 0 .. 0 - 1 = {}
      OBVIOUS
    <3>2. Spelled(s, 0, [i \in {} |-> <<>>])
      BY <3>1 DEF Spelled
    <3> QED BY <2>1, <3>2
  <2>3. m - 1 \in Nat /\ m - 1 \notin Bad /\ (m - 1) + 1 = m
    BY <2>1, <2>2
  <2>4. PICK f : Spelled(s, m - 1, f)
    BY <2>3
  <2>5. \E g : Spelled(s, (m - 1) + 1, g)
    BY <2>3, <2>4, OneMorePlace
  <2> QED BY <2>1, <2>3, <2>5
<1>2. PICK f : Spelled(s, MaxNodes, f)
  BY <1>1, SizeAssumption
<1>3. InUse(s) \cap 0 .. MaxNodes - 1 = InUse(s)
  BY DEF InUse, Index
<1>4. f \in [InUse(s) -> Places] /\ Spells(s, f)
  <2>1. f \in [InUse(s) -> Places]
    BY <1>2, <1>3 DEF Spelled
  <2>2. \A i \in InUse(s) :
          f[i] = IF i = 0 THEN <<>> ELSE Append(f[s.pool[i].parent], s.pool[i].name)
    BY <1>2, <1>3 DEF Spelled
  <2> QED BY <2>1, <2>2 DEF Spells
<1> QED BY <1>4

\* What PlacesIn is.
LEMMA PlaceFacts ==
  ASSUME NEW s \in SnapshotType, WellFormed(s)
  PROVE  /\ Spells(s, PlacesIn(s))
         /\ PlacesIn(s) \in [InUse(s) -> Places]
         /\ PlacesIn(s)[0] = <<>>
         /\ \A i \in InUse(s) \ {0} :
              PlacesIn(s)[i] = Append(PlacesIn(s)[s.pool[i].parent], s.pool[i].name)
<1>1. PICK f \in [InUse(s) -> Places] : Spells(s, f)
  BY PlacesExist
<1>2. Spells(s, PlacesIn(s))
  BY <1>1, PlacesSpell
<1>3. \A i \in InUse(s) : PlacesIn(s)[i] = f[i]
  <2>1. \A i \in InUse(s) \ {0} : s.pool[i].parent \in InUse(s)
    BY ParentInUse
  <2> QED BY <1>1, <1>2, <2>1, SpellAlike
<1>4. PlacesIn(s) = [i \in InUse(s) |-> PlacesIn(s)[i]]
  BY <1>2 DEF Spells
<1>5. PlacesIn(s) \in [InUse(s) -> Places]
  BY <1>1, <1>3, <1>4
<1>6. PlacesIn(s)[0] = <<>>
  BY <1>2, RootInUse DEF Spells
<1>7. ASSUME NEW i \in InUse(s) \ {0}
      PROVE  PlacesIn(s)[i] = Append(PlacesIn(s)[s.pool[i].parent], s.pool[i].name)
  BY <1>2 DEF Spells
<1> QED BY <1>2, <1>5, <1>6, <1>7

\* No two nodes have the same place.
LEMMA PlacesDiffer ==
  ASSUME NEW s \in SnapshotType, WellFormed(s),
         NEW i \in InUse(s), NEW j \in InUse(s), PlacesIn(s)[i] = PlacesIn(s)[j]
  PROVE  i = j
<1> DEFINE P == PlacesIn(s)
           Bad == {x \in InUse(s) : \E y \in InUse(s) : y # x /\ P[x] = P[y]}
<1> SUFFICES ASSUME Bad # {} PROVE FALSE
  OBVIOUS
<1>1. InUse(s) \subseteq Nat
  BY SizeAssumption DEF InUse, Index
<1>2. PICK m \in Bad : \A x \in Bad : m <= x
  <2>1. Bad \subseteq Nat
    BY <1>1
  <2> HIDE DEF Bad
  <2> QED BY <2>1, LeastElement
<1>3. PICK y \in InUse(s) : y # m /\ P[m] = P[y]
  BY <1>2
<1>4. m \in InUse(s) /\ m \in Nat /\ y \in Nat /\ m < y
  <2>1. y \in Bad
    BY <1>2, <1>3
  <2> QED BY <1>1, <1>2, <1>3, <2>1
<1>5. y # 0
  BY <1>4
<1> DEFINE d == s.pool[m].parent
           e == s.pool[y].parent
<1>6. P[y] = Append(P[e], s.pool[y].name) /\ P[e] \in Places /\ e \in InUse(s)
      /\ s.pool[y].name \in NodeName
  BY <1>5, PlaceFacts, ParentInUse
<1>7. m # 0
  <2>1. P[y] # <<>>
    BY <1>6, AppendPlace
  <2> QED BY <1>3, <2>1, PlaceFacts
<1>8. P[m] = Append(P[d], s.pool[m].name) /\ P[d] \in Places /\ d \in InUse(s) /\ d < m
      /\ s.pool[m].name \in NodeName
  BY <1>4, <1>7, PlaceFacts, ParentInUse
<1>9. P[d] = P[e] /\ s.pool[m].name = s.pool[y].name
  <2>1. Append(P[d], s.pool[m].name) = Append(P[e], s.pool[y].name)
    BY <1>3, <1>6, <1>8
  <2>2. /\ P[d] \in Places /\ P[e] \in Places
        /\ s.pool[m].name \in NodeName /\ s.pool[y].name \in NodeName
    BY <1>6, <1>8
  <2> HIDE DEF P, d, e
  <2> QED BY <2>1, <2>2, PlaceEnds
<1>10. d = e
  <2>1. d \notin Bad
    <3>1. d \in Nat /\ ~(m <= d)
      <4>1. d \in Nat /\ d < m
        BY <1>1, <1>8
      <4> HIDE DEF d
      <4> QED BY <1>4, <4>1
    <3> HIDE DEF Bad, d
    <3> QED BY <1>2, <3>1
  <2> QED BY <1>6, <1>8, <1>9, <2>1
<1>11. PICK j1 \in Live(s.pool[d]) : s.pool[d].children[j1] = m
  BY <1>4, <1>7, ParentInUse DEF IsChildOf
<1>12. PICK k1 \in Live(s.pool[d]) : s.pool[d].children[k1] = y
  <2>1. IsChildOf(s, y, e)
    BY <1>5, ParentInUse
  <2>2. IsChildOf(s, y, d)
    BY <1>10, <2>1
  <2> QED BY <2>2 DEF IsChildOf
<1>13. d \in Index
  BY <1>8 DEF InUse
<1>14. j1 = k1
  BY <1>9, <1>11, <1>12, <1>13 DEF WellFormed, SiblingNamesDiffer
<1> QED BY <1>3, <1>11, <1>12, <1>14

\* What TreeOf is.
LEMMA TreeFacts ==
  ASSUME NEW s \in SnapshotType, WellFormed(s)
  PROVE  /\ DOMAIN TreeOf(s) = {PlacesIn(s)[i] : i \in InUse(s)}
         /\ \A i \in InUse(s) : TreeOf(s)[PlacesIn(s)[i]] = s.pool[i].type
         /\ TreeOf(s) = [p \in DOMAIN TreeOf(s) |-> TreeOf(s)[p]]
<1> DEFINE P == PlacesIn(s)
           D == {P[i] : i \in InUse(s)}
           Node(p) == CHOOSE i \in InUse(s) : P[i] = p
<1>1. DOMAIN P = InUse(s)
  BY PlaceFacts
<1>2. TreeOf(s) = [p \in D |-> s.pool[Node(p)].type]
  BY <1>1 DEF TreeOf
<1>3. ASSUME NEW i \in InUse(s) PROVE Node(P[i]) = i
  <2>1. Node(P[i]) \in InUse(s) /\ P[Node(P[i])] = P[i]
    OBVIOUS
  <2> QED BY <2>1, PlacesDiffer
<1>4. ASSUME NEW i \in InUse(s) PROVE TreeOf(s)[P[i]] = s.pool[i].type
  BY <1>2, <1>3
<1> QED BY <1>2, <1>4

\* A function that agrees with the pool is its tree.
LEMMA TreeIs ==
  ASSUME NEW s \in SnapshotType, WellFormed(s), NEW T,
         T = [p \in DOMAIN T |-> T[p]],
         DOMAIN T = {PlacesIn(s)[i] : i \in InUse(s)},
         \A i \in InUse(s) : T[PlacesIn(s)[i]] = s.pool[i].type
  PROVE  TreeOf(s) = T
<1>1. DOMAIN TreeOf(s) = DOMAIN T
  BY TreeFacts
<1>2. ASSUME NEW p \in DOMAIN T PROVE TreeOf(s)[p] = T[p]
  <2>1. PICK i \in InUse(s) : p = PlacesIn(s)[i]
    OBVIOUS
  <2> QED BY <2>1, TreeFacts
<1>3. [p \in DOMAIN T |-> TreeOf(s)[p]] = [p \in DOMAIN T |-> T[p]]
  BY <1>2
<1>4. TreeOf(s) = [p \in DOMAIN T |-> TreeOf(s)[p]]
  BY <1>1, TreeFacts
<1> QED BY <1>3, <1>4

-----------------------------------------------------------------------------
(* What a command does to the tree of places. *)

\* A tree with one more place.
Grown(T, place, type) ==
  [p \in DOMAIN T \cup {place} |-> IF p = place THEN type ELSE T[p]]

\* A new entry is a new place below that of the current directory.
LEMMA AddsPlace ==
  ASSUME NEW s \in SnapshotType, NEW t \in SnapshotType, WellFormed(s), WellFormed(t),
         NEW name \in Name, NEW type \in {"FS_DIR", "FS_FILE"}, Adds(s, t, name, type)
  PROVE  LET place == Append(PlacesIn(s)[s.cwd], name) IN
         /\ place \notin DOMAIN TreeOf(s)
         /\ TreeOf(t) = Grown(TreeOf(s), place, type)
         /\ PlacesIn(t)[t.cwd] = PlacesIn(s)[s.cwd]
<1> DEFINE n == s.pool_used
           place == Append(PlacesIn(s)[s.cwd], name)
           T == [p \in DOMAIN TreeOf(s) \cup {place} |->
                   IF p = place THEN type ELSE TreeOf(s)[p]]
<1>1. /\ n \in Index /\ n # 0 /\ n \notin InUse(s) /\ s.cwd \in InUse(s)
      /\ InUse(t) = InUse(s) \cup {n}
      /\ SameNodes(s, t, InUse(s))
      /\ t.pool[n].parent = s.cwd /\ t.pool[n].name = name /\ t.pool[n].type = type
      /\ t.cwd = s.cwd
  BY AddsLinks DEF Adds
<1>2. \A i \in InUse(s) : PlacesIn(t)[i] = PlacesIn(s)[i]
  <2> DEFINE B == InUse(s)
  <2>1. B \subseteq InUse(s) /\ B \subseteq InUse(t)
    BY <1>1
  <2>2. \A i \in B \ {0} : /\ t.pool[i].parent = s.pool[i].parent
                           /\ t.pool[i].name = s.pool[i].name
                           /\ s.pool[i].parent \in B
    BY <1>1, ParentInUse DEF SameNodes
  <2>3. Spells(s, PlacesIn(s)) /\ Spells(t, PlacesIn(t))
    BY PlaceFacts
  <2> HIDE DEF B
  <2>4. \A i \in B : PlacesIn(t)[i] = PlacesIn(s)[i]
    BY <2>1, <2>2, <2>3, SpellAlike
  <2> QED BY <2>4 DEF B
<1>3. PlacesIn(t)[n] = place
  <2>1. PlacesIn(t)[n] = Append(PlacesIn(t)[t.pool[n].parent], t.pool[n].name)
    BY <1>1, PlaceFacts
  <2> QED BY <1>1, <1>2, <2>1
<1>4. place \notin DOMAIN TreeOf(s)
  <2> SUFFICES ASSUME place \in DOMAIN TreeOf(s) PROVE FALSE
    OBVIOUS
  <2>1. PICK j \in InUse(s) : place = PlacesIn(s)[j]
    <3>1. DOMAIN TreeOf(s) = {PlacesIn(s)[i] : i \in InUse(s)}
      BY TreeFacts
    <3> HIDE DEF place
    <3> QED BY <3>1
  <2>2. PlacesIn(t)[j] = PlacesIn(t)[n]
    BY <1>2, <1>3, <2>1
  <2>3. j = n
    BY <1>1, <2>2, PlacesDiffer
  <2> QED BY <1>1, <2>1, <2>3
<1>5. DOMAIN T = {PlacesIn(t)[i] : i \in InUse(t)}
  <2>1. DOMAIN TreeOf(s) = {PlacesIn(s)[i] : i \in InUse(s)}
    BY TreeFacts
  <2>2. DOMAIN T = DOMAIN TreeOf(s) \cup {place}
    OBVIOUS
  <2> HIDE DEF T, place
  <2> QED BY <1>1, <1>2, <1>3, <2>1, <2>2
<1>6. ASSUME NEW i \in InUse(t)
      PROVE  T[PlacesIn(t)[i]] = t.pool[i].type
  <2>1. CASE i = n
    BY <1>1, <1>3, <2>1
  <2>2. CASE i # n
    <3>1. i \in InUse(s)
      BY <1>1, <2>2
    <3>2. PlacesIn(s)[i] \in DOMAIN TreeOf(s) /\ TreeOf(s)[PlacesIn(s)[i]] = s.pool[i].type
      BY <3>1, TreeFacts
    <3>3. t.pool[i].type = s.pool[i].type /\ PlacesIn(t)[i] = PlacesIn(s)[i]
      BY <1>1, <1>2, <3>1 DEF SameNodes
    <3> HIDE DEF place
    <3> QED BY <1>4, <3>2, <3>3
  <2> QED BY <2>1, <2>2
<1>7. TreeOf(t) = T
  <2>1. T = [p \in DOMAIN T |-> T[p]]
    OBVIOUS
  <2> HIDE DEF T
  <2> QED BY <1>5, <1>6, <2>1, TreeIs
<1>8. PlacesIn(t)[t.cwd] = PlacesIn(s)[s.cwd]
  BY <1>1, <1>2
<1> QED BY <1>4, <1>7, <1>8 DEF Grown

\* A leaked node has no place.
LEMMA LeaksPlace ==
  ASSUME NEW s \in SnapshotType, NEW t \in SnapshotType, WellFormed(s), WellFormed(t),
         NEW name \in Name, NEW type \in {"FS_DIR", "FS_FILE"}, Leaks(s, t, name, type)
  PROVE  TreeOf(t) = TreeOf(s) /\ PlacesIn(t)[t.cwd] = PlacesIn(s)[s.cwd]
<1>1. InUse(t) = InUse(s) /\ SameNodes(s, t, InUse(s)) /\ t.cwd = s.cwd /\ s.cwd \in InUse(s)
  BY LeaksLinks, SnapshotFields DEF Leaks, WellFormed, CwdInTree, InUse
<1>2. \A i \in InUse(s) : PlacesIn(t)[i] = PlacesIn(s)[i]
  <2>1. \A i \in InUse(s) \ {0} : /\ t.pool[i].parent = s.pool[i].parent
                                  /\ t.pool[i].name = s.pool[i].name
                                  /\ s.pool[i].parent \in InUse(s)
    BY <1>1, ParentInUse DEF SameNodes
  <2>2. Spells(s, PlacesIn(s)) /\ Spells(t, PlacesIn(t))
    BY PlaceFacts
  <2> QED BY <1>1, <2>1, <2>2, SpellAlike
<1>3. /\ DOMAIN TreeOf(s) = {PlacesIn(t)[i] : i \in InUse(t)}
      /\ \A i \in InUse(t) : TreeOf(s)[PlacesIn(t)[i]] = t.pool[i].type
      /\ TreeOf(s) = [p \in DOMAIN TreeOf(s) |-> TreeOf(s)[p]]
  <2>1. /\ DOMAIN TreeOf(s) = {PlacesIn(s)[i] : i \in InUse(s)}
        /\ \A i \in InUse(s) : TreeOf(s)[PlacesIn(s)[i]] = s.pool[i].type
        /\ TreeOf(s) = [p \in DOMAIN TreeOf(s) |-> TreeOf(s)[p]]
    BY TreeFacts
  <2>2. {PlacesIn(s)[i] : i \in InUse(s)} = {PlacesIn(t)[i] : i \in InUse(t)}
    BY <1>1, <1>2
  <2>3. \A i \in InUse(t) : TreeOf(s)[PlacesIn(t)[i]] = t.pool[i].type
    BY <1>1, <1>2, <2>1 DEF SameNodes
  <2> QED BY <2>1, <2>2, <2>3
<1>4. TreeOf(t) = TreeOf(s)
  BY <1>3, TreeIs
<1> QED BY <1>1, <1>2, <1>4

\* rm takes the place of a file away.
LEMMA RemovesPlace ==
  ASSUME NEW s \in SnapshotType, NEW t \in SnapshotType, WellFormed(s), WellFormed(t),
         NEW i, NEW c, Removes(s, t, i, c)
  PROVE  LET place == Append(PlacesIn(s)[s.cwd], s.pool[c].name) IN
         /\ place \in DOMAIN TreeOf(s) /\ TreeOf(s)[place] = "FS_FILE"
         /\ TreeOf(t) = [p \in DOMAIN TreeOf(s) \ {place} |-> TreeOf(s)[p]]
         /\ PlacesIn(t)[t.cwd] = PlacesIn(s)[s.cwd]
<1> DEFINE place == Append(PlacesIn(s)[s.cwd], s.pool[c].name)
           B == InUse(s) \ {c}
           T == [p \in DOMAIN TreeOf(s) \ {place} |-> TreeOf(s)[p]]
<1>1. /\ c \in InUse(s) /\ c # 0 /\ s.pool[c].parent = s.cwd /\ s.cwd \in B
      /\ s.pool[c].type = "FS_FILE"
      /\ InUse(t) = B /\ SameNodes(s, t, B) /\ t.cwd = s.cwd
  <2>1. t.cwd = s.cwd
    BY DEF Removes
  <2>2. /\ c \in InUse(s) /\ c # 0 /\ s.pool[c].parent = s.cwd
        /\ s.cwd \in InUse(s) /\ c # s.cwd
        /\ s.pool[c].type = "FS_FILE"
        /\ InUse(t) = B /\ SameNodes(s, t, B)
    BY RemovesLinks
  <2> QED BY <2>1, <2>2
<1>2. \A x \in B : PlacesIn(t)[x] = PlacesIn(s)[x]
  <2>1. ASSUME NEW x \in B \ {0}
        PROVE  /\ t.pool[x].parent = s.pool[x].parent
               /\ t.pool[x].name = s.pool[x].name
               /\ s.pool[x].parent \in B
    <3>1. /\ s.pool[x].parent \in InUse(s)
          /\ s.pool[s.pool[x].parent].type = "FS_DIR"
      BY ParentInUse
    <3> QED BY <1>1, <3>1 DEF SameNodes
  <2>2. Spells(s, PlacesIn(s)) /\ Spells(t, PlacesIn(t))
    BY PlaceFacts
  <2>3. B \subseteq InUse(s) /\ B \subseteq InUse(t)
    BY <1>1
  <2> HIDE DEF B
  <2> QED BY <2>1, <2>2, <2>3, SpellAlike
<1>3. PlacesIn(s)[c] = place
  <2>1. PlacesIn(s)[c] = Append(PlacesIn(s)[s.pool[c].parent], s.pool[c].name)
    BY <1>1, PlaceFacts
  <2> QED BY <1>1, <2>1
<1>4. place \in DOMAIN TreeOf(s) /\ TreeOf(s)[place] = "FS_FILE"
  <2>1. PlacesIn(s)[c] \in DOMAIN TreeOf(s)
    <3>1. DOMAIN TreeOf(s) = {PlacesIn(s)[x] : x \in InUse(s)}
      BY TreeFacts
    <3> QED BY <1>1, <3>1
  <2>2. TreeOf(s)[PlacesIn(s)[c]] = "FS_FILE"
    BY <1>1, TreeFacts
  <2> HIDE DEF place
  <2> QED BY <1>3, <2>1, <2>2
<1>5. \A x \in B : PlacesIn(s)[x] # place
  BY <1>1, <1>3, PlacesDiffer
<1>6. DOMAIN T = {PlacesIn(t)[x] : x \in InUse(t)}
  <2>1. DOMAIN TreeOf(s) = {PlacesIn(s)[x] : x \in InUse(s)}
    BY TreeFacts
  <2>2. DOMAIN T = DOMAIN TreeOf(s) \ {place}
    OBVIOUS
  <2>3. InUse(s) = B \cup {c} /\ c \notin B
    BY <1>1
  <2> HIDE DEF T, place, B
  <2>4. {PlacesIn(s)[x] : x \in InUse(s)} = {PlacesIn(s)[x] : x \in B} \cup {place}
    BY <1>3, <2>3
  <2>5. {PlacesIn(t)[x] : x \in B} = {PlacesIn(s)[x] : x \in B}
    BY <1>2
  <2>6. place \notin {PlacesIn(s)[x] : x \in B}
    BY <1>5
  <2> QED BY <1>1, <2>1, <2>2, <2>4, <2>5, <2>6
<1>7. ASSUME NEW x \in InUse(t)
      PROVE  T[PlacesIn(t)[x]] = t.pool[x].type
  <2>1. x \in B /\ x \in InUse(s)
    BY <1>1
  <2>2. PlacesIn(s)[x] \in DOMAIN TreeOf(s) /\ TreeOf(s)[PlacesIn(s)[x]] = s.pool[x].type
    BY <2>1, TreeFacts
  <2>3. t.pool[x].type = s.pool[x].type /\ PlacesIn(t)[x] = PlacesIn(s)[x]
        /\ PlacesIn(s)[x] # place
    BY <1>1, <1>2, <1>5, <2>1 DEF SameNodes
  <2> HIDE DEF place
  <2> QED BY <2>2, <2>3
<1>8. TreeOf(t) = T
  <2>1. T = [p \in DOMAIN T |-> T[p]]
    OBVIOUS
  <2> HIDE DEF T
  <2> QED BY <1>6, <1>7, <2>1, TreeIs
<1>9. PlacesIn(t)[t.cwd] = PlacesIn(s)[s.cwd]
  BY <1>1, <1>2
<1> QED BY <1>4, <1>8, <1>9

\* A move of the current directory changes no place.
LEMMA SamePool ==
  ASSUME NEW s, NEW t, t.pool = s.pool
  PROVE  PlacesIn(t) = PlacesIn(s) /\ TreeOf(t) = TreeOf(s)
<1>1. PlacesIn(t) = PlacesIn(s)
  BY DEF PlacesIn, Attached, IsChildOf
<1>2. TreeOf(t) = TreeOf(s)
  BY <1>1 DEF TreeOf
<1> QED BY <1>1, <1>2

-----------------------------------------------------------------------------
(* The walk of cd. *)

\* The place above that of an entry.
LEMMA PlaceAbove ==
  ASSUME NEW p \in Places, NEW name \in NodeName
  PROVE  SubSeq(Append(p, name), 1, Len(Append(p, name)) - 1) = p
<1> DEFINE q == Append(p, name)
           m == Len(p)
           f == SubSeq(q, 1, m)
<1>1. /\ q \in Seq(NodeName) /\ p \in Seq(NodeName)
      /\ m \in Nat /\ Len(q) = m + 1
      /\ \A k \in 1 .. m : q[k] = p[k]
  BY AppendPlace DEF Places
<1>2. /\ f \in Seq(NodeName)
      /\ Len(f) = IF 1 <= m THEN m - 1 + 1 ELSE 0
      /\ \A k \in 1 .. m - 1 + 1 : f[k] = q[1 + k - 1]
  <2> HIDE DEF q, m
  <2>1. 1 \in 1 .. Len(q) + 1 /\ m \in 0 .. Len(q)
    BY <1>1
  <2> QED BY <1>1, <2>1, SubSeqProperties
<1>3. Len(f) = m /\ \A k \in 1 .. m : f[k] = p[k]
  <2> HIDE DEF f, q, m
  <2> QED BY <1>1, <1>2
<1>4. f = p
  <2> HIDE DEF f, q
  <2> QED BY <1>1, <1>2, <1>3, SeqEqual
<1>5. Len(q) - 1 = m
  <2> HIDE DEF q, m
  <2> QED BY <1>1
<1> QED BY <1>4, <1>5

\* One component leads from a directory to where it leads from its place.
LEMMA EnterSteps ==
  ASSUME TreeInv, NEW d \in Index, InTree(Image, d),
         NEW component \in Component,
         NEW e \in Index, e = Enter(pool, d, component)
  PROVE  Tree!StepTo(PlacesIn(Image)[d], component, PlacesIn(Image)[e])
<1> DEFINE P == PlacesIn(Image)
           T == TreeOf(Image)
<1>1. /\ Image \in SnapshotType /\ WellFormed(Image) /\ Image.pool = pool
      /\ pool \in [Index -> NodeType]
  BY ImageType, ImageFields DEF TreeInv, TreeIsWellFormed, TypeOK
<1>2. d \in InUse(Image)
  BY DEF InTree, InUse
<1>3. CASE component \in {"", "."}
  <2>1. e = d
    BY <1>3 DEF Enter
  <2> QED BY <1>3, <2>1 DEF Tree!StepTo
<1>4. CASE component = ".."
  <2>1. e = IF pool[d].parent >= 0 THEN pool[d].parent ELSE d
    BY <1>4 DEF Enter
  <2>2. CASE d = 0
    <3>1. pool[d].parent = -1
      BY <1>1, <2>2 DEF WellFormed, RootIsFixed
    <3>2. e = d
      BY <2>1, <3>1
    <3>3. P[d] = <<>>
      BY <1>1, <2>2, PlaceFacts
    <3> QED BY <1>4, <3>2, <3>3 DEF Tree!StepTo
  <2>3. CASE d # 0
    <3>1. pool[d].parent \in InUse(Image) /\ pool[d].name \in NodeName
      BY <1>1, <1>2, <2>3, ParentInUse
    <3>2. e = pool[d].parent
      BY <2>1, <3>1 DEF InUse, Index
    <3>3. P[d] = Append(P[e], pool[d].name) /\ P[e] \in Places
      BY <1>1, <1>2, <2>3, <3>1, <3>2, PlaceFacts
    <3>4. P[d] # <<>> /\ P[e] = SubSeq(P[d], 1, Len(P[d]) - 1)
      <4> HIDE DEF P
      <4> QED BY <3>1, <3>3, AppendPlace, PlaceAbove
    <3> QED BY <1>4, <3>4 DEF Tree!StepTo, Tree!Parent
  <2> QED BY <2>2, <2>3
<1>5. CASE component \notin {"", ".", ".."}
  <2> DEFINE child == FindChild(pool, d, component)
  <2>1. e = IF child >= 0 /\ pool[child].type = "FS_DIR" THEN child ELSE -1
    BY <1>5 DEF Enter
  <2>2. -1 \notin Index
    BY SizeAssumption DEF Index
  <2>3. pool[e].type = "FS_DIR" /\ e = child /\ e # -1
    BY <2>1, <2>2
  <2>4. PICK k \in Live(pool[d]) : e = pool[d].children[k] /\ pool[e].name = component
    BY <1>1, <2>3, FindChildFinds
  <2>5. pool[e].parent = d /\ d < e
    <3>1. EntriesPointBack(Image)
      BY <1>1 DEF WellFormed
    <3>2. d \in Index
      BY <1>2 DEF InUse
    <3>3. k \in Live(Image.pool[d]) /\ e = Image.pool[d].children[k]
      BY <1>1, <2>4
    <3>4. Image.pool[e].parent = d /\ d < e
      BY <3>1, <3>2, <3>3 DEF EntriesPointBack
    <3> QED BY <1>1, <3>4
  <2>6. e \in InUse(Image) /\ e # 0
    <3>1. d >= 0 /\ e # 0
      BY <2>5 DEF Index
    <3>2. IsChildOf(Image, e, d)
      BY <1>1, <2>4 DEF IsChildOf
    <3> QED BY <1>1, <2>5, <3>1, <3>2 DEF InUse, Attached
  <2>7. P[e] = Append(P[d], component)
    BY <1>1, <2>4, <2>5, <2>6, PlaceFacts
  <2>8. P[e] \in DOMAIN T /\ T[P[e]] = "FS_DIR"
    <3>1. DOMAIN T = {P[i] : i \in InUse(Image)}
      BY <1>1, TreeFacts
    <3>2. T[P[e]] = "FS_DIR"
      BY <1>1, <2>3, <2>6, TreeFacts
    <3> HIDE DEF T
    <3> QED BY <2>6, <3>1, <3>2
  <2> HIDE DEF P, T
  <2> QED BY <1>5, <2>7, <2>8 DEF Tree!StepTo, P, T
<1> QED BY <1>3, <1>4, <1>5

-----------------------------------------------------------------------------
(* The steps. *)

\* A save that cannot fail keeps a copy of the tree after the command.
LEMMA SaveKeepsCopy ==
  ASSUME ~DiskFaults, SaveFs, fs_listed' = fs_listed, Image' \in SnapshotType
  PROVE  Tree!KeepCopy
<1>1. CASE ~fs_listed
  <2>1. disk' = disk /\ header_ok' = header_ok
    BY <1>1 DEF SaveFs, saved_vars
  <2>2. SavedCopy' = SavedCopy
    BY <2>1 DEF SavedCopy
  <2> QED BY <1>1, <2>2 DEF Tree!KeepCopy
<1>2. CASE fs_listed
  <2>1. disk' = Image' /\ header_ok'
    BY <1>2 DEF SaveFs
  <2>2. disk' # NoSnapshot
    BY <2>1, SnapshotAssumption
  <2>3. SavedCopy' = {Abstraction(Image')}
    BY <2>1, <2>2 DEF SavedCopy
  <2>4. Abstraction(Image') = [tree |-> TreeOf(Image'), wd |-> PlacesIn(Image')[cwd']]
    BY ImageFields DEF Abstraction
  <2> QED BY <1>2, <2>3, <2>4 DEF Tree!KeepCopy
<1> QED BY <1>1, <1>2

\* A step that saves nothing leaves the copy.
LEMMA CopyStays ==
  ASSUME UNCHANGED saved_vars PROVE SavedCopy' = SavedCopy
BY DEF SavedCopy, saved_vars

\* mkdir and touch.
LEMMA CreateMakes ==
  ASSUME ~DiskFaults, TreeInv, NEW name \in Name, NEW type \in {"FS_DIR", "FS_FILE"},
         Create(name, type)
  PROVE  Tree!Make(name, type) \/ UNCHANGED Tree!vars
<1>1. /\ Image \in SnapshotType /\ WellFormed(Image)
      /\ Image' \in SnapshotType /\ WellFormed(Image')
      /\ fs_listed' = fs_listed
      /\ \/ Adds(Image, Image', name, type) /\ SaveFs
         \/ Leaks(Image, Image', name, type) /\ UNCHANGED saved_vars
  BY CreateEffect
<1>2. CASE Adds(Image, Image', name, type) /\ SaveFs
  <2> DEFINE place == Append(PlacesIn(Image)[cwd], name)
  <2>1. /\ place \notin DOMAIN TreeOf(Image)
        /\ TreeOf(Image') = Grown(TreeOf(Image), place, type)
        /\ PlacesIn(Image')[cwd'] = PlacesIn(Image)[cwd]
    <3>1. LET there == Append(PlacesIn(Image)[Image.cwd], name) IN
          /\ there \notin DOMAIN TreeOf(Image)
          /\ TreeOf(Image') = Grown(TreeOf(Image), there, type)
          /\ PlacesIn(Image')[Image'.cwd] = PlacesIn(Image)[Image.cwd]
      BY <1>1, <1>2, AddsPlace
    <3> QED BY <3>1, ImageFields
  <2>2. Tree!KeepCopy
    BY <1>1, <1>2, SaveKeepsCopy
  <2>3. Tree!Make(name, type)
    BY <1>1, <2>1, <2>2 DEF Tree!Make, Grown
  <2> QED BY <2>3
<1>3. CASE Leaks(Image, Image', name, type) /\ UNCHANGED saved_vars
  <2>1. TreeOf(Image') = TreeOf(Image) /\ PlacesIn(Image')[cwd'] = PlacesIn(Image)[cwd]
    BY <1>1, <1>3, LeaksPlace, ImageFields
  <2> QED BY <1>1, <1>3, <2>1, CopyStays DEF Tree!vars
<1> QED BY <1>1, <1>2, <1>3

\* rm removes one place.
LEMMA RmRemoves ==
  ASSUME ~DiskFaults, TreeInv, NEW name \in Name, Rm(name)
  PROVE  Tree!Remove(name)
<1>1. /\ Image \in SnapshotType /\ WellFormed(Image)
      /\ Image' \in SnapshotType /\ WellFormed(Image')
      /\ fs_listed' = fs_listed /\ SaveFs
      /\ \E i, c : Removes(Image, Image', i, c) /\ pool[c].name = name
  BY RmEffect
<1>2. PICK i, c : Removes(Image, Image', i, c) /\ pool[c].name = name
  BY <1>1
<1> DEFINE place == Append(PlacesIn(Image)[cwd], name)
<1>3. /\ place \in DOMAIN TreeOf(Image) /\ TreeOf(Image)[place] = "FS_FILE"
      /\ TreeOf(Image') = [p \in DOMAIN TreeOf(Image) \ {place} |-> TreeOf(Image)[p]]
      /\ PlacesIn(Image')[cwd'] = PlacesIn(Image)[cwd]
  <2>1. LET there == Append(PlacesIn(Image)[Image.cwd], Image.pool[c].name) IN
        /\ there \in DOMAIN TreeOf(Image) /\ TreeOf(Image)[there] = "FS_FILE"
        /\ TreeOf(Image') = [p \in DOMAIN TreeOf(Image) \ {there} |-> TreeOf(Image)[p]]
        /\ PlacesIn(Image')[Image'.cwd] = PlacesIn(Image)[Image.cwd]
    BY <1>1, <1>2, RemovesPlace
  <2> QED BY <1>2, <2>1, ImageFields
<1>4. Tree!KeepCopy
  BY <1>1, SaveKeepsCopy
<1> QED BY <1>1, <1>3, <1>4 DEF Tree!Remove, Tree!Restrict

\* cd changes the working directory only.
LEMMA CdChangesDir ==
  ASSUME ~DiskFaults, TreeInv, NEW path \in Path, Cd(path)
  PROVE  Tree!ChangeDir(path)
<1> DEFINE P == PlacesIn(Image)
           T == TreeOf(Image)
           n == Len(path.components)
<1>1. /\ Image \in SnapshotType /\ WellFormed(Image) /\ Image.pool = pool
      /\ Image'.pool = pool' /\ Image.cwd = cwd
  BY ImageType, ImageFields DEF TreeInv, TreeIsWellFormed
<1>2. path.components \in Seq(Component) /\ n \in Nat
  BY PathAssumption, LenProperties DEF PathType
<1>3. pool' = pool /\ pool_used' = pool_used /\ fs_listed' = fs_listed
  BY DEF Cd, CdRoot, CdWalk
<1>4. PlacesIn(Image') = P /\ TreeOf(Image') = T
  BY <1>1, <1>3, SamePool
<1>5. CASE CdRoot(path)
  <2>1. n = 0
    BY <1>5, <1>2, EmptySeq DEF CdRoot
  <2>2. PlacesIn(Image')[cwd'] = <<>>
    BY <1>1, <1>4, <1>5, PlaceFacts DEF CdRoot
  <2>3. SavedCopy' = SavedCopy
    BY <1>5, CopyStays DEF CdRoot
  <2> QED BY <1>3, <1>4, <2>1, <2>2, <2>3 DEF Tree!ChangeDir
<1>6. CASE CdWalk(path)
  <2> DEFINE start == IF path.absolute THEN 0 ELSE cwd
  <2>1. n > 0
    BY <1>2, <1>6, EmptySeq DEF CdWalk
  <2>2. PICK trail \in Trails(pool, start, path.components) : cwd' = trail[n]
    BY <1>6 DEF CdWalk
  <2>3. start \in Index /\ InTree(Image, start)
    <3>1. 0 \in Index /\ InTree(Image, 0)
      BY <1>1, RootInUse DEF InUse, InTree, WellFormed, RootIsFixed
    <3>2. cwd \in Index /\ InTree(Image, cwd)
      BY <1>1 DEF TreeInv, TypeOK, WellFormed, CwdInTree, InTree
    <3> QED BY <3>1, <3>2
  <2>4. \A i \in 1 .. n : trail[i] \in Index /\ InTree(Image, trail[i])
    <3> HIDE DEF start
    <3> QED BY <1>1, <1>2, <2>2, <2>3, TrailStaysInTree
  <2>5. \A i \in 1 .. n :
          trail[i] = Enter(pool, IF i = 1 THEN start ELSE trail[i - 1], path.components[i])
    BY <2>2 DEF Trails
  <2> DEFINE places == [i \in 1 .. n |-> P[trail[i]]]
  <2>6. places \in [1 .. n -> DOMAIN T]
    <3>1. DOMAIN T = {P[i] : i \in InUse(Image)}
      BY <1>1, TreeFacts
    <3>2. \A i \in 1 .. n : trail[i] \in InUse(Image)
      BY <2>4 DEF InTree, InUse
    <3> HIDE DEF P, T
    <3> QED BY <3>1, <3>2
  <2>7. ASSUME NEW i \in 1 .. n
        PROVE  Tree!StepTo(IF i > 1 THEN places[i - 1]
                           ELSE IF path.absolute THEN <<>> ELSE P[cwd],
                           path.components[i], places[i])
    <3> DEFINE before == IF i = 1 THEN start ELSE trail[i - 1]
               from == IF i > 1 THEN places[i - 1]
                       ELSE IF path.absolute THEN <<>> ELSE P[cwd]
    <3>1. ASSUME i = 1
          PROVE  from = P[before] /\ before \in Index /\ InTree(Image, before)
      <4>1. from = P[before]
        <5>1. P[0] = <<>>
          BY <1>1, PlaceFacts
        <5> HIDE DEF P
        <5> QED BY <3>1, <5>1
      <4>2. before \in Index /\ InTree(Image, before)
        BY <2>3, <3>1
      <4> QED BY <4>1, <4>2
    <3>2. ASSUME i # 1
          PROVE  from = P[before] /\ before \in Index /\ InTree(Image, before)
      <4>1. i - 1 \in 1 .. n /\ i > 1
        BY <1>2, <3>2
      <4>2. from = P[before]
        BY <3>2, <4>1
      <4>3. before \in Index /\ InTree(Image, before)
        BY <2>4, <3>2, <4>1
      <4> QED BY <4>2, <4>3
    <3>3. from = P[before] /\ before \in Index /\ InTree(Image, before)
      BY <3>1, <3>2
    <3>4. path.components[i] \in Component
      BY <1>2
    <3>5. trail[i] \in Index /\ trail[i] = Enter(pool, before, path.components[i])
      BY <2>4, <2>5
    <3>6. Tree!StepTo(P[before], path.components[i], P[trail[i]])
      <4> HIDE DEF before
      <4> QED BY <3>3, <3>4, <3>5, EnterSteps
    <3>7. places[i] = P[trail[i]]
      OBVIOUS
    <3>8. Tree!StepTo(from, path.components[i], places[i])
      <4> HIDE DEF places, from, P, before
      <4> QED BY <3>3, <3>6, <3>7
    <3> QED BY <3>8
  <2>8. PlacesIn(Image')[cwd'] = places[n]
    <3>1. n \in 1 .. n
      BY <1>2, <2>1
    <3> QED BY <1>4, <2>2, <3>1
  <2>9. Tree!KeepCopy
    <3>1. Image' \in SnapshotType
      <4>1. cwd' \in Index
        BY <1>2, <2>1, <2>2, <2>4
      <4> QED BY <1>3, <4>1 DEF TreeInv, TypeOK, Image, SnapshotType
    <3> QED BY <1>3, <1>6, <3>1, SaveKeepsCopy DEF CdWalk
  <2>10. \E steps \in [1 .. n -> DOMAIN T] :
           /\ \A i \in 1 .. n :
                Tree!StepTo(IF i > 1 THEN steps[i - 1]
                            ELSE IF path.absolute THEN <<>> ELSE P[cwd],
                            path.components[i], steps[i])
           /\ PlacesIn(Image')[cwd'] = steps[n]
    <3> HIDE DEF places, P, T
    <3> QED BY <2>6, <2>7, <2>8
  <2> QED BY <1>3, <1>4, <2>1, <2>9, <2>10 DEF Tree!ChangeDir
<1> QED BY <1>5, <1>6 DEF Cd

\* A load brings the saved tree back.
LEMMA LoadRestores ==
  ASSUME TreeInv, LoadState
  PROVE  Tree!Restore
<1>1. disk \in SnapshotType /\ disk # NoSnapshot /\ header_ok
  BY DEF TreeInv, TypeOK, LoadState
<1>2. Image' = disk
  <2>1. disk = [pool |-> disk.pool, pool_used |-> disk.pool_used, cwd |-> disk.cwd]
    BY <1>1 DEF SnapshotType
  <2> QED BY <2>1 DEF LoadState, Image
<1>3. Abstraction(disk) \in SavedCopy
  BY <1>1 DEF SavedCopy
<1>4. /\ TreeOf(Image') = Abstraction(disk).tree
      /\ PlacesIn(Image')[cwd'] = Abstraction(disk).wd
  BY <1>2 DEF Abstraction, LoadState
<1> QED BY <1>3, <1>4 DEF Tree!Restore

\* The default pool is the default tree.
LEMMA DefaultIsTree ==
  /\ TreeOf(DefaultImage) = Tree!DefaultTree
  /\ PlacesIn(DefaultImage)[0] = <<>>
<1> DEFINE s == DefaultImage
           P == PlacesIn(s)
           T == Tree!DefaultTree
<1>1. s \in SnapshotType /\ WellFormed(s) /\ s.pool = DefaultPool
  BY DefaultShape DEF DefaultImage
<1>2. 0 \in Index /\ 1 \in Index /\ 2 \in Index
  BY DefaultNodes
<1>3. /\ Live(s.pool[0]) = {0, 1}
      /\ s.pool[0].children[0] = 1 /\ s.pool[0].children[1] = 2
      /\ s.pool[0].type = "FS_DIR"
  BY <1>1, DefaultNodes
<1>5. /\ s.pool[1].parent = 0 /\ s.pool[1].name = "home" /\ s.pool[1].type = "FS_DIR"
      /\ s.pool[2].parent = 0 /\ s.pool[2].name = "tmp" /\ s.pool[2].type = "FS_DIR"
  BY <1>1, DefaultNodes
<1>6. InUse(s) = {0, 1, 2}
  <2>1. IsChildOf(s, 1, 0) /\ IsChildOf(s, 2, 0)
    BY <1>3 DEF IsChildOf
  <2>2. {0, 1, 2} \subseteq InUse(s)
    BY <1>2, <1>5, <2>1 DEF InUse, Attached
  <2>3. ASSUME NEW i \in InUse(s) PROVE i \in {0, 1, 2}
    <3>1. i \in Index /\ i < 3
      BY <1>1, AttachedIsUsed DEF InUse, DefaultImage
    <3> QED BY <3>1 DEF Index
  <2> QED BY <2>2, <2>3
<1>7. P[0] = <<>> /\ P[1] = <<"home">> /\ P[2] = <<"tmp">>
  <2>1. P[0] = <<>>
    BY <1>1, PlaceFacts
  <2>2. P[1] = Append(P[0], "home") /\ P[2] = Append(P[0], "tmp")
    <3>1. \A i \in InUse(s) \ {0} : P[i] = Append(P[s.pool[i].parent], s.pool[i].name)
      BY <1>1, PlaceFacts
    <3>2. 1 \in InUse(s) \ {0} /\ 2 \in InUse(s) \ {0}
      BY <1>6
    <3> HIDE DEF P, s
    <3> QED BY <1>5, <3>1, <3>2
  <2> HIDE DEF P
  <2> QED BY <2>1, <2>2
<1>8. DOMAIN T = {P[i] : i \in InUse(s)}
  <2>1. DOMAIN T = {<<>>, <<"home">>, <<"tmp">>}
    BY DEF Tree!DefaultTree
  <2> HIDE DEF T, P, s
  <2> QED BY <1>6, <1>7, <2>1
<1>9. ASSUME NEW i \in InUse(s)
      PROVE  T[P[i]] = s.pool[i].type
  <2>1. T[P[i]] = "FS_DIR"
    <3>1. P[i] \in {<<>>, <<"home">>, <<"tmp">>}
      <4> HIDE DEF P, s
      <4> QED BY <1>6, <1>7
    <3> HIDE DEF P
    <3> QED BY <3>1 DEF Tree!DefaultTree
  <2>2. s.pool[i].type = "FS_DIR"
    <3> HIDE DEF s
    <3> QED BY <1>3, <1>5, <1>6
  <2> QED BY <2>1, <2>2
<1>10. T = [p \in DOMAIN T |-> T[p]]
  BY DEF Tree!DefaultTree
<1>11. TreeOf(s) = T
  <2> HIDE DEF T, s
  <2> QED BY <1>1, <1>8, <1>9, <1>10, TreeIs
<1> QED BY <1>7, <1>11

\* A restart loads the copy, or starts with the default tree.
LEMMA RebootStartsAgain ==
  ASSUME ~DiskFaults, TreeInv, Reboot
  PROVE  Tree!StartAgain
<1>1. /\ fs_listed' = fs_listed
      /\ SavedCopy' = SavedCopy
  BY CopyStays DEF Reboot
<1>2. CASE LoadState
  BY <1>1, <1>2, LoadRestores DEF Tree!StartAgain
<1>3. CASE (disk = NoSnapshot \/ ~header_ok) /\ FsInit
  <2>1. SavedCopy = {}
    BY <1>3 DEF SavedCopy
  <2>2. Image' = DefaultImage /\ cwd' = 0
    BY <1>3 DEF FsInit, Image, DefaultImage
  <2>3. TreeOf(Image') = Tree!DefaultTree /\ PlacesIn(Image')[cwd'] = <<>>
    BY <2>2, DefaultIsTree
  <2> QED BY <1>1, <2>1, <2>3 DEF Tree!StartAgain
<1> QED BY <1>2, <1>3 DEF Reboot

\* A save of something else, or of the same tree.
LEMMA StillTree ==
  ASSUME UNCHANGED <<pool, pool_used, cwd, fs_listed>>
  PROVE  /\ TreeOf(Image') = TreeOf(Image) /\ PlacesIn(Image')[cwd'] = PlacesIn(Image)[cwd]
         /\ fs_listed' = fs_listed
<1>1. Image' = Image
  BY DEF Image
<1> QED BY <1>1

\* Every step is a step of the tree, or none.
LEMMA StepIsTreeStep ==
  ASSUME ~DiskFaults, TreeInv, [Next]_vars
  PROVE  [Tree!Next]_(Tree!vars)
<1>1. ASSUME NEW name \in Name, Mkdir(name)
      PROVE  [Tree!Next]_(Tree!vars)
  BY <1>1, CreateMakes DEF Mkdir, Tree!Next
<1>2. ASSUME NEW name \in Name, Touch(name)
      PROVE  [Tree!Next]_(Tree!vars)
  BY <1>2, CreateMakes DEF Touch, Tree!Next
<1>3. ASSUME NEW name \in Name, Rm(name)
      PROVE  [Tree!Next]_(Tree!vars)
  BY <1>3, RmRemoves DEF Tree!Next
<1>4. ASSUME NEW path \in Path, Cd(path)
      PROVE  [Tree!Next]_(Tree!vars)
  BY <1>4, CdChangesDir DEF Tree!Next
<1>5. CASE Save
  <2>1. Image' \in SnapshotType
    BY <1>5 DEF Save, Image, SnapshotType, TreeInv, TypeOK
  <2>2. Tree!KeepCopy
    BY <1>5, <2>1, SaveKeepsCopy DEF Save
  <2>3. Tree!Keep
    BY <1>5, <2>2, StillTree DEF Save, Tree!Keep
  <2> QED BY <2>3 DEF Tree!Next
<1>6. CASE Load
  <2>1. fs_listed' = fs_listed /\ SavedCopy' = SavedCopy
    BY <1>6, CopyStays DEF Load
  <2>2. Tree!BringBack
    BY <1>6, <2>1, LoadRestores DEF Load, Tree!BringBack
  <2> QED BY <2>2 DEF Tree!Next
<1>7. CASE SavelistSet
  <2>1. disk' = disk /\ header_ok' = header_ok
    BY <1>7 DEF SavelistSet, RewriteHeader
  <2>2. SavedCopy' = SavedCopy
    BY <2>1 DEF SavedCopy
  <2>3. Image' = Image /\ cwd' = cwd
    BY <1>7 DEF SavelistSet, Image
  <2>4. Tree!Relist
    BY <1>7, <2>2, <2>3 DEF SavelistSet, Tree!Relist
  <2> QED BY <2>4 DEF Tree!Next
<1>8. CASE SaveAliases
  <2>1. disk' = disk /\ header_ok' = header_ok
    BY <1>8 DEF SaveAliases, RewriteHeader
  <2>2. SavedCopy' = SavedCopy
    BY <2>1 DEF SavedCopy
  <2> QED BY <1>8, <2>2, StillTree DEF SaveAliases, Tree!vars
<1>9. CASE Reboot
  BY <1>9, RebootStartsAgain DEF Tree!Next
<1>10. CASE UNCHANGED vars
  BY <1>10, StillTree, CopyStays DEF vars, Tree!vars
<1> QED BY <1>1, <1>2, <1>3, <1>4, <1>5, <1>6, <1>7, <1>8, <1>9, <1>10 DEF Next

\* The default pool is the default tree.
LEMMA InitIsTreeInit == Init => Tree!Init
<1> SUFFICES ASSUME Init PROVE Tree!Init
  OBVIOUS
<1>1. Image = DefaultImage /\ cwd = 0
  BY DEF Init, Image, DefaultImage
<1>2. SavedCopy = {}
  BY DEF Init, SavedCopy
<1> QED BY <1>1, <1>2, DefaultIsTree DEF Init, Tree!Init

\* On a disk that works the pool of nodes, parent links and child slots of
\* fs.c is a tree of named places, of any size: mkdir, touch, rm, cd, save,
\* load and a reboot do to the places a user sees what FsTree says.
THEOREM PoolIsATree == ~DiskFaults => (Spec => ImplementsTree)
<1> SUFFICES ASSUME ~DiskFaults PROVE Spec => ImplementsTree
  OBVIOUS
<1>1. Init => Tree!Init
  BY InitIsTreeInit
<1>2. TreeInv /\ [Next]_vars => [Tree!Next]_(Tree!vars)
  BY StepIsTreeStep
<1> QED BY <1>1, <1>2, TreeInvHolds, PTL DEF Spec, ImplementsTree, Tree!Spec
=============================================================================
