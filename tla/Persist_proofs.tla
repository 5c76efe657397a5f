--------------------------- MODULE Persist_proofs ---------------------------
(***************************************************************************)
(* What storage/persist.c gives back, for any number of sectors, any       *)
(* images and any faults: nothing torn, nothing older than the last        *)
(* acknowledged save, and on a steady drive everything that was            *)
(* acknowledged.                                                           *)
(***************************************************************************)
EXTENDS PersistRefinement, FiniteSetTheorems, TLAPS

-----------------------------------------------------------------------------
(* The invariant, in parts. *)

\* The calls that each command makes, the current one first.
Queues ==
  [boot |-> {<<Probe>>, <<Load("aliases"), Load("fs")>>, <<Load("fs")>>, <<>>},
   save |-> {<<Save("aliases"), Save("fs")>>, <<Save("fs")>>, <<>>},
   other |-> {<<Save("aliases")>>, <<Save("fs")>>, <<Load("aliases"), Load("fs")>>,
              <<Load("fs")>>, <<SavelistSet>>, <<>>}]

LastStep(call) == IF call.fn \in {"save", "set"} THEN WriteStep(call.of) ELSE 1

\* A call is at one of its steps; only the boot's probe runs before
\* ata_detect() has been asked.
ControlInv ==
  /\ todo \in Queues[cmd]
  /\ step \in 1 .. IF todo = <<>> THEN 1 ELSE LastStep(Head(todo))
  /\ Calling(Probe) => ~disk_present

\* Memory holds what is alike an image, but for the pool the boot has yet to fill.
MemInv ==
  \A c \in Category :
    mem[c] \in Alike[c] \/ (c = "fs" /\ cmd = "boot" /\ todo # <<>>)

Flagged(h, c) == h.magic /\ c \in h.flags

\* A header has checksums of images only.
HeaderSane(h) ==
  \A c \in Category : Flagged(h, c) => \E v \in Alike[c] : h.csum[c] = Checksum(v)

HeadersInv ==
  /\ HeaderSane(disk.hdr) /\ HeaderSane(durable.hdr)
  /\ \A o \in Owner : HeaderSane(hdr_buf[o])

Sound == TypeOK /\ ControlInv /\ MemInv /\ HeadersInv

\* Every sector of d is of an image since the last acknowledged save.
SectorsRecent(d, c) ==
  \A k \in Sectors(c) : \E v \in recent[c] : d.data[c][k] = v[k]

Unflagged(c) ==
  /\ ~Flagged(disk.hdr, c) /\ ~Flagged(durable.hdr, c)
  /\ \A o \in Owner : ~Flagged(hdr_buf[o], c)

\* What a save has done so far, when the drive reports its failures.
ReportedInv ==
  /\ \A c \in Category : Unflagged(c) \/ (SectorsRecent(disk, c) /\ SectorsRecent(durable, c))
  /\ \A c \in Category : Calling(Save(c)) /\ step > 1 =>
       /\ mem[c] \in recent[c]
       /\ \A k \in Sectors(c) : k < step => disk.data[c][k] = mem[c][k]
       /\ step > SectorCount[c] => durable.data[c] = disk.data[c]

\* The image of c is on the disk, and the header says so.
Kept(c) ==
  \E v \in Alike[c] :
    /\ recent[c] = {v}
    /\ disk.data[c] = v /\ durable.data[c] = v
    /\ Flagged(disk.hdr, c) /\ disk.hdr.csum[c] = Checksum(v)

\* The save of c is still to come in this command.
Ahead(c) == \E i \in 1 .. Len(todo) : todo[i] = Save(c)

\* On a steady drive: the header of the disk is the durable one and vouches for
\* an image since the last acknowledged save, and acknowledged is stored.
StoredInv ==
  /\ durable.hdr = disk.hdr
  /\ \A c \in Category : Flagged(disk.hdr, c) =>
       \E v \in recent[c] : disk.hdr.csum[c] = Checksum(v)
  /\ \A c \in acked : Kept(c)

\* The header in the buffer is not stale when it is written back.
BufferInv ==
  todo # <<>> /\ Updating(Head(todo).of) /\ step = WriteStep(Head(todo).of) /\ ~drive_err
  => hdr_buf[Head(todo).of] = disk.hdr

\* A save command without a complaint has saved what it has been through.
SavingInv ==
  cmd = "save" /\ results \subseteq {"ATA_OK"} =>
    \A c \in savelist : Ahead(c) \/ (c \in acked /\ recent[c] = {mem[c]})

\* The disk has the save list, unless that is being written.
SavelistInv ==
  disk_present /\ ~drive_err /\ disk.hdr.magic
  => Calling(SavelistSet) \/ disk.hdr.savelist = savelist

SteadyInv == StoredInv /\ BufferInv /\ SavingInv /\ SavelistInv

PersistInv ==
  /\ Sound
  /\ "lost" \notin faults => ReportedInv
  /\ DriveIsSteady => SteadyInv

-----------------------------------------------------------------------------
(* What the definitions of the module come to. *)

\* A value for each category.
LEMMA PerCategoryFacts ==
  ASSUME NEW set, NEW f
  PROVE  f \in PerCategory(set) <=> /\ f = [c \in Category |-> f[c]]
                                    /\ \A c \in Category : f[c] \in set[c]
<1>1. ASSUME f \in PerCategory(set)
      PROVE  f = [c \in Category |-> f[c]] /\ \A c \in Category : f[c] \in set[c]
  BY <1>1 DEF PerCategory
<1>2. ASSUME f = [c \in Category |-> f[c]], \A c \in Category : f[c] \in set[c]
      PROVE  f \in PerCategory(set)
  <2> DEFINE all == UNION {set[c] : c \in Category}
  <2>1. \A c \in Category : f[c] \in all
    BY <1>2
  <2>2. f \in [Category -> all]
    <3> HIDE DEF all
    <3> QED BY <1>2, <2>1
  <2> QED BY <1>2, <2>2 DEF PerCategory
<1> QED BY <1>1, <1>2

\* Memory and history hold an image, or images, of each category.
LEMMA MemoryFacts ==
  ASSUME NEW m
  PROVE  m \in Memory <=> /\ m = [c \in Category |-> m[c]]
                          /\ \A c \in Category : m[c] \in Held(c)
BY PerCategoryFacts DEF Memory

\* An image for each category.
LEMMA ImagesFacts ==
  ASSUME NEW r
  PROVE  r \in Images <=> /\ r = [c \in Category |-> r[c]]
                          /\ \A c \in Category : r[c] \subseteq Held(c)
BY PerCategoryFacts DEF Images

\* What the sectors of a category hold is a function of the sector, each from
\* some image.
LEMMA ContentFacts ==
  ASSUME NEW c \in Category, NEW d
  PROVE  d \in Content[c] <=> /\ d = [k \in Sectors(c) |-> d[k]]
                              /\ \A k \in Sectors(c) : \E v \in Whole(c) : d[k] = v[k]
<1> DEFINE S == UNION {{v[k] : k \in Sectors(c)} : v \in Whole(c)}
           P(x) == \A k \in Sectors(c) : \E v \in Whole(c) : x[k] = v[k]
<1>1. Content[c] = {x \in [Sectors(c) -> S] : P(x)}
  BY DEF Content
<1>2. ASSUME d = [k \in Sectors(c) |-> d[k]], P(d)
      PROVE  d \in [Sectors(c) -> S]
  <2>1. \A k \in Sectors(c) : d[k] \in S
    BY <1>2
  <2> HIDE DEF S, P
  <2> QED BY <1>2, <2>1
<1>3. d \in [Sectors(c) -> S] => d = [k \in Sectors(c) |-> d[k]]
  <2> HIDE DEF S
  <2> QED OBVIOUS
<1> HIDE DEF S
<1> QED BY <1>1, <1>2, <1>3

\* A disk.
LEMMA DiskFacts ==
  ASSUME NEW d
  PROVE  d \in Disk <=> /\ d = [hdr |-> d.hdr, data |-> d.data]
                        /\ d.hdr \in Header
                        /\ d.data = [c \in Category |-> d.data[c]]
                        /\ \A c \in Category : d.data[c] \in Content[c]
BY PerCategoryFacts DEF Disk

\* An image is alike an image, and so has what else is alike its checksum.
LEMMA AlikeFacts ==
  ASSUME NEW c \in Category
  PROVE  /\ Image[c] \subseteq Alike[c]
         /\ Alike[c] \subseteq Content[c]
         /\ \A d \in Alike[c] : \E v \in Image[c] : Checksum(d) = Checksum(v)
         /\ \A d \in Content[c] : \A v \in Alike[c] :
              Checksum(d) = Checksum(v) => d \in Alike[c]
<1>1. Alike[c] = {d \in Content[c] : \E v \in Image[c] : Checksum(d) = Checksum(v)}
  BY DEF Alike
<1>2. \A v \in Image[c] : v \in Content[c]
  BY ImageAssumption, ContentFacts DEF Whole
<1> QED BY <1>1, <1>2

\* What memory holds is what some sectors may hold, and determined by them.
LEMMA HeldIsContent ==
  ASSUME NEW c \in Category, NEW v \in Held(c)
  PROVE  v \in Content[c] /\ v = [k \in Sectors(c) |-> v[k]]
<1>1. Blank[c] \in Content[c]
  BY ImageAssumption, ContentFacts DEF Whole
<1>2. v \in Content[c]
  BY <1>1, AlikeFacts DEF Held
<1> QED BY <1>2, ContentFacts

\* Where the checksum tells images from their mixtures, there is nothing else.
LEMMA AlikeIsImage ==
  ASSUME NEW c \in Category
  PROVE  Alike[c] = Image[c] /\ Held(c) = Whole(c)
<1>1. \A d \in Alike[c] : d \in Image[c]
  BY AlikeFacts, ChecksumAssumption DEF Whole
<1> QED BY <1>1, AlikeFacts DEF Held, Whole

\* What a header is made of.
LEMMA HeaderTypes ==
  /\ NoHeader \in Header
  /\ TypeOK => \A o \in Owner : HeaderOf(o) \in Header
<1> DEFINE sums == {Checksum(v) : v \in Whole("aliases") \cup Whole("fs")}
<1>1. \A c \in Category : \A v \in Held(c) : Checksum(v) \in sums
  <2>1. \A c \in Category : \A v \in Whole(c) : Checksum(v) \in sums
    BY DEF Category
  <2> HIDE DEF sums
  <2> QED BY <2>1, AlikeFacts DEF Held, Whole
<1>2. \A c \in Category : Blank[c] \in Held(c)
  BY DEF Held
<1>3. Header = [magic : BOOLEAN, flags : SUBSET Category,
                csum : [Category -> sums], savelist : SUBSET Category]
  BY DEF Header
<1> HIDE DEF sums
<1>4. NoHeader \in Header
  BY <1>1, <1>2, <1>3 DEF NoHeader
<1>5. ASSUME TypeOK, NEW o \in Owner PROVE HeaderOf(o) \in Header
  <2> DEFINE h == IF hdr_buf[o].magic THEN hdr_buf[o] ELSE NoHeader
  <2>1. h \in Header /\ savelist \in SUBSET Category
    BY <1>4, <1>5 DEF TypeOK
  <2>2. \A c \in Category : mem[c] \in Held(c)
    BY <1>5, MemoryFacts DEF TypeOK
  <2>3. HeaderOf(o) = [magic |-> TRUE,
                       flags |-> h.flags \cup ({o} \cap Category),
                       csum |-> [c \in Category |-> IF c = o THEN Checksum(mem[c]) ELSE h.csum[c]],
                       savelist |-> savelist]
    BY DEF HeaderOf
  <2> HIDE DEF h
  <2>4. [c \in Category |-> IF c = o THEN Checksum(mem[c]) ELSE h.csum[c]]
          \in [Category -> sums]
    BY <1>1, <1>3, <2>1, <2>2
  <2>5. h.flags \subseteq Category
    BY <1>3, <2>1
  <2> QED BY <1>3, <2>1, <2>3, <2>4, <2>5
<1> QED BY <1>4, <1>5

\* A header that is built from a sane one is sane, and says of its owner's
\* image what is so.
LEMMA HeaderOfFacts ==
  ASSUME Sound, NEW o \in Owner
  PROVE  /\ HeaderOf(o).magic
         /\ HeaderOf(o).savelist = savelist
         /\ \A c \in Category :
              IF c = o THEN /\ c \in HeaderOf(o).flags
                            /\ HeaderOf(o).csum[c] = Checksum(mem[c])
              ELSE /\ Flagged(HeaderOf(o), c) = Flagged(hdr_buf[o], c)
                   /\ Flagged(hdr_buf[o], c) => HeaderOf(o).csum[c] = hdr_buf[o].csum[c]
<1> DEFINE h == IF hdr_buf[o].magic THEN hdr_buf[o] ELSE NoHeader
<1>1. HeaderOf(o) = [magic |-> TRUE,
                     flags |-> h.flags \cup ({o} \cap Category),
                     csum |-> [c \in Category |-> IF c = o THEN Checksum(mem[c]) ELSE h.csum[c]],
                     savelist |-> savelist]
  BY DEF HeaderOf
<1>2. ~hdr_buf[o].magic => h.flags = {}
  BY DEF NoHeader
<1>3. hdr_buf[o].magic => h = hdr_buf[o]
  OBVIOUS
<1> HIDE DEF h
<1> QED BY <1>1, <1>2, <1>3 DEF Flagged

\* One sector of an image is written.
LEMMA SectorWritten ==
  ASSUME NEW d \in Disk, NEW c \in Category, NEW k \in Sectors(c),
         NEW v \in Held(c), NEW e, e = [d EXCEPT !.data[c][k] = v[k]]
  PROVE  /\ e \in Disk
         /\ e.hdr = d.hdr
         /\ \A b \in Category \ {c} : e.data[b] = d.data[b]
         /\ \A j \in Sectors(c) : e.data[c][j] = IF j = k THEN v[k] ELSE d.data[c][j]
<1>1. /\ d = [hdr |-> d.hdr, data |-> d.data]
      /\ d.hdr \in Header
      /\ d.data = [b \in Category |-> d.data[b]]
      /\ \A b \in Category : d.data[b] \in Content[b]
  BY DiskFacts
<1>2. /\ d.data[c] = [j \in Sectors(c) |-> d.data[c][j]]
      /\ \A j \in Sectors(c) : \E w \in Whole(c) : d.data[c][j] = w[j]
      /\ \E w \in Whole(c) : v[k] = w[k]
  BY <1>1, HeldIsContent, ContentFacts
<1> DEFINE new == [d.data[c] EXCEPT ![k] = v[k]]
<1>3. /\ new = [j \in Sectors(c) |-> new[j]]
      /\ \A j \in Sectors(c) : new[j] = IF j = k THEN v[k] ELSE d.data[c][j]
  BY <1>2
<1>4. e = [d EXCEPT !.data = [d.data EXCEPT ![c] = new]]
  OBVIOUS
<1> HIDE DEF new
<1>5. new \in Content[c]
  BY <1>2, <1>3, ContentFacts
<1>6. /\ e.hdr = d.hdr /\ e = [hdr |-> e.hdr, data |-> e.data]
      /\ e.data = [d.data EXCEPT ![c] = new]
  BY <1>1, <1>4
<1>7. /\ e.data = [b \in Category |-> e.data[b]]
      /\ e.data[c] = new
      /\ \A b \in Category \ {c} : e.data[b] = d.data[b]
  BY <1>1, <1>6
<1>8. e \in Disk
  BY <1>1, <1>5, <1>6, <1>7, DiskFacts
<1> QED BY <1>3, <1>6, <1>7, <1>8

-----------------------------------------------------------------------------
(* The calls of a command. *)

Commands == {"boot", "save", "other"}

CallsDiffer ==
  /\ {Probe, SavelistSet, Save("aliases"), Save("fs"), Load("aliases"), Load("fs")}
       \subseteq Call
  /\ Probe \notin {SavelistSet, Save("aliases"), Save("fs"), Load("aliases"), Load("fs")}
  /\ Load("fs") \notin {SavelistSet, Save("aliases"), Save("fs"), Load("aliases")}
  /\ Load("aliases") \notin {SavelistSet, Save("aliases"), Save("fs")}
  /\ Probe.fn = "probe" /\ SavelistSet.fn = "set"
  /\ \A c \in Category : Save(c).fn = "save" /\ Load(c).fn = "load"
  /\ Load("aliases").fn = "load" /\ Load("fs").fn = "load"

\* The saves of one command differ.
LEMMA CallsAreDistinct == CallsDiffer
<1>1. \A c \in Category : /\ Save(c).fn = "save" /\ Load(c).fn = "load"
                          /\ Save(c).of = c /\ Load(c).of = c
  BY DEF Save, Load
<1>2. Probe.fn = "probe" /\ SavelistSet.fn = "set"
  BY DEF Probe, SavelistSet
<1>3. {Probe, SavelistSet, Save("aliases"), Save("fs"), Load("aliases"), Load("fs")}
        \subseteq Call
  BY DEF Call, Probe, SavelistSet, Save, Load, Category
<1>4. "aliases" \in Category /\ "fs" \in Category
  BY DEF Category
<1> HIDE DEF Probe, SavelistSet, Save, Load, Call
<1> QED BY <1>1, <1>2, <1>3, <1>4 DEF CallsDiffer

\* What is left of a queue is a queue of the same command.
LEMMA QueueFacts ==
  ASSUME NEW name \in Commands, NEW q \in Queues[name], q # <<>>
  PROVE  /\ Head(q) \in Call
         /\ Tail(q) \in Queues[name]
         /\ Head(q) = Probe => name = "boot" /\ Tail(q) = <<>>
         /\ Tail(q) = <<>> \/ Head(q) \in {Save("aliases"), Load("aliases")}
         /\ Tail(q) # <<>> => Head(Tail(q)) # Probe
         /\ Head(q).fn \in {"save", "set"} => name # "boot"
         /\ Head(q) = Load("fs") => Tail(q) = <<>>
         /\ Head(q) = Load("aliases") => Tail(q) # <<>>
<1>1. CallsDiffer
  BY CallsAreDistinct
<1>2. \A a, b \in Call : /\ Head(<<a>>) = a /\ Tail(<<a>>) = <<>>
                         /\ Head(<<a, b>>) = a /\ Tail(<<a, b>>) = <<b>>
                         /\ <<b>> # <<>>
  OBVIOUS
<1>3. \/ name = "boot" /\ q = <<Probe>>
      \/ name \in {"boot", "other"} /\ q = <<Load("aliases"), Load("fs")>>
      \/ q = <<Load("fs")>>
      \/ name = "save" /\ q = <<Save("aliases"), Save("fs")>>
      \/ name # "boot" /\ q \in {<<Save("aliases")>>, <<Save("fs")>>, <<SavelistSet>>}
  BY DEF Queues, Commands
<1>4. /\ <<>> \in Queues[name]
      /\ name \in {"boot", "other"} => <<Load("fs")>> \in Queues[name]
      /\ name = "save" => <<Save("fs")>> \in Queues[name]
  BY DEF Queues, Commands
<1>5. CASE name = "boot" /\ q = <<Probe>>
  <2>1. Head(q) = Probe /\ Tail(q) = <<>>
    BY <1>1, <1>2, <1>5 DEF CallsDiffer
  <2> QED BY <1>1, <1>4, <1>5, <2>1 DEF CallsDiffer
<1>6. CASE name \in {"boot", "other"} /\ q = <<Load("aliases"), Load("fs")>>
  <2>1. Head(q) = Load("aliases") /\ Tail(q) = <<Load("fs")>> /\ Head(Tail(q)) = Load("fs")
    BY <1>1, <1>2, <1>6 DEF CallsDiffer
  <2> QED BY <1>1, <1>4, <1>6, <2>1 DEF CallsDiffer
<1>7. CASE q = <<Load("fs")>>
  <2>1. Head(q) = Load("fs") /\ Tail(q) = <<>>
    BY <1>1, <1>2, <1>7 DEF CallsDiffer
  <2> QED BY <1>1, <1>4, <1>7, <2>1 DEF CallsDiffer
<1>8. CASE name = "save" /\ q = <<Save("aliases"), Save("fs")>>
  <2>1. Head(q) = Save("aliases") /\ Tail(q) = <<Save("fs")>> /\ Head(Tail(q)) = Save("fs")
    BY <1>1, <1>2, <1>8 DEF CallsDiffer
  <2> QED BY <1>1, <1>4, <1>8, <2>1 DEF CallsDiffer
<1>9. CASE name # "boot" /\ q \in {<<Save("aliases")>>, <<Save("fs")>>, <<SavelistSet>>}
  <2>1. Head(q) \in {Save("aliases"), Save("fs"), SavelistSet} /\ Tail(q) = <<>>
    BY <1>1, <1>2, <1>9 DEF CallsDiffer
  <2> QED BY <1>1, <1>4, <1>9, <2>1 DEF CallsDiffer
<1> QED BY <1>3, <1>5, <1>6, <1>7, <1>8, <1>9

\* The calls of a queue are typed.
LEMMA QueueTypes ==
  ASSUME NEW name \in Commands, NEW q \in Queues[name]
  PROVE  q \in Seq(Call)
<1>1. CallsDiffer
  BY CallsAreDistinct
<1>2. \A a, b \in Call : <<>> \in Seq(Call) /\ <<a>> \in Seq(Call) /\ <<a, b>> \in Seq(Call)
  OBVIOUS
<1>3. q \in {<<>>, <<Probe>>, <<SavelistSet>>, <<Save("aliases")>>, <<Save("fs")>>,
             <<Load("fs")>>, <<Save("aliases"), Save("fs")>>, <<Load("aliases"), Load("fs")>>}
  BY DEF Queues, Commands
<1> QED BY <1>1, <1>2, <1>3 DEF CallsDiffer

\* Every call has a first step.
LEMMA Steps ==
  /\ ReadStep("savelist") = 1 /\ WriteStep("savelist") = 2
  /\ \A c \in Category : /\ SectorCount[c] \in Nat \ {0}
                         /\ ReadStep(c) = SectorCount[c] + 1
                         /\ WriteStep(c) = SectorCount[c] + 2
  /\ \A call \in Call : LastStep(call) \in Nat \ {0}
<1>1. /\ ReadStep("savelist") = 1 /\ WriteStep("savelist") = 2
      /\ \A c \in Category : /\ SectorCount[c] \in Nat \ {0}
                             /\ ReadStep(c) = SectorCount[c] + 1
                             /\ WriteStep(c) = SectorCount[c] + 2
  BY SectorAssumption DEF ReadStep, WriteStep, Category
<1>2. ASSUME NEW call \in Call PROVE LastStep(call) \in Nat \ {0}
  <2>1. call.of = "savelist" \/ call.of \in Category
    BY DEF Call
  <2> QED BY <1>1, <2>1 DEF LastStep
<1> QED BY <1>1, <1>2

\* The end of a call, and of a command.
LEMMA ReturnKeepsControl ==
  ASSUME Sound, todo # <<>>, todo' = Tail(todo), step' = 1, cmd' = cmd
  PROVE  ControlInv'
<1>1. cmd \in Commands /\ todo \in Queues[cmd]
  BY DEF Sound, TypeOK, ControlInv, Commands
<1>2. todo' \in Queues[cmd'] /\ (todo' # <<>> => Head(todo') # Probe)
  BY <1>1, QueueFacts
<1>3. todo' # <<>> => Head(todo') \in Call
  BY <1>1, <1>2, QueueFacts
<1>4. 1 \in 1 .. IF todo' = <<>> THEN 1 ELSE LastStep(Head(todo'))
  BY <1>3, Steps
<1> QED BY <1>2, <1>4 DEF ControlInv, Calling

\* A command is started, or there is none.
LEMMA StartKeepsControl ==
  ASSUME todo' \in Queues[cmd'], cmd' \in Commands, step' = 1,
         Calling(Probe)' => ~disk_present'
  PROVE  ControlInv'
<1>1. todo' # <<>> => Head(todo') \in Call
  BY QueueFacts
<1>2. 1 \in 1 .. IF todo' = <<>> THEN 1 ELSE LastStep(Head(todo'))
  BY <1>1, Steps
<1> QED BY <1>2 DEF ControlInv

-----------------------------------------------------------------------------
(* Types, and headers that vouch for images only. *)

\* A step that leaves disk, headers and history alone.
LEMMA QuietStepKeepsSound ==
  ASSUME Sound, UNCHANGED <<faults, hdr_buf, disk, durable, history_vars>>,
         mem' \in Memory, savelist' \in SUBSET Category, disk_present' \in BOOLEAN,
         drive_err' \in BOOLEAN, cmd' \in Commands, results' \in SUBSET Result,
         ControlInv', MemInv'
  PROVE  Sound'
<1>1. todo' \in Seq(Call)
  BY QueueTypes DEF ControlInv
<1>2. step' \in Nat
  <2>1. todo' # <<>> => Head(todo') \in Call
    BY QueueFacts DEF ControlInv
  <2>2. (IF todo' = <<>> THEN 1 ELSE LastStep(Head(todo'))) \in Nat
    BY <2>1, Steps
  <2> QED BY <2>2 DEF ControlInv
<1>3. TypeOK'
  BY <1>1, <1>2 DEF Sound, TypeOK, Commands, history_vars
<1>4. HeadersInv'
  BY DEF Sound, HeadersInv, HeaderSane, Flagged
<1> QED BY <1>3, <1>4 DEF Sound

\* Whole images in memory.
LEMMA MemoryChange ==
  ASSUME mem \in Memory, NEW c \in Category, NEW v \in Held(c),
         mem' = [mem EXCEPT ![c] = v]
  PROVE  /\ mem' \in Memory
         /\ mem'[c] = v
         /\ \A b \in Category \ {c} : mem'[b] = mem[b]
BY MemoryFacts

\* What a load takes is alike an image.
LEMMA AcceptedIsAlike ==
  ASSUME NEW d \in Disk, HeaderSane(d.hdr), NEW c \in Category, Accepts(d, c)
  PROVE  d.data[c] \in Alike[c]
<1>1. PICK v \in Alike[c] : d.hdr.csum[c] = Checksum(v)
  BY DEF HeaderSane, Flagged, Accepts
<1>2. d.data[c] \in Content[c]
  BY DiskFacts
<1>3. Checksum(d.data[c]) = Checksum(v)
  BY <1>1 DEF Accepts
<1> QED BY <1>1, <1>2, <1>3, AlikeFacts

\* The end of an ata_write_sectors() call.
LEMMA LastSectorFacts ==
  ASSUME NEW new, NEW old, LastSector(new, old), drive_err \in BOOLEAN
  PROVE  /\ disk' \in {new, old} /\ durable' \in {new, old, durable}
         /\ drive_err' \in BOOLEAN
         /\ "lost" \notin faults => disk' = new /\ durable' = new /\ drive_err' = drive_err
BY DEF LastSector

\* A transfer that fails changes nothing but the status.
LEMMA TransferFacts ==
  ASSUME NEW r, TransferFails(r), drive_err \in BOOLEAN
  PROVE  /\ r \in Result \ {"ATA_OK"} /\ drive_err' \in BOOLEAN
         /\ "timeout" \notin faults => drive_err'
<1>1. \/ (drive_err \/ "timeout" \in faults) /\ r = "ATA_ERR_TIMEOUT" /\ drive_err' = drive_err
      \/ r = "ATA_ERR_ERROR" /\ drive_err' = TRUE
  BY DEF TransferFails
<1>2. r \in Result \ {"ATA_OK"}
  BY <1>1 DEF Result
<1>3. drive_err' \in BOOLEAN /\ ("timeout" \notin faults => drive_err')
  BY <1>1, Zenon
<1> QED BY <1>2, <1>3

\* Only a boot has a pool that is alike no image.
LEMMA MemoryIsAlike ==
  ASSUME Sound, cmd # "boot", NEW c \in Category
  PROVE  mem[c] \in Alike[c] /\ mem[c] \in Held(c)
BY DEF Sound, MemInv, Held

\* One data sector of a save.
LEMMA WriteDataFacts ==
  ASSUME Sound, NEW c \in Category, WriteData(c)
  PROVE  /\ cmd # "boot" /\ Head(todo) = Save(c) /\ todo # <<>>
         /\ step \in Sectors(c) /\ mem[c] \in Alike[c]
         /\ [disk EXCEPT !.data[c][step] = mem[c][step]] \in Disk
         /\ disk' \in Disk /\ durable' \in Disk
         /\ disk'.hdr = disk.hdr /\ durable'.hdr \in {disk.hdr, durable.hdr}
         /\ drive_err' \in BOOLEAN
<1>1. /\ todo # <<>> /\ Head(todo) = Save(c) /\ step \in Sectors(c)
      /\ disk \in Disk /\ durable \in Disk /\ drive_err \in BOOLEAN /\ cmd \in Commands
      /\ todo \in Queues[cmd]
  BY DEF WriteData, Calling, Sound, TypeOK, ControlInv, Commands
<1>2. cmd # "boot"
  BY <1>1, QueueFacts, CallsAreDistinct DEF CallsDiffer
<1>3. mem[c] \in Alike[c] /\ mem[c] \in Held(c)
  BY <1>2, MemoryIsAlike
<1> DEFINE new == [disk EXCEPT !.data[c][step] = mem[c][step]]
<1>4. new \in Disk /\ new.hdr = disk.hdr
  BY <1>1, <1>3, SectorWritten
<1>5. \/ LastSector(new, disk)
      \/ disk' = new /\ durable' = durable /\ drive_err' = drive_err
      \/ \E r \in Result : TransferFails(r) /\ disk' = disk /\ durable' = durable
  BY DEF WriteData, TransferOk
<1> HIDE DEF new
<1>6. disk' \in {new, disk} /\ durable' \in {new, disk, durable} /\ drive_err' \in BOOLEAN
  BY <1>1, <1>5, LastSectorFacts, TransferFacts
<1> QED BY <1>1, <1>2, <1>3, <1>4, <1>6 DEF new

\* The probe.
LEMMA ProbeKeepsSound ==
  ASSUME Sound, PersistProbe
  PROVE  Sound'
<1>1. /\ todo # <<>> /\ Head(todo) = Probe /\ cmd \in Commands /\ todo \in Queues[cmd]
      /\ mem \in Memory /\ disk \in Disk /\ drive_err \in BOOLEAN
  BY DEF PersistProbe, Calling, Sound, TypeOK, ControlInv, Commands
<1>2. cmd = "boot" /\ cmd' = cmd
  BY <1>1, QueueFacts DEF PersistProbe
<1>3. \/ FsInit /\ todo' = <<>>
      \/ mem' = mem /\ todo' = <<Load("aliases"), Load("fs")>>
  BY DEF PersistProbe
<1>4. todo' \in Queues[cmd'] /\ (todo' = <<>> \/ Head(todo') = Load("aliases"))
  BY <1>2, <1>3 DEF Queues
<1>5. ControlInv'
  <2>1. ~Calling(Probe)'
    BY <1>4, CallsAreDistinct DEF Calling, CallsDiffer
  <2> QED BY <1>2, <1>4, <2>1, StartKeepsControl DEF Commands, PersistProbe
<1>6. mem' \in Memory /\ MemInv'
  <2>1. CASE FsInit /\ todo' = <<>>
    <3>1. DefaultFs \in Alike["fs"] /\ DefaultFs \in Held("fs") /\ "fs" \in Category
      BY ImageAssumption, AlikeFacts DEF Held, Category
    <3>2. /\ mem' \in Memory /\ mem'["fs"] = DefaultFs
          /\ \A b \in Category \ {"fs"} : mem'[b] = mem[b]
      BY <1>1, <2>1, <3>1, MemoryChange DEF FsInit
    <3> QED BY <3>1, <3>2 DEF MemInv, Sound
  <2>2. CASE mem' = mem /\ todo' = <<Load("aliases"), Load("fs")>>
    <3>1. todo' # <<>>
      BY <2>2
    <3> QED BY <1>1, <1>2, <2>2, <3>1 DEF MemInv, Sound
  <2> QED BY <1>3, <2>1, <2>2
<1>7. /\ savelist' \in SUBSET Category /\ disk_present' \in BOOLEAN
      /\ UNCHANGED <<faults, hdr_buf, disk, durable, results, history_vars>>
  <2>1. disk.hdr.savelist \in SUBSET Category
    BY <1>1, DiskFacts DEF Header
  <2> QED BY <2>1 DEF PersistProbe, Sound, TypeOK
<1>8. drive_err' \in BOOLEAN
  BY <1>1, TransferFacts DEF PersistProbe, TransferOk
<1> QED
  BY <1>1, <1>2, <1>5, <1>6, <1>7, <1>8, QuietStepKeepsSound DEF Sound, TypeOK

\* What a load does to memory.
LEMMA LoadFacts ==
  ASSUME Sound, NEW c \in Category, PersistLoad(c)
  PROVE  /\ todo # <<>> /\ Head(todo) = Load(c) /\ todo' = Tail(todo) /\ step' = 1
         /\ UNCHANGED <<faults, savelist, disk_present, hdr_buf, disk, durable, cmd,
                        history_vars>>
         /\ mem' = mem \/ \E v \in Alike[c] : mem' = [mem EXCEPT ![c] = v]
         /\ cmd = "boot" /\ c = "fs" => \E v \in Alike[c] : mem' = [mem EXCEPT ![c] = v]
         /\ results' \in SUBSET Result /\ drive_err' \in BOOLEAN
         /\ drive_err => drive_err'
<1>1. drive_err \in BOOLEAN /\ disk \in Disk /\ HeaderSane(disk.hdr) /\ results \subseteq Result
  BY DEF Sound, TypeOK, HeadersInv
<1>2. LoadFailed(c) => /\ mem' = mem \/ \E v \in Alike[c] : mem' = [mem EXCEPT ![c] = v]
                       /\ cmd = "boot" /\ c = "fs"
                          => \E v \in Alike[c] : mem' = [mem EXCEPT ![c] = v]
  <2>1. "fs" \in Category /\ DefaultFs \in Alike["fs"]
    BY ImageAssumption, AlikeFacts DEF Category
  <2> QED BY <2>1 DEF LoadFailed, FsInit
<1>3. Accepts(disk, c) => disk.data[c] \in Alike[c]
  BY <1>1, AcceptedIsAlike
<1>4. c = "fs" => Accepts(disk, c) \/ LoadResult(c) # "ATA_OK"
  BY DEF LoadResult
<1>5. LoadResult(c) \in Result
  BY DEF LoadResult, Result
<1>6. \E r \in Result : Return(r)
  BY <1>5 DEF PersistLoad, Result
<1>7. results' \in SUBSET Result /\ todo' = Tail(todo) /\ step' = 1
  BY <1>1, <1>6 DEF Return
<1>8. /\ mem' = mem \/ \E v \in Alike[c] : mem' = [mem EXCEPT ![c] = v]
      /\ cmd = "boot" /\ c = "fs" => \E v \in Alike[c] : mem' = [mem EXCEPT ![c] = v]
  <2>1. CASE LoadFailed(c)
    BY <1>2, <2>1
  <2>2. CASE Accepts(disk, c) /\ mem' = [mem EXCEPT ![c] = disk.data[c]]
    BY <1>3, <2>2
  <2>3. CASE ~Accepts(disk, c) /\ LoadResult(c) = "ATA_OK" /\ mem' = mem
    BY <1>4, <2>3
  <2> QED BY <2>1, <2>2, <2>3 DEF PersistLoad
<1>9. drive_err' \in BOOLEAN /\ (drive_err => drive_err')
  <2>1. CASE drive_err' = drive_err
    BY <1>1, <2>1
  <2>2. CASE \E r \in Result : TransferFails(r)
    <3>1. drive_err' = drive_err \/ drive_err' = TRUE
      BY <2>2 DEF TransferFails
    <3> QED BY <1>1, <3>1, Zenon
  <2> QED BY <2>1, <2>2 DEF PersistLoad, TransferOk
<1> QED BY <1>7, <1>8, <1>9 DEF PersistLoad, Calling

\* A load.
LEMMA LoadKeepsSound ==
  ASSUME Sound, NEW c \in Category, PersistLoad(c)
  PROVE  Sound'
<1>1. cmd \in Commands /\ todo \in Queues[cmd] /\ mem \in Memory
  BY DEF Sound, TypeOK, ControlInv, Commands
<1>2. ControlInv'
  BY LoadFacts, ReturnKeepsControl
<1>3. mem' \in Memory /\ MemInv'
  <2>1. cmd' = cmd /\ Head(todo) = Load(c) /\ todo # <<>> /\ todo' = Tail(todo)
    BY LoadFacts
  <2>2. c = "fs" \/ (c = "aliases" /\ todo' # <<>>)
    BY <1>1, <2>1, QueueFacts DEF Category
  <2>3. CASE \E v \in Alike[c] : mem' = [mem EXCEPT ![c] = v]
    <3>1. PICK v \in Alike[c] : mem' = [mem EXCEPT ![c] = v]
      BY <2>3
    <3>2. /\ mem' \in Memory /\ mem'[c] = v
          /\ \A b \in Category \ {c} : mem'[b] = mem[b]
      BY <1>1, <3>1, MemoryChange DEF Held
    <3> QED BY <2>1, <2>2, <3>2 DEF MemInv, Sound
  <2>4. CASE mem' = mem /\ ~(cmd = "boot" /\ c = "fs")
    BY <1>1, <2>1, <2>2, <2>4 DEF MemInv, Sound
  <2> QED BY <2>3, <2>4, LoadFacts
<1> QED
  BY <1>1, <1>2, <1>3, LoadFacts, QuietStepKeepsSound DEF Sound, TypeOK

\* A save that writes nothing.
LEMMA SkippedKeepsSound ==
  ASSUME Sound, NEW c \in Category, SaveSkipped(c)
  PROVE  Sound'
<1>1. /\ cmd \in Commands /\ todo \in Queues[cmd] /\ todo # <<>> /\ Head(todo) = Save(c)
      /\ cmd' = cmd /\ todo' = Tail(todo) /\ step' = 1 /\ results' \in SUBSET Result
      /\ UNCHANGED <<faults, mem, savelist, disk_present, hdr_buf, disk, durable, drive_err,
                     history_vars>>
  BY DEF SaveSkipped, Calling, Return, Result, Sound, TypeOK, ControlInv, Commands, io_vars
<1>2. ControlInv'
  BY <1>1, ReturnKeepsControl
<1>3. cmd # "boot"
  BY <1>1, QueueFacts, CallsAreDistinct DEF CallsDiffer
<1>4. MemInv'
  BY <1>1, <1>3 DEF MemInv, Sound
<1> QED BY <1>1, <1>2, <1>4, QuietStepKeepsSound DEF Sound, TypeOK

\* A change of the savelist that writes nothing.
LEMMA SetSkippedKeepsSound ==
  ASSUME Sound, SetSkipped
  PROVE  Sound'
<1>1. /\ cmd \in Commands /\ todo \in Queues[cmd] /\ todo # <<>> /\ Head(todo) = SavelistSet
      /\ cmd' = cmd /\ todo' = <<>> /\ step' = 1
      /\ UNCHANGED <<faults, mem, savelist, disk_present, hdr_buf, disk, durable, drive_err,
                     results, history_vars>>
  BY DEF SetSkipped, Calling, Sound, TypeOK, ControlInv, Commands, io_vars
<1>2. cmd # "boot"
  BY <1>1, QueueFacts, CallsAreDistinct DEF CallsDiffer
<1>3. todo' \in Queues[cmd'] /\ ~Calling(Probe)'
  BY <1>1, <1>2 DEF Queues, Commands, Calling
<1>4. ControlInv' /\ MemInv'
  BY <1>1, <1>2, <1>3, StartKeepsControl DEF MemInv, Sound
<1> QED BY <1>1, <1>4, QuietStepKeepsSound DEF Sound, TypeOK

\* A command starts with what is alike an image in memory.
LEMMA CommandKeepsSound ==
  ASSUME Sound, NEW name \in {"save", "other"}, NEW calls \in Queues[name],
         Command(name, calls), savelist' \in SUBSET Category,
         mem' = mem \/ \E c \in Category : \E v \in Alike[c] : mem' = [mem EXCEPT ![c] = v]
  PROVE  Sound'
<1>1. /\ cmd' = name /\ todo' = calls /\ step' = 1 /\ todo = <<>> /\ results' = {}
      /\ UNCHANGED <<faults, disk_present, hdr_buf, disk, durable, drive_err, history_vars>>
      /\ mem \in Memory
  BY DEF Command, Sound, TypeOK, io_vars
<1>2. ~Calling(Probe)'
  BY <1>1, QueueFacts DEF Calling, Commands
<1>3. ControlInv'
  BY <1>1, <1>2, StartKeepsControl DEF Commands
<1>4. \A c \in Category : mem[c] \in Alike[c]
  BY <1>1 DEF Sound, MemInv
<1>5. mem' \in Memory /\ MemInv'
  <2>1. CASE mem' = mem
    BY <1>1, <1>4, <2>1 DEF MemInv
  <2>2. CASE \E c \in Category : \E v \in Alike[c] : mem' = [mem EXCEPT ![c] = v]
    <3>0. PICK c \in Category : \E v \in Alike[c] : mem' = [mem EXCEPT ![c] = v]
      BY <2>2
    <3>1. PICK v \in Alike[c] : mem' = [mem EXCEPT ![c] = v]
      BY <3>0
    <3>2. /\ mem' \in Memory /\ mem'[c] = v
          /\ \A b \in Category \ {c} : mem'[b] = mem[b]
      BY <1>1, <3>1, MemoryChange DEF Held
    <3> QED BY <1>4, <3>2 DEF MemInv
  <2> QED BY <2>1, <2>2
<1> QED BY <1>1, <1>3, <1>5, QuietStepKeepsSound DEF Sound, TypeOK, Commands

\* The commands of the user, and what each starts with.
CommandStep ==
  \/ \E c \in Category : Change(c)
  \/ \E c \in Category : CmdSavelist(c)
  \/ CmdSave
  \/ CmdLoad

\* The commands that change the memory.
LEMMA CommandsKeepSound ==
  ASSUME Sound, CommandStep
  PROVE  Sound'
<1>1. savelist \in SUBSET Category /\ faults \in FaultModel
  BY DEF Sound, TypeOK
<1>2. ASSUME NEW c \in Category, Change(c) PROVE Sound'
  <2>1. Chosen(faults, c) \subseteq Alike[c]
    BY <1>1, UserAssumption, AlikeFacts
  <2>2. \E v \in Alike[c] : mem' = [mem EXCEPT ![c] = v]
    BY <1>2, <2>1 DEF Change
  <2>3. <<Save(c)>> \in Queues["other"] /\ <<>> \in Queues["other"]
    BY DEF Queues, Category
  <2>4. Command("other", <<Save(c)>>) \/ Command("other", <<>>)
    BY <1>2 DEF Change
  <2>5. savelist' \in SUBSET Category
    BY <1>1, <1>2 DEF Change
  <2> QED BY <2>2, <2>3, <2>4, <2>5, CommandKeepsSound
<1>3. ASSUME NEW c \in Category, CmdSavelist(c) PROVE Sound'
  <2>1. <<SavelistSet>> \in Queues["other"]
    BY DEF Queues
  <2> QED BY <1>1, <1>3, <2>1, CommandKeepsSound DEF CmdSavelist
<1>4. ASSUME CmdSave PROVE Sound'
  <2>1. <<Save("aliases"), Save("fs")>> \in Queues["save"]
    BY DEF Queues
  <2> QED BY <1>1, <1>4, <2>1, CommandKeepsSound DEF CmdSave
<1>5. ASSUME CmdLoad PROVE Sound'
  <2>1. <<Load("aliases"), Load("fs")>> \in Queues["other"]
    BY DEF Queues
  <2> QED BY <1>1, <1>5, <2>1, CommandKeepsSound DEF CmdLoad
<1> QED BY <1>2, <1>3, <1>4, <1>5 DEF CommandStep

\* The data is written.
LEMMA WriteDataKeepsSound ==
  ASSUME Sound, NEW c \in Category, WriteData(c)
  PROVE  Sound'
<1>1. /\ cmd \in Commands /\ todo \in Queues[cmd] /\ recent \in Images /\ results \subseteq Result
      /\ step \in Nat /\ acked \subseteq Category /\ todo \in Seq(Call)
  BY DEF Sound, TypeOK, ControlInv, Commands
<1>2. /\ UNCHANGED <<faults, mem, savelist, disk_present, hdr_buf, cmd>>
      /\ recent' = [recent EXCEPT ![c] = @ \cup {mem[c]}] /\ acked' = acked \ {c}
      /\ \/ step' = step + 1 /\ UNCHANGED <<todo, results>>
         \/ \E r \in Result : Return(r)
  BY DEF WriteData
<1>3. /\ cmd # "boot" /\ Head(todo) = Save(c) /\ todo # <<>> /\ step \in Sectors(c)
      /\ mem[c] \in Alike[c] /\ disk' \in Disk /\ durable' \in Disk
      /\ disk'.hdr = disk.hdr /\ durable'.hdr \in {disk.hdr, durable.hdr}
      /\ drive_err' \in BOOLEAN
  BY WriteDataFacts
<1>4. recent' \in Images
  BY <1>1, <1>2, <1>3, ImagesFacts DEF Held
<1>5. LastStep(Save(c)) = SectorCount[c] + 2 /\ SectorCount[c] \in Nat
  BY Steps DEF LastStep, Save
<1>6. ControlInv' /\ todo' \in Seq(Call) /\ step' \in Nat /\ results' \in SUBSET Result
  <2>1. CASE step' = step + 1 /\ UNCHANGED <<todo, results>>
    <3>1. step' \in 1 .. LastStep(Save(c))
      BY <1>3, <1>5, <2>1 DEF Sectors
    <3>2. todo' # <<>> /\ Head(todo') = Save(c) /\ ~Calling(Probe)'
      BY <1>3, <2>1, CallsAreDistinct DEF Calling, CallsDiffer, Category
    <3> QED BY <1>1, <1>2, <2>1, <3>1, <3>2 DEF ControlInv
  <2>2. CASE \E r \in Result : Return(r)
    <3>1. todo' = Tail(todo) /\ step' = 1 /\ results' \in SUBSET Result
      BY <1>1, <2>2 DEF Return
    <3>2. todo' \in Queues[cmd]
      BY <1>1, <1>3, <3>1, QueueFacts
    <3> QED BY <1>1, <1>2, <1>3, <3>1, <3>2, ReturnKeepsControl, QueueTypes
  <2> QED BY <1>2, <2>1, <2>2
<1>7. MemInv'
  BY <1>2, <1>3 DEF MemInv, Sound
<1>8. HeadersInv'
  BY <1>2, <1>3 DEF Sound, HeadersInv, HeaderSane, Flagged
<1>9. TypeOK'
  BY <1>1, <1>2, <1>3, <1>4, <1>6 DEF Sound, TypeOK
<1> QED BY <1>6, <1>7, <1>8, <1>9 DEF Sound

\* Only a save and the save list update the header.
LEMMA UpdatingFacts ==
  ASSUME Sound, NEW o \in Owner, todo # <<>>, Updating(o)
  PROVE  /\ cmd # "boot" /\ o = Head(todo).of /\ Head(todo) \in Call
         /\ LastStep(Head(todo)) = WriteStep(o) /\ WriteStep(o) = ReadStep(o) + 1
         /\ ReadStep(o) \in Nat \ {0} /\ Head(todo) # Probe
         /\ todo \in Queues[cmd] /\ cmd \in Commands
         /\ o \in Category => Head(todo) = Save(o)
         /\ o = "savelist" => Head(todo) = SavelistSet
<1>1. cmd \in Commands /\ todo \in Queues[cmd]
  BY DEF Sound, TypeOK, ControlInv, Commands
<1>2. Head(todo) \in Call
  BY <1>1, QueueFacts
<1>3. Head(todo).fn \in {"save", "set"} /\ o = Head(todo).of
  BY DEF Updating
<1>4. cmd # "boot"
  BY <1>1, <1>3, QueueFacts
<1>5. LastStep(Head(todo)) = WriteStep(o)
  BY <1>3 DEF LastStep
<1>6. WriteStep(o) = ReadStep(o) + 1 /\ ReadStep(o) \in Nat \ {0}
  BY Steps DEF Owner, WriteStep
<1>7. Head(todo) # Probe
  BY <1>3 DEF Probe
<1>8. /\ o \in Category => Head(todo) = Save(o)
      /\ o = "savelist" => Head(todo) = SavelistSet
  BY <1>2, <1>3 DEF Call, Save, SavelistSet, Category
<1> QED BY <1>1, <1>2, <1>3, <1>4, <1>5, <1>6, <1>7, <1>8

\* The header is read.
LEMMA ReadHeaderKeepsSound ==
  ASSUME Sound, NEW o \in Owner, ReadHeader(o)
  PROVE  Sound'
<1>1. /\ todo # <<>> /\ Updating(o) /\ step = ReadStep(o) /\ step' = step + 1
      /\ UNCHANGED <<faults, mem, savelist, disk_present, disk, durable, cmd, todo,
                     results, history_vars>>
      /\ hdr_buf' = [hdr_buf EXCEPT ![o] = disk.hdr] \/ hdr_buf' = hdr_buf
  BY DEF ReadHeader
<1>2. drive_err' \in BOOLEAN
  BY TransferFacts DEF ReadHeader, TransferOk, Sound, TypeOK
<1>3. ControlInv'
  BY <1>1, UpdatingFacts DEF Sound, ControlInv, Calling
<1>4. disk.hdr \in Header /\ hdr_buf \in [Owner -> Header]
  BY DiskFacts DEF Sound, TypeOK
<1>5. TypeOK'
  BY <1>1, <1>2, <1>4, UpdatingFacts DEF Sound, TypeOK, history_vars
<1>6. HeadersInv'
  BY <1>1, <1>4 DEF Sound, HeadersInv, HeaderSane, Flagged
<1>7. MemInv'
  BY <1>1 DEF Sound, MemInv
<1> QED BY <1>3, <1>5, <1>6, <1>7 DEF Sound

\* A header with one category replaced.
LEMMA HeaderPut ==
  ASSUME NEW d \in Disk, NEW h \in Header, NEW e, e = [d EXCEPT !.hdr = h]
  PROVE  e \in Disk /\ e.hdr = h /\ e.data = d.data
<1>1. d = [hdr |-> d.hdr, data |-> d.data]
  BY DiskFacts
<1>2. e = [hdr |-> h, data |-> d.data]
  BY <1>1
<1> QED BY <1>2, DiskFacts

\* The header sector of a save, or of the save list.
LEMMA WriteHeaderFacts ==
  ASSUME Sound, NEW o \in Owner, WriteHeader(o)
  PROVE  /\ todo # <<>> /\ Updating(o) /\ todo' = Tail(todo) /\ step' = 1
         /\ UNCHANGED <<faults, mem, savelist, disk_present, hdr_buf, cmd>>
         /\ disk' \in Disk /\ durable' \in Disk /\ drive_err' \in BOOLEAN
         /\ disk'.data = disk.data /\ durable'.data \in {disk.data, durable.data}
         /\ disk'.hdr \in {HeaderOf(o), disk.hdr}
         /\ durable'.hdr \in {HeaderOf(o), disk.hdr, durable.hdr}
         /\ \/ /\ Return("ATA_OK")
               /\ recent' = [c \in Category |-> IF c = o THEN {mem[c]} ELSE recent[c]]
               /\ acked' = acked \cup ({o} \cap Category)
               /\ "lost" \notin faults => /\ disk'.hdr = HeaderOf(o) /\ durable' = disk'
                                          /\ ~drive_err /\ drive_err' = drive_err
            \/ /\ \E r \in Result \ {"ATA_OK"} : Return(r)
               /\ UNCHANGED <<disk, durable, history_vars>>
               /\ "timeout" \notin faults => drive_err'
<1>1. disk \in Disk /\ durable \in Disk /\ drive_err \in BOOLEAN /\ HeaderOf(o) \in Header
  BY HeaderTypes DEF Sound, TypeOK
<1> DEFINE new == [disk EXCEPT !.hdr = HeaderOf(o)]
<1>2. new \in Disk /\ new.hdr = HeaderOf(o) /\ new.data = disk.data
  BY <1>1, HeaderPut
<1>3. /\ todo # <<>> /\ Updating(o) /\ UNCHANGED <<faults, mem, savelist, disk_present, hdr_buf, cmd>>
      /\ \/ /\ LastSector(new, disk) /\ Return("ATA_OK")
            /\ recent' = [c \in Category |-> IF c = o THEN {mem[c]} ELSE recent[c]]
            /\ acked' = acked \cup ({o} \cap Category)
         \/ /\ \E r \in Result : TransferFails(r) /\ Return(r)
            /\ UNCHANGED <<disk, durable, history_vars>>
  BY DEF WriteHeader
<1> HIDE DEF new
<1>4. CASE /\ LastSector(new, disk) /\ Return("ATA_OK")
           /\ recent' = [c \in Category |-> IF c = o THEN {mem[c]} ELSE recent[c]]
           /\ acked' = acked \cup ({o} \cap Category)
  <2>1. /\ disk' \in {new, disk} /\ durable' \in {new, disk, durable} /\ drive_err' \in BOOLEAN
        /\ "lost" \notin faults => disk' = new /\ durable' = new /\ drive_err' = drive_err
    BY <1>1, <1>4, LastSectorFacts
  <2>2. todo' = Tail(todo) /\ step' = 1
    BY <1>4 DEF Return
  <2>3. /\ disk' \in Disk /\ durable' \in Disk
        /\ disk'.data = disk.data /\ durable'.data \in {disk.data, durable.data}
        /\ disk'.hdr \in {HeaderOf(o), disk.hdr}
        /\ durable'.hdr \in {HeaderOf(o), disk.hdr, durable.hdr}
    BY <1>1, <1>2, <2>1
  <2>4. "lost" \notin faults => /\ disk'.hdr = HeaderOf(o) /\ durable' = disk'
                                /\ ~drive_err /\ drive_err' = drive_err
    BY <1>2, <1>4, <2>1 DEF LastSector, Ready
  <2> QED BY <1>3, <1>4, <2>1, <2>2, <2>3, <2>4
<1>5. CASE /\ \E r \in Result : TransferFails(r) /\ Return(r)
           /\ UNCHANGED <<disk, durable, history_vars>>
  <2>1. PICK r \in Result : TransferFails(r) /\ Return(r)
    BY <1>5
  <2>2. /\ r \in Result \ {"ATA_OK"} /\ drive_err' \in BOOLEAN
        /\ "timeout" \notin faults => drive_err'
    BY <1>1, <2>1, TransferFacts
  <2>3. todo' = Tail(todo) /\ step' = 1
    BY <2>1 DEF Return
  <2> QED BY <1>1, <1>3, <1>5, <2>1, <2>2, <2>3
<1> QED BY <1>3, <1>4, <1>5

\* The header is written.
LEMMA WriteHeaderKeepsSound ==
  ASSUME Sound, NEW o \in Owner, WriteHeader(o)
  PROVE  Sound'
<1>1. /\ cmd \in Commands /\ todo \in Queues[cmd] /\ recent \in Images /\ results \subseteq Result
      /\ acked \subseteq Category /\ mem \in Memory
  BY DEF Sound, TypeOK, ControlInv, Commands
<1>2. cmd # "boot"
  BY WriteHeaderFacts, UpdatingFacts
<1>3. todo' \in Seq(Call)
  BY <1>1, QueueFacts, QueueTypes, WriteHeaderFacts
<1>4. results' \in SUBSET Result
  <2>1. \E r \in Result : Return(r)
    BY WriteHeaderFacts DEF Result
  <2> QED BY <1>1, <2>1 DEF Return
<1>5. recent' \in Images /\ acked' \subseteq Category
  <2>1. \A c \in Category : mem[c] \in Held(c)
    BY <1>1, MemoryFacts
  <2>2. CASE recent' = recent /\ acked' = acked
    BY <1>1, <2>2
  <2>3. CASE /\ recent' = [c \in Category |-> IF c = o THEN {mem[c]} ELSE recent[c]]
             /\ acked' = acked \cup ({o} \cap Category)
    BY <1>1, <2>1, <2>3, ImagesFacts
  <2> QED BY <2>2, <2>3, WriteHeaderFacts DEF history_vars
<1>6. ControlInv'
  BY WriteHeaderFacts, ReturnKeepsControl
<1>7. TypeOK'
  BY <1>3, <1>4, <1>5, WriteHeaderFacts DEF Sound, TypeOK
<1>8. MemInv'
  BY <1>2, WriteHeaderFacts DEF Sound, MemInv
<1>9. HeaderSane(HeaderOf(o))
  <2>1. \A c \in Category : mem[c] \in Alike[c]
    BY <1>2, MemoryIsAlike
  <2>2. HeaderSane(hdr_buf[o])
    BY DEF Sound, HeadersInv
  <2> QED BY <2>1, <2>2, HeaderOfFacts DEF HeaderSane
<1>10. HeadersInv'
  BY <1>9, WriteHeaderFacts DEF Sound, HeadersInv, HeaderSane, Flagged
<1> QED BY <1>6, <1>7, <1>8, <1>10 DEF Sound

\* After a power failure every sector is what it was, or what was durable.
LEMMA PowerLossFacts ==
  ASSUME NEW d \in Disk, NEW e \in Disk, NEW x \in PowerLoss(d, e)
  PROVE  /\ x \in Disk /\ x.hdr \in {d.hdr, e.hdr}
         /\ \A c \in Category : \A k \in Sectors(c) :
              x.data[c][k] \in {d.data[c][k], e.data[c][k]}
<1>1. PICK h \in {d.hdr, e.hdr} : \E lost : x = [hdr |-> h, data |-> Reverted(d, e, lost)]
  BY DEF PowerLoss
<1>2. PICK lost : x = [hdr |-> h, data |-> Reverted(d, e, lost)]
  BY <1>1
<1>3. x.hdr = h /\ x.data = Reverted(d, e, lost)
  BY <1>2
<1>4. \A c \in Category :
        /\ x.data[c] = [k \in Sectors(c) |-> x.data[c][k]]
        /\ \A k \in Sectors(c) : x.data[c][k] \in {d.data[c][k], e.data[c][k]}
  BY <1>3 DEF Reverted
<1>5. \A c \in Category : \A k \in Sectors(c) :
        /\ \E v \in Whole(c) : d.data[c][k] = v[k]
        /\ \E v \in Whole(c) : e.data[c][k] = v[k]
  <2> SUFFICES ASSUME NEW c \in Category, NEW k \in Sectors(c)
               PROVE  /\ \E v \in Whole(c) : d.data[c][k] = v[k]
                      /\ \E v \in Whole(c) : e.data[c][k] = v[k]
    OBVIOUS
  <2>1. d.data[c] \in Content[c] /\ e.data[c] \in Content[c]
    BY DiskFacts
  <2> QED BY <2>1, ContentFacts
<1>6. ASSUME NEW c \in Category PROVE x.data[c] \in Content[c]
  <2>1. ASSUME NEW k \in Sectors(c) PROVE \E v \in Whole(c) : x.data[c][k] = v[k]
    <3>1. x.data[c][k] = d.data[c][k] \/ x.data[c][k] = e.data[c][k]
      BY <1>4
    <3>2. (\E v \in Whole(c) : d.data[c][k] = v[k]) /\ (\E v \in Whole(c) : e.data[c][k] = v[k])
      BY <1>5
    <3> QED BY <3>1, <3>2, Zenon
  <2>2. x.data[c] = [k \in Sectors(c) |-> x.data[c][k]]
    BY <1>4
  <2> QED BY <2>1, <2>2, ContentFacts
<1>7. d.hdr \in Header /\ e.hdr \in Header
  BY DiskFacts
<1>8. x.data = [c \in Category |-> x.data[c]]
  BY <1>3 DEF Reverted
<1>9. x = [hdr |-> x.hdr, data |-> x.data]
  BY <1>2
<1>10. x \in Disk
  BY <1>3, <1>6, <1>7, <1>8, <1>9, DiskFacts
<1> QED BY <1>3, <1>4, <1>10

\* A machine that starts.
LEMMA RestartKeepsSound ==
  ASSUME Sound, Restart, disk' \in Disk, durable' \in Disk,
         HeaderSane(disk'.hdr), HeaderSane(durable'.hdr)
  PROVE  Sound'
<1>1. /\ mem' = Blank /\ savelist' = Category /\ disk_present' = FALSE
      /\ hdr_buf' = [o \in Owner |-> NoHeader] /\ drive_err' = FALSE
      /\ cmd' = "boot" /\ todo' = <<Probe>> /\ step' = 1 /\ results' = {}
      /\ UNCHANGED <<faults, recent, acked>>
  BY DEF Restart, history_vars
<1>2. todo' \in Queues[cmd']
  BY <1>1 DEF Queues
<1>3. ControlInv'
  BY <1>1, <1>2, StartKeepsControl DEF Commands
<1>4. mem' \in Memory
  BY <1>1, ImageAssumption, MemoryFacts DEF Held
<1>5. MemInv'
  BY <1>1, ImageAssumption, AlikeFacts DEF MemInv, Category
<1>6. HeadersInv'
  BY <1>1 DEF HeadersInv, HeaderSane, Flagged, NoHeader
<1>7. todo' \in Seq(Call)
  BY <1>1, <1>2, QueueTypes DEF Commands
<1>8. hdr_buf' \in [Owner -> Header]
  BY <1>1, HeaderTypes
<1>9. TypeOK'
  BY <1>1, <1>4, <1>7, <1>8 DEF Sound, TypeOK
<1> QED BY <1>3, <1>5, <1>6, <1>9 DEF Sound

\* A crash and a reboot.
LEMMA RestartsKeepSound ==
  ASSUME Sound, Reboot \/ Crash
  PROVE  Sound'
<1>1. disk \in Disk /\ durable \in Disk /\ HeaderSane(disk.hdr) /\ HeaderSane(durable.hdr)
  BY DEF Sound, TypeOK, HeadersInv
<1>2. CASE Reboot
  BY <1>1, <1>2, RestartKeepsSound DEF Reboot
<1>3. CASE Crash
  <2>1. disk' \in PowerLoss(disk, durable) /\ durable' = disk' /\ Restart
    BY <1>3 DEF Crash
  <2>2. disk' \in Disk /\ disk'.hdr \in {disk.hdr, durable.hdr}
    BY <1>1, <2>1, PowerLossFacts
  <2> QED BY <1>1, <2>1, <2>2, RestartKeepsSound
<1> QED BY <1>2, <1>3

\* At power-on.
LEMMA InitIsSound == Init => Sound
<1> SUFFICES ASSUME Init PROVE Sound
  OBVIOUS
<1>1. /\ mem = Blank /\ disk = BlankDisk /\ durable = BlankDisk
      /\ cmd = "boot" /\ todo = <<Probe>> /\ step = 1
      /\ hdr_buf = [o \in Owner |-> NoHeader]
  BY DEF Init
<1>2. todo \in Queues[cmd] /\ todo \in Seq(Call)
  BY <1>1, QueueTypes DEF Queues, Commands
<1>3. todo # <<>> /\ Head(todo) = Probe /\ LastStep(Probe) = 1
  BY <1>1 DEF LastStep, Probe
<1>4. ControlInv
  BY <1>1, <1>2, <1>3 DEF ControlInv, Init
<1>5. mem \in Memory
  BY <1>1, ImageAssumption, MemoryFacts DEF Held
<1>6. MemInv
  BY <1>1, ImageAssumption, AlikeFacts DEF MemInv, Category
<1>7. BlankDisk \in Disk
  <2>1. \A c \in Category : Blank[c] \in Content[c]
    BY HeldIsContent DEF Held
  <2>2. BlankDisk.hdr = NoHeader /\ BlankDisk.data = Blank
    BY DEF BlankDisk
  <2>3. BlankDisk = [hdr |-> BlankDisk.hdr, data |-> BlankDisk.data]
    BY DEF BlankDisk
  <2> QED BY <2>1, <2>2, <2>3, HeaderTypes, DiskFacts, ImageAssumption
<1>8. HeadersInv
  BY <1>1 DEF HeadersInv, HeaderSane, Flagged, BlankDisk, NoHeader
<1>9. recent \in Images
  BY ImagesFacts DEF Init
<1>10. hdr_buf \in [Owner -> Header]
  BY <1>1, HeaderTypes
<1>11. /\ faults \in FaultModel /\ savelist \in SUBSET Category /\ disk_present \in BOOLEAN
       /\ drive_err \in BOOLEAN /\ results \in SUBSET Result /\ acked \in SUBSET Category
  BY DEF Init
<1>12. TypeOK
  BY <1>1, <1>2, <1>5, <1>7, <1>9, <1>10, <1>11 DEF TypeOK
<1> QED BY <1>4, <1>6, <1>8, <1>12 DEF Sound

\* One step.
LEMMA StepKeepsSound ==
  ASSUME Sound, [Next]_vars
  PROVE  Sound'
<1>1. CASE PersistProbe
  BY <1>1, ProbeKeepsSound
<1>2. ASSUME NEW c \in Category, PersistLoad(c) PROVE Sound'
  BY <1>2, LoadKeepsSound
<1>3. ASSUME NEW c \in Category, SaveSkipped(c) PROVE Sound'
  BY <1>3, SkippedKeepsSound
<1>4. ASSUME NEW c \in Category, WriteData(c) PROVE Sound'
  BY <1>4, WriteDataKeepsSound
<1>5. ASSUME NEW o \in Owner, ReadHeader(o) PROVE Sound'
  BY <1>5, ReadHeaderKeepsSound
<1>6. ASSUME NEW o \in Owner, WriteHeader(o) PROVE Sound'
  BY <1>6, WriteHeaderKeepsSound
<1>7. CASE SetSkipped
  BY <1>7, SetSkippedKeepsSound
<1>8. CASE CommandStep
  BY <1>8, CommandsKeepSound
<1>9. CASE Reboot \/ Crash
  BY <1>9, RestartsKeepSound
<1>10. CASE UNCHANGED vars
  BY <1>10 DEF Sound, TypeOK, ControlInv, MemInv, HeadersInv, HeaderSane, Flagged, Calling,
               vars, io_vars, history_vars
<1>11. faults \in FaultModel
  BY DEF Sound, TypeOK
<1>12. \A c \in Toggled(faults) : CmdSavelist(c) => CommandStep
  BY <1>11, UserAssumption DEF CommandStep
<1> QED
  BY <1>1, <1>2, <1>3, <1>4, <1>5, <1>6, <1>7, <1>8, <1>9, <1>10, <1>12 DEF Next, CommandStep

\* Whatever fails, the state is sound: typed, and memory, headers and the
\* pending call fit together.
THEOREM SoundAlways == Spec => []Sound
<1>1. Init => Sound
  BY InitIsSound
<1>2. Sound /\ [Next]_vars => Sound'
  BY StepKeepsSound
<1> QED BY <1>1, <1>2, PTL DEF Spec

\* Every variable has its type, whatever fails: sectors hold sectors of images,
\* and headers checksums of images.
THEOREM TypesHold == Spec => []TypeOK
<1>1. Sound => TypeOK
  BY DEF Sound
<1> QED BY <1>1, SoundAlways, PTL

\* Whatever goes wrong and however often, a load takes what has the checksum of a
\* whole image (persist_load_aliases(), persist_load_fs()).  This rests on no
\* assumption about the checksum: a mixture with the sum of an image is taken.
THEOREM NothingTorn == Spec => []NoTornImage
<1>1. Sound => NoTornImage
  BY AcceptedIsAlike DEF Sound, TypeOK, HeadersInv, NoTornImage
<1> QED BY <1>1, SoundAlways, PTL

-----------------------------------------------------------------------------
(* What is on the disk is recent, when the drive reports its failures. *)

\* A step that leaves the disk and the reports alone.
LEMMA QuietStepKeepsReported ==
  ASSUME ReportedInv, UNCHANGED <<hdr_buf, disk, durable, recent>>, step' = 1
  PROVE  ReportedInv'
BY DEF ReportedInv, Unflagged, SectorsRecent

\* The data is written.
LEMMA WriteDataKeepsReported ==
  ASSUME Sound, ReportedInv, "lost" \notin faults, NEW c \in Category, WriteData(c)
  PROVE  ReportedInv'
<1> DEFINE new == [disk EXCEPT !.data[c][step] = mem[c][step]]
<1>1. /\ Head(todo) = Save(c) /\ step \in Sectors(c) /\ mem[c] \in Alike[c] /\ disk \in Disk
      /\ disk'.hdr = disk.hdr /\ durable'.hdr \in {disk.hdr, durable.hdr}
      /\ recent \in Images /\ SectorCount[c] \in Nat
  BY WriteDataFacts, SectorAssumption DEF Sound, TypeOK
<1>2. /\ new.hdr = disk.hdr
      /\ \A b \in Category \ {c} : new.data[b] = disk.data[b]
      /\ \A j \in Sectors(c) : new.data[c][j] = IF j = step THEN mem[c][step] ELSE disk.data[c][j]
  <2>1. mem[c] \in Held(c)
    BY <1>1 DEF Held
  <2>2. new.hdr = disk.hdr
    BY <1>1, <2>1, SectorWritten
  <2>3. \A b \in Category \ {c} : new.data[b] = disk.data[b]
    BY <1>1, <2>1, SectorWritten
  <2>4. \A j \in Sectors(c) : new.data[c][j] = IF j = step THEN mem[c][step] ELSE disk.data[c][j]
    <3>1. disk = [hdr |-> disk.hdr, data |-> disk.data]
          /\ disk.data = [b \in Category |-> disk.data[b]]
          /\ disk.data[c] = [j \in Sectors(c) |-> disk.data[c][j]]
      BY <1>1, DiskFacts, ContentFacts
    <3> QED BY <1>1, <3>1
  <2> QED BY <2>2, <2>3, <2>4
<1>3. /\ recent' = [recent EXCEPT ![c] = @ \cup {mem[c]}] /\ hdr_buf' = hdr_buf /\ mem' = mem
      /\ \/ /\ todo' = todo /\ step' = step + 1 /\ disk' = new /\ durable' \in {durable, new}
            /\ step = SectorCount[c] => durable' = new
         \/ step' = 1 /\ disk' = disk /\ durable' = durable
  BY LastSectorFacts DEF WriteData, TransferOk, Return, Sound, TypeOK
<1> HIDE DEF new
<1>4. /\ recent'[c] = recent[c] \cup {mem[c]}
      /\ \A b \in Category \ {c} : recent'[b] = recent[b]
  BY <1>1, <1>3, ImagesFacts
<1>5. ASSUME NEW b \in Category
      PROVE  (Unflagged(b) \/ (SectorsRecent(disk, b) /\ SectorsRecent(durable, b)))'
  <2>1. Unflagged(b) => Unflagged(b)'
    BY <1>1, <1>3 DEF Unflagged
  <2>2. ASSUME SectorsRecent(disk, b), SectorsRecent(durable, b)
        PROVE  (SectorsRecent(disk, b) /\ SectorsRecent(durable, b))'
    <3>1. CASE b = c
      BY <1>1, <1>2, <1>3, <1>4, <2>2, <3>1 DEF SectorsRecent
    <3>2. CASE b # c
      BY <1>2, <1>3, <1>4, <2>2, <3>2 DEF SectorsRecent
    <3> QED BY <3>1, <3>2
  <2> QED BY <2>1, <2>2 DEF ReportedInv
<1>6. ASSUME NEW b \in Category, Calling(Save(b))', step' > 1
      PROVE  /\ mem'[b] \in recent'[b]
             /\ \A k \in Sectors(b) : k < step' => disk'.data[b][k] = mem'[b][k]
             /\ step' > SectorCount[b] => durable'.data[b] = disk'.data[b]
  <2>1. todo' = todo /\ step' = step + 1 /\ disk' = new /\ (step = SectorCount[c] => durable' = new)
    BY <1>3, <1>6
  <2>2. b = c
    BY <1>1, <1>6, <2>1 DEF Calling, Save
  <2>3. step > 1 => \A k \in Sectors(c) : k < step => disk.data[c][k] = mem[c][k]
    BY <1>1, <1>6, <2>1 DEF ReportedInv, Calling
  <2>4. step \in Nat /\ 1 <= step /\ step <= SectorCount[c]
    BY <1>1 DEF Sectors
  <2>5. \A k \in Sectors(c) : k < step + 1 => disk'.data[c][k] = mem'[c][k]
    BY <1>2, <1>3, <2>1, <2>3, <2>4 DEF Sectors
  <2>6. step + 1 > SectorCount[c] => durable' = disk'
    BY <1>1, <2>1, <2>4
  <2> QED BY <1>3, <1>4, <2>1, <2>2, <2>5, <2>6
<1> QED BY <1>5, <1>6 DEF ReportedInv

\* The header is read.
LEMMA ReadHeaderKeepsReported ==
  ASSUME Sound, ReportedInv, NEW o \in Owner, ReadHeader(o)
  PROVE  ReportedInv'
<1>1. /\ todo # <<>> /\ Updating(o) /\ step = ReadStep(o) /\ step' = step + 1
      /\ UNCHANGED <<mem, disk, durable, todo, recent>>
      /\ hdr_buf' = [hdr_buf EXCEPT ![o] = disk.hdr] \/ hdr_buf' = hdr_buf
      /\ hdr_buf \in [Owner -> Header]
  BY DEF ReadHeader, history_vars, Sound, TypeOK
<1>2. \A b \in Category : Unflagged(b) => Unflagged(b)'
  BY <1>1 DEF Unflagged
<1>3. ASSUME NEW b \in Category, Calling(Save(b))'
      PROVE  /\ Calling(Save(b)) /\ SectorCount[b] \in Nat \ {0}
             /\ step = SectorCount[b] + 1 /\ step' = SectorCount[b] + 2
  <2>1. Calling(Save(b)) /\ o = b
    BY <1>1, <1>3 DEF Calling, Updating, Save
  <2> QED BY <1>1, <2>1, Steps
<1>4. ASSUME NEW b \in Category, Calling(Save(b))', step' > 1
      PROVE  /\ mem'[b] \in recent'[b]
             /\ \A k \in Sectors(b) : k < step' => disk'.data[b][k] = mem'[b][k]
             /\ step' > SectorCount[b] => durable'.data[b] = disk'.data[b]
  <2>1. Calling(Save(b)) /\ step > 1 /\ step > SectorCount[b] /\ SectorCount[b] \in Nat
    BY <1>3, <1>4
  <2>2. \A k \in Sectors(b) : k < step
    BY <1>3, <1>4, <2>1 DEF Sectors
  <2> QED BY <1>1, <2>1, <2>2 DEF ReportedInv
<1> QED BY <1>1, <1>2, <1>4 DEF ReportedInv, SectorsRecent

\* At its last step a save has the image of memory on the disk.
LEMMA DataIsWritten ==
  ASSUME Sound, ReportedInv, NEW c \in Category, WriteHeader(c)
  PROVE  disk.data[c] = mem[c] /\ durable.data[c] = mem[c]
<1>1. todo # <<>> /\ Updating(c) /\ step = WriteStep(c) /\ disk \in Disk
  BY DEF WriteHeader, Sound, TypeOK
<1>2. c \in Owner /\ SectorCount[c] \in Nat \ {0} /\ WriteStep(c) = SectorCount[c] + 2
  BY Steps DEF Owner
<1>3. Calling(Save(c)) /\ cmd # "boot"
  BY <1>1, <1>2, UpdatingFacts DEF Calling
<1>4. step > 1 /\ step > SectorCount[c] /\ \A k \in Sectors(c) : k < step
  BY <1>1, <1>2 DEF Sectors
<1>5. /\ \A k \in Sectors(c) : disk.data[c][k] = mem[c][k]
      /\ durable.data[c] = disk.data[c]
  BY <1>3, <1>4 DEF ReportedInv
<1>6. mem[c] = [k \in Sectors(c) |-> mem[c][k]]
  BY <1>3, MemoryIsAlike, HeldIsContent
<1>7. disk.data[c] = [k \in Sectors(c) |-> disk.data[c][k]]
  BY <1>1, DiskFacts, ContentFacts
<1> QED BY <1>5, <1>6, <1>7

\* The header is written.
LEMMA WriteHeaderKeepsReported ==
  ASSUME Sound, ReportedInv, "lost" \notin faults, NEW o \in Owner, WriteHeader(o)
  PROVE  ReportedInv'
<1>1. CASE UNCHANGED <<disk, durable, history_vars>>
  BY <1>1, WriteHeaderFacts, QuietStepKeepsReported DEF history_vars
<1>2. CASE /\ recent' = [c \in Category |-> IF c = o THEN {mem[c]} ELSE recent[c]]
           /\ disk'.hdr = HeaderOf(o) /\ durable' = disk'
  <2>1. disk'.data = disk.data /\ hdr_buf' = hdr_buf /\ step' = 1
    BY WriteHeaderFacts
  <2>2. ASSUME NEW b \in Category
        PROVE  (Unflagged(b) \/ (SectorsRecent(disk, b) /\ SectorsRecent(durable, b)))'
    <3>1. CASE b = o
      <4>1. disk.data[b] = mem[b] /\ recent'[b] = {mem[b]}
        BY <1>2, <3>1, DataIsWritten
      <4> QED BY <1>2, <2>1, <4>1 DEF SectorsRecent
    <3>2. CASE b # o
      <4>1. Unflagged(b) => Unflagged(b)'
        BY <1>2, <2>1, <3>2, HeaderOfFacts DEF Unflagged
      <4>2. SectorsRecent(disk, b) => (SectorsRecent(disk, b) /\ SectorsRecent(durable, b))'
        BY <1>2, <2>1, <3>2 DEF SectorsRecent
      <4> QED BY <4>1, <4>2 DEF ReportedInv
    <3> QED BY <3>1, <3>2
  <2> QED BY <2>1, <2>2 DEF ReportedInv
<1> QED BY <1>1, <1>2, WriteHeaderFacts

\* A crash and a reboot.
LEMMA RestartsKeepReported ==
  ASSUME Sound, ReportedInv, Reboot \/ Crash
  PROVE  ReportedInv'
<1>1. /\ hdr_buf' = [o \in Owner |-> NoHeader] /\ step' = 1 /\ recent' = recent
      /\ disk \in Disk /\ durable \in Disk
  BY DEF Reboot, Crash, Restart, history_vars, Sound, TypeOK
<1>2. /\ disk'.hdr \in {disk.hdr, durable.hdr} /\ durable'.hdr \in {disk.hdr, durable.hdr}
      /\ \A c \in Category : \A k \in Sectors(c) :
           /\ disk'.data[c][k] \in {disk.data[c][k], durable.data[c][k]}
           /\ durable'.data[c][k] \in {disk.data[c][k], durable.data[c][k]}
  <2>1. CASE Reboot
    BY <2>1 DEF Reboot
  <2>2. CASE Crash
    BY <1>1, <2>2, PowerLossFacts DEF Crash
  <2> QED BY <2>1, <2>2
<1>3. \A c \in Category : Unflagged(c) => Unflagged(c)'
  BY <1>1, <1>2 DEF Unflagged, Flagged, NoHeader
<1>4. ASSUME NEW c \in Category, SectorsRecent(disk, c), SectorsRecent(durable, c)
      PROVE  SectorsRecent(disk, c)' /\ SectorsRecent(durable, c)'
  BY <1>1, <1>2, <1>4 DEF SectorsRecent
<1> QED BY <1>1, <1>3, <1>4 DEF ReportedInv

\* One step.
LEMMA StepKeepsReported ==
  ASSUME Sound, ReportedInv, "lost" \notin faults, [Next]_vars
  PROVE  ReportedInv'
<1>1. CASE PersistProbe
  BY <1>1, QuietStepKeepsReported DEF PersistProbe, history_vars
<1>2. ASSUME NEW c \in Category, PersistLoad(c) PROVE ReportedInv'
  BY <1>2, LoadFacts, QuietStepKeepsReported DEF history_vars
<1>3. ASSUME NEW c \in Category, SaveSkipped(c) PROVE ReportedInv'
  BY <1>3, QuietStepKeepsReported DEF SaveSkipped, Return, io_vars, history_vars
<1>4. ASSUME NEW c \in Category, WriteData(c) PROVE ReportedInv'
  BY <1>4, WriteDataKeepsReported
<1>5. ASSUME NEW o \in Owner, ReadHeader(o) PROVE ReportedInv'
  BY <1>5, ReadHeaderKeepsReported
<1>6. ASSUME NEW o \in Owner, WriteHeader(o) PROVE ReportedInv'
  BY <1>6, WriteHeaderKeepsReported
<1>7. CASE SetSkipped
  BY <1>7, QuietStepKeepsReported DEF SetSkipped, io_vars, history_vars
<1>8. ASSUME NEW name, NEW calls, Command(name, calls) PROVE ReportedInv'
  BY <1>8, QuietStepKeepsReported DEF Command, io_vars, history_vars
<1>9. CASE Reboot \/ Crash
  BY <1>9, RestartsKeepReported
<1>10. CASE UNCHANGED vars
  BY <1>10 DEF ReportedInv, Unflagged, SectorsRecent, Flagged, Calling, vars, io_vars,
               history_vars
<1>11. (\E c \in Category : Change(c)) \/ (\E c \in Toggled(faults) : CmdSavelist(c))
       \/ CmdSave \/ CmdLoad => ReportedInv'
  BY <1>8 DEF Change, CmdSavelist, CmdSave, CmdLoad
<1> QED
  BY <1>1, <1>2, <1>3, <1>4, <1>5, <1>6, <1>7, <1>9, <1>10, <1>11 DEF Next

-----------------------------------------------------------------------------
(* What is acknowledged is stored, when no single transfer gives up either. *)

\* A command's queue without its head.
LEMMA AheadFacts ==
  ASSUME todo \in Seq(Call), NEW c \in Category
  PROVE  /\ todo = <<>> => ~Ahead(c)
         /\ todo # <<>> /\ Head(todo) = Save(c) => Ahead(c)
         /\ todo # <<>> /\ todo' = Tail(todo) /\ Ahead(c) /\ Head(todo) # Save(c) => Ahead(c)'
<1>1. todo = <<>> => ~Ahead(c)
  BY DEF Ahead
<1>2. ASSUME todo # <<>>, Head(todo) = Save(c) PROVE Ahead(c)
  <2>1. 1 \in 1 .. Len(todo) /\ todo[1] = Save(c)
    BY <1>2
  <2> QED BY <2>1 DEF Ahead
<1>3. ASSUME todo # <<>>, todo' = Tail(todo), Ahead(c), Head(todo) # Save(c) PROVE Ahead(c)'
  <2>1. PICK i \in 1 .. Len(todo) : todo[i] = Save(c)
    BY <1>3 DEF Ahead
  <2>2. i # 1
    BY <1>3, <2>1
  <2>3. i - 1 \in 1 .. Len(todo') /\ todo'[i - 1] = Save(c)
    BY <1>3, <2>1, <2>2
  <2>4. Save(c)' = Save(c)
    BY DEF Save
  <2> QED BY <2>3, <2>4 DEF Ahead
<1> QED BY <1>1, <1>2, <1>3

\* The calls of a save command are saves, and no load is one.
LEMMA SaveQueue ==
  ASSUME Sound, todo # <<>>
  PROVE  /\ cmd = "save" => \E c \in Category : Head(todo) = Save(c)
         /\ \A c \in Category : Calling(Load(c)) => cmd # "save" /\ ~Calling(SavelistSet)
         /\ \A c \in Category : Calling(Save(c)) => ~Calling(SavelistSet)
         /\ Calling(SavelistSet) => cmd # "save"
<1>1. cmd \in Commands /\ todo \in Queues[cmd]
  BY DEF Sound, TypeOK, ControlInv, Commands
<1>2. cmd = "save" => Head(todo) \in {Save("aliases"), Save("fs")}
  BY <1>1 DEF Queues
<1>3. \A c \in Category : Save(c).fn = "save" /\ Load(c).fn = "load" /\ SavelistSet.fn = "set"
  BY DEF Save, Load, SavelistSet
<1> QED BY <1>2, <1>3 DEF Calling, Category

\* A step at which no header is about to be written back.
LEMMA FirstStepKeepsBuffer ==
  ASSUME Sound', step' = 1
  PROVE  BufferInv'
<1>1. todo' # <<>> => Head(todo') \in Call
  BY QueueFacts DEF Sound, TypeOK, ControlInv, Commands
<1>2. todo' # <<>> => Head(todo').of \in Owner
  BY <1>1 DEF Call, Owner
<1>3. todo' # <<>> => WriteStep(Head(todo').of) > 1
  BY <1>2, Steps DEF Owner
<1> QED BY <1>3 DEF BufferInv

\* A step that leaves the disk and the history alone.
LEMMA QuietStepKeepsStored ==
  ASSUME StoredInv, UNCHANGED <<disk, durable, history_vars>>
  PROVE  StoredInv'
BY DEF StoredInv, Kept, Flagged, history_vars

\* A load, and what does not touch the disk at all.
LEMMA QuietStepsKeepSteady ==
  ASSUME Sound, Sound', SteadyInv, DriveIsSteady,
         \/ PersistProbe
         \/ \E c \in Category : PersistLoad(c) \/ SaveSkipped(c)
         \/ SetSkipped
         \/ CommandStep
  PROVE  SteadyInv'
<1>1. UNCHANGED <<hdr_buf, disk, durable, history_vars>> /\ step' = 1
  BY LoadFacts DEF PersistProbe, SaveSkipped, Return, SetSkipped, CommandStep, Change,
       CmdSavelist, CmdSave, CmdLoad, Command, io_vars
<1>2. StoredInv' /\ BufferInv'
  BY <1>1, QuietStepKeepsStored, FirstStepKeepsBuffer DEF SteadyInv
<1>3. /\ "timeout" \notin faults /\ savelist \in SUBSET Category /\ todo \in Seq(Call)
      /\ drive_err \in BOOLEAN /\ SavelistInv /\ SavingInv
  BY DEF DriveIsSteady, Sound, TypeOK, SteadyInv
<1>4. CASE PersistProbe
  <2>1. cmd' = "boot" /\ ~disk_present
    <3>1. Calling(Probe) /\ todo # <<>> /\ Head(todo) = Probe /\ cmd' = cmd
      BY <1>4 DEF PersistProbe, Calling
    <3>2. cmd \in Commands /\ todo \in Queues[cmd]
      BY DEF Sound, TypeOK, ControlInv, Commands
    <3> QED BY <3>1, <3>2, QueueFacts DEF Sound, ControlInv
  <2>2. \/ disk_present' = disk_present
        \/ savelist' = disk'.hdr.savelist
        \/ ~disk'.hdr.magic
        \/ \E r \in Result : TransferFails(r)
    BY <1>4 DEF PersistProbe
  <2>3. SavelistInv'
    <3>1. ASSUME NEW r \in Result, TransferFails(r) PROVE drive_err'
      BY <1>3, <3>1, TransferFacts
    <3> QED BY <2>1, <2>2, <3>1 DEF SavelistInv
  <2> QED BY <1>2, <2>1, <2>3 DEF SteadyInv, SavingInv
<1>5. ASSUME NEW c \in Category, PersistLoad(c) PROVE SteadyInv'
  <2>1. Calling(Load(c)) /\ todo # <<>> /\ cmd' = cmd /\ UNCHANGED <<disk_present, savelist>>
        /\ (drive_err => drive_err')
    BY <1>5, LoadFacts DEF PersistLoad, Calling
  <2>2. cmd # "save" /\ ~Calling(SavelistSet)
    BY <2>1, SaveQueue
  <2> QED BY <1>1, <1>2, <1>3, <2>1, <2>2 DEF SteadyInv, SavingInv, SavelistInv
<1>6. ASSUME NEW c \in Category, SaveSkipped(c) PROVE SteadyInv'
  <2>1. /\ Calling(Save(c)) /\ todo # <<>> /\ Head(todo) = Save(c) /\ todo' = Tail(todo)
        /\ UNCHANGED <<mem, savelist, disk_present, drive_err, cmd, acked, recent>>
        /\ Return("ATA_ERR_NODRIVE") \/ (c \notin savelist /\ Return("ATA_OK"))
    BY <1>6 DEF SaveSkipped, Calling, Return, io_vars, history_vars
  <2>2. ~Calling(SavelistSet)
    BY <2>1, SaveQueue
  <2>3. SavelistInv'
    BY <1>1, <1>3, <2>1, <2>2 DEF SavelistInv
  <2>4. ASSUME cmd' = "save", results' \subseteq {"ATA_OK"}
        PROVE  results \subseteq {"ATA_OK"} /\ c \notin savelist
    <3>1. \E r \in {"ATA_ERR_NODRIVE", "ATA_OK"} :
             results' = results \cup {r} /\ (r = "ATA_OK" => c \notin savelist)
      BY <2>1, <2>4 DEF Return
    <3> QED BY <2>4, <3>1
  <2>5. ASSUME NEW b \in savelist, b # c, Ahead(b) PROVE Ahead(b)'
    <3>1. Save(b) # Save(c) /\ b \in Category
      BY <1>3, <2>5 DEF Save
    <3> QED BY <1>3, <2>1, <2>5, <3>1, AheadFacts
  <2>6. SavingInv'
    BY <1>3, <2>1, <2>4, <2>5 DEF SavingInv
  <2> QED BY <1>2, <2>3, <2>6 DEF SteadyInv
<1>7. CASE SetSkipped
  <2>1. Calling(SavelistSet) /\ todo # <<>> /\ cmd' = cmd /\ ~disk_present'
    BY <1>7 DEF SetSkipped, Calling
  <2>2. cmd # "save"
    BY <2>1, SaveQueue
  <2> QED BY <1>2, <2>1, <2>2 DEF SteadyInv, SavingInv, SavelistInv
<1>8. CASE CommandStep
  <2>1. todo = <<>> /\ UNCHANGED <<disk_present, drive_err>> /\ ~Calling(SavelistSet)
    BY <1>8 DEF CommandStep, Change, CmdSavelist, CmdSave, CmdLoad, Command, Calling, io_vars
  <2>2. savelist' = savelist \/ Calling(SavelistSet)'
    <3>1. CASE \E c \in Category : CmdSavelist(c)
      <4>1. todo' = <<SavelistSet>>
        BY <3>1 DEF CmdSavelist, Command
      <4> QED BY <4>1 DEF Calling, SavelistSet
    <3>2. CASE ~\E c \in Category : CmdSavelist(c)
      BY <1>8, <3>2 DEF CommandStep, Change, CmdSave, CmdLoad
    <3> QED BY <3>1, <3>2
  <2>3. SavelistInv'
    BY <1>1, <1>3, <2>1, <2>2 DEF SavelistInv
  <2>4. SavingInv'
    <3>1. CASE CmdSave
      <4>1. todo' = <<Save("aliases"), Save("fs")>> /\ savelist' \subseteq Category
        BY <1>3, <3>1 DEF CmdSave, Command
      <4>2. Len(todo') = 2 /\ todo'[1] = Save("aliases") /\ todo'[2] = Save("fs")
        BY <4>1
      <4>3. \A c \in Category : Ahead(c)'
        BY <4>2 DEF Ahead, Category, Save
      <4> QED BY <4>1, <4>3 DEF SavingInv
    <3>2. CASE ~CmdSave
      <4>1. cmd' = "other"
        BY <1>8, <3>2 DEF CommandStep, Change, CmdSavelist, CmdLoad, Command
      <4> QED BY <4>1 DEF SavingInv
    <3> QED BY <3>1, <3>2
  <2> QED BY <1>2, <2>3, <2>4 DEF SteadyInv
<1> QED BY <1>4, <1>5, <1>6, <1>7, <1>8

\* The data is written.
LEMMA WriteDataKeepsSteady ==
  ASSUME Sound, Sound', SteadyInv, DriveIsSteady, NEW c \in Category, WriteData(c)
  PROVE  SteadyInv'
<1> DEFINE new == [disk EXCEPT !.data[c][step] = mem[c][step]]
<1>1. /\ "timeout" \notin faults /\ "lost" \notin faults /\ drive_err \in BOOLEAN
      /\ todo \in Seq(Call) /\ recent \in Images /\ savelist \subseteq Category
      /\ disk \in Disk
  BY DEF DriveIsSteady, Sound, TypeOK
<1>2. /\ Head(todo) = Save(c) /\ todo # <<>> /\ step \in Sectors(c) /\ mem[c] \in Held(c)
      /\ disk'.hdr = disk.hdr /\ durable'.hdr = disk.hdr
  BY WriteDataFacts DEF Held, SteadyInv, StoredInv
<1>3. /\ UNCHANGED <<mem, savelist, disk_present, hdr_buf, cmd>>
      /\ recent' = [recent EXCEPT ![c] = @ \cup {mem[c]}] /\ acked' = acked \ {c}
      /\ \/ /\ UNCHANGED <<todo, results, drive_err>> /\ step' = step + 1
            /\ disk' = new /\ durable' \in {durable, new}
         \/ /\ \E r \in Result \ {"ATA_OK"} : Return(r)
            /\ drive_err' /\ UNCHANGED <<disk, durable>>
  <2>1. /\ UNCHANGED <<mem, savelist, disk_present, hdr_buf, cmd>>
        /\ recent' = [recent EXCEPT ![c] = @ \cup {mem[c]}] /\ acked' = acked \ {c}
        /\ \/ /\ UNCHANGED <<todo, results>> /\ step' = step + 1
              /\ LastSector(new, disk)
                 \/ (disk' = new /\ durable' = durable /\ drive_err' = drive_err)
           \/ /\ \E r \in Result : TransferFails(r) /\ Return(r)
              /\ UNCHANGED <<disk, durable>>
    BY DEF WriteData, TransferOk
  <2> HIDE DEF new
  <2>2. LastSector(new, disk) => disk' = new /\ durable' = new /\ drive_err' = drive_err
    BY <1>1, LastSectorFacts
  <2>3. ASSUME NEW r \in Result, TransferFails(r) PROVE r \in Result \ {"ATA_OK"} /\ drive_err'
    BY <1>1, <2>3, TransferFacts
  <2> QED BY <2>1, <2>2, <2>3
<1>4. \A b \in Category \ {c} : /\ recent'[b] = recent[b]
                                /\ disk'.data[b] = disk.data[b]
                                /\ durable'.data[b] \in {disk.data[b], durable.data[b]}
  <2>1. \A b \in Category \ {c} : new.data[b] = disk.data[b]
    BY <1>1, <1>2, SectorWritten
  <2> HIDE DEF new
  <2> QED BY <1>1, <1>3, <2>1, ImagesFacts
<1>5. recent[c] \subseteq recent'[c]
  BY <1>1, <1>3, ImagesFacts
<1> HIDE DEF new
<1>6. StoredInv'
  <2>1. \A b \in Category : Flagged(disk'.hdr, b) =>
          \E v \in recent'[b] : disk'.hdr.csum[b] = Checksum(v)
    BY <1>2, <1>4, <1>5 DEF SteadyInv, StoredInv
  <2>2. ASSUME NEW b \in acked' PROVE Kept(b)'
    <3>1. b \in acked /\ b \in Category /\ b # c
      BY <1>3, <2>2 DEF Sound, TypeOK
    <3>2. Kept(b)
      BY <3>1 DEF SteadyInv, StoredInv
    <3> QED BY <1>2, <1>4, <3>1, <3>2 DEF Kept
  <2> QED BY <1>2, <2>1, <2>2 DEF StoredInv
<1>7. BufferInv'
  <2>1. CASE step' = 1
    BY <2>1, FirstStepKeepsBuffer
  <2>2. CASE todo' = todo /\ step' = step + 1
    <3>1. Head(todo').of = c
      BY <1>2, <2>2 DEF Save
    <3>2. step' < WriteStep(c)
      BY <1>2, <2>2, Steps DEF Sectors
    <3>3. step' # WriteStep(c)
      BY <1>2, <2>2, <3>2, Steps DEF Sectors
    <3> QED BY <3>1, <3>3 DEF BufferInv
  <2> QED BY <1>3, <2>1, <2>2 DEF Return
<1>8. SavingInv'
  <2>1. CASE UNCHANGED <<todo, results>>
    <3>1. \A b \in Category : Ahead(b)' = Ahead(b)
      BY <2>1 DEF Ahead, Save
    <3>2. Ahead(c)
      BY <1>1, <1>2, AheadFacts
    <3> QED BY <1>1, <1>3, <1>4, <2>1, <3>1, <3>2 DEF SteadyInv, SavingInv
  <2>2. CASE \E r \in Result \ {"ATA_OK"} : Return(r)
    BY <1>3, <2>2 DEF SavingInv, Return
  <2> QED BY <1>3, <2>1, <2>2
<1>9. SavelistInv'
  <2>1. ~Calling(SavelistSet)
    BY <1>2, SaveQueue DEF Calling
  <2> QED BY <1>2, <1>3, <2>1 DEF SteadyInv, SavelistInv
<1> QED BY <1>6, <1>7, <1>8, <1>9 DEF SteadyInv

\* The header is read.
LEMMA ReadHeaderKeepsSteady ==
  ASSUME Sound, Sound', SteadyInv, DriveIsSteady, NEW o \in Owner, ReadHeader(o)
  PROVE  SteadyInv'
<1>1. /\ todo # <<>> /\ Updating(o)
      /\ UNCHANGED <<mem, savelist, disk_present, disk, durable, cmd, todo, results, history_vars>>
      /\ "timeout" \notin faults /\ drive_err \in BOOLEAN /\ hdr_buf \in [Owner -> Header]
  BY DEF ReadHeader, DriveIsSteady, Sound, TypeOK
<1>2. \/ hdr_buf' = [hdr_buf EXCEPT ![o] = disk.hdr] /\ drive_err' = drive_err
      \/ drive_err'
  BY <1>1, TransferFacts DEF ReadHeader, TransferOk
<1>3. Head(todo').of = o
  BY <1>1 DEF Updating
<1>4. StoredInv'
  BY <1>1, QuietStepKeepsStored DEF SteadyInv
<1>5. BufferInv'
  BY <1>1, <1>2, <1>3 DEF BufferInv
<1>6. SavingInv'
  BY <1>1 DEF SteadyInv, SavingInv, Ahead, history_vars
<1>7. SavelistInv'
  BY <1>1, <1>2 DEF SteadyInv, SavelistInv, Calling
<1> QED BY <1>4, <1>5, <1>6, <1>7 DEF SteadyInv

\* The header is written.
LEMMA WriteHeaderKeepsSteady ==
  ASSUME Sound, Sound', SteadyInv, ReportedInv, DriveIsSteady, NEW o \in Owner, WriteHeader(o)
  PROVE  SteadyInv'
<1>1. /\ "timeout" \notin faults /\ "lost" \notin faults /\ todo \in Seq(Call)
      /\ savelist \subseteq Category /\ acked \subseteq Category /\ durable.hdr = disk.hdr
  BY DEF DriveIsSteady, Sound, TypeOK, SteadyInv, StoredInv
<1>2. /\ todo # <<>> /\ Updating(o) /\ todo' = Tail(todo) /\ step' = 1 /\ o = Head(todo).of
      /\ step = WriteStep(o) /\ UNCHANGED <<mem, savelist, disk_present, hdr_buf, cmd>>
  BY WriteHeaderFacts DEF WriteHeader, Updating
<1>3. BufferInv'
  BY <1>2, FirstStepKeepsBuffer
<1>4. CASE /\ \E r \in Result \ {"ATA_OK"} : Return(r)
           /\ UNCHANGED <<disk, durable, history_vars>>
           /\ drive_err'
  <2>1. StoredInv'
    BY <1>4, QuietStepKeepsStored DEF SteadyInv
  <2>2. SavingInv'
    BY <1>2, <1>4 DEF SavingInv, Return
  <2>3. SavelistInv'
    BY <1>4 DEF SavelistInv
  <2> QED BY <1>3, <2>1, <2>2, <2>3 DEF SteadyInv
<1>5. CASE /\ Return("ATA_OK")
           /\ recent' = [c \in Category |-> IF c = o THEN {mem[c]} ELSE recent[c]]
           /\ acked' = acked \cup ({o} \cap Category)
           /\ disk'.hdr = HeaderOf(o) /\ durable' = disk' /\ ~drive_err
  <2>1. hdr_buf[o] = disk.hdr /\ disk'.data = disk.data
    BY <1>2, <1>5, WriteHeaderFacts DEF SteadyInv, BufferInv
  <2>2. /\ disk'.hdr.magic /\ disk'.hdr.savelist = savelist
        /\ o \in Category => Flagged(disk'.hdr, o) /\ disk'.hdr.csum[o] = Checksum(mem[o])
        /\ \A c \in Category \ {o} :
             /\ Flagged(disk'.hdr, c) = Flagged(disk.hdr, c)
             /\ Flagged(disk.hdr, c) => disk'.hdr.csum[c] = disk.hdr.csum[c]
    BY <1>5, <2>1, HeaderOfFacts DEF Flagged
  <2>3. ASSUME NEW c \in Category, Flagged(disk'.hdr, c)
        PROVE  \E v \in recent'[c] : disk'.hdr.csum[c] = Checksum(v)
    <3>1. CASE c = o
      <4>1. recent'[c] = {mem[c]}
        BY <1>5, <3>1
      <4> QED BY <2>2, <3>1, <4>1
    <3>2. CASE c # o
      <4>1. recent'[c] = recent[c] /\ Flagged(disk.hdr, c)
        BY <1>5, <2>2, <2>3, <3>2
      <4>2. \E v \in recent[c] : disk.hdr.csum[c] = Checksum(v)
        BY <4>1 DEF SteadyInv, StoredInv
      <4> QED BY <2>2, <3>2, <4>1, <4>2
    <3> QED BY <3>1, <3>2
  <2>4. ASSUME NEW c \in acked' PROVE Kept(c)'
    <3>1. c \in Category
      BY <1>1, <1>5
    <3>2. CASE c = o
      <4>1. recent'[c] = {mem[c]} /\ disk'.data[c] = mem[c] /\ durable'.data[c] = mem[c]
        BY <1>5, <2>1, <3>1, <3>2, DataIsWritten
      <4>2. mem[c] \in Alike[c]
        BY <1>2, <3>1, UpdatingFacts, MemoryIsAlike
      <4>3. Flagged(disk'.hdr, c) /\ disk'.hdr.csum[c] = Checksum(mem[c])
        BY <2>2, <3>1, <3>2
      <4> QED BY <4>1, <4>2, <4>3 DEF Kept
    <3>3. CASE c # o
      <4>1. Kept(c) /\ recent'[c] = recent[c]
        BY <1>5, <3>1, <3>3 DEF SteadyInv, StoredInv
      <4>2. disk'.data[c] = disk.data[c] /\ durable'.data[c] = disk.data[c]
        BY <1>5, <2>1
      <4> QED BY <2>2, <3>1, <3>3, <4>1, <4>2 DEF Kept
    <3> QED BY <3>2, <3>3
  <2>5. StoredInv'
    BY <1>5, <2>3, <2>4 DEF StoredInv
  <2>6. SavingInv'
    <3>1. ASSUME cmd = "save", results' \subseteq {"ATA_OK"}, NEW b \in savelist
          PROVE  Ahead(b)' \/ (b \in acked' /\ recent'[b] = {mem[b]})
      <4>1. results \subseteq {"ATA_OK"} /\ b \in Category
        BY <1>1, <1>5, <3>1 DEF Return
      <4>2. o \in Category /\ Head(todo) = Save(o)
        BY <1>2, <3>1, SaveQueue, UpdatingFacts DEF Save
      <4>3. CASE b = o
        BY <1>5, <4>1, <4>3
      <4>4. CASE b # o /\ Ahead(b)
        <5>1. Head(todo) # Save(b)
          BY <4>2, <4>4 DEF Save
        <5> QED BY <1>1, <1>2, <4>1, <4>4, <5>1, AheadFacts
      <4>5. CASE b # o /\ ~Ahead(b)
        <5>1. b \in acked /\ recent[b] = {mem[b]}
          BY <3>1, <4>1, <4>5 DEF SteadyInv, SavingInv
        <5> QED BY <1>5, <4>1, <4>5, <5>1
      <4> QED BY <4>3, <4>4, <4>5
    <3> QED BY <1>2, <3>1 DEF SavingInv
  <2>7. SavelistInv'
    BY <1>2, <2>2 DEF SavelistInv
  <2> QED BY <1>3, <2>5, <2>6, <2>7 DEF SteadyInv
<1> QED BY <1>1, <1>4, <1>5, WriteHeaderFacts

\* What is on the disk and durable is there after a power failure.
LEMMA KeptThroughPowerLoss ==
  ASSUME disk \in Disk, durable \in Disk, durable.hdr = disk.hdr,
         NEW c \in Category, Kept(c), NEW d \in PowerLoss(disk, durable)
  PROVE  /\ d.hdr = disk.hdr
         /\ d.data[c] = disk.data[c]
<1>1. /\ d \in Disk /\ d.hdr = disk.hdr
      /\ \A k \in Sectors(c) : d.data[c][k] \in {disk.data[c][k], durable.data[c][k]}
  BY PowerLossFacts
<1>2. disk.data[c] = durable.data[c]
  BY DEF Kept
<1>3. /\ d.data[c] = [k \in Sectors(c) |-> d.data[c][k]]
      /\ disk.data[c] = [k \in Sectors(c) |-> disk.data[c][k]]
  BY <1>1, DiskFacts, ContentFacts
<1>4. \A k \in Sectors(c) : d.data[c][k] = disk.data[c][k]
  BY <1>1, <1>2
<1> QED BY <1>1, <1>3, <1>4

\* A crash and a reboot.
LEMMA RestartsKeepSteady ==
  ASSUME Sound, Sound', SteadyInv, Reboot \/ Crash
  PROVE  SteadyInv'
<1>1. /\ cmd' = "boot" /\ step' = 1 /\ disk_present' = FALSE
      /\ recent' = recent /\ acked' = acked /\ disk \in Disk /\ durable \in Disk
      /\ durable.hdr = disk.hdr /\ acked \subseteq Category
  BY DEF Reboot, Crash, Restart, history_vars, Sound, TypeOK, SteadyInv, StoredInv
<1>2. BufferInv' /\ SavingInv' /\ SavelistInv'
  BY <1>1, FirstStepKeepsBuffer DEF SavingInv, SavelistInv
<1>3. CASE Reboot
  BY <1>2, <1>3, QuietStepKeepsStored DEF Reboot, Restart, SteadyInv, history_vars
<1>4. CASE Crash
  <2>1. disk' \in PowerLoss(disk, durable) /\ durable' = disk'
    BY <1>4 DEF Crash
  <2>2. disk'.hdr = disk.hdr
    BY <1>1, <2>1, PowerLossFacts
  <2>3. ASSUME NEW c \in acked' PROVE Kept(c)'
    <3>1. Kept(c) /\ c \in Category
      BY <1>1 DEF SteadyInv, StoredInv
    <3>2. disk'.data[c] = disk.data[c]
      BY <1>1, <2>1, <3>1, KeptThroughPowerLoss
    <3> QED BY <1>1, <2>1, <2>2, <3>1, <3>2 DEF Kept
  <2>4. StoredInv'
    BY <1>1, <2>1, <2>2, <2>3 DEF StoredInv, SteadyInv
  <2> QED BY <1>2, <2>4 DEF SteadyInv
<1> QED BY <1>3, <1>4

\* One step.
LEMMA StepKeepsSteady ==
  ASSUME PersistInv, Sound', DriveIsSteady, [Next]_vars
  PROVE  SteadyInv'
<1>1. Sound /\ SteadyInv /\ ReportedInv
  BY DEF PersistInv, DriveIsSteady
<1>2. CASE PersistProbe \/ SetSkipped \/ CommandStep
  BY <1>1, <1>2, QuietStepsKeepSteady
<1>3. ASSUME NEW c \in Category, PersistLoad(c) \/ SaveSkipped(c) PROVE SteadyInv'
  BY <1>1, <1>3, QuietStepsKeepSteady
<1>4. ASSUME NEW c \in Category, WriteData(c) PROVE SteadyInv'
  BY <1>1, <1>4, WriteDataKeepsSteady
<1>5. ASSUME NEW o \in Owner, ReadHeader(o) PROVE SteadyInv'
  BY <1>1, <1>5, ReadHeaderKeepsSteady
<1>6. ASSUME NEW o \in Owner, WriteHeader(o) PROVE SteadyInv'
  BY <1>1, <1>6, WriteHeaderKeepsSteady
<1>7. CASE Reboot \/ Crash
  BY <1>1, <1>7, RestartsKeepSteady
<1>8. CASE UNCHANGED vars
  BY <1>1, <1>8 DEF SteadyInv, StoredInv, BufferInv, SavingInv, SavelistInv, Kept, Flagged,
               Ahead, Updating, Calling, vars, io_vars, history_vars
<1>9. \A c \in Toggled(faults) : CmdSavelist(c) => CommandStep
  BY <1>1, UserAssumption DEF CommandStep, Sound, TypeOK
<1> QED
  BY <1>2, <1>3, <1>4, <1>5, <1>6, <1>7, <1>8, <1>9 DEF Next, CommandStep

\* The faults are chosen once.
LEMMA FaultsStay == [Next]_vars => faults' = faults
<1> SUFFICES ASSUME [Next]_vars PROVE faults' = faults
  OBVIOUS
<1>1. CASE UNCHANGED vars
  BY <1>1 DEF vars
<1>2. CASE Next
  BY <1>2 DEF Next, PersistProbe, PersistLoad, SaveSkipped, WriteData, ReadHeader, WriteHeader,
       SetSkipped, Change, CmdSavelist, CmdSave, CmdLoad, Command, Reboot, Crash, Restart
<1> QED BY <1>1, <1>2

\* At power-on.
LEMMA InitIsPersistent == Init => PersistInv
<1> SUFFICES ASSUME Init PROVE PersistInv
  OBVIOUS
<1>1. Sound
  BY InitIsSound
<1>2. /\ disk = BlankDisk /\ durable = BlankDisk /\ hdr_buf = [o \in Owner |-> NoHeader]
      /\ step = 1 /\ cmd = "boot" /\ todo = <<Probe>> /\ acked = {} /\ disk_present = FALSE
  BY DEF Init
<1>3. \A c \in Category : ~Flagged(NoHeader, c)
  BY DEF Flagged, NoHeader
<1>4. ReportedInv
  BY <1>2, <1>3 DEF ReportedInv, Unflagged, BlankDisk
<1>5. SteadyInv
  <2>1. StoredInv
    BY <1>2, <1>3 DEF StoredInv, BlankDisk
  <2>2. BufferInv
    <3>1. ~Updating(Head(todo).of)
      BY <1>2 DEF Updating, Probe
    <3> QED BY <3>1 DEF BufferInv
  <2>3. SavingInv /\ SavelistInv
    BY <1>2 DEF SavingInv, SavelistInv
  <2> QED BY <2>1, <2>2, <2>3 DEF SteadyInv
<1> QED BY <1>1, <1>4, <1>5 DEF PersistInv

\* Each part of the invariant of persistence holds on the machines whose faults
\* it allows for.
THEOREM PersistAlways == Spec => []PersistInv
<1>1. Init => PersistInv
  BY InitIsPersistent
<1>2. PersistInv /\ [Next]_vars => PersistInv'
  <2> SUFFICES ASSUME PersistInv, [Next]_vars PROVE PersistInv'
    OBVIOUS
  <2>1. Sound /\ Sound' /\ faults' = faults
    BY StepKeepsSound, FaultsStay DEF PersistInv
  <2>2. "lost" \notin faults => ReportedInv'
    BY <2>1, StepKeepsReported DEF PersistInv
  <2>3. DriveIsSteady => SteadyInv'
    BY <2>1, StepKeepsSteady
  <2> QED BY <2>1, <2>2, <2>3 DEF PersistInv, DriveIsSteady
<1> QED BY <1>1, <1>2, PTL DEF Spec

\* A load takes nothing older than the last save that returned ATA_OK
\* (write_header() and the three static hdr_buf that may be stale).
THEOREM NothingOlder == Spec => []AcceptedIsRecent
<1>1. PersistInv => AcceptedIsRecent
  <2> SUFFICES ASSUME PersistInv, NEW c \in Category, Accepts(disk, c)
               PROVE  /\ "lost" \notin faults
                         => \A k \in Sectors(c) : \E v \in recent[c] : disk.data[c][k] = v[k]
                      /\ DriveIsSteady => disk.data[c] \in recent[c]
    BY DEF AcceptedIsRecent
  <2>1. Flagged(disk.hdr, c) /\ Checksum(disk.data[c]) = disk.hdr.csum[c]
    BY DEF Accepts, Flagged
  <2>2. "lost" \notin faults => SectorsRecent(disk, c)
    BY <2>1 DEF PersistInv, ReportedInv, Unflagged
  <2>3. ASSUME DriveIsSteady PROVE disk.data[c] \in recent[c]
    <3>1. PICK v \in recent[c] : disk.hdr.csum[c] = Checksum(v)
      BY <2>1, <2>3 DEF PersistInv, SteadyInv, StoredInv
    <3>2. v \in Held(c) /\ disk.data[c] \in Content[c]
      BY ImagesFacts, DiskFacts DEF PersistInv, Sound, TypeOK
    <3>3. v \in Whole(c)
      BY <3>2, AlikeIsImage
    <3> QED BY <2>1, <3>1, <3>2, <3>3, ChecksumAssumption
  <2> QED BY <2>2, <2>3 DEF SectorsRecent
<1> QED BY <1>1, PersistAlways, PTL

\* Once persist_save_*() has returned ATA_OK on a steady drive, a power failure
\* at any later moment leaves what it saved.
THEOREM SavedSurvives == Spec => []SavedIsDurable
<1>1. PersistInv => SavedIsDurable
  <2> SUFFICES ASSUME PersistInv, DriveIsSteady, NEW c \in acked,
                      NEW d \in PowerLoss(disk, durable)
               PROVE  /\ Accepts(d, c) /\ d.data[c] \in recent[c]
                      /\ Cardinality(recent[c]) = 1
    BY DEF SavedIsDurable
  <2>1. /\ c \in Category /\ disk \in Disk /\ durable \in Disk
        /\ durable.hdr = disk.hdr /\ Kept(c)
    BY DEF PersistInv, Sound, TypeOK, SteadyInv, StoredInv
  <2>2. PICK v \in Alike[c] : /\ recent[c] = {v} /\ disk.data[c] = v
                              /\ Flagged(disk.hdr, c) /\ disk.hdr.csum[c] = Checksum(v)
    BY <2>1 DEF Kept
  <2>3. d.hdr = disk.hdr /\ d.data[c] = v
    BY <2>1, <2>2, KeptThroughPowerLoss
  <2>4. Cardinality(recent[c]) = 1
    BY <2>2, FS_Singleton
  <2> QED BY <2>2, <2>3, <2>4 DEF Accepts, Flagged
<1> QED BY <1>1, PersistAlways, PTL

\* "Saved to disk." means that the next load takes what is in memory (cmd_save()).
THEOREM SavedIsLoadable == Spec => []SavedMeansLoadable
<1>1. PersistInv => SavedMeansLoadable
  <2> SUFFICES ASSUME PersistInv, DriveIsSteady, SavedToDisk, NEW c \in savelist
               PROVE  Accepts(disk, c) /\ disk.data[c] = mem[c]
    BY DEF SavedMeansLoadable
  <2>1. c \in Category /\ todo \in Seq(Call)
    BY DEF PersistInv, Sound, TypeOK
  <2>2. ~Ahead(c)
    BY <2>1, AheadFacts DEF SavedToDisk
  <2>3. c \in acked /\ recent[c] = {mem[c]}
    BY <2>1, <2>2 DEF PersistInv, SteadyInv, SavingInv, SavedToDisk
  <2>4. Kept(c)
    BY <2>3 DEF PersistInv, SteadyInv, StoredInv
  <2> QED BY <2>3, <2>4 DEF Kept, Accepts, Flagged
<1> QED BY <1>1, PersistAlways, PTL

\* Between commands the save list in memory is the one on the disk
\* (persist_savelist_set() and every header that a save writes).
THEOREM SavelistsAgree == Spec => []SavelistAgrees
<1>1. PersistInv => SavelistAgrees
  BY DEF PersistInv, SteadyInv, SavelistInv, SavelistAgrees, Calling
<1> QED BY <1>1, PersistAlways, PTL

-----------------------------------------------------------------------------
(* The copies that a load may find, on one disk and on all that a power     *)
(* failure may leave.                                                       *)

\* Two headers say the same of c.
SameOf(h, g, c) ==
  /\ Flagged(h, c) = Flagged(g, c)
  /\ Flagged(h, c) => h.csum[c] = g.csum[c]

\* What is found of c depends on what the header says of c, and on its sectors.
LEMMA FoundDepends ==
  ASSUME NEW c \in Category, NEW d, NEW e, SameOf(d.hdr, e.hdr, c), d.data[c] = e.data[c]
  PROVE  Found(d, c) = Found(e, c)
<1>1. Accepts(d, c) = Accepts(e, c)
  BY DEF Accepts, Flagged, SameOf
<1> QED BY <1>1 DEF Found

\* A power failure may lose nothing.
LEMMA NothingLost ==
  ASSUME NEW on \in Disk, NEW safe
  PROVE  on \in PowerLoss(on, safe)
<1>1. /\ on = [hdr |-> on.hdr, data |-> on.data]
      /\ on.data = [c \in Category |-> on.data[c]]
      /\ \A c \in Category : on.data[c] = [k \in Sectors(c) |-> on.data[c][k]]
  BY DiskFacts, ContentFacts
<1>2. Reverted(on, safe, {}) = on.data
  <2>1. Reverted(on, safe, {}) = [c \in Category |-> [k \in Sectors(c) |-> on.data[c][k]]]
    BY DEF Reverted
  <2>2. [c \in Category |-> [k \in Sectors(c) |-> on.data[c][k]]] = [c \in Category |-> on.data[c]]
    BY <1>1
  <2> QED BY <1>1, <2>1, <2>2
<1>3. [hdr |-> on.hdr, data |-> Reverted(on, safe, {})] \in PowerLoss(on, safe)
  BY DEF PowerLoss
<1> QED BY <1>1, <1>2, <1>3

\* With an empty cache there is nothing to lose.
LEMMA NothingCached ==
  ASSUME NEW on \in Disk
  PROVE  PowerLoss(on, on) = {on}
<1>1. on \in PowerLoss(on, on)
  BY NothingLost
<1>2. ASSUME NEW x \in PowerLoss(on, on) PROVE x = on
  <2>1. /\ x \in Disk /\ x.hdr = on.hdr
        /\ \A c \in Category : \A k \in Sectors(c) : x.data[c][k] = on.data[c][k]
    BY PowerLossFacts
  <2>2. ASSUME NEW d \in Disk
        PROVE  /\ d = [hdr |-> d.hdr, data |-> [c \in Category |-> d.data[c]]]
               /\ \A c \in Category : d.data[c] = [k \in Sectors(c) |-> d.data[c][k]]
    BY DiskFacts, ContentFacts
  <2>3. ASSUME NEW c \in Category PROVE x.data[c] = on.data[c]
    <3>1. [k \in Sectors(c) |-> x.data[c][k]] = [k \in Sectors(c) |-> on.data[c][k]]
      BY <2>1
    <3>2. /\ x.data[c] = [k \in Sectors(c) |-> x.data[c][k]]
          /\ on.data[c] = [k \in Sectors(c) |-> on.data[c][k]]
      BY <2>1, <2>2
    <3> QED BY ONLY <3>1, <3>2
  <2>4. [c \in Category |-> x.data[c]] = [c \in Category |-> on.data[c]]
    BY <2>3
  <2> QED BY <2>1, <2>2, <2>4
<1> QED BY <1>1, <1>2

\* Any mixture of what is on the disk and what is durable may be left of one
\* category.
LEMMA MixtureIsLeft ==
  ASSUME NEW on \in Disk, NEW safe \in Disk, NEW c \in Category, NEW w \in Content[c],
         \A k \in Sectors(c) : w[k] \in {on.data[c][k], safe.data[c][k]}
  PROVE  \E d \in PowerLoss(on, safe) : d.hdr = on.hdr /\ d.data[c] = w
<1> DEFINE sector == UNION {{b} \X Sectors(b) : b \in Category}
           cached == {s \in sector : on.data[s[1]][s[2]] # safe.data[s[1]][s[2]]}
           lost == {s \in cached : s[1] = c /\ w[s[2]] # on.data[c][s[2]]}
           d == [hdr |-> on.hdr, data |-> Reverted(on, safe, lost)]
<1>1. lost \in SUBSET cached
  OBVIOUS
<1>2. d \in PowerLoss(on, safe)
  <2>1. PowerLoss(on, safe) = {[hdr |-> h, data |-> Reverted(on, safe, l)] :
                                 h \in {on.hdr, safe.hdr}, l \in SUBSET cached}
    BY DEF PowerLoss
  <2> HIDE DEF cached, lost
  <2> QED BY <1>1, <2>1
<1>3. \A k \in Sectors(c) : <<c, k>> \in sector
  OBVIOUS
<1>4. \A k \in Sectors(c) : <<c, k>> \in lost <=> w[k] # on.data[c][k]
  <2>1. ASSUME NEW k \in Sectors(c) PROVE <<c, k>> \in lost <=> w[k] # on.data[c][k]
    <3>1. <<c, k>>[1] = c /\ <<c, k>>[2] = k /\ <<c, k>> \in sector
      BY <1>3
    <3>2. w[k] # on.data[c][k] => on.data[c][k] # safe.data[c][k]
      OBVIOUS
    <3> HIDE DEF sector
    <3> QED BY <3>1, <3>2
  <2> QED BY <2>1
<1> HIDE DEF lost
<1>5. d.data[c] = [k \in Sectors(c) |-> IF <<c, k>> \in lost THEN safe.data[c][k] ELSE on.data[c][k]]
  BY DEF Reverted
<1>6. \A k \in Sectors(c) : (IF <<c, k>> \in lost THEN safe.data[c][k] ELSE on.data[c][k]) = w[k]
  BY <1>4
<1>7. w = [k \in Sectors(c) |-> w[k]]
  BY ContentFacts
<1>8. d.data[c] = w
  <2>1. [k \in Sectors(c) |-> IF <<c, k>> \in lost THEN safe.data[c][k] ELSE on.data[c][k]]
          = [k \in Sectors(c) |-> w[k]]
    BY <1>6
  <2> HIDE DEF d
  <2> QED BY <1>5, <1>7, <2>1
<1>9. d.hdr = on.hdr
  OBVIOUS
<1> QED BY <1>2, <1>8, <1>9

\* There is always something that a load will find, or not find.
LEMMA CopiesExist ==
  ASSUME NEW on \in Disk, NEW safe, NEW c \in Category
  PROVE  Found(on, c) \in FoundOf(on, safe)[c]
BY NothingLost DEF FoundOf

\* What holds the same sectors of c, or fewer that are only in the cache, and
\* says the same of c, settles what is found of c.
LEMMA CopiesSettle ==
  ASSUME NEW on \in Disk, NEW safe \in Disk, safe.hdr = on.hdr,
         NEW on2 \in Disk, NEW safe2 \in Disk, safe2.hdr = on2.hdr,
         NEW c \in Category, SameOf(on2.hdr, on.hdr, c), on2.data[c] = on.data[c],
         safe2.data[c] \in {on.data[c], safe.data[c]}
  PROVE  FoundOf(on2, safe2)[c] # {} /\ FoundOf(on2, safe2)[c] \subseteq FoundOf(on, safe)[c]
<1>1. FoundOf(on2, safe2)[c] # {}
  BY CopiesExist
<1>2. ASSUME NEW e \in PowerLoss(on2, safe2) PROVE Found(e, c) \in FoundOf(on, safe)[c]
  <2>1. e \in Disk /\ e.hdr = on2.hdr
        /\ \A k \in Sectors(c) : e.data[c][k] \in {on2.data[c][k], safe2.data[c][k]}
    BY PowerLossFacts
  <2>2. e.data[c] \in Content[c]
    BY <2>1, DiskFacts
  <2>3. \A k \in Sectors(c) : e.data[c][k] \in {on.data[c][k], safe.data[c][k]}
    BY <2>1
  <2>4. PICK d \in PowerLoss(on, safe) : d.hdr = on.hdr /\ d.data[c] = e.data[c]
    BY <2>2, <2>3, MixtureIsLeft
  <2>5. SameOf(e.hdr, d.hdr, c)
    BY <2>1, <2>4
  <2>6. Found(e, c) = Found(d, c)
    BY <2>4, <2>5, FoundDepends
  <2> QED BY <2>4, <2>6 DEF FoundOf
<1>3. FoundOf(on2, safe2)[c] = {Found(e, c) : e \in PowerLoss(on2, safe2)}
  BY DEF FoundOf
<1> QED BY <1>1, <1>2, <1>3

\* A header that vouches for one of some images lets none but these be found.
LEMMA FoundIsVouchedFor ==
  ASSUME NEW on \in Disk, NEW safe \in Disk, safe.hdr = on.hdr,
         NEW c \in Category, NEW images \in SUBSET Held(c),
         Flagged(on.hdr, c) => \E v \in images : on.hdr.csum[c] = Checksum(v)
  PROVE  FoundOf(on, safe)[c] \subseteq {{}} \cup {{v} : v \in images}
<1>1. ASSUME NEW d \in PowerLoss(on, safe) PROVE Found(d, c) \in {{}} \cup {{v} : v \in images}
  <2>1. d \in Disk /\ d.hdr = on.hdr
    BY PowerLossFacts
  <2>2. CASE ~Accepts(d, c)
    BY <2>2 DEF Found
  <2>3. CASE Accepts(d, c)
    <3>1. Flagged(on.hdr, c) /\ Checksum(d.data[c]) = on.hdr.csum[c]
      BY <2>1, <2>3 DEF Accepts, Flagged
    <3>2. PICK v \in images : on.hdr.csum[c] = Checksum(v)
      BY <3>1
    <3>3. v \in Whole(c) /\ d.data[c] \in Content[c]
      BY <2>1, AlikeIsImage, DiskFacts
    <3>4. d.data[c] = v
      BY <3>1, <3>2, <3>3, ChecksumAssumption
    <3>5. Found(d, c) = {v}
      BY <2>3, <3>4 DEF Found
    <3> QED BY <3>5
  <2> QED BY <2>2, <2>3
<1>2. FoundOf(on, safe)[c] = {Found(d, c) : d \in PowerLoss(on, safe)}
  BY DEF FoundOf
<1> QED BY <1>1, <1>2

-----------------------------------------------------------------------------
(* Every step of persistence on a steady drive is one of SavedCopies.       *)

\* The map from disks to copies is the same before and after a step.
LEMMA CopiesNext == FoundOf(disk, durable)' = FoundOf(disk', durable')
BY DEF FoundOf

\* What is found of c is one of the images since the last acknowledged save.
LEMMA CopiesAreTried ==
  ASSUME PersistInv, DriveIsSteady, NEW c \in Category
  PROVE  /\ FoundOf(disk, durable)[c] # {}
         /\ FoundOf(disk, durable)[c] \subseteq {{}} \cup {{v} : v \in recent[c]}
<1>1. disk \in Disk /\ durable \in Disk /\ recent[c] \in SUBSET Held(c)
  BY ImagesFacts DEF PersistInv, Sound, TypeOK
<1>2. durable.hdr = disk.hdr
  BY DEF PersistInv, SteadyInv, StoredInv
<1>3. Flagged(disk.hdr, c) => \E v \in recent[c] : disk.hdr.csum[c] = Checksum(v)
  BY DEF PersistInv, SteadyInv, StoredInv
<1>4. FoundOf(disk, durable)[c] # {}
  BY <1>1, CopiesExist
<1> QED BY <1>1, <1>2, <1>3, <1>4, FoundIsVouchedFor

\* A step of a command that leaves the disk alone.
LEMMA QuietStepOfCopies ==
  ASSUME todo # <<>>, UNCHANGED <<disk, durable, recent>>,
         mem' = mem \/ mem' = [mem EXCEPT !["fs"] = DefaultFs]
  PROVE  Copies!MakeDefault
<1>1. FoundOf(disk, durable)' = FoundOf(disk, durable)
  BY CopiesNext
<1> QED BY <1>1 DEF Copies!MakeDefault

\* A load.
LEMMA LoadTakesCopy ==
  ASSUME PersistInv, NEW c \in Category, PersistLoad(c)
  PROVE  Copies!Load(c) \/ Copies!MakeDefault
<1>1. todo # <<>> /\ UNCHANGED <<disk, durable, recent>> /\ disk \in Disk
  BY LoadFacts DEF PersistInv, Sound, TypeOK, history_vars
<1>2. \/ Accepts(disk, c) /\ mem' = [mem EXCEPT ![c] = disk.data[c]]
      \/ mem' = mem \/ mem' = [mem EXCEPT !["fs"] = DefaultFs]
  BY DEF PersistLoad, LoadFailed, FsInit
<1>3. CASE Accepts(disk, c) /\ mem' = [mem EXCEPT ![c] = disk.data[c]]
  <2>1. Found(disk, c) \in FoundOf(disk, durable)[c] /\ disk.data[c] \in Found(disk, c)
    BY <1>1, <1>3, CopiesExist DEF Found
  <2>2. FoundOf(disk, durable)' = FoundOf(disk, durable)
    BY <1>1, CopiesNext
  <2> QED BY <1>1, <1>3, <2>1, <2>2 DEF Copies!Load
<1> QED BY <1>1, <1>2, <1>3, QuietStepOfCopies

\* One data sector of a save, written or refused.
LEMMA WriteDataTries ==
  ASSUME PersistInv, PersistInv', DriveIsSteady, DriveIsSteady', NEW c \in Category, WriteData(c)
  PROVE  Copies!Try(c)
<1> DEFINE new == [disk EXCEPT !.data[c][step] = mem[c][step]]
<1>1. /\ todo # <<>> /\ step \in Sectors(c) /\ mem[c] \in Held(c)
      /\ disk \in Disk /\ durable \in Disk /\ disk' \in Disk /\ durable' \in Disk
      /\ disk'.hdr = disk.hdr /\ durable.hdr = disk.hdr /\ durable'.hdr = disk.hdr
  BY WriteDataFacts DEF PersistInv, Sound, TypeOK, SteadyInv, StoredInv, Held
<1>2. \A o \in Category \ {c} : new.data[o] = disk.data[o]
  BY <1>1, SectorWritten
<1>3. disk' \in {new, disk} /\ durable' \in {new, disk, durable}
  <2>1. drive_err \in BOOLEAN
    BY DEF PersistInv, Sound, TypeOK
  <2>2. \/ LastSector(new, disk)
        \/ disk' = new /\ durable' = durable
        \/ disk' = disk /\ durable' = durable
    BY DEF WriteData
  <2> HIDE DEF new
  <2> QED BY <2>1, <2>2, LastSectorFacts
<1>4. mem' = mem /\ recent' = [recent EXCEPT ![c] = @ \cup {mem[c]}]
  BY DEF WriteData
<1> HIDE DEF new
<1>5. ASSUME NEW o \in Category \ {c}
      PROVE  /\ FoundOf(disk', durable')[o] # {}
             /\ FoundOf(disk', durable')[o] \subseteq FoundOf(disk, durable)[o]
  <2>1. disk'.data[o] = disk.data[o] /\ durable'.data[o] \in {disk.data[o], durable.data[o]}
    BY <1>2, <1>3
  <2>2. SameOf(disk'.hdr, disk.hdr, o)
    BY <1>1 DEF SameOf
  <2> QED BY <1>1, <2>1, <2>2, CopiesSettle
<1>6. /\ FoundOf(disk', durable')[c] # {}
      /\ FoundOf(disk', durable')[c] \subseteq {{}} \cup {{v} : v \in recent'[c]}
  <2>1. recent'[c] \in SUBSET Held(c)
    BY ImagesFacts DEF PersistInv, Sound, TypeOK
  <2>2. Flagged(disk'.hdr, c) => \E v \in recent'[c] : disk'.hdr.csum[c] = Checksum(v)
    BY DEF PersistInv, SteadyInv, StoredInv
  <2>3. FoundOf(disk', durable')[c] # {}
    BY <1>1, CopiesExist
  <2> QED BY <1>1, <2>1, <2>2, <2>3, FoundIsVouchedFor
<1>7. FoundOf(disk', durable') = [o \in Category |-> FoundOf(disk', durable')[o]]
  BY DEF FoundOf
<1> QED BY <1>1, <1>4, <1>5, <1>6, <1>7, CopiesNext
        DEF Copies!Try, Copies!PerCategory, Copies!Settles, Copies!OneOf, Copies!Nothing

\* The header sector, of a save or of the save list, written or refused.
LEMMA WriteHeaderAcknowledges ==
  ASSUME PersistInv, PersistInv', DriveIsSteady, NEW o \in Owner, WriteHeader(o)
  PROVE  Copies!Settle \/ \E c \in Category : Copies!Acknowledge(c)
<1>1. /\ Sound /\ ReportedInv /\ "lost" \notin faults /\ todo # <<>>
      /\ disk \in Disk /\ durable \in Disk /\ disk' \in Disk
      /\ durable.hdr = disk.hdr /\ recent = [c \in Category |-> recent[c]] /\ mem' = mem
  BY WriteHeaderFacts, ImagesFacts
     DEF PersistInv, DriveIsSteady, Sound, TypeOK, SteadyInv, StoredInv
<1>2. FoundOf(disk', durable') = [c \in Category |-> FoundOf(disk', durable')[c]]
  BY DEF FoundOf
<1>3. CASE UNCHANGED <<disk, durable, history_vars>>
  <2>1. \A c \in Category : FoundOf(disk, durable)[c] # {}
    BY CopiesAreTried
  <2>2. FoundOf(disk', durable') = FoundOf(disk, durable) /\ recent' = recent
    BY <1>3 DEF history_vars
  <2> QED BY <1>1, <1>2, <2>1, <2>2, CopiesNext
          DEF Copies!Settle, Copies!PerCategory, Copies!Settles
<1>4. CASE /\ recent' = [c \in Category |-> IF c = o THEN {mem[c]} ELSE recent[c]]
           /\ disk'.hdr = HeaderOf(o) /\ durable' = disk' /\ ~drive_err
  <2>1. Updating(o) /\ step = WriteStep(o) /\ o = Head(todo).of
    BY DEF WriteHeader, Updating
  <2>2. hdr_buf[o] = disk.hdr /\ disk'.data = disk.data
    BY <1>1, <1>4, <2>1, WriteHeaderFacts DEF PersistInv, SteadyInv, BufferInv
  <2>3. ASSUME NEW c \in Category \ {o}
        PROVE  /\ FoundOf(disk', durable')[c] # {}
               /\ FoundOf(disk', durable')[c] \subseteq FoundOf(disk, durable)[c]
    <3>1. SameOf(disk'.hdr, disk.hdr, c)
      BY <1>1, <1>4, <2>2, HeaderOfFacts DEF SameOf
    <3>2. durable' \in Disk /\ durable'.hdr = disk'.hdr
      BY <1>1, <1>4
    <3>3. disk'.data[c] = disk.data[c] /\ durable'.data[c] = disk.data[c]
      BY <1>4, <2>2
    <3> QED BY <1>1, <3>1, <3>2, <3>3, CopiesSettle
  <2>4. CASE o \in Category
    <3>1. disk'.data[o] = mem[o]
      BY <1>1, <2>2, <2>4, DataIsWritten
    <3>2. Accepts(disk', o)
      BY <1>1, <1>4, <2>4, <3>1, HeaderOfFacts DEF Accepts
    <3>3. Found(disk', o) = {mem[o]}
      BY <3>1, <3>2 DEF Found
    <3>4. FoundOf(disk', durable')[o] = {{mem[o]}}
      <4>1. PowerLoss(disk', durable') = {disk'}
        BY <1>1, <1>4, NothingCached
      <4>2. FoundOf(disk', durable')[o] = {Found(d, o) : d \in {disk'}}
        BY <2>4, <4>1 DEF FoundOf
      <4> QED BY ONLY <3>3, <4>2
    <3>5. recent' = [recent EXCEPT ![o] = {mem[o]}]
      BY <1>1, <1>4
    <3>6. Copies!Acknowledge(o)
      BY <1>1, <1>2, <2>3, <3>4, <3>5, CopiesNext
         DEF Copies!Acknowledge, Copies!PerCategory, Copies!Settles
    <3> QED BY <2>4, <3>6
  <2>5. CASE o \notin Category
    <3>1. recent' = recent
      BY <1>1, <1>4, <2>5
    <3> QED BY <1>1, <1>2, <2>3, <2>5, <3>1, CopiesNext
            DEF Copies!Settle, Copies!PerCategory, Copies!Settles
  <2> QED BY <2>4, <2>5
<1> QED BY <1>1, <1>3, <1>4, WriteHeaderFacts

\* A power failure makes of the copies that were open the one that is left.
LEMMA RestartsKeepCopies ==
  ASSUME PersistInv, Reboot \/ Crash
  PROVE  Copies!Restart
<1>1. mem' = Blank /\ todo' # <<>> /\ recent' = recent
  BY DEF Reboot, Crash, Restart, history_vars
<1>2. CASE Reboot
  <2>1. todo = <<>> /\ FoundOf(disk', durable') = FoundOf(disk, durable)
    BY <1>2 DEF Reboot
  <2> QED BY <1>1, <2>1, CopiesNext DEF Copies!Restart
<1>3. CASE Crash
  <2>1. disk' \in PowerLoss(disk, durable) /\ durable' = disk' /\ disk' \in Disk
    BY <1>3, PowerLossFacts DEF Crash, PersistInv, Sound, TypeOK
  <2>2. ASSUME NEW c \in Category
        PROVE  \E copy \in FoundOf(disk, durable)[c] : FoundOf(disk', durable')[c] = {copy}
    <3>1. FoundOf(disk', durable')[c] = {Found(disk', c)}
      <4>1. PowerLoss(disk', durable') = {disk'}
        BY <2>1, NothingCached
      <4>2. FoundOf(disk', durable')[c] = {Found(d, c) : d \in {disk'}}
        BY <4>1 DEF FoundOf
      <4> QED BY ONLY <4>2
    <3>2. Found(disk', c) \in FoundOf(disk, durable)[c]
      BY <2>1 DEF FoundOf
    <3> QED BY <3>1, <3>2
  <2>3. FoundOf(disk', durable') = [c \in Category |-> FoundOf(disk', durable')[c]]
    BY DEF FoundOf
  <2> QED BY <1>1, <2>2, <2>3, CopiesNext DEF Copies!Restart, Copies!PerCategory
<1> QED BY <1>2, <1>3

\* A command that starts.
LEMMA CommandsStartCopies ==
  ASSUME PersistInv, CommandStep
  PROVE  Copies!Start
<1>1. \E name, calls : Command(name, calls)
  BY DEF CommandStep, Change, CmdSavelist, CmdSave, CmdLoad
<1>2. todo = <<>> /\ UNCHANGED <<disk, durable, recent>>
  BY <1>1 DEF Command, io_vars, history_vars
<1>3. mem' = mem \/ \E c \in Category : \E v \in Image[c] : mem' = [mem EXCEPT ![c] = v]
  <2>1. \A c \in Category : Chosen(faults, c) \subseteq Image[c]
    BY UserAssumption DEF PersistInv, Sound, TypeOK
  <2> QED BY <2>1 DEF CommandStep, Change, CmdSavelist, CmdSave, CmdLoad
<1>4. FoundOf(disk, durable)' = FoundOf(disk, durable)
  BY <1>2, CopiesNext
<1> QED BY <1>2, <1>3, <1>4 DEF Copies!Start

\* One step.
LEMMA StepKeepsCopies ==
  ASSUME PersistInv, PersistInv', DriveIsSteady, DriveIsSteady', [Next]_vars
  PROVE  [Copies!Next]_(Copies!vars)
<1>1. CASE PersistProbe \/ SetSkipped
  <2>1. todo # <<>>
    BY <1>1 DEF PersistProbe, SetSkipped, Calling
  <2>2. /\ UNCHANGED <<disk, durable, recent>>
        /\ mem' = mem \/ mem' = [mem EXCEPT !["fs"] = DefaultFs]
    BY <1>1 DEF PersistProbe, SetSkipped, FsInit, io_vars, history_vars
  <2> QED BY <2>1, <2>2, QuietStepOfCopies DEF Copies!Next
<1>2. ASSUME NEW c \in Category, PersistLoad(c) PROVE Copies!Next
  BY <1>2, LoadTakesCopy DEF Copies!Next
<1>3. ASSUME NEW c \in Category, SaveSkipped(c) PROVE Copies!Next
  <2>1. todo # <<>> /\ UNCHANGED <<disk, durable, recent, mem>>
    BY <1>3 DEF SaveSkipped, Calling, io_vars, history_vars
  <2> QED BY <2>1, QuietStepOfCopies DEF Copies!Next
<1>4. ASSUME NEW c \in Category, WriteData(c) PROVE Copies!Next
  BY <1>4, WriteDataTries DEF Copies!Next
<1>5. ASSUME NEW o \in Owner, ReadHeader(o) PROVE Copies!Next
  <2>1. todo # <<>> /\ UNCHANGED <<disk, durable, recent, mem>>
    BY <1>5 DEF ReadHeader, history_vars
  <2> QED BY <2>1, QuietStepOfCopies DEF Copies!Next
<1>6. ASSUME NEW o \in Owner, WriteHeader(o) PROVE Copies!Next
  BY <1>6, WriteHeaderAcknowledges DEF Copies!Next
<1>7. CASE CommandStep
  BY <1>7, CommandsStartCopies DEF Copies!Next
<1>8. CASE Reboot \/ Crash
  BY <1>8, RestartsKeepCopies DEF Copies!Next
<1>9. CASE UNCHANGED vars
  <2>1. UNCHANGED <<disk, durable, recent, mem, todo>>
    BY <1>9 DEF vars, io_vars, history_vars
  <2>2. FoundOf(disk, durable)' = FoundOf(disk, durable)
    BY <2>1, CopiesNext
  <2> QED BY <2>1, <2>2 DEF Copies!vars
<1>10. \A c \in Toggled(faults) : CmdSavelist(c) => CommandStep
  BY UserAssumption DEF CommandStep, PersistInv, Sound, TypeOK
<1> QED
  BY <1>1, <1>2, <1>3, <1>4, <1>5, <1>6, <1>7, <1>8, <1>9, <1>10 DEF Next, CommandStep

\* At power-on a new disk has no copies.
LEMMA InitHasNoCopies == Init => Copies!Init
<1> SUFFICES ASSUME Init PROVE Copies!Init
  OBVIOUS
<1>1. /\ disk = BlankDisk /\ durable = BlankDisk /\ mem = Blank /\ todo # <<>>
      /\ recent = [c \in Category |-> {}]
  BY DEF Init
<1>2. BlankDisk \in Disk
  BY <1>1, InitIsSound DEF Sound, TypeOK
<1>3. \A c \in Category : Found(BlankDisk, c) = {}
  BY DEF Found, Accepts, BlankDisk, NoHeader
<1>4. FoundOf(BlankDisk, BlankDisk) = [c \in Category |-> {{}}]
  BY <1>2, <1>3, NothingCached DEF FoundOf
<1> QED BY <1>1, <1>4 DEF Copies!Init, Copies!Nothing

\* On a steady drive persist.c implements the copies of SavedCopies: between the
\* sectors, headers and caches of a save, a copy is never lost, made or changed
\* but by a save of its own category, and ATA_OK means it is in place.
THEOREM DiskKeepsCopies == Spec => KeepsCopies
<1>1. Spec => []PersistInv
  BY PersistAlways
<1>2. Init => (DriveIsSteady => Copies!Init)
  BY InitHasNoCopies
<1>3. PersistInv /\ PersistInv' /\ [Next]_vars
      => [DriveIsSteady => [Copies!Next]_(Copies!vars)]_vars
  BY StepKeepsCopies, FaultsStay DEF DriveIsSteady
<1> QED BY <1>1, <1>2, <1>3, PTL DEF Spec, KeepsCopies

\* The refinement itself: whoever sees a steady drive only through the copies
\* sees a behaviour of SavedCopies.
THEOREM DiskIsCopies == Spec /\ DriveIsSteady => Copies!Spec
<1>1. Spec => []PersistInv
  BY PersistAlways
<1>2. Init => Copies!Init
  BY InitHasNoCopies
<1>3. DriveIsSteady /\ [Next]_vars => DriveIsSteady'
  BY FaultsStay DEF DriveIsSteady
<1>4. PersistInv /\ PersistInv' /\ DriveIsSteady /\ DriveIsSteady' /\ [Next]_vars
      => [Copies!Next]_(Copies!vars)
  BY StepKeepsCopies
<1> QED BY <1>1, <1>2, <1>3, <1>4, PTL DEF Spec, Copies!Spec
=============================================================================
