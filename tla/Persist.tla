------------------------------ MODULE Persist ------------------------------
(***************************************************************************)
(* storage/persist.c: the alias table and the filesystem image, written to *)
(* their sectors of the disk and vouched for by one header sector, with    *)
(* the commands of shell/commands.c that call it and the boot of           *)
(* shell/shell.c.  A call is a sequence of steps, one per sector written   *)
(* or header read, so that the power may fail and the disk may refuse      *)
(* between any two of them.  Reads change nothing on the disk: a load is   *)
(* one step.                                                               *)
(*                                                                         *)
(* The drive keeps what it is given in a cache until the flush that ends   *)
(* ata_write_sectors(); a power failure keeps any part of the cache.  A    *)
(* sector is written whole or not at all.                                  *)
(***************************************************************************)
EXTENDS Integers, Sequences, FiniteSets

Category == {"aliases", "fs"}

CONSTANTS
  SectorCount,   \* sectors of each category, 6 and 51 in the code
  Image,         \* the images of each category a running shell can have
  Blank,         \* the image of zeroed memory and of a new disk, by category
  DefaultFs,     \* the image of the tree fs_init() builds
  Checksum(_),   \* of the sectors of one category
  Toggled(_),    \* categories the user takes on and off the save list, by faults
  Chosen(_, _),  \* images of a category the user's commands make, by faults
  FaultModel     \* the sets of faults to consider, each a subset of FaultKind

\* crash: the power fails at any moment.  timeout: one transfer gives up.
\* error: a transfer fails and the drive shows ERR from then on.  lost: the
\* status after the last sector, or of the flush, is bad, and nobody looks.
\* absent: the drive does not answer ata_detect().
FaultKind == {"crash", "timeout", "error", "lost", "absent"}

Sectors(c) == 1 .. SectorCount[c]
Whole(c) == Image[c] \cup {Blank[c]}

\* What the sectors of c may hold: each a sector of some image.
Content ==
  [c \in Category |->
     {d \in [Sectors(c) -> UNION {{v[k] : k \in Sectors(c)} : v \in Whole(c)}] :
        \A k \in Sectors(c) : \E v \in Whole(c) : d[k] = v[k]}]

\* The images of c, and the mixtures that have the checksum of one.
Alike == [c \in Category |->
            {d \in Content[c] : \E v \in Image[c] : Checksum(d) = Checksum(v)}]

ASSUME SectorAssumption == SectorCount \in [Category -> Nat \ {0}]
ASSUME ImageAssumption ==
  /\ \A c \in Category : \A v \in Whole(c) : v = [k \in Sectors(c) |-> v[k]]
  /\ Blank = [c \in Category |-> Blank[c]]
  /\ Blank["aliases"] \in Image["aliases"]   \* an alias table without entries
  /\ DefaultFs \in Image["fs"]
\* The checksum tells an image from every mixture of images: no mixture is alike
\* an image.  A sum of bytes does so for most images, not for all: the proofs
\* need it for what a load takes to be recent and for SavedCopies, and for
\* nothing else.
ASSUME ChecksumAssumption ==
  \A c \in Category : \A v \in Whole(c) : \A d \in Content[c] :
    Checksum(d) = Checksum(v) => d = v
ASSUME UserAssumption ==
  \A f \in FaultModel : /\ Toggled(f) \subseteq Category
                        /\ \A c \in Category : Chosen(f, c) \subseteq Image[c]
ASSUME FaultsAssumption == FaultModel \subseteq SUBSET FaultKind

VARIABLES
  faults,        \* what may go wrong in this behaviour
  mem,           \* alias_table and the pool of fs.c, as images
  savelist,      \* savelist_flags
  disk_present,
  hdr_buf,       \* the static hdr_buf of each function that saves
  disk,          \* every sector, as the drive would read it back
  durable,       \* every sector, as it is without the drive's cache
  drive_err,     \* the drive shows ERR in its status
  cmd,           \* the command that runs or ran last: boot, save or other
  todo,          \* the calls it has still to make, the current one first
  step,          \* the next step of the current call
  results,       \* what the finished calls of a save command returned
  recent,        \* history: images since the last save that returned ATA_OK
  acked          \* history: categories not touched since such a save

io_vars == <<disk, durable, drive_err>>
history_vars == <<recent, acked>>
vars == <<faults, mem, savelist, disk_present, hdr_buf, io_vars, cmd, todo, step,
          results, history_vars>>

\* Who owns a static header buffer: a category, or persist_savelist_set().
Owner == Category \cup {"savelist"}

Header == [magic : BOOLEAN, flags : SUBSET Category,
           csum : [Category -> {Checksum(v) : v \in Whole("aliases") \cup Whole("fs")}],
           savelist : SUBSET Category]

NoHeader == [magic |-> FALSE, flags |-> {},
             csum |-> [c \in Category |-> Checksum(Blank[c])],
             savelist |-> {}]

\* Functions that take each category to a member of its own set.
PerCategory(set) ==
  {f \in [Category -> UNION {set[c] : c \in Category}] :
     \A c \in Category : f[c] \in set[c]}

Disk == [hdr : Header, data : PerCategory(Content)]
Held(c) == Alike[c] \cup {Blank[c]}
Memory == PerCategory([c \in Category |-> Held(c)])
Images == PerCategory([c \in Category |-> SUBSET Held(c)])

BlankDisk == [hdr |-> NoHeader, data |-> Blank]

Call == [fn : {"save", "load"}, of : Category]
        \cup {[fn |-> "set", of |-> "savelist"], [fn |-> "probe", of |-> "savelist"]}

Save(c) == [fn |-> "save", of |-> c]
Load(c) == [fn |-> "load", of |-> c]
SavelistSet == [fn |-> "set", of |-> "savelist"]
Probe == [fn |-> "probe", of |-> "savelist"]

Result == {"ATA_OK", "ATA_ERR_TIMEOUT", "ATA_ERR_ERROR", "ATA_ERR_NODRIVE"}

TypeOK ==
  /\ faults \in FaultModel
  /\ mem \in Memory
  /\ savelist \in SUBSET Category
  /\ disk_present \in BOOLEAN
  /\ hdr_buf \in [Owner -> Header]
  /\ disk \in Disk /\ durable \in Disk
  /\ drive_err \in BOOLEAN
  /\ cmd \in {"boot", "save", "other"}
  /\ todo \in Seq(Call)
  /\ step \in Nat
  /\ results \in SUBSET Result
  /\ recent \in Images
  /\ acked \in SUBSET Category

\* Mutant: the checksum is not compared.
AcceptsUnchecked(d, c) == d.hdr.magic /\ c \in d.hdr.flags

\* What a load of category c takes from disk d.
Accepts(d, c) ==
  /\ d.hdr.magic
  /\ c \in d.hdr.flags
  /\ Checksum(d.data[c]) = d.hdr.csum[c]

-----------------------------------------------------------------------------
(* The boot. *)

Init ==
  /\ faults \in FaultModel
  /\ mem = Blank
  /\ savelist = Category
  /\ disk_present = FALSE
  /\ hdr_buf = [o \in Owner |-> NoHeader]
  /\ disk = BlankDisk /\ durable = BlankDisk
  /\ drive_err = FALSE
  /\ cmd = "boot" /\ todo = <<Probe>> /\ step = 1 /\ results = {}
  /\ recent = [c \in Category |-> {}] /\ acked = {}

\* Everything in memory starts afresh; ata_detect() clears ERR.
Restart ==
  /\ mem' = Blank
  /\ savelist' = Category
  /\ disk_present' = FALSE
  /\ hdr_buf' = [o \in Owner |-> NoHeader]
  /\ drive_err' = FALSE
  /\ cmd' = "boot" /\ todo' = <<Probe>> /\ step' = 1 /\ results' = {}
  /\ UNCHANGED <<faults, history_vars>>

\* The data of d, but for the sectors in lost, which are as in e.
Reverted(d, e, lost) ==
  [c \in Category |-> [k \in Sectors(c) |->
     IF <<c, k>> \in lost THEN e.data[c][k] ELSE d.data[c][k]]]

\* The disks a power failure may leave of d, of which e is durable.
PowerLoss(d, e) ==
  LET sector == UNION {{c} \X Sectors(c) : c \in Category}
      cached == {s \in sector : d.data[s[1]][s[2]] # e.data[s[1]][s[2]]}
  IN {[hdr |-> h, data |-> Reverted(d, e, lost)] :
        h \in {d.hdr, e.hdr}, lost \in SUBSET cached}

Crash ==
  /\ "crash" \in faults
  /\ disk' \in PowerLoss(disk, durable)
  /\ durable' = disk'
  /\ Restart

\* The reboot command resets the machine, not the drive.
Reboot == todo = <<>> /\ Restart /\ UNCHANGED <<disk, durable>>

\* A read or write of the drive that works, or does not.
Ready == ~drive_err
TransferOk == Ready /\ drive_err' = drive_err

TransferFails(r) ==
  \/ /\ drive_err \/ "timeout" \in faults
     /\ r = "ATA_ERR_TIMEOUT"
     /\ drive_err' = drive_err
  \/ /\ ~drive_err /\ "error" \in faults
     /\ r = "ATA_ERR_ERROR"
     /\ drive_err' = TRUE

Calling(call) == todo # <<>> /\ Head(todo) = call

\* Only the save command looks at what its calls return.
Return(r) ==
  /\ todo' = Tail(todo)
  /\ step' = 1
  /\ results' = IF cmd = "save" THEN results \cup {r} ELSE {}

FsInit == mem' = [mem EXCEPT !["fs"] = DefaultFs]

\* persist_probe() and what shell_run() does with its answer.
PersistProbe ==
  /\ Calling(Probe)
  /\ step' = 1
  /\ \/ /\ "absent" \in faults
        /\ FsInit
        /\ todo' = <<>>
        /\ UNCHANGED <<savelist, disk_present, drive_err>>
     \/ /\ disk_present' = TRUE
        /\ \/ /\ TransferOk
              /\ disk.hdr.magic
              /\ savelist' = disk.hdr.savelist
              /\ todo' = <<Load("aliases"), Load("fs")>>
              /\ mem' = mem
           \/ /\ (TransferOk /\ ~disk.hdr.magic) \/ \E r \in Result : TransferFails(r)
              /\ FsInit
              /\ todo' = <<>>
              /\ savelist' = savelist
  /\ UNCHANGED <<faults, hdr_buf, disk, durable, cmd, results, history_vars>>

\* persist_load_aliases() and persist_load_fs() without their effect on
\* memory: what they return.
LoadResult(c) ==
  CASE ~disk.hdr.magic -> "ATA_ERR_ERROR"
    [] disk.hdr.magic /\ c \notin disk.hdr.flags ->
         IF c = "aliases" THEN "ATA_OK" ELSE "ATA_ERR_ERROR"
    [] OTHER -> IF Accepts(disk, c) THEN "ATA_OK" ELSE "ATA_ERR_ERROR"

\* At boot, a filesystem that cannot be loaded becomes the default tree.
LoadFailed(c) == IF cmd = "boot" /\ c = "fs" THEN FsInit ELSE mem' = mem

PersistLoad(c) ==
  /\ Calling(Load(c))
  /\ \/ /\ ~disk_present
        /\ LoadFailed(c) /\ Return("ATA_ERR_NODRIVE") /\ drive_err' = drive_err
     \/ /\ disk_present /\ TransferOk
        /\ \/ /\ Accepts(disk, c)
              /\ mem' = [mem EXCEPT ![c] = disk.data[c]]
           \/ /\ ~Accepts(disk, c)
              /\ IF LoadResult(c) = "ATA_OK" THEN mem' = mem ELSE LoadFailed(c)
        /\ Return(LoadResult(c))
     \/ /\ disk_present /\ \E r \in Result : TransferFails(r)
        /\ LoadFailed(c) /\ Return("ATA_ERR_ERROR")
  /\ UNCHANGED <<faults, savelist, disk_present, hdr_buf, disk, durable, cmd,
                 history_vars>>

-----------------------------------------------------------------------------
(* Saving. *)

\* Mutant: no flush.
LastSectorUnflushed(new, old) ==
  Ready /\ disk' = new /\ durable' = durable /\ drive_err' = drive_err

\* The last sector of an ata_write_sectors() call has been transferred, and
\* the cache is flushed.  new is the disk with all of it; old without this
\* last sector.
LastSector(new, old) ==
  /\ Ready
  /\ \/ disk' = new /\ durable' = new /\ drive_err' = drive_err
     \/ /\ "lost" \in faults
        /\ disk' \in {new, old}
        /\ durable' \in {disk', durable}
        /\ drive_err' \in BOOLEAN

\* Mutant: no disk, no complaint.
SaveSkippedQuietly(c) ==
  /\ Calling(Save(c)) /\ step = 1
  /\ ~disk_present \/ c \notin savelist
  /\ Return("ATA_OK")
  /\ UNCHANGED <<faults, mem, savelist, disk_present, hdr_buf, io_vars, cmd,
                 history_vars>>

\* persist_save_*() returns before it touches the disk.
SaveSkipped(c) ==
  /\ Calling(Save(c)) /\ step = 1
  /\ \/ ~disk_present /\ Return("ATA_ERR_NODRIVE")
     \/ disk_present /\ c \notin savelist /\ Return("ATA_OK")
  /\ UNCHANGED <<faults, mem, savelist, disk_present, hdr_buf, io_vars, cmd,
                 history_vars>>

\* One data sector.
WriteData(c) ==
  /\ Calling(Save(c)) /\ step \in Sectors(c)
  /\ disk_present /\ c \in savelist
  /\ recent' = [recent EXCEPT ![c] = @ \cup {mem[c]}]
  /\ acked' = acked \ {c}
  /\ \/ /\ LET new == [disk EXCEPT !.data[c][step] = mem[c][step]]
           IN IF step = SectorCount[c]
              THEN LastSector(new, disk)
              ELSE TransferOk /\ disk' = new /\ durable' = durable
        /\ step' = step + 1
        /\ UNCHANGED <<todo, results>>
     \/ /\ \E r \in Result : TransferFails(r) /\ Return(r)
        /\ UNCHANGED <<disk, durable>>
  /\ UNCHANGED <<faults, mem, savelist, disk_present, hdr_buf, cmd>>

\* The steps after the data: savelist_set has no data.
ReadStep(o) == IF o = "savelist" THEN 1 ELSE SectorCount[o] + 1
WriteStep(o) == ReadStep(o) + 1
Updating(o) == o = Head(todo).of /\ Head(todo).fn \in {"save", "set"}

\* Mutant: a header that is in the buffer is not read again.
ReadHeaderOnce(o) ==
  /\ todo # <<>> /\ Updating(o) /\ step = ReadStep(o) /\ disk_present
  /\ TransferOk
  /\ hdr_buf' = [hdr_buf EXCEPT ![o] = IF @.magic THEN @ ELSE disk.hdr]
  /\ step' = step + 1
  /\ UNCHANGED <<faults, mem, savelist, disk_present, disk, durable, cmd, todo,
                 results, history_vars>>

\* The header is read again; a read that fails leaves hdr_buf as it was, and
\* its result is ignored.
ReadHeader(o) ==
  /\ todo # <<>> /\ Updating(o) /\ step = ReadStep(o) /\ disk_present
  /\ \/ TransferOk /\ hdr_buf' = [hdr_buf EXCEPT ![o] = disk.hdr]
     \/ (\E r \in Result : TransferFails(r)) /\ hdr_buf' = hdr_buf
  /\ step' = step + 1
  /\ UNCHANGED <<faults, mem, savelist, disk_present, disk, durable, cmd, todo,
                 results, history_vars>>

\* Mutant: the save list of the old header is kept.
HeaderOfOldSavelist(o) ==
  LET h == IF hdr_buf[o].magic THEN hdr_buf[o] ELSE NoHeader
  IN [h EXCEPT !.magic = TRUE,
               !.flags = @ \cup ({o} \cap Category),
               !.csum = [c \in Category |-> IF c = o THEN Checksum(mem[c]) ELSE @[c]]]

\* The header owner o builds from the one in its buffer.
HeaderOf(o) ==
  LET h == IF hdr_buf[o].magic THEN hdr_buf[o] ELSE NoHeader
  IN [magic |-> TRUE,
      flags |-> h.flags \cup ({o} \cap Category),
      csum |-> [c \in Category |-> IF c = o THEN Checksum(mem[c]) ELSE h.csum[c]],
      savelist |-> savelist]

\* write_header(), and the return from the call.
WriteHeader(o) ==
  /\ todo # <<>> /\ Updating(o) /\ step = WriteStep(o)
  /\ \/ /\ LastSector([disk EXCEPT !.hdr = HeaderOf(o)], disk)
        /\ Return("ATA_OK")
        /\ recent' = [c \in Category |-> IF c = o THEN {mem[c]} ELSE recent[c]]
        /\ acked' = acked \cup ({o} \cap Category)
     \/ /\ \E r \in Result : TransferFails(r) /\ Return(r)
        /\ UNCHANGED <<disk, durable, history_vars>>
  /\ UNCHANGED <<faults, mem, savelist, disk_present, hdr_buf, cmd>>

\* persist_savelist_set() without a disk.
SetSkipped ==
  /\ Calling(SavelistSet) /\ step = 1 /\ ~disk_present
  /\ todo' = <<>>
  /\ UNCHANGED <<faults, mem, savelist, disk_present, hdr_buf, io_vars, cmd, step,
                 results, history_vars>>

-----------------------------------------------------------------------------
(* The commands: each starts the calls it makes. *)

Command(name, calls) ==
  /\ todo = <<>>
  /\ cmd' = name /\ todo' = calls /\ step' = 1 /\ results' = {}
  /\ UNCHANGED <<faults, disk_present, hdr_buf, io_vars, history_vars>>

\* alias; mkdir, touch, rm and cd.  Some changes of the filesystem, a bare cd
\* among them, are not saved.
Change(c) ==
  /\ \E v \in Chosen(faults, c) \ {mem[c]} : mem' = [mem EXCEPT ![c] = v]
  /\ Command("other", <<Save(c)>>) \/ (c = "fs" /\ Command("other", <<>>))
  /\ savelist' = savelist

CmdSave ==
  /\ Command("save", <<Save("aliases"), Save("fs")>>)
  /\ UNCHANGED <<mem, savelist>>

CmdLoad ==
  /\ Command("other", <<Load("aliases"), Load("fs")>>)
  /\ UNCHANGED <<mem, savelist>>

CmdSavelist(c) ==
  /\ savelist' = IF c \in savelist THEN savelist \ {c} ELSE savelist \cup {c}
  /\ Command("other", <<SavelistSet>>)
  /\ mem' = mem

Next ==
  \/ PersistProbe
  \/ \E c \in Category : PersistLoad(c) \/ SaveSkipped(c) \/ WriteData(c)
  \/ \E o \in Owner : ReadHeader(o) \/ WriteHeader(o)
  \/ SetSkipped
  \/ \E c \in Category : Change(c)
  \/ \E c \in Toggled(faults) : CmdSavelist(c)
  \/ CmdSave \/ CmdLoad
  \/ Reboot \/ Crash

Spec == Init /\ [][Next]_vars

-----------------------------------------------------------------------------
(* Properties. *)

\* Whatever goes wrong, a load takes a mixture of two saves only if it has the
\* very checksum of a whole image: a checksum in a header is always that of one,
\* also where such a mixture has been loaded and saved again.
NoTornImage ==
  \A c \in Category : Accepts(disk, c) => disk.data[c] \in Alike[c]

\* The drive reports what it does not do, and once it has failed it goes on
\* failing: no single transfer gives up.
DriveIsSteady == faults \cap {"timeout", "lost"} = {}

\* This is said of images that the checksum tells from their mixtures.
\* As long as the drive reports its failures, every sector a load takes is of
\* the image of the last save that returned ATA_OK, or of one tried since,
\* whatever fails in between, and whatever stale header a later save of the
\* other category writes.  On a steady drive the whole is one such image.  (On
\* one where a single transfer gives up it need not be: what a save that failed
\* leaves may be an image of long ago, for which the stale header vouches.)
AcceptedIsRecent ==
  \A c \in Category : Accepts(disk, c) =>
    /\ "lost" \notin faults
       => \A k \in Sectors(c) : \E v \in recent[c] : disk.data[c][k] = v[k]
    /\ DriveIsSteady => disk.data[c] \in recent[c]

\* On such a drive, once a save has returned ATA_OK, its image survives a power
\* failure at any later moment, in the middle of a save of the other category
\* too.
SavedIsDurable ==
  DriveIsSteady =>
  \A c \in acked : \A d \in PowerLoss(disk, durable) :
    Accepts(d, c) /\ d.data[c] \in recent[c] /\ Cardinality(recent[c]) = 1

\* "Saved to disk." is true of every category on the save list.
SavedToDisk == cmd = "save" /\ todo = <<>> /\ results = {"ATA_OK"}
SavedMeansLoadable ==
  DriveIsSteady /\ SavedToDisk => \A c \in savelist : Accepts(disk, c) /\ disk.data[c] = mem[c]

\* Between commands the save list in memory is the one the next boot reads,
\* while the drive answers.
SavelistAgrees ==
  DriveIsSteady /\ todo = <<>> /\ disk_present /\ ~drive_err /\ disk.hdr.magic
  => disk.hdr.savelist = savelist

-----------------------------------------------------------------------------
(* A statement of a comment that the code does not keep. *)

\* persist.c, write_header(): "fields this call doesn't own [...] are
\* preserved".
HeaderFieldsPreserved ==
  [][\A c \in Category :
       todo # <<>> /\ Head(todo).of # c /\ disk.hdr.magic
       => /\ (c \in disk'.hdr.flags) = (c \in disk.hdr.flags)
          /\ disk'.hdr.csum[c] = disk.hdr.csum[c]]_disk
=============================================================================
