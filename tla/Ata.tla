-------------------------------- MODULE Ata --------------------------------
(***************************************************************************)
(* drivers/ata.c and the drive it polls.  A step of the driver is one wait *)
(* with the register accesses that follow it; the drive moves on its own   *)
(* between any two.  A wait that gives up leaves the drive at work on the  *)
(* command: its late answer is what the next call may find.                *)
(*                                                                         *)
(* Two kinds of drive are considered.  A prompt one has stored a sector    *)
(* before the next command can reach it, and a command replaces what it is *)
(* doing.  A strict one shows BSY while it stores a sector, and ignores    *)
(* commands written while it shows BSY or DRQ, when ATA forbids them (so   *)
(* does the drive of QEMU, on which DahleOS runs).                         *)
(***************************************************************************)
EXTENDS Integers, Sequences

CONSTANTS
  MaxLba,      \* the last sector of the drive
  MaxCount,    \* sectors of one call
  Data,        \* what a sector may hold
  NoData,      \* what the data port gives when no sector is offered
  Setting      \* the drives to consider

Lba == 0 .. MaxLba

ASSUME SizeAssumption == MaxLba \in Nat /\ MaxCount \in Nat \ {0}
ASSUME DataAssumption == NoData \notin Data
\* timeout: a wait gives up although the drive is at work.  error: a command
\* ends with ERR.
ASSUME SettingAssumption ==
  Setting \subseteq [strict : BOOLEAN, faults : SUBSET {"timeout", "error"}]

VARIABLES
  setting,     \* the drive of this behaviour
  call,        \* the call in progress, or the last one
  pc,          \* where it is
  moved,       \* sectors it has moved
  buf,         \* the buffer of a read
  result,      \* what the last call returned
  bsy, drq, err,   \* the status register
  job,         \* the command the drive is executing
  stored,      \* the sectors, as the drive reads them back
  unflushed,   \* sectors only in the drive's cache
  refused      \* history: has a call returned ATA_ERR_ERROR since IDENTIFY?

driver == <<call, pc, moved, buf, result>>
drive == <<bsy, drq, err, job, stored, unflushed>>
vars == <<setting, driver, drive, refused>>

NoJob == [op |-> "none", at |-> 0, left |-> 0, hand |-> NoData]
Job(op, at, left) == [op |-> op, at |-> at, left |-> left, hand |-> NoData]

Calls ==
  {c \in [op : {"READ", "WRITE"}, lba : Lba, count : 1 .. MaxCount,
          data : UNION {[1 .. n -> Data] : n \in 0 .. MaxCount}] :
     /\ c.lba + c.count <= MaxLba + 1
     /\ Len(c.data) = IF c.op = "READ" THEN 0 ELSE c.count}

Detection == [op |-> "IDENTIFY", lba |-> 0, count |-> 1, data |-> <<>>]

TypeOK ==
  /\ setting \in Setting
  /\ call \in Calls \cup {Detection}
  /\ pc \in {"idle", "ready", "bsy", "drq", "flush", "flushing", "identify", "answer"}
  /\ moved \in 0 .. MaxCount
  /\ buf \in UNION {[1 .. n -> Data \cup {NoData}] : n \in 0 .. MaxCount}
  /\ result \in {"ATA_OK", "ATA_ERR_TIMEOUT", "ATA_ERR_ERROR", "ATA_ERR_NODRIVE"}
  /\ bsy \in BOOLEAN /\ drq \in BOOLEAN /\ err \in BOOLEAN
  /\ job.op \in {"none", "READ", "WRITE", "FLUSH", "IDENTIFY"}
  /\ job.at \in Lba /\ job.left \in 0 .. MaxCount /\ job.hand \in Data \cup {NoData}
  /\ stored \in [Lba -> Data]
  /\ unflushed \in SUBSET Lba
  /\ refused \in BOOLEAN

Init ==
  /\ setting \in Setting
  /\ call = Detection /\ pc = "identify" /\ moved = 0 /\ buf = <<>>
  /\ result = "ATA_ERR_NODRIVE"
  /\ bsy = FALSE /\ drq = FALSE /\ err = FALSE
  /\ job = NoJob
  /\ \E d \in Data : stored = [l \in Lba |-> d]
  /\ unflushed = {}
  /\ refused = FALSE

-----------------------------------------------------------------------------
(* The drive. *)

Status(b, d, e) == bsy' = b /\ drq' = d /\ err' = e

\* The command register is written.
Accept(j) ==
  IF setting.strict /\ (bsy \/ drq)
  THEN UNCHANGED drive
  ELSE /\ Status(TRUE, FALSE, FALSE)
       /\ job' = j
       /\ UNCHANGED <<stored, unflushed>>

\* The sector at job.at has been moved; the drive turns to the next one.
NextSector(b) ==
  IF job.left = 1
  THEN Status(FALSE, FALSE, FALSE) /\ job' = NoJob
  ELSE Status(b, ~b, FALSE) /\ job' = [Job(job.op, job.at, job.left - 1) EXCEPT !.at = @ + 1]

Store(v) ==
  /\ stored' = [stored EXCEPT ![job.at] = v]
  /\ unflushed' = unflushed \cup {job.at}

\* BSY ends: a sector is ready to be read, or wanted, or stored; the cache is
\* flushed.
DriveWorks ==
  /\ bsy
  /\ CASE job.op = "FLUSH" ->
            Status(FALSE, FALSE, FALSE) /\ job' = NoJob /\ unflushed' = {} /\ UNCHANGED stored
       [] job.hand # NoData -> Store(job.hand) /\ NextSector(FALSE)
       [] OTHER -> Status(FALSE, TRUE, FALSE) /\ UNCHANGED <<job, stored, unflushed>>
  /\ UNCHANGED <<setting, driver, refused>>

DriveFails ==
  /\ bsy /\ "error" \in setting.faults /\ job.op # "IDENTIFY"
  /\ Status(FALSE, FALSE, TRUE) /\ job' = NoJob
  /\ UNCHANGED <<setting, driver, stored, unflushed, refused>>

-----------------------------------------------------------------------------
(* The driver. *)

Return(r) ==
  /\ result' = r
  /\ pc' = "idle"
  /\ refused' = (refused \/ r = "ATA_ERR_ERROR")

\* A wait that polls too often: while the drive is at work only if it may be
\* that slow, and always when it waits for nothing.
GivesUp == "timeout" \in setting.faults \/ (~bsy /\ ~drq)

\* Mutant: the buffer's pointer is not set back.
BeginOnTop(c) ==
  /\ pc = "idle"
  /\ call' = c
  /\ pc' = IF c.op = "IDENTIFY" THEN "identify" ELSE "ready"
  /\ moved' = 0
  /\ UNCHANGED <<setting, buf, result, drive, refused>>

Begin(c) ==
  /\ pc = "idle"
  /\ call' = c
  /\ pc' = IF c.op = "IDENTIFY" THEN "identify" ELSE "ready"
  /\ moved' = 0 /\ buf' = <<>>
  /\ UNCHANGED <<setting, result, drive, refused>>

\* Mutant: ERR is not looked at.
ReadyDespiteError ==
  /\ pc = "ready" /\ ~bsy
  /\ Accept(Job(call.op, call.lba, call.count))
  /\ pc' = IF call.op = "READ" THEN "bsy" ELSE "drq"
  /\ UNCHANGED <<setting, call, moved, buf, result, refused>>

\* Mutant: the command is written with the sector's registers clear.
ReadyUnselected ==
  /\ pc = "ready"
  /\ \/ /\ ~bsy /\ ~err
        /\ Accept(Job(call.op, 0, call.count))
        /\ pc' = IF call.op = "READ" THEN "bsy" ELSE "drq"
        /\ UNCHANGED <<result, refused>>
     \/ /\ (~bsy /\ err) \/ (bsy /\ GivesUp)
        /\ Return("ATA_ERR_TIMEOUT")
        /\ UNCHANGED drive
  /\ UNCHANGED <<setting, call, moved, buf>>

\* The first ata_wait_bsy(), whose every failure is a timeout; then
\* ata_select_lba28() and the command.
Ready ==
  /\ pc = "ready"
  /\ \/ /\ ~bsy /\ ~err
        /\ Accept(Job(call.op, call.lba, call.count))
        /\ pc' = IF call.op = "READ" THEN "bsy" ELSE "drq"
        /\ UNCHANGED <<result, refused>>
     \/ /\ (~bsy /\ err) \/ (bsy /\ GivesUp)
        /\ Return("ATA_ERR_TIMEOUT")
        /\ UNCHANGED drive
  /\ UNCHANGED <<setting, call, moved, buf>>

\* Mutant: a read that has waited too long is started again.
WaitBsyAndRetry ==
  /\ pc = "bsy"
  /\ \/ ~bsy /\ ~err /\ pc' = "drq" /\ UNCHANGED <<moved, buf, result, refused>>
     \/ ~bsy /\ err /\ Return("ATA_ERR_ERROR") /\ UNCHANGED <<moved, buf>>
     \/ /\ bsy /\ GivesUp
        /\ pc' = "ready" /\ moved' = 0 /\ buf' = <<>>
        /\ UNCHANGED <<result, refused>>
  /\ UNCHANGED <<setting, call, drive>>

\* ata_wait_bsy() before each sector of a read.
WaitBsy ==
  /\ pc = "bsy"
  /\ \/ ~bsy /\ ~err /\ pc' = "drq" /\ UNCHANGED <<result, refused>>
     \/ ~bsy /\ err /\ Return("ATA_ERR_ERROR")
     \/ bsy /\ GivesUp /\ Return("ATA_ERR_TIMEOUT")
  /\ UNCHANGED <<setting, call, moved, buf, drive>>

\* Mutant: the words are moved without waiting.
SectorMovesUnasked == TRUE

\* What ata_wait_drq() waits for.
SectorMoves == ~bsy /\ drq

\* Mutant: every sector is read to the beginning of the buffer.
TakeSectorToBeginning ==
  IF drq /\ job.op \in {"READ", "IDENTIFY"}
  THEN /\ buf' = <<IF job.op = "READ" THEN stored[job.at] ELSE NoData>>
       /\ NextSector(TRUE)
       /\ UNCHANGED <<stored, unflushed>>
  ELSE buf' = <<NoData>> /\ UNCHANGED drive

\* 256 words are read: those of the sector the drive offers.
TakeSector ==
  IF drq /\ job.op \in {"READ", "IDENTIFY"}
  THEN /\ buf' = Append(buf, IF job.op = "READ" THEN stored[job.at] ELSE NoData)
       /\ NextSector(TRUE)
       /\ UNCHANGED <<stored, unflushed>>
  ELSE buf' = Append(buf, NoData) /\ UNCHANGED drive

\* 256 words are written, into the sector the drive wants.
GiveSector ==
  LET v == call.data[moved + 1] IN
  IF ~drq \/ job.op # "WRITE" THEN UNCHANGED drive
  ELSE IF setting.strict
  THEN /\ Status(TRUE, FALSE, FALSE)
       /\ job' = [job EXCEPT !.hand = v]
       /\ UNCHANGED <<stored, unflushed>>
  ELSE \/ Store(v) /\ NextSector(FALSE)
       \/ /\ "error" \in setting.faults
          /\ Status(FALSE, FALSE, TRUE) /\ job' = NoJob
          /\ UNCHANGED <<stored, unflushed>>

\* The loops over the sectors: ata_wait_drq() and the words of one.
MoveSector ==
  /\ pc = "drq"
  /\ \/ /\ ~err /\ SectorMoves
        /\ moved' = moved + 1
        /\ \/ /\ call.op = "READ" /\ TakeSector
              /\ \/ moved' < call.count /\ pc' = "bsy" /\ UNCHANGED <<result, refused>>
                 \/ moved' = call.count /\ Return("ATA_OK")
           \/ /\ call.op = "WRITE" /\ GiveSector
              /\ pc' = IF moved' < call.count THEN "drq" ELSE "flush"
              /\ UNCHANGED <<buf, result, refused>>
     \/ /\ err /\ Return("ATA_ERR_ERROR")
        /\ UNCHANGED <<moved, buf, drive>>
     \/ /\ ~err /\ ~SectorMoves /\ GivesUp /\ Return("ATA_ERR_TIMEOUT")
        /\ UNCHANGED <<moved, buf, drive>>
  /\ UNCHANGED <<setting, call>>

\* The flush is written without waiting for the last sector.
Flush ==
  /\ pc = "flush"
  /\ Accept(Job("FLUSH", 0, 1))
  /\ pc' = "flushing"
  /\ UNCHANGED <<setting, call, moved, buf, result, refused>>

\* The result of the wait is ignored.
Flushed ==
  /\ pc = "flushing"
  /\ ~bsy \/ GivesUp
  /\ Return("ATA_OK")
  /\ UNCHANGED <<setting, call, moved, buf, drive>>

\* ata_detect(), up to the wait for the answer to IDENTIFY.
Identify ==
  /\ pc = "identify"
  /\ Accept(Job("IDENTIFY", 0, 1))
  /\ pc' = "answer"
  /\ refused' = FALSE
  /\ UNCHANGED <<setting, call, moved, buf, result>>

\* The rest of it: a drive is there if it offers a sector, which is drained.
Answer ==
  /\ pc = "answer"
  /\ pc' = "idle"
  /\ \/ /\ ~bsy /\ drq /\ ~err
        /\ TakeSector
        /\ result' = "ATA_OK"
     \/ /\ (~bsy /\ (err \/ ~drq)) \/ (bsy /\ GivesUp)
        /\ result' = "ATA_ERR_NODRIVE"
        /\ UNCHANGED <<buf, drive>>
  /\ UNCHANGED <<setting, call, moved, refused>>

-----------------------------------------------------------------------------

Driver == Ready \/ WaitBsy \/ MoveSector \/ Flush \/ Flushed \/ Identify \/ Answer

Drive == DriveWorks \/ DriveFails

Next == (\E c \in Calls \cup {Detection} : Begin(c)) \/ Driver \/ Drive

Spec == Init /\ [][Next]_vars /\ WF_vars(Driver) /\ WF_vars(Drive)

-----------------------------------------------------------------------------
(* Properties. *)

\* A strict drive that is slow: a wait has given up on it, and its answer comes
\* to the next call.  Nothing is claimed of it.
Trusted == ~(setting.strict /\ "timeout" \in setting.faults)

Returned(op) == pc = "idle" /\ call.op = op /\ result = "ATA_OK"

\* A read that returns ATA_OK has the sectors it was asked for, in order, also
\* when earlier calls have given up in the middle of a read or a write.
OkReadIsExact ==
  Trusted /\ Returned("READ")
  => buf = [k \in 1 .. call.count |-> stored[call.lba + k - 1]]

\* A write that returns ATA_OK has stored every sector but the last, of whose
\* end nobody asks; that one too when no command fails.
OkWriteIsStored ==
  Trusted /\ Returned("WRITE")
  => \A k \in 1 .. call.count :
       \/ stored[call.lba + k - 1] = call.data[k]
       \/ k = call.count /\ "error" \in setting.faults

\* No call changes a sector outside its own range, whatever was left behind by
\* an earlier one.
WritesStayInside ==
  [][Trusted => \A l \in Lba :
       stored'[l] # stored[l]
       => call.op = "WRITE" /\ l \in call.lba .. call.lba + call.count - 1]_stored

\* After ATA_ERR_ERROR every transfer is refused until IDENTIFY.
ErrorsLast ==
  [][refused /\ pc # "idle" /\ pc' = "idle" /\ call.op # "IDENTIFY"
     => result' # "ATA_OK"]_vars

\* Every call returns: the waits are bounded, and the drive answers.
EveryCallReturns == pc # "idle" ~> pc = "idle"

-----------------------------------------------------------------------------
(* A statement of a comment that the code does not keep. *)

\* ata.h, ata_write_sectors(): "then flush cache".
OkWriteIsFlushed == Returned("WRITE") => unflushed = {}
=============================================================================
