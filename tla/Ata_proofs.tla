---------------------------- MODULE Ata_proofs ----------------------------
(***************************************************************************)
(* For any drive of the model, however slow: an error that the driver has  *)
(* reported stands in the status register until IDENTIFY, and no call      *)
(* moves more than it was asked to.  For a drive that is waited for long   *)
(* enough, or that takes commands at any time: the result of a call tells  *)
(* what is in the buffer and on the drive, also after earlier calls that   *)
(* were given up.                                                          *)
(***************************************************************************)
EXTENDS Ata, SequenceTheorems, TLAPS

\* ERR is never set while the drive is at work, and once it has been reported
\* no call gets further than its first wait.
ErrorInv ==
  /\ err => ~bsy
  /\ refused => err /\ pc \in {"idle", "ready", "identify"}

\* The step of a call that ends it.
RefusedStep ==
  refused /\ pc # "idle" /\ pc' = "idle" /\ call.op # "IDENTIFY"
  => result' # "ATA_OK"

\* The drive alone never sets ERR with BSY, and is idle once ERR stands.
LEMMA DriveKeepsErrorInv == ASSUME ErrorInv, Drive PROVE ErrorInv'
<1>1. CASE DriveWorks
  <2>1. bsy /\ ~refused /\ ~refused'
    BY <1>1 DEF DriveWorks, ErrorInv
  <2>2. ~err'
    BY <1>1 DEF DriveWorks, NextSector, Store, Status
  <2> QED BY <2>1, <2>2 DEF ErrorInv
<1>2. CASE DriveFails
  BY <1>2 DEF DriveFails, Status, ErrorInv
<1> QED BY <1>1, <1>2 DEF Drive

\* A command leaves ERR as it was or clears it.
LEMMA AcceptKeepsErr ==
  ASSUME ErrorInv, NEW j, Accept(j)
  PROVE  err' => ~bsy'
BY DEF Accept, Status, drive, ErrorInv

\* A sector leaves no ERR with BSY.
LEMMA SectorKeepsErr ==
  ASSUME ErrorInv, TakeSector \/ GiveSector
  PROVE  err' => ~bsy'
BY DEF TakeSector, GiveSector, NextSector, Store, Status, drive, ErrorInv

\* The driver: an error is reported only when it stands in the register.
LEMMA DriverKeepsErrorInv ==
  ASSUME ErrorInv, Driver
  PROVE  ErrorInv' /\ RefusedStep
<1>1. CASE Ready
  <2>1. CASE ~bsy /\ ~err
    BY <1>1, <2>1, AcceptKeepsErr DEF Ready, ErrorInv, RefusedStep, Return
  <2>2. CASE bsy \/ err
    <3>1. pc' = "idle" /\ result' = "ATA_ERR_TIMEOUT" /\ (refused' => refused)
      BY <1>1, <2>2 DEF Ready, Return
    <3>2. UNCHANGED <<bsy, err>>
      BY <1>1, <2>2 DEF Ready, drive
    <3> QED BY <3>1, <3>2 DEF ErrorInv, RefusedStep
  <2> QED BY <2>1, <2>2
<1>2. CASE WaitBsy
  <2>1. pc = "bsy" /\ ~refused
    BY <1>2 DEF WaitBsy, ErrorInv
  <2>2. UNCHANGED <<bsy, err>>
    BY <1>2 DEF WaitBsy, drive
  <2>3. refused' => err /\ pc' = "idle"
    BY <1>2, <2>1 DEF WaitBsy, Return
  <2> QED BY <2>1, <2>2, <2>3 DEF ErrorInv, RefusedStep
<1>3. CASE MoveSector
  <2>1. pc = "drq" /\ ~refused
    BY <1>3 DEF MoveSector, ErrorInv
  <2>2. CASE err
    <3>1. result' = "ATA_ERR_ERROR" /\ pc' = "idle" /\ UNCHANGED drive
      BY <1>3, <2>2 DEF MoveSector, Return
    <3> QED BY <2>1, <2>2, <3>1 DEF ErrorInv, RefusedStep, drive
  <2>3. CASE ~err
    <3>1. ~refused'
      BY <1>3, <2>1, <2>3 DEF MoveSector, Return
    <3>2. err' => ~bsy'
      BY <1>3, <2>3, SectorKeepsErr DEF MoveSector, drive
    <3> QED BY <2>1, <3>1, <3>2 DEF ErrorInv, RefusedStep
  <2> QED BY <2>2, <2>3
<1>4. CASE Flush
  BY <1>4, AcceptKeepsErr DEF Flush, ErrorInv, RefusedStep
<1>5. CASE Flushed
  BY <1>5 DEF Flushed, ErrorInv, RefusedStep, Return, drive
<1>6. CASE Identify
  BY <1>6, AcceptKeepsErr DEF Identify, ErrorInv, RefusedStep
<1>7. CASE Answer
  <2>1. ~refused /\ ~refused'
    BY <1>7 DEF Answer, ErrorInv
  <2>2. err' => ~bsy'
    BY <1>7, SectorKeepsErr DEF Answer, drive, ErrorInv
  <2> QED BY <2>1, <2>2 DEF ErrorInv, RefusedStep
<1> QED
  BY <1>1, <1>2, <1>3, <1>4, <1>5, <1>6, <1>7 DEF Driver

\* One step.
LEMMA NextKeepsErrorInv ==
  ErrorInv /\ [Next]_vars => ErrorInv' /\ RefusedStep
<1> SUFFICES ASSUME ErrorInv, [Next]_vars PROVE ErrorInv' /\ RefusedStep
  OBVIOUS
<1>1. CASE \E c \in Calls \cup {Detection} : Begin(c)
  BY <1>1 DEF Begin, ErrorInv, RefusedStep, drive
<1>2. CASE Driver
  BY <1>2, DriverKeepsErrorInv
<1>3. CASE Drive
  <2>1. UNCHANGED pc
    BY <1>3 DEF Drive, DriveWorks, DriveFails, driver
  <2> QED BY <1>3, <2>1, DriveKeepsErrorInv DEF RefusedStep
<1>4. CASE UNCHANGED vars
  BY <1>4 DEF vars, driver, drive, ErrorInv, RefusedStep
<1> QED BY <1>1, <1>2, <1>3, <1>4 DEF Next

\* Whatever the drive and the calls, an error reported refuses every transfer
\* until IDENTIFY.
THEOREM ErrorsStayUntilIdentify == Spec => ErrorsLast
<1>1. Init => ErrorInv
  BY DEF Init, ErrorInv
<1>2. ErrorInv /\ [Next]_vars => ErrorInv'
  BY NextKeepsErrorInv
<1>3. ErrorInv /\ [Next]_vars
      => [refused /\ pc # "idle" /\ pc' = "idle" /\ call.op # "IDENTIFY"
          => result' # "ATA_OK"]_vars
  BY NextKeepsErrorInv DEF RefusedStep
<1> QED BY <1>1, <1>2, <1>3, PTL DEF Spec, ErrorsLast

-----------------------------------------------------------------------------
(* The drive's side, for every drive of the model. *)

JobSet == [op : {"none", "READ", "WRITE", "FLUSH", "IDENTIFY"}, at : Lba,
           left : 0 .. MaxCount, hand : Data \cup {NoData}]

\* A transfer stays on the drive.
ValidJob(j) ==
  /\ j \in JobSet
  /\ j.op = "none" => j = NoJob
  /\ j.op \in {"READ", "WRITE"} => j.left >= 1 /\ j.at + j.left <= MaxLba + 1
  /\ j.op \in {"FLUSH", "IDENTIFY"} => j = Job(j.op, 0, 1)
  /\ j.hand # NoData => setting.strict /\ j.op = "WRITE"

\* The status tells whether there is a job.
StatusInv ==
  /\ ~(bsy /\ drq) /\ (err => ~bsy /\ ~drq)
  /\ ~bsy /\ ~drq <=> job = NoJob
  /\ drq => job.op # "FLUSH"
  /\ job.hand # NoData => bsy

DriveInv ==
  /\ bsy \in BOOLEAN /\ drq \in BOOLEAN /\ err \in BOOLEAN
  /\ stored \in [Lba -> Data] /\ unflushed \in SUBSET Lba
  /\ ValidJob(job) /\ StatusInv

\* Where a call stands: how far it has got, and what its buffer holds.
CallInv ==
  /\ pc \in {"ready", "bsy", "drq", "flush", "flushing"} => call \in Calls
  /\ pc \in {"identify", "answer"} => call = Detection
  /\ pc \in {"ready", "identify", "answer"} => moved = 0 /\ buf = <<>>
  /\ pc = "bsy" => call.op = "READ"
  /\ pc \in {"bsy", "drq"} => moved < call.count /\ (call.op = "READ" => Len(buf) = moved)
  /\ pc \in {"flush", "flushing"} => call.op = "WRITE" /\ moved = call.count

\* The sectors of a write, up to the n-th.
Written(n) == \A k \in 1 .. n : stored[call.lba + k - 1] = call.data[k]
WrittenOrFailed(n) ==
  \A k \in 1 .. n : \/ stored[call.lba + k - 1] = call.data[k]
                    \/ k = n /\ "error" \in setting.faults

\* Where a write stands: the drive has stored what it was given, wants the next
\* sector, has the last one in hand, or flushes.
Done == job = NoJob /\ WrittenOrFailed(moved)
Wants == /\ pc = "drq" /\ job = Job("WRITE", call.lba + moved, call.count - moved)
         /\ Written(moved)
InHand == /\ moved >= 1 /\ job.hand # NoData
          /\ job = [Job("WRITE", call.lba + moved - 1, call.count - moved + 1)
                      EXCEPT !.hand = call.data[moved]]
          /\ Written(moved - 1)
Flushing == pc = "flushing" /\ job = Job("FLUSH", 0, 1) /\ WrittenOrFailed(moved)

\* What the drive does is what the driver is waiting for.
RestServes == pc \in {"idle", "ready", "identify"} /\ setting.strict => job = NoJob
AnswerServes ==
  pc = "answer" /\ setting.strict => job = NoJob \/ job = Job("IDENTIFY", 0, 1)
ReadServes ==
  pc \in {"bsy", "drq"} /\ call.op = "READ" =>
    /\ job = NoJob \/ job = Job("READ", call.lba + moved, call.count - moved)
    /\ \A k \in 1 .. moved : buf[k] = stored[call.lba + k - 1]
WriteServes ==
  pc \in {"drq", "flush", "flushing"} /\ call.op = "WRITE" =>
    Done \/ Wants \/ InHand \/ Flushing

ServesInv == RestServes /\ AnswerServes /\ ReadServes /\ WriteServes

\* What a call that has returned ATA_OK leaves behind.
OkInv ==
  /\ Returned("READ") => /\ call \in Calls /\ Len(buf) = call.count
                         /\ \A k \in 1 .. call.count : buf[k] = stored[call.lba + k - 1]
  /\ Returned("WRITE") => call \in Calls /\ WrittenOrFailed(call.count)

AtaInv ==
  /\ TypeOK /\ DriveInv /\ CallInv
  /\ Trusted => ServesInv /\ OkInv

\* What a job of the driver is made of.
LEMMA JobFacts ==
  /\ NoJob \in JobSet /\ NoJob.op = "none" /\ NoJob.hand = NoData
  /\ \A op \in {"READ", "WRITE", "FLUSH", "IDENTIFY"}, at \in Lba, left \in 0 .. MaxCount :
       /\ Job(op, at, left) \in JobSet /\ Job(op, at, left) # NoJob
       /\ Job(op, at, left).op = op /\ Job(op, at, left).at = at
       /\ Job(op, at, left).left = left /\ Job(op, at, left).hand = NoData
  /\ 0 \in Lba /\ 1 \in 0 .. MaxCount /\ 0 \in 0 .. MaxCount
BY SizeAssumption DEF NoJob, Job, JobSet, Lba

\* A job that the driver asks for.
LEMMA AcceptFacts ==
  ASSUME DriveInv, setting' = setting, NEW j, Accept(j), ValidJob(j),
         j.op # "none", j.hand = NoData
  PROVE  /\ DriveInv' /\ UNCHANGED <<stored, unflushed>>
         /\ IF setting.strict /\ (bsy \/ drq) THEN UNCHANGED drive ELSE job' = j
<1>1. CASE setting.strict /\ (bsy \/ drq)
  <2>1. UNCHANGED drive
    BY <1>1 DEF Accept
  <2> QED BY <1>1, <2>1 DEF drive, DriveInv, ValidJob, StatusInv
<1>2. CASE ~(setting.strict /\ (bsy \/ drq))
  <2>1. bsy' /\ ~drq' /\ ~err' /\ job' = j /\ UNCHANGED <<stored, unflushed>>
        /\ bsy' \in BOOLEAN /\ drq' \in BOOLEAN /\ err' \in BOOLEAN
    BY <1>2 DEF Accept, Status
  <2>2. j # NoJob
    BY JobFacts
  <2>3. ValidJob(job)'
    BY <2>1 DEF ValidJob
  <2>4. StatusInv'
    BY <2>1, <2>2 DEF StatusInv
  <2> QED BY <1>2, <2>1, <2>3, <2>4 DEF DriveInv
<1> QED BY <1>1, <1>2

\* The drive turns to the next sector of a transfer, or is done.
LEMMA NextSectorFacts ==
  ASSUME DriveInv, setting' = setting, NEW b \in BOOLEAN, NextSector(b),
         job.op \in {"READ", "WRITE", "IDENTIFY"},
         stored' \in [Lba -> Data], unflushed' \in SUBSET Lba
  PROVE  /\ DriveInv'
         /\ job' = IF job.left = 1 THEN NoJob ELSE Job(job.op, job.at + 1, job.left - 1)
<1>1. /\ job \in JobSet /\ MaxLba \in Nat /\ MaxCount \in Nat
      /\ job.op \in {"READ", "WRITE"} => job.left >= 1 /\ job.at + job.left <= MaxLba + 1
      /\ job.op = "IDENTIFY" => job.left = 1
  BY SizeAssumption, JobFacts DEF DriveInv, ValidJob
<1>2. CASE job.left = 1
  <2>1. job' = NoJob /\ ~bsy' /\ ~drq' /\ ~err'
        /\ bsy' \in BOOLEAN /\ drq' \in BOOLEAN /\ err' \in BOOLEAN
    BY <1>2 DEF NextSector, Status
  <2>2. ValidJob(job)'
    BY <2>1, JobFacts DEF ValidJob
  <2> QED BY <1>2, <2>1, <2>2, JobFacts DEF DriveInv, StatusInv
<1>3. CASE job.left # 1
  <2>1. /\ job' = [Job(job.op, job.at, job.left - 1) EXCEPT !.at = @ + 1]
        /\ bsy' = b /\ drq' = ~b /\ err' = FALSE
    BY <1>3 DEF NextSector, Status
  <2>2. job' = Job(job.op, job.at + 1, job.left - 1)
    BY <2>1 DEF Job
  <2>3. /\ job.op \in {"READ", "WRITE"} /\ job.at + 1 \in Lba /\ job.left - 1 \in 0 .. MaxCount
        /\ job.left - 1 >= 1 /\ (job.at + 1) + (job.left - 1) <= MaxLba + 1
    BY <1>1, <1>3 DEF JobSet, Lba
  <2>4. /\ job' \in JobSet /\ job'.op = job.op /\ job'.at = job.at + 1
        /\ job'.left = job.left - 1 /\ job'.hand = NoData /\ job' # NoJob
    BY <2>2, <2>3, JobFacts
  <2>5. ValidJob(job)'
    BY <2>3, <2>4 DEF ValidJob
  <2>6. StatusInv' /\ bsy' \in BOOLEAN /\ drq' \in BOOLEAN /\ err' \in BOOLEAN
    BY <2>1, <2>3, <2>4 DEF StatusInv
  <2> QED BY <1>3, <2>2, <2>5, <2>6 DEF DriveInv
<1> QED BY <1>2, <1>3

\* A sector is stored at the drive's address.
LEMMA StoreFacts ==
  ASSUME DriveInv, NEW v \in Data, Store(v)
  PROVE  /\ job.at \in Lba /\ stored' \in [Lba -> Data] /\ unflushed' \in SUBSET Lba
         /\ \A l \in Lba : stored'[l] = IF l = job.at THEN v ELSE stored[l]
BY DEF Store, DriveInv, ValidJob, JobSet

\* A command that fails.
LEMMA JobEnds ==
  ASSUME DriveInv, setting' = setting, NEW e \in BOOLEAN, Status(FALSE, FALSE, e), job' = NoJob,
         stored' \in [Lba -> Data], unflushed' \in SUBSET Lba
  PROVE  DriveInv'
<1>1. ~bsy' /\ ~drq' /\ bsy' \in BOOLEAN /\ drq' \in BOOLEAN /\ err' \in BOOLEAN
  BY DEF Status
<1>2. ValidJob(job)'
  BY JobFacts DEF ValidJob
<1> QED BY <1>1, <1>2, JobFacts DEF DriveInv, StatusInv

\* A sector, or something else, is put behind the buffer.
LEMMA TakeSectorFacts ==
  ASSUME DriveInv, setting' = setting, TakeSector
  PROVE  /\ DriveInv' /\ UNCHANGED <<stored, unflushed>>
         /\ \E x \in Data \cup {NoData} : buf' = Append(buf, x)
         /\ job.op = "READ" /\ drq =>
              /\ buf' = Append(buf, stored[job.at]) /\ job.at \in Lba
              /\ job' = IF job.left = 1 THEN NoJob ELSE Job("READ", job.at + 1, job.left - 1)
         /\ job = Job("IDENTIFY", 0, 1) /\ drq => job' = NoJob
<1>1. job.at \in Lba /\ stored \in [Lba -> Data] /\ unflushed \in SUBSET Lba
  BY DEF DriveInv, ValidJob, JobSet
<1>2. CASE drq /\ job.op \in {"READ", "IDENTIFY"}
  <2>1. /\ buf' = Append(buf, IF job.op = "READ" THEN stored[job.at] ELSE NoData)
        /\ NextSector(TRUE) /\ UNCHANGED <<stored, unflushed>>
    BY <1>2 DEF TakeSector
  <2>2. /\ DriveInv'
        /\ job' = IF job.left = 1 THEN NoJob ELSE Job(job.op, job.at + 1, job.left - 1)
    BY <1>1, <1>2, <2>1, NextSectorFacts
  <2>3. job = Job("IDENTIFY", 0, 1) => job.left = 1
    BY DEF Job
  <2> QED BY <1>1, <1>2, <2>1, <2>2, <2>3, JobFacts
<1>3. CASE ~(drq /\ job.op \in {"READ", "IDENTIFY"})
  <2>1. buf' = Append(buf, NoData) /\ UNCHANGED drive
    BY <1>3 DEF TakeSector
  <2>2. job = Job("IDENTIFY", 0, 1) => job.op = "IDENTIFY"
    BY DEF Job
  <2> QED BY <1>3, <2>1, <2>2 DEF drive, DriveInv, ValidJob, StatusInv
<1> QED BY <1>2, <1>3

\* A sector is given to the drive: a prompt one stores it or fails, a strict one
\* takes it in hand.
LEMMA GiveSectorFacts ==
  ASSUME DriveInv, setting' = setting, NEW v \in Data, v = call.data[moved + 1], GiveSector
  PROVE  /\ DriveInv'
         /\ \/ ~(drq /\ job.op = "WRITE") /\ UNCHANGED <<job, stored>>
            \/ /\ drq /\ job.op = "WRITE" /\ setting.strict
               /\ job' = [job EXCEPT !.hand = v] /\ UNCHANGED stored
            \/ /\ drq /\ job.op = "WRITE" /\ ~setting.strict
               /\ \A l \in Lba : stored'[l] = IF l = job.at THEN v ELSE stored[l]
               /\ job' = IF job.left = 1 THEN NoJob ELSE Job("WRITE", job.at + 1, job.left - 1)
            \/ "error" \in setting.faults /\ job' = NoJob /\ UNCHANGED stored
<1>1. v # NoData /\ stored \in [Lba -> Data] /\ unflushed \in SUBSET Lba
  BY DataAssumption DEF DriveInv
<1>2. CASE ~drq \/ job.op # "WRITE"
  <2>1. UNCHANGED drive
    BY <1>2 DEF GiveSector
  <2> QED BY <1>2, <2>1 DEF drive, DriveInv, ValidJob, StatusInv
<1>3. CASE drq /\ job.op = "WRITE" /\ setting.strict
  <2>1. /\ bsy' = TRUE /\ drq' = FALSE /\ err' = FALSE /\ job' = [job EXCEPT !.hand = v]
        /\ UNCHANGED <<stored, unflushed>>
    BY <1>3 DEF GiveSector, Status
  <2>2. /\ job' \in JobSet /\ job'.op = "WRITE" /\ job'.hand = v /\ job'.at = job.at
        /\ job'.left = job.left
    BY <1>1, <1>3, <2>1 DEF DriveInv, ValidJob, JobSet
  <2>3. ValidJob(job)'
    BY <1>3, <2>2 DEF DriveInv, ValidJob
  <2>4. job' # NoJob
    BY <2>2, JobFacts
  <2> QED BY <1>1, <1>3, <2>1, <2>2, <2>3, <2>4 DEF DriveInv, StatusInv
<1>4. CASE drq /\ job.op = "WRITE" /\ ~setting.strict
  <2>1. \/ Store(v) /\ NextSector(FALSE)
        \/ /\ "error" \in setting.faults
           /\ Status(FALSE, FALSE, TRUE) /\ job' = NoJob
           /\ UNCHANGED <<stored, unflushed>>
    BY <1>4 DEF GiveSector
  <2>2. CASE Store(v) /\ NextSector(FALSE)
    <3>1. /\ stored' \in [Lba -> Data] /\ unflushed' \in SUBSET Lba
          /\ \A l \in Lba : stored'[l] = IF l = job.at THEN v ELSE stored[l]
      BY <2>2, StoreFacts
    <3> QED BY <1>4, <2>2, <3>1, NextSectorFacts
  <2>3. CASE /\ "error" \in setting.faults
             /\ Status(FALSE, FALSE, TRUE) /\ job' = NoJob
             /\ UNCHANGED <<stored, unflushed>>
    BY <1>1, <2>3, JobEnds
  <2> QED BY <2>1, <2>2, <2>3
<1> QED BY <1>2, <1>3, <1>4

\* The drive on its own: it ends a flush, stores what it has in hand, or offers
\* or wants a sector.
LEMMA DriveWorksFacts ==
  ASSUME DriveInv, DriveWorks
  PROVE  /\ DriveInv' /\ UNCHANGED <<setting, driver, refused>>
         /\ \/ job = Job("FLUSH", 0, 1) /\ job' = NoJob /\ UNCHANGED stored
            \/ /\ job.hand # NoData /\ job.op = "WRITE" /\ job.at \in Lba
               /\ \A l \in Lba : stored'[l] = IF l = job.at THEN job.hand ELSE stored[l]
               /\ job' = IF job.left = 1 THEN NoJob ELSE Job("WRITE", job.at + 1, job.left - 1)
            \/ UNCHANGED <<job, stored>>
<1>1. /\ bsy /\ UNCHANGED <<setting, driver, refused>>
      /\ stored \in [Lba -> Data] /\ unflushed \in SUBSET Lba /\ job \in JobSet
  BY DEF DriveWorks, DriveInv, ValidJob
<1>2. CASE job.op = "FLUSH"
  <2>0. job.hand = NoData
    BY <1>2 DEF DriveInv, ValidJob
  <2>1. Status(FALSE, FALSE, FALSE) /\ job' = NoJob /\ unflushed' = {} /\ stored' = stored
    BY <1>2, <2>0 DEF DriveWorks
  <2>2. DriveInv'
    BY <1>1, <2>1, JobEnds
  <2> QED BY <1>1, <1>2, <2>1, <2>2 DEF DriveInv, ValidJob
<1>3. CASE job.op # "FLUSH" /\ job.hand # NoData
  <2>1. Store(job.hand) /\ NextSector(FALSE)
    BY <1>3 DEF DriveWorks
  <2>2. job.op = "WRITE" /\ job.hand \in Data
    BY <1>1, <1>3 DEF DriveInv, ValidJob, JobSet
  <2>3. /\ stored' \in [Lba -> Data] /\ unflushed' \in SUBSET Lba /\ job.at \in Lba
        /\ \A l \in Lba : stored'[l] = IF l = job.at THEN job.hand ELSE stored[l]
    BY <2>1, <2>2, StoreFacts
  <2>4. /\ DriveInv'
        /\ job' = IF job.left = 1 THEN NoJob ELSE Job("WRITE", job.at + 1, job.left - 1)
    BY <1>1, <2>1, <2>2, <2>3, NextSectorFacts
  <2> QED BY <1>1, <1>3, <2>2, <2>3, <2>4
<1>4. CASE job.op # "FLUSH" /\ job.hand = NoData
  <2>1. bsy' = FALSE /\ drq' = TRUE /\ err' = FALSE /\ UNCHANGED <<job, stored, unflushed>>
    BY <1>4 DEF DriveWorks, Status
  <2>2. DriveInv'
    BY <1>1, <1>4, <2>1 DEF DriveInv, ValidJob, StatusInv
  <2> QED BY <1>1, <2>1, <2>2
<1> QED BY <1>2, <1>3, <1>4

\* A drive that fails ends its job and touches nothing else.
LEMMA DriveFailsFacts ==
  ASSUME DriveInv, DriveFails
  PROVE  /\ DriveInv' /\ UNCHANGED <<setting, driver, stored, refused>>
         /\ "error" \in setting.faults /\ job' = NoJob
BY JobEnds DEF DriveFails, DriveInv

-----------------------------------------------------------------------------
(* The driver's side. *)

\* A call that starts.
LEMMA CallFacts ==
  ASSUME NEW k \in Calls
  PROVE  /\ k.op \in {"READ", "WRITE"} /\ k.lba \in Lba /\ k.count \in 1 .. MaxCount
         /\ k.lba + k.count <= MaxLba + 1
         /\ k.op = "WRITE" => \A n \in 1 .. k.count : k.data[n] \in Data
         /\ k # Detection
<1>1. /\ k.op \in {"READ", "WRITE"} /\ k.lba \in Lba /\ k.count \in 1 .. MaxCount
      /\ k.lba + k.count <= MaxLba + 1
      /\ k.data \in UNION {[1 .. n -> Data] : n \in 0 .. MaxCount}
      /\ Len(k.data) = IF k.op = "READ" THEN 0 ELSE k.count
  BY DEF Calls
<1>2. PICK n \in 0 .. MaxCount : k.data \in [1 .. n -> Data]
  BY <1>1
<1>3. Len(k.data) = n
  BY <1>2, SizeAssumption
<1>4. k # Detection
  BY <1>1 DEF Detection
<1> QED BY <1>1, <1>2, <1>3, <1>4

\* The buffer is a sequence.
LEMMA BufferFacts ==
  /\ TypeOK => buf \in Seq(Data \cup {NoData}) /\ Len(buf) \in 0 .. MaxCount
  /\ \A b \in Seq(Data \cup {NoData}) :
       Len(b) <= MaxCount => b \in UNION {[1 .. n -> Data \cup {NoData}] : n \in 0 .. MaxCount}
<1>1. ASSUME TypeOK PROVE buf \in Seq(Data \cup {NoData}) /\ Len(buf) \in 0 .. MaxCount
  <2>1. PICK n \in 0 .. MaxCount : buf \in [1 .. n -> Data \cup {NoData}]
    BY <1>1 DEF TypeOK
  <2>2. buf \in Seq(Data \cup {NoData})
    BY <2>1, SeqDef, SizeAssumption
  <2>3. Len(buf) = n
    BY <2>1, SizeAssumption
  <2> QED BY <2>1, <2>2, <2>3
<1>2. ASSUME NEW b \in Seq(Data \cup {NoData}), Len(b) <= MaxCount
      PROVE  b \in UNION {[1 .. n -> Data \cup {NoData}] : n \in 0 .. MaxCount}
  <2>1. Len(b) \in 0 .. MaxCount /\ b \in [1 .. Len(b) -> Data \cup {NoData}]
    BY <1>2, LenProperties, SizeAssumption
  <2> QED BY <2>1
<1> QED BY <1>1, <1>2

\* What holds of any drive, trusted or not.
BasicInv == TypeOK /\ DriveInv /\ CallInv

\* The variables of the driver, in a step that leaves the buffer alone.
DriverTyped ==
  /\ call \in Calls \cup {Detection}
  /\ pc \in {"idle", "ready", "bsy", "drq", "flush", "flushing", "identify", "answer"}
  /\ moved \in 0 .. MaxCount
  /\ buf \in UNION {[1 .. n -> Data \cup {NoData}] : n \in 0 .. MaxCount}
  /\ result \in {"ATA_OK", "ATA_ERR_TIMEOUT", "ATA_ERR_ERROR", "ATA_ERR_NODRIVE"}
  /\ refused \in BOOLEAN

AllTyped == setting \in Setting /\ DriverTyped /\ DriveInv

\* The typed parts are TypeOK.
LEMMA TypesTogether == AllTyped => TypeOK
BY DEF AllTyped, DriverTyped, DriveInv, ValidJob, JobSet, TypeOK

\* The same, after a step.
LEMMA TypesTogetherNext == AllTyped' => TypeOK'
BY TypesTogether, PTL

\* A call that has ended.
LEMMA ReturnKeepsBasic ==
  ASSUME BasicInv, DriveInv', setting' = setting, call' = call, moved' \in 0 .. MaxCount,
         buf' = buf \/ (\E x \in Data \cup {NoData} : buf' = Append(buf, x) /\ Len(buf) < MaxCount),
         pc' = "idle", refused' \in BOOLEAN,
         result' \in {"ATA_OK", "ATA_ERR_TIMEOUT", "ATA_ERR_ERROR", "ATA_ERR_NODRIVE"}
  PROVE  BasicInv'
<1>1. buf' \in UNION {[1 .. n -> Data \cup {NoData}] : n \in 0 .. MaxCount}
  <2>1. CASE buf' = buf
    BY <2>1 DEF BasicInv, TypeOK
  <2>2. CASE \E x \in Data \cup {NoData} : buf' = Append(buf, x) /\ Len(buf) < MaxCount
    <3>1. PICK x \in Data \cup {NoData} : buf' = Append(buf, x) /\ Len(buf) < MaxCount
      BY <2>2
    <3>2. buf \in Seq(Data \cup {NoData}) /\ Len(buf) \in Nat
      BY BufferFacts, LenProperties DEF BasicInv
    <3>3. buf' \in Seq(Data \cup {NoData}) /\ Len(buf') <= MaxCount
      BY <3>1, <3>2, SizeAssumption
    <3> QED BY <3>3, BufferFacts
  <2> QED BY <2>1, <2>2
<1>2. DriverTyped' /\ setting' \in Setting
  BY <1>1 DEF DriverTyped, BasicInv, TypeOK
<1>3. TypeOK'
  BY <1>2, TypesTogetherNext DEF AllTyped
<1>4. CallInv'
  BY DEF CallInv
<1> QED BY <1>3, <1>4 DEF BasicInv

\* A call that goes on, its buffer unchanged.
LEMMA GoOnKeepsBasic ==
  ASSUME BasicInv, DriveInv', UNCHANGED <<setting, call, moved, buf, result>>,
         pc' \in {"ready", "bsy", "drq", "flush", "flushing", "identify", "answer"},
         refused' \in BOOLEAN, CallInv'
  PROVE  BasicInv'
<1>1. DriverTyped' /\ setting' \in Setting
  BY DEF DriverTyped, BasicInv, TypeOK
<1> QED BY <1>1, TypesTogetherNext DEF BasicInv, AllTyped

\* A call that begins.
LEMMA BeginKeepsBasic ==
  ASSUME BasicInv, NEW k \in Calls \cup {Detection}, Begin(k)
  PROVE  BasicInv'
<1>1. /\ call' = k /\ moved' = 0 /\ buf' = <<>>
      /\ pc' = IF k.op = "IDENTIFY" THEN "identify" ELSE "ready"
      /\ UNCHANGED <<setting, result, drive, refused>>
  BY DEF Begin
<1>2. DriveInv'
  BY <1>1 DEF BasicInv, drive, DriveInv, ValidJob, StatusInv
<1>3. buf' \in UNION {[1 .. n -> Data \cup {NoData}] : n \in 0 .. MaxCount}
  BY <1>1, BufferFacts, SizeAssumption, EmptySeq
<1>4. DriverTyped' /\ setting' \in Setting
  BY <1>1, <1>3, JobFacts DEF DriverTyped, BasicInv, TypeOK
<1>5. k \in Calls => k.op # "IDENTIFY"
  BY CallFacts
<1>6. k \notin Calls => k = Detection /\ k.op = "IDENTIFY"
  BY DEF Detection
<1>7. CallInv'
  BY <1>1, <1>5, <1>6 DEF CallInv
<1> QED BY <1>2, <1>4, <1>7, TypesTogetherNext DEF BasicInv, AllTyped

\* The job of a call is a job.
LEMMA JobOfCall ==
  ASSUME NEW k \in Calls
  PROVE  /\ ValidJob(Job(k.op, k.lba, k.count))
         /\ Job(k.op, k.lba, k.count).op # "none" /\ Job(k.op, k.lba, k.count).hand = NoData
<1>1. /\ k.op \in {"READ", "WRITE"} /\ k.lba \in Lba /\ k.count \in 0 .. MaxCount
      /\ k.count >= 1 /\ k.lba + k.count <= MaxLba + 1
  BY CallFacts
<1> QED BY <1>1, JobFacts DEF ValidJob

\* The flush and the probe hand over no data.
LEMMA SmallJobs ==
  ASSUME NEW op \in {"FLUSH", "IDENTIFY"}
  PROVE  /\ ValidJob(Job(op, 0, 1))
         /\ Job(op, 0, 1).op # "none" /\ Job(op, 0, 1).hand = NoData
BY JobFacts DEF ValidJob

\* The wait for the drive ends, one way or the other.
LEMMA ReadyKeepsBasic ==
  ASSUME BasicInv, Ready
  PROVE  BasicInv'
<1>1. /\ pc = "ready" /\ UNCHANGED <<setting, call, moved, buf>> /\ call \in Calls
      /\ moved = 0 /\ buf = <<>> /\ refused \in BOOLEAN
  BY DEF Ready, BasicInv, CallInv, TypeOK
<1>2. CASE /\ Accept(Job(call.op, call.lba, call.count))
           /\ pc' = IF call.op = "READ" THEN "bsy" ELSE "drq"
           /\ UNCHANGED <<result, refused>>
  <2>1. DriveInv'
    BY <1>1, <1>2, AcceptFacts, JobOfCall DEF BasicInv
  <2>2. CallInv'
    <3>1. call.count > 0 /\ Len(buf) = 0
      BY <1>1, CallFacts
    <3> QED BY <1>1, <1>2, <3>1 DEF CallInv
  <2> QED BY <1>1, <1>2, <2>1, <2>2, GoOnKeepsBasic
<1>3. CASE Return("ATA_ERR_TIMEOUT") /\ UNCHANGED drive
  <2>1. DriveInv'
    BY <1>1, <1>3 DEF BasicInv, drive, DriveInv, ValidJob, StatusInv
  <2>2. moved' \in 0 .. MaxCount
    BY <1>1, JobFacts
  <2> QED BY <1>1, <1>3, <2>1, <2>2, ReturnKeepsBasic DEF Return
<1> QED BY <1>2, <1>3 DEF Ready

\* The wait before the command.
LEMMA WaitBsyKeepsBasic ==
  ASSUME BasicInv, WaitBsy
  PROVE  BasicInv'
<1>1. /\ pc = "bsy" /\ UNCHANGED <<setting, call, moved, buf, drive>> /\ refused \in BOOLEAN
      /\ moved \in 0 .. MaxCount
  BY DEF WaitBsy, BasicInv, TypeOK
<1>2. DriveInv'
  BY <1>1 DEF BasicInv, drive, DriveInv, ValidJob, StatusInv
<1>3. CASE pc' = "drq" /\ UNCHANGED <<result, refused>>
  <2>1. CallInv'
    BY <1>1, <1>3 DEF BasicInv, CallInv
  <2> QED BY <1>1, <1>2, <1>3, <2>1, GoOnKeepsBasic
<1>4. CASE Return("ATA_ERR_ERROR") \/ Return("ATA_ERR_TIMEOUT")
  BY <1>1, <1>2, <1>4, ReturnKeepsBasic DEF Return
<1> QED BY <1>3, <1>4 DEF WaitBsy

\* The cache flush.
LEMMA FlushKeepsBasic ==
  ASSUME BasicInv, Flush \/ Flushed
  PROVE  BasicInv'
<1>1. /\ UNCHANGED <<setting, call, moved, buf>> /\ refused \in BOOLEAN /\ moved \in 0 .. MaxCount
  BY DEF Flush, Flushed, BasicInv, TypeOK
<1>2. CASE Flush
  <2>1. DriveInv'
    BY <1>1, <1>2, AcceptFacts, SmallJobs DEF Flush, BasicInv
  <2>2. CallInv'
    BY <1>1, <1>2 DEF Flush, BasicInv, CallInv
  <2> QED BY <1>1, <1>2, <2>1, <2>2, GoOnKeepsBasic DEF Flush
<1>3. CASE Flushed
  <2>1. DriveInv'
    BY <1>1, <1>3 DEF Flushed, BasicInv, drive, DriveInv, ValidJob, StatusInv
  <2> QED BY <1>1, <1>3, <2>1, ReturnKeepsBasic DEF Flushed, Return
<1> QED BY <1>2, <1>3

\* The probe.
LEMMA DetectKeepsBasic ==
  ASSUME BasicInv, Identify \/ Answer
  PROVE  BasicInv'
<1>1. /\ UNCHANGED <<setting, call, moved>> /\ refused \in BOOLEAN /\ moved \in 0 .. MaxCount
  BY DEF Identify, Answer, BasicInv, TypeOK
<1>2. CASE Identify
  <2>1. DriveInv'
    BY <1>1, <1>2, AcceptFacts, SmallJobs DEF Identify, BasicInv
  <2>2. CallInv'
    BY <1>1, <1>2 DEF Identify, BasicInv, CallInv
  <2> QED BY <1>1, <1>2, <2>1, <2>2, GoOnKeepsBasic DEF Identify
<1>3. CASE Answer
  <2>1. buf = <<>> /\ Len(buf) = 0 /\ pc' = "idle" /\ refused' = refused
    BY <1>3 DEF Answer, BasicInv, CallInv
  <2>2. \/ TakeSector /\ result' = "ATA_OK"
        \/ UNCHANGED <<buf, drive>> /\ result' = "ATA_ERR_NODRIVE"
    BY <1>3 DEF Answer
  <2>3. CASE TakeSector /\ result' = "ATA_OK"
    BY <1>1, <2>1, <2>3, TakeSectorFacts, ReturnKeepsBasic, SizeAssumption DEF BasicInv
  <2>4. CASE UNCHANGED <<buf, drive>> /\ result' = "ATA_ERR_NODRIVE"
    <3>1. DriveInv'
      BY <1>1, <2>4 DEF BasicInv, drive, DriveInv, ValidJob, StatusInv
    <3> QED BY <1>1, <2>1, <2>4, <3>1, ReturnKeepsBasic
  <2> QED BY <2>2, <2>3, <2>4
<1> QED BY <1>2, <1>3

\* The arguments of a step of MoveSector that moves a sector.
LEMMA MovingFacts ==
  ASSUME BasicInv, pc = "drq"
  PROVE  /\ call \in Calls /\ moved \in 0 .. MaxCount /\ moved < call.count
         /\ moved + 1 \in 1 .. call.count /\ call.count \in 1 .. MaxCount
         /\ buf \in Seq(Data \cup {NoData}) /\ refused \in BOOLEAN
         /\ call.op = "READ" => Len(buf) = moved
         /\ call.op = "WRITE" => call.data[moved + 1] \in Data
<1>1. call \in Calls /\ moved \in 0 .. MaxCount /\ moved < call.count /\ refused \in BOOLEAN
      /\ (call.op = "READ" => Len(buf) = moved)
  BY DEF BasicInv, CallInv, TypeOK
<1>2. buf \in Seq(Data \cup {NoData})
  BY BufferFacts DEF BasicInv
<1>3. call.count \in 1 .. MaxCount /\ moved + 1 \in 1 .. call.count
  BY <1>1, CallFacts, SizeAssumption
<1> QED BY <1>1, <1>2, <1>3, CallFacts

\* A sector moves.
LEMMA MoveSectorKeepsBasic ==
  ASSUME BasicInv, MoveSector
  PROVE  BasicInv'
<1>1. pc = "drq" /\ UNCHANGED <<setting, call>> /\ call \in Calls
  BY MovingFacts DEF MoveSector
<1>2. CASE /\ moved' = moved + 1 /\ call.op = "READ" /\ TakeSector
           /\ \/ moved' < call.count /\ pc' = "bsy" /\ UNCHANGED <<result, refused>>
              \/ moved' = call.count /\ Return("ATA_OK")
  <2>1. DriveInv' /\ \E x \in Data \cup {NoData} : buf' = Append(buf, x)
    BY <1>1, <1>2, TakeSectorFacts DEF BasicInv
  <2>2. PICK x \in Data \cup {NoData} : buf' = Append(buf, x)
    BY <2>1
  <2>3. /\ buf' \in Seq(Data \cup {NoData}) /\ Len(buf') = moved + 1 /\ Len(buf) < MaxCount
        /\ moved' \in 0 .. MaxCount
    <3>1. moved' \in 0 .. MaxCount /\ moved < MaxCount
      BY <1>1, <1>2, MovingFacts, SizeAssumption
    <3>2. buf \in Seq(Data \cup {NoData}) /\ Len(buf) = moved
      BY <1>1, <1>2, MovingFacts
    <3> QED BY <2>2, <3>1, <3>2
  <2>4. CASE moved' < call.count /\ pc' = "bsy" /\ UNCHANGED <<result, refused>>
    <3>1. DriverTyped' /\ setting' \in Setting
      <4>1. buf' \in UNION {[1 .. n -> Data \cup {NoData}] : n \in 0 .. MaxCount}
        <5>1. Len(buf') <= MaxCount
          BY <1>2, <2>3, SizeAssumption
        <5> QED BY <2>3, <5>1, BufferFacts
      <4> QED BY <1>1, <2>3, <2>4, <4>1 DEF DriverTyped, BasicInv, TypeOK
    <3>2. CallInv'
      BY <1>1, <1>2, <2>3, <2>4 DEF CallInv
    <3> QED BY <2>1, <3>1, <3>2, TypesTogetherNext DEF BasicInv, AllTyped
  <2>5. CASE moved' = call.count /\ Return("ATA_OK")
    <3>1. pc' = "idle" /\ result' = "ATA_OK" /\ refused' \in BOOLEAN
      BY <1>1, <2>5, MovingFacts DEF Return
    <3> QED BY <1>1, <2>1, <2>2, <2>3, <3>1, ReturnKeepsBasic
  <2> QED BY <1>2, <2>4, <2>5
<1>3. CASE /\ moved' = moved + 1 /\ call.op = "WRITE" /\ GiveSector
           /\ pc' = IF moved' < call.count THEN "drq" ELSE "flush"
           /\ UNCHANGED <<buf, result, refused>>
  <2>1. DriveInv'
    BY <1>1, <1>3, MovingFacts, GiveSectorFacts DEF BasicInv
  <2>2. moved' \in 0 .. MaxCount
    BY <1>1, <1>3, MovingFacts, SizeAssumption
  <2>3. DriverTyped' /\ setting' \in Setting
    BY <1>1, <1>3, <2>2 DEF DriverTyped, BasicInv, TypeOK
  <2>4. CallInv'
    BY <1>1, <1>3, MovingFacts DEF CallInv
  <2> QED BY <2>1, <2>3, <2>4, TypesTogetherNext DEF BasicInv, AllTyped
<1>4. CASE /\ UNCHANGED <<moved, buf, drive>>
           /\ Return("ATA_ERR_ERROR") \/ Return("ATA_ERR_TIMEOUT")
  <2>1. DriveInv'
    BY <1>1, <1>4 DEF BasicInv, drive, DriveInv, ValidJob, StatusInv
  <2> QED BY <1>1, <1>4, <2>1, MovingFacts, ReturnKeepsBasic DEF Return
<1> QED BY <1>2, <1>3, <1>4 DEF MoveSector

\* The drive acts.
LEMMA DriveKeepsBasic ==
  ASSUME BasicInv, Drive
  PROVE  BasicInv'
<1>1. DriveInv' /\ UNCHANGED <<setting, driver, refused>>
  BY DriveWorksFacts, DriveFailsFacts DEF Drive, BasicInv
<1>2. DriverTyped' /\ setting' \in Setting /\ CallInv'
  BY <1>1 DEF BasicInv, TypeOK, DriverTyped, CallInv, driver
<1> QED BY <1>1, <1>2, TypesTogetherNext DEF BasicInv, AllTyped

\* Nothing happens.
LEMMA StutterKeepsBasic ==
  ASSUME BasicInv, UNCHANGED vars
  PROVE  BasicInv'
<1>1. UNCHANGED <<setting, call, pc, moved, buf, result, bsy, drq, err, job, stored,
                  unflushed, refused>>
  BY DEF vars, driver, drive
<1>2. DriveInv'
  BY <1>1 DEF BasicInv, DriveInv, ValidJob, StatusInv
<1>3. DriverTyped' /\ setting' \in Setting /\ CallInv'
  BY <1>1 DEF BasicInv, TypeOK, DriverTyped, CallInv
<1> QED BY <1>2, <1>3, TypesTogetherNext DEF BasicInv, AllTyped

\* At power-on.
LEMMA BasicHoldsFirst == Init => BasicInv
<1> SUFFICES ASSUME Init PROVE BasicInv
  OBVIOUS
<1>1. PICK d \in Data : stored = [l \in Lba |-> d]
  BY DEF Init
<1>2. DriveInv
  BY <1>1, JobFacts DEF Init, DriveInv, StatusInv, ValidJob
<1>3. DriverTyped /\ CallInv /\ setting \in Setting
  <2>1. <<>> \in UNION {[1 .. n -> Data \cup {NoData}] : n \in 0 .. MaxCount}
    BY BufferFacts, SizeAssumption, EmptySeq
  <2> QED BY <2>1, JobFacts DEF Init, DriverTyped, CallInv
<1> QED BY <1>2, <1>3, TypesTogether DEF BasicInv, AllTyped

\* One step.
LEMMA BasicAlways == BasicInv /\ [Next]_vars => BasicInv'
<1> SUFFICES ASSUME BasicInv, [Next]_vars PROVE BasicInv'
  OBVIOUS
<1>1. ASSUME NEW c \in Calls \cup {Detection}, Begin(c) PROVE BasicInv'
  BY <1>1, BeginKeepsBasic
<1> QED
  BY <1>1, ReadyKeepsBasic, WaitBsyKeepsBasic, MoveSectorKeepsBasic, FlushKeepsBasic,
     DetectKeepsBasic, DriveKeepsBasic, StutterKeepsBasic DEF Next, Driver

\* Whatever the drive does, the driver keeps to its buffer and the drive to its
\* sectors: every call moves at most the sectors it was asked for.
THEOREM DriverStaysInBounds == Spec => []TypeOK
<1>1. BasicInv => TypeOK
  BY DEF BasicInv
<1> QED BY <1>1, BasicHoldsFirst, BasicAlways, PTL DEF Spec

-----------------------------------------------------------------------------
(* A drive that is waited for long enough, or that takes a command at any  *)
(* time.                                                                   *)

\* What holds before a step.
Before == BasicInv /\ BasicInv' /\ Trusted /\ ServesInv /\ OkInv

\* A step changes only sectors of the call in progress.
StaysInside ==
  \A l \in Lba :
    stored'[l] # stored[l]
    => call.op = "WRITE" /\ l \in call.lba .. call.lba + call.count - 1

After == ServesInv' /\ OkInv' /\ StaysInside

\* A strict drive that is waited for is not given up while it is at work.
LEMMA StrictIsWaitedFor ==
  ASSUME Before, setting.strict, err \/ GivesUp
  PROVE  job = NoJob
<1>1. ~bsy /\ ~drq
  BY DEF Before, BasicInv, DriveInv, StatusInv, Trusted, GivesUp
<1> QED BY <1>1 DEF Before, BasicInv, DriveInv, StatusInv

\* A call that ends in any other way than ATA_OK.
LEMMA FailureServes ==
  ASSUME Before, UNCHANGED <<setting, call, stored>>, pc' = "idle",
         result' # "ATA_OK" \/ call = Detection,
         setting.strict => job' = NoJob
  PROVE  After
<1>1. ServesInv'
  BY DEF ServesInv, RestServes, AnswerServes, ReadServes, WriteServes
<1>2. OkInv'
  BY DEF OkInv, Returned, Detection
<1> QED BY <1>1, <1>2 DEF After, StaysInside

\* A call that begins.
LEMMA BeginServes ==
  ASSUME Before, NEW k \in Calls \cup {Detection}, Begin(k)
  PROVE  After
<1>1. pc = "idle" /\ pc' \in {"ready", "identify"} /\ UNCHANGED <<setting, job, stored>>
  BY DEF Begin, drive
<1>2. ServesInv'
  BY <1>1 DEF Before, ServesInv, RestServes, AnswerServes, ReadServes, WriteServes
<1> QED BY <1>1, <1>2 DEF After, StaysInside, OkInv, Returned

\* The command is given, or the driver gives up.
LEMMA ReadyServes ==
  ASSUME Before, Ready
  PROVE  After
<1>1. /\ pc = "ready" /\ UNCHANGED <<setting, call, moved, buf>> /\ call \in Calls /\ moved = 0
      /\ call.op \in {"READ", "WRITE"} /\ call.lba \in Nat /\ call.count \in Nat
      /\ setting.strict => job = NoJob /\ ~bsy /\ ~drq
  <2>1. call \in Calls /\ pc = "ready" /\ UNCHANGED <<setting, call, moved, buf>> /\ moved = 0
    BY DEF Ready, Before, BasicInv, CallInv
  <2>2. setting.strict => job = NoJob
    BY <2>1 DEF Before, ServesInv, RestServes
  <2>3. job = NoJob => ~bsy /\ ~drq
    BY DEF Before, BasicInv, DriveInv, StatusInv
  <2>4. call.op \in {"READ", "WRITE"} /\ call.lba \in Nat /\ call.count \in Nat
    BY <2>1, CallFacts, SizeAssumption DEF Lba
  <2> QED BY <2>1, <2>2, <2>3, <2>4
<1>2. CASE /\ Accept(Job(call.op, call.lba, call.count))
           /\ pc' = IF call.op = "READ" THEN "bsy" ELSE "drq"
  <2>1. job' = Job(call.op, call.lba, call.count) /\ stored' = stored
    BY <1>1, <1>2 DEF Accept
  <2>2. call.lba + moved = call.lba /\ call.count - moved = call.count /\ 1 .. moved = {}
    BY <1>1
  <2>3. ReadServes'
    BY <1>1, <1>2, <2>1, <2>2 DEF ReadServes
  <2>4. WriteServes'
    BY <1>1, <1>2, <2>1, <2>2 DEF WriteServes, Wants, Written
  <2>5. RestServes' /\ AnswerServes' /\ OkInv'
    BY <1>2 DEF RestServes, AnswerServes, OkInv, Returned
  <2> QED BY <2>1, <2>3, <2>4, <2>5 DEF After, ServesInv, StaysInside
<1>3. CASE Return("ATA_ERR_TIMEOUT") /\ UNCHANGED drive
  BY <1>1, <1>3, FailureServes DEF Return, drive
<1> QED BY <1>2, <1>3 DEF Ready

\* The wait while the drive is busy.
LEMMA WaitBsyServes ==
  ASSUME Before, WaitBsy
  PROVE  After
<1>1. /\ pc = "bsy" /\ UNCHANGED <<setting, call, moved, buf, job, stored>>
      /\ call.op = "READ"
  BY DEF WaitBsy, drive, Before, BasicInv, CallInv
<1>2. CASE pc' = "drq"
  <2>1. ServesInv'
    BY <1>1, <1>2 DEF Before, ServesInv, RestServes, AnswerServes, ReadServes, WriteServes
  <2> QED BY <1>1, <1>2, <2>1 DEF After, StaysInside, OkInv, Returned
<1>3. CASE (err \/ GivesUp) /\ (Return("ATA_ERR_ERROR") \/ Return("ATA_ERR_TIMEOUT"))
  BY <1>1, <1>3, StrictIsWaitedFor, FailureServes DEF Return
<1> QED BY <1>2, <1>3 DEF WaitBsy

\* A sector of a read is put behind the others.
LEMMA ReadMoves ==
  ASSUME Before, pc = "drq", UNCHANGED <<setting, call>>, moved' = moved + 1,
         call.op = "READ", TakeSector, SectorMoves,
         \/ moved' < call.count /\ pc' = "bsy"
         \/ moved' = call.count /\ pc' = "idle"
  PROVE  After
<1>1. /\ call \in Calls /\ moved \in Nat /\ call.lba \in Nat /\ call.count \in Nat
      /\ moved < call.count /\ buf \in Seq(Data \cup {NoData}) /\ Len(buf) = moved
  BY MovingFacts, CallFacts, SizeAssumption DEF Before, Lba
<1>2. job = Job("READ", call.lba + moved, call.count - moved)
  <2>1. job # NoJob
    BY DEF SectorMoves, Before, BasicInv, DriveInv, StatusInv
  <2> QED BY <2>1 DEF Before, ServesInv, ReadServes
<1>3. job.op = "READ" /\ job.at = call.lba + moved /\ job.left = call.count - moved /\ drq
  BY <1>2 DEF Job, SectorMoves
<1>4. /\ buf' = Append(buf, stored[call.lba + moved]) /\ UNCHANGED stored
      /\ stored[call.lba + moved] \in Data \cup {NoData}
      /\ job' = IF call.count - moved = 1 THEN NoJob
                ELSE Job("READ", call.lba + moved + 1, call.count - moved - 1)
  <2>1. /\ buf' = Append(buf, stored[job.at]) /\ UNCHANGED stored /\ job.at \in Lba
        /\ job' = IF job.left = 1 THEN NoJob ELSE Job("READ", job.at + 1, job.left - 1)
    BY <1>3, TakeSectorFacts DEF Before, BasicInv
  <2>2. stored[job.at] \in Data \cup {NoData}
    BY <2>1 DEF Before, BasicInv, DriveInv
  <2> QED BY <1>3, <2>1, <2>2
<1>5. \A k \in 1 .. moved : buf[k] = stored[call.lba + k - 1]
  BY DEF Before, ServesInv, ReadServes
<1>6. Len(buf') = moved' /\ \A k \in 1 .. moved' : buf'[k] = stored'[call.lba + k - 1]
  <2>1. Len(buf') = moved + 1 /\ buf'[moved + 1] = stored[call.lba + moved]
        /\ \A k \in 1 .. moved : buf'[k] = buf[k]
    BY <1>1, <1>4
  <2>2. ASSUME NEW k \in 1 .. moved + 1 PROVE buf'[k] = stored[call.lba + k - 1]
    <3>1. CASE k = moved + 1
      <4>1. call.lba + k - 1 = call.lba + moved
        BY <1>1, <3>1
      <4> QED BY <2>1, <3>1, <4>1
    <3>2. CASE k # moved + 1
      <4>1. k \in 1 .. moved
        BY <1>1, <3>2
      <4> QED BY <1>5, <2>1, <4>1
    <3> QED BY <3>1, <3>2
  <2> QED BY <1>4, <2>1, <2>2
<1>7. \/ moved' < call.count /\ job' = Job("READ", call.lba + moved', call.count - moved')
      \/ moved' = call.count /\ job' = NoJob
  <2>1. /\ call.lba + moved + 1 = call.lba + moved' /\ call.count - moved - 1 = call.count - moved'
        /\ (call.count - moved = 1 <=> moved' = call.count)
    BY <1>1
  <2> QED BY <1>4, <2>1
<1>8. ServesInv'
  BY <1>6, <1>7 DEF ServesInv, RestServes, AnswerServes, ReadServes, WriteServes
<1>9. OkInv'
  BY <1>1, <1>6 DEF OkInv, Returned
<1> QED BY <1>4, <1>8, <1>9 DEF After, StaysInside

\* A sector is given to a drive that wants it.
LEMMA WriteMoves ==
  ASSUME Before, pc = "drq", UNCHANGED <<setting, call>>, moved' = moved + 1,
         call.op = "WRITE", GiveSector, SectorMoves,
         pc' = IF moved' < call.count THEN "drq" ELSE "flush"
  PROVE  After
<1>1. /\ call \in Calls /\ moved \in Nat /\ call.lba \in Nat /\ call.count \in Nat
      /\ moved < call.count /\ call.data[moved + 1] \in Data
  BY MovingFacts, CallFacts, SizeAssumption DEF Before, Lba
<1>2. Wants
  <2>1. job # NoJob /\ job.hand = NoData
    BY DEF SectorMoves, Before, BasicInv, DriveInv, StatusInv
  <2> QED BY <2>1 DEF Before, ServesInv, WriteServes, Done, InHand, Flushing
<1>3. /\ job = Job("WRITE", call.lba + moved, call.count - moved) /\ Written(moved)
      /\ job.op = "WRITE" /\ job.at = call.lba + moved /\ job.left = call.count - moved /\ drq
  BY <1>2 DEF Wants, Job, SectorMoves
<1> DEFINE v == call.data[moved + 1]
<1>4. /\ call.lba + moved' - 1 = call.lba + moved /\ call.count - moved' + 1 = call.count - moved
      /\ call.lba + moved + 1 = call.lba + moved' /\ call.count - moved - 1 = call.count - moved'
      /\ (call.count - moved = 1 <=> moved' = call.count) /\ moved' - 1 = moved /\ moved' >= 1
      /\ (moved' < call.count \/ moved' = call.count)
  BY <1>1
<1>5. \/ setting.strict /\ job' = [job EXCEPT !.hand = v] /\ UNCHANGED stored
      \/ /\ \A l \in Lba : stored'[l] = IF l = job.at THEN v ELSE stored[l]
         /\ job' = IF job.left = 1 THEN NoJob ELSE Job("WRITE", job.at + 1, job.left - 1)
      \/ "error" \in setting.faults /\ job' = NoJob /\ UNCHANGED stored
  BY <1>1, <1>3, GiveSectorFacts DEF Before, BasicInv
<1>6. job.at \in call.lba .. call.lba + call.count - 1
  BY <1>1, <1>3
<1>7. StaysInside
  BY <1>5, <1>6 DEF StaysInside
<1>8. Done' \/ Wants' \/ InHand'
  <2>1. CASE setting.strict /\ job' = [job EXCEPT !.hand = v] /\ UNCHANGED stored
    <3>1. job'.hand = v /\ v # NoData
      BY <1>1, <1>3, <2>1, DataAssumption DEF Job
    <3>2. job' = [Job("WRITE", call.lba + moved' - 1, call.count - moved' + 1)
                    EXCEPT !.hand = call.data[moved']]
      BY <1>3, <1>4, <2>1
    <3>3. \A k \in 1 .. moved' - 1 : stored'[call.lba + k - 1] = call.data[k]
      BY <1>3, <1>4, <2>1 DEF Written
    <3> QED BY <1>4, <3>1, <3>2, <3>3 DEF InHand, Written
  <2>2. CASE /\ \A l \in Lba : stored'[l] = IF l = job.at THEN v ELSE stored[l]
             /\ job' = IF job.left = 1 THEN NoJob ELSE Job("WRITE", job.at + 1, job.left - 1)
    <3>1. ASSUME NEW k \in 1 .. moved' PROVE stored'[call.lba + k - 1] = call.data[k]
      <4>1. call.lba + k - 1 \in Lba
        <5>1. call.lba + call.count <= MaxLba + 1 /\ MaxLba \in Nat
          BY <1>1, CallFacts, SizeAssumption
        <5>2. k \in Nat /\ k >= 1 /\ k <= call.count
          BY <1>1
        <5> QED BY <1>1, <5>1, <5>2 DEF Lba
      <4>2. CASE k = moved + 1
        BY <1>1, <1>3, <2>2, <4>1, <4>2
      <4>3. CASE k # moved + 1
        <5>1. k \in 1 .. moved /\ call.lba + k - 1 # call.lba + moved
          BY <1>1, <4>3
        <5> QED BY <1>3, <2>2, <4>1, <5>1 DEF Written
      <4> QED BY <4>2, <4>3
    <3>2. CASE moved' = call.count
      <4>1. job' = NoJob
        BY <1>3, <1>4, <2>2, <3>2
      <4> QED BY <3>1, <4>1 DEF Done, WrittenOrFailed
    <3>3. CASE moved' < call.count
      <4>1. job' = Job("WRITE", call.lba + moved', call.count - moved')
        BY <1>1, <1>3, <1>4, <2>2, <3>3
      <4> QED BY <3>1, <3>3, <4>1 DEF Wants, Written
    <3> QED BY <1>4, <3>2, <3>3
  <2>3. CASE "error" \in setting.faults /\ job' = NoJob /\ UNCHANGED stored
    <3>1. ASSUME NEW k \in 1 .. moved', k # moved' PROVE stored'[call.lba + k - 1] = call.data[k]
      <4>1. k \in 1 .. moved
        BY <1>1, <3>1
      <4> QED BY <1>3, <2>3, <4>1 DEF Written
    <3> QED BY <2>3, <3>1 DEF Done, WrittenOrFailed
  <2> QED BY <1>5, <2>1, <2>2, <2>3
<1>9. ServesInv'
  BY <1>8 DEF ServesInv, RestServes, AnswerServes, ReadServes, WriteServes
<1>10. OkInv'
  BY DEF OkInv, Returned
<1> QED BY <1>7, <1>9, <1>10 DEF After

\* One more sector has been served.
LEMMA MoveSectorServes ==
  ASSUME Before, MoveSector
  PROVE  After
<1>1. pc = "drq" /\ UNCHANGED <<setting, call>>
  BY DEF MoveSector
<1>2. CASE /\ ~err /\ SectorMoves /\ moved' = moved + 1
           /\ \/ /\ call.op = "READ" /\ TakeSector
                 /\ \/ moved' < call.count /\ pc' = "bsy"
                    \/ moved' = call.count /\ Return("ATA_OK")
              \/ /\ call.op = "WRITE" /\ GiveSector
                 /\ pc' = IF moved' < call.count THEN "drq" ELSE "flush"
  BY <1>1, <1>2, ReadMoves, WriteMoves DEF Return
<1>3. CASE /\ err \/ GivesUp
           /\ Return("ATA_ERR_ERROR") \/ Return("ATA_ERR_TIMEOUT")
           /\ UNCHANGED drive
  BY <1>1, <1>3, StrictIsWaitedFor, FailureServes DEF Return, drive
<1> QED BY <1>2, <1>3 DEF MoveSector

\* The flush command.
LEMMA FlushServes ==
  ASSUME Before, Flush
  PROVE  After
<1>1. /\ pc = "flush" /\ pc' = "flushing" /\ UNCHANGED <<setting, call, moved, buf, stored>>
      /\ Accept(Job("FLUSH", 0, 1)) /\ call.op = "WRITE"
  BY DEF Flush, Accept, drive, Before, BasicInv, CallInv
<1>2. Done \/ InHand
  BY <1>1 DEF Before, ServesInv, WriteServes, Wants, Flushing
<1>3. Flushing' \/ InHand'
  <2>1. CASE Done
    <3>1. job = NoJob => ~bsy /\ ~drq
      BY DEF Before, BasicInv, DriveInv, StatusInv
    <3>2. job' = Job("FLUSH", 0, 1)
      BY <1>1, <2>1, <3>1 DEF Accept, Done
    <3> QED BY <1>1, <2>1, <3>2 DEF Done, Flushing, WrittenOrFailed
  <2>2. CASE InHand
    <3>1. setting.strict /\ bsy
      BY <2>2 DEF InHand, Before, BasicInv, DriveInv, ValidJob, StatusInv
    <3>2. job' = job
      BY <1>1, <3>1 DEF Accept, drive
    <3> QED BY <1>1, <2>2, <3>2 DEF InHand, Written
  <2> QED BY <1>2, <2>1, <2>2
<1>4. ServesInv'
  BY <1>1, <1>3 DEF ServesInv, RestServes, AnswerServes, ReadServes, WriteServes
<1> QED BY <1>1, <1>4 DEF After, StaysInside, OkInv, Returned

\* The end of the flush.
LEMMA FlushedServes ==
  ASSUME Before, Flushed
  PROVE  After
<1>1. /\ pc = "flushing" /\ pc' = "idle" /\ UNCHANGED <<setting, call, moved, buf, stored, job>>
      /\ ~bsy \/ GivesUp
      /\ call.op = "WRITE" /\ call \in Calls /\ moved = call.count
  BY DEF Flushed, Return, drive, Before, BasicInv, CallInv
<1>2. ~InHand
  <2>1. InHand => setting.strict /\ bsy /\ job # NoJob
    BY JobFacts DEF InHand, Before, BasicInv, DriveInv, ValidJob, StatusInv
  <2> QED BY <1>1, <2>1, StrictIsWaitedFor
<1>3. WrittenOrFailed(moved)
  BY <1>1, <1>2 DEF Before, ServesInv, WriteServes, Done, Wants, Flushing
<1>4. setting.strict => job' = NoJob
  <2>1. CASE GivesUp
    BY <1>1, <2>1, StrictIsWaitedFor
  <2>2. CASE ~bsy
    <3>1. Done \/ Flushing
      BY <1>1, <1>2 DEF Before, ServesInv, WriteServes, Wants
    <3>2. Flushing => job.op = "FLUSH"
      BY DEF Flushing, Job
    <3>3. drq => job.op # "FLUSH"
      BY DEF Before, BasicInv, DriveInv, StatusInv
    <3>4. ~bsy /\ ~drq => job = NoJob
      BY DEF Before, BasicInv, DriveInv, StatusInv
    <3> QED BY <1>1, <2>2, <3>1, <3>2, <3>3, <3>4 DEF Done
  <2> QED BY <1>1, <2>1, <2>2
<1>5. ServesInv'
  BY <1>1, <1>4 DEF ServesInv, RestServes, AnswerServes, ReadServes, WriteServes
<1>6. OkInv'
  BY <1>1, <1>3 DEF OkInv, Returned, WrittenOrFailed
<1> QED BY <1>1, <1>5, <1>6 DEF After, StaysInside

\* The probe and its answer.
LEMMA DetectServes ==
  ASSUME Before, Identify \/ Answer
  PROVE  After
<1>1. CASE Identify
  <2>1. /\ pc = "identify" /\ pc' = "answer" /\ UNCHANGED <<setting, stored>>
        /\ Accept(Job("IDENTIFY", 0, 1))
    BY <1>1 DEF Identify, Accept, drive
  <2>2. setting.strict => job = NoJob /\ ~bsy /\ ~drq
    BY <2>1 DEF Before, ServesInv, RestServes, BasicInv, DriveInv, StatusInv
  <2>3. job' = Job("IDENTIFY", 0, 1)
    BY <2>1, <2>2 DEF Accept
  <2>4. ServesInv'
    BY <2>1, <2>3 DEF ServesInv, RestServes, AnswerServes, ReadServes, WriteServes
  <2> QED BY <2>1, <2>4 DEF After, StaysInside, OkInv, Returned
<1>2. CASE Answer
  <2>1. pc = "answer" /\ pc' = "idle" /\ UNCHANGED <<setting, call>> /\ call = Detection
    BY <1>2 DEF Answer, Before, BasicInv, CallInv
  <2>2. setting.strict => job = NoJob \/ job = Job("IDENTIFY", 0, 1)
    BY <2>1 DEF Before, ServesInv, AnswerServes
  <2>3. CASE ~bsy /\ drq /\ TakeSector
    <3>1. job # NoJob
      BY <2>3 DEF Before, BasicInv, DriveInv, StatusInv
    <3> QED BY <2>1, <2>2, <2>3, <3>1, TakeSectorFacts, FailureServes DEF Before, BasicInv
  <2>4. CASE ((~bsy /\ (err \/ ~drq)) \/ (bsy /\ GivesUp)) /\ UNCHANGED drive
    <3>1. (err \/ GivesUp) \/ (~bsy /\ ~drq)
      BY <2>4
    <3>2. setting.strict => job = NoJob
      BY <3>1, StrictIsWaitedFor DEF Before, BasicInv, DriveInv, StatusInv
    <3> QED BY <2>1, <2>4, <3>2, FailureServes DEF drive
  <2> QED BY <1>2, <2>3, <2>4 DEF Answer
<1> QED BY <1>1, <1>2

\* The drive ends what it has been asked for.
LEMMA DriveWorksServes ==
  ASSUME Before, DriveWorks
  PROVE  After
<1>1. /\ UNCHANGED <<setting, call, pc, moved, buf, result>>
      /\ \/ job = Job("FLUSH", 0, 1) /\ job' = NoJob /\ UNCHANGED stored
         \/ /\ job.hand # NoData /\ job.op = "WRITE" /\ job.at \in Lba
            /\ \A l \in Lba : stored'[l] = IF l = job.at THEN job.hand ELSE stored[l]
            /\ job' = IF job.left = 1 THEN NoJob ELSE Job("WRITE", job.at + 1, job.left - 1)
         \/ UNCHANGED <<job, stored>>
  BY DriveWorksFacts DEF Before, BasicInv, driver
<1>2. CASE job = Job("FLUSH", 0, 1) /\ job' = NoJob /\ UNCHANGED stored
  <2>1. job.op = "FLUSH" /\ job.hand = NoData /\ Job("WRITE", call.lba + moved, call.count - moved).op = "WRITE"
        /\ job # NoJob
    BY <1>2 DEF Job, NoJob
  <2>2. WriteServes'
    BY <1>1, <1>2, <2>1
       DEF Before, ServesInv, WriteServes, Done, Wants, InHand, Flushing, WrittenOrFailed
  <2>3. ReadServes'
    BY <1>1, <1>2 DEF Before, ServesInv, ReadServes
  <2>4. RestServes' /\ AnswerServes'
    BY <1>2 DEF RestServes, AnswerServes
  <2>5. OkInv'
    BY <1>1, <1>2 DEF Before, OkInv, Returned, WrittenOrFailed
  <2> QED BY <1>2, <2>2, <2>3, <2>4, <2>5 DEF After, ServesInv, StaysInside
<1>3. CASE /\ job.hand # NoData /\ job.op = "WRITE" /\ job.at \in Lba
           /\ \A l \in Lba : stored'[l] = IF l = job.at THEN job.hand ELSE stored[l]
           /\ job' = IF job.left = 1 THEN NoJob ELSE Job("WRITE", job.at + 1, job.left - 1)
  <2>1. setting.strict /\ job # NoJob
    BY <1>3, JobFacts DEF Before, BasicInv, DriveInv, ValidJob
  <2>2. pc \in {"bsy", "drq", "flush", "flushing"}
    <3>1. pc # "answer"
      BY <1>3, <2>1, JobFacts DEF Before, ServesInv, AnswerServes
    <3> QED BY <2>1, <3>1 DEF Before, ServesInv, RestServes, BasicInv, TypeOK
  <2>3. call \in Calls /\ call.op = "WRITE" /\ pc \in {"drq", "flush", "flushing"}
    <3>1. call \in Calls /\ (pc \in {"flush", "flushing"} => call.op = "WRITE")
          /\ (pc = "bsy" => call.op = "READ")
      BY <2>2 DEF Before, BasicInv, CallInv
    <3>2. ~(pc \in {"bsy", "drq"} /\ call.op = "READ")
      <4>1. Job("READ", call.lba + moved, call.count - moved).op = "READ"
        BY DEF Job
      <4> QED BY <1>3, <2>1, <4>1 DEF Before, ServesInv, ReadServes
    <3> QED BY <2>2, <3>1, <3>2, CallFacts
  <2>4. InHand
    <3>1. Job("WRITE", call.lba + moved, call.count - moved).hand = NoData
          /\ Job("FLUSH", 0, 1).hand = NoData
      BY DEF Job
    <3> QED BY <1>3, <2>1, <2>3, <3>1 DEF Before, ServesInv, WriteServes, Done, Wants, Flushing
  <2>5. /\ moved >= 1 /\ moved \in Nat /\ call.lba \in Nat /\ call.count \in Nat
        /\ moved <= call.count /\ (pc # "drq" => moved = call.count)
    <3>1. call.lba \in Nat /\ call.count \in Nat
      BY <2>3, CallFacts, SizeAssumption DEF Lba
    <3>2. moved \in Nat /\ moved >= 1
      BY <2>4, SizeAssumption DEF InHand, Before, BasicInv, TypeOK
    <3>3. (pc = "drq" => moved < call.count) /\ (pc # "drq" => moved = call.count)
      BY <2>3 DEF Before, BasicInv, CallInv
    <3> QED BY <3>1, <3>2, <3>3
  <2>6. /\ job.at = call.lba + moved - 1 /\ job.left = call.count - moved + 1
        /\ job.hand = call.data[moved] /\ Written(moved - 1)
    BY <2>4 DEF InHand, Job
  <2>7. StaysInside
    <3>1. job.at \in call.lba .. call.lba + call.count - 1
      BY <2>5, <2>6
    <3> QED BY <1>3, <2>3, <3>1 DEF StaysInside
  <2>8. ASSUME NEW k \in 1 .. moved PROVE stored'[call.lba + k - 1] = call.data[k]
    <3>1. call.lba + k - 1 \in Lba
      <4>1. call.lba + call.count <= MaxLba + 1 /\ MaxLba \in Nat
        BY <2>3, CallFacts, SizeAssumption
      <4>2. k \in Nat /\ k >= 1 /\ k <= call.count
        BY <2>5
      <4> QED BY <2>5, <4>1, <4>2 DEF Lba
    <3>2. CASE k = moved
      BY <1>3, <2>6, <3>1, <3>2
    <3>3. CASE k # moved
      <4>1. k \in 1 .. moved - 1 /\ call.lba + k - 1 # call.lba + moved - 1
        BY <2>5, <3>3
      <4> QED BY <1>3, <2>6, <3>1, <4>1 DEF Written
    <3> QED BY <3>2, <3>3
  <2>9. Done' \/ Wants'
    <3>1. CASE moved = call.count
      <4>1. job' = NoJob
        BY <1>3, <2>5, <2>6, <3>1
      <4> QED BY <1>1, <2>8, <4>1 DEF Done, WrittenOrFailed
    <3>2. CASE moved # call.count
      <4>1. /\ job.left # 1 /\ job.at + 1 = call.lba + moved /\ job.left - 1 = call.count - moved
            /\ pc = "drq"
        BY <2>5, <2>6, <3>2
      <4>2. job' = Job("WRITE", call.lba + moved, call.count - moved)
        BY <1>3, <4>1
      <4> QED BY <1>1, <2>8, <4>1, <4>2 DEF Wants, Written
    <3> QED BY <3>1, <3>2
  <2>10. ServesInv'
    BY <1>1, <2>3, <2>9 DEF ServesInv, RestServes, AnswerServes, ReadServes, WriteServes
  <2> QED BY <1>1, <2>3, <2>7, <2>10 DEF After, OkInv, Returned
<1>4. CASE UNCHANGED <<job, stored>>
  <2>1. ServesInv'
    BY <1>1, <1>4 DEF Before, ServesInv, RestServes, AnswerServes, ReadServes, WriteServes,
       Done, Wants, InHand, Flushing, Written, WrittenOrFailed
  <2>2. OkInv'
    BY <1>1, <1>4 DEF Before, OkInv, Returned, WrittenOrFailed
  <2> QED BY <1>4, <2>1, <2>2 DEF After, StaysInside
<1> QED BY <1>1, <1>2, <1>3, <1>4

\* The drive gives up a command: a sector in hand is lost.
LEMMA DriveFailsServes ==
  ASSUME Before, DriveFails
  PROVE  After
<1>1. /\ UNCHANGED <<setting, call, pc, moved, buf, result, stored>>
      /\ "error" \in setting.faults /\ job' = NoJob
  BY DriveFailsFacts DEF Before, BasicInv, driver
<1>2. WriteServes'
  <2>1. moved \in Nat
    BY SizeAssumption DEF Before, BasicInv, TypeOK
  <2>2. InHand => WrittenOrFailed(moved)
    <3> SUFFICES ASSUME InHand, NEW k \in 1 .. moved, k # moved
                 PROVE  stored[call.lba + k - 1] = call.data[k]
      BY <1>1 DEF WrittenOrFailed
    <3>1. k \in 1 .. moved - 1
      BY <2>1
    <3> QED BY <3>1 DEF InHand, Written
  <2>3. Done \/ Wants \/ InHand \/ Flushing => WrittenOrFailed(moved)
    BY <2>2 DEF Done, Wants, Flushing, Written, WrittenOrFailed
  <2> QED BY <1>1, <2>3 DEF Before, ServesInv, WriteServes, Done, WrittenOrFailed
<1>3. ReadServes'
  BY <1>1 DEF Before, ServesInv, ReadServes
<1>4. RestServes' /\ AnswerServes'
  BY <1>1 DEF RestServes, AnswerServes
<1>5. OkInv'
  BY <1>1 DEF Before, OkInv, Returned, WrittenOrFailed
<1> QED BY <1>1, <1>2, <1>3, <1>4, <1>5 DEF After, ServesInv, StaysInside

\* Nothing happens.
LEMMA StutterServes ==
  ASSUME Before, UNCHANGED vars
  PROVE  After
<1>1. UNCHANGED <<setting, call, pc, moved, buf, result, job, stored>>
  BY DEF vars, driver, drive
<1>2. ServesInv'
  BY <1>1 DEF Before, ServesInv, RestServes, AnswerServes, ReadServes, WriteServes,
     Done, Wants, InHand, Flushing, Written, WrittenOrFailed
<1>3. OkInv'
  BY <1>1 DEF Before, OkInv, Returned, WrittenOrFailed
<1> QED BY <1>1, <1>2, <1>3 DEF After, StaysInside

\* One step of anyone.
LEMMA StepServes ==
  ASSUME Before, [Next]_vars
  PROVE  After
<1>1. ASSUME NEW c \in Calls \cup {Detection}, Begin(c) PROVE After
  BY <1>1, BeginServes
<1> QED
  BY <1>1, ReadyServes, WaitBsyServes, MoveSectorServes, FlushServes, FlushedServes,
     DetectServes, DriveWorksServes, DriveFailsServes, StutterServes DEF Next, Driver, Drive

\* The drive of a behaviour stays the same.
LEMMA TrustStays ==
  ASSUME [Next]_vars
  PROVE  Trusted' = Trusted
<1>1. setting' = setting
  BY DEF Next, Begin, Driver, Ready, WaitBsy, MoveSector, Flush, Flushed, Identify, Answer,
     Drive, DriveWorks, DriveFails, vars
<1> QED BY <1>1 DEF Trusted

\* At power-on.
LEMMA AtaHoldsFirst == Init => AtaInv
<1>1. ASSUME Init PROVE ServesInv /\ OkInv
  BY <1>1 DEF Init, ServesInv, RestServes, AnswerServes, ReadServes, WriteServes, OkInv,
     Returned, Detection
<1> QED BY <1>1, BasicHoldsFirst DEF AtaInv, BasicInv

\* A step of a trusted drive changes only sectors of the call in progress.
LEMMA AtaAlways == AtaInv /\ [Next]_vars => AtaInv' /\ (Trusted => StaysInside)
<1> SUFFICES ASSUME AtaInv, [Next]_vars PROVE AtaInv' /\ (Trusted => StaysInside)
  OBVIOUS
<1>1. BasicInv /\ BasicInv'
  BY BasicAlways DEF AtaInv, BasicInv
<1>2. CASE Trusted
  BY <1>1, <1>2, StepServes, TrustStays DEF Before, After, AtaInv, BasicInv
<1>3. CASE ~Trusted
  BY <1>1, <1>3, TrustStays DEF AtaInv, BasicInv
<1> QED BY <1>2, <1>3

\* The invariant of the driver and its drive.
LEMMA AtaForever == Spec => []AtaInv
BY AtaHoldsFirst, AtaAlways, PTL DEF Spec

\* A read that returns ATA_OK has the sectors it was asked for, for any drive
\* that is waited for long enough, or that takes a command at any time.
THEOREM ReadsAreExact == Spec => []OkReadIsExact
<1>1. AtaInv => OkReadIsExact
  <2> SUFFICES ASSUME AtaInv, Trusted, Returned("READ")
               PROVE  buf = [k \in 1 .. call.count |-> stored[call.lba + k - 1]]
    BY DEF OkReadIsExact
  <2>1. /\ call \in Calls /\ Len(buf) = call.count
        /\ \A k \in 1 .. call.count : buf[k] = stored[call.lba + k - 1]
    BY DEF AtaInv, OkInv
  <2>2. buf \in Seq(Data \cup {NoData})
    BY BufferFacts DEF AtaInv
  <2>3. buf = [k \in 1 .. call.count |-> buf[k]]
    BY <2>1, <2>2, LenProperties
  <2> QED BY <2>1, <2>3
<1> QED BY <1>1, AtaForever, PTL

\* A write that returns ATA_OK has stored its sectors, the last one unless a
\* command may fail.
THEOREM WritesAreStored == Spec => []OkWriteIsStored
<1>1. AtaInv => OkWriteIsStored
  BY CallFacts DEF AtaInv, OkInv, OkWriteIsStored, WrittenOrFailed
<1> QED BY <1>1, AtaForever, PTL

\* No call changes a sector outside its own range, whatever an earlier one has
\* left behind.
THEOREM NoStrayWrites == Spec => WritesStayInside
<1>1. AtaInv /\ [Next]_vars
      => [Trusted => \A l \in Lba :
            stored'[l] # stored[l]
            => call.op = "WRITE" /\ l \in call.lba .. call.lba + call.count - 1]_stored
  BY AtaAlways DEF StaysInside
<1> QED BY <1>1, AtaForever, PTL DEF Spec, WritesStayInside
=============================================================================
