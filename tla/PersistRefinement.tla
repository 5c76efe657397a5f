------------------------- MODULE PersistRefinement -------------------------
(***************************************************************************)
(* The sectors, headers and checksums of persist.c implement the copies of *)
(* SavedCopies: the copies a category may turn out to have are those a     *)
(* load would find on one of the disks a power failure may leave.          *)
(***************************************************************************)
EXTENDS Persist

\* The copy of c that a load from disk d finds.
Found(d, c) == {v \in {d.data[c]} : Accepts(d, c)}

FoundOf(on, safe) ==
  LET left == PowerLoss(on, safe)
  IN  [c \in Category |-> {Found(d, c) : d \in left}]

Copies == INSTANCE SavedCopies WITH
  mem <- mem,
  copies <- FoundOf(disk, durable),
  tried <- recent,
  running <- todo # <<>>

\* On a steady drive every step of boot, save, load and power failure does to
\* the images what SavedCopies allows: a copy is in doubt only while its own
\* category is being saved or after a save that failed, a save of the other
\* category never costs it or makes it, a load takes the copy and nothing else,
\* and ATA_OK means that the copy is the image in memory.  (Copies!Spec, for
\* those behaviours whose faults leave the drive steady.)
KeepsCopies ==
  /\ DriveIsSteady => Copies!Init
  /\ [][DriveIsSteady => [Copies!Next]_(Copies!vars)]_vars
=============================================================================
