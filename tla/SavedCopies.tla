---------------------------- MODULE SavedCopies ----------------------------
(***************************************************************************)
(* What persistence promises on a drive that reports its failures: of each *)
(* category one image in memory and one copy of it, which the next load    *)
(* finds, or none.  No sectors, headers, checksums or caches.  While a     *)
(* save is under way, what the copy will be after a power failure is open, *)
(* so a category has the set of copies it may turn out to have; a copy is  *)
(* the set of at most one image.  Only a save of a category brings its     *)
(* copy into doubt, only tried images are ever found, and a save that is   *)
(* acknowledged leaves exactly the image in memory.                        *)
(***************************************************************************)

CONSTANTS Category, Image, Blank, DefaultFs

VARIABLES
  mem,      \* the image of each category in memory
  copies,   \* the copies each may turn out to have
  tried,    \* the images saves have tried since the last acknowledged one
  running   \* is a command, or the boot, running?

vars == <<mem, copies, tried, running>>

Nothing == {}
OneOf(images) == {Nothing} \cup {{v} : v \in images}

Init ==
  /\ mem = Blank
  /\ copies = [c \in Category |-> {Nothing}]
  /\ tried = [c \in Category |-> {}]
  /\ running = TRUE

\* The copies of c lose alternatives, but not all.
Settles(c) == copies'[c] # {} /\ copies'[c] \subseteq copies[c]

PerCategory == copies' = [c \in Category |-> copies'[c]]

\* The user's commands change memory and may then save, load or save nothing.
Start ==
  /\ ~running
  /\ running' \in BOOLEAN
  /\ \/ mem' = mem
     \/ \E c \in Category : \E v \in Image[c] : mem' = [mem EXCEPT ![c] = v]
  /\ UNCHANGED <<copies, tried>>

\* A load gives the copy, if there is one.
Load(c) ==
  /\ running
  /\ running' \in BOOLEAN
  /\ \E copy \in copies[c] : \E v \in copy : mem' = [mem EXCEPT ![c] = v]
  /\ UNCHANGED <<copies, tried>>

\* A boot that finds no filesystem makes one; a failed load leaves memory as it
\* is.
MakeDefault ==
  /\ running
  /\ running' \in BOOLEAN
  /\ mem' \in {mem, [mem EXCEPT !["fs"] = DefaultFs]}
  /\ UNCHANGED <<copies, tried>>

\* A save at work: what c will have is one of the images tried, or nothing.
Try(c) ==
  /\ running
  /\ running' \in BOOLEAN
  /\ mem' = mem
  /\ tried' = [tried EXCEPT ![c] = @ \cup {mem[c]}]
  /\ PerCategory
  /\ copies'[c] # {} /\ copies'[c] \subseteq OneOf(tried'[c])
  /\ \A o \in Category \ {c} : Settles(o)

\* A save ends well, and the copy is what is in memory.
Acknowledge(c) ==
  /\ running
  /\ running' \in BOOLEAN
  /\ mem' = mem
  /\ tried' = [tried EXCEPT ![c] = {mem[c]}]
  /\ PerCategory
  /\ copies'[c] = {{mem[c]}}
  /\ \A o \in Category \ {c} : Settles(o)

\* The save list is written, or a save fails before it changes anything.
Settle ==
  /\ running
  /\ running' \in BOOLEAN
  /\ UNCHANGED <<mem, tried>>
  /\ PerCategory
  /\ \A c \in Category : Settles(c)

\* The power fails, or the user restarts the machine.
Restart ==
  /\ mem' = Blank
  /\ running' = TRUE
  /\ tried' = tried
  /\ \/ ~running /\ copies' = copies
     \/ /\ PerCategory
        /\ \A c \in Category : \E copy \in copies[c] : copies'[c] = {copy}

Next ==
  \/ Start \/ MakeDefault \/ Settle
  \/ \E c \in Category : Try(c) \/ Acknowledge(c) \/ Load(c)
  \/ Restart

Spec == Init /\ [][Next]_vars
=============================================================================
