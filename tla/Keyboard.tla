------------------------------ MODULE Keyboard ------------------------------
(***************************************************************************)
(* drivers/keyboard.c: the interrupt handler that turns scancodes into     *)
(* characters of a ring buffer, and keyboard_getchar(), which the shell    *)
(* sleeps in.  The handler runs with interrupts disabled and is one step;  *)
(* getchar is one step per access to head, tail and buf, so that an        *)
(* interrupt may come between any two of them.                             *)
(*                                                                         *)
(* The keyboard itself is the environment: keys go down and up, and their  *)
(* bytes wait on the wire until the handler has taken them.                *)
(***************************************************************************)
EXTENDS Integers, Sequences

CONSTANTS
  BUF,      \* slots of the ring, 256 in the code
  Keys,     \* the keys somebody types with, a subset of AnyKey
  NumLock,  \* does the keyboard bracket grey keys with a shift of its own?
  WireMax,  \* bytes that may wait on the wire
  none      \* no character

AnyKey == {"lshift", "rshift", "caps", "a", "up"}

ASSUME BufAssumption == BUF \in Nat /\ BUF >= 2
ASSUME KeysAssumption == Keys \subseteq AnyKey
ASSUME NumLockAssumption == NumLock \in BOOLEAN
ASSUME WireAssumption == WireMax \in Nat

\* A letter in either case, and an arrow.
Char == {"a", "A", "up"}
ASSUME NoneAssumption == none \notin Char

VARIABLES
  held,              \* keys that are down
  wire,              \* bytes sent and not yet read, see Byte
  buf, head, tail,   \* the ring
  shift, caps, ext,  \* the state of the handler
  pc,                \* where keyboard_getchar() stands
  c                  \* its local, until it returns

ring_vars == <<buf, head, tail>>
mode_vars == <<shift, caps, ext>>
vars == <<held, wire, ring_vars, mode_vars, pc, c>>

Slot == 0 .. BUF - 1

\* A byte on the wire: the scancode, and whether it is the one that should
\* make the key's character appear (which the handler cannot see).
Scancode == {"E0", "2A", "AA", "36", "B6", "3A", "BA", "1E", "9E", "48", "C8"}
Byte == [sc : Scancode, types : {"a", "up", "nothing"}]
Plain(sc) == [sc |-> sc, types |-> "nothing"]
Types(sc, key) == [sc |-> sc, types |-> key]

MakeBytes(key) ==
  CASE key = "lshift" -> <<Plain("2A")>>
    [] key = "rshift" -> <<Plain("36")>>
    [] key = "caps" -> <<Plain("3A")>>
    [] key = "a" -> <<Types("1E", "a")>>
    [] key = "up" -> (IF NumLock THEN <<Plain("E0"), Plain("2A")>> ELSE <<>>)
                     \o <<Plain("E0"), Types("48", "up")>>

BreakBytes(key) ==
  CASE key = "lshift" -> <<Plain("AA")>>
    [] key = "rshift" -> <<Plain("B6")>>
    [] key = "caps" -> <<Plain("BA")>>
    [] key = "a" -> <<Plain("9E")>>
    [] key = "up" -> <<Plain("E0"), Plain("C8")>>
                     \o (IF NumLock THEN <<Plain("E0"), Plain("AA")>> ELSE <<>>)

PC == {"test", "hlt", "asleep", "read", "advance", "returned"}

TypeOK ==
  /\ held \in SUBSET Keys
  /\ wire \in Seq(Byte)
  /\ buf \in [Slot -> Char \cup {none}] /\ head \in Slot /\ tail \in Slot
  /\ shift \in BOOLEAN /\ caps \in BOOLEAN /\ ext \in BOOLEAN
  /\ pc \in PC
  /\ c \in Char \cup {none}

Init ==
  /\ held = {} /\ wire = <<>>
  /\ buf = [i \in Slot |-> none] /\ head = 0 /\ tail = 0
  /\ shift = FALSE /\ caps = FALSE /\ ext = FALSE
  /\ pc = "test" /\ c = none

-----------------------------------------------------------------------------
(* The keyboard. *)

Send(bytes) == Len(wire) + Len(bytes) <= WireMax /\ wire' = wire \o bytes

\* A key goes down, or repeats while it is down.
Press(key) ==
  /\ Send(MakeBytes(key))
  /\ held' = held \cup {key}
  /\ UNCHANGED <<ring_vars, mode_vars, pc, c>>

Release(key) ==
  /\ key \in held
  /\ Send(BreakBytes(key))
  /\ held' = held \ {key}
  /\ UNCHANGED <<ring_vars, mode_vars, pc, c>>

-----------------------------------------------------------------------------
(* Interrupts. *)

\* Mutant: getchar tests with an if, not a while.
WakeReads == pc' = IF pc = "asleep" THEN "read" ELSE pc

\* Any interrupt ends a hlt that has begun.
Wake == pc' = IF pc = "asleep" THEN "test" ELSE pc

\* Mutant: the timer interrupt is masked.
TickMasked == UNCHANGED vars

\* The timer, a hundred times a second.
Tick == Wake /\ UNCHANGED <<held, wire, ring_vars, mode_vars, c>>

\* (i + 1) % BUF.
After(i) == IF i + 1 = BUF THEN 0 ELSE i + 1

\* The newest character is dropped when the ring is full.
Store(char) ==
  IF After(head) # tail
  THEN buf' = [buf EXCEPT ![head] = char] /\ head' = After(head) /\ tail' = tail
  ELSE UNCHANGED ring_vars

\* The tables norm[] and shft[], and the arrows behind E0.
Decode(sc) ==
  CASE ext /\ sc = "48" -> "up"
    [] ~ext /\ sc = "1E" -> IF shift # caps THEN "A" ELSE "a"
    [] OTHER -> none

ModeByte == {"E0", "2A", "36", "AA", "B6", "3A"}
BreakByte == {"BA", "9E", "C8"}

\* Mutant: a shift leaves the prefix pending.
SetModeKeepsExt(sc) ==
  /\ sc \in ModeByte
  /\ ext' = (ext \/ sc = "E0")
  /\ shift' = IF sc \in {"2A", "36"} THEN TRUE
              ELSE IF sc \in {"AA", "B6"} THEN FALSE ELSE shift
  /\ caps' = IF sc = "3A" THEN ~caps ELSE caps
  /\ UNCHANGED ring_vars

\* A byte that only changes the state of the handler.
SetMode(sc) ==
  /\ sc \in ModeByte
  /\ ext' = (sc = "E0")
  /\ shift' = IF sc \in {"2A", "36"} THEN TRUE
              ELSE IF sc \in {"AA", "B6"} THEN FALSE ELSE shift
  /\ caps' = IF sc = "3A" THEN ~caps ELSE caps
  /\ UNCHANGED ring_vars

KeyUp(sc) ==
  /\ sc \in BreakByte
  /\ ext' = FALSE
  /\ UNCHANGED <<shift, caps, ring_vars>>

KeyDown(sc) ==
  /\ sc \notin ModeByte \cup BreakByte
  /\ ext' = FALSE
  /\ UNCHANGED <<shift, caps>>
  /\ IF Decode(sc) = none THEN UNCHANGED ring_vars ELSE Store(Decode(sc))

kbd_handler ==
  /\ wire # <<>>
  /\ wire' = Tail(wire)
  /\ LET sc == Head(wire).sc IN SetMode(sc) \/ KeyUp(sc) \/ KeyDown(sc)
  /\ Wake
  /\ UNCHANGED <<held, c>>

-----------------------------------------------------------------------------
(* keyboard_getchar(). *)

Goto(from, to) == pc = from /\ pc' = to

\* while (head == tail): an interrupt between this test and the hlt does not
\* end the hlt.
Test ==
  /\ IF head = tail THEN Goto("test", "hlt") ELSE Goto("test", "read")
  /\ UNCHANGED <<held, wire, ring_vars, mode_vars, c>>

Hlt == Goto("hlt", "asleep") /\ UNCHANGED <<held, wire, ring_vars, mode_vars, c>>

Read ==
  /\ Goto("read", "advance")
  /\ c' = buf[tail]
  /\ UNCHANGED <<held, wire, ring_vars, mode_vars>>

\* Mutant: a read empties the ring.
AdvanceFlushes ==
  /\ Goto("advance", "returned")
  /\ tail' = head
  /\ UNCHANGED <<held, wire, buf, head, mode_vars, c>>

Advance ==
  /\ Goto("advance", "returned")
  /\ tail' = After(tail)
  /\ UNCHANGED <<held, wire, buf, head, mode_vars, c>>

\* The shell handles the character and calls again.
CallAgain ==
  /\ Goto("returned", "test")
  /\ c' = none
  /\ UNCHANGED <<held, wire, ring_vars, mode_vars>>

Shell == Test \/ Hlt \/ Read \/ Advance \/ CallAgain

Next ==
  \/ \E key \in Keys : Press(key) \/ Release(key)
  \/ kbd_handler
  \/ Tick
  \/ Shell

\* The shell runs whenever it is not asleep, the timer never stops, and the
\* interrupt of a waiting byte is taken.
Fairness == WF_vars(Shell) /\ WF_vars(Tick) /\ WF_vars(kbd_handler)

Spec == Init /\ [][Next]_vars
FairSpec == Spec /\ Fairness

-----------------------------------------------------------------------------
(* Properties. *)

\* Between its test and its return getchar holds on to the oldest character:
\* the handler, which runs in between, neither empties the ring nor writes to
\* the slot at tail, however often the ring wraps.
OldestIsSafe ==
  /\ pc \in {"read", "advance"} => head # tail
  /\ pc = "advance" => c = buf[tail]

Count == IF head >= tail THEN head - tail ELSE head - tail + BUF

\* The ring as a queue.
Queued == [n \in 1 .. Count |->
             buf[IF tail + n - 1 < BUF THEN tail + n - 1 ELSE tail + n - 1 - BUF]]

\* The character the caller of getchar has been given.
Given == IF pc = "returned" THEN c ELSE none

\* The ring is a queue: characters are read once each and in the order they
\* were typed, whatever the interrupts come between.
Queue == INSTANCE KeyQueue WITH
  Capacity <- BUF - 1,
  queue <- Queued,
  last <- Given

ImplementsQueue == Queue!Spec

\* A byte that should type a character types that character, unless the ring
\* is full, and no other byte types any: a prefix, shift or release that is
\* still in the handler's state never swallows or invents a key.
TypesWhatWasTyped ==
  [][Len(wire') < Len(wire) =>
       LET key == Head(wire).types IN
       \/ key = "nothing" /\ UNCHANGED ring_vars
       \/ key # "nothing" /\ After(head) = tail
       \/ /\ key # "nothing"
          /\ head' = After(head)
          /\ buf'[head] \in (IF key = "a" THEN {"a", "A"} ELSE {key})]_wire

\* A typed character does not stay in the ring for ever, even when the key
\* came between getchar's test and its hlt: the timer ends the sleep.
EveryKeyIsRead ==
  \A i \in Slot : (tail = i /\ head # i) ~> (tail # i)
=============================================================================
