--------------------------- MODULE Keyboard_proofs ---------------------------
(***************************************************************************)
(* The ring of keyboard.c for any size and any keys: its indices stay in   *)
(* the buffer, the character getchar is about to return is the oldest one, *)
(* whatever interrupts come between its steps, so that the ring is a       *)
(* bounded queue; and each byte types the character it should, or none.    *)
(***************************************************************************)
EXTENDS Keyboard, SequenceTheorems, TLAPS

\* The index after a slot is a slot.
LEMMA AfterInSlot ==
  ASSUME NEW i \in Slot
  PROVE  After(i) \in Slot /\ After(i) # i
BY BufAssumption DEF Slot, After

\* What the table holds is a byte.
LEMMA BytesAreBytes ==
  ASSUME NEW key \in AnyKey
  PROVE  MakeBytes(key) \in Seq(Byte) /\ BreakBytes(key) \in Seq(Byte)
<1>1. \A sc \in Scancode : Plain(sc) \in Byte
  BY DEF Plain, Byte
<1>2. Types("1E", "a") \in Byte /\ Types("48", "up") \in Byte
  BY DEF Types, Byte, Scancode
<1>3. /\ Plain("E0") \in Byte /\ Plain("2A") \in Byte /\ Plain("AA") \in Byte
      /\ Plain("36") \in Byte /\ Plain("B6") \in Byte /\ Plain("3A") \in Byte
      /\ Plain("BA") \in Byte /\ Plain("9E") \in Byte /\ Plain("C8") \in Byte
  BY <1>1 DEF Scancode
<1>4. \A b \in Byte : <<b>> \in Seq(Byte)
  OBVIOUS
<1>5. \A a, b \in Byte : <<a, b>> \in Seq(Byte)
  OBVIOUS
<1>6. <<>> \in Seq(Byte)
  OBVIOUS
<1>7. \A s, t \in Seq(Byte) : s \o t \in Seq(Byte)
  OBVIOUS
<1>8. CASE key = "up"
  BY <1>2, <1>3, <1>5, <1>6, <1>7, <1>8 DEF MakeBytes, BreakBytes
<1> QED
  BY <1>2, <1>3, <1>4, <1>8 DEF MakeBytes, BreakBytes, AnyKey

\* The keyboard only adds bytes to the wire.
LEMMA SendType ==
  ASSUME wire \in Seq(Byte), NEW bytes \in Seq(Byte), Send(bytes)
  PROVE  wire' \in Seq(Byte)
BY DEF Send

\* The handler leaves tail alone, and writes no slot but the one at head.
LEMMA HandlerEffect ==
  ASSUME TypeOK, kbd_handler
  PROVE  /\ buf' \in [Slot -> Char \cup {none}] /\ head' \in Slot
         /\ tail' = tail
         /\ head # tail => head' # tail /\ buf'[tail] = buf[tail]
         /\ shift' \in BOOLEAN /\ caps' \in BOOLEAN /\ ext' \in BOOLEAN
<1> DEFINE sc == Head(wire).sc
<1>1. CASE SetMode(sc) \/ KeyUp(sc)
  BY <1>1 DEF SetMode, KeyUp, ring_vars, TypeOK
<1>2. CASE KeyDown(sc)
  <2>1. shift' \in BOOLEAN /\ caps' \in BOOLEAN /\ ext' \in BOOLEAN
    BY <1>2 DEF KeyDown, TypeOK
  <2>2. CASE UNCHANGED ring_vars
    BY <2>1, <2>2 DEF ring_vars, TypeOK
  <2>3. CASE Decode(sc) # none /\ Store(Decode(sc))
    <3>1. Decode(sc) \in Char
      BY <2>3 DEF Decode, Char
    <3>2. CASE After(head) # tail
      BY <2>1, <2>3, <3>1, <3>2, AfterInSlot DEF Store, TypeOK
    <3>3. CASE After(head) = tail
      BY <2>1, <2>3, <3>3 DEF Store, ring_vars, TypeOK
    <3> QED
      BY <3>2, <3>3
  <2> QED
    BY <1>2, <2>2, <2>3 DEF KeyDown
<1> QED
  BY <1>1, <1>2 DEF kbd_handler

\* Waking up.
LEMMA WakeType == ASSUME pc \in PC, Wake PROVE pc' \in PC
BY DEF Wake, PC

\* Waking never enters the part of getchar that relies on a character.
LEMMA WakeKeeps ==
  ASSUME Wake, pc' \in {"read", "advance"} PROVE pc' = pc
BY DEF Wake

RingInv == TypeOK /\ OldestIsSafe

\* At power-on.
LEMMA InitRingInv == Init => RingInv
<1> SUFFICES ASSUME Init PROVE RingInv
  OBVIOUS
<1>1. 0 \in Slot
  BY BufAssumption DEF Slot
<1>2. wire \in Seq(Byte)
  BY DEF Init
<1>3. buf \in [Slot -> Char \cup {none}]
  BY DEF Init
<1>4. pc \in PC /\ c \in Char \cup {none} /\ held \in SUBSET Keys
  BY DEF Init, PC
<1>5. TypeOK
  BY <1>1, <1>2, <1>3, <1>4 DEF Init, TypeOK
<1> QED
  BY <1>5 DEF Init, RingInv, OldestIsSafe

\* One step.
LEMMA StepKeepsRingInv == RingInv /\ [Next]_vars => RingInv'
<1> SUFFICES ASSUME RingInv, [Next]_vars PROVE RingInv'
  OBVIOUS
<1>1. TypeOK /\ OldestIsSafe
  BY DEF RingInv
<1>2. ASSUME NEW key \in Keys, Press(key) \/ Release(key) PROVE RingInv'
  <2>1. wire' \in Seq(Byte)
    BY <1>1, <1>2, KeysAssumption, BytesAreBytes, SendType
       DEF Press, Release, TypeOK
  <2>2. held' \in SUBSET Keys
    BY <1>1, <1>2 DEF Press, Release, TypeOK
  <2>3. UNCHANGED <<ring_vars, mode_vars, pc, c>>
    BY <1>2 DEF Press, Release
  <2> QED
    BY <1>1, <2>1, <2>2, <2>3
       DEF RingInv, TypeOK, OldestIsSafe, ring_vars, mode_vars
<1>3. CASE kbd_handler
  <2>1. wire' \in Seq(Byte)
    BY <1>1, <1>3, HeadTailProperties DEF kbd_handler, TypeOK
  <2>2. pc' \in PC /\ held' = held /\ c' = c /\ Wake
    BY <1>1, <1>3, WakeType DEF kbd_handler, TypeOK
  <2>3. TypeOK'
    BY <1>1, <1>3, <2>1, <2>2, HandlerEffect DEF TypeOK
  <2>4. OldestIsSafe'
    BY <1>1, <1>3, <2>2, HandlerEffect, WakeKeeps DEF OldestIsSafe
  <2> QED
    BY <2>3, <2>4 DEF RingInv
<1>4. CASE Tick
  <2>1. pc' \in PC /\ (pc' \in {"read", "advance"} => pc' = pc)
    BY <1>1, <1>4, WakeType, WakeKeeps DEF Tick, TypeOK
  <2> QED
    BY <1>1, <1>4, <2>1
       DEF Tick, RingInv, TypeOK, OldestIsSafe, ring_vars, mode_vars
<1>5. CASE Shell
  <2>1. CASE Test \/ Hlt
    BY <1>1, <2>1
       DEF Test, Hlt, Goto, RingInv, TypeOK, OldestIsSafe, PC, ring_vars, mode_vars
  <2>2. CASE Read
    BY <1>1, <2>2
       DEF Read, Goto, RingInv, TypeOK, OldestIsSafe, PC, ring_vars, mode_vars
  <2>3. CASE Advance
    <3>1. tail' \in Slot /\ pc' = "returned"
      BY <1>1, <2>3, AfterInSlot DEF Advance, Goto, TypeOK
    <3> QED
      BY <1>1, <2>3, <3>1
         DEF Advance, RingInv, TypeOK, OldestIsSafe, PC, mode_vars
  <2>4. CASE CallAgain
    BY <1>1, <2>4
       DEF CallAgain, Goto, RingInv, TypeOK, OldestIsSafe, PC, ring_vars, mode_vars
  <2> QED
    BY <1>5, <2>1, <2>2, <2>3, <2>4 DEF Shell
<1>6. CASE UNCHANGED vars
  BY <1>1, <1>6 DEF vars, RingInv, TypeOK, OldestIsSafe, ring_vars, mode_vars
<1> QED
  BY <1>2, <1>3, <1>4, <1>5, <1>6 DEF Next

-----------------------------------------------------------------------------

\* The ring's invariant is inductive for a ring of any size.
THEOREM RingInvHolds == Spec => []RingInv
BY InitRingInv, StepKeepsRingInv, PTL DEF Spec

\* head and tail index the buffer, whose slots hold characters.
THEOREM KeyboardTypes == Spec => []TypeOK
BY RingInvHolds, PTL DEF RingInv

\* Between its test and its return, keyboard_getchar() holds on to the oldest
\* character, whatever the handler does meanwhile.
THEOREM OldestStaysSafe == Spec => []OldestIsSafe
BY RingInvHolds, PTL DEF RingInv

-----------------------------------------------------------------------------
(* The ring as a queue. *)

Elem == Char \cup {none}

\* The slot of the n-th oldest character.
SlotOf(n) == IF tail + n - 1 < BUF THEN tail + n - 1 ELSE tail + n - 1 - BUF

QueuedIsRing ==
  /\ Count \in 0 .. BUF - 1
  /\ Count = 0 <=> head = tail
  /\ Queued \in Seq(Elem) /\ Len(Queued) = Count
  /\ \A n \in 1 .. Count : Queued[n] = buf[SlotOf(n)] /\ SlotOf(n) \in Slot

\* The queue is what the ring holds between its indices.
LEMMA QueuedFacts == TypeOK => QueuedIsRing
<1> SUFFICES ASSUME TypeOK PROVE QueuedIsRing
  OBVIOUS
<1>1. head \in 0 .. BUF - 1 /\ tail \in 0 .. BUF - 1 /\ BUF \in Nat /\ BUF >= 2
  BY BufAssumption DEF TypeOK, Slot
<1>2. Count \in 0 .. BUF - 1 /\ (Count = 0 <=> head = tail)
  BY <1>1 DEF Count
<1>3. \A n \in 1 .. Count : SlotOf(n) \in Slot
  BY <1>1, <1>2 DEF SlotOf, Slot
<1>4. Queued = [n \in 1 .. Count |-> buf[SlotOf(n)]]
  BY DEF Queued, SlotOf
<1>5. \A n \in 1 .. Count : buf[SlotOf(n)] \in Elem
  BY <1>3 DEF TypeOK, Elem
<1>6. Queued \in [1 .. Count -> Elem]
  BY <1>4, <1>5
<1>7. Queued \in Seq(Elem)
  BY <1>2, <1>6, SeqDef
<1>8. Len(Queued) = Count
  BY <1>2, <1>4, <1>6, <1>7, LenProperties
<1> QED BY <1>2, <1>3, <1>4, <1>7, <1>8 DEF QueuedIsRing

\* The same, after a step.
LEMMA QueuedFactsNext == TypeOK' => QueuedIsRing'
BY QueuedFacts, PTL

\* Storing a character appends it.
LEMMA StoreAppends ==
  ASSUME TypeOK, TypeOK', NEW char \in Char, After(head) # tail, Store(char)
  PROVE  Len(Queued) < BUF - 1 /\ Queued' = Append(Queued, char)
<1>1. /\ head \in 0 .. BUF - 1 /\ tail \in 0 .. BUF - 1 /\ BUF \in Nat /\ BUF >= 2
      /\ buf \in [0 .. BUF - 1 -> Elem]
  BY BufAssumption DEF TypeOK, Slot, Elem
<1>2. buf' = [buf EXCEPT ![head] = char] /\ head' = After(head) /\ tail' = tail
  BY DEF Store
<1>3. Count' = Count + 1 /\ Count < BUF - 1 /\ Count \in Nat
  BY <1>1, <1>2 DEF Count, After
<1>4. SlotOf(Count + 1) = head
  BY <1>1 DEF SlotOf, Count
<1>5. \A n \in 1 .. Count : SlotOf(n) # head
  BY <1>1, <1>3 DEF SlotOf, Count
<1>6. \A n \in 1 .. Count' : SlotOf(n)' = SlotOf(n)
  BY <1>2 DEF SlotOf
<1>7. Queued \in Seq(Elem) /\ Len(Queued) = Count
      /\ \A n \in 1 .. Count : Queued[n] = buf[SlotOf(n)] /\ SlotOf(n) \in 0 .. BUF - 1
  BY QueuedFacts DEF QueuedIsRing, Slot
<1>8. Queued' \in Seq(Elem) /\ Len(Queued') = Count'
      /\ \A n \in 1 .. Count' : Queued'[n] = buf'[SlotOf(n)']
  BY QueuedFactsNext DEF QueuedIsRing
<1>9. char \in Elem
  BY DEF Elem
<1>10. /\ Append(Queued, char) \in Seq(Elem)
       /\ Len(Append(Queued, char)) = Count + 1
       /\ \A n \in 1 .. Count : Append(Queued, char)[n] = Queued[n]
       /\ Append(Queued, char)[Count + 1] = char
  BY <1>7, <1>9
<1>11. ASSUME NEW n \in 1 .. Count' PROVE Queued'[n] = Append(Queued, char)[n]
  <2>1. Queued'[n] = buf'[SlotOf(n)]
    BY <1>6, <1>8
  <2>2. CASE n = Count + 1
    BY <1>1, <1>2, <1>4, <1>10, <2>1, <2>2
  <2>3. CASE n # Count + 1
    <3>1. n \in 1 .. Count
      BY <1>3, <2>3
    <3>2. buf'[SlotOf(n)] = buf[SlotOf(n)]
      BY <1>1, <1>2, <1>5, <1>7, <3>1
    <3> QED BY <1>7, <1>10, <2>1, <3>1, <3>2
  <2> QED BY <2>2, <2>3
<1>12. Queued' = Append(Queued, char)
  BY <1>3, <1>8, <1>10, <1>11, SeqEqual
<1> QED BY <1>3, <1>7, <1>12

\* Advancing tail takes the oldest.
LEMMA AdvanceTakes ==
  ASSUME TypeOK, TypeOK', head # tail, tail' = After(tail), UNCHANGED <<buf, head>>
  PROVE  Queued # <<>> /\ Head(Queued) = buf[tail] /\ Queued' = Tail(Queued)
<1>1. /\ head \in 0 .. BUF - 1 /\ tail \in 0 .. BUF - 1 /\ BUF \in Nat /\ BUF >= 2
  BY BufAssumption DEF TypeOK, Slot
<1>2. Count' = Count - 1 /\ Count \in 1 .. BUF - 1 /\ SlotOf(1) = tail
  BY <1>1 DEF Count, After, SlotOf
<1>3. \A n \in 1 .. Count' : SlotOf(n)' = SlotOf(n + 1)
  BY <1>1, <1>2 DEF SlotOf, After
<1>4. Queued \in Seq(Elem) /\ Len(Queued) = Count
      /\ \A n \in 1 .. Count : Queued[n] = buf[SlotOf(n)]
  BY QueuedFacts DEF QueuedIsRing
<1>5. Queued' \in Seq(Elem) /\ Len(Queued') = Count'
      /\ \A n \in 1 .. Count' : Queued'[n] = buf'[SlotOf(n)']
  BY QueuedFactsNext DEF QueuedIsRing
<1>6. Queued # <<>> /\ Head(Queued) = Queued[1]
  BY <1>2, <1>4
<1>7. Tail(Queued) \in Seq(Elem) /\ Len(Tail(Queued)) = Count - 1
      /\ \A n \in 1 .. Count - 1 : Tail(Queued)[n] = Queued[n + 1]
  BY <1>4, <1>6, HeadTailProperties
<1>8. \A n \in 1 .. Count' : Queued'[n] = Tail(Queued)[n]
  <2> SUFFICES ASSUME NEW n \in 1 .. Count' PROVE Queued'[n] = Tail(Queued)[n]
    OBVIOUS
  <2>1. n \in 1 .. Count - 1 /\ n + 1 \in 1 .. Count
    BY <1>2
  <2>2. Queued'[n] = buf[SlotOf(n + 1)]
    BY <1>3, <1>5
  <2> QED BY <1>4, <1>7, <2>1, <2>2
<1>9. Queued' = Tail(Queued)
  BY <1>2, <1>5, <1>7, <1>8, SeqEqual
<1> QED BY <1>2, <1>4, <1>6, <1>9

\* The handler stores the character it decodes, or nothing.
LEMMA HandlerStores ==
  ASSUME TypeOK, kbd_handler
  PROVE  \/ UNCHANGED ring_vars
         \/ \E char \in Char : After(head) # tail /\ Store(char)
<1> DEFINE sc == Head(wire).sc
<1>1. CASE SetMode(sc) \/ KeyUp(sc)
  BY <1>1 DEF SetMode, KeyUp
<1>2. CASE KeyDown(sc)
  <2>1. Decode(sc) = none \/ Decode(sc) \in Char
    BY DEF Decode, Char
  <2> QED BY <1>2, <2>1 DEF KeyDown, Store
<1> QED BY <1>1, <1>2 DEF kbd_handler

\* The queue depends on the ring only.
LEMMA RingUnchanged ==
  ASSUME UNCHANGED ring_vars PROVE Queued' = Queued
BY DEF ring_vars, Queued, Count

\* Every step is a step of the queue, or none.
LEMMA StepImplementsQueue ==
  ASSUME RingInv, RingInv', [Next]_vars
  PROVE  [Queue!Next]_(Queue!vars)
<1>1. TypeOK /\ TypeOK' /\ OldestIsSafe
  BY DEF RingInv
<1>2. ASSUME UNCHANGED ring_vars, UNCHANGED Given PROVE UNCHANGED Queue!vars
  BY <1>2, RingUnchanged DEF Queue!vars
<1>3. Wake /\ c' = c => Given' = Given
  BY DEF Wake, Given
<1>4. CASE kbd_handler
  <2>1. Given' = Given
    BY <1>3, <1>4 DEF kbd_handler
  <2>2. CASE UNCHANGED ring_vars
    BY <1>2, <2>1, <2>2
  <2>3. ASSUME NEW char \in Char, After(head) # tail, Store(char) PROVE Queue!Next
    BY <1>1, <2>1, <2>3, StoreAppends DEF Queue!Next, Queue!Type
  <2> QED BY <1>1, <1>4, <2>2, <2>3, HandlerStores
<1>5. CASE Advance
  <2>1. head # tail /\ c = buf[tail] /\ c' = c /\ pc' = "returned"
    BY <1>1, <1>5 DEF Advance, Goto, OldestIsSafe
  <2>2. Queued # <<>> /\ Head(Queued) = buf[tail] /\ Queued' = Tail(Queued)
    BY <1>1, <1>5, <2>1, AdvanceTakes DEF Advance
  <2>3. Given' = Head(Queued)
    BY <2>1, <2>2 DEF Given
  <2> QED BY <2>2, <2>3 DEF Queue!Next, Queue!Take
<1>6. CASE CallAgain
  <2>1. Given' = none /\ Queued' = Queued
    BY <1>6, RingUnchanged DEF CallAgain, Goto, Given
  <2> QED BY <2>1 DEF Queue!Next, Queue!Release
<1>7. CASE Tick \/ UNCHANGED vars \/ \E key \in Keys : Press(key) \/ Release(key)
  BY <1>2, <1>3, <1>7 DEF Tick, Press, Release, vars, Given
<1>8. CASE Test \/ Hlt \/ Read
  BY <1>2, <1>8 DEF Test, Hlt, Read, Goto, Given
<1> QED BY <1>4, <1>5, <1>6, <1>7, <1>8 DEF Next, Shell

\* The empty ring is the empty queue.
LEMMA InitImplementsQueue == Init => Queue!Init
<1> SUFFICES ASSUME Init PROVE Queue!Init
  OBVIOUS
<1>1. Count = 0
  BY DEF Init, Count
<1>2. Queued = <<>>
  BY <1>1, QueuedFacts, InitRingInv, EmptySeq DEF RingInv, QueuedIsRing
<1> QED BY <1>2 DEF Init, Queue!Init, Given

\* keyboard_getchar() and the handler keep a queue between them: characters come
\* out once each and in the order they were typed, whatever interrupts come
\* between the accesses to head, tail and buf.
THEOREM RingIsQueue == Spec => ImplementsQueue
<1>1. Init => Queue!Init
  BY InitImplementsQueue
<1>2. RingInv /\ RingInv' /\ [Next]_vars => [Queue!Next]_(Queue!vars)
  BY StepImplementsQueue
<1> QED BY <1>1, <1>2, RingInvHolds, PTL DEF Spec, ImplementsQueue, Queue!Spec

-----------------------------------------------------------------------------
(* What the handler makes of the wire. *)

\* Byte i of s comes behind the prefix E0; first says whether byte 1 does.
Prefixed(s, i, first) == IF i = 1 THEN first ELSE s[i - 1].sc = "E0"

\* The bytes of whole keys: the handler decodes those that should type a
\* character, no other, and the last is no prefix.
Legible(s, first) ==
  /\ \A i \in 1 .. Len(s) :
       /\ s[i].sc = "1E" => ~Prefixed(s, i, first) /\ s[i].types = "a"
       /\ s[i].sc = "48" => Prefixed(s, i, first) /\ s[i].types = "up"
       /\ s[i].sc \notin {"1E", "48"} => s[i].types = "nothing"
  /\ IF s = <<>> THEN ~first ELSE s[Len(s)].sc # "E0"

\* What is on the wire is legible from the state the handler is in.
WireInv == Legible(wire, ext)

\* One byte, or one behind a prefix.
LEMMA ShortIsLegible ==
  /\ \A b \in Byte :
       \/ b.sc = "1E" /\ b.types = "a"
       \/ b.sc \notin {"E0", "1E", "48"} /\ b.types = "nothing"
       => Legible(<<b>>, FALSE)
  /\ \A a, b \in Byte :
       /\ a.sc = "E0" /\ a.types = "nothing"
       /\ \/ b.sc = "48" /\ b.types = "up"
          \/ b.sc \notin {"E0", "1E", "48"} /\ b.types = "nothing"
       => Legible(<<a, b>>, FALSE)
<1>1. ASSUME NEW b \in Byte,
             \/ b.sc = "1E" /\ b.types = "a"
             \/ b.sc \notin {"E0", "1E", "48"} /\ b.types = "nothing"
      PROVE  Legible(<<b>>, FALSE)
  <2> DEFINE s == <<b>>
  <2>1. Len(s) = 1 /\ s[1] = b /\ s # <<>>
    OBVIOUS
  <2> HIDE DEF s
  <2>2. \A i \in 1 .. Len(s) : i = 1
    BY <2>1
  <2>3. Legible(s, FALSE)
    BY <1>1, <2>1, <2>2 DEF Legible, Prefixed
  <2> QED BY <2>3 DEF s
<1>2. ASSUME NEW a \in Byte, NEW b \in Byte, a.sc = "E0", a.types = "nothing",
             \/ b.sc = "48" /\ b.types = "up"
             \/ b.sc \notin {"E0", "1E", "48"} /\ b.types = "nothing"
      PROVE  Legible(<<a, b>>, FALSE)
  <2> DEFINE s == <<a, b>>
  <2>1. Len(s) = 2 /\ s[1] = a /\ s[2] = b /\ s # <<>>
    OBVIOUS
  <2> HIDE DEF s
  <2>2. \A i \in 1 .. Len(s) : i = 1 \/ i = 2
    BY <2>1
  <2>3. Prefixed(s, 2, FALSE)
    BY <1>2, <2>1 DEF Prefixed
  <2>4. Legible(s, FALSE)
    BY <1>2, <2>1, <2>2, <2>3 DEF Legible
  <2> QED BY <2>4 DEF s
<1> QED BY <1>1, <1>2

\* Keys follow one another.
LEMMA LegibleConcat ==
  ASSUME NEW s \in Seq(Byte), NEW t \in Seq(Byte), NEW first,
         Legible(s, first), Legible(t, FALSE)
  PROVE  Legible(s \o t, first)
<1>1. /\ s \o t \in Seq(Byte) /\ Len(s \o t) = Len(s) + Len(t)
      /\ \A i \in 1 .. Len(s) + Len(t) :
           (s \o t)[i] = IF i <= Len(s) THEN s[i] ELSE t[i - Len(s)]
      /\ Len(s) \in Nat /\ Len(t) \in Nat
  BY ConcatProperties, LenProperties
<1> DEFINE u == s \o t
<1> HIDE DEF u
<1>2. \A i \in 1 .. Len(s) : u[i] = s[i] /\ Prefixed(u, i, first) = Prefixed(s, i, first)
  BY <1>1 DEF Prefixed, u
<1>3. \A i \in 1 .. Len(t) : u[Len(s) + i] = t[i]
  BY <1>1 DEF u
<1>4. s # <<>> => s[Len(s)].sc # "E0" /\ Len(s) \in 1 .. Len(s)
  BY <1>1, EmptySeq DEF Legible
<1>5. s = <<>> => Len(s) = 0 /\ ~first
  BY DEF Legible
<1>6. ASSUME NEW i \in 1 .. Len(t)
      PROVE  Prefixed(u, Len(s) + i, first) <=> Prefixed(t, i, FALSE)
  <2>1. CASE i = 1
    BY <1>1, <1>2, <1>4, <1>5, <2>1 DEF Prefixed
  <2>2. CASE i # 1
    <3>1. i - 1 \in 1 .. Len(t) /\ Len(s) + i # 1 /\ (Len(s) + i) - 1 = Len(s) + (i - 1)
      BY <1>1, <2>2
    <3>2. u[(Len(s) + i) - 1] = t[i - 1]
      BY <1>3, <3>1
    <3> QED BY <2>2, <3>1, <3>2 DEF Prefixed
  <2> QED BY <2>1, <2>2
<1>7. ASSUME NEW i \in 1 .. Len(u)
      PROVE  /\ u[i].sc = "1E" => ~Prefixed(u, i, first) /\ u[i].types = "a"
             /\ u[i].sc = "48" => Prefixed(u, i, first) /\ u[i].types = "up"
             /\ u[i].sc \notin {"1E", "48"} => u[i].types = "nothing"
  <2>1. CASE i <= Len(s)
    <3>1. i \in 1 .. Len(s)
      BY <1>1, <2>1 DEF u
    <3>2. u[i] = s[i] /\ Prefixed(u, i, first) = Prefixed(s, i, first)
      BY <1>2, <3>1
    <3>3. /\ s[i].sc = "1E" => ~Prefixed(s, i, first) /\ s[i].types = "a"
          /\ s[i].sc = "48" => Prefixed(s, i, first) /\ s[i].types = "up"
          /\ s[i].sc \notin {"1E", "48"} => s[i].types = "nothing"
      BY <3>1 DEF Legible
    <3> QED BY <3>2, <3>3
  <2>2. CASE i > Len(s)
    <3>1. i - Len(s) \in 1 .. Len(t) /\ i = Len(s) + (i - Len(s))
      BY <1>1, <2>2 DEF u
    <3> DEFINE j == i - Len(s)
    <3>2. u[i] = t[j]
      BY <1>3, <3>1
    <3>3. Prefixed(u, i, first) <=> Prefixed(t, j, FALSE)
      BY <1>6, <3>1
    <3>4. /\ t[j].sc = "1E" => ~Prefixed(t, j, FALSE) /\ t[j].types = "a"
          /\ t[j].sc = "48" => Prefixed(t, j, FALSE) /\ t[j].types = "up"
          /\ t[j].sc \notin {"1E", "48"} => t[j].types = "nothing"
      BY <3>1 DEF Legible
    <3> HIDE DEF j
    <3> QED BY <3>2, <3>3, <3>4
  <2> QED BY <1>1, <2>1, <2>2 DEF u
<1>8. CASE t = <<>>
  <2>1. u = s
    BY <1>8, ConcatEmptySeq DEF u
  <2> QED BY <2>1 DEF u
<1>9. CASE t # <<>>
  <2>1. Len(t) \in 1 .. Len(t) /\ t[Len(t)].sc # "E0"
    BY <1>1, <1>9, EmptySeq DEF Legible
  <2>2. u[Len(u)].sc # "E0" /\ u # <<>>
    BY <1>1, <1>3, <2>1 DEF u
  <2>3. Legible(u, first)
    BY <1>7, <2>2 DEF Legible
  <2> QED BY <2>3 DEF u
<1> QED BY <1>8, <1>9

\* What a key types is in the tables.
LEMMA BytesAreLegible ==
  ASSUME NEW key \in AnyKey
  PROVE  Legible(MakeBytes(key), FALSE) /\ Legible(BreakBytes(key), FALSE)
<1> DEFINE E0 == Plain("E0")
           Other == {"2A", "AA", "36", "B6", "3A", "BA", "9E", "C8"}
<1>1. \A sc \in Scancode : Plain(sc).sc = sc /\ Plain(sc).types = "nothing" /\ Plain(sc) \in Byte
  BY DEF Plain, Byte
<1>2. /\ Types("1E", "a").sc = "1E" /\ Types("1E", "a").types = "a"
      /\ Types("48", "up").sc = "48" /\ Types("48", "up").types = "up"
      /\ Types("1E", "a") \in Byte /\ Types("48", "up") \in Byte
  BY DEF Types, Byte, Scancode
<1>3. Other \subseteq Scancode \ {"E0", "1E", "48"} /\ "E0" \in Scancode
  BY DEF Scancode
<1> HIDE DEF Other
<1>4. ASSUME NEW sc \in Other
      PROVE  Legible(<<Plain(sc)>>, FALSE) /\ <<Plain(sc)>> \in Seq(Byte)
  <2>1. Plain(sc) \in Byte /\ Plain(sc).sc = sc /\ Plain(sc).types = "nothing"
    BY <1>3, <1>1
  <2>2. sc \notin {"E0", "1E", "48"}
    BY <1>3
  <2>3. Legible(<<Plain(sc)>>, FALSE)
    BY <2>1, <2>2, ShortIsLegible, Zenon
  <2>4. <<Plain(sc)>> \in Seq(Byte)
    BY <2>1
  <2> QED BY <2>3, <2>4, Zenon
<1>5. Legible(<<Types("1E", "a")>>, FALSE)
  BY <1>2, ShortIsLegible
<1>6. E0.sc = "E0" /\ E0.types = "nothing" /\ E0 \in Byte
  BY <1>3, <1>1
<1> HIDE DEF E0
<1>7. ASSUME NEW sc \in Other
      PROVE  Legible(<<E0, Plain(sc)>>, FALSE) /\ <<E0, Plain(sc)>> \in Seq(Byte)
  <2>1. Plain(sc) \in Byte /\ Plain(sc).sc = sc /\ Plain(sc).types = "nothing"
    BY <1>3, <1>1
  <2>2. sc \notin {"E0", "1E", "48"}
    BY <1>3
  <2>3. Legible(<<E0, Plain(sc)>>, FALSE)
    BY <1>6, <2>1, <2>2, ShortIsLegible, Zenon
  <2>4. <<E0, Plain(sc)>> \in Seq(Byte)
    BY <1>6, <2>1
  <2> QED BY <2>3, <2>4, Zenon
<1>8. Legible(<<E0, Types("48", "up")>>, FALSE) /\ <<E0, Types("48", "up")>> \in Seq(Byte)
  <2>1. Legible(<<E0, Types("48", "up")>>, FALSE)
    BY <1>2, <1>6, ShortIsLegible, Zenon
  <2>2. <<E0, Types("48", "up")>> \in Seq(Byte)
    BY <1>2, <1>6
  <2> QED BY <2>1, <2>2, Zenon
<1>9. Legible(<<>>, FALSE) /\ <<>> \in Seq(Byte)
  BY DEF Legible
<1>10. CASE key = "up"
  <2>1. /\ Legible(MakeBytes(key), FALSE)
    <3>1. CASE NumLock
      BY <1>7, <1>8, <1>10, <3>1, LegibleConcat DEF MakeBytes, E0, Other
    <3>2. CASE ~NumLock
      BY <1>8, <1>9, <1>10, <3>2, LegibleConcat DEF MakeBytes, E0
    <3> QED BY <3>1, <3>2
  <2>2. /\ Legible(BreakBytes(key), FALSE)
    <3>1. CASE NumLock
      BY <1>7, <1>10, <3>1, LegibleConcat DEF BreakBytes, E0, Other
    <3>2. CASE ~NumLock
      BY <1>7, <1>9, <1>10, <3>2, LegibleConcat DEF BreakBytes, E0, Other
    <3> QED BY <3>1, <3>2
  <2> QED BY <2>1, <2>2
<1>11. CASE key # "up"
  BY <1>4, <1>5, <1>11 DEF MakeBytes, BreakBytes, AnyKey, Other
<1> QED BY <1>10, <1>11

\* The handler takes a byte: what is left is legible from its new state.
LEMMA HandlerKeepsLegible ==
  ASSUME TypeOK, TypeOK', WireInv, kbd_handler
  PROVE  WireInv'
<1>1. wire # <<>> /\ wire \in Seq(Byte) /\ wire' = Tail(wire)
  BY DEF kbd_handler, TypeOK
<1>2. /\ wire' \in Seq(Byte) /\ Len(wire') = Len(wire) - 1 /\ Len(wire) \in Nat \ {0}
      /\ \A i \in 1 .. Len(wire') : wire'[i] = wire[i + 1]
      /\ Head(wire) = wire[1]
  BY <1>1, HeadTailProperties, EmptySeq
<1>3. ext' <=> wire[1].sc = "E0"
  <2> DEFINE sc == Head(wire).sc
  <2>1. CASE SetMode(sc)
    BY <1>2, <2>1 DEF SetMode
  <2>2. CASE KeyUp(sc) \/ KeyDown(sc)
    BY <1>2, <2>2 DEF KeyUp, KeyDown, ModeByte, BreakByte
  <2> QED BY <2>1, <2>2 DEF kbd_handler
<1>4. ASSUME NEW i \in 1 .. Len(wire')
      PROVE  /\ i + 1 \in 1 .. Len(wire) /\ wire'[i] = wire[i + 1]
             /\ Prefixed(wire', i, ext') <=> Prefixed(wire, i + 1, ext)
  <2>1. i + 1 \in 1 .. Len(wire) /\ wire'[i] = wire[i + 1] /\ i + 1 # 1 /\ (i + 1) - 1 = i
    BY <1>2
  <2>2. CASE i = 1
    BY <1>3, <2>1, <2>2 DEF Prefixed
  <2>3. CASE i # 1
    <3>1. i - 1 \in 1 .. Len(wire') /\ (i - 1) + 1 = i
      BY <1>2, <2>3
    <3>2. wire'[i - 1] = wire[i]
      BY <1>2, <3>1
    <3> QED BY <2>1, <2>3, <3>2 DEF Prefixed
  <2> QED BY <2>1, <2>2, <2>3
<1>5. \A i \in 1 .. Len(wire') :
        /\ wire'[i].sc = "1E" => ~Prefixed(wire', i, ext') /\ wire'[i].types = "a"
        /\ wire'[i].sc = "48" => Prefixed(wire', i, ext') /\ wire'[i].types = "up"
        /\ wire'[i].sc \notin {"1E", "48"} => wire'[i].types = "nothing"
  BY <1>4 DEF WireInv, Legible
<1>6. wire[Len(wire)].sc # "E0"
  BY <1>1 DEF WireInv, Legible
<1>7. CASE wire' = <<>>
  <2>1. Len(wire) = 1
    BY <1>2, <1>7
  <2>2. ~ext'
    BY <1>3, <1>6, <2>1
  <2> QED BY <1>5, <1>7, <2>2 DEF WireInv, Legible
<1>8. CASE wire' # <<>>
  <2>1. Len(wire') \in 1 .. Len(wire')
    BY <1>2, <1>8, EmptySeq
  <2>2. wire'[Len(wire')] = wire[Len(wire)]
    BY <1>2, <2>1
  <2> QED BY <1>5, <1>6, <1>8, <2>2 DEF WireInv, Legible
<1> QED BY <1>7, <1>8

\* One step.
LEMMA StepKeepsLegible ==
  ASSUME TypeOK, TypeOK', WireInv, [Next]_vars
  PROVE  WireInv'
<1>1. ASSUME NEW key \in Keys, Press(key) \/ Release(key) PROVE WireInv'
  <2>1. /\ key \in AnyKey /\ ext' = ext /\ wire \in Seq(Byte)
        /\ wire' = wire \o MakeBytes(key) \/ wire' = wire \o BreakBytes(key)
    BY <1>1, KeysAssumption DEF Press, Release, Send, mode_vars, TypeOK
  <2>2. Legible(wire', ext)
    BY <2>1, BytesAreBytes, BytesAreLegible, LegibleConcat DEF WireInv
  <2> QED BY <2>1, <2>2 DEF WireInv
<1>2. CASE kbd_handler
  BY <1>2, HandlerKeepsLegible
<1>3. CASE Tick \/ Shell \/ UNCHANGED vars
  <2>1. wire' = wire /\ ext' = ext
    BY <1>3 DEF Tick, Shell, Test, Hlt, Read, Advance, CallAgain, vars, mode_vars
  <2> QED BY <2>1 DEF WireInv
<1> QED BY <1>1, <1>2, <1>3 DEF Next

\* A byte that leaves the wire types what it should.
TypedRight ==
  LET key == Head(wire).types IN
  \/ key = "nothing" /\ UNCHANGED ring_vars
  \/ key # "nothing" /\ After(head) = tail
  \/ /\ key # "nothing"
     /\ head' = After(head)
     /\ buf'[head] \in (IF key = "a" THEN {"a", "A"} ELSE {key})

\* What the handler types is what the key stands for.
LEMMA HandlerTypes ==
  ASSUME TypeOK, WireInv, kbd_handler
  PROVE  TypedRight
<1> DEFINE sc == Head(wire).sc
           key == Head(wire).types
<1>1. wire # <<>> /\ wire \in Seq(Byte) /\ Head(wire) = wire[1] /\ 1 \in 1 .. Len(wire)
  BY EmptySeq DEF kbd_handler, TypeOK
<1>2. Head(wire) \in Byte
  BY <1>1, HeadTailProperties
<1>3. Prefixed(wire, 1, ext) <=> ext
  BY DEF Prefixed
<1>4. /\ sc = "1E" => ~ext /\ key = "a"
      /\ sc = "48" => ext /\ key = "up"
      /\ sc \notin {"1E", "48"} => key = "nothing"
  BY <1>1, <1>3 DEF WireInv, Legible
<1>5. SetMode(sc) \/ KeyUp(sc) \/ KeyDown(sc)
  BY DEF kbd_handler
<1> HIDE DEF sc, key
<1>6. CASE SetMode(sc) \/ KeyUp(sc)
  <2>1. sc \notin {"1E", "48"} /\ UNCHANGED ring_vars
    BY <1>6 DEF SetMode, KeyUp, ModeByte, BreakByte
  <2> QED BY <1>4, <2>1 DEF TypedRight, key
<1>7. CASE KeyDown(sc)
  <2>1. sc \in Scancode
    BY <1>2 DEF Byte, sc
  <2>2. sc \in {"1E", "48"}
    BY <1>7, <2>1 DEF KeyDown, Scancode, ModeByte, BreakByte
  <2>3. /\ key # "nothing"
        /\ Decode(sc) \in (IF key = "a" THEN {"a", "A"} ELSE {key})
        /\ Decode(sc) \in Char
    BY <1>4, <2>2 DEF Decode, Char
  <2>4. Store(Decode(sc))
    BY <1>7, <2>3, NoneAssumption DEF KeyDown
  <2>5. CASE After(head) = tail
    BY <2>3, <2>5 DEF TypedRight, key
  <2>6. CASE After(head) # tail
    <3>1. head' = After(head) /\ buf'[head] = Decode(sc)
      BY <2>4, <2>6 DEF Store, TypeOK
    <3> QED BY <2>3, <3>1 DEF TypedRight, key
  <2> QED BY <2>5, <2>6
<1> QED BY <1>5, <1>6, <1>7

\* Only the handler takes a scancode.
LEMMA OnlyHandlerTakes ==
  ASSUME TypeOK, [Next]_vars, Len(wire') < Len(wire)
  PROVE  kbd_handler
<1>1. wire' # wire /\ wire \in Seq(Byte)
  BY LenProperties DEF TypeOK
<1>2. ASSUME NEW key \in Keys, Press(key) \/ Release(key) PROVE FALSE
  <2>1. PICK bytes \in Seq(Byte) : wire' = wire \o bytes
    BY <1>2, KeysAssumption, BytesAreBytes DEF Press, Release, Send
  <2> QED BY <1>1, <2>1, ConcatProperties, LenProperties
<1>3. CASE Tick \/ Shell \/ UNCHANGED vars
  BY <1>1, <1>3 DEF Tick, Shell, Test, Hlt, Read, Advance, CallAgain, vars
<1> QED BY <1>2, <1>3 DEF Next

\* Every byte that should type a character types that one, or finds the ring
\* full, and no other byte types any: whatever keys are pressed, and whatever
\* prefixes and shifts the keyboard sends with them.
THEOREM KeysTypeTheirCharacters == Spec => TypesWhatWasTyped
<1>1. Init => WireInv
  BY DEF Init, WireInv, Legible
<1>2. RingInv /\ RingInv' /\ WireInv /\ [Next]_vars => WireInv'
  BY StepKeepsLegible DEF RingInv
<1>3. RingInv /\ WireInv /\ [Next]_vars => [Len(wire') < Len(wire) => TypedRight]_wire
  BY OnlyHandlerTakes, HandlerTypes DEF RingInv
<1>4. Spec => [][Len(wire') < Len(wire) => TypedRight]_wire
  BY <1>1, <1>2, <1>3, RingInvHolds, PTL DEF Spec
<1>5. TypesWhatWasTyped <=> [][Len(wire') < Len(wire) => TypedRight]_wire
  BY DEF TypesWhatWasTyped, TypedRight
<1> QED BY <1>4, <1>5
=============================================================================
