-------------------------- MODULE Session_proofs --------------------------
(***************************************************************************)
(* The session, for any sizes of the line, the history and the two screens *)
(* and any number of windows: the line, and what the screen shows of it;   *)
(* the windows stay where they can be seen, and the screen shows the state *)
(* that the next key acts on.                                              *)
(***************************************************************************)
EXTENDS Session, SequenceTheorems, WellFoundedInduction, TLAPS

\* What the two properties rest on, of each other and of the focus.
DesktopInv ==
  /\ wpos \in [0 .. Windows - 1 -> Position]
  /\ wfocus \in 0 .. Windows - 1
  /\ DisplayIsCurrent

\* An arrow moves a window within its range, whatever the step.
LEMMA MovedStays ==
  ASSUME NEW p \in Position, NEW k, Step \in Nat \ {0}, Right \in Nat, Bottom \in Nat
  PROVE  Moved(p, k) \in Position
<1>1. CASE k = "up" /\ p.y >= Step + Margin
  BY <1>1 DEF Moved, Position, Margin
<1>2. CASE k = "down" /\ p.y + Step < Bottom
  BY <1>2 DEF Moved, Position, Margin
<1>3. CASE k = "left" /\ p.x >= Step + Margin
  BY <1>3 DEF Moved, Position, Margin
<1>4. CASE k = "right" /\ p.x + Step < Right
  BY <1>4 DEF Moved, Position, Margin
<1>5. CASE /\ ~(k = "up" /\ p.y >= Step + Margin)
           /\ ~(k = "down" /\ p.y + Step < Bottom)
           /\ ~(k = "left" /\ p.x >= Step + Margin)
           /\ ~(k = "right" /\ p.x + Step < Right)
  BY <1>5 DEF Moved
<1> QED BY <1>1, <1>2, <1>3, <1>4, <1>5

\* The boot establishes it.
LEMMA DesktopInitInv == DesktopInit => DesktopInv
BY DesktopAssumption DEF DesktopInit, DesktopInv, DisplayIsCurrent

\* A step that is not of the desktop, in the shell.
LEMMA ShellKeepsDesktop ==
  ASSUME DesktopInv, UNCHANGED <<at, shift, wpos, wfocus, shown>>
  PROVE  DesktopInv'
BY DEF DesktopInv, DisplayIsCurrent, Scene, Modal

\* Every step of the desktop and of the keyboard keeps it.
LEMMA DesktopNextInv ==
  ASSUME DesktopInv,
         EnterDesktop \/ DesktopStep \/ ShiftToggles \/ (\E k \in Key : KeyArrives(k))
  PROVE  DesktopInv'
<1>1. CASE EnterDesktop
  BY <1>1, DesktopAssumption DEF EnterDesktop, DesktopInv, DisplayIsCurrent, Scene
<1>2. CASE DesktopKey
  <2> DEFINE moved == Moved(wpos[wfocus], Head(queue).key)
  <2>1. moved \in Position
    BY MovedStays, DesktopAssumption DEF DesktopInv
  <2>2. wpos' = [wpos EXCEPT ![wfocus] = moved]
    BY <1>2 DEF DesktopKey
  <2>3. wpos' \in [0 .. Windows - 1 -> Position]
    <3> HIDE DEF moved
    <3> QED BY <2>1, <2>2 DEF DesktopInv
  <2>4. wfocus' \in 0 .. Windows - 1
    BY <1>2, DesktopAssumption DEF DesktopKey, DesktopInv
  <2>5. DisplayIsCurrent'
    BY <1>2 DEF DesktopKey, Take, DisplayIsCurrent, Scene
  <2> QED BY <2>3, <2>4, <2>5 DEF DesktopInv
<1>3. CASE OpenLauncher
  BY <1>3 DEF OpenLauncher, Take, DesktopInv, DisplayIsCurrent, Modal
<1>4. CASE Leave
  BY <1>4, DesktopAssumption DEF Leave, DesktopInv, DisplayIsCurrent
<1>5. CASE LauncherKey
  <2>1. UNCHANGED <<wpos, wfocus>>
    BY <1>5 DEF LauncherKey
  <2>2. DisplayIsCurrent'
    BY <1>5 DEF LauncherKey, DisplayIsCurrent, Scene, Modal
  <2> QED BY <2>1, <2>2 DEF DesktopInv
<1>6. CASE CloseApp
  BY <1>6 DEF CloseApp, DesktopInv, DisplayIsCurrent, Scene
<1>7. CASE ShiftToggles
  BY <1>7 DEF ShiftToggles, DesktopInv, DisplayIsCurrent, Scene, Modal
<1>8. CASE \E k \in Key : KeyArrives(k)
  BY <1>8 DEF KeyArrives, DesktopInv, DisplayIsCurrent, Scene, Modal
<1> QED
  BY <1>1, <1>2, <1>3, <1>4, <1>5, <1>6, <1>7, <1>8 DEF DesktopStep

\* The shell's actions leave the desktop alone; those that do not are its own.
LEMMA SessionNextInv == DesktopInv /\ [Next]_session => DesktopInv'
<1> SUFFICES ASSUME DesktopInv, [Next]_session PROVE DesktopInv'
  OBVIOUS
<1>1. CASE \E k \in Letters \cup Arrows \cup {"ESC", "^P", "^N", "backspace", "tab", "enter"} :
             InShell(k)
  <2>1. UNCHANGED <<at, shift, wpos, wfocus, shown>>
    BY <1>1 DEF InShell
  <2> QED BY <2>1, ShellKeepsDesktop
<1>2. CASE Dahle
  BY <1>2, DesktopNextInv DEF Dahle
<1>3. CASE LeaveDahle
  BY <1>3, DesktopNextInv DEF LeaveDahle, DesktopStep
<1>4. CASE InDesktop
  BY <1>4, DesktopNextInv DEF InDesktop, DesktopStep
<1>5. CASE UNCHANGED session
  BY <1>5, ShellKeepsDesktop DEF session, desktop
<1>6. CASE \/ \E c \in Letters : Letter(c)
           \/ CtrlP \/ CtrlN \/ BackspaceKey \/ TabKey \/ EnterKey \/ IgnoredKey
  BY <1>1, <1>6 DEF Letter, CtrlP, CtrlN, BackspaceKey, TabKey, EnterKey, IgnoredKey
<1> QED BY <1>2, <1>3, <1>4, <1>5, <1>6 DEF Next

\* In every session, DesktopInv.
THEOREM SessionDesktopInv == Spec => []DesktopInv
<1>1. Init => DesktopInv
  BY DesktopInitInv DEF Init
<1> QED BY <1>1, SessionNextInv, PTL DEF Spec

\* For any windows, step and limits, no window is moved out of reach.
THEOREM SessionWindowsStayReachable == Spec => []WindowsStayReachable
<1>1. DesktopInv => WindowsStayReachable
  BY DEF DesktopInv, WindowsStayReachable
<1> QED BY <1>1, SessionDesktopInv, PTL

\* For any windows, the display shows what the next key acts on.
THEOREM SessionDisplayIsCurrent == Spec => []DisplayIsCurrent
<1>1. DesktopInv => DisplayIsCurrent
  BY DEF DesktopInv
<1> QED BY <1>1, SessionDesktopInv, PTL

-----------------------------------------------------------------------------
(* The strings of the line editor. *)

\* A non-empty set of natural numbers has a least element.
LEMMA LeastElement ==
  ASSUME NEW T, T \subseteq Nat, T # {}
  PROVE  \E m \in T : \A j \in T : m <= j
<1>1. PICK x \in T : \A y \in T : ~(<<y, x>> \in OpToRel(<, Nat))
  BY NatLessThanWellFounded, WFMin
<1>2. \A y \in T : ~(y < x)
  BY <1>1 DEF OpToRel
<1> QED BY <1>2

\* An array that holds a string.
Terminated(a) == a \in Array /\ a[LineMax] = Nul

\* The string is what is before the first NUL.
LEMMA StrLenIs ==
  ASSUME NEW a, Terminated(a)
  PROVE  /\ StrLen(a) \in 0 .. LineMax - 1
         /\ a[StrLen(a) + 1] = Nul
         /\ \A k \in 1 .. StrLen(a) : a[k] \in Letters
<1> DEFINE Nuls == {k \in 1 .. LineMax : a[k] = Nul}
<1>1. LineMax \in Nat /\ LineMax \in Nuls
  BY EditorAssumption DEF Terminated
<1>2. PICK m \in Nuls : \A j \in Nuls : m <= j
  <2>1. Nuls \subseteq Nat
    OBVIOUS
  <2> HIDE DEF Nuls
  <2> QED BY <1>1, <2>1, LeastElement
<1>3. m \in 1 .. LineMax /\ a[m] = Nul /\ \A j \in 1 .. m - 1 : a[j] # Nul
  BY <1>1, <1>2
<1> DEFINE n == CHOOSE k \in 1 .. LineMax : a[k] = Nul /\ \A j \in 1 .. k - 1 : a[j] # Nul
<1>4. n \in 1 .. LineMax /\ a[n] = Nul /\ \A j \in 1 .. n - 1 : a[j] # Nul
  BY <1>3
<1>5. StrLen(a) = n - 1
  BY DEF StrLen
<1>6. \A j \in 1 .. LineMax : a[j] # Nul => a[j] \in Letters
  BY DEF Terminated, Array
<1> HIDE DEF n
<1> QED BY <1>1, <1>4, <1>5, <1>6

\* The length of a string is where its first zero is.
LEMMA StrLenUnique ==
  ASSUME NEW a, NEW n \in 0 .. LineMax - 1, a[n + 1] = Nul, \A k \in 1 .. n : a[k] \in Letters
  PROVE  StrLen(a) = n
<1>1. LineMax \in Nat /\ Nul \notin Letters
  BY EditorAssumption
<1> DEFINE m == CHOOSE k \in 1 .. LineMax : a[k] = Nul /\ \A j \in 1 .. k - 1 : a[j] # Nul
<1>2. n + 1 \in 1 .. LineMax /\ \A j \in 1 .. (n + 1) - 1 : a[j] # Nul
  BY <1>1
<1>3. m \in 1 .. LineMax /\ a[m] = Nul /\ \A j \in 1 .. m - 1 : a[j] # Nul
  BY <1>2
<1>4. StrLen(a) = m - 1
  BY DEF StrLen
<1> HIDE DEF m
<1>5. ~(m < n + 1)
  BY <1>1, <1>3
<1>6. ~(n + 1 < m)
  BY <1>1, <1>3
<1> QED BY <1>3, <1>4, <1>5, <1>6

\* strncpy() copies the string and leaves an array that holds one.
LEMMA StrNCpyCopies ==
  ASSUME NEW dest, NEW src, Terminated(dest), Terminated(src)
  PROVE  /\ Terminated(StrNCpy(dest, src))
         /\ StrLen(StrNCpy(dest, src)) = StrLen(src)
         /\ \A k \in 1 .. StrLen(src) : StrNCpy(dest, src)[k] = src[k]
         /\ \A k \in StrLen(src) + 1 .. LineMax : StrNCpy(dest, src)[k] = Nul
<1> DEFINE n == StrLen(src)
           a == StrNCpy(dest, src)
<1>1. LineMax \in Nat /\ n \in 0 .. LineMax - 1 /\ \A k \in 1 .. n : src[k] \in Letters
  BY EditorAssumption, StrLenIs
<1>2. /\ dest[LineMax] = Nul
      /\ dest \in [1 .. LineMax -> Letters \cup {Nul}]
  BY DEF Terminated, Array
<1>3. a = [k \in 1 .. LineMax |->
             IF k = LineMax THEN dest[k] ELSE IF k <= n THEN src[k] ELSE Nul]
  BY DEF StrNCpy
<1> HIDE DEF n, a
<1>4. \A k \in 1 .. LineMax : a[k] = IF k <= n THEN src[k] ELSE Nul
  BY <1>1, <1>2, <1>3
<1>5. \A k \in 1 .. n : a[k] = src[k]
  BY <1>1, <1>4
<1>6. \A k \in n + 1 .. LineMax : a[k] = Nul
  BY <1>1, <1>4
<1>7. Terminated(a)
  <2>1. \A k \in 1 .. LineMax : a[k] \in Letters \cup {Nul}
    <3>1. \A k \in 1 .. LineMax : k \in 1 .. n \/ ~(k <= n)
      BY <1>1
    <3> QED BY <1>1, <1>4, <3>1
  <2>2. a[LineMax] = Nul
    <3>1. LineMax \in n + 1 .. LineMax
      BY <1>1
    <3> QED BY <1>6, <3>1
  <2> QED BY <1>3, <2>1, <2>2 DEF Terminated, Array
<1>8. StrLen(a) = n
  <2>1. n + 1 \in n + 1 .. LineMax
    BY <1>1
  <2> QED BY <1>1, <1>5, <1>6, <2>1, StrLenUnique
<1> QED BY <1>5, <1>6, <1>7, <1>8 DEF n, a

-----------------------------------------------------------------------------
(* The line. *)

\* The letters of the line are where len says, and every array of the editor
\* holds a string.
LineInv ==
  /\ len \in 0 .. LineMax - 1
  /\ Terminated(line) /\ Terminated(live)
  /\ \A k \in 1 .. len : line[k] \in Letters
  /\ \A k \in len + 1 .. LineMax : line[k] = Nul
  /\ hist \in [0 .. HistoryMax - 1 -> Array]
  /\ \A e \in 0 .. HistoryMax - 1 : Terminated(hist[e])
  /\ hist_n \in Nat /\ hist_i \in -1 .. hist_n

\* Nothing typed, nothing held.
LEMMA NoLineHolds ==
  /\ Terminated(NoLine)
  /\ \A k \in 1 .. LineMax : NoLine[k] = Nul
<1>1. LineMax \in 1 .. LineMax
  BY EditorAssumption
<1> QED BY <1>1 DEF Terminated, Array, NoLine

\* At power-on.
LEMMA TerminalInitLine == TerminalInit => LineInv
<1> SUFFICES ASSUME TerminalInit PROVE LineInv
  OBVIOUS
<1>1. line = NoLine /\ len = 0 /\ live = NoLine /\ hist_n = 0 /\ hist_i = -1
      /\ hist = [e \in 0 .. HistoryMax - 1 |-> NoLine]
  BY DEF TerminalInit
<1>2. 0 \in 0 .. LineMax - 1
  BY EditorAssumption
<1> QED BY <1>1, <1>2, NoLineHolds DEF LineInv, Terminated

\* A letter.
LEMMA TypeLetterLine ==
  ASSUME LineInv, NEW c \in Letters, TypeLetter(c)
  PROVE  LineInv'
<1>1. CASE len < LineMax - 1
  <2>1. /\ line' = [line EXCEPT ![len + 1] = c] /\ len' = len + 1
        /\ UNCHANGED <<live, hist, hist_n, hist_i>>
    BY <1>1 DEF TypeLetter
  <2>2. LineMax \in Nat /\ len \in 0 .. LineMax - 1 /\ len + 1 \in 1 .. LineMax /\ len + 1 # LineMax
    BY <1>1, EditorAssumption DEF LineInv
  <2>3. line \in [1 .. LineMax -> Letters \cup {Nul}] /\ line[LineMax] = Nul
    BY DEF LineInv, Terminated, Array
  <2>4. Terminated(line')
    <3>1. LineMax \in 1 .. LineMax
      BY EditorAssumption
    <3> QED BY <2>1, <2>2, <2>3, <3>1 DEF Terminated, Array
  <2>5. \A k \in 1 .. len' : line'[k] \in Letters
    <3>1. \A k \in 1 .. len' : k \in 1 .. LineMax /\ (k = len + 1 \/ k \in 1 .. len)
      BY <2>1, <2>2
    <3> QED BY <2>1, <2>3, <3>1 DEF LineInv
  <2>6. \A k \in len' + 1 .. LineMax : line'[k] = Nul
    <3>1. \A k \in len' + 1 .. LineMax : k \in 1 .. LineMax /\ k # len + 1 /\ k \in len + 1 .. LineMax
      BY <2>1, <2>2
    <3> QED BY <2>1, <2>3, <3>1 DEF LineInv
  <2>7. len' \in 0 .. LineMax - 1
    BY <1>1, <2>1, <2>2
  <2> QED BY <2>1, <2>4, <2>5, <2>6, <2>7 DEF LineInv
<1>2. CASE ~(len < LineMax - 1)
  BY <1>2 DEF TypeLetter, LineInv
<1> QED BY <1>1, <1>2

\* A backspace.
LEMMA BackspaceLine ==
  ASSUME LineInv, Backspace
  PROVE  LineInv'
<1>1. CASE len > 0
  <2>1. /\ line' = [line EXCEPT ![len] = Nul] /\ len' = len - 1
        /\ UNCHANGED <<live, hist, hist_n, hist_i>>
    BY <1>1 DEF Backspace
  <2>2. LineMax \in Nat /\ len \in 0 .. LineMax - 1 /\ len \in 1 .. LineMax
    BY <1>1, EditorAssumption DEF LineInv
  <2>3. line \in [1 .. LineMax -> Letters \cup {Nul}] /\ line[LineMax] = Nul
    BY DEF LineInv, Terminated, Array
  <2>4. Terminated(line')
    <3>1. LineMax \in 1 .. LineMax
      BY EditorAssumption
    <3> QED BY <2>1, <2>2, <2>3, <3>1 DEF Terminated, Array
  <2>5. \A k \in 1 .. len' : line'[k] \in Letters
    <3>1. \A k \in 1 .. len' : k \in 1 .. LineMax /\ k # len /\ k \in 1 .. len
      BY <2>1, <2>2
    <3> QED BY <2>1, <2>3, <3>1 DEF LineInv
  <2>6. \A k \in len' + 1 .. LineMax : line'[k] = Nul
    <3>1. \A k \in len' + 1 .. LineMax :
            k \in 1 .. LineMax /\ (k = len \/ k \in len + 1 .. LineMax)
      BY <2>1, <2>2
    <3> QED BY <2>1, <2>3, <3>1 DEF LineInv
  <2>7. len' \in 0 .. LineMax - 1
    BY <1>1, <2>1, <2>2
  <2> QED BY <2>1, <2>4, <2>5, <2>6, <2>7 DEF LineInv
<1>2. CASE ~(len > 0)
  BY <1>2 DEF Backspace, LineInv
<1> QED BY <1>1, <1>2

\* What Tab adds fits, and is letters.
LEMMA CompletionFits ==
  ASSUME LineInv
  PROVE  /\ Completion \in Seq(Letters)
         /\ len + Len(Completion) \in 0 .. LineMax - 1
<1>1. LineMax \in Nat /\ LineMax >= 2 /\ len \in 0 .. LineMax - 1
      /\ CommandNames \in Seq(Seq(Letters))
  BY EditorAssumption DEF LineInv
<1> DEFINE matching == {n \in DOMAIN CommandNames : Completes(CommandNames[n])}
<1>2. CASE matching = {}
  <2>1. Completion = <<>>
    BY <1>2 DEF Completion
  <2> QED BY <1>1, <2>1
<1>3. CASE matching # {}
  <2>1. matching \subseteq Nat
    BY <1>1
  <2>2. PICK m \in matching : \A j \in matching : m <= j
    <3> HIDE DEF matching
    <3> QED BY <1>3, <2>1, LeastElement
  <2> DEFINE n == CHOOSE x \in matching : \A j \in matching : x <= j
             name == CommandNames[n]
             last == IF Len(name) < LineMax THEN Len(name) ELSE LineMax - 1
  <2>3. n \in matching
    BY <2>2
  <2>4. name \in Seq(Letters) /\ Len(name) >= len
    BY <1>1, <2>3 DEF Completes
  <2>5. Completion = SubSeq(name, len + 1, last)
    BY <1>3 DEF Completion
  <2> HIDE DEF name
  <2>6. Len(name) \in Nat
    BY <2>4, LenProperties
  <2>7. /\ last \in 0 .. Len(name) /\ last \in 0 .. LineMax - 1
        /\ len + 1 \in 1 .. Len(name) + 1 /\ last >= len
    BY <1>1, <2>4, <2>6
  <2> HIDE DEF last
  <2>8. /\ SubSeq(name, len + 1, last) \in Seq(Letters)
        /\ Len(SubSeq(name, len + 1, last)) = IF len + 1 <= last THEN last - (len + 1) + 1 ELSE 0
    BY <2>4, <2>7, SubSeqProperties
  <2>9. len + Len(SubSeq(name, len + 1, last)) = last
    BY <1>1, <2>7, <2>8
  <2> QED BY <2>5, <2>7, <2>8, <2>9
<1> QED BY <1>2, <1>3

\* Tab.
LEMMA CompleteLine ==
  ASSUME LineInv, Complete
  PROVE  LineInv'
<1> DEFINE added == Completion
           n == Len(added)
<1>1. /\ line' = [k \in 1 .. LineMax |->
                   IF k \in len + 1 .. len + n THEN added[k - len] ELSE line[k]]
      /\ len' = len + n
      /\ UNCHANGED <<live, hist, hist_n, hist_i>>
  BY DEF Complete
<1>2. /\ added \in Seq(Letters) /\ n \in Nat /\ len + n \in 0 .. LineMax - 1
      /\ \A k \in 1 .. n : added[k] \in Letters
  BY CompletionFits
<1>3. LineMax \in Nat /\ LineMax \in 1 .. LineMax /\ len \in 0 .. LineMax - 1
  BY EditorAssumption DEF LineInv
<1> HIDE DEF added, n
<1>4. line \in [1 .. LineMax -> Letters \cup {Nul}] /\ line[LineMax] = Nul
  BY DEF LineInv, Terminated, Array
<1>5. \A k \in len + 1 .. len + n : line'[k] \in Letters
  <2>1. \A k \in len + 1 .. len + n : k \in 1 .. LineMax /\ k - len \in 1 .. n
    BY <1>2, <1>3
  <2> QED BY <1>1, <1>2, <2>1
<1>6. \A k \in 1 .. LineMax : k \notin len + 1 .. len + n => line'[k] = line[k]
  BY <1>1
<1>7. \A k \in 1 .. len' : line'[k] \in Letters
  <2>1. \A k \in 1 .. len' :
          k \in len + 1 .. len + n
          \/ (k \in 1 .. LineMax /\ k \notin len + 1 .. len + n /\ k \in 1 .. len)
    BY <1>1, <1>2, <1>3
  <2> QED BY <1>5, <1>6, <2>1 DEF LineInv
<1>8. \A k \in len' + 1 .. LineMax : line'[k] = Nul
  <2>1. \A k \in len' + 1 .. LineMax :
          k \in 1 .. LineMax /\ k \notin len + 1 .. len + n /\ k \in len + 1 .. LineMax
    BY <1>1, <1>2, <1>3
  <2> QED BY <1>6, <2>1 DEF LineInv
<1>9. Terminated(line')
  <2>1. \A k \in 1 .. LineMax : line'[k] \in Letters \cup {Nul}
    BY <1>4, <1>5, <1>6
  <2>2. line'[LineMax] = Nul
    <3>1. LineMax \in len' + 1 .. LineMax
      BY <1>1, <1>2, <1>3
    <3> QED BY <1>8, <3>1
  <2>3. line' = [k \in 1 .. LineMax |-> line'[k]]
    BY <1>1
  <2> QED BY <2>1, <2>2, <2>3 DEF Terminated, Array
<1> QED BY <1>1, <1>2, <1>7, <1>8, <1>9 DEF LineInv

\* redraw_line() with a string.
LEMMA RedrawsLine ==
  ASSUME LineInv, NEW s, Terminated(s), RedrawLine(s)
  PROVE  /\ len' = StrLen(s) /\ len' \in 0 .. LineMax - 1 /\ Terminated(line')
         /\ \A k \in 1 .. len' : line'[k] = s[k] /\ line'[k] \in Letters
         /\ \A k \in len' + 1 .. LineMax : line'[k] = Nul
<1> DEFINE a == StrNCpy(line, s)
           n == StrLen(s)
<1>1. Terminated(line)
  BY DEF LineInv
<1>2. /\ Terminated(a) /\ StrLen(a) = n
      /\ \A k \in 1 .. n : a[k] = s[k]
      /\ \A k \in n + 1 .. LineMax : a[k] = Nul
  BY <1>1, StrNCpyCopies
<1>3. n \in 0 .. LineMax - 1 /\ \A k \in 1 .. n : s[k] \in Letters
  BY StrLenIs
<1>4. line' = [a EXCEPT ![LineMax] = Nul] /\ len' = StrLen(line')
  BY DEF RedrawLine
<1> HIDE DEF a, n
<1>5. line' = a
  <2>1. a = [k \in 1 .. LineMax |-> a[k]] /\ a[LineMax] = Nul
    BY <1>2 DEF Terminated, Array
  <2> QED BY <1>4, <2>1
<1> QED BY <1>2, <1>3, <1>4, <1>5 DEF n

\* The entries of the history.
LEMMA EntryHolds ==
  ASSUME LineInv, NEW offset \in Nat, offset <= hist_n
  PROVE  (hist_n - offset) % HistoryMax \in 0 .. HistoryMax - 1 /\ Terminated(Entry(offset))
<1>1. HistoryMax \in Nat \ {0} /\ hist_n - offset \in Nat
  BY EditorAssumption DEF LineInv
<1>2. (hist_n - offset) % HistoryMax \in 0 .. HistoryMax - 1
  BY <1>1
<1> QED BY <1>2 DEF Entry, LineInv

\* The key up.
LEMMA ScrollUpLine ==
  ASSUME LineInv, ScrollUp
  PROVE  LineInv'
<1> DEFINE next == hist_i + 1
<1>1. hist_n \in Nat /\ hist_i \in -1 .. hist_n
  BY DEF LineInv
<1>2. CASE hist_n - next >= 0
  <2>1. next \in Nat /\ next <= hist_n /\ next \in -1 .. hist_n
    BY <1>1, <1>2
  <2>2. /\ live' = IF hist_i = -1 THEN StrNCpy(live, line) ELSE live
        /\ hist_i' = next /\ RedrawLine(Entry(next)) /\ UNCHANGED <<hist, hist_n>>
    BY <1>2 DEF ScrollUp
  <2>3. Terminated(live')
    BY <2>2, StrNCpyCopies DEF LineInv
  <2>4. Terminated(Entry(next))
    BY <2>1, EntryHolds
  <2> HIDE DEF next
  <2>5. /\ len' \in 0 .. LineMax - 1 /\ Terminated(line')
        /\ \A k \in 1 .. len' : line'[k] \in Letters
        /\ \A k \in len' + 1 .. LineMax : line'[k] = Nul
    BY <2>2, <2>4, RedrawsLine
  <2> QED BY <2>1, <2>2, <2>3, <2>5 DEF LineInv
<1>3. CASE ~(hist_n - next >= 0)
  BY <1>3 DEF ScrollUp, LineInv
<1> QED BY <1>2, <1>3

\* The key down.
LEMMA ScrollDownLine ==
  ASSUME LineInv, ScrollDown
  PROVE  LineInv'
<1>1. hist_n \in Nat /\ hist_i \in -1 .. hist_n
  BY DEF LineInv
<1>2. ASSUME NEW s, Terminated(s), RedrawLine(s), hist_i' \in -1 .. hist_n,
             UNCHANGED <<hist, hist_n, live>>
      PROVE  LineInv'
  BY <1>2, RedrawsLine DEF LineInv
<1>3. UNCHANGED <<hist, hist_n, live>>
  BY DEF ScrollDown
<1>4. CASE hist_i > 1 /\ hist_i' = hist_i - 1 /\ RedrawLine(Entry(hist_i - 1))
  <2>1. hist_i - 1 \in Nat /\ hist_i - 1 <= hist_n /\ hist_i - 1 \in -1 .. hist_n
    BY <1>1, <1>4
  <2> QED BY <1>2, <1>3, <1>4, <2>1, EntryHolds
<1>5. CASE hist_i = 1 /\ hist_i' = -1 /\ RedrawLine(live)
  <2>1. -1 \in -1 .. hist_n /\ Terminated(live)
    BY <1>1 DEF LineInv
  <2> QED BY <1>2, <1>3, <1>5, <2>1
<1>6. CASE hist_i < 1 /\ UNCHANGED <<hist_i, line, len, screen>>
  BY <1>3, <1>6 DEF LineInv
<1> QED BY <1>4, <1>5, <1>6 DEF ScrollDown

\* hist_push() keeps the history.
LEMMA HistPushLine ==
  ASSUME LineInv, HistPush
  PROVE  /\ hist' \in [0 .. HistoryMax - 1 -> Array]
         /\ \A e \in 0 .. HistoryMax - 1 : Terminated(hist'[e])
         /\ hist_n' \in Nat /\ -1 \in -1 .. hist_n'
<1>1. CASE UNCHANGED <<hist, hist_n>>
  BY <1>1 DEF LineInv
<1>2. CASE /\ hist' = [hist EXCEPT ![hist_n % HistoryMax] = StrNCpy(@, line)]
           /\ hist_n' = hist_n + 1
  <2>1. hist_n % HistoryMax \in 0 .. HistoryMax - 1 /\ hist_n \in Nat
    BY EditorAssumption DEF LineInv
  <2> DEFINE e == hist_n % HistoryMax
             new == StrNCpy(hist[e], line)
  <2>2. Terminated(new)
    BY <2>1, StrNCpyCopies DEF LineInv
  <2>3. hist' = [hist EXCEPT ![e] = new] /\ hist \in [0 .. HistoryMax - 1 -> Array]
    BY <1>2 DEF LineInv
  <2>4. hist' \in [0 .. HistoryMax - 1 -> Array]
    <3> HIDE DEF e, new
    <3> QED BY <2>1, <2>2, <2>3 DEF Terminated
  <2>5. \A x \in 0 .. HistoryMax - 1 : Terminated(hist'[x])
    <3>1. \A x \in 0 .. HistoryMax - 1 : hist'[x] = new \/ hist'[x] = hist[x]
      <4> HIDE DEF e, new
      <4> QED BY <2>1, <2>3
    <3>2. \A x \in 0 .. HistoryMax - 1 : Terminated(hist[x])
      BY DEF LineInv
    <3> HIDE DEF new
    <3> QED BY <2>2, <3>1, <3>2
  <2> QED BY <1>2, <2>1, <2>4, <2>5
<1> QED BY <1>1, <1>2 DEF HistPush

\* A new line, whatever a command does to the screen.
LEMMA NextLineLine ==
  ASSUME LineInv, line' = NoLine, len' = 0, live' = live,
         hist' \in [0 .. HistoryMax - 1 -> Array],
         \A e \in 0 .. HistoryMax - 1 : Terminated(hist'[e]),
         hist_n' \in Nat, hist_i' \in -1 .. hist_n'
  PROVE  LineInv'
<1>1. 0 \in 0 .. LineMax - 1
  BY EditorAssumption
<1> QED BY <1>1, NoLineHolds DEF LineInv

\* One step.
LEMMA LineNextInv == LineInv /\ [Next]_session => LineInv'
<1> SUFFICES ASSUME LineInv, [Next]_session PROVE LineInv'
  OBVIOUS
<1>1. ASSUME NEW c \in Letters, Letter(c) PROVE LineInv'
  BY <1>1, TypeLetterLine DEF Letter
<1>2. CASE CtrlP
  BY <1>2, ScrollUpLine DEF CtrlP
<1>3. CASE CtrlN
  BY <1>3, ScrollDownLine DEF CtrlN
<1>4. CASE BackspaceKey
  BY <1>4, BackspaceLine DEF BackspaceKey
<1>5. CASE TabKey
  BY <1>5, CompleteLine DEF TabKey
<1>6. CASE EnterKey
  <2>1. line' = NoLine /\ len' = 0 /\ live' = live /\ hist_i' = -1 /\ HistPush
    BY <1>6 DEF EnterKey, Enter, NextLine
  <2> QED BY <2>1, HistPushLine, NextLineLine
<1>7. CASE Dahle
  <2>1. /\ UNCHANGED <<line, len, live>> /\ hist_i' = -1 /\ HistPush
    BY <1>7 DEF Dahle
  <2> QED BY <2>1, HistPushLine DEF LineInv
<1>8. CASE LeaveDahle
  <2>1. line' = NoLine /\ len' = 0 /\ UNCHANGED <<live, hist, hist_n, hist_i>>
    BY <1>8 DEF LeaveDahle, NextLine
  <2> QED BY <2>1, NextLineLine DEF LineInv
<1>9. CASE IgnoredKey \/ InDesktop \/ UNCHANGED session
  <2>1. UNCHANGED <<line, len, live, hist, hist_n, hist_i>>
    BY <1>9 DEF IgnoredKey, InDesktop, session, terminal, editor
  <2> QED BY <2>1 DEF LineInv
<1> QED BY <1>1, <1>2, <1>3, <1>4, <1>5, <1>6, <1>7, <1>8, <1>9 DEF Next

\* For every length of the line and of the history: what run(), the history
\* and the completion take up to the first NUL is what len counts.
THEOREM SessionLineEnds == Spec => []LineEndsInZeros
<1>1. Init => LineInv
  BY TerminalInitLine DEF Init
<1>2. LineInv => LineEndsInZeros
  <2> SUFFICES ASSUME LineInv PROVE LineEndsInZeros
    OBVIOUS
  <2>1. line[len + 1] = Nul
    <3>1. len + 1 \in len + 1 .. LineMax
      BY EditorAssumption DEF LineInv
    <3> QED BY <3>1 DEF LineInv
  <2>2. StrLen(line) = len
    BY <2>1, StrLenUnique DEF LineInv
  <2> QED BY <2>2 DEF LineInv, LineEndsInZeros
<1> QED BY <1>1, <1>2, LineNextInv, PTL DEF Spec

-----------------------------------------------------------------------------
(* Positions, rows and columns. *)

\* A row further down begins a whole row later.
LEMMA RowsApart ==
  ASSUME NEW w \in Nat, NEW q \in Int, NEW r \in Int, q < r
  PROVE  q * w + w <= r * w
<1>1. (r - q - 1) * w >= 0
  <2> DEFINE d == r - q - 1
  <2>1. d \in Nat
    OBVIOUS
  <2> HIDE DEF d
  <2>2. d * w \in Nat
    BY <2>1
  <2> QED BY <2>2 DEF d
<1> QED BY <1>1

\* Positions are in the order of their rows, then of their columns.
LEMMA PositionOrder ==
  ASSUME NEW w \in Nat, NEW q \in Int, NEW r \in Int,
         NEW b \in 0 .. w - 1, NEW c \in 0 .. w - 1
  PROVE  q * w + b >= r * w + c <=> q > r \/ (q = r /\ b >= c)
<1>1. CASE q < r
  <2>1. q * w + w <= r * w
    BY <1>1, RowsApart
  <2> DEFINE x == q * w
             y == r * w
  <2>2. x \in Int /\ y \in Int
    OBVIOUS
  <2> HIDE DEF x, y
  <2>3. x + w <= y
    BY <2>1 DEF x, y
  <2>4. ~(x + b >= y + c)
    BY <2>2, <2>3
  <2> QED BY <1>1, <2>4 DEF x, y
<1>2. CASE r < q
  <2>1. r * w + w <= q * w
    BY <1>2, RowsApart
  <2> DEFINE x == q * w
             y == r * w
  <2>2. x \in Int /\ y \in Int
    OBVIOUS
  <2> HIDE DEF x, y
  <2>3. y + w <= x
    BY <2>1 DEF x, y
  <2>4. x + b >= y + c
    BY <2>2, <2>3
  <2> QED BY <1>2, <2>4 DEF x, y
<1>3. CASE q = r
  OBVIOUS
<1> QED BY <1>1, <1>2, <1>3

\* The row and the column of a position.
LEMMA RowAndColumn ==
  ASSUME NEW w \in Nat \ {0}, NEW i \in Nat
  PROVE  /\ i \div w \in Nat /\ i % w \in 0 .. w - 1
         /\ i = (i \div w) * w + (i % w)
<1>1. i \div w \in Int /\ i % w \in 0 .. w - 1
  OBVIOUS
<1>2. i = (i \div w) * w + (i % w)
  OBVIOUS
<1> DEFINE q == i \div w
           b == i % w
<1>3. q \in Int /\ b \in 0 .. w - 1 /\ i = q * w + b
  BY <1>1, <1>2
<1> HIDE DEF q, b
<1>4. q \in Nat
  <2>1. CASE q < 0
    <3>1. q * w + w <= 0 * w
      BY <2>1, <1>3, RowsApart
    <3> QED BY <1>3, <3>1
  <2> QED BY <1>3, <2>1
<1> QED BY <1>3, <1>4 DEF q, b

\* They are the only ones.
LEMMA PositionIs ==
  ASSUME NEW w \in Nat \ {0}, NEW r \in Nat, NEW c \in 0 .. w - 1
  PROVE  (r * w + c) \div w = r /\ (r * w + c) % w = c
<1> DEFINE i == r * w + c
           q == i \div w
           b == i % w
<1>1. i \in Nat
  OBVIOUS
<1>2. q \in Nat /\ b \in 0 .. w - 1 /\ i = q * w + b
  BY <1>1, RowAndColumn
<1>3. i = r * w + c
  OBVIOUS
<1> HIDE DEF i, q, b
<1>4. q * w + b >= r * w + c /\ r * w + c >= q * w + b
  BY <1>1, <1>2, <1>3
<1>5. q = r /\ b = c
  BY <1>2, <1>4, PositionOrder
<1> QED BY <1>5 DEF i, q, b

\* One row further down.
LEMMA NextRowPosition ==
  ASSUME NEW w \in Nat \ {0}, NEW i \in Nat
  PROVE  (i + w) \div w = i \div w + 1 /\ (i + w) % w = i % w
<1> DEFINE q == i \div w
           b == i % w
<1>1. q \in Nat /\ b \in 0 .. w - 1 /\ i = q * w + b
  BY RowAndColumn
<1> HIDE DEF q, b
<1>2. i + w = (q + 1) * w + b /\ q + 1 \in Nat
  BY <1>1
<1> QED BY <1>1, <1>2, PositionIs DEF q, b

-----------------------------------------------------------------------------
(* The text screens, one character at a time. *)

Fields == {"mode", "cells", "row", "col", "ink", "attr"}
Attrs == {Grey} \cup {ToAttr(ink) : ink \in Ink}

\* A screen in the VGA mode with the cursor in one of the first rows, and blank
\* from the cursor on.
VgaText(s, rows) ==
  /\ DOMAIN s = Fields /\ s.mode = "VGA" /\ DOMAIN s.cells = VgaBuffer
  /\ s.ink \in Ink /\ s.attr \in Attrs
  /\ s.col \in 0 .. VgaCols - 1 /\ s.row \in 0 .. rows - 1
  /\ \A r \in 0 .. VgaRows - 1, c \in 0 .. VgaCols - 1 :
       r > s.row \/ (r = s.row /\ c >= s.col) => s.cells[<<r, c>>].char = " "

\* The same in the VBE mode.
VbeText(s, rows) ==
  /\ DOMAIN s = Fields /\ s.mode = "VBE" /\ DOMAIN s.cells = Framebuffer
  /\ s.ink \in Ink /\ s.attr \in Attrs
  /\ s.col \in 0 .. VbeCols - 1 /\ s.row \in 0 .. rows - 1
  /\ \A b \in Bands, c \in 0 .. VbeCols - 1 :
       b >= 2 * s.row + 2 \/ (b >= 2 * s.row /\ c >= s.col) => s.cells[<<b, c>>].char = " "

\* A character written, before any scrolling.
VgaWritten(s, c) ==
  Wrapped([s EXCEPT !.cells[<<s.row, s.col>>] = Cell(c, s.attr), !.col = @ + 1], VgaCols)
VbeWritten(s, c) ==
  Wrapped([Draw(s, Cell(c, s.ink)) EXCEPT !.col = @ + 1], VbeCols)
NewRow(s) == [s EXCEPT !.col = 0, !.row = @ + 1]

\* The sizes of the two displays.
LEMMA Geometry ==
  /\ VgaCols \in Nat \ {0} /\ VgaRows \in Nat \ {0} /\ VbeCols \in Nat \ {0} /\ VbeRows \in Nat \ {0}
  /\ VgaCols > 1 /\ VgaRows > 1 /\ VbeCols > 1 /\ VbeRows > 1
BY GeometryAssumption

\* A character on the text display.
LEMMA VgaWrites ==
  ASSUME NEW s, NEW c, VgaText(s, VgaRows)
  PROVE  LET u == VgaWritten(s, c)
         IN /\ VgaText(u, VgaRows + 1) /\ u.ink = s.ink /\ u.attr = s.attr
            /\ u.cells = [s.cells EXCEPT ![<<s.row, s.col>>] = Cell(c, s.attr)]
            /\ u.row = IF s.col + 1 < VgaCols THEN s.row ELSE s.row + 1
            /\ u.col = IF s.col + 1 < VgaCols THEN s.col + 1 ELSE 0
<1> DEFINE t == [s EXCEPT !.cells[<<s.row, s.col>>] = Cell(c, s.attr), !.col = @ + 1]
           u == VgaWritten(s, c)
<1>1. /\ DOMAIN s = Fields /\ s.mode = "VGA" /\ DOMAIN s.cells = VgaBuffer
      /\ s.ink \in Ink /\ s.attr \in Attrs
      /\ s.col \in 0 .. VgaCols - 1 /\ s.row \in 0 .. VgaRows - 1
  BY DEF VgaText
<1>2. /\ DOMAIN t = Fields /\ t.mode = "VGA" /\ t.ink = s.ink /\ t.attr = s.attr
      /\ t.cells = [s.cells EXCEPT ![<<s.row, s.col>>] = Cell(c, s.attr)]
      /\ t.row = s.row /\ t.col = s.col + 1
  BY <1>1 DEF Fields
<1>3. u = Wrapped(t, VgaCols)
  BY DEF VgaWritten
<1> HIDE DEF t, u
<1>4. /\ DOMAIN u = Fields /\ u.mode = "VGA" /\ u.ink = s.ink /\ u.attr = s.attr
      /\ u.cells = t.cells
      /\ u.row = IF s.col + 1 < VgaCols THEN s.row ELSE s.row + 1
      /\ u.col = IF s.col + 1 < VgaCols THEN s.col + 1 ELSE 0
  <2>1. CASE t.col < VgaCols
    BY <1>1, <1>2, <1>3, <2>1 DEF Wrapped
  <2>2. CASE ~(t.col < VgaCols)
    BY <1>1, <1>2, <1>3, <2>2 DEF Wrapped, Fields
  <2> QED BY <2>1, <2>2
<1>5. u.row \in 0 .. (VgaRows + 1) - 1 /\ u.col \in 0 .. VgaCols - 1
  BY <1>1, <1>4, Geometry
<1>6. DOMAIN u.cells = VgaBuffer
  BY <1>1, <1>2, <1>4
<1>7. ASSUME NEW r \in 0 .. VgaRows - 1, NEW k \in 0 .. VgaCols - 1,
             r > u.row \/ (r = u.row /\ k >= u.col)
      PROVE  u.cells[<<r, k>>].char = " "
  <2>1. r > s.row \/ (r = s.row /\ k > s.col)
    BY <1>1, <1>4, <1>7, Geometry
  <2>2. <<r, k>> # <<s.row, s.col>>
    BY <1>1, <2>1
  <2>3. <<r, k>> \in DOMAIN s.cells
    BY <1>1 DEF VgaBuffer
  <2>4. u.cells[<<r, k>>] = s.cells[<<r, k>>]
    BY <1>2, <1>4, <2>2, <2>3
  <2>5. s.cells[<<r, k>>].char = " "
    <3>1. r > s.row \/ (r = s.row /\ k >= s.col)
      BY <1>1, <2>1
    <3> QED BY <3>1 DEF VgaText
  <2> QED BY <2>4, <2>5
<1>8. VgaText(u, VgaRows + 1)
  BY <1>1, <1>4, <1>5, <1>6, <1>7 DEF VgaText
<1> QED BY <1>2, <1>4, <1>8 DEF u

\* A new row on it.
LEMMA VgaNewRow ==
  ASSUME NEW s, VgaText(s, VgaRows)
  PROVE  LET u == NewRow(s)
         IN VgaText(u, VgaRows + 1) /\ u.ink = s.ink /\ u.attr = s.attr
<1> DEFINE u == NewRow(s)
<1>1. /\ DOMAIN s = Fields /\ s.mode = "VGA" /\ DOMAIN s.cells = VgaBuffer
      /\ s.ink \in Ink /\ s.attr \in Attrs
      /\ s.col \in 0 .. VgaCols - 1 /\ s.row \in 0 .. VgaRows - 1
  BY DEF VgaText
<1>2. /\ DOMAIN u = Fields /\ u.mode = "VGA" /\ u.ink = s.ink /\ u.attr = s.attr
      /\ u.cells = s.cells /\ u.row = s.row + 1 /\ u.col = 0
  BY <1>1 DEF Fields, NewRow
<1> HIDE DEF u
<1>3. u.row \in 0 .. (VgaRows + 1) - 1 /\ u.col \in 0 .. VgaCols - 1
  BY <1>1, <1>2, Geometry
<1>4. ASSUME NEW r \in 0 .. VgaRows - 1, NEW k \in 0 .. VgaCols - 1,
             r > u.row \/ (r = u.row /\ k >= u.col)
      PROVE  u.cells[<<r, k>>].char = " "
  <2>1. r > s.row
    BY <1>1, <1>2, <1>4
  <2> QED BY <1>2, <2>1 DEF VgaText
<1>5. VgaText(u, VgaRows + 1)
  BY <1>1, <1>2, <1>3, <1>4 DEF VgaText
<1> QED BY <1>2, <1>5 DEF u

\* It scrolls.
LEMMA VgaScrolls ==
  ASSUME NEW s, VgaText(s, VgaRows + 1), s.row >= VgaRows
  PROVE  LET u == VgaScroll(s)
         IN /\ VgaText(u, VgaRows) /\ u.ink = s.ink /\ u.attr = s.attr
            /\ u.row = s.row - 1 /\ u.col = s.col
            /\ \A r \in 0 .. VgaRows - 2, c \in 0 .. VgaCols - 1 :
                 u.cells[<<r, c>>] = s.cells[<<r + 1, c>>]
<1> DEFINE u == VgaScroll(s)
<1>1. /\ DOMAIN s = Fields /\ s.mode = "VGA" /\ DOMAIN s.cells = VgaBuffer
      /\ s.ink \in Ink /\ s.attr \in Attrs
      /\ s.col \in 0 .. VgaCols - 1 /\ s.row \in Int /\ s.row = VgaRows /\ s.row > 0
  <2>1. s.row \in 0 .. (VgaRows + 1) - 1
    BY DEF VgaText
  <2>2. s.row \in Int /\ s.row = VgaRows /\ s.row > 0
    BY <2>1, Geometry
  <2> QED BY <2>2 DEF VgaText
<1>2. /\ DOMAIN u = Fields /\ u.mode = "VGA" /\ u.ink = s.ink /\ u.attr = s.attr
      /\ u.cells = [p \in VgaBuffer |-> IF p[1] + 1 < VgaRows
                                        THEN s.cells[<<p[1] + 1, p[2]>>] ELSE Blank(s.attr)]
      /\ u.row = s.row - 1 /\ u.col = s.col
  BY <1>1 DEF Fields, VgaScroll
<1> HIDE DEF u
<1>3. u.row \in 0 .. VgaRows - 1 /\ u.col \in 0 .. VgaCols - 1
  BY <1>1, <1>2, Geometry
<1>4. DOMAIN u.cells = VgaBuffer
  BY <1>2
<1>5. \A r \in 0 .. VgaRows - 2, c \in 0 .. VgaCols - 1 :
        u.cells[<<r, c>>] = s.cells[<<r + 1, c>>]
  <2> TAKE r \in 0 .. VgaRows - 2, c \in 0 .. VgaCols - 1
  <2>1. <<r, c>> \in VgaBuffer /\ r + 1 < VgaRows
    BY Geometry DEF VgaBuffer
  <2> QED BY <1>2, <2>1
<1>6. ASSUME NEW r \in 0 .. VgaRows - 1, NEW k \in 0 .. VgaCols - 1,
             r > u.row \/ (r = u.row /\ k >= u.col)
      PROVE  u.cells[<<r, k>>].char = " "
  <2>1. r = VgaRows - 1
    BY <1>1, <1>2, <1>6, Geometry
  <2>2. <<r, k>> \in VgaBuffer /\ ~(r + 1 < VgaRows)
    BY <2>1, Geometry DEF VgaBuffer
  <2>3. u.cells[<<r, k>>] = Blank(s.attr)
    BY <1>2, <2>2
  <2>4. Blank(s.attr).char = " "
    BY DEF Blank, Cell
  <2> QED BY <2>3, <2>4
<1>7. VgaText(u, VgaRows)
  BY <1>1, <1>2, <1>3, <1>4, <1>6 DEF VgaText
<1> QED BY <1>2, <1>5, <1>7 DEF u

\* A backspace on it.
LEMMA VgaStepsBack ==
  ASSUME NEW s, VgaText(s, VgaRows)
  PROVE  LET u == VgaBackspace(s)
         IN /\ VgaText(u, VgaRows) /\ u.ink = s.ink /\ u.attr = s.attr
            /\ u.row = SteppedBack(s, VgaCols).row /\ u.col = SteppedBack(s, VgaCols).col
            /\ \A r \in 0 .. VgaRows - 1, c \in 0 .. VgaCols - 1 :
                 <<r, c>> # <<u.row, u.col>> => u.cells[<<r, c>>] = s.cells[<<r, c>>]
<1> DEFINE t == SteppedBack(s, VgaCols)
           u == VgaBackspace(s)
<1>1. /\ DOMAIN s = Fields /\ s.mode = "VGA" /\ DOMAIN s.cells = VgaBuffer
      /\ s.ink \in Ink /\ s.attr \in Attrs
      /\ s.col \in 0 .. VgaCols - 1 /\ s.row \in 0 .. VgaRows - 1
  BY DEF VgaText
<1>2. /\ DOMAIN t = Fields /\ t.mode = "VGA" /\ t.ink = s.ink /\ t.attr = s.attr
      /\ t.cells = s.cells
      /\ \/ s.col > 0 /\ t.row = s.row /\ t.col = s.col - 1
         \/ s.col = 0 /\ s.row > 0 /\ t.row = s.row - 1 /\ t.col = VgaCols - 1
         \/ s.col = 0 /\ s.row = 0 /\ t.row = s.row /\ t.col = s.col
  <2>1. CASE s.col > 0
    BY <1>1, <2>1 DEF SteppedBack, Fields
  <2>2. CASE ~(s.col > 0) /\ s.row > 0
    <3>1. s.col = 0
      BY <1>1, <2>2
    <3> QED BY <1>1, <2>2, <3>1 DEF SteppedBack, Fields
  <2>3. CASE ~(s.col > 0) /\ ~(s.row > 0)
    <3>1. s.col = 0 /\ s.row = 0
      BY <1>1, <2>3
    <3> QED BY <1>1, <2>3, <3>1 DEF SteppedBack
  <2> QED BY <2>1, <2>2, <2>3
<1>3. u = [t EXCEPT !.cells[<<t.row, t.col>>] = Blank(t.attr)]
  BY DEF VgaBackspace
<1> HIDE DEF t, u
<1>4. /\ DOMAIN u = Fields /\ u.mode = "VGA" /\ u.ink = s.ink /\ u.attr = s.attr
      /\ u.cells = [s.cells EXCEPT ![<<t.row, t.col>>] = Blank(s.attr)]
      /\ u.row = t.row /\ u.col = t.col
  BY <1>2, <1>3 DEF Fields
<1>5. u.row \in 0 .. VgaRows - 1 /\ u.col \in 0 .. VgaCols - 1
  BY <1>1, <1>2, <1>4, Geometry
<1>6. DOMAIN u.cells = VgaBuffer
  BY <1>1, <1>4
<1>7. \A r \in 0 .. VgaRows - 1, c \in 0 .. VgaCols - 1 :
        <<r, c>> # <<u.row, u.col>> => u.cells[<<r, c>>] = s.cells[<<r, c>>]
  <2> TAKE r \in 0 .. VgaRows - 1, c \in 0 .. VgaCols - 1
  <2>1. <<r, c>> \in DOMAIN s.cells
    BY <1>1 DEF VgaBuffer
  <2> QED BY <1>4, <2>1
<1>8. ASSUME NEW r \in 0 .. VgaRows - 1, NEW k \in 0 .. VgaCols - 1,
             r > u.row \/ (r = u.row /\ k >= u.col)
      PROVE  u.cells[<<r, k>>].char = " "
  <2>1. CASE <<r, k>> = <<u.row, u.col>>
    <3>1. <<r, k>> \in DOMAIN s.cells
      BY <1>1 DEF VgaBuffer
    <3>2. u.cells[<<r, k>>] = Blank(s.attr)
      BY <1>4, <2>1, <3>1
    <3>3. Blank(s.attr).char = " "
      BY DEF Blank, Cell
    <3> QED BY <3>2, <3>3
  <2>2. CASE <<r, k>> # <<u.row, u.col>>
    <3>1. u.cells[<<r, k>>] = s.cells[<<r, k>>]
      BY <1>7, <2>2
    <3>2. r > s.row \/ (r = s.row /\ k >= s.col)
      <4>1. r # u.row \/ k # u.col
        BY <2>2
      <4> QED BY <1>1, <1>2, <1>4, <1>8, <4>1, Geometry
    <3>3. s.cells[<<r, k>>].char = " "
      BY <3>2 DEF VgaText
    <3> QED BY <3>1, <3>3
  <2> QED BY <2>1, <2>2
<1>9. VgaText(u, VgaRows)
  BY <1>1, <1>4, <1>5, <1>6, <1>8 DEF VgaText
<1> QED BY <1>4, <1>7, <1>9 DEF t, u

\* It is cleared.
LEMMA VgaClears ==
  ASSUME NEW s, DOMAIN s = Fields, s.mode = "VGA", s.ink \in Ink, s.attr \in Attrs
  PROVE  VgaText(VgaClear(s), VgaRows) /\ VgaClear(s).ink = s.ink /\ VgaClear(s).attr = s.attr
<1> DEFINE u == VgaClear(s)
<1>1. /\ DOMAIN u = Fields /\ u.mode = "VGA" /\ u.ink = s.ink /\ u.attr = s.attr
      /\ u.cells = [p \in VgaBuffer |-> Blank(s.attr)] /\ u.row = 0 /\ u.col = 0
  BY DEF Fields, VgaClear
<1> HIDE DEF u
<1>2. u.row \in 0 .. VgaRows - 1 /\ u.col \in 0 .. VgaCols - 1
  BY <1>1, Geometry
<1>3. \A r \in 0 .. VgaRows - 1, c \in 0 .. VgaCols - 1 : u.cells[<<r, c>>].char = " "
  <2> TAKE r \in 0 .. VgaRows - 1, c \in 0 .. VgaCols - 1
  <2>1. <<r, c>> \in VgaBuffer
    BY DEF VgaBuffer
  <2>2. u.cells[<<r, c>>] = Blank(s.attr)
    BY <1>1, <2>1
  <2>3. Blank(s.attr).char = " "
    BY DEF Blank, Cell
  <2> QED BY <2>2, <2>3
<1>4. VgaText(u, VgaRows)
  BY <1>1, <1>2, <1>3 DEF VgaText
<1> QED BY <1>1, <1>4 DEF u

\* A glyph covers its two bands.
LEMMA DrawIs ==
  ASSUME NEW s, NEW cell, DOMAIN s = Fields, s.row \in Int, s.col \in Int
  PROVE  /\ DOMAIN Draw(s, cell) = Fields /\ Draw(s, cell).mode = s.mode
         /\ Draw(s, cell).ink = s.ink /\ Draw(s, cell).attr = s.attr
         /\ Draw(s, cell).row = s.row /\ Draw(s, cell).col = s.col
         /\ DOMAIN Draw(s, cell).cells = Framebuffer
         /\ \A b \in Bands, c \in 0 .. VbeCols - 1 :
              Draw(s, cell).cells[<<b, c>>] =
                IF (b = 2 * s.row \/ b = 2 * s.row + 1) /\ c = s.col
                THEN cell ELSE s.cells[<<b, c>>]
<1> DEFINE u == Draw(s, cell)
           here == {<<2 * s.row, s.col>>, <<2 * s.row + 1, s.col>>}
<1>1. /\ DOMAIN u = Fields /\ u.mode = s.mode /\ u.ink = s.ink /\ u.attr = s.attr
      /\ u.row = s.row /\ u.col = s.col
      /\ u.cells = [p \in Framebuffer |-> IF p \in here THEN cell ELSE s.cells[p]]
  BY DEF Draw, Fields
<1> HIDE DEF u
<1>2. \A b \in Bands, c \in 0 .. VbeCols - 1 :
        u.cells[<<b, c>>] = IF (b = 2 * s.row \/ b = 2 * s.row + 1) /\ c = s.col
                            THEN cell ELSE s.cells[<<b, c>>]
  <2> TAKE b \in Bands, c \in 0 .. VbeCols - 1
  <2>1. <<b, c>> \in Framebuffer
    BY DEF Framebuffer
  <2>2. <<b, c>> \in here <=> (b = 2 * s.row \/ b = 2 * s.row + 1) /\ c = s.col
    OBVIOUS
  <2>3. u.cells[<<b, c>>] = IF <<b, c>> \in here THEN cell ELSE s.cells[<<b, c>>]
    <3> HIDE DEF here
    <3> QED BY <1>1, <2>1
  <2> QED BY <2>2, <2>3
<1>3. DOMAIN u.cells = Framebuffer
  <2> HIDE DEF here
  <2> QED BY <1>1
<1> QED BY <1>1, <1>2, <1>3 DEF u

\* A band is a row of half-cells.
LEMMA BandType == \A b \in Bands : b \in Int /\ b <= 2 * VbeRows /\ b >= 0
BY Geometry DEF Bands

\* A character on the graphics display.
LEMMA VbeWrites ==
  ASSUME NEW s, NEW c, VbeText(s, VbeRows)
  PROVE  LET u == VbeWritten(s, c)
         IN /\ VbeText(u, VbeRows + 1) /\ u.ink = s.ink /\ u.attr = s.attr
            /\ u.cells = Draw(s, Cell(c, s.ink)).cells
            /\ u.row = IF s.col + 1 < VbeCols THEN s.row ELSE s.row + 1
            /\ u.col = IF s.col + 1 < VbeCols THEN s.col + 1 ELSE 0
<1> DEFINE d == Draw(s, Cell(c, s.ink))
           t == [d EXCEPT !.col = @ + 1]
           u == VbeWritten(s, c)
<1>1. /\ DOMAIN s = Fields /\ s.mode = "VBE" /\ DOMAIN s.cells = Framebuffer
      /\ s.ink \in Ink /\ s.attr \in Attrs
      /\ s.col \in 0 .. VbeCols - 1 /\ s.row \in 0 .. VbeRows - 1
  BY DEF VbeText
<1>2. /\ DOMAIN d = Fields /\ d.mode = "VBE" /\ d.ink = s.ink /\ d.attr = s.attr
      /\ d.row = s.row /\ d.col = s.col /\ DOMAIN d.cells = Framebuffer
      /\ \A b \in Bands, k \in 0 .. VbeCols - 1 :
           d.cells[<<b, k>>] = IF (b = 2 * s.row \/ b = 2 * s.row + 1) /\ k = s.col
                               THEN Cell(c, s.ink) ELSE s.cells[<<b, k>>]
  BY <1>1, DrawIs
<1>3. u = Wrapped(t, VbeCols)
  BY DEF VbeWritten
<1> HIDE DEF d
<1>4. /\ DOMAIN t = Fields /\ t.mode = "VBE" /\ t.ink = s.ink /\ t.attr = s.attr
      /\ t.cells = d.cells /\ t.row = s.row /\ t.col = s.col + 1
  BY <1>1, <1>2 DEF Fields
<1> HIDE DEF t, u
<1>5. /\ DOMAIN u = Fields /\ u.mode = "VBE" /\ u.ink = s.ink /\ u.attr = s.attr
      /\ u.cells = d.cells
      /\ u.row = IF s.col + 1 < VbeCols THEN s.row ELSE s.row + 1
      /\ u.col = IF s.col + 1 < VbeCols THEN s.col + 1 ELSE 0
  <2>1. CASE t.col < VbeCols
    BY <1>1, <1>4, <1>3, <2>1 DEF Wrapped
  <2>2. CASE ~(t.col < VbeCols)
    BY <1>1, <1>4, <1>3, <2>2 DEF Wrapped, Fields
  <2> QED BY <2>1, <2>2
<1>6. u.row \in 0 .. (VbeRows + 1) - 1 /\ u.col \in 0 .. VbeCols - 1
  BY <1>1, <1>5, Geometry
<1>7. ASSUME NEW b \in Bands, NEW k \in 0 .. VbeCols - 1,
             b >= 2 * u.row + 2 \/ (b >= 2 * u.row /\ k >= u.col)
      PROVE  u.cells[<<b, k>>].char = " "
  <2>1. b >= 2 * s.row + 2 \/ (b >= 2 * s.row /\ k > s.col)
    BY <1>1, <1>5, <1>7, Geometry, BandType
  <2>2. ~((b = 2 * s.row \/ b = 2 * s.row + 1) /\ k = s.col)
    BY <1>1, <2>1, BandType
  <2>3. u.cells[<<b, k>>] = s.cells[<<b, k>>]
    BY <1>2, <1>5, <2>2
  <2>4. b >= 2 * s.row + 2 \/ (b >= 2 * s.row /\ k >= s.col)
    BY <1>1, <2>1
  <2>5. s.cells[<<b, k>>].char = " "
    BY <2>4 DEF VbeText
  <2> QED BY <2>3, <2>5
<1>8. VbeText(u, VbeRows + 1)
  BY <1>1, <1>2, <1>5, <1>6, <1>7 DEF VbeText
<1> QED BY <1>5, <1>8 DEF d, u

\* A new row on it.
LEMMA VbeNewRow ==
  ASSUME NEW s, VbeText(s, VbeRows)
  PROVE  LET u == NewRow(s)
         IN VbeText(u, VbeRows + 1) /\ u.ink = s.ink /\ u.attr = s.attr
<1> DEFINE u == NewRow(s)
<1>1. /\ DOMAIN s = Fields /\ s.mode = "VBE" /\ DOMAIN s.cells = Framebuffer
      /\ s.ink \in Ink /\ s.attr \in Attrs
      /\ s.col \in 0 .. VbeCols - 1 /\ s.row \in 0 .. VbeRows - 1
  BY DEF VbeText
<1>2. /\ DOMAIN u = Fields /\ u.mode = "VBE" /\ u.ink = s.ink /\ u.attr = s.attr
      /\ u.cells = s.cells /\ u.row = s.row + 1 /\ u.col = 0
  BY <1>1 DEF Fields, NewRow
<1> HIDE DEF u
<1>3. u.row \in 0 .. (VbeRows + 1) - 1 /\ u.col \in 0 .. VbeCols - 1
  BY <1>1, <1>2, Geometry
<1>4. ASSUME NEW b \in Bands, NEW k \in 0 .. VbeCols - 1,
             b >= 2 * u.row + 2 \/ (b >= 2 * u.row /\ k >= u.col)
      PROVE  u.cells[<<b, k>>].char = " "
  <2>1. b >= 2 * s.row + 2
    BY <1>1, <1>2, <1>4, BandType
  <2>2. s.cells[<<b, k>>].char = " "
    BY <2>1 DEF VbeText
  <2> QED BY <1>2, <2>2
<1>5. VbeText(u, VbeRows + 1)
  BY <1>1, <1>2, <1>3, <1>4 DEF VbeText
<1> QED BY <1>2, <1>5 DEF u

\* It scrolls.
LEMMA VbeScrolls ==
  ASSUME NEW s, VbeText(s, VbeRows + 1), s.row >= VbeRows
  PROVE  LET u == VbeScroll(s)
         IN /\ VbeText(u, VbeRows) /\ u.ink = s.ink /\ u.attr = s.attr
            /\ u.row = s.row - 1 /\ u.col = s.col
            /\ \A b \in 0 .. 2 * VbeRows - 2, c \in 0 .. VbeCols - 1 :
                 u.cells[<<b, c>>] = s.cells[<<b + 2, c>>]
<1> DEFINE u == VbeScroll(s)
<1>1. /\ DOMAIN s = Fields /\ s.mode = "VBE" /\ DOMAIN s.cells = Framebuffer
      /\ s.ink \in Ink /\ s.attr \in Attrs
      /\ s.col \in 0 .. VbeCols - 1 /\ s.row \in Int /\ s.row = VbeRows /\ s.row > 0
  <2>1. s.row \in 0 .. (VbeRows + 1) - 1
    BY DEF VbeText
  <2>2. s.row \in Int /\ s.row = VbeRows /\ s.row > 0
    BY <2>1, Geometry
  <2> QED BY <2>2 DEF VbeText
<1>2. /\ DOMAIN u = Fields /\ u.mode = "VBE" /\ u.ink = s.ink /\ u.attr = s.attr
      /\ u.cells = [p \in Framebuffer |-> IF p[1] + 2 \in Bands
                                          THEN s.cells[<<p[1] + 2, p[2]>>]
                                          ELSE Blank(s.ink)]
      /\ u.row = s.row - 1 /\ u.col = s.col
  BY <1>1 DEF Fields, VbeScroll
<1> HIDE DEF u
<1>3. u.row \in 0 .. VbeRows - 1 /\ u.col \in 0 .. VbeCols - 1
  BY <1>1, <1>2, Geometry
<1>4. DOMAIN u.cells = Framebuffer
  BY <1>2
<1>5. \A b \in Bands, c \in 0 .. VbeCols - 1 :
        u.cells[<<b, c>>] = IF b + 2 \in Bands THEN s.cells[<<b + 2, c>>] ELSE Blank(s.ink)
  <2> TAKE b \in Bands, c \in 0 .. VbeCols - 1
  <2>1. <<b, c>> \in Framebuffer
    BY DEF Framebuffer
  <2> QED BY <1>2, <2>1
<1>6. \A b \in 0 .. 2 * VbeRows - 2, c \in 0 .. VbeCols - 1 :
        u.cells[<<b, c>>] = s.cells[<<b + 2, c>>]
  <2>1. \A b \in 0 .. 2 * VbeRows - 2 : b \in Bands /\ b + 2 \in Bands
    BY Geometry DEF Bands
  <2> QED BY <1>5, <2>1
<1>7. ASSUME NEW b \in Bands, NEW k \in 0 .. VbeCols - 1,
             b >= 2 * u.row + 2 \/ (b >= 2 * u.row /\ k >= u.col)
      PROVE  u.cells[<<b, k>>].char = " "
  <2>1. CASE b + 2 \in Bands
    <3>1. b + 2 >= 2 * s.row
      BY <1>1, <1>2, <1>7, BandType
    <3>2. b + 2 <= 2 * s.row
      BY <1>1, <2>1, BandType
    <3>3. b >= 2 * u.row /\ ~(b >= 2 * u.row + 2)
      BY <1>1, <1>2, <3>1, <3>2, BandType
    <3>4. b + 2 >= 2 * s.row /\ k >= s.col
      BY <1>2, <1>7, <3>1, <3>3
    <3>5. s.cells[<<b + 2, k>>].char = " "
      BY <2>1, <3>4 DEF VbeText
    <3> QED BY <1>5, <2>1, <3>5
  <2>2. CASE b + 2 \notin Bands
    <3>1. Blank(s.ink).char = " "
      BY DEF Blank, Cell
    <3> QED BY <1>5, <2>2, <3>1
  <2> QED BY <2>1, <2>2
<1>8. VbeText(u, VbeRows)
  BY <1>1, <1>2, <1>3, <1>4, <1>7 DEF VbeText
<1> QED BY <1>2, <1>6, <1>8 DEF u

\* A backspace on it.
LEMMA VbeStepsBack ==
  ASSUME NEW s, VbeText(s, VbeRows)
  PROVE  LET u == VbeBackspace(s)
         IN /\ VbeText(u, VbeRows) /\ u.ink = s.ink /\ u.attr = s.attr
            /\ u.row = SteppedBack(s, VbeCols).row /\ u.col = SteppedBack(s, VbeCols).col
            /\ \A b \in Bands, c \in 0 .. VbeCols - 1 :
                 ~((b = 2 * u.row \/ b = 2 * u.row + 1) /\ c = u.col)
                 => u.cells[<<b, c>>] = s.cells[<<b, c>>]
<1> DEFINE t == SteppedBack(s, VbeCols)
           u == VbeBackspace(s)
<1>1. /\ DOMAIN s = Fields /\ s.mode = "VBE" /\ DOMAIN s.cells = Framebuffer
      /\ s.ink \in Ink /\ s.attr \in Attrs
      /\ s.col \in 0 .. VbeCols - 1 /\ s.row \in 0 .. VbeRows - 1
  BY DEF VbeText
<1>2. /\ DOMAIN t = Fields /\ t.mode = "VBE" /\ t.ink = s.ink /\ t.attr = s.attr
      /\ t.cells = s.cells
      /\ \/ s.col > 0 /\ t.row = s.row /\ t.col = s.col - 1
         \/ s.col = 0 /\ s.row > 0 /\ t.row = s.row - 1 /\ t.col = VbeCols - 1
         \/ s.col = 0 /\ s.row = 0 /\ t.row = s.row /\ t.col = s.col
  <2>1. CASE s.col > 0
    BY <1>1, <2>1 DEF SteppedBack, Fields
  <2>2. CASE ~(s.col > 0) /\ s.row > 0
    <3>1. s.col = 0
      BY <1>1, <2>2
    <3> QED BY <1>1, <2>2, <3>1 DEF SteppedBack, Fields
  <2>3. CASE ~(s.col > 0) /\ ~(s.row > 0)
    <3>1. s.col = 0 /\ s.row = 0
      BY <1>1, <2>3
    <3> QED BY <1>1, <2>3, <3>1 DEF SteppedBack
  <2> QED BY <2>1, <2>2, <2>3
<1>3. u = Draw(t, Blank(t.ink))
  BY DEF VbeBackspace
<1> HIDE DEF t, u
<1>4. /\ DOMAIN u = Fields /\ u.mode = "VBE" /\ u.ink = s.ink /\ u.attr = s.attr
      /\ DOMAIN u.cells = Framebuffer /\ u.row = t.row /\ u.col = t.col
  <2>1. t.row \in Int /\ t.col \in Int
    BY <1>1, <1>2, Geometry
  <2> QED BY <1>2, <1>3, <2>1, DrawIs
<1>5. u.row \in 0 .. VbeRows - 1 /\ u.col \in 0 .. VbeCols - 1
  BY <1>1, <1>2, <1>4, Geometry
<1>6. \A b \in Bands, c \in 0 .. VbeCols - 1 :
        u.cells[<<b, c>>] = IF (b = 2 * u.row \/ b = 2 * u.row + 1) /\ c = u.col
                            THEN Blank(t.ink) ELSE s.cells[<<b, c>>]
  <2>1. t.row \in Int /\ t.col \in Int
    BY <1>1, <1>2, Geometry
  <2> DEFINE blank == Blank(t.ink)
  <2>2. u = Draw(t, blank)
    BY <1>3
  <2> HIDE DEF blank
  <2> TAKE b \in Bands, c \in 0 .. VbeCols - 1
  <2>3. Draw(t, blank).cells[<<b, c>>] =
          IF (b = 2 * t.row \/ b = 2 * t.row + 1) /\ c = t.col
          THEN blank ELSE t.cells[<<b, c>>]
    BY <1>2, <2>1, DrawIs
  <2>4. u.row = t.row /\ u.col = t.col /\ t.cells = s.cells
    BY <1>2, <1>4
  <2> QED BY <2>2, <2>3, <2>4 DEF blank
<1>7. ASSUME NEW b \in Bands, NEW k \in 0 .. VbeCols - 1,
             b >= 2 * u.row + 2 \/ (b >= 2 * u.row /\ k >= u.col)
      PROVE  u.cells[<<b, k>>].char = " "
  <2>1. CASE (b = 2 * u.row \/ b = 2 * u.row + 1) /\ k = u.col
    <3>1. u.cells[<<b, k>>] = Blank(t.ink)
      BY <1>6, <2>1
    <3>2. Blank(t.ink).char = " "
      BY DEF Blank, Cell
    <3> QED BY <3>1, <3>2
  <2>2. CASE ~((b = 2 * u.row \/ b = 2 * u.row + 1) /\ k = u.col)
    <3>1. u.cells[<<b, k>>] = s.cells[<<b, k>>]
      BY <1>6, <2>2
    <3>2. b >= 2 * s.row + 2 \/ (b >= 2 * s.row /\ k >= s.col)
      BY <1>1, <1>2, <1>4, <1>7, <2>2, Geometry, BandType
    <3>3. s.cells[<<b, k>>].char = " "
      BY <3>2 DEF VbeText
    <3> QED BY <3>1, <3>3
  <2> QED BY <2>1, <2>2
<1>8. VbeText(u, VbeRows)
  BY <1>1, <1>4, <1>5, <1>7 DEF VbeText
<1> QED BY <1>4, <1>6, <1>8 DEF t, u

\* It is cleared.
LEMMA VbeClears ==
  ASSUME NEW s, DOMAIN s = Fields, s.mode = "VBE", s.ink \in Ink, s.attr \in Attrs
  PROVE  VbeText(VbeClear(s), VbeRows) /\ VbeClear(s).ink = s.ink /\ VbeClear(s).attr = s.attr
<1> DEFINE u == VbeClear(s)
<1>1. /\ DOMAIN u = Fields /\ u.mode = "VBE" /\ u.ink = s.ink /\ u.attr = s.attr
      /\ u.cells = [p \in Framebuffer |-> Blank(s.ink)] /\ u.row = 0 /\ u.col = 0
  BY DEF Fields, VbeClear
<1> HIDE DEF u
<1>2. u.row \in 0 .. VbeRows - 1 /\ u.col \in 0 .. VbeCols - 1
  BY <1>1, Geometry
<1>3. \A b \in Bands, c \in 0 .. VbeCols - 1 : u.cells[<<b, c>>].char = " "
  <2> TAKE b \in Bands, c \in 0 .. VbeCols - 1
  <2>1. <<b, c>> \in Framebuffer
    BY DEF Framebuffer
  <2>2. u.cells[<<b, c>>] = Blank(s.ink)
    BY <1>1, <2>1
  <2>3. Blank(s.ink).char = " "
    BY DEF Blank, Cell
  <2> QED BY <2>2, <2>3
<1>4. VbeText(u, VbeRows)
  BY <1>1, <1>2, <1>3 DEF VbeText
<1> QED BY <1>1, <1>4 DEF u

\* A screen whose cursor is on it, blank from the cursor on.
GoodScreen(s) == VgaText(s, VgaRows) \/ VbeText(s, VbeRows)

\* The same layer, in the same colours.
SameLayer(u, s) == u.mode = s.mode /\ u.ink = s.ink /\ u.attr = s.attr

\* The cells just before the cursor.
Shows(s, f, n) ==
  /\ CursorAt(s) >= n
  /\ \A k \in 1 .. n : CellsAt(s, CursorAt(s) - n + k - 1) = {f[k]}

\* What a character is written with.
Pen(s) == IF s.mode = "VGA" THEN s.attr ELSE s.ink

\* The text display has room for a line.
LEMMA VgaTextFits ==
  ASSUME NEW s, VgaText(s, VgaRows + 1), ~(s.row >= VgaRows)
  PROVE  VgaText(s, VgaRows)
<1>1. s.row \in 0 .. (VgaRows + 1) - 1
  BY DEF VgaText
<1>2. s.row \in 0 .. VgaRows - 1
  BY <1>1, Geometry
<1> QED BY <1>2 DEF VgaText

\* So has the graphics display.
LEMMA VbeTextFits ==
  ASSUME NEW s, VbeText(s, VbeRows + 1), ~(s.row >= VbeRows)
  PROVE  VbeText(s, VbeRows)
<1>1. s.row \in 0 .. (VbeRows + 1) - 1
  BY DEF VbeText
<1>2. s.row \in 0 .. VbeRows - 1
  BY <1>1, Geometry
<1> QED BY <1>2 DEF VbeText

\* A character is a written cell or a new row, then a scroll if need be.
LEMMA PutCharIs ==
  ASSUME NEW s, NEW c
  PROVE  /\ VgaPutChar(s, c) =
              LET t == IF c = Newline THEN NewRow(s) ELSE VgaWritten(s, c)
              IN IF t.row >= VgaRows THEN VgaScroll(t) ELSE t
         /\ VbePutChar(s, c) =
              LET t == IF c = Newline THEN NewRow(s) ELSE VbeWritten(s, c)
              IN IF t.row >= VbeRows THEN VbeScroll(t) ELSE t
BY DEF VgaPutChar, VbePutChar, NewRow, VgaWritten, VbeWritten

\* A character keeps the screen good.
LEMMA PutsChar ==
  ASSUME NEW s, GoodScreen(s), NEW c
  PROVE  GoodScreen(KprintChar(s, c)) /\ SameLayer(KprintChar(s, c), s)
<1>1. CASE VgaText(s, VgaRows)
  <2> DEFINE t == IF c = Newline THEN NewRow(s) ELSE VgaWritten(s, c)
  <2>1. VgaText(t, VgaRows + 1) /\ t.ink = s.ink /\ t.attr = s.attr
    BY <1>1, VgaWrites, VgaNewRow
  <2>2. s.mode = "VGA" /\ KprintChar(s, c) = VgaPutChar(s, c)
    BY <1>1 DEF VgaText, KprintChar
  <2>3. VgaPutChar(s, c) = IF t.row >= VgaRows THEN VgaScroll(t) ELSE t
    BY PutCharIs
  <2> HIDE DEF t
  <2> DEFINE u == IF t.row >= VgaRows THEN VgaScroll(t) ELSE t
  <2>4. VgaText(u, VgaRows) /\ u.ink = s.ink /\ u.attr = s.attr
    <3>1. CASE t.row >= VgaRows
      BY <2>1, <3>1, VgaScrolls
    <3>2. CASE ~(t.row >= VgaRows)
      BY <2>1, <3>2, VgaTextFits
    <3> QED BY <3>1, <3>2
  <2> HIDE DEF u
  <2>5. u.mode = "VGA" /\ KprintChar(s, c) = u
    BY <2>2, <2>3, <2>4 DEF u, VgaText
  <2> QED BY <2>2, <2>4, <2>5 DEF GoodScreen, SameLayer
<1>2. CASE VbeText(s, VbeRows)
  <2> DEFINE t == IF c = Newline THEN NewRow(s) ELSE VbeWritten(s, c)
  <2>1. VbeText(t, VbeRows + 1) /\ t.ink = s.ink /\ t.attr = s.attr
    BY <1>2, VbeWrites, VbeNewRow
  <2>2. s.mode = "VBE" /\ KprintChar(s, c) = VbePutChar(s, c)
    BY <1>2 DEF VbeText, KprintChar
  <2>3. VbePutChar(s, c) = IF t.row >= VbeRows THEN VbeScroll(t) ELSE t
    BY PutCharIs
  <2> HIDE DEF t
  <2> DEFINE u == IF t.row >= VbeRows THEN VbeScroll(t) ELSE t
  <2>4. VbeText(u, VbeRows) /\ u.ink = s.ink /\ u.attr = s.attr
    <3>1. CASE t.row >= VbeRows
      BY <2>1, <3>1, VbeScrolls
    <3>2. CASE ~(t.row >= VbeRows)
      BY <2>1, <3>2, VbeTextFits
    <3> QED BY <3>1, <3>2
  <2> HIDE DEF u
  <2>5. u.mode = "VBE" /\ KprintChar(s, c) = u
    BY <2>2, <2>3, <2>4 DEF u, VbeText
  <2> QED BY <2>2, <2>4, <2>5 DEF GoodScreen, SameLayer
<1> QED BY <1>1, <1>2 DEF GoodScreen

\* So does a backspace.
LEMMA BackspaceKeepsGood ==
  ASSUME NEW s, GoodScreen(s)
  PROVE  GoodScreen(ScreenBackspace(s)) /\ SameLayer(ScreenBackspace(s), s)
<1> DEFINE u == ScreenBackspace(s)
<1>1. CASE VgaText(s, VgaRows)
  <2>1. s.mode = "VGA" /\ u = VgaBackspace(s)
    BY <1>1 DEF VgaText, ScreenBackspace
  <2> HIDE DEF u
  <2>2. VgaText(u, VgaRows) /\ u.ink = s.ink /\ u.attr = s.attr
    BY <1>1, <2>1, VgaStepsBack
  <2>3. u.mode = "VGA"
    BY <2>2 DEF VgaText
  <2> QED BY <2>1, <2>2, <2>3 DEF GoodScreen, SameLayer, u
<1>2. CASE VbeText(s, VbeRows)
  <2>1. s.mode = "VBE" /\ u = VbeBackspace(s)
    BY <1>2 DEF VbeText, ScreenBackspace
  <2> HIDE DEF u
  <2>2. VbeText(u, VbeRows) /\ u.ink = s.ink /\ u.attr = s.attr
    BY <1>2, <2>1, VbeStepsBack
  <2>3. u.mode = "VBE"
    BY <2>2 DEF VbeText
  <2> QED BY <2>1, <2>2, <2>3 DEF GoodScreen, SameLayer, u
<1> QED BY <1>1, <1>2 DEF GoodScreen

\* One cell more at the cursor.
LEMMA WrittenShows ==
  ASSUME NEW s, NEW u, NEW f, NEW n \in Nat, Shows(s, f, n),
         CursorAt(s) \in Nat, CursorAt(u) = CursorAt(s) + 1,
         CellsAt(u, CursorAt(s)) = {f[n + 1]},
         \A i \in 0 .. CursorAt(s) - 1 : CellsAt(u, i) = CellsAt(s, i)
  PROVE  Shows(u, f, n + 1)
<1>1. CursorAt(u) >= n + 1
  BY DEF Shows
<1>2. ASSUME NEW k \in 1 .. n + 1
      PROVE  CellsAt(u, CursorAt(u) - (n + 1) + k - 1) = {f[k]}
  <2>1. CASE k = n + 1
    <3>1. CursorAt(u) - (n + 1) + k - 1 = CursorAt(s)
      BY <2>1
    <3> QED BY <2>1, <3>1
  <2>2. CASE k # n + 1
    <3>1. k \in 1 .. n
      BY <2>2
    <3> DEFINE i == CursorAt(s) - n + k - 1
    <3>2. CellsAt(s, i) = {f[k]}
      BY <3>1 DEF Shows
    <3>3. i \in 0 .. CursorAt(s) - 1
      BY <3>1 DEF Shows
    <3>4. CursorAt(u) - (n + 1) + k - 1 = i
      OBVIOUS
    <3> QED BY <3>2, <3>3, <3>4
  <2> QED BY <2>1, <2>2
<1> QED BY <1>1, <1>2 DEF Shows

\* A row moved out above.
LEMMA ScrolledShows ==
  ASSUME NEW s, NEW u, NEW f, NEW n \in Nat, NEW w \in Nat, Shows(s, f, n),
         CursorAt(s) \in Nat, CursorAt(u) = CursorAt(s) - w, n <= CursorAt(u),
         \A i \in 0 .. CursorAt(u) - 1 : CellsAt(u, i) = CellsAt(s, i + w)
  PROVE  Shows(u, f, n)
<1>1. ASSUME NEW k \in 1 .. n
      PROVE  CellsAt(u, CursorAt(u) - n + k - 1) = {f[k]}
  <2> DEFINE i == CursorAt(u) - n + k - 1
  <2>1. i \in 0 .. CursorAt(u) - 1 /\ i + w = CursorAt(s) - n + k - 1
    OBVIOUS
  <2>2. CellsAt(s, i + w) = {f[k]}
    BY <2>1 DEF Shows
  <2> QED BY <2>1, <2>2
<1> QED BY <1>1 DEF Shows

\* One cell less.
LEMMA ErasedShows ==
  ASSUME NEW s, NEW u, NEW f, NEW n \in Nat, Shows(s, f, n + 1),
         CursorAt(s) \in Nat, CursorAt(u) = CursorAt(s) - 1,
         \A i \in 0 .. CursorAt(u) - 1 : CellsAt(u, i) = CellsAt(s, i)
  PROVE  Shows(u, f, n)
<1>1. CursorAt(u) >= n
  BY DEF Shows
<1>2. ASSUME NEW k \in 1 .. n
      PROVE  CellsAt(u, CursorAt(u) - n + k - 1) = {f[k]}
  <2> DEFINE i == CursorAt(u) - n + k - 1
  <2>1. i \in 0 .. CursorAt(u) - 1 /\ i = CursorAt(s) - (n + 1) + k - 1 /\ k \in 1 .. n + 1
    BY <1>1
  <2>2. CellsAt(s, i) = {f[k]}
    BY <2>1 DEF Shows
  <2> QED BY <2>1, <2>2
<1> QED BY <1>1, <1>2 DEF Shows

-----------------------------------------------------------------------------
(* What stands before the cursor. *)

\* The cursor as a position, and the positions before it.
LEMMA VgaPositions ==
  ASSUME NEW s, NEW rows \in Nat, VgaText(s, rows)
  PROVE  /\ CursorAt(s) = s.row * VgaCols + s.col /\ CursorAt(s) \in Nat
         /\ \A i \in 0 .. CursorAt(s) - 1 :
              /\ i \div VgaCols \in 0 .. s.row /\ i % VgaCols \in 0 .. VgaCols - 1
              /\ i \div VgaCols = s.row => i % VgaCols < s.col
              /\ CellsAt(s, i) = {s.cells[<<i \div VgaCols, i % VgaCols>>]}
<1>1. s.mode = "VGA" /\ s.row \in Nat /\ s.col \in 0 .. VgaCols - 1
  <2>1. s.row \in 0 .. rows - 1
    BY DEF VgaText
  <2>2. s.row \in Nat
    BY <2>1
  <2> QED BY <2>2 DEF VgaText
<1>2. CursorAt(s) = s.row * VgaCols + s.col
  BY <1>1 DEF CursorAt, Cols
<1>3. CursorAt(s) \in Nat
  <2>1. s.row * VgaCols \in Nat
    BY <1>1, Geometry
  <2> QED BY <1>1, <1>2, <2>1
<1>4. \A i : CellsAt(s, i) = {s.cells[<<i \div VgaCols, i % VgaCols>>]}
  BY <1>1 DEF CellsAt
<1>6. ASSUME NEW i \in 0 .. CursorAt(s) - 1
      PROVE  /\ i \div VgaCols \in 0 .. s.row /\ i % VgaCols \in 0 .. VgaCols - 1
             /\ i \div VgaCols = s.row => i % VgaCols < s.col
  <2> DEFINE q == i \div VgaCols
             b == i % VgaCols
  <2>1. i \in Nat
    BY <1>3
  <2>2. q \in Nat /\ b \in 0 .. VgaCols - 1 /\ i = q * VgaCols + b
    BY <2>1, Geometry, RowAndColumn
  <2>3. ~(i >= CursorAt(s))
    BY <1>3, <2>1
  <2> HIDE DEF q, b
  <2>4. ~(q * VgaCols + b >= s.row * VgaCols + s.col)
    BY <1>2, <2>2, <2>3
  <2>5. ~(q > s.row \/ (q = s.row /\ b >= s.col))
    BY <1>1, <2>2, <2>4, Geometry, PositionOrder
  <2> QED BY <1>1, <2>2, <2>5 DEF q, b
<1> QED BY <1>2, <1>3, <1>4, <1>6

\* What the text display shows after a character.
LEMMA VgaWriteShows ==
  ASSUME NEW s, NEW c, NEW f, NEW n \in Nat, VgaText(s, VgaRows), Shows(s, f, n),
         f[n + 1] = Cell(c, s.attr)
  PROVE  Shows(VgaWritten(s, c), f, n + 1)
<1> DEFINE u == VgaWritten(s, c)
<1>1. /\ VgaText(u, VgaRows + 1)
      /\ u.cells = [s.cells EXCEPT ![<<s.row, s.col>>] = Cell(c, s.attr)]
      /\ u.row = IF s.col + 1 < VgaCols THEN s.row ELSE s.row + 1
      /\ u.col = IF s.col + 1 < VgaCols THEN s.col + 1 ELSE 0
  BY VgaWrites
<1>2. /\ DOMAIN s.cells = VgaBuffer /\ u.mode = "VGA"
      /\ s.col \in 0 .. VgaCols - 1 /\ s.row \in 0 .. VgaRows - 1
  BY <1>1 DEF VgaText
<1> HIDE DEF u
<1>3. /\ CursorAt(s) = s.row * VgaCols + s.col /\ CursorAt(s) \in Nat
      /\ \A i \in 0 .. CursorAt(s) - 1 :
           /\ i \div VgaCols \in 0 .. s.row /\ i % VgaCols \in 0 .. VgaCols - 1
           /\ i \div VgaCols = s.row => i % VgaCols < s.col
           /\ CellsAt(s, i) = {s.cells[<<i \div VgaCols, i % VgaCols>>]}
  BY Geometry, VgaPositions
<1>4. CursorAt(u) = u.row * VgaCols + u.col
  <2>1. VgaRows + 1 \in Nat
    BY Geometry
  <2> QED BY <1>1, <2>1, VgaPositions
<1>5. CursorAt(u) = CursorAt(s) + 1
  <2> DEFINE x == s.row * VgaCols
  <2>0. x \in Int /\ (s.row + 1) * VgaCols = x + VgaCols /\ CursorAt(s) = x + s.col
    <3>1. s.row \in Int
      BY <1>2
    <3>2. x \in Int
      BY <3>1, Geometry
    <3>3. (s.row + 1) * VgaCols = x + VgaCols
      BY <3>1, Geometry
    <3> QED BY <1>3, <3>2, <3>3
  <2>1. CASE s.col + 1 < VgaCols
    <3>1. CursorAt(u) = x + (s.col + 1)
      BY <1>1, <1>4, <2>1
    <3> HIDE DEF x
    <3> QED BY <1>2, <2>0, <3>1, Geometry
  <2>2. CASE ~(s.col + 1 < VgaCols)
    <3>1. s.col = VgaCols - 1 /\ u.row = s.row + 1 /\ u.col = 0
      BY <1>1, <1>2, <2>2, Geometry
    <3>2. CursorAt(u) = (x + VgaCols) + 0
      BY <1>4, <2>0, <3>1
    <3> HIDE DEF x
    <3> QED BY <1>2, <2>0, <3>1, <3>2, Geometry
  <2> QED BY <2>1, <2>2
<1>6. \A i : CellsAt(u, i) = {u.cells[<<i \div VgaCols, i % VgaCols>>]}
  BY <1>2 DEF CellsAt
<1>7. CellsAt(u, CursorAt(s)) = {f[n + 1]}
  <2>1. CursorAt(s) \div VgaCols = s.row /\ CursorAt(s) % VgaCols = s.col
    <3>1. s.row \in Nat
      BY <1>2, Geometry
    <3>2. /\ (s.row * VgaCols + s.col) \div VgaCols = s.row
          /\ (s.row * VgaCols + s.col) % VgaCols = s.col
      BY <1>2, <3>1, Geometry, PositionIs
    <3> QED BY <1>3, <3>2
  <2>2. <<s.row, s.col>> \in DOMAIN s.cells
    BY <1>2 DEF VgaBuffer
  <2>3. u.cells[<<s.row, s.col>>] = Cell(c, s.attr)
    BY <1>1, <2>2
  <2> QED BY <1>6, <2>1, <2>3
<1>8. ASSUME NEW i \in 0 .. CursorAt(s) - 1 PROVE CellsAt(u, i) = CellsAt(s, i)
  <2> DEFINE q == i \div VgaCols
             b == i % VgaCols
  <2>1. q \in 0 .. s.row /\ b \in 0 .. VgaCols - 1 /\ (q = s.row => b < s.col)
    BY <1>3
  <2>2. CellsAt(s, i) = {s.cells[<<q, b>>]} /\ CellsAt(u, i) = {u.cells[<<q, b>>]}
    BY <1>3, <1>6
  <2> HIDE DEF q, b
  <2>3. <<q, b>> \in VgaBuffer
    <3>1. q \in 0 .. VgaRows - 1
      BY <1>2, <2>1, Geometry
    <3> QED BY <2>1, <3>1 DEF VgaBuffer
  <2>4. q # s.row \/ b # s.col
    BY <1>2, <2>1
  <2>5. <<q, b>> # <<s.row, s.col>>
    BY <2>4
  <2>6. u.cells[<<q, b>>] = s.cells[<<q, b>>]
    BY <1>1, <1>2, <2>3, <2>5
  <2> QED BY <2>2, <2>6
<1>9. Shows(u, f, n + 1)
  BY <1>3, <1>5, <1>7, <1>8, WrittenShows
<1> QED BY <1>9 DEF u

\* After scrolling.
LEMMA VgaScrollShows ==
  ASSUME NEW s, NEW f, NEW n \in Nat, VgaText(s, VgaRows + 1), s.row >= VgaRows, s.col = 0,
         Shows(s, f, n), n <= VgaCols * (VgaRows - 1)
  PROVE  Shows(VgaScroll(s), f, n)
<1> DEFINE u == VgaScroll(s)
<1>1. /\ VgaText(u, VgaRows) /\ u.row = s.row - 1 /\ u.col = s.col
      /\ \A r \in 0 .. VgaRows - 2, c \in 0 .. VgaCols - 1 :
           u.cells[<<r, c>>] = s.cells[<<r + 1, c>>]
  BY VgaScrolls
<1>2. s.row \in Nat /\ s.row = VgaRows /\ s.mode = "VGA"
  <2>1. s.row \in 0 .. (VgaRows + 1) - 1
    BY DEF VgaText
  <2>2. s.row \in Nat /\ s.row = VgaRows
    BY <2>1, Geometry
  <2> QED BY <2>2 DEF VgaText
<1> HIDE DEF u
<1>3. CursorAt(s) = s.row * VgaCols + s.col /\ CursorAt(s) \in Nat
  <2>1. VgaRows + 1 \in Nat
    BY Geometry
  <2> QED BY <2>1, VgaPositions
<1>4. /\ CursorAt(u) = u.row * VgaCols + u.col /\ CursorAt(u) \in Nat
      /\ \A i \in 0 .. CursorAt(u) - 1 :
           /\ i \div VgaCols \in 0 .. u.row /\ i % VgaCols \in 0 .. VgaCols - 1
           /\ i \div VgaCols = u.row => i % VgaCols < u.col
           /\ CellsAt(u, i) = {u.cells[<<i \div VgaCols, i % VgaCols>>]}
  BY <1>1, Geometry, VgaPositions
<1>5. CursorAt(u) = CursorAt(s) - VgaCols /\ n <= CursorAt(u)
  <2>1. (VgaRows - 1) * VgaCols = VgaRows * VgaCols - VgaCols
    BY Geometry
  <2>2. VgaCols * (VgaRows - 1) = (VgaRows - 1) * VgaCols
    BY Geometry
  <2>3. CursorAt(u) = (VgaRows - 1) * VgaCols /\ CursorAt(s) = VgaRows * VgaCols
    <3> DEFINE x == (VgaRows - 1) * VgaCols
               y == VgaRows * VgaCols
    <3>1. u.row = VgaRows - 1 /\ u.col = 0
      BY <1>1, <1>2
    <3>2. CursorAt(u) = x + 0 /\ CursorAt(s) = y + 0
      BY <1>2, <1>3, <1>4, <3>1
    <3>3. x \in Int /\ y \in Int
      BY Geometry
    <3> HIDE DEF x, y
    <3>4. CursorAt(u) = x /\ CursorAt(s) = y
      BY <3>2, <3>3
    <3> QED BY <3>4 DEF x, y
  <2> QED BY <2>1, <2>2, <2>3
<1>6. ASSUME NEW i \in 0 .. CursorAt(u) - 1 PROVE CellsAt(u, i) = CellsAt(s, i + VgaCols)
  <2> DEFINE q == i \div VgaCols
             b == i % VgaCols
  <2>1. /\ q \in 0 .. u.row /\ b \in 0 .. VgaCols - 1 /\ (q = u.row => b < u.col)
        /\ CellsAt(u, i) = {u.cells[<<q, b>>]}
    BY <1>4
  <2>2. (i + VgaCols) \div VgaCols = q + 1 /\ (i + VgaCols) % VgaCols = b
    <3>1. CursorAt(u) \in Nat
      BY <1>4
    <3>2. i \in Nat
      BY <3>1
    <3> QED BY <3>2, Geometry, NextRowPosition
  <2>3. CellsAt(s, i + VgaCols) = {s.cells[<<q + 1, b>>]}
    BY <1>2, <2>2 DEF CellsAt
  <2> HIDE DEF q, b
  <2>4. q \in 0 .. VgaRows - 2
    BY <1>1, <1>2, <2>1, Geometry
  <2>5. u.cells[<<q, b>>] = s.cells[<<q + 1, b>>]
    BY <1>1, <2>1, <2>4
  <2> QED BY <2>1, <2>3, <2>5
<1>7. Shows(u, f, n)
  BY <1>3, <1>5, <1>6, Geometry, ScrolledShows
<1> QED BY <1>7 DEF u

\* After a backspace.
LEMMA VgaBackShows ==
  ASSUME NEW s, NEW f, NEW n \in Nat, VgaText(s, VgaRows), Shows(s, f, n + 1)
  PROVE  Shows(VgaBackspace(s), f, n)
<1> DEFINE t == SteppedBack(s, VgaCols)
           u == VgaBackspace(s)
<1>1. /\ VgaText(u, VgaRows) /\ u.row = t.row /\ u.col = t.col
      /\ \A r \in 0 .. VgaRows - 1, c \in 0 .. VgaCols - 1 :
           <<r, c>> # <<u.row, u.col>> => u.cells[<<r, c>>] = s.cells[<<r, c>>]
  BY VgaStepsBack
<1>2. /\ DOMAIN s = Fields /\ s.mode = "VGA"
      /\ s.col \in 0 .. VgaCols - 1 /\ s.row \in 0 .. VgaRows - 1
  BY DEF VgaText
<1>3. CursorAt(s) = s.row * VgaCols + s.col /\ CursorAt(s) \in Nat
  BY Geometry, VgaPositions
<1>4. ~(s.col = 0 /\ s.row = 0)
  <2>1. SUFFICES ASSUME s.col = 0, s.row = 0 PROVE FALSE
    OBVIOUS
  <2>2. CursorAt(s) = 0
    BY <1>3, <2>1, Geometry
  <2> QED BY <2>2 DEF Shows
<1>5. \/ s.col > 0 /\ t.row = s.row /\ t.col = s.col - 1
      \/ s.col = 0 /\ s.row > 0 /\ t.row = s.row - 1 /\ t.col = VgaCols - 1
  <2>1. CASE s.col > 0
    BY <1>2, <2>1 DEF SteppedBack, Fields
  <2>2. CASE ~(s.col > 0)
    <3>1. s.col = 0 /\ s.row > 0
      BY <1>2, <1>4, <2>2
    <3> QED BY <1>2, <2>2, <3>1 DEF SteppedBack, Fields
  <2> QED BY <2>1, <2>2
<1> HIDE DEF t, u
<1>6. /\ CursorAt(u) = u.row * VgaCols + u.col /\ CursorAt(u) \in Nat
      /\ \A i \in 0 .. CursorAt(u) - 1 :
           /\ i \div VgaCols \in 0 .. u.row /\ i % VgaCols \in 0 .. VgaCols - 1
           /\ i \div VgaCols = u.row => i % VgaCols < u.col
           /\ CellsAt(u, i) = {u.cells[<<i \div VgaCols, i % VgaCols>>]}
  BY <1>1, Geometry, VgaPositions
<1>7. CursorAt(u) = CursorAt(s) - 1
  <2> DEFINE x == s.row * VgaCols
  <2>0. x \in Int /\ (s.row - 1) * VgaCols = x - VgaCols /\ CursorAt(s) = x + s.col
    BY <1>2, <1>3, Geometry
  <2>1. CASE s.col > 0 /\ t.row = s.row /\ t.col = s.col - 1
    <3>1. CursorAt(u) = x + (s.col - 1)
      BY <1>1, <1>6, <2>1
    <3> HIDE DEF x
    <3> QED BY <1>2, <2>0, <3>1, Geometry
  <2>2. CASE s.col = 0 /\ s.row > 0 /\ t.row = s.row - 1 /\ t.col = VgaCols - 1
    <3>1. CursorAt(u) = (x - VgaCols) + (VgaCols - 1)
      BY <1>1, <1>6, <2>0, <2>2
    <3> HIDE DEF x
    <3> QED BY <1>2, <2>0, <2>2, <3>1, Geometry
  <2> QED BY <1>5, <2>1, <2>2
<1>8. ASSUME NEW i \in 0 .. CursorAt(u) - 1 PROVE CellsAt(u, i) = CellsAt(s, i)
  <2> DEFINE q == i \div VgaCols
             b == i % VgaCols
  <2>1. /\ q \in 0 .. u.row /\ b \in 0 .. VgaCols - 1 /\ (q = u.row => b < u.col)
        /\ CellsAt(u, i) = {u.cells[<<q, b>>]}
    BY <1>6
  <2>2. CellsAt(s, i) = {s.cells[<<q, b>>]}
    BY <1>2 DEF CellsAt
  <2> HIDE DEF q, b
  <2>3. u.row \in 0 .. VgaRows - 1 /\ u.col \in 0 .. VgaCols - 1
    BY <1>1 DEF VgaText
  <2>4. q \in 0 .. VgaRows - 1 /\ <<q, b>> # <<u.row, u.col>>
    <3>1. q # u.row \/ b # u.col
      BY <2>1, <2>3
    <3>2. q \in 0 .. VgaRows - 1
      BY <2>1, <2>3, Geometry
    <3> QED BY <3>1, <3>2
  <2>5. u.cells[<<q, b>>] = s.cells[<<q, b>>]
    BY <1>1, <2>1, <2>4
  <2> QED BY <2>1, <2>2, <2>5
<1>9. Shows(u, f, n)
  BY <1>3, <1>7, <1>8, ErasedShows
<1> QED BY <1>9 DEF u

\* The two halves of a cell of the framebuffer's text.
Pair(s, r, k) == {s.cells[<<2 * r, k>>], s.cells[<<2 * r + 1, k>>]}

\* The cells of the graphics display.
LEMMA VbeCellsAt ==
  ASSUME NEW s, NEW i \in Nat, s.mode = "VBE"
  PROVE  CellsAt(s, i) = Pair(s, i \div VbeCols, i % VbeCols)
<1> DEFINE q == i \div VbeCols
           b == i % VbeCols
<1>1. q \in Int
  BY Geometry
<1>2. CellsAt(s, i) = {s.cells[<<2 * q + h, b>>] : h \in {0, 1}}
  BY DEF CellsAt
<1> HIDE DEF q, b
<1>3. {s.cells[<<2 * q + h, b>>] : h \in {0, 1}} = {s.cells[<<2 * q + 0, b>>], s.cells[<<2 * q + 1, b>>]}
  OBVIOUS
<1>4. 2 * q + 0 = 2 * q
  BY <1>1
<1> QED BY <1>2, <1>3, <1>4 DEF Pair, q, b

\* The cursor as a position, and the positions before it.
LEMMA VbePositions ==
  ASSUME NEW s, NEW rows \in Nat, VbeText(s, rows)
  PROVE  /\ CursorAt(s) = s.row * VbeCols + s.col /\ CursorAt(s) \in Nat
         /\ \A i \in 0 .. CursorAt(s) - 1 :
              /\ i \div VbeCols \in 0 .. s.row /\ i % VbeCols \in 0 .. VbeCols - 1
              /\ i \div VbeCols = s.row => i % VbeCols < s.col
              /\ CellsAt(s, i) = Pair(s, i \div VbeCols, i % VbeCols)
<1>1. s.mode = "VBE" /\ s.row \in Nat /\ s.col \in 0 .. VbeCols - 1
  <2>1. s.row \in 0 .. rows - 1
    BY DEF VbeText
  <2>2. s.row \in Nat
    BY <2>1
  <2> QED BY <2>2 DEF VbeText
<1>2. CursorAt(s) = s.row * VbeCols + s.col
  BY <1>1 DEF CursorAt, Cols
<1>3. CursorAt(s) \in Nat
  <2>1. s.row * VbeCols \in Nat
    BY <1>1, Geometry
  <2> QED BY <1>1, <1>2, <2>1
<1>4. \A i \in Nat : CellsAt(s, i) = Pair(s, i \div VbeCols, i % VbeCols)
  BY <1>1, VbeCellsAt
<1>6. ASSUME NEW i \in 0 .. CursorAt(s) - 1
      PROVE  /\ i \div VbeCols \in 0 .. s.row /\ i % VbeCols \in 0 .. VbeCols - 1
             /\ i \div VbeCols = s.row => i % VbeCols < s.col
  <2> DEFINE q == i \div VbeCols
             b == i % VbeCols
  <2>1. i \in Nat
    BY <1>3
  <2>2. q \in Nat /\ b \in 0 .. VbeCols - 1 /\ i = q * VbeCols + b
    BY <2>1, Geometry, RowAndColumn
  <2>3. ~(i >= CursorAt(s))
    BY <1>3, <2>1
  <2> HIDE DEF q, b
  <2>4. ~(q * VbeCols + b >= s.row * VbeCols + s.col)
    BY <1>2, <2>2, <2>3
  <2>5. ~(q > s.row \/ (q = s.row /\ b >= s.col))
    BY <1>1, <2>2, <2>4, Geometry, PositionOrder
  <2> QED BY <1>1, <2>2, <2>5 DEF q, b
<1> QED BY <1>2, <1>3, <1>4, <1>6

\* What it shows after a character.
LEMMA VbeWriteShows ==
  ASSUME NEW s, NEW c, NEW f, NEW n \in Nat, VbeText(s, VbeRows), Shows(s, f, n),
         f[n + 1] = Cell(c, s.ink)
  PROVE  Shows(VbeWritten(s, c), f, n + 1)
<1> DEFINE u == VbeWritten(s, c)
<1>1. /\ VbeText(u, VbeRows + 1)
      /\ u.cells = Draw(s, Cell(c, s.ink)).cells
      /\ u.row = IF s.col + 1 < VbeCols THEN s.row ELSE s.row + 1
      /\ u.col = IF s.col + 1 < VbeCols THEN s.col + 1 ELSE 0
  BY VbeWrites
<1>2. /\ DOMAIN s = Fields /\ s.mode = "VBE" /\ u.mode = "VBE"
      /\ s.col \in 0 .. VbeCols - 1 /\ s.row \in 0 .. VbeRows - 1
  BY <1>1 DEF VbeText
<1> HIDE DEF u
<1>3. /\ CursorAt(s) = s.row * VbeCols + s.col /\ CursorAt(s) \in Nat
      /\ \A i \in 0 .. CursorAt(s) - 1 :
           /\ i \div VbeCols \in 0 .. s.row /\ i % VbeCols \in 0 .. VbeCols - 1
           /\ i \div VbeCols = s.row => i % VbeCols < s.col
           /\ CellsAt(s, i) = Pair(s, i \div VbeCols, i % VbeCols)
  BY Geometry, VbePositions
<1>4. CursorAt(u) = u.row * VbeCols + u.col
  <2>1. VbeRows + 1 \in Nat
    BY Geometry
  <2> QED BY <1>1, <2>1, VbePositions
<1>5. CursorAt(u) = CursorAt(s) + 1
  <2> DEFINE x == s.row * VbeCols
  <2>0. x \in Int /\ (s.row + 1) * VbeCols = x + VbeCols /\ CursorAt(s) = x + s.col
    <3>1. s.row \in Int
      BY <1>2
    <3>2. x \in Int
      BY <3>1, Geometry
    <3>3. (s.row + 1) * VbeCols = x + VbeCols
      BY <3>1, Geometry
    <3> QED BY <1>3, <3>2, <3>3
  <2>1. CASE s.col + 1 < VbeCols
    <3>1. CursorAt(u) = x + (s.col + 1)
      BY <1>1, <1>4, <2>1
    <3> HIDE DEF x
    <3> QED BY <1>2, <2>0, <3>1, Geometry
  <2>2. CASE ~(s.col + 1 < VbeCols)
    <3>1. s.col = VbeCols - 1 /\ u.row = s.row + 1 /\ u.col = 0
      BY <1>1, <1>2, <2>2, Geometry
    <3>2. CursorAt(u) = (x + VbeCols) + 0
      BY <1>4, <2>0, <3>1
    <3> HIDE DEF x
    <3> QED BY <1>2, <2>0, <3>1, <3>2, Geometry
  <2> QED BY <2>1, <2>2
<1>6. \A i \in Nat : CellsAt(u, i) = Pair(u, i \div VbeCols, i % VbeCols)
  BY <1>2, VbeCellsAt
<1>10. \A r \in 0 .. VbeRows - 1, k \in 0 .. VbeCols - 1 :
        Pair(u, r, k) = IF r = s.row /\ k = s.col THEN {Cell(c, s.ink)} ELSE Pair(s, r, k)
  <2> TAKE r \in 0 .. VbeRows - 1, k \in 0 .. VbeCols - 1
  <2> DEFINE cell == Cell(c, s.ink)
  <2>1. s.row \in Int /\ s.col \in Int
    BY <1>2
  <2>2. 2 * r \in Bands /\ 2 * r + 1 \in Bands
    BY Geometry DEF Bands
  <2> HIDE DEF cell
  <2>3. /\ Draw(s, cell).cells[<<2 * r, k>>] =
             IF (2 * r = 2 * s.row \/ 2 * r = 2 * s.row + 1) /\ k = s.col
             THEN cell ELSE s.cells[<<2 * r, k>>]
        /\ Draw(s, cell).cells[<<2 * r + 1, k>>] =
             IF (2 * r + 1 = 2 * s.row \/ 2 * r + 1 = 2 * s.row + 1) /\ k = s.col
             THEN cell ELSE s.cells[<<2 * r + 1, k>>]
    BY <1>2, <2>1, <2>2, DrawIs
  <2>4. /\ 2 * r # 2 * s.row + 1 /\ 2 * r + 1 # 2 * s.row
        /\ (2 * r = 2 * s.row <=> r = s.row) /\ (2 * r + 1 = 2 * s.row + 1 <=> r = s.row)
    BY <2>1
  <2>5. /\ u.cells[<<2 * r, k>>] = IF r = s.row /\ k = s.col THEN cell ELSE s.cells[<<2 * r, k>>]
        /\ u.cells[<<2 * r + 1, k>>] =
             IF r = s.row /\ k = s.col THEN cell ELSE s.cells[<<2 * r + 1, k>>]
    BY <1>1, <2>3, <2>4 DEF cell
  <2> QED BY <2>5 DEF cell, Pair
<1>7. CellsAt(u, CursorAt(s)) = {f[n + 1]}
  <2>1. CursorAt(s) \div VbeCols = s.row /\ CursorAt(s) % VbeCols = s.col
    <3>1. s.row \in Nat
      BY <1>2, Geometry
    <3>2. /\ (s.row * VbeCols + s.col) \div VbeCols = s.row
          /\ (s.row * VbeCols + s.col) % VbeCols = s.col
      BY <1>2, <3>1, Geometry, PositionIs
    <3> QED BY <1>3, <3>2
  <2>2. Pair(u, s.row, s.col) = {Cell(c, s.ink)}
    BY <1>2, <1>10
  <2> QED BY <1>3, <1>6, <2>1, <2>2
<1>8. ASSUME NEW i \in 0 .. CursorAt(s) - 1 PROVE CellsAt(u, i) = CellsAt(s, i)
  <2> DEFINE q == i \div VbeCols
             b == i % VbeCols
  <2>1. q \in 0 .. s.row /\ b \in 0 .. VbeCols - 1 /\ (q = s.row => b < s.col)
    BY <1>3
  <2>2. CellsAt(s, i) = Pair(s, q, b) /\ CellsAt(u, i) = Pair(u, q, b)
    <3>1. i \in Nat
      BY <1>3
    <3> QED BY <1>3, <1>6, <3>1
  <2> HIDE DEF q, b
  <2>3. q \in 0 .. VbeRows - 1
    BY <1>2, <2>1, Geometry
  <2>4. ~(q = s.row /\ b = s.col)
    BY <1>2, <2>1
  <2>5. Pair(u, q, b) = Pair(s, q, b)
    BY <1>10, <2>1, <2>3, <2>4
  <2> QED BY <2>2, <2>5
<1>9. Shows(u, f, n + 1)
  BY <1>3, <1>5, <1>7, <1>8, WrittenShows
<1> QED BY <1>9 DEF u

\* After scrolling.
LEMMA VbeScrollShows ==
  ASSUME NEW s, NEW f, NEW n \in Nat, VbeText(s, VbeRows + 1), s.row >= VbeRows, s.col = 0,
         Shows(s, f, n), n <= VbeCols * (VbeRows - 1)
  PROVE  Shows(VbeScroll(s), f, n)
<1> DEFINE u == VbeScroll(s)
<1>1. /\ VbeText(u, VbeRows) /\ u.row = s.row - 1 /\ u.col = s.col
      /\ \A b \in 0 .. 2 * VbeRows - 2, c \in 0 .. VbeCols - 1 :
           u.cells[<<b, c>>] = s.cells[<<b + 2, c>>]
  BY VbeScrolls
<1>2. s.row \in Nat /\ s.row = VbeRows /\ s.mode = "VBE"
  <2>1. s.row \in 0 .. (VbeRows + 1) - 1
    BY DEF VbeText
  <2>2. s.row \in Nat /\ s.row = VbeRows
    BY <2>1, Geometry
  <2> QED BY <2>2 DEF VbeText
<1> HIDE DEF u
<1>3. CursorAt(s) = s.row * VbeCols + s.col /\ CursorAt(s) \in Nat
  <2>1. VbeRows + 1 \in Nat
    BY Geometry
  <2> QED BY <2>1, VbePositions
<1>4. /\ CursorAt(u) = u.row * VbeCols + u.col /\ CursorAt(u) \in Nat
      /\ \A i \in 0 .. CursorAt(u) - 1 :
           /\ i \div VbeCols \in 0 .. u.row /\ i % VbeCols \in 0 .. VbeCols - 1
           /\ i \div VbeCols = u.row => i % VbeCols < u.col
           /\ CellsAt(u, i) = Pair(u, i \div VbeCols, i % VbeCols)
  BY <1>1, Geometry, VbePositions
<1>5. CursorAt(u) = CursorAt(s) - VbeCols /\ n <= CursorAt(u)
  <2>1. (VbeRows - 1) * VbeCols = VbeRows * VbeCols - VbeCols
    BY Geometry
  <2>2. VbeCols * (VbeRows - 1) = (VbeRows - 1) * VbeCols
    BY Geometry
  <2>3. CursorAt(u) = (VbeRows - 1) * VbeCols /\ CursorAt(s) = VbeRows * VbeCols
    <3> DEFINE x == (VbeRows - 1) * VbeCols
               y == VbeRows * VbeCols
    <3>1. u.row = VbeRows - 1 /\ u.col = 0
      BY <1>1, <1>2
    <3>2. CursorAt(u) = x + 0 /\ CursorAt(s) = y + 0
      BY <1>2, <1>3, <1>4, <3>1
    <3>3. x \in Int /\ y \in Int
      BY Geometry
    <3> HIDE DEF x, y
    <3>4. CursorAt(u) = x /\ CursorAt(s) = y
      BY <3>2, <3>3
    <3> QED BY <3>4 DEF x, y
  <2> QED BY <2>1, <2>2, <2>3
<1>6. ASSUME NEW i \in 0 .. CursorAt(u) - 1 PROVE CellsAt(u, i) = CellsAt(s, i + VbeCols)
  <2> DEFINE q == i \div VbeCols
             b == i % VbeCols
  <2>1. /\ q \in 0 .. u.row /\ b \in 0 .. VbeCols - 1 /\ (q = u.row => b < u.col)
        /\ CellsAt(u, i) = Pair(u, q, b)
    BY <1>4
  <2>0. i \in Nat
    <3>1. CursorAt(u) \in Nat
      BY <1>4
    <3> QED BY <3>1
  <2>2. (i + VbeCols) \div VbeCols = q + 1 /\ (i + VbeCols) % VbeCols = b
    BY <2>0, Geometry, NextRowPosition
  <2>3. CellsAt(s, i + VbeCols) = Pair(s, q + 1, b)
    <3>1. i + VbeCols \in Nat
      BY <2>0, Geometry
    <3>2. CellsAt(s, i + VbeCols) = Pair(s, (i + VbeCols) \div VbeCols, (i + VbeCols) % VbeCols)
      BY <1>2, <3>1, VbeCellsAt
    <3> QED BY <2>2, <3>2
  <2> HIDE DEF q, b
  <2>4. q \in 0 .. VbeRows - 2
    BY <1>1, <1>2, <2>1, Geometry
  <2>5. Pair(u, q, b) = Pair(s, q + 1, b)
    <3>1. 2 * q \in 0 .. 2 * VbeRows - 2 /\ 2 * q + 1 \in 0 .. 2 * VbeRows - 2
      BY <2>4, Geometry
    <3>2. u.cells[<<2 * q, b>>] = s.cells[<<2 * q + 2, b>>]
      BY <1>1, <2>1, <3>1
    <3>3. u.cells[<<2 * q + 1, b>>] = s.cells[<<(2 * q + 1) + 2, b>>]
      BY <1>1, <2>1, <3>1
    <3>4. 2 * q + 2 = 2 * (q + 1) /\ (2 * q + 1) + 2 = 2 * (q + 1) + 1
      BY <2>4
    <3> QED BY <3>2, <3>3, <3>4 DEF Pair
  <2> QED BY <2>1, <2>3, <2>5
<1>7. Shows(u, f, n)
  BY <1>3, <1>5, <1>6, Geometry, ScrolledShows
<1> QED BY <1>7 DEF u

\* After a backspace.
LEMMA VbeBackShows ==
  ASSUME NEW s, NEW f, NEW n \in Nat, VbeText(s, VbeRows), Shows(s, f, n + 1)
  PROVE  Shows(VbeBackspace(s), f, n)
<1> DEFINE t == SteppedBack(s, VbeCols)
           u == VbeBackspace(s)
<1>1. /\ VbeText(u, VbeRows) /\ u.row = t.row /\ u.col = t.col
      /\ \A b \in Bands, c \in 0 .. VbeCols - 1 :
           ~((b = 2 * u.row \/ b = 2 * u.row + 1) /\ c = u.col)
           => u.cells[<<b, c>>] = s.cells[<<b, c>>]
  BY VbeStepsBack
<1>2. /\ DOMAIN s = Fields /\ s.mode = "VBE"
      /\ s.col \in 0 .. VbeCols - 1 /\ s.row \in 0 .. VbeRows - 1
  BY DEF VbeText
<1>3. CursorAt(s) = s.row * VbeCols + s.col /\ CursorAt(s) \in Nat
  BY Geometry, VbePositions
<1>4. ~(s.col = 0 /\ s.row = 0)
  <2>1. SUFFICES ASSUME s.col = 0, s.row = 0 PROVE FALSE
    OBVIOUS
  <2>2. CursorAt(s) = 0
    BY <1>3, <2>1, Geometry
  <2> QED BY <2>2 DEF Shows
<1>5. \/ s.col > 0 /\ t.row = s.row /\ t.col = s.col - 1
      \/ s.col = 0 /\ s.row > 0 /\ t.row = s.row - 1 /\ t.col = VbeCols - 1
  <2>1. CASE s.col > 0
    BY <1>2, <2>1 DEF SteppedBack, Fields
  <2>2. CASE ~(s.col > 0)
    <3>1. s.col = 0 /\ s.row > 0
      BY <1>2, <1>4, <2>2
    <3> QED BY <1>2, <2>2, <3>1 DEF SteppedBack, Fields
  <2> QED BY <2>1, <2>2
<1> HIDE DEF t, u
<1>6. /\ CursorAt(u) = u.row * VbeCols + u.col /\ CursorAt(u) \in Nat
      /\ \A i \in 0 .. CursorAt(u) - 1 :
           /\ i \div VbeCols \in 0 .. u.row /\ i % VbeCols \in 0 .. VbeCols - 1
           /\ i \div VbeCols = u.row => i % VbeCols < u.col
           /\ CellsAt(u, i) = Pair(u, i \div VbeCols, i % VbeCols)
  BY <1>1, Geometry, VbePositions
<1>7. CursorAt(u) = CursorAt(s) - 1
  <2> DEFINE x == s.row * VbeCols
  <2>0. x \in Int /\ (s.row - 1) * VbeCols = x - VbeCols /\ CursorAt(s) = x + s.col
    BY <1>2, <1>3, Geometry
  <2>1. CASE s.col > 0 /\ t.row = s.row /\ t.col = s.col - 1
    <3>1. CursorAt(u) = x + (s.col - 1)
      BY <1>1, <1>6, <2>1
    <3> HIDE DEF x
    <3> QED BY <1>2, <2>0, <3>1, Geometry
  <2>2. CASE s.col = 0 /\ s.row > 0 /\ t.row = s.row - 1 /\ t.col = VbeCols - 1
    <3>1. CursorAt(u) = (x - VbeCols) + (VbeCols - 1)
      BY <1>1, <1>6, <2>0, <2>2
    <3> HIDE DEF x
    <3> QED BY <1>2, <2>0, <2>2, <3>1, Geometry
  <2> QED BY <1>5, <2>1, <2>2
<1>8. ASSUME NEW i \in 0 .. CursorAt(u) - 1 PROVE CellsAt(u, i) = CellsAt(s, i)
  <2> DEFINE q == i \div VbeCols
             b == i % VbeCols
  <2>1. /\ q \in 0 .. u.row /\ b \in 0 .. VbeCols - 1 /\ (q = u.row => b < u.col)
        /\ CellsAt(u, i) = Pair(u, q, b)
    BY <1>6
  <2>2. CellsAt(s, i) = Pair(s, q, b)
    <3>1. CursorAt(u) \in Nat
      BY <1>6
    <3>2. i \in Nat
      BY <3>1
    <3> QED BY <1>2, <3>2, VbeCellsAt
  <2> HIDE DEF q, b
  <2>3. u.row \in 0 .. VbeRows - 1 /\ u.col \in 0 .. VbeCols - 1
    BY <1>1 DEF VbeText
  <2>4. ~(q = u.row /\ b = u.col) /\ q \in 0 .. VbeRows - 1
    BY <2>1, <2>3, Geometry
  <2>5. Pair(u, q, b) = Pair(s, q, b)
    <3>1. 2 * q \in Bands /\ 2 * q + 1 \in Bands
      BY <2>4, Geometry DEF Bands
    <3>2. /\ ~((2 * q = 2 * u.row \/ 2 * q = 2 * u.row + 1) /\ b = u.col)
          /\ ~((2 * q + 1 = 2 * u.row \/ 2 * q + 1 = 2 * u.row + 1) /\ b = u.col)
      BY <2>3, <2>4
    <3>3. /\ u.cells[<<2 * q, b>>] = s.cells[<<2 * q, b>>]
          /\ u.cells[<<2 * q + 1, b>>] = s.cells[<<2 * q + 1, b>>]
      BY <1>1, <2>1, <3>1, <3>2
    <3> QED BY <3>3 DEF Pair
  <2> QED BY <2>1, <2>2, <2>5
<1>9. Shows(u, f, n)
  BY <1>3, <1>7, <1>8, ErasedShows
<1> QED BY <1>9 DEF u

\* A text that leaves a row of either screen free.
Fits(n) == n <= VgaCols * (VgaRows - 1) /\ n <= VbeCols * (VbeRows - 1)

\* A character that is not a newline stands before the cursor, after what stood
\* there, whether the row wraps or the screen scrolls.
LEMMA PutsShown ==
  ASSUME NEW s, NEW c, NEW f, NEW n \in Nat, GoodScreen(s), c # Newline, Shows(s, f, n),
         f[n + 1] = Cell(c, Pen(s)), Fits(n + 1)
  PROVE  Shows(KprintChar(s, c), f, n + 1)
<1>1. CASE VgaText(s, VgaRows)
  <2> DEFINE t == VgaWritten(s, c)
  <2>1. s.mode = "VGA" /\ KprintChar(s, c) = VgaPutChar(s, c) /\ Pen(s) = s.attr
    BY <1>1 DEF VgaText, KprintChar, Pen
  <2>2. VgaPutChar(s, c) = IF t.row >= VgaRows THEN VgaScroll(t) ELSE t
    BY PutCharIs
  <2>3. /\ VgaText(t, VgaRows + 1)
        /\ t.row = IF s.col + 1 < VgaCols THEN s.row ELSE s.row + 1
        /\ t.col = IF s.col + 1 < VgaCols THEN s.col + 1 ELSE 0
    BY <1>1, VgaWrites
  <2>4. Shows(t, f, n + 1)
    BY <1>1, <2>1, VgaWriteShows
  <2> HIDE DEF t
  <2>5. CASE t.row >= VgaRows
    <3>1. t.col = 0
      <4>1. s.row \in 0 .. VgaRows - 1
        BY <1>1 DEF VgaText
      <4> QED BY <2>3, <2>5, <4>1, Geometry
    <3>2. n + 1 \in Nat /\ n + 1 <= VgaCols * (VgaRows - 1)
      BY DEF Fits
    <3>3. Shows(VgaScroll(t), f, n + 1)
      BY <2>3, <2>4, <2>5, <3>1, <3>2, VgaScrollShows
    <3> QED BY <2>1, <2>2, <2>5, <3>3
  <2>6. CASE ~(t.row >= VgaRows)
    BY <2>1, <2>2, <2>4, <2>6
  <2> QED BY <2>5, <2>6
<1>2. CASE VbeText(s, VbeRows)
  <2> DEFINE t == VbeWritten(s, c)
  <2>1. s.mode = "VBE" /\ KprintChar(s, c) = VbePutChar(s, c) /\ Pen(s) = s.ink
    BY <1>2 DEF VbeText, KprintChar, Pen
  <2>2. VbePutChar(s, c) = IF t.row >= VbeRows THEN VbeScroll(t) ELSE t
    BY PutCharIs
  <2>3. /\ VbeText(t, VbeRows + 1)
        /\ t.row = IF s.col + 1 < VbeCols THEN s.row ELSE s.row + 1
        /\ t.col = IF s.col + 1 < VbeCols THEN s.col + 1 ELSE 0
    BY <1>2, VbeWrites
  <2>4. Shows(t, f, n + 1)
    BY <1>2, <2>1, VbeWriteShows
  <2> HIDE DEF t
  <2>5. CASE t.row >= VbeRows
    <3>1. t.col = 0
      <4>1. s.row \in 0 .. VbeRows - 1
        BY <1>2 DEF VbeText
      <4> QED BY <2>3, <2>5, <4>1, Geometry
    <3>2. n + 1 \in Nat /\ n + 1 <= VbeCols * (VbeRows - 1)
      BY DEF Fits
    <3>3. Shows(VbeScroll(t), f, n + 1)
      BY <2>3, <2>4, <2>5, <3>1, <3>2, VbeScrollShows
    <3> QED BY <2>1, <2>2, <2>5, <3>3
  <2>6. CASE ~(t.row >= VbeRows)
    BY <2>1, <2>2, <2>4, <2>6
  <2> QED BY <2>5, <2>6
<1> QED BY <1>1, <1>2 DEF GoodScreen

\* A backspace takes the last cell away.
LEMMA BackShows ==
  ASSUME NEW s, NEW f, NEW n \in Nat, GoodScreen(s), Shows(s, f, n + 1)
  PROVE  Shows(ScreenBackspace(s), f, n)
<1>1. CASE VgaText(s, VgaRows)
  <2>1. ScreenBackspace(s) = VgaBackspace(s)
    BY <1>1 DEF VgaText, ScreenBackspace
  <2> QED BY <1>1, <2>1, VgaBackShows
<1>2. CASE VbeText(s, VbeRows)
  <2>1. ScreenBackspace(s) = VbeBackspace(s)
    BY <1>2 DEF VbeText, ScreenBackspace
  <2> QED BY <1>2, <2>1, VbeBackShows
<1> QED BY <1>1, <1>2 DEF GoodScreen

-----------------------------------------------------------------------------
(* Strings of characters. *)

\* The screens of kprint(), one for each character printed, and those of count
\* backspaces.
PrintsBy(g, s, text) ==
  /\ g[0] = s /\ Kprint(s, text) = g[Len(text)]
  /\ \A k \in 1 .. Len(text) : g[k] = KprintChar(g[k - 1], text[k])
ErasesBy(g, s, count) ==
  /\ g[0] = s /\ Erased(s, count) = g[count]
  /\ \A k \in 1 .. count : g[k] = ScreenBackspace(g[k - 1])

\* There are such screens for a string.
LEMMA KprintRuns ==
  ASSUME NEW s, NEW text, Len(text) \in Nat
  PROVE  \E g : PrintsBy(g, s, text)
<1> DEFINE L == Len(text)
           Runs(m, g) == g = [n \in 0 .. m |-> IF n = 0 THEN s ELSE KprintChar(g[n - 1], text[n])]
           Without == {m \in 0 .. L : ~ \E g : Runs(m, g)}
<1>1. Without = {}
  <2>1. SUFFICES ASSUME Without # {} PROVE FALSE
    OBVIOUS
  <2>2. PICK m \in Without : \A j \in Without : m <= j
    <3>1. Without \subseteq Nat
      OBVIOUS
    <3> HIDE DEF Without
    <3> QED BY <2>1, <3>1, LeastElement
  <2>3. m # 0
    <3>1. Runs(0, [n \in 0 .. 0 |-> s])
      OBVIOUS
    <3> QED BY <3>1
  <2>4. m \in 0 .. L /\ m - 1 \in 0 .. L /\ m - 1 \notin Without
    <3>1. m \in 0 .. L
      OBVIOUS
    <3>2. m - 1 \in 0 .. L /\ ~(m <= m - 1)
      BY <2>3, <3>1
    <3> HIDE DEF Without
    <3> QED BY <2>2, <3>1, <3>2
  <2>5. PICK g : Runs(m - 1, g)
    BY <2>4
  <2> DEFINE h == [n \in 0 .. m |-> IF n = m THEN KprintChar(g[m - 1], text[m]) ELSE g[n]]
  <2>6. Runs(m, h)
    <3>1. ASSUME NEW n \in 0 .. m
          PROVE  h[n] = IF n = 0 THEN s ELSE KprintChar(h[n - 1], text[n])
      <4>1. CASE n = m
        <5>1. n # 0 /\ n - 1 \in 0 .. m /\ n - 1 # m
          BY <2>3, <2>4, <4>1
        <5>2. h[n] = KprintChar(g[m - 1], text[m]) /\ h[n - 1] = g[n - 1]
          BY <4>1, <5>1
        <5> QED BY <4>1, <5>1, <5>2
      <4>2. CASE n # m
        <5>1. n \in 0 .. m - 1 /\ n - 1 # m
          BY <2>4, <4>2
        <5>2. g[n] = IF n = 0 THEN s ELSE KprintChar(g[n - 1], text[n])
          BY <2>5, <5>1
        <5>3. h[n] = g[n]
          BY <4>2
        <5>4. n # 0 => h[n - 1] = g[n - 1]
          BY <5>1
        <5> QED BY <5>2, <5>3, <5>4
      <4> QED BY <4>1, <4>2
    <3>2. h = [n \in 0 .. m |-> h[n]]
      OBVIOUS
    <3> HIDE DEF h
    <3>3. [n \in 0 .. m |-> h[n]] =
            [n \in 0 .. m |-> IF n = 0 THEN s ELSE KprintChar(h[n - 1], text[n])]
      BY <3>1
    <3> QED BY <3>2, <3>3
  <2> QED BY <2>2, <2>6
<1> DEFINE after == CHOOSE g : Runs(L, g)
<1>2. Runs(L, after)
  <2>1. L \in 0 .. L
    OBVIOUS
  <2>2. \E g : Runs(L, g)
    BY <1>1, <2>1
  <2> QED BY <2>2
<1>3. Kprint(s, text) = after[L]
  BY DEF Kprint
<1> HIDE DEF after
<1>4. after[0] = s
  BY <1>2
<1>5. \A n \in 1 .. L : after[n] = KprintChar(after[n - 1], text[n])
  <2> TAKE n \in 1 .. L
  <2>1. n \in 0 .. L /\ n # 0
    OBVIOUS
  <2> QED BY <1>2, <2>1
<1>6. PrintsBy(after, s, text)
  BY <1>3, <1>4, <1>5 DEF PrintsBy
<1> QED BY ONLY <1>6

\* There are such screens for a number of backspaces.
LEMMA ErasedRuns ==
  ASSUME NEW s, NEW count \in Nat
  PROVE  \E g : ErasesBy(g, s, count)
<1> DEFINE Runs(m, g) == g = [n \in 0 .. m |-> IF n = 0 THEN s ELSE ScreenBackspace(g[n - 1])]
           Without == {m \in 0 .. count : ~ \E g : Runs(m, g)}
<1>1. Without = {}
  <2>1. SUFFICES ASSUME Without # {} PROVE FALSE
    OBVIOUS
  <2>2. PICK m \in Without : \A j \in Without : m <= j
    <3>1. Without \subseteq Nat
      OBVIOUS
    <3> HIDE DEF Without
    <3> QED BY <2>1, <3>1, LeastElement
  <2>3. m # 0
    <3>1. Runs(0, [n \in 0 .. 0 |-> s])
      OBVIOUS
    <3> QED BY <3>1
  <2>4. m \in 0 .. count /\ m - 1 \in 0 .. count /\ m - 1 \notin Without
    <3>1. m \in 0 .. count
      OBVIOUS
    <3>2. m - 1 \in 0 .. count /\ ~(m <= m - 1)
      BY <2>3, <3>1
    <3> HIDE DEF Without
    <3> QED BY <2>2, <3>1, <3>2
  <2>5. PICK g : Runs(m - 1, g)
    BY <2>4
  <2> DEFINE h == [n \in 0 .. m |-> IF n = m THEN ScreenBackspace(g[m - 1]) ELSE g[n]]
  <2>6. Runs(m, h)
    <3>1. ASSUME NEW n \in 0 .. m
          PROVE  h[n] = IF n = 0 THEN s ELSE ScreenBackspace(h[n - 1])
      <4>1. CASE n = m
        <5>1. n # 0 /\ n - 1 \in 0 .. m /\ n - 1 # m
          BY <2>3, <2>4, <4>1
        <5>2. h[n] = ScreenBackspace(g[m - 1]) /\ h[n - 1] = g[n - 1]
          BY <4>1, <5>1
        <5> QED BY <4>1, <5>1, <5>2
      <4>2. CASE n # m
        <5>1. n \in 0 .. m - 1 /\ n - 1 # m
          BY <2>4, <4>2
        <5>2. g[n] = IF n = 0 THEN s ELSE ScreenBackspace(g[n - 1])
          BY <2>5, <5>1
        <5>3. h[n] = g[n]
          BY <4>2
        <5>4. n # 0 => h[n - 1] = g[n - 1]
          BY <5>1
        <5> QED BY <5>2, <5>3, <5>4
      <4> QED BY <4>1, <4>2
    <3>2. h = [n \in 0 .. m |-> h[n]]
      OBVIOUS
    <3> HIDE DEF h
    <3>3. [n \in 0 .. m |-> h[n]] =
            [n \in 0 .. m |-> IF n = 0 THEN s ELSE ScreenBackspace(h[n - 1])]
      BY <3>1
    <3> QED BY <3>2, <3>3
  <2> QED BY <2>2, <2>6
<1> DEFINE after == CHOOSE g : Runs(count, g)
<1>2. Runs(count, after)
  <2>1. count \in 0 .. count
    OBVIOUS
  <2>2. \E g : Runs(count, g)
    BY <1>1, <2>1
  <2> QED BY <2>2
<1>3. Erased(s, count) = after[count]
  BY DEF Erased
<1> HIDE DEF after
<1>4. after[0] = s
  BY <1>2
<1>5. \A n \in 1 .. count : after[n] = ScreenBackspace(after[n - 1])
  <2> TAKE n \in 1 .. count
  <2>1. n \in 0 .. count /\ n # 0
    OBVIOUS
  <2> QED BY <1>2, <2>1
<1>6. ErasesBy(after, s, count)
  BY <1>3, <1>4, <1>5 DEF ErasesBy
<1> QED BY ONLY <1>6

\* A string keeps the screen good.
LEMMA KprintGood ==
  ASSUME NEW s, NEW text, GoodScreen(s), Len(text) \in Nat
  PROVE  GoodScreen(Kprint(s, text)) /\ SameLayer(Kprint(s, text), s)
<1> DEFINE L == Len(text)
<1>1. PICK g : /\ g[0] = s /\ Kprint(s, text) = g[L]
               /\ \A k \in 1 .. L : g[k] = KprintChar(g[k - 1], text[k])
  <2>1. PICK g : PrintsBy(g, s, text)
    BY KprintRuns
  <2> QED BY <2>1 DEF PrintsBy
<1> DEFINE Bad == {n \in 0 .. L : ~(GoodScreen(g[n]) /\ SameLayer(g[n], s))}
<1>2. Bad = {}
  <2>1. SUFFICES ASSUME Bad # {} PROVE FALSE
    OBVIOUS
  <2>2. PICK m \in Bad : \A j \in Bad : m <= j
    <3>1. Bad \subseteq Nat
      OBVIOUS
    <3> HIDE DEF Bad
    <3> QED BY <2>1, <3>1, LeastElement
  <2>3. m # 0
    BY <1>1 DEF SameLayer
  <2>4. m \in 1 .. L /\ m - 1 \in 0 .. L /\ m - 1 \notin Bad
    BY <2>2, <2>3
  <2>5. GoodScreen(g[m - 1]) /\ SameLayer(g[m - 1], s)
    BY <2>4
  <2>6. g[m] = KprintChar(g[m - 1], text[m])
    BY <1>1, <2>4
  <2>7. GoodScreen(g[m]) /\ SameLayer(g[m], g[m - 1])
    BY <2>5, <2>6, PutsChar
  <2>8. SameLayer(g[m], s)
    BY <2>5, <2>7 DEF SameLayer
  <2> QED BY <2>2, <2>7, <2>8
<1>3. L \in 0 .. L
  OBVIOUS
<1> QED BY <1>1, <1>2, <1>3

\* A string is shown after what was shown.
LEMMA KprintShows ==
  ASSUME NEW s, NEW text, NEW f, NEW n \in Nat, GoodScreen(s), Len(text) \in Nat,
         Shows(s, f, n), Fits(n + Len(text)),
         \A k \in 1 .. Len(text) : text[k] # Newline /\ f[n + k] = Cell(text[k], Pen(s))
  PROVE  Shows(Kprint(s, text), f, n + Len(text))
<1> DEFINE L == Len(text)
<1>1. PICK g : /\ g[0] = s /\ Kprint(s, text) = g[L]
               /\ \A k \in 1 .. L : g[k] = KprintChar(g[k - 1], text[k])
  <2>1. PICK g : PrintsBy(g, s, text)
    BY KprintRuns
  <2> QED BY <2>1 DEF PrintsBy
<1> DEFINE Correct == {k \in 0 .. L : GoodScreen(g[k]) /\ SameLayer(g[k], s) /\ Shows(g[k], f, n + k)}
           Bad == (0 .. L) \ Correct
<1>2. Bad = {}
  <2>1. SUFFICES ASSUME Bad # {} PROVE FALSE
    OBVIOUS
  <2>2. PICK m \in Bad : \A j \in Bad : m <= j
    <3>1. Bad \subseteq Nat
      OBVIOUS
    <3> HIDE DEF Bad
    <3> QED BY <2>1, <3>1, LeastElement
  <2>3. m # 0
    <3>1. n + 0 = n
      OBVIOUS
    <3> QED BY <1>1, <3>1 DEF SameLayer
  <2>4. m \in 1 .. L /\ m - 1 \in 0 .. L /\ m - 1 \notin Bad
    BY <2>2, <2>3
  <2>5. GoodScreen(g[m - 1]) /\ SameLayer(g[m - 1], s) /\ Shows(g[m - 1], f, n + (m - 1))
    BY <2>4
  <2>6. g[m] = KprintChar(g[m - 1], text[m])
    BY <1>1, <2>4
  <2>7. GoodScreen(g[m]) /\ SameLayer(g[m], g[m - 1])
    BY <2>5, <2>6, PutsChar
  <2>8. SameLayer(g[m], s)
    BY <2>5, <2>7 DEF SameLayer
  <2>9. Shows(g[m], f, n + m)
    <3> DEFINE j == n + (m - 1)
    <3>1. j \in Nat /\ j + 1 = n + m
      BY <2>4
    <3>2. Fits(j + 1)
      <4>1. n + m <= n + L /\ n + m \in Nat /\ n + L \in Nat
        BY <2>4
      <4> DEFINE v == VgaCols * (VgaRows - 1)
                 b == VbeCols * (VbeRows - 1)
      <4>2. v \in Int /\ b \in Int
        BY Geometry
      <4>3. n + L <= v /\ n + L <= b
        BY DEF Fits
      <4> HIDE DEF v, b
      <4>4. n + m <= v /\ n + m <= b
        BY <4>1, <4>2, <4>3
      <4> QED BY <3>1, <4>4 DEF Fits, v, b
    <3>3. text[m] # Newline /\ f[j + 1] = Cell(text[m], Pen(g[m - 1]))
      BY <2>4, <2>5, <3>1 DEF SameLayer, Pen
    <3> HIDE DEF j
    <3>4. Shows(g[m], f, j + 1)
      BY <2>5, <2>6, <3>1, <3>2, <3>3, PutsShown DEF j
    <3> QED BY <3>1, <3>4
  <2> QED BY <2>2, <2>4, <2>7, <2>8, <2>9
<1>3. L \in 0 .. L
  OBVIOUS
<1>4. L \in Correct
  BY <1>2, <1>3
<1> QED BY <1>1, <1>4

\* Backspaces keep the screen good.
LEMMA ErasedGood ==
  ASSUME NEW s, NEW count \in Nat, NEW f, NEW n \in Nat, GoodScreen(s), Shows(s, f, n + count)
  PROVE  /\ GoodScreen(Erased(s, count)) /\ SameLayer(Erased(s, count), s)
         /\ Shows(Erased(s, count), f, n)
<1>1. PICK g : /\ g[0] = s /\ Erased(s, count) = g[count]
               /\ \A k \in 1 .. count : g[k] = ScreenBackspace(g[k - 1])
  <2>1. PICK g : ErasesBy(g, s, count)
    BY ErasedRuns
  <2> QED BY <2>1 DEF ErasesBy
<1> DEFINE Correct == {k \in 0 .. count :
                        GoodScreen(g[k]) /\ SameLayer(g[k], s) /\ Shows(g[k], f, n + (count - k))}
           Bad == (0 .. count) \ Correct
<1>2. Bad = {}
  <2>1. SUFFICES ASSUME Bad # {} PROVE FALSE
    OBVIOUS
  <2>2. PICK m \in Bad : \A j \in Bad : m <= j
    <3>1. Bad \subseteq Nat
      OBVIOUS
    <3> HIDE DEF Bad
    <3> QED BY <2>1, <3>1, LeastElement
  <2>3. m # 0
    <3>1. n + (count - 0) = n + count
      OBVIOUS
    <3> QED BY <1>1, <3>1 DEF SameLayer
  <2>4. m \in 1 .. count /\ m - 1 \in 0 .. count /\ m - 1 \notin Bad
    BY <2>2, <2>3
  <2>5. /\ GoodScreen(g[m - 1]) /\ SameLayer(g[m - 1], s)
        /\ Shows(g[m - 1], f, n + (count - (m - 1)))
    BY <2>4
  <2>6. g[m] = ScreenBackspace(g[m - 1])
    BY <1>1, <2>4
  <2>7. GoodScreen(g[m]) /\ SameLayer(g[m], g[m - 1])
    BY <2>5, <2>6, BackspaceKeepsGood
  <2>8. SameLayer(g[m], s)
    BY <2>5, <2>7 DEF SameLayer
  <2>9. Shows(g[m], f, n + (count - m))
    <3> DEFINE j == n + (count - m)
    <3>1. j \in Nat /\ n + (count - (m - 1)) = j + 1
      BY <2>4
    <3> HIDE DEF j
    <3>2. Shows(g[m - 1], f, j + 1)
      BY <2>5, <3>1
    <3>3. Shows(g[m], f, j)
      BY <2>5, <2>6, <3>1, <3>2, BackShows
    <3> QED BY <3>3 DEF j
  <2> QED BY <2>2, <2>4, <2>7, <2>8, <2>9
<1>3. count \in 0 .. count /\ n + (count - count) = n
  OBVIOUS
<1>4. count \in Correct
  BY <1>2, <1>3
<1> QED BY <1>1, <1>3, <1>4

-----------------------------------------------------------------------------
(* The colours, the modes. *)

\* An ink, as a screen shows it.
ShownOn(s, ink) == IF s.mode = "VGA" THEN ToAttr(ink) ELSE ink

\* The text is written in the ink that was set.
InkIsSet(s) == Pen(s) = ShownOn(s, s.ink)

\* The colours.
LEMMA InkTypes ==
  /\ White \in Ink /\ Green \in Ink /\ Grey \in Attrs
  /\ \A ink \in Ink : ToAttr(ink) \in Attrs
BY DEF Ink, Attrs

\* A good screen has its fields.
LEMMA GoodFields ==
  ASSUME NEW s, GoodScreen(s)
  PROVE  /\ DOMAIN s = Fields /\ s.mode \in {"VGA", "VBE"} /\ s.ink \in Ink /\ s.attr \in Attrs
         /\ s.mode = "VGA" => VgaText(s, VgaRows)
         /\ s.mode = "VBE" => VbeText(s, VbeRows)
BY DEF GoodScreen, VgaText, VbeText

\* Only the colours of what comes next.
LEMMA Recoloured ==
  ASSUME NEW s, NEW u, GoodScreen(s), DOMAIN u = Fields, u.mode = s.mode, u.cells = s.cells,
         u.row = s.row, u.col = s.col, u.ink \in Ink, u.attr \in Attrs
  PROVE  GoodScreen(u) /\ \A f, n : Shows(s, f, n) => Shows(u, f, n)
<1>1. GoodScreen(u)
  <2>1. CASE VgaText(s, VgaRows)
    BY <2>1 DEF VgaText, GoodScreen
  <2>2. CASE VbeText(s, VbeRows)
    BY <2>2 DEF VbeText, GoodScreen
  <2> QED BY <2>1, <2>2 DEF GoodScreen
<1>2. CursorAt(u) = CursorAt(s)
  BY DEF CursorAt, Cols
<1>3. \A i : CellsAt(u, i) = CellsAt(s, i)
  BY DEF CellsAt
<1> QED BY <1>1, <1>2, <1>3 DEF Shows

\* A colour keeps the screen good.
LEMMA SetColorGood ==
  ASSUME NEW s, GoodScreen(s), NEW ink \in Ink
  PROVE  GoodScreen(SetColor(s, ink))
<1> DEFINE u == SetColor(s, ink)
<1>1. DOMAIN s = Fields /\ s.attr \in Attrs
  BY GoodFields
<1>2. /\ DOMAIN u = Fields /\ u.mode = s.mode /\ u.cells = s.cells
      /\ u.row = s.row /\ u.col = s.col /\ u.ink = ink
      /\ u.attr = IF s.mode = "VGA" THEN ToAttr(ink) ELSE s.attr
  BY <1>1 DEF SetColor, Fields
<1> HIDE DEF u
<1>3. u.attr \in Attrs /\ u.ink \in Ink
  BY <1>1, <1>2, InkTypes
<1>4. GoodScreen(u)
  BY <1>2, <1>3, Recoloured
<1> QED BY <1>4 DEF u

\* So does clearing it.
LEMMA ClearGood ==
  ASSUME NEW s, GoodScreen(s)
  PROVE  GoodScreen(ScreenClear(s))
<1>1. DOMAIN s = Fields /\ s.mode \in {"VGA", "VBE"} /\ s.ink \in Ink /\ s.attr \in Attrs
  BY GoodFields
<1>2. CASE s.mode = "VGA"
  BY <1>1, <1>2, VgaClears DEF ScreenClear, GoodScreen
<1>3. CASE s.mode = "VBE"
  BY <1>1, <1>3, VbeClears DEF ScreenClear, GoodScreen
<1> QED BY <1>1, <1>2, <1>3

\* So does the text mode.
LEMMA EnterVgaGood ==
  ASSUME NEW s, DOMAIN s = Fields
  PROVE  GoodScreen(EnterVga(s))
<1> DEFINE t == [s EXCEPT !.mode = "VGA", !.ink = White, !.attr = Grey]
<1>1. DOMAIN t = Fields /\ t.mode = "VGA" /\ t.ink = White /\ t.attr = Grey
  BY DEF Fields
<1>2. EnterVga(s) = VgaClear(t)
  BY DEF EnterVga
<1> HIDE DEF t
<1> QED BY <1>1, <1>2, InkTypes, VgaClears DEF GoodScreen

\* So does the graphics mode.
LEMMA EnterVbeGood ==
  ASSUME NEW s, GoodScreen(s), NEW found
  PROVE  GoodScreen(EnterVbe(s, found))
<1> DEFINE t == [s EXCEPT !.mode = "VBE", !.ink = White,
                          !.cells = [p \in Framebuffer |-> Blank(White)]]
<1>1. CASE found
  <2>1. DOMAIN s = Fields /\ s.attr \in Attrs
    BY GoodFields
  <2>2. DOMAIN t = Fields /\ t.mode = "VBE" /\ t.ink = White /\ t.attr = s.attr
    BY <2>1 DEF Fields
  <2>3. EnterVbe(s, found) = VbeClear(t)
    BY <1>1 DEF EnterVbe
  <2> HIDE DEF t
  <2> QED BY <2>1, <2>2, <2>3, InkTypes, VbeClears DEF GoodScreen
<1>2. CASE ~found
  BY <1>2 DEF EnterVbe
<1> QED BY <1>1, <1>2

\* kprint_color() and what it leaves.
LEMMA KprintColorGood ==
  ASSUME NEW s, NEW text, NEW ink \in Ink, GoodScreen(s), Len(text) \in Nat
  PROVE  /\ GoodScreen(KprintColor(s, text, ink))
         /\ KprintColor(s, text, ink).mode = s.mode /\ KprintColor(s, text, ink).ink = s.ink
         /\ InkIsSet(KprintColor(s, text, ink))
         /\ \A f : (/\ Fits(Len(text))
                    /\ \A k \in 1 .. Len(text) :
                         text[k] # Newline /\ f[k] = Cell(text[k], ShownOn(s, ink)))
                   => Shows(KprintColor(s, text, ink), f, Len(text))
<1> DEFINE t == IF s.mode = "VGA" THEN [s EXCEPT !.attr = ToAttr(ink)] ELSE [s EXCEPT !.ink = ink]
           r == Kprint(t, text)
           u == KprintColor(s, text, ink)
<1>1. /\ DOMAIN s = Fields /\ s.mode \in {"VGA", "VBE"} /\ s.ink \in Ink /\ s.attr \in Attrs
  BY GoodFields
<1>2. /\ DOMAIN t = Fields /\ t.mode = s.mode /\ t.cells = s.cells
      /\ t.row = s.row /\ t.col = s.col
      /\ t.ink = (IF s.mode = "VGA" THEN s.ink ELSE ink)
      /\ t.attr = (IF s.mode = "VGA" THEN ToAttr(ink) ELSE s.attr)
  <2>1. CASE s.mode = "VGA"
    BY <1>1, <2>1 DEF Fields
  <2>2. CASE s.mode # "VGA"
    BY <1>1, <2>2 DEF Fields
  <2> QED BY <2>1, <2>2
<1>3. u = IF s.mode = "VGA" THEN [r EXCEPT !.attr = ToAttr(s.ink)] ELSE [r EXCEPT !.ink = s.ink]
  BY DEF KprintColor
<1> HIDE DEF t
<1>4. GoodScreen(t) /\ Pen(t) = ShownOn(s, ink)
  <2>1. t.ink \in Ink /\ t.attr \in Attrs
    BY <1>1, <1>2, InkTypes
  <2>2. GoodScreen(t)
    BY <1>2, <2>1, Recoloured
  <2> QED BY <1>2, <2>2 DEF Pen, ShownOn
<1>5. GoodScreen(r) /\ SameLayer(r, t)
  BY <1>4, KprintGood
<1> HIDE DEF r, u
<1>6. DOMAIN r = Fields /\ r.mode = s.mode /\ r.ink \in Ink /\ r.attr \in Attrs
  BY <1>2, <1>5, GoodFields DEF SameLayer
<1>7. /\ DOMAIN u = Fields /\ u.mode = s.mode /\ u.cells = r.cells
      /\ u.row = r.row /\ u.col = r.col /\ u.ink = s.ink
      /\ u.attr = (IF s.mode = "VGA" THEN ToAttr(s.ink) ELSE r.attr)
  <2>1. CASE s.mode = "VGA"
    BY <1>2, <1>3, <1>5, <1>6, <2>1 DEF Fields, SameLayer
  <2>2. CASE s.mode # "VGA"
    BY <1>2, <1>3, <1>5, <1>6, <2>2 DEF Fields, SameLayer
  <2> QED BY <2>1, <2>2
<1>8. GoodScreen(u) /\ \A f, n : Shows(r, f, n) => Shows(u, f, n)
  <2>1. u.ink \in Ink /\ u.attr \in Attrs
    BY <1>1, <1>6, <1>7, InkTypes
  <2> QED BY <1>5, <1>6, <1>7, <2>1, Recoloured
<1>9. InkIsSet(u)
  BY <1>7 DEF InkIsSet, Pen, ShownOn
<1>10. ASSUME NEW f, Fits(Len(text)),
              \A k \in 1 .. Len(text) :
                text[k] # Newline /\ f[k] = Cell(text[k], ShownOn(s, ink))
       PROVE  Shows(u, f, Len(text))
  <2>1. Shows(t, f, 0)
    <3>1. CursorAt(t) \in Nat
      <4>1. CASE VgaText(t, VgaRows)
        BY <4>1, Geometry, VgaPositions
      <4>2. CASE VbeText(t, VbeRows)
        BY <4>2, Geometry, VbePositions
      <4> QED BY <1>4, <4>1, <4>2 DEF GoodScreen
    <3> QED BY <3>1 DEF Shows
  <2>2. 0 + Len(text) = Len(text) /\ \A k \in 1 .. Len(text) : 0 + k = k
    OBVIOUS
  <2>3. Shows(Kprint(t, text), f, 0 + Len(text))
    BY <1>4, <1>10, <2>1, <2>2, KprintShows
  <2> QED BY <1>8, <2>2, <2>3 DEF r
<1> QED BY <1>7, <1>8, <1>9, <1>10 DEF u

-----------------------------------------------------------------------------
(* The screen of a session. *)

\* The prompt fits in a row.
LEMMA PromptFacts ==
  /\ Len(Prompt) \in Nat /\ DOMAIN Prompt = 1 .. Len(Prompt)
  /\ \A k \in 1 .. Len(Prompt) : Prompt[k] # Newline
  /\ \A c \in Letters : c # Newline
BY EditorAssumption

\* A line that fits its array fits the screen.
LEMMA LineFits ==
  ASSUME NEW n \in 0 .. LineMax - 1
  PROVE  Fits(Len(Prompt) + n)
<1> DEFINE v == VgaCols * (VgaRows - 1)
           b == VbeCols * (VbeRows - 1)
<1>1. v \in Int /\ b \in Int
  BY Geometry
<1>2. /\ LineMax \in Nat /\ Len(Prompt) + LineMax - 1 <= v /\ Len(Prompt) + LineMax - 1 <= b
  BY EditorAssumption
<1>3. Len(Prompt) \in Nat
  BY PromptFacts
<1> HIDE DEF v, b
<1>4. Len(Prompt) + n <= v /\ Len(Prompt) + n <= b
  BY <1>1, <1>2, <1>3
<1> QED BY <1>4 DEF Fits, v, b

\* The prompt and a line as cells.
LineCells(s, a) ==
  [k \in 1 .. Len(Prompt) + LineMax |->
     IF k <= Len(Prompt) THEN Cell(Prompt[k], ShownOn(s, Green))
     ELSE Cell(a[k - Len(Prompt)], ShownOn(s, s.ink))]

\* The prompt and the first n characters of a line stand before the cursor, and
\* the next one is written in the same ink.
ShowsLine(s, a, n) ==
  GoodScreen(s) /\ InkIsSet(s) /\ Shows(s, LineCells(s, a), Len(Prompt) + n)

\* On every screen, at every moment; the line while the shell waits.
ScreenInv ==
  /\ GoodScreen(screen)
  /\ at = "shell" => ShowsLine(screen, line, len)

\* Two ways to say what stands there.
LEMMA ShowsSame ==
  ASSUME NEW s, NEW f, NEW g, NEW n, Shows(s, f, n), \A k \in 1 .. n : f[k] = g[k]
  PROVE  Shows(s, g, n)
BY DEF Shows

\* Only the first n characters of the line count.
LEMMA ShowsLineSame ==
  ASSUME NEW s, NEW a, NEW b, NEW n \in 0 .. LineMax - 1, ShowsLine(s, a, n),
         \A k \in 1 .. n : a[k] = b[k]
  PROVE  ShowsLine(s, b, n)
<1>1. ASSUME NEW k \in 1 .. Len(Prompt) + n
      PROVE  LineCells(s, a)[k] = LineCells(s, b)[k]
  <2>1. Len(Prompt) \in Nat /\ LineMax \in Nat
    BY PromptFacts, EditorAssumption
  <2>2. k \in 1 .. Len(Prompt) + LineMax
    BY <2>1
  <2>3. CASE k <= Len(Prompt)
    BY <2>2, <2>3 DEF LineCells
  <2>4. CASE ~(k <= Len(Prompt))
    <3>1. k - Len(Prompt) \in 1 .. n
      BY <2>1, <2>4
    <3>2. a[k - Len(Prompt)] = b[k - Len(Prompt)]
      BY <3>1
    <3> QED BY <2>2, <2>4, <3>2 DEF LineCells
  <2> QED BY <2>3, <2>4
<1> QED BY <1>1, ShowsSame DEF ShowsLine

\* print_prompt() on any screen.
LEMMA PromptShows ==
  ASSUME NEW s, NEW a, GoodScreen(s)
  PROVE  ShowsLine(PrintPrompt(s), a, 0)
<1> DEFINE u == PrintPrompt(s)
           f == LineCells(u, a)
<1>1. u = KprintColor(s, Prompt, Green) /\ Green \in Ink
  BY InkTypes DEF PrintPrompt
<1>2. Len(Prompt) \in Nat /\ LineMax \in Nat /\ Fits(Len(Prompt) + 0) /\ Len(Prompt) + 0 = Len(Prompt)
  <2>1. Len(Prompt) \in Nat /\ LineMax \in Nat /\ LineMax > 0
    BY ONLY PromptFacts, EditorAssumption
  <2>2. Len(Prompt) + 0 = Len(Prompt)
    BY ONLY <2>1
  <2>3. Fits(Len(Prompt))
    BY ONLY <2>1, LineFits
  <2> QED BY ONLY <2>1, <2>2, <2>3
<1> HIDE DEF u
<1>3. GoodScreen(u) /\ u.mode = s.mode /\ InkIsSet(u)
  BY <1>1, <1>2, KprintColorGood
<1>4. \A k \in 1 .. Len(Prompt) :
        Prompt[k] # Newline /\ f[k] = Cell(Prompt[k], ShownOn(s, Green))
  <2> TAKE k \in 1 .. Len(Prompt)
  <2>1. k \in 1 .. Len(Prompt) + LineMax /\ k <= Len(Prompt)
    BY <1>2
  <2>2. f[k] = Cell(Prompt[k], ShownOn(u, Green))
    BY <2>1 DEF LineCells
  <2> QED BY <1>3, <2>2, PromptFacts DEF ShownOn
<1> HIDE DEF f
<1>5. Shows(u, f, Len(Prompt))
  BY <1>1, <1>2, <1>4, KprintColorGood
<1>6. Shows(u, f, Len(Prompt) + 0)
  BY <1>2, <1>5
<1> QED BY <1>3, <1>6 DEF ShowsLine, u, f

\* More of the line is printed.
LEMMA PrintsOn ==
  ASSUME NEW s, NEW a, NEW n \in 0 .. LineMax - 1, NEW text, ShowsLine(s, a, n),
         Len(text) \in Nat, n + Len(text) \in 0 .. LineMax - 1,
         \A k \in 1 .. Len(text) : text[k] \in Letters /\ a[n + k] = text[k]
  PROVE  ShowsLine(Kprint(s, text), a, n + Len(text))
<1> DEFINE u == Kprint(s, text)
           f == LineCells(s, a)
           m == Len(Prompt) + n
<1>1. Len(Prompt) \in Nat /\ LineMax \in Nat /\ m \in Nat
  BY PromptFacts, EditorAssumption
<1>2. m + Len(text) = Len(Prompt) + (n + Len(text))
  BY <1>1
<1>3. Fits(m + Len(text))
  BY <1>2, LineFits
<1>4. GoodScreen(s) /\ InkIsSet(s) /\ Shows(s, f, m)
  BY DEF ShowsLine
<1>5. \A k \in 1 .. Len(text) : text[k] # Newline /\ f[m + k] = Cell(text[k], Pen(s))
  <2> TAKE k \in 1 .. Len(text)
  <2>1. /\ m + k \in 1 .. Len(Prompt) + LineMax /\ ~(m + k <= Len(Prompt))
        /\ (m + k) - Len(Prompt) = n + k
    BY <1>1
  <2>2. f[m + k] = Cell(a[(m + k) - Len(Prompt)], ShownOn(s, s.ink))
    <3> HIDE DEF m
    <3> QED BY <2>1 DEF LineCells
  <2>3. f[m + k] = Cell(text[k], Pen(s))
    <3> HIDE DEF f, m
    <3> QED BY <1>4, <2>1, <2>2 DEF InkIsSet
  <2> QED BY <2>3, PromptFacts
<1> HIDE DEF f, m
<1>6. Shows(u, f, m + Len(text))
  BY <1>1, <1>3, <1>4, <1>5, KprintShows
<1>7. GoodScreen(u) /\ SameLayer(u, s)
  BY <1>4, KprintGood
<1> HIDE DEF u
<1>8. LineCells(u, a) = f /\ InkIsSet(u)
  BY <1>4, <1>7 DEF SameLayer, LineCells, ShownOn, InkIsSet, Pen, f
<1> QED BY <1>2, <1>6, <1>7, <1>8 DEF ShowsLine, u

\* Characters are taken off the end of the line.
LEMMA TakesOff ==
  ASSUME NEW s, NEW a, NEW n \in Nat, NEW count \in Nat, ShowsLine(s, a, n + count)
  PROVE  ShowsLine(Erased(s, count), a, n)
<1> DEFINE u == Erased(s, count)
           f == LineCells(s, a)
           m == Len(Prompt) + n
<1>1. Len(Prompt) \in Nat /\ m \in Nat /\ m + count = Len(Prompt) + (n + count)
  BY PromptFacts
<1>2. GoodScreen(s) /\ InkIsSet(s) /\ Shows(s, f, m + count)
  BY <1>1 DEF ShowsLine
<1> HIDE DEF f, m
<1>3. GoodScreen(u) /\ SameLayer(u, s) /\ Shows(u, f, m)
  BY <1>1, <1>2, ErasedGood
<1> HIDE DEF u
<1>4. LineCells(u, a) = f /\ InkIsSet(u)
  BY <1>2, <1>3 DEF SameLayer, LineCells, ShownOn, InkIsSet, Pen, f
<1> QED BY <1>3, <1>4 DEF ShowsLine, u, m

\* A single character, and a single backspace.
LEMMA PrintsOne ==
  ASSUME NEW s, NEW a, NEW n \in 0 .. LineMax - 1, NEW c \in Letters, ShowsLine(s, a, n),
         n + 1 \in 0 .. LineMax - 1, a[n + 1] = c
  PROVE  ShowsLine(KprintChar(s, c), a, n + 1)
<1> DEFINE u == KprintChar(s, c)
           f == LineCells(s, a)
           m == Len(Prompt) + n
<1>1. Len(Prompt) \in Nat /\ LineMax \in Nat /\ m \in Nat /\ m + 1 = Len(Prompt) + (n + 1)
  <2>1. Len(Prompt) \in Nat /\ LineMax \in Nat
    BY ONLY PromptFacts, EditorAssumption
  <2> QED BY <2>1
<1>2. Fits(m + 1)
  BY <1>1, LineFits
<1>3. GoodScreen(s) /\ InkIsSet(s) /\ Shows(s, f, m)
  BY DEF ShowsLine
<1>4. f[m + 1] = Cell(c, Pen(s))
  <2>1. /\ m + 1 \in 1 .. Len(Prompt) + LineMax /\ ~(m + 1 <= Len(Prompt))
        /\ (m + 1) - Len(Prompt) = n + 1
    BY <1>1
  <2>2. f[m + 1] = Cell(a[(m + 1) - Len(Prompt)], ShownOn(s, s.ink))
    <3> HIDE DEF m
    <3> QED BY <2>1 DEF LineCells
  <2> HIDE DEF f, m
  <2> QED BY <1>3, <2>1, <2>2 DEF InkIsSet
<1> HIDE DEF f, m
<1>5. Shows(u, f, m + 1)
  BY <1>1, <1>2, <1>3, <1>4, PutsShown, PromptFacts
<1>6. GoodScreen(u) /\ SameLayer(u, s)
  BY <1>3, PutsChar
<1> HIDE DEF u
<1>7. LineCells(u, a) = f /\ InkIsSet(u)
  BY <1>3, <1>6 DEF SameLayer, LineCells, ShownOn, InkIsSet, Pen, f
<1> QED BY <1>1, <1>5, <1>6, <1>7 DEF ShowsLine, u

\* One character is taken off.
LEMMA TakesOne ==
  ASSUME NEW s, NEW a, NEW n \in Nat, ShowsLine(s, a, n + 1)
  PROVE  ShowsLine(ScreenBackspace(s), a, n)
<1> DEFINE u == ScreenBackspace(s)
           f == LineCells(s, a)
           m == Len(Prompt) + n
<1>1. Len(Prompt) \in Nat /\ m \in Nat /\ m + 1 = Len(Prompt) + (n + 1)
  BY PromptFacts
<1>2. GoodScreen(s) /\ InkIsSet(s) /\ Shows(s, f, m + 1)
  BY <1>1 DEF ShowsLine
<1> HIDE DEF f, m
<1>3. GoodScreen(u) /\ SameLayer(u, s) /\ Shows(u, f, m)
  BY <1>1, <1>2, BackShows, BackspaceKeepsGood
<1> HIDE DEF u
<1>4. LineCells(u, a) = f /\ InkIsSet(u)
  BY <1>2, <1>3 DEF SameLayer, LineCells, ShownOn, InkIsSet, Pen, f
<1> QED BY <1>3, <1>4 DEF ShowsLine, u, m

-----------------------------------------------------------------------------
(* The steps of a session and its screen. *)

\* The banner keeps the screen good.
LEMMA BannerGood ==
  ASSUME NEW s, GoodScreen(s)
  PROVE  GoodScreen(PrintBanner(s))
<1>1. Len(<<Newline, "#", Newline>>) \in Nat /\ Green \in Ink
  BY InkTypes
<1> QED BY <1>1, KprintColorGood DEF PrintBanner

\* Whatever a command does, the screen is left good.
LEMMA OutcomesGood ==
  ASSUME NEW s, GoodScreen(s), NEW u \in Outcomes(s)
  PROVE  GoodScreen(u)
<1>1. /\ Len(<<"x", Newline>>) \in Nat /\ Len(<<"v", Newline>>) \in Nat
      /\ Len(<<"g", Newline>>) \in Nat /\ Len(<<"t", Newline>>) \in Nat
      /\ Len(<<"c", Newline>>) \in Nat
  OBVIOUS
<1>2. White \in Ink /\ Green \in Ink /\ UserInk \subseteq Ink
  BY InkTypes DEF Ink
<1>3. \A x : GoodScreen(x) => GoodScreen(EnterVga(x))
  BY EnterVgaGood, GoodFields
<1>4. CASE u = Kprint(s, <<"x", Newline>>)
  BY <1>1, <1>4, KprintGood
<1>5. CASE u = ScreenClear(s)
  BY <1>5, ClearGood
<1>6. CASE u = KprintColor(EnterVbe(s, card), <<"v", Newline>>, Green)
  BY <1>1, <1>2, <1>6, EnterVbeGood, KprintColorGood
<1>7. CASE u = KprintColor(EnterVga(s), <<"g", Newline>>, Green)
  BY <1>1, <1>2, <1>3, <1>7, KprintColorGood
<1>8. CASE u = AfterTests(s)
  <2> DEFINE once == EnterVga(EnterVbe(s, card))
             told == KprintColor(EnterVbe(once, card), <<"v", Newline>>, Green)
             back == KprintColor(EnterVga(told), <<"g", Newline>>, Green)
  <2>1. GoodScreen(once)
    BY <1>3, EnterVbeGood
  <2> HIDE DEF once
  <2>2. GoodScreen(told)
    BY <1>1, <1>2, <2>1, EnterVbeGood, KprintColorGood
  <2> HIDE DEF told
  <2>3. GoodScreen(back)
    BY <1>1, <1>2, <1>3, <2>2, KprintColorGood
  <2>4. u = Kprint(back, <<"t", Newline>>)
    BY <1>8 DEF AfterTests, once, told
  <2> HIDE DEF back
  <2> QED BY <1>1, <2>3, <2>4, KprintGood
<1>9. CASE u \in {Kprint(SetColor(s, ink), <<"c", Newline>>) : ink \in UserInk}
  <2>1. PICK ink \in UserInk : u = Kprint(SetColor(s, ink), <<"c", Newline>>)
    BY <1>9
  <2>2. GoodScreen(SetColor(s, ink))
    BY <1>2, SetColorGood
  <2> QED BY <1>1, <2>1, <2>2, KprintGood
<1> QED BY <1>4, <1>5, <1>6, <1>7, <1>8, <1>9 DEF Outcomes

\* At power-on.
LEMMA InitScreen == Init => ScreenInv
<1> SUFFICES ASSUME Init PROVE ScreenInv
  OBVIOUS
<1> DEFINE boot == [mode |-> "VBE", cells |-> [p \in Framebuffer |-> Blank(White)],
                    row |-> 0, col |-> 0, ink |-> White, attr |-> Grey]
<1>1. screen = PrintPrompt(PrintBanner(EnterVga(boot))) /\ len = 0
  BY DEF Init, TerminalInit
<1>2. DOMAIN boot = Fields
  BY DEF Fields
<1> HIDE DEF boot
<1>3. GoodScreen(PrintBanner(EnterVga(boot)))
  BY <1>2, EnterVgaGood, BannerGood
<1> QED BY <1>1, <1>3, PromptShows DEF ScreenInv, ShowsLine

\* A step that the shell takes and that leaves the line on the screen.
LEMMA ShellStepScreen ==
  ASSUME ShowsLine(screen', line', len')
  PROVE  ScreenInv'
BY DEF ScreenInv, ShowsLine

\* A letter.
LEMMA TypeLetterScreen ==
  ASSUME LineInv, ShowsLine(screen, line, len), NEW c \in Letters, TypeLetter(c)
  PROVE  ShowsLine(screen', line', len')
<1>1. CASE len < LineMax - 1
  <2>1. line' = [line EXCEPT ![len + 1] = c] /\ len' = len + 1 /\ screen' = KprintChar(screen, c)
    BY <1>1 DEF TypeLetter
  <2>2. /\ LineMax \in Nat /\ len \in 0 .. LineMax - 1 /\ len + 1 \in 0 .. LineMax - 1
        /\ len + 1 \in 1 .. LineMax
    BY <1>1, EditorAssumption DEF LineInv
  <2>3. DOMAIN line = 1 .. LineMax
    BY DEF LineInv, Terminated, Array
  <2>4. line'[len + 1] = c /\ \A k \in 1 .. len : line[k] = line'[k]
    BY <2>1, <2>2, <2>3
  <2>5. ShowsLine(screen, line', len)
    BY <2>2, <2>4, ShowsLineSame
  <2>6. ShowsLine(KprintChar(screen, c), line', len + 1)
    BY <2>2, <2>4, <2>5, PrintsOne
  <2> QED BY <2>1, <2>6
<1>2. CASE ~(len < LineMax - 1)
  BY <1>2 DEF TypeLetter
<1> QED BY <1>1, <1>2

\* A backspace.
LEMMA BackspaceScreen ==
  ASSUME LineInv, ShowsLine(screen, line, len), Backspace
  PROVE  ShowsLine(screen', line', len')
<1>1. CASE len > 0
  <2>1. line' = [line EXCEPT ![len] = Nul] /\ len' = len - 1 /\ screen' = ScreenBackspace(screen)
    BY <1>1 DEF Backspace
  <2>2. /\ LineMax \in Nat /\ len - 1 \in 0 .. LineMax - 1 /\ len - 1 \in Nat
        /\ (len - 1) + 1 = len /\ len \in 1 .. LineMax
    BY <1>1, EditorAssumption DEF LineInv
  <2>3. DOMAIN line = 1 .. LineMax
    BY DEF LineInv, Terminated, Array
  <2>4. \A k \in 1 .. len - 1 : line[k] = line'[k]
    <3>1. \A k \in 1 .. len - 1 : k \in 1 .. LineMax /\ k # len
      BY <2>2
    <3> QED BY <2>1, <2>3, <3>1
  <2>5. ShowsLine(ScreenBackspace(screen), line, len - 1)
    BY <2>2, TakesOne
  <2>6. ShowsLine(ScreenBackspace(screen), line', len - 1)
    BY <2>2, <2>4, <2>5, ShowsLineSame
  <2> QED BY <2>1, <2>6
<1>2. CASE ~(len > 0)
  BY <1>2 DEF Backspace
<1> QED BY <1>1, <1>2

\* Tab.
LEMMA CompleteScreen ==
  ASSUME LineInv, ShowsLine(screen, line, len), Complete
  PROVE  ShowsLine(screen', line', len')
<1> DEFINE added == Completion
           n == Len(added)
<1>1. /\ line' = [k \in 1 .. LineMax |->
                   IF k \in len + 1 .. len + n THEN added[k - len] ELSE line[k]]
      /\ len' = len + n /\ screen' = Kprint(screen, added)
  BY DEF Complete
<1>2. /\ added \in Seq(Letters) /\ n \in Nat /\ len + n \in 0 .. LineMax - 1
      /\ \A k \in 1 .. n : added[k] \in Letters
  BY CompletionFits
<1>3. LineMax \in Nat /\ len \in 0 .. LineMax - 1
  BY EditorAssumption DEF LineInv
<1> HIDE DEF added
<1>4. \A k \in 1 .. len : line[k] = line'[k]
  <2>1. \A k \in 1 .. len : k \in 1 .. LineMax /\ k \notin len + 1 .. len + n
    BY <1>2, <1>3
  <2> HIDE DEF n
  <2> QED BY <1>1, <2>1
<1>5. \A k \in 1 .. n : line'[len + k] = added[k]
  <2>1. \A k \in 1 .. n : len + k \in 1 .. LineMax /\ len + k \in len + 1 .. len + n
                          /\ (len + k) - len = k
    BY <1>2, <1>3
  <2> HIDE DEF n
  <2> QED BY <1>1, <2>1
<1>6. ShowsLine(screen, line', len)
  BY <1>3, <1>4, ShowsLineSame
<1>7. ShowsLine(Kprint(screen, added), line', len + Len(added))
  BY <1>2, <1>3, <1>5, <1>6, PrintsOn
<1> QED BY <1>1, <1>7

\* A redrawn line.
LEMMA RedrawScreen ==
  ASSUME LineInv, ShowsLine(screen, line, len), NEW s, Terminated(s), RedrawLine(s)
  PROVE  ShowsLine(screen', line', len')
<1> DEFINE text == StringOf(line')
           erased == Erased(screen, len)
<1>1. screen' = Kprint(erased, text) /\ len' = StrLen(line')
  BY DEF RedrawLine
<1>2. /\ len' \in 0 .. LineMax - 1
      /\ \A k \in 1 .. len' : line'[k] \in Letters
  BY RedrawsLine
<1>3. text = [k \in 1 .. len' |-> line'[k]]
  BY <1>1 DEF StringOf
<1>4. LineMax \in Nat /\ len \in Nat /\ 0 \in 0 .. LineMax - 1 /\ len' \in Nat
  BY <1>2, EditorAssumption DEF LineInv
<1> HIDE DEF text
<1>5. Len(text) = len' /\ \A k \in 1 .. len' : text[k] = line'[k]
  BY <1>3, <1>4
<1>6. ShowsLine(erased, line, 0)
  <2>1. 0 + len = len
    BY <1>4
  <2> QED BY <1>4, <2>1, TakesOff
<1> HIDE DEF erased
<1>7. ShowsLine(erased, line', 0)
  <2>1. \A k \in 1 .. 0 : line[k] = line'[k]
    OBVIOUS
  <2> QED BY <1>4, <1>6, <2>1, ShowsLineSame
<1>8. \A k \in 1 .. Len(text) : text[k] \in Letters /\ line'[0 + k] = text[k]
  <2>1. \A k \in 1 .. Len(text) : 0 + k = k
    BY <1>4, <1>5
  <2> QED BY <1>2, <1>5, <2>1
<1>9. 0 + Len(text) = len'
  BY ONLY <1>4, <1>5
<1>10. ShowsLine(Kprint(erased, text), line', 0 + Len(text))
  BY <1>2, <1>4, <1>5, <1>7, <1>8, <1>9, PrintsOn
<1> QED BY <1>1, <1>9, <1>10

\* The key up.
LEMMA ScrollUpScreen ==
  ASSUME LineInv, ShowsLine(screen, line, len), ScrollUp
  PROVE  ShowsLine(screen', line', len')
<1> DEFINE next == hist_i + 1
<1>1. hist_n \in Nat /\ hist_i \in -1 .. hist_n
  BY DEF LineInv
<1>2. CASE hist_n - next >= 0
  <2>1. next \in Nat /\ next <= hist_n
    BY <1>1, <1>2
  <2>2. RedrawLine(Entry(next))
    BY <1>2 DEF ScrollUp
  <2> HIDE DEF next
  <2>3. Terminated(Entry(next))
    BY <2>1, EntryHolds
  <2> QED BY <2>2, <2>3, RedrawScreen
<1>3. CASE ~(hist_n - next >= 0)
  BY <1>3 DEF ScrollUp
<1> QED BY <1>2, <1>3

\* The key down.
LEMMA ScrollDownScreen ==
  ASSUME LineInv, ShowsLine(screen, line, len), ScrollDown
  PROVE  ShowsLine(screen', line', len')
<1>1. hist_n \in Nat /\ hist_i \in -1 .. hist_n
  BY DEF LineInv
<1>2. CASE hist_i > 1 /\ hist_i' = hist_i - 1 /\ RedrawLine(Entry(hist_i - 1))
  <2>1. hist_i - 1 \in Nat /\ hist_i - 1 <= hist_n
    BY <1>1, <1>2
  <2> QED BY <1>2, <2>1, EntryHolds, RedrawScreen
<1>3. CASE hist_i = 1 /\ hist_i' = -1 /\ RedrawLine(live)
  BY <1>3, RedrawScreen DEF LineInv
<1>4. CASE hist_i < 1 /\ UNCHANGED <<hist_i, line, len, screen>>
  BY <1>4
<1> QED BY <1>2, <1>3, <1>4 DEF ScrollDown

\* One step.
LEMMA ScreenNextInv == LineInv /\ ScreenInv /\ [Next]_session => ScreenInv'
<1> SUFFICES ASSUME LineInv, ScreenInv, [Next]_session PROVE ScreenInv'
  OBVIOUS
<1>1. ASSUME at = "shell" PROVE ShowsLine(screen, line, len)
  BY <1>1 DEF ScreenInv
<1>2. \A k : InShell(k) => at = "shell"
  BY DEF InShell, ShellTakes
<1>3. ASSUME NEW c \in Letters, Letter(c) PROVE ScreenInv'
  BY <1>1, <1>2, <1>3, TypeLetterScreen, ShellStepScreen DEF Letter
<1>4. CASE CtrlP
  BY <1>1, <1>2, <1>4, ScrollUpScreen, ShellStepScreen DEF CtrlP
<1>5. CASE CtrlN
  BY <1>1, <1>2, <1>5, ScrollDownScreen, ShellStepScreen DEF CtrlN
<1>6. CASE BackspaceKey
  BY <1>1, <1>2, <1>6, BackspaceScreen, ShellStepScreen DEF BackspaceKey
<1>7. CASE TabKey
  BY <1>1, <1>2, <1>7, CompleteScreen, ShellStepScreen DEF TabKey
<1>8. \A s : GoodScreen(s) => GoodScreen(EnterLine(s))
  <2>1. Len(<<Newline>>) \in Nat
    OBVIOUS
  <2> QED BY <2>1, KprintGood DEF EnterLine
<1>9. CASE EnterKey
  <2>1. PICK s \in IF len = 0 THEN {EnterLine(screen)} ELSE Outcomes(EnterLine(screen)) :
          NextLine(s)
    BY <1>9 DEF EnterKey, Enter
  <2>2. GoodScreen(EnterLine(screen))
    BY <1>8 DEF ScreenInv
  <2>3. GoodScreen(s)
    <3>1. CASE len = 0
      BY <2>1, <2>2, <3>1
    <3>2. CASE len # 0
      BY <2>1, <2>2, <3>2, OutcomesGood
    <3> QED BY <3>1, <3>2
  <2>4. screen' = PrintPrompt(s) /\ len' = 0
    BY <2>1 DEF NextLine
  <2>5. ShowsLine(screen', line', len')
    BY <2>3, <2>4, PromptShows
  <2> QED BY <2>5, ShellStepScreen
<1>10. CASE Dahle
  <2>1. screen' = EnterVbe(EnterLine(screen), card) /\ at' # "shell"
    BY <1>10 DEF Dahle, EnterDesktop
  <2>2. GoodScreen(screen')
    BY <1>8, <2>1, EnterVbeGood DEF ScreenInv
  <2> QED BY <2>1, <2>2 DEF ScreenInv
<1>11. CASE LeaveDahle
  <2>1. screen' = PrintPrompt(AfterDahle(screen)) /\ len' = 0
    BY <1>11 DEF LeaveDahle, NextLine
  <2>2. GoodScreen(AfterDahle(screen))
    BY InkTypes, SetColorGood, ClearGood, BannerGood DEF AfterDahle, ScreenInv
  <2>3. ShowsLine(screen', line', len')
    BY <2>1, <2>2, PromptShows
  <2> QED BY <2>3, ShellStepScreen
<1>12. CASE InDesktop
  <2>1. UNCHANGED <<screen, line, len>>
    BY <1>12 DEF InDesktop, terminal, editor
  <2>2. at' # "shell"
    BY <1>12 DEF InDesktop, DesktopKey, OpenLauncher, LauncherKey, CloseApp, ShiftToggles,
                 KeyArrives, Take
  <2> QED BY <2>1, <2>2 DEF ScreenInv
<1>13. CASE IgnoredKey \/ UNCHANGED session
  <2>1. UNCHANGED <<screen, line, len, at>>
    BY <1>13 DEF IgnoredKey, InShell, session, terminal, editor, desktop
  <2> QED BY <2>1 DEF ScreenInv
<1> QED
  BY <1>3, <1>4, <1>5, <1>6, <1>7, <1>9, <1>10, <1>11, <1>12, <1>13 DEF Next

\* In every session, the line and the screen.
SessionInv == LineInv /\ ScreenInv

\* The line and the screen.
LEMMA SessionInvHolds == Spec => []SessionInv
<1>1. Init => SessionInv
  BY TerminalInitLine, InitScreen DEF Init, SessionInv
<1>2. SessionInv /\ [Next]_session => SessionInv'
  BY LineNextInv, ScreenNextInv DEF SessionInv
<1> QED BY <1>1, <1>2, PTL DEF Spec

\* The beginning of a sequence, element by element.
LEMMA FirstOfSequence ==
  ASSUME NEW t, NEW m \in Nat
  PROVE  SubSeq(t, 1, m) = [k \in 1 .. m |-> t[k]]
<1>1. SubSeq(t, 1, m) = [k \in 1 .. (1 + m - 1) |-> t[k + 1 - 1]]
  OBVIOUS
<1>2. \A k \in 1 .. m : k + 1 - 1 = k
  OBVIOUS
<1>3. 1 + m - 1 = m
  OBVIOUS
<1> QED BY ONLY <1>1, <1>2, <1>3

\* For every size of the screens, the prompt, the line and the history: the
\* line that Enter runs stands just before the cursor, after its prompt.
THEOREM SessionLineIsShown == Spec => []LineIsShown
<1>1. SessionInv => LineIsShown
  <2> SUFFICES ASSUME SessionInv, Waiting
               PROVE  EndsWith(screen, Painted(Prompt, Shown(Green))
                                       \o Painted(SubSeq(line, 1, len), Shown(screen.ink)))
    BY DEF LineIsShown
  <2> DEFINE p == Len(Prompt)
             f == LineCells(screen, line)
             head == Painted(Prompt, Shown(Green))
             rest == Painted(SubSeq(line, 1, len), Shown(screen.ink))
             Cells == {head[k] : k \in DOMAIN head} \cup {rest[k] : k \in DOMAIN rest}
             text == head \o rest
  <2>1. ShowsLine(screen, line, len)
    BY DEF SessionInv, ScreenInv, Waiting
  <2>2. /\ p \in Nat /\ DOMAIN Prompt = 1 .. p
        /\ LineMax \in Nat /\ len \in 0 .. LineMax - 1
    BY PromptFacts, EditorAssumption DEF SessionInv, LineInv
  <2>3. SubSeq(line, 1, len) = [k \in 1 .. len |-> line[k]]
    <3>1. len \in Nat
      BY ONLY <2>2
    <3> QED BY ONLY <3>1, FirstOfSequence
  <2>4. /\ head = [k \in 1 .. p |-> Cell(Prompt[k], ShownOn(screen, Green))]
        /\ rest = [k \in 1 .. len |-> Cell(line[k], ShownOn(screen, screen.ink))]
    BY <2>2, <2>3 DEF Painted, Shown, ShownOn
  <2> HIDE DEF head, rest
  <2>5. head \in Seq(Cells) /\ rest \in Seq(Cells) /\ Len(head) = p /\ Len(rest) = len
    BY <2>2, <2>4
  <2>6. /\ Len(text) = p + len
        /\ \A k \in 1 .. p + len : text[k] = IF k <= p THEN head[k] ELSE rest[k - p]
    <3> HIDE DEF Cells
    <3>1. /\ Len(text) = Len(head) + Len(rest)
          /\ \A k \in 1 .. Len(head) + Len(rest) :
                text[k] = IF k <= Len(head) THEN head[k] ELSE rest[k - Len(head)]
      BY ONLY <2>5, ConcatProperties DEF text
    <3> QED BY ONLY <2>5, <3>1
  <2> HIDE DEF text
  <2>7. ASSUME NEW k \in 1 .. p + len PROVE f[k] = text[k]
    <3>1. k \in 1 .. p + LineMax
      BY <2>2
    <3>2. CASE k <= p
      <4>1. f[k] = Cell(Prompt[k], ShownOn(screen, Green))
        BY <3>1, <3>2 DEF LineCells
      <4>2. k \in 1 .. p
        BY <2>2, <3>2
      <4> QED BY <2>4, <2>6, <3>2, <4>1, <4>2
    <3>3. CASE ~(k <= p)
      <4>1. f[k] = Cell(line[k - p], ShownOn(screen, screen.ink))
        BY <3>1, <3>3 DEF LineCells
      <4>2. k - p \in 1 .. len
        BY <2>2, <3>3
      <4> QED BY <2>4, <2>6, <3>3, <4>1, <4>2
    <3> QED BY <3>2, <3>3
  <2> HIDE DEF f
  <2>8. Shows(screen, text, p + len)
    BY <2>1, <2>7, ShowsSame DEF ShowsLine, f
  <2>9. DOMAIN text = 1 .. p + len
    <3> HIDE DEF Cells
    <3>1. text \in Seq(Cells)
      BY <2>5, ConcatProperties DEF text
    <3> QED BY <2>6, <3>1, LenProperties
  <2>10. EndsWith(screen, text)
    BY ONLY <2>6, <2>8, <2>9 DEF EndsWith, Shows
  <2> QED BY ONLY <2>10 DEF text, head, rest
<1> QED BY <1>1, SessionInvHolds, PTL

\* For every size of the screens, nothing is left behind the cursor; not even
\* while a command has the screen.
THEOREM SessionNothingBehindCursor == Spec => []NothingBehindCursor
<1>1. SessionInv => NothingBehindCursor
  <2> SUFFICES ASSUME SessionInv PROVE BlankBehindCursor(screen)
    BY DEF NothingBehindCursor
  <2>1. CASE VgaText(screen, VgaRows)
    <3>1. /\ screen.mode = "VGA" /\ DOMAIN screen.cells = VgaBuffer
          /\ screen.col \in 0 .. VgaCols - 1 /\ screen.row \in 0 .. VgaRows - 1
      BY <2>1 DEF VgaText
    <3>2. Cols(screen) = VgaCols /\ CursorAt(screen) = screen.row * VgaCols + screen.col
      BY <3>1 DEF Cols, CursorAt
    <3>3. ASSUME NEW p \in VgaBuffer, p[1] * VgaCols + p[2] >= CursorAt(screen)
          PROVE  screen.cells[p].char = " "
      <4>1. p[1] \in 0 .. VgaRows - 1 /\ p[2] \in 0 .. VgaCols - 1 /\ p = <<p[1], p[2]>>
        BY DEF VgaBuffer
      <4> DEFINE r == p[1]
                 c == p[2]
      <4>2. r * VgaCols + c >= screen.row * VgaCols + screen.col
        BY <3>2, <3>3
      <4> HIDE DEF r, c
      <4>3. r > screen.row \/ (r = screen.row /\ c >= screen.col)
        <5>1. r \in Int /\ c \in 0 .. VgaCols - 1 /\ screen.row \in Int /\ VgaCols \in Nat
          BY <3>1, <4>1, Geometry DEF r, c
        <5> QED BY <3>1, <4>2, <5>1, PositionOrder
      <4>4. screen.cells[<<r, c>>].char = " "
        BY <2>1, <4>1, <4>3 DEF VgaText, r, c
      <4> QED BY <4>1, <4>4 DEF r, c
    <3> QED BY <3>1, <3>2, <3>3 DEF BlankBehindCursor
  <2>2. CASE VbeText(screen, VbeRows)
    <3>1. /\ screen.mode = "VBE" /\ DOMAIN screen.cells = Framebuffer
          /\ screen.col \in 0 .. VbeCols - 1 /\ screen.row \in 0 .. VbeRows - 1
      BY <2>2 DEF VbeText
    <3>2. Cols(screen) = VbeCols /\ CursorAt(screen) = screen.row * VbeCols + screen.col
      BY <3>1 DEF Cols, CursorAt
    <3>3. ASSUME NEW p \in Framebuffer, (p[1] \div 2) * VbeCols + p[2] >= CursorAt(screen)
          PROVE  screen.cells[p].char = " "
      <4>1. p[1] \in Bands /\ p[2] \in 0 .. VbeCols - 1 /\ p = <<p[1], p[2]>>
        BY DEF Framebuffer
      <4> DEFINE b == p[1]
                 r == b \div 2
                 c == p[2]
      <4>2. r * VbeCols + c >= screen.row * VbeCols + screen.col
        BY <3>2, <3>3
      <4>3. b \in Int /\ r \in Int /\ b >= 2 * r
        BY <4>1, BandType
      <4> HIDE DEF b, r, c
      <4>4. r > screen.row \/ (r = screen.row /\ c >= screen.col)
        <5>1. c \in 0 .. VbeCols - 1 /\ screen.row \in Int /\ VbeCols \in Nat
          BY <3>1, <4>1, Geometry DEF c
        <5> QED BY <3>1, <4>2, <4>3, <5>1, PositionOrder
      <4>5. b >= 2 * screen.row + 2 \/ (b >= 2 * screen.row /\ c >= screen.col)
        BY <3>1, <4>3, <4>4
      <4>6. screen.cells[<<b, c>>].char = " "
        BY <2>2, <4>1, <4>5 DEF VbeText, b, c
      <4> QED BY <4>1, <4>6 DEF b, c
    <3> QED BY <3>1, <3>2, <3>3 DEF BlankBehindCursor
  <2> QED BY <2>1, <2>2 DEF SessionInv, ScreenInv, GoodScreen
<1> QED BY <1>1, SessionInvHolds, PTL

\* Where a key is waited for, and the keys typed ahead.
QueueInv ==
  /\ card \in HasCard
  /\ at \in {"shell", "desktop", "launcher", "sysmon", "about"}
  /\ queue \in Seq([key : Key, shifted : BOOLEAN]) /\ Len(queue) <= QueueBound
  /\ shift \in BOOLEAN

\* At power-on.
LEMMA QueueInitInv == Init => QueueInv
<1> SUFFICES ASSUME Init PROVE QueueInv
  OBVIOUS
<1>1. Len(<<>>) <= QueueBound /\ <<>> \in Seq([key : Key, shifted : BOOLEAN])
  BY DesktopAssumption
<1> QED BY <1>1 DEF Init, TerminalInit, DesktopInit, QueueInv

\* A key is taken from the queue, or added to it.
LEMMA QueueSteps ==
  ASSUME QueueInv
  PROVE  /\ queue # <<>> => /\ Tail(queue) \in Seq([key : Key, shifted : BOOLEAN])
                            /\ Len(Tail(queue)) <= QueueBound
         /\ \A k \in Key : Len(queue) < QueueBound =>
              /\ Append(queue, Typed(k)) \in Seq([key : Key, shifted : BOOLEAN])
              /\ Len(Append(queue, Typed(k))) <= QueueBound
<1> DEFINE Event == [key : Key, shifted : BOOLEAN]
<1>1. queue \in Seq(Event) /\ Len(queue) \in Nat /\ Len(queue) <= QueueBound /\ QueueBound \in Nat
  BY DesktopAssumption DEF QueueInv
<1>2. \A k \in Key : Typed(k) \in Event
  <2>1. \A k \in Key : (k = "ESC" /\ shift) \in BOOLEAN
    BY Zenon DEF QueueInv
  <2> QED BY <2>1 DEF Typed
<1> HIDE DEF Event
<1>3. queue # <<>> => Tail(queue) \in Seq(Event) /\ Len(Tail(queue)) = Len(queue) - 1
  BY <1>1, HeadTailProperties
<1>4. \A k \in Key : /\ Append(queue, Typed(k)) \in Seq(Event)
                     /\ Len(Append(queue, Typed(k))) = Len(queue) + 1
  BY <1>1, <1>2, AppendProperties
<1>5. queue # <<>> => Len(Tail(queue)) <= QueueBound
  BY <1>1, <1>3
<1>6. \A k \in Key : Len(queue) < QueueBound => Len(Append(queue, Typed(k))) <= QueueBound
  BY <1>1, <1>4
<1> QED BY <1>3, <1>4, <1>5, <1>6 DEF Event

\* One step.
LEMMA QueueNextInv == QueueInv /\ [Next]_session => QueueInv'
<1> SUFFICES ASSUME QueueInv, [Next]_session PROVE QueueInv'
  OBVIOUS
<1>1. ASSUME UNCHANGED card, queue' = queue \/ (queue # <<>> /\ queue' = Tail(queue)),
             at' \in {"shell", "desktop", "launcher", "sysmon", "about"}, UNCHANGED shift
      PROVE  QueueInv'
  BY <1>1, QueueSteps DEF QueueInv
<1>2. \A k : ShellTakes(k) => queue' = queue \/ (queue # <<>> /\ queue' = Tail(queue))
  BY DEF ShellTakes
<1>3. UNCHANGED at => at' \in {"shell", "desktop", "launcher", "sysmon", "about"}
  BY DEF QueueInv
<1>4. CASE \E k : InShell(k) /\ UNCHANGED card
  BY <1>1, <1>2, <1>3, <1>4 DEF InShell
<1>5. ASSUME NEW c \in Letters, Letter(c) PROVE QueueInv'
  BY <1>4, <1>5 DEF Letter, TypeLetter
<1>6. CASE CtrlP \/ CtrlN \/ BackspaceKey \/ TabKey \/ EnterKey \/ IgnoredKey
  BY <1>4, <1>6 DEF CtrlP, CtrlN, BackspaceKey, TabKey, EnterKey, IgnoredKey,
                    ScrollUp, ScrollDown, Backspace, Complete, Enter, terminal
<1>7. CASE Dahle
  BY <1>1, <1>2, <1>7 DEF Dahle, EnterDesktop
<1>8. CASE LeaveDahle
  BY <1>1, <1>8 DEF LeaveDahle, Leave, Take
<1>9. CASE InDesktop
  <2>1. UNCHANGED card
    BY <1>9 DEF InDesktop, terminal
  <2>2. CASE DesktopKey
    BY <1>1, <1>3, <2>1, <2>2 DEF DesktopKey, Take
  <2>3. CASE OpenLauncher
    BY <1>1, <2>1, <2>3 DEF OpenLauncher, Take
  <2>4. CASE LauncherKey
    BY <1>1, <2>1, <2>4 DEF LauncherKey, Take
  <2>5. CASE CloseApp
    BY <1>1, <2>1, <2>5 DEF CloseApp, Take
  <2>6. CASE ShiftToggles
    <3>1. shift' \in BOOLEAN
      BY <2>6, Zenon DEF ShiftToggles
    <3> QED BY <2>1, <2>6, <3>1 DEF ShiftToggles, QueueInv
  <2>7. CASE \E k \in Key : KeyArrives(k)
    BY <2>1, <2>7, QueueSteps DEF KeyArrives, QueueInv
  <2> QED BY <1>9, <2>2, <2>3, <2>4, <2>5, <2>6, <2>7 DEF InDesktop
<1>10. CASE UNCHANGED session
  BY <1>10 DEF session, terminal, desktop, QueueInv
<1> QED BY <1>5, <1>6, <1>7, <1>8, <1>9, <1>10 DEF Next

\* For every size: the cursor stays on the screen that is in use, and the line,
\* the history, the windows and the queue within their bounds.
THEOREM SessionTypeCorrect == Spec => []TypeOK
<1>1. Spec => []QueueInv
  BY QueueInitInv, QueueNextInv, PTL DEF Spec
<1>2. SessionInv /\ QueueInv /\ DesktopInv => TypeOK
  <2> SUFFICES ASSUME SessionInv, QueueInv, DesktopInv PROVE TypeOK
    OBVIOUS
  <2>1. ScreenType(screen)
    <3>1. CASE VgaText(screen, VgaRows)
      BY <3>1 DEF VgaText, ScreenType, Cols, Rows, Attrs
    <3>2. CASE VbeText(screen, VbeRows)
      BY <3>2 DEF VbeText, ScreenType, Cols, Rows, Attrs
    <3> QED BY <3>1, <3>2 DEF SessionInv, ScreenInv, GoodScreen
  <2>2. wpos \in [0 .. Windows - 1 -> [x : Int, y : Int]]
    <3>1. Position \subseteq [x : Int, y : Int]
      BY DesktopAssumption DEF Position, Margin
    <3> QED BY <3>1 DEF DesktopInv
  <2> QED BY <2>1, <2>2 DEF SessionInv, LineInv, Terminated, QueueInv, DesktopInv, TypeOK, DesktopType
<1> QED BY <1>1, <1>2, SessionInvHolds, SessionDesktopInv, PTL
=============================================================================
