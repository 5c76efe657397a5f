------------------------------ MODULE Session ------------------------------
(***************************************************************************)
(* A user at the machine: the line editor and the desktop on the one       *)
(* screen and the one key queue.  The shell's loop answers a key as soon   *)
(* as it is typed; keys typed while the desktop runs wait, and those       *)
(* behind the ESC that leaves it are the shell's.                          *)
(***************************************************************************)
EXTENDS Terminal, Desktop

CONSTANTS
  VisitBound,     \* bound on hist_n when the desktop is opened
  ShellLetters    \* bound on the letters typed while the shell waits

ASSUME SessionAssumption == VisitBound \in Nat /\ ShellLetters \subseteq Letters

session == <<terminal, desktop>>

Init == TerminalInit /\ DesktopInit

-----------------------------------------------------------------------------

\* The shell takes a key: the next of the queue, or one typed now.
ShellTakes(k) ==
  /\ at = "shell"
  /\ \/ queue # <<>> /\ k = Head(queue).key /\ queue' = Tail(queue)
     \/ queue = <<>> /\ k \notin Letters \ ShellLetters /\ UNCHANGED queue

\* Any other command, or none.
InShell(k) == ShellTakes(k) /\ UNCHANGED <<at, shift, wpos, wfocus, shown>>

Letter(c) == InShell(c) /\ TypeLetter(c)

CtrlP == InShell("^P") /\ ScrollUp
CtrlN == InShell("^N") /\ ScrollDown
BackspaceKey == InShell("backspace") /\ Backspace
TabKey == InShell("tab") /\ Complete
EnterKey == InShell("enter") /\ Enter

\* ESC and the arrows: no branch of shell_run() is for them.
IgnoredKey == (\E k \in Arrows \cup {"ESC"} : InShell(k)) /\ UNCHANGED terminal

\* Enter on a line that runs dahle: nothing of the loop after run() happens
\* before the desktop is left.
Dahle ==
  /\ ShellTakes("enter")
  /\ len > 0
  /\ HistPush /\ hist_n' <= VisitBound
  /\ hist_i' = -1
  /\ screen' = EnterVbe(EnterLine(screen), card)
  /\ EnterDesktop
  /\ UNCHANGED <<card, line, len, live>>

LeaveDahle ==
  /\ Leave
  /\ NextLine(AfterDahle(screen))
  /\ UNCHANGED <<card, hist, hist_n, hist_i, live>>

InDesktop ==
  /\ DesktopKey \/ OpenLauncher \/ LauncherKey \/ CloseApp \/ ShiftToggles
     \/ \E k \in Key : KeyArrives(k)
  /\ UNCHANGED terminal

Next ==
  \/ \E c \in Letters : Letter(c)
  \/ CtrlP \/ CtrlN \/ BackspaceKey \/ TabKey \/ EnterKey \/ IgnoredKey
  \/ Dahle \/ LeaveDahle \/ InDesktop

Spec == Init /\ [][Next]_session

-----------------------------------------------------------------------------
(* Properties. *)

TypeOK ==
  /\ ScreenType(screen)
  /\ card \in HasCard
  /\ line \in Array /\ live \in Array /\ len \in 0 .. LineMax - 1
  /\ hist \in [0 .. HistoryMax - 1 -> Array]
  /\ hist_n \in Nat /\ hist_i \in -1 .. hist_n
  /\ DesktopType

Waiting == at = "shell"

Painted(text, ink) == [k \in DOMAIN text |-> Cell(text[k], ink)]

\* An ink, as the screen in use shows it.
Shown(ink) == IF screen.mode = "VGA" THEN ToAttr(ink) ELSE ink

\* What the editor will run is what the user sees: the prompt and the line
\* stand just before the cursor, in the colours that were set, in either mode
\* and after any wrapping, scrolling, completion, history and change of mode.
LineIsShown ==
  Waiting => EndsWith(screen, Painted(Prompt, Shown(Green))
                              \o Painted(SubSeq(line, 1, len), Shown(screen.ink)))

\* Nothing is left on the screen behind the cursor, not even half a row in the
\* strip below the last one.
NothingBehindCursor == Waiting => BlankBehindCursor(screen)

\* The line ends where len says: the completion, the history and run() take
\* the array up to its first NUL.
LineEndsInZeros ==
  Waiting => StrLen(line) = len /\ \A k \in len + 1 .. LineMax : line[k] = Nul
=============================================================================
