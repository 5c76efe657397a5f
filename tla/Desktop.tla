------------------------------ MODULE Desktop ------------------------------
(***************************************************************************)
(* The desktop of the dahle command (shell/commands.c, cmd_dahle() and its *)
(* helpers) and the keys it takes from the driver's queue: the windows,    *)
(* the focus, the launcher and its two applications, and what was painted  *)
(* last.  While the desktop runs, keys and the shift key arrive from the   *)
(* interrupt.                                                              *)
(***************************************************************************)
EXTENDS Integers, Sequences

CONSTANTS
  Windows,         \* number of windows
  Start,           \* SYSINFO_X, WELCOME_X, CONTROLS_X and WIN_TOP
  Step,            \* MOVE_STEP
  Right, Bottom,   \* 798 and 560
  QueueBound       \* bound on the keys typed ahead

Margin == 2        \* what the focus glow needs on each side

Position == [x : Margin .. Right - 1, y : Margin .. Bottom - 1]

ASSUME DesktopAssumption ==
  /\ Windows \in Nat \ {0} /\ Step \in Nat \ {0} /\ QueueBound \in Nat
  /\ Right \in Nat /\ Bottom \in Nat
  /\ Start \in [0 .. Windows - 1 -> Position]

Arrows == {"up", "down", "left", "right"}
\* Enter stands for every key that means nothing here.
Key == Arrows \cup {"ESC", "tab", "1", "2", "enter"}

VARIABLES
  at,          \* the loop that waits for a key: the shell's, the desktop's, ...
  queue,       \* keys typed and not taken
  shift,       \* keyboard_shift_held()
  wpos,        \* wpos_x[], wpos_y[]
  wfocus,
  shown        \* what was painted last

desktop == <<at, queue, shift, wpos, wfocus, shown>>

Scene(pos, focus) == [layer |-> "desktop", pos |-> pos, focus |-> focus]
Modal(name) == [layer |-> name]

\* history: was shift held when this ESC was typed?
Typed(k) == [key |-> k, shifted |-> k = "ESC" /\ shift]

DesktopType ==
  /\ at \in {"shell", "desktop", "launcher", "sysmon", "about"}
  /\ queue \in Seq([key : Key, shifted : BOOLEAN]) /\ Len(queue) <= QueueBound
  /\ shift \in BOOLEAN
  /\ wpos \in [0 .. Windows - 1 -> [x : Int, y : Int]]
  /\ wfocus \in 0 .. Windows - 1

DesktopInit ==
  /\ at = "shell" /\ queue = <<>> /\ shift = FALSE
  /\ wpos = Start /\ wfocus = 0
  /\ shown = Modal("text")

-----------------------------------------------------------------------------
(* The keyboard interrupt, while the desktop runs. *)

KeyArrives(k) ==
  /\ at # "shell" /\ Len(queue) < QueueBound
  /\ queue' = Append(queue, Typed(k))
  /\ UNCHANGED <<at, shift, wpos, wfocus, shown>>

ShiftToggles ==
  /\ at # "shell"
  /\ shift' = ~shift
  /\ UNCHANGED <<at, queue, wpos, wfocus, shown>>

-----------------------------------------------------------------------------
(* cmd_dahle() *)

\* The head of cmd_dahle(); the key that brought the user here is the shell's.
EnterDesktop ==
  /\ at = "shell"
  /\ at' = "desktop"
  /\ wpos' = Start /\ wfocus' = 0
  /\ shown' = Scene(Start, 0)
  /\ UNCHANGED shift

\* keyboard_getchar() in the given loop.
Take(where) == at = where /\ queue # <<>> /\ queue' = Tail(queue)

\* Mutant: an arrow is stopped by the edge alone.
MovedToEdge(p, k) ==
  IF k = "up" /\ p.y >= Step THEN [p EXCEPT !.y = @ - Step]
  ELSE IF k = "down" /\ p.y + Step < Bottom THEN [p EXCEPT !.y = @ + Step]
  ELSE IF k = "left" /\ p.x >= Step THEN [p EXCEPT !.x = @ - Step]
  ELSE IF k = "right" /\ p.x + Step < Right THEN [p EXCEPT !.x = @ + Step]
  ELSE p

\* An arrow moves the window unless it would leave its range.
Moved(p, k) ==
  IF k = "up" /\ p.y >= Step + Margin THEN [p EXCEPT !.y = @ - Step]
  ELSE IF k = "down" /\ p.y + Step < Bottom THEN [p EXCEPT !.y = @ + Step]
  ELSE IF k = "left" /\ p.x >= Step + Margin THEN [p EXCEPT !.x = @ - Step]
  ELSE IF k = "right" /\ p.x + Step < Right THEN [p EXCEPT !.x = @ + Step]
  ELSE p

\* Any key but ESC.
DesktopKey ==
  /\ Take("desktop") /\ Head(queue).key # "ESC"
  /\ wfocus' = IF Head(queue).key = "tab" THEN (wfocus + 1) % Windows ELSE wfocus
  /\ wpos' = [wpos EXCEPT ![wfocus] = Moved(@, Head(queue).key)]
  /\ shown' = Scene(wpos', wfocus')
  /\ UNCHANGED <<at, shift>>

\* ESC while shift is held, when it is taken.
OpenLauncher ==
  /\ Take("desktop") /\ Head(queue).key = "ESC" /\ shift
  /\ at' = "launcher"
  /\ shown' = Modal("launcher")
  /\ UNCHANGED <<shift, wpos, wfocus>>

\* ESC otherwise.  The windows are set again before they are next looked at.
Leave ==
  /\ Take("desktop") /\ Head(queue).key = "ESC" /\ ~shift
  /\ at' = "shell"
  /\ shown' = Modal("text")
  /\ wpos' = Start /\ wfocus' = 0
  /\ UNCHANGED shift

\* dahle_launcher(): an application, or back to a repainted desktop.
LauncherKey ==
  /\ Take("launcher")
  /\ LET app == CASE Head(queue).key = "1" -> "sysmon"
                  [] Head(queue).key = "2" -> "about"
                  [] OTHER -> "desktop"
     IN /\ at' = app
        /\ shown' = IF app = "desktop" THEN Scene(wpos, wfocus) ELSE Modal(app)
  /\ UNCHANGED <<shift, wpos, wfocus>>

\* Mutant: an application returns without repainting.
CloseAppOnly ==
  /\ \E app \in {"sysmon", "about"} : Take(app)
  /\ at' = "desktop"
  /\ UNCHANGED <<shift, wpos, wfocus, shown>>

\* Any key closes an application.
CloseApp ==
  /\ \E app \in {"sysmon", "about"} : Take(app)
  /\ at' = "desktop"
  /\ shown' = Scene(wpos, wfocus)
  /\ UNCHANGED <<shift, wpos, wfocus>>

DesktopStep == DesktopKey \/ OpenLauncher \/ Leave \/ LauncherKey \/ CloseApp

-----------------------------------------------------------------------------
(* Properties. *)

\* No sequence of arrows takes a window where it cannot be seen, or where its
\* focus glow is not drawn.
WindowsStayReachable == \A w \in 0 .. Windows - 1 : wpos[w] \in Position

\* While the desktop waits for a key, the screen shows the windows where they
\* are and the focus that Tab and the arrows act on, and a modal that waits for
\* a key is the one shown.
DisplayIsCurrent ==
  at # "shell"
  => shown = IF at = "desktop" THEN Scene(wpos, wfocus) ELSE Modal(at)

-----------------------------------------------------------------------------
(* A statement of a comment that the code does not keep. *)

\* shell/commands.c, the head of the desktop: "ESC exit to shell", "Shift+ESC
\* open App Launcher".
EscIsAnsweredAsTyped ==
  [][at = "desktop" /\ at' = "shell" => ~Head(queue).shifted]_desktop
=============================================================================
