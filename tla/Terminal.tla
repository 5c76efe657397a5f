----------------------------- MODULE Terminal -----------------------------
(***************************************************************************)
(* The line editor of shell/shell.c above the text screen: the line, the   *)
(* history and what the user sees of them.  One operator per branch of the *)
(* loop of shell_run(); what a command does to the screen is one of the    *)
(* outcomes below.                                                         *)
(*                                                                         *)
(* The branches for Ctrl-P and Ctrl-N are modelled as they are written,    *)
(* although no key of drivers/keyboard.c gives their characters.           *)
(***************************************************************************)
EXTENDS Screen

CONSTANTS
  LineMax,         \* LINE_MAX
  HistoryMax,      \* HISTORY_MAX
  HistNBound,      \* bound on hist_n, which only grows
  Letters,         \* printable characters
  CommandNames,    \* the names of cmd_table[], in order
  Prompt,          \* the prompt's characters
  HasCard          \* may vbe_framebuffer() be found, or be missing?

Nul == "nul"

ASSUME EditorAssumption ==
  /\ Nul \notin Letters /\ Newline \notin Letters
  /\ Prompt \in Seq(STRING \ {Newline})
  /\ LineMax \in Nat \ {0, 1} /\ HistoryMax \in Nat \ {0} /\ HistNBound \in Nat
  /\ HasCard \subseteq BOOLEAN
  /\ CommandNames \in Seq(Seq(Letters))
  \* a line and its prompt leave a row of the screen free
  /\ Len(Prompt) + LineMax - 1 <= VgaCols * (VgaRows - 1)
  /\ Len(Prompt) + LineMax - 1 <= VbeCols * (VbeRows - 1)

VARIABLES
  screen,
  card,       \* vbe_framebuffer() != 0
  line,       \* line[], as an array of LINE_MAX characters
  len,
  hist, hist_n, hist_i, live

editor == <<line, len, hist, hist_n, hist_i, live>>
terminal == <<screen, card, editor>>

Array == [1 .. LineMax -> Letters \cup {Nul}]
NoLine == [k \in 1 .. LineMax |-> Nul]

\* strlen()
StrLen(a) == (CHOOSE k \in 1 .. LineMax : a[k] = Nul /\ \A j \in 1 .. k - 1 : a[j] # Nul) - 1

\* The string an array holds.
StringOf(a) == [k \in 1 .. StrLen(a) |-> a[k]]

\* strncpy(dest, src, LINE_MAX - 1) pads with NUL; the last byte stays.
StrNCpy(dest, src) ==
  [k \in 1 .. LineMax |->
     IF k = LineMax THEN dest[k] ELSE IF k <= StrLen(src) THEN src[k] ELSE Nul]

-----------------------------------------------------------------------------

\* print_prompt()
PrintPrompt(s) == KprintColor(s, Prompt, Green)

\* The boot's banner in kernel_main(), which cmd_dahle() prints again.
PrintBanner(s) == KprintColor(s, <<Newline, "#", Newline>>, Green)

\* kernel_main() and the head of shell_run().
TerminalInit ==
  /\ card \in HasCard
  /\ screen =
       LET boot == [mode |-> "VBE", cells |-> [p \in Framebuffer |-> Blank(White)],
                    row |-> 0, col |-> 0, ink |-> White, attr |-> Grey]
       IN PrintPrompt(PrintBanner(EnterVga(boot)))
  /\ line = NoLine /\ len = 0
  /\ hist = [e \in 0 .. HistoryMax - 1 |-> NoLine] /\ hist_n = 0 /\ hist_i = -1
  /\ live = NoLine

\* A printable character.
TypeLetter(c) ==
  /\ IF len < LineMax - 1
     THEN /\ line' = [line EXCEPT ![len + 1] = c]
          /\ len' = len + 1
          /\ screen' = KprintChar(screen, c)
     ELSE UNCHANGED <<line, len, screen>>
  /\ UNCHANGED <<card, hist, hist_n, hist_i, live>>

\* Mutant: the character is taken off the screen, not out of the line.
BackspaceOnScreen ==
  /\ IF len > 0
     THEN len' = len - 1 /\ screen' = ScreenBackspace(screen)
     ELSE UNCHANGED <<len, screen>>
  /\ UNCHANGED <<card, line, hist, hist_n, hist_i, live>>

Backspace ==
  /\ IF len > 0
     THEN /\ line' = [line EXCEPT ![len] = Nul]
          /\ len' = len - 1
          /\ screen' = ScreenBackspace(screen)
     ELSE UNCHANGED <<line, len, screen>>
  /\ UNCHANGED <<card, hist, hist_n, hist_i, live>>

\* strncmp(name, line, len) == 0
Completes(name) ==
  Len(name) >= len /\ \A k \in 1 .. len : name[k] = line[k]

\* The rest of the first such name, as far as it fits.
Completion ==
  LET matching == {n \in DOMAIN CommandNames : Completes(CommandNames[n])} IN
  IF matching = {} THEN <<>>
  ELSE LET name == CommandNames[CHOOSE n \in matching : \A m \in matching : n <= m]
       IN SubSeq(name, len + 1, IF Len(name) < LineMax THEN Len(name) ELSE LineMax - 1)

Complete ==
  /\ line' = [k \in 1 .. LineMax |->
                IF k \in len + 1 .. len + Len(Completion) THEN Completion[k - len]
                ELSE line[k]]
  /\ len' = len + Len(Completion)
  /\ screen' = Kprint(screen, Completion)
  /\ UNCHANGED <<card, hist, hist_n, hist_i, live>>

Entry(offset) == hist[(hist_n - offset) % HistoryMax]

\* redraw_line()
RedrawLine(s) ==
  /\ line' = [StrNCpy(line, s) EXCEPT ![LineMax] = Nul]
  /\ len' = StrLen(line')
  /\ screen' = Kprint(Erased(screen, len), StringOf(line'))

\* Ctrl-P.
ScrollUp ==
  LET next == hist_i + 1 IN
  /\ IF hist_n - next >= 0     \* hist_get() finds an entry
     THEN /\ live' = IF hist_i = -1 THEN StrNCpy(live, line) ELSE live
          /\ hist_i' = next
          /\ RedrawLine(Entry(next))
     ELSE UNCHANGED <<live, hist_i, line, len, screen>>
  /\ UNCHANGED <<card, hist, hist_n>>

\* Ctrl-N.
ScrollDown ==
  /\ \/ hist_i > 1 /\ hist_i' = hist_i - 1 /\ RedrawLine(Entry(hist_i - 1))
     \/ hist_i = 1 /\ hist_i' = -1 /\ RedrawLine(live)
     \/ hist_i < 1 /\ UNCHANGED <<hist_i, line, len, screen>>
  /\ UNCHANGED <<card, hist, hist_n, live>>

\* hist_push()
HistPush ==
  IF len = 0 \/ (hist_n > 0 /\ StringOf(Entry(1)) = StringOf(line))
  THEN UNCHANGED <<hist, hist_n>>
  ELSE /\ hist' = [hist EXCEPT ![hist_n % HistoryMax] = StrNCpy(@, line)]
       /\ hist_n' = hist_n + 1

\* What cmd_dahle() leaves: it stays in VBE mode.
AfterDahle(s) == PrintBanner(ScreenClear(SetColor(s, White)))

\* graphics_run_tests(): VBE and back, twice, and a report.
AfterTests(s) ==
  LET once == EnterVga(EnterVbe(s, card))
      told == KprintColor(EnterVbe(once, card), <<"v", Newline>>, Green)
      back == KprintColor(EnterVga(told), <<"g", Newline>>, Green)
  IN Kprint(back, <<"t", Newline>>)

\* What a command may do to the screen.
Outcomes(s) ==
  {Kprint(s, <<"x", Newline>>),                               \* most of them
   ScreenClear(s),                                            \* clear
   KprintColor(EnterVbe(s, card), <<"v", Newline>>, Green),    \* graphics set vbe
   KprintColor(EnterVga(s), <<"g", Newline>>, Green),         \* graphics set vga
   AfterTests(s)}                                             \* graphics test
  \cup {Kprint(SetColor(s, ink), <<"c", Newline>>) : ink \in UserInk}   \* color

\* Enter, up to run(line).
EnterLine(s) == Kprint(s, <<Newline>>)

\* After run(line).
NextLine(s) ==
  /\ screen' = PrintPrompt(s)
  /\ line' = NoLine
  /\ len' = 0

Enter ==
  /\ HistPush /\ hist_n' <= HistNBound
  /\ hist_i' = -1
  /\ \E s \in IF len = 0 THEN {EnterLine(screen)} ELSE Outcomes(EnterLine(screen)) :
       NextLine(s)
  /\ UNCHANGED <<card, live>>
=============================================================================
