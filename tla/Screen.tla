------------------------------ MODULE Screen ------------------------------
(***************************************************************************)
(* The text layers of drivers/vga_text.c and drivers/screen.c as operators *)
(* on one record: the mode, what the active buffer shows, the cursor,      *)
(* cur_fg and cur_bg (together: the ink) and vga_attr.  Entering a mode    *)
(* clears its buffer and its cursor, so those of the other mode need not   *)
(* be kept.                                                                *)
(*                                                                         *)
(* The VGA buffer is a matrix of cells.  The framebuffer is cut into bands *)
(* of half a text row: 600 pixels hold 37 rows of 16 and one band is left  *)
(* below.                                                                  *)
(***************************************************************************)
EXTENDS Integers, Sequences

CONSTANTS
  VgaCols, VgaRows,    \* VGA_TEXT_COLS, VGA_TEXT_ROWS
  VbeCols, VbeRows,    \* tcols(), trows()
  UserInk              \* the pairs of colours the color command may set

ASSUME GeometryAssumption ==
  {VgaCols, VgaRows, VbeCols, VbeRows} \subseteq Nat \ {0, 1}

\* BLACK and GUI_DESKTOP are one colour.
White == "WHITE on BLACK"
Green == "LGREEN on BLACK"

Ink == {White, Green} \cup UserInk

\* vga_text_rgb_to_attr(): the named colours and the palette's are one to one.
ToAttr(ink) == [attr |-> ink]

Grey == ToAttr("LGREY on BLACK")

Newline == "newline"
Cell(c, ink) == [char |-> c, ink |-> ink]
Blank(ink) == Cell(" ", ink)

VgaBuffer == (0 .. VgaRows - 1) \X (0 .. VgaCols - 1)
Bands == 0 .. 2 * VbeRows
Framebuffer == Bands \X (0 .. VbeCols - 1)

-----------------------------------------------------------------------------
(* drivers/vga_text.c *)

\* Mutant: the row that comes into view is not cleared.
VgaScrollUncleared(s) ==
  [s EXCEPT !.cells = [p \in VgaBuffer |-> IF p[1] + 1 < VgaRows
                                           THEN @[<<p[1] + 1, p[2]>>] ELSE @[p]],
            !.row = IF @ > 0 THEN @ - 1 ELSE @]

\* do_scroll()
VgaScroll(s) ==
  [s EXCEPT !.cells = [p \in VgaBuffer |-> IF p[1] + 1 < VgaRows
                                           THEN @[<<p[1] + 1, p[2]>>] ELSE Blank(s.attr)],
            !.row = IF @ > 0 THEN @ - 1 ELSE @]

\* vga_text_clear()
VgaClear(s) ==
  [s EXCEPT !.cells = [p \in VgaBuffer |-> Blank(s.attr)], !.col = 0, !.row = 0]

\* Past the last column the cursor is on the next row.
Wrapped(s, cols) == IF s.col < cols THEN s ELSE [s EXCEPT !.col = 0, !.row = @ + 1]

\* vga_text_putchar()
VgaPutChar(s, c) ==
  LET t == IF c = Newline
           THEN [s EXCEPT !.col = 0, !.row = @ + 1]
           ELSE Wrapped([s EXCEPT !.cells[<<s.row, s.col>>] = Cell(c, s.attr),
                                  !.col = @ + 1], VgaCols)
  IN IF t.row >= VgaRows THEN VgaScroll(t) ELSE t

\* Before the first column the cursor is at the end of the row above.
SteppedBack(s, cols) ==
  IF s.col > 0 THEN [s EXCEPT !.col = @ - 1]
  ELSE IF s.row > 0 THEN [s EXCEPT !.row = @ - 1, !.col = cols - 1]
  ELSE s

\* vga_text_backspace()
VgaBackspace(s) ==
  LET t == SteppedBack(s, VgaCols)
  IN [t EXCEPT !.cells[<<t.row, t.col>>] = Blank(t.attr)]

-----------------------------------------------------------------------------
(* drivers/screen.c in VBE mode *)

\* A glyph, or a filled rectangle, covers both bands of its row.
Draw(s, cell) ==
  [s EXCEPT !.cells = [p \in Framebuffer |->
                        IF p \in {<<2 * s.row, s.col>>, <<2 * s.row + 1, s.col>>}
                        THEN cell ELSE @[p]]]

\* do_scroll(): everything moves up by a row, the strip below the last row
\* included; the last two bands are cleared.
VbeScroll(s) ==
  [s EXCEPT !.cells = [p \in Framebuffer |-> IF p[1] + 2 \in Bands
                                             THEN @[<<p[1] + 2, p[2]>>]
                                             ELSE Blank(s.ink)],
            !.row = IF @ > 0 THEN @ - 1 ELSE @]

VbeClear(s) ==
  [s EXCEPT !.cells = [p \in Framebuffer |-> Blank(s.ink)], !.col = 0, !.row = 0]

VbePutChar(s, c) ==
  LET t == IF c = Newline
           THEN [s EXCEPT !.col = 0, !.row = @ + 1]
           ELSE Wrapped([Draw(s, Cell(c, s.ink)) EXCEPT !.col = @ + 1], VbeCols)
  IN IF t.row >= VbeRows THEN VbeScroll(t) ELSE t

VbeBackspace(s) == LET t == SteppedBack(s, VbeCols) IN Draw(t, Blank(t.ink))

-----------------------------------------------------------------------------
(* The interface of drivers/screen.c *)

ScreenClear(s) == IF s.mode = "VGA" THEN VgaClear(s) ELSE VbeClear(s)

SetColor(s, ink) ==
  [s EXCEPT !.ink = ink, !.attr = IF s.mode = "VGA" THEN ToAttr(ink) ELSE @]

KprintChar(s, c) == IF s.mode = "VGA" THEN VgaPutChar(s, c) ELSE VbePutChar(s, c)

Kprint(s, text) ==
  LET after[n \in 0 .. Len(text)] ==
        IF n = 0 THEN s ELSE KprintChar(after[n - 1], text[n])
  IN after[Len(text)]

\* Mutant: vga_attr is not set back.
KprintColorForGood(s, text, ink) ==
  IF s.mode = "VGA"
  THEN Kprint([s EXCEPT !.attr = ToAttr(ink)], text)
  ELSE [Kprint([s EXCEPT !.ink = ink], text) EXCEPT !.ink = s.ink]

\* The colour before is cur_fg and cur_bg's, whatever vga_attr was.
KprintColor(s, text, ink) ==
  IF s.mode = "VGA"
  THEN [Kprint([s EXCEPT !.attr = ToAttr(ink)], text) EXCEPT !.attr = ToAttr(s.ink)]
  ELSE [Kprint([s EXCEPT !.ink = ink], text) EXCEPT !.ink = s.ink]

ScreenBackspace(s) == IF s.mode = "VGA" THEN VgaBackspace(s) ELSE VbeBackspace(s)

\* A backspace for each of count characters.
Erased(s, count) ==
  LET after[n \in 0 .. count] == IF n = 0 THEN s ELSE ScreenBackspace(after[n - 1])
  IN after[count]

\* screen_enter_vbe(): nothing without the card; the framebuffer is cleared.
EnterVbe(s, card) ==
  IF ~card THEN s
  ELSE VbeClear([s EXCEPT !.mode = "VBE", !.ink = White,
                          !.cells = [p \in Framebuffer |-> Blank(White)]])

\* screen_enter_vga(): vga_attr does not follow cur_fg and cur_bg.
EnterVga(s) ==
  VgaClear([s EXCEPT !.mode = "VGA", !.ink = White, !.attr = Grey])

-----------------------------------------------------------------------------
(* What a reader sees. *)

Cols(s) == IF s.mode = "VGA" THEN VgaCols ELSE VbeCols
Rows(s) == IF s.mode = "VGA" THEN VgaRows ELSE VbeRows
CursorAt(s) == s.row * Cols(s) + s.col

\* The cells that make up a position of the text.
CellsAt(s, i) ==
  IF s.mode = "VGA" THEN {s.cells[<<i \div VgaCols, i % VgaCols>>]}
  ELSE {s.cells[<<2 * (i \div VbeCols) + h, i % VbeCols>>] : h \in {0, 1}}

\* The text just before the cursor.
EndsWith(s, text) ==
  /\ CursorAt(s) >= Len(text)
  /\ \A k \in DOMAIN text :
       CellsAt(s, CursorAt(s) - Len(text) + k - 1) = {text[k]}

\* No glyph, nor half of one, after the cursor.
BlankBehindCursor(s) ==
  \A p \in DOMAIN s.cells :
    LET row == IF s.mode = "VGA" THEN p[1] ELSE p[1] \div 2
    IN row * Cols(s) + p[2] >= CursorAt(s) => s.cells[p].char = " "

ScreenType(s) ==
  /\ s.mode \in {"VGA", "VBE"}
  /\ s.ink \in Ink /\ s.attr \in {Grey} \cup {ToAttr(ink) : ink \in Ink}
  /\ s.col \in 0 .. Cols(s) - 1 /\ s.row \in 0 .. Rows(s) - 1
  /\ DOMAIN s.cells = IF s.mode = "VGA" THEN VgaBuffer ELSE Framebuffer
=============================================================================
