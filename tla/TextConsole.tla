---------------------------- MODULE TextConsole ----------------------------
(***************************************************************************)
(* The text output of the driver: vprintln with its cursor, and            *)
(* put_fb_string, one action per turn of their loops.  Both draw a         *)
(* character through put_frame_buffer, as a box of pixels.                 *)
(*                                                                         *)
(* The screen is the set of pixels that are not white.  A character is a   *)
(* "space", whose glyph is all white, or "ink", which fills its box.       *)
(* Control characters are ink: get_index gives them the default glyph.     *)
(* Only vprintln knows one of them, \n.                                    *)
(***************************************************************************)
EXTENDS Integers

CONSTANTS
  DISPLAY_NUM_COLUMNS, DISPLAY_NUM_ROWS,
  text_offset_x, text_offset_y,
  CHAR_WIDTH, CHAR_HEIGHT, CHAR_INTERCHARSPACING, CHAR_INTERLINESPACING,
  StringStarts,   \* where put_fb_string is called for, pairs of offsets
  Splash          \* the pixels of the splash

LineHeight == CHAR_HEIGHT + CHAR_INTERLINESPACING

\* The first character fits the screen, and the margin on the right, which is
\* text_offset_x again, takes the last one and the gap of vprintln.
ASSUME GeometryAssumption ==
  /\ DISPLAY_NUM_COLUMNS \in Nat /\ DISPLAY_NUM_ROWS \in Nat
  /\ text_offset_x \in Nat /\ text_offset_y \in Nat
  /\ CHAR_WIDTH \in Nat \ {0} /\ CHAR_HEIGHT \in Nat \ {0}
  /\ CHAR_INTERCHARSPACING \in Nat /\ CHAR_INTERLINESPACING \in Nat
  /\ CHAR_WIDTH + CHAR_INTERLINESPACING <= text_offset_x + CHAR_INTERCHARSPACING + 1
  /\ CHAR_WIDTH <= text_offset_x + 1
  /\ text_offset_x + CHAR_WIDTH <= DISPLAY_NUM_COLUMNS
  /\ text_offset_y + CHAR_HEIGHT <= DISPLAY_NUM_ROWS
ASSUME StartsAssumption ==
  \A s \in StringStarts : /\ s[1] \in Nat /\ s[1] + CHAR_WIDTH <= DISPLAY_NUM_COLUMNS
                          /\ s[2] \in Nat /\ s[2] + CHAR_HEIGHT <= DISPLAY_NUM_ROWS

Screen == (0 .. DISPLAY_NUM_COLUMNS - 1) \X (0 .. DISPLAY_NUM_ROWS - 1)
ASSUME SplashAssumption == Splash \subseteq Screen

VARIABLES
  proc,             \* what runs: "none", "vprintln", "whiten" (its end) or "put_fb_string"
  x, y,             \* its position
  x_off, y_off,     \* parameters of put_fb_string
  vprintln_y_off,   \* the cursor kept between calls
  old,              \* the pixels that are not white and were drawn by earlier calls
  new,              \* ... and by the present or last call
  drawn,            \* history: all the ink the call has drawn
  room              \* history: the lines left to the call, with the one it is on

vars == <<proc, x, y, x_off, y_off, vprintln_y_off, old, new, drawn, room>>

\* A line can still be advanced in while x is left of this.
\* (Mutant: the margin and the gap are forgotten.)
EdgeNoMargin == DISPLAY_NUM_COLUMNS - CHAR_WIDTH
Edge == DISPLAY_NUM_COLUMNS - (text_offset_x + CHAR_WIDTH + CHAR_INTERCHARSPACING)

\* The line after the one at row r, of a block of lines that starts at row top.
\* (Mutant: one line more than fits.)
HasNext(r) == r < DISPLAY_NUM_ROWS - 2 * LineHeight
LineAfterLow(r, top) ==
  IF r < DISPLAY_NUM_ROWS - LineHeight THEN r + LineHeight ELSE top
LineAfter(r, top) == IF HasNext(r) THEN r + LineHeight ELSE top

\* How many lines such a block has.
LinesFrom(top) ==
  IF HasNext(top)
  THEN 1 + ((DISPLAY_NUM_ROWS - 2 * LineHeight - top) + (LineHeight - 1)) \div LineHeight
  ELSE 1

\* put_frame_buffer of a glyph: the part of the box that is on the screen.
Box(c, r) ==
  {p \in (c .. c + CHAR_WIDTH - 1) \X (r .. r + CHAR_HEIGHT - 1) :
     p[1] < DISPLAY_NUM_COLUMNS /\ p[2] < DISPLAY_NUM_ROWS}

Glyphs == {"ink", "space"}
Draw(g) ==
  /\ old' = old \ Box(x, y)
  /\ new' = (new \ Box(x, y)) \cup (IF g = "space" THEN {} ELSE Box(x, y))
  /\ drawn' = drawn \cup (IF g = "space" THEN {} ELSE Box(x, y))

Carriage(left, top) ==
  /\ x' = left /\ y' = LineAfter(y, top)
  /\ room' = IF room > 0 THEN room - 1 ELSE 0

\* Past the last place of a line the text goes on in the next one.
Step(width, left, top) ==
  IF x < Edge THEN x' = x + width /\ UNCHANGED <<y, room>> ELSE Carriage(left, top)
-----------------------------------------------------------------------------
\* de0_vga_init has been called: the screen is white but for the splash.
Init ==
  /\ proc = "none" /\ x = text_offset_x /\ y = text_offset_y
  /\ x_off = 0 /\ y_off = 0
  /\ vprintln_y_off = text_offset_y
  /\ old = Splash /\ new = {} /\ drawn = {} /\ room = 0

\* A call begins that writes in the block of lines from row top on.
Begins(top) ==
  /\ old' = old \cup new /\ new' = {} /\ drawn' = {} /\ room' = LinesFrom(top)

VprintlnCall ==
  /\ proc = "none"
  /\ proc' = "vprintln"
  /\ x' = text_offset_x /\ y' = vprintln_y_off
  /\ Begins(text_offset_y)
  /\ UNCHANGED <<x_off, y_off, vprintln_y_off>>

Newline ==
  /\ proc = "vprintln"
  /\ Carriage(text_offset_x, text_offset_y)
  /\ UNCHANGED <<proc, x_off, y_off, vprintln_y_off, old, new, drawn>>

Character(g) ==
  /\ proc = "vprintln"
  /\ Draw(g)
  /\ Step(CHAR_WIDTH + CHAR_INTERLINESPACING, text_offset_x, text_offset_y)
  /\ UNCHANGED <<proc, x_off, y_off, vprintln_y_off>>

\* (Mutant: the line is whitened from its start.)
EndOfTextRewinds ==
  /\ proc = "vprintln"
  /\ proc' = "whiten" /\ x' = text_offset_x
  /\ UNCHANGED <<y, x_off, y_off, vprintln_y_off, old, new, drawn, room>>

EndOfText ==
  /\ proc = "vprintln"
  /\ proc' = "whiten"
  /\ UNCHANGED <<x, y, x_off, y_off, vprintln_y_off, old, new, drawn, room>>

\* Spaces up to the edge; the histories are of the text only.
Whiten ==
  /\ proc = "whiten" /\ x < Edge
  /\ old' = old \ Box(x, y) /\ new' = new \ Box(x, y)
  /\ x' = x + CHAR_WIDTH + CHAR_INTERCHARSPACING
  /\ UNCHANGED <<proc, y, x_off, y_off, vprintln_y_off, drawn, room>>

\* (Mutant: the line break does not look for the end of the page.)
LineBreakUnchecked ==
  /\ proc = "whiten" /\ x >= Edge
  /\ proc' = "none"
  /\ vprintln_y_off' = y + LineHeight
  /\ UNCHANGED <<x, y, x_off, y_off, old, new, drawn, room>>

LineBreak ==
  /\ proc = "whiten" /\ x >= Edge
  /\ proc' = "none"
  /\ vprintln_y_off' = LineAfter(y, text_offset_y)
  /\ UNCHANGED <<x, y, x_off, y_off, old, new, drawn, room>>

Vprintln ==
  \/ VprintlnCall \/ Newline \/ EndOfText \/ Whiten \/ LineBreak
  \/ \E g \in Glyphs : Character(g)
-----------------------------------------------------------------------------
PutString ==
  /\ proc = "none"
  /\ proc' = "put_fb_string"
  /\ \E s \in StringStarts :
       x' = s[1] /\ y' = s[2] /\ x_off' = s[1] /\ y_off' = s[2] /\ Begins(s[2])
  /\ UNCHANGED vprintln_y_off

StringCharacter(g) ==
  /\ proc = "put_fb_string"
  /\ Draw(g)
  /\ Step(CHAR_WIDTH + CHAR_INTERCHARSPACING, x_off, y_off)
  /\ UNCHANGED <<proc, x_off, y_off, vprintln_y_off>>

StringEnd ==
  /\ proc = "put_fb_string"
  /\ proc' = "none"
  /\ UNCHANGED <<x, y, x_off, y_off, vprintln_y_off, old, new, drawn, room>>

PutFbString ==
  \/ PutString \/ StringEnd
  \/ \E g \in Glyphs : StringCharacter(g)

Next == Vprintln \/ PutFbString
Spec == Init /\ [][Next]_vars

\* After de0_vga_init the application prints with vprintln only.
PrintSpec == Init /\ [][Vprintln]_vars
-----------------------------------------------------------------------------
\* Type correctness.
TypeOK ==
  /\ proc \in {"none", "vprintln", "whiten", "put_fb_string"}
  /\ x \in 0 .. DISPLAY_NUM_COLUMNS /\ y \in 0 .. DISPLAY_NUM_ROWS - 1
  /\ x_off \in Nat /\ y_off \in Nat
  /\ vprintln_y_off \in 0 .. DISPLAY_NUM_ROWS - 1
  /\ old \subseteq Screen /\ new \subseteq Screen /\ drawn \subseteq Screen
  /\ room \in Nat

\* However long the text and however it breaks, a character is drawn whole:
\* put_frame_buffer never clips one at an edge of the screen.
GlyphsInside ==
  proc # "none" => /\ x + CHAR_WIDTH <= DISPLAY_NUM_COLUMNS
                   /\ y + CHAR_HEIGHT <= DISPLAY_NUM_ROWS

\* A text that does not need more lines than there are is on the screen in
\* full, during the call and after it: neither the characters that follow nor
\* the whitening at the end touch what it has drawn.
TextKept == room > 0 => drawn \subseteq new

\* What vprintln shows is a page of lines, written in turn.
Band(l) == text_offset_y + l * LineHeight .. text_offset_y + l * LineHeight + CHAR_HEIGHT - 1
PageLines == LinesFrom(text_offset_y)
Bands == UNION {Band(l) : l \in 0 .. PageLines - 1}
LineShown == ((IF proc = "none" THEN vprintln_y_off ELSE y) - text_offset_y) \div LineHeight
TextShown == [l \in 0 .. PageLines - 1 |-> {p \in old \cup new : p[2] \in Band(l)}]
AroundShown == {p \in old \cup new : p[2] \notin Bands}
LP == INSTANCE LinePrinter WITH
  Lines <- PageLines, ready <- TRUE,
  line <- LineShown, text <- TextShown, around <- AroundShown
IsLinePrinter == LP!Spec

\* vga_driver.c:136 "whiten all remainder of the line": when vprintln is done
\* with a line, nothing of earlier calls is left on it beside the new text.
RemainderWhite ==
  proc = "whiten" /\ x >= Edge => \A p \in old : p[2] \notin y .. y + CHAR_HEIGHT - 1
=============================================================================
