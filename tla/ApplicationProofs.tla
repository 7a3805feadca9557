------------------------- MODULE ApplicationProofs -------------------------
(* Proofs about the text output, for every screen, every size of glyphs and *)
(* every margin that satisfies GeometryAssumption, and for every text; and  *)
(* about main, which begins before the screen is painted and calls          *)
(* put_fb_string and vprintln.                                              *)
EXTENDS Application, Division

(***************************************************************************)
(* The text output.                                                        *)
(***************************************************************************)
\* The next line fits the screen if this one and the first do.
LEMMA LineFits ==
  ASSUME NEW r \in Nat, NEW top \in Nat,
         r <= DISPLAY_NUM_ROWS - CHAR_HEIGHT, top <= DISPLAY_NUM_ROWS - CHAR_HEIGHT
  PROVE  /\ LineAfter(r, top) \in Nat
         /\ LineAfter(r, top) <= DISPLAY_NUM_ROWS - CHAR_HEIGHT
         /\ r >= top => LineAfter(r, top) >= top
BY GeometryAssumption DEF LineAfter, HasNext, LineHeight

LEMMA LinesNat ==
  ASSUME NEW top \in Nat
  PROVE  LinesFrom(top) \in Nat
<1>1. CASE HasNext(top)
  <2> DEFINE d == (DISPLAY_NUM_ROWS - 2 * LineHeight - top) + (LineHeight - 1)
  <2>1. d \in Nat /\ LineHeight \in Nat \ {0}
    BY <1>1, GeometryAssumption DEF HasNext, LineHeight
  <2>2. d \div LineHeight \in Nat
    <3> HIDE DEF d
    <3> QED
      BY <2>1, DivMod
  <2> QED
    BY <1>1, <2>2 DEF LinesFrom
<1>2. CASE ~HasNext(top)
  BY <1>2 DEF LinesFrom
<1> QED
  BY <1>1, <1>2

LEMMA BoxOnScreen ==
  ASSUME NEW c \in Nat, NEW r \in Nat
  PROVE  Box(c, r) \subseteq Screen
BY GeometryAssumption DEF Box, Screen

\* Where the loops, the cursor and the parameters may stand.
Placed ==
  /\ x <= DISPLAY_NUM_COLUMNS - CHAR_WIDTH /\ y <= DISPLAY_NUM_ROWS - CHAR_HEIGHT
  /\ x_off <= DISPLAY_NUM_COLUMNS - CHAR_WIDTH /\ y_off <= DISPLAY_NUM_ROWS - CHAR_HEIGHT
  /\ vprintln_y_off <= DISPLAY_NUM_ROWS - CHAR_HEIGHT
  /\ vprintln_y_off >= text_offset_y
  /\ proc \in {"vprintln", "whiten"} => y >= text_offset_y

IInv == TypeOK /\ Placed

LEMMA InitInv == Init => IInv
BY GeometryAssumption, SplashAssumption DEF Init, IInv, TypeOK, Placed, Glyphs

\* A character takes the loop to a place where the next one fits.
LEMMA CarriageFits ==
  ASSUME TypeOK, Placed, NEW left \in Nat, NEW top \in Nat,
         left <= DISPLAY_NUM_COLUMNS - CHAR_WIDTH,
         top <= DISPLAY_NUM_ROWS - CHAR_HEIGHT,
         Carriage(left, top)
  PROVE  /\ x' = left
         /\ y' \in Nat /\ y' <= DISPLAY_NUM_ROWS - CHAR_HEIGHT
         /\ y >= top => y' >= top
         /\ room' \in Nat
<1>1. y \in Nat /\ y <= DISPLAY_NUM_ROWS - CHAR_HEIGHT
  BY GeometryAssumption DEF TypeOK, Placed
<1>2. y' = LineAfter(y, top) /\ x' = left
  BY DEF Carriage
<1>3. room' \in Nat
  BY DEF Carriage, TypeOK
<1> QED
  BY <1>1, <1>2, <1>3, LineFits

LEMMA StepFits ==
  ASSUME TypeOK, Placed, NEW width \in Nat, NEW left \in Nat, NEW top \in Nat,
         width <= text_offset_x + CHAR_INTERCHARSPACING + 1,
         left <= DISPLAY_NUM_COLUMNS - CHAR_WIDTH,
         top <= DISPLAY_NUM_ROWS - CHAR_HEIGHT,
         Step(width, left, top)
  PROVE  /\ x' \in Nat /\ x' <= DISPLAY_NUM_COLUMNS - CHAR_WIDTH
         /\ y' \in Nat /\ y' <= DISPLAY_NUM_ROWS - CHAR_HEIGHT
         /\ y >= top => y' >= top
         /\ room' \in Nat
<1>1. CASE x < Edge
  BY <1>1, GeometryAssumption DEF Step, TypeOK, Placed, Edge
<1>2. CASE ~(x < Edge)
  <2>1. Carriage(left, top)
    BY <1>2 DEF Step
  <2> QED
    BY <2>1, CarriageFits
<1> QED
  BY <1>1, <1>2

LEMMA DrawType ==
  ASSUME TypeOK, NEW g \in Glyphs, Draw(g)
  PROVE  old' \subseteq Screen /\ new' \subseteq Screen /\ drawn' \subseteq Screen
<1>1. x \in Nat /\ y \in Nat
  BY GeometryAssumption DEF TypeOK
<1>2. Box(x, y) \subseteq Screen
  BY <1>1, BoxOnScreen
<1> QED
  BY <1>2 DEF TypeOK, Draw

\* The invariant from the places alone, for a step that draws on the screen.
LEMMA PlacedSuffices ==
  ASSUME proc' \in {"none", "vprintln", "whiten", "put_fb_string"},
         x' \in Nat, y' \in Nat, x_off' \in Nat, y_off' \in Nat,
         vprintln_y_off' \in Nat, vprintln_y_off' >= text_offset_y,
         room' \in Nat,
         x' <= DISPLAY_NUM_COLUMNS - CHAR_WIDTH, y' <= DISPLAY_NUM_ROWS - CHAR_HEIGHT,
         x_off' <= DISPLAY_NUM_COLUMNS - CHAR_WIDTH,
         y_off' <= DISPLAY_NUM_ROWS - CHAR_HEIGHT,
         vprintln_y_off' <= DISPLAY_NUM_ROWS - CHAR_HEIGHT,
         proc' \in {"vprintln", "whiten"} => y' >= text_offset_y,
         old' \subseteq Screen, new' \subseteq Screen, drawn' \subseteq Screen
  PROVE  IInv'
<1>1. x' \in 0 .. DISPLAY_NUM_COLUMNS
  BY GeometryAssumption
<1>2. y' \in 0 .. DISPLAY_NUM_ROWS - 1
  BY GeometryAssumption
<1>3. vprintln_y_off' \in 0 .. DISPLAY_NUM_ROWS - 1
  BY GeometryAssumption
<1>4. TypeOK'
  BY <1>1, <1>2, <1>3 DEF TypeOK
<1> QED
  BY <1>4 DEF IInv, Placed

\* What TypeOK says of the variables' ranges, with the geometry applied.
LEMMA Ranges ==
  ASSUME TypeOK
  PROVE  /\ x \in Nat /\ y \in Nat /\ x_off \in Nat /\ y_off \in Nat
         /\ vprintln_y_off \in Nat /\ room \in Nat
         /\ old \subseteq Screen /\ new \subseteq Screen /\ drawn \subseteq Screen
         /\ Box(x, y) \subseteq Screen
<1>1. x \in Nat /\ y \in Nat
  BY GeometryAssumption DEF TypeOK
<1>2. Box(x, y) \subseteq Screen
  BY <1>1, BoxOnScreen
<1>3. vprintln_y_off \in Nat
  BY GeometryAssumption DEF TypeOK
<1> QED
  BY <1>1, <1>2, <1>3 DEF TypeOK

LEMMA VprintlnInv == IInv /\ Vprintln => IInv'
<1> SUFFICES ASSUME IInv, Vprintln PROVE IInv'
  OBVIOUS
<1>0. TypeOK /\ Placed
  BY DEF IInv
<1>1. CASE VprintlnCall
  <2>1. LinesFrom(text_offset_y) \in Nat
    BY LinesNat, GeometryAssumption
  <2> QED
    BY <1>0, <1>1, <2>1, GeometryAssumption, Ranges, PlacedSuffices
    DEF VprintlnCall, Begins, Placed
<1>2. CASE Newline
  <2>1. /\ x' = text_offset_x /\ y' \in Nat /\ y' <= DISPLAY_NUM_ROWS - CHAR_HEIGHT
        /\ y' >= text_offset_y /\ room' \in Nat
    BY <1>0, <1>2, CarriageFits, GeometryAssumption DEF Newline, Placed
  <2> QED
    BY <1>0, <1>2, <2>1, GeometryAssumption, Ranges, PlacedSuffices DEF Newline, Placed
<1>3. ASSUME NEW g \in Glyphs, Character(g) PROVE IInv'
  <2>1. old' \subseteq Screen /\ new' \subseteq Screen /\ drawn' \subseteq Screen
    BY <1>0, <1>3, DrawType DEF Character
  <2>2. /\ x' \in Nat /\ x' <= DISPLAY_NUM_COLUMNS - CHAR_WIDTH
        /\ y' \in Nat /\ y' <= DISPLAY_NUM_ROWS - CHAR_HEIGHT
        /\ y' >= text_offset_y /\ room' \in Nat
    <3>1. Step(CHAR_WIDTH + CHAR_INTERLINESPACING, text_offset_x, text_offset_y)
      BY <1>3 DEF Character
    <3>2. y >= text_offset_y
      BY <1>0, <1>3 DEF Character, Placed
    <3> QED
      BY <1>0, <3>1, <3>2, StepFits, GeometryAssumption
  <2>3. UNCHANGED <<proc, x_off, y_off, vprintln_y_off>> /\ proc = "vprintln"
    BY <1>3 DEF Character
  <2> QED
    BY <1>0, <2>1, <2>2, <2>3, Ranges, PlacedSuffices DEF Placed
<1>4. CASE EndOfText
  BY <1>0, <1>4, Ranges, PlacedSuffices DEF EndOfText, Placed
<1>5. CASE Whiten
  <2>1. x' \in Nat /\ x' <= DISPLAY_NUM_COLUMNS - CHAR_WIDTH
    BY <1>0, <1>5, GeometryAssumption, Ranges DEF Whiten, Edge
  <2> QED
    BY <1>0, <1>5, <2>1, Ranges, PlacedSuffices DEF Whiten, Placed
<1>6. CASE LineBreak
  <2>1. /\ vprintln_y_off' \in Nat /\ vprintln_y_off' >= text_offset_y
        /\ vprintln_y_off' <= DISPLAY_NUM_ROWS - CHAR_HEIGHT
    <3>1. y \in Nat /\ y <= DISPLAY_NUM_ROWS - CHAR_HEIGHT /\ y >= text_offset_y
      BY <1>0, <1>6, Ranges DEF LineBreak, Placed
    <3> QED
      BY <1>6, <3>1, LineFits, GeometryAssumption DEF LineBreak
  <2> QED
    BY <1>0, <1>6, <2>1, Ranges, PlacedSuffices DEF LineBreak, Placed
<1> QED
  BY <1>1, <1>2, <1>3, <1>4, <1>5, <1>6 DEF Vprintln

LEMMA PutFbStringInv == IInv /\ PutFbString => IInv'
<1> SUFFICES ASSUME IInv, PutFbString PROVE IInv'
  OBVIOUS
<1>0. TypeOK /\ Placed
  BY DEF IInv
<1>1. CASE PutString
  <2>1. PICK s \in StringStarts : /\ x' = s[1] /\ y' = s[2] /\ x_off' = s[1] /\ y_off' = s[2]
                                  /\ Begins(s[2])
    BY <1>1 DEF PutString
  <2>2. /\ s[1] \in Nat /\ s[1] <= DISPLAY_NUM_COLUMNS - CHAR_WIDTH
        /\ s[2] \in Nat /\ s[2] <= DISPLAY_NUM_ROWS - CHAR_HEIGHT
    BY StartsAssumption, GeometryAssumption
  <2>3. /\ UNCHANGED vprintln_y_off /\ proc' = "put_fb_string"
        /\ old' = old \cup new /\ new' = {} /\ drawn' = {} /\ room' \in Nat
    BY <1>1, <2>1, <2>2, LinesNat DEF PutString, Begins
  <2> QED
    BY <1>0, <2>1, <2>2, <2>3, Ranges, PlacedSuffices DEF Placed
<1>2. ASSUME NEW g \in Glyphs, StringCharacter(g) PROVE IInv'
  <2>1. old' \subseteq Screen /\ new' \subseteq Screen /\ drawn' \subseteq Screen
    BY <1>0, <1>2, DrawType DEF StringCharacter
  <2>2. /\ x' \in Nat /\ x' <= DISPLAY_NUM_COLUMNS - CHAR_WIDTH
        /\ y' \in Nat /\ y' <= DISPLAY_NUM_ROWS - CHAR_HEIGHT /\ room' \in Nat
    <3>1. Step(CHAR_WIDTH + CHAR_INTERCHARSPACING, x_off, y_off)
      BY <1>2 DEF StringCharacter
    <3>2. /\ x_off \in Nat /\ x_off <= DISPLAY_NUM_COLUMNS - CHAR_WIDTH
          /\ y_off \in Nat /\ y_off <= DISPLAY_NUM_ROWS - CHAR_HEIGHT
      BY <1>0, Ranges DEF Placed
    <3>3. /\ CHAR_WIDTH + CHAR_INTERCHARSPACING \in Nat
          /\ CHAR_WIDTH + CHAR_INTERCHARSPACING <= text_offset_x + CHAR_INTERCHARSPACING + 1
      BY GeometryAssumption
    <3> QED
      BY <1>0, <3>1, <3>2, <3>3, StepFits
  <2>3. UNCHANGED <<proc, x_off, y_off, vprintln_y_off>> /\ proc = "put_fb_string"
    BY <1>2 DEF StringCharacter
  <2> QED
    BY <1>0, <2>1, <2>2, <2>3, Ranges, PlacedSuffices DEF Placed
<1>3. CASE StringEnd
  BY <1>0, <1>3, Ranges, PlacedSuffices DEF StringEnd, Placed
<1> QED
  BY <1>1, <1>2, <1>3 DEF PutFbString

LEMMA NextInv == IInv /\ [Next]_vars => IInv'
<1>1. IInv /\ UNCHANGED vars => IInv'
  BY DEF vars, IInv, TypeOK, Placed
<1> QED
  BY <1>1, VprintlnInv, PutFbStringInv DEF Next

LEMMA Invariance == Spec => []IInv
BY InitInv, NextInv, PTL DEF Spec

\* Type correctness of the text output.
THEOREM TypeCorrect == Spec => []TypeOK
<1>1. IInv => TypeOK
  BY DEF IInv
<1> QED
  BY <1>1, Invariance, PTL

\* For every geometry with margins as wide as vprintln's gap needs, and every
\* text, no character is clipped.
THEOREM GlyphsSafe == Spec => []GlyphsInside
<1>1. IInv => GlyphsInside
  BY GeometryAssumption, Ranges DEF IInv, Placed, GlyphsInside
<1> QED
  BY <1>1, Invariance, PTL
-----------------------------------------------------------------------------
\* A block of lines from row top on: line k starts at row RowIn(top, k).
RowIn(top, k) == top + k * LineHeight
LinesOf(top) == 0 .. LinesFrom(top) - 1

\* The page is the block that vprintln writes in.
RowOf(k) == RowIn(text_offset_y, k)
LineOf(r) == (r - text_offset_y) \div LineHeight
LineNumbers == LinesOf(text_offset_y)

LEMMA Height == LineHeight \in Nat \ {0} /\ CHAR_HEIGHT <= LineHeight /\ CHAR_HEIGHT \in Nat \ {0}
BY GeometryAssumption DEF LineHeight

LEMMA LineOfRow ==
  ASSUME NEW k \in Nat
  PROVE  RowOf(k) \in Nat /\ LineOf(RowOf(k)) = k
<1>1. k * LineHeight \in Nat /\ k * LineHeight = LineHeight * k + 0
  BY Height
<1>2. (LineHeight * k + 0) \div LineHeight = k
  <2>1. 0 \in 0 .. LineHeight - 1
    BY Height
  <2> QED
    BY <2>1, Height, DivModUnique
<1>3. RowOf(k) - text_offset_y = k * LineHeight /\ RowOf(k) \in Nat
  BY <1>1, GeometryAssumption DEF RowOf, RowIn
<1> QED
  BY <1>1, <1>2, <1>3 DEF LineOf

\* The code's test for a next line is the one for the last line of the block.
LEMMA LastLine ==
  ASSUME NEW top \in Nat, NEW k \in LinesOf(top)
  PROVE  HasNext(RowIn(top, k)) <=> k + 1 < LinesFrom(top)
<1> DEFINE d == DISPLAY_NUM_ROWS - 2 * LineHeight - top
           L == LineHeight
<1>1. d \in Int /\ L \in Nat \ {0}
  BY Height, GeometryAssumption
<1>2. LinesFrom(top) \in Nat /\ k \in Nat /\ k < LinesFrom(top)
  BY LinesNat DEF LinesOf
<1>3. k * L \in Nat
  BY <1>1, <1>2
<1>4. HasNext(RowIn(top, k)) <=> k * L < d
  BY <1>1, <1>3, GeometryAssumption DEF HasNext, RowIn
<1>5. HasNext(top) <=> 0 < d
  BY <1>1, GeometryAssumption DEF HasNext
<1>6. LinesFrom(top) = IF 0 < d THEN 1 + (d + (L - 1)) \div L ELSE 1
  BY <1>5 DEF LinesFrom
<1> HIDE DEF d, L
<1>7. CASE 0 < d
  <2> DEFINE m == (d + (L - 1)) \div L
             n == (d + (L - 1)) % L
  <2>1. d + (L - 1) \in Nat
    BY <1>1, <1>7
  <2>2. d + (L - 1) = L * m + n /\ m \in Nat /\ n \in 0 .. L - 1
    <3> DEFINE e == d + (L - 1)
    <3> HIDE DEF e
    <3>1. e = L * (e \div L) + (e % L) /\ e \div L \in Nat /\ e % L \in 0 .. L - 1
      BY <1>1, <2>1, DivMod DEF e
    <3> QED
      BY <3>1 DEF e
  <2>3. LinesFrom(top) = 1 + m
    BY <1>6, <1>7
  <2> HIDE DEF m, n
  <2>4. ASSUME k + 1 < LinesFrom(top) PROVE k * L < d
    <3>1. k + 1 <= m
      BY <1>2, <2>2, <2>3, <2>4
    <3>2. (k + 1) * L <= m * L
      BY <1>1, <1>2, <2>2, <3>1
    <3>3. (k + 1) * L = k * L + L /\ m * L = L * m /\ L * m \in Nat
      BY <1>1, <1>2, <2>2
    <3> QED
      BY <1>1, <1>3, <2>2, <3>2, <3>3
  <2>5. ASSUME ~(k + 1 < LinesFrom(top)) PROVE ~(k * L < d)
    <3>1. k = m
      BY <1>2, <2>2, <2>3, <2>5
    <3>2. k * L = L * m
      BY <1>1, <1>2, <2>2, <3>1
    <3>3. L * m \in Nat
      BY <1>1, <2>2
    <3> QED
      BY <1>1, <2>2, <3>2, <3>3
  <2> QED
    BY <1>4, <2>4, <2>5
<1>8. CASE ~(0 < d)
  <2>1. LinesFrom(top) = 1
    BY <1>6, <1>8
  <2>2. ~(k * L < d)
    BY <1>1, <1>3, <1>8
  <2> QED
    BY <1>2, <1>4, <2>1, <2>2
<1> QED
  BY <1>7, <1>8

\* The line after line k is line k + 1, and line 0 after the last.
NextIn(top, k) == IF k + 1 < LinesFrom(top) THEN k + 1 ELSE 0

LEMMA NextRow ==
  ASSUME NEW top \in Nat, NEW k \in LinesOf(top)
  PROVE  /\ NextIn(top, k) \in LinesOf(top)
         /\ LineAfter(RowIn(top, k), top) = RowIn(top, NextIn(top, k))
<1>1. LinesFrom(top) \in Nat /\ k \in Nat /\ k < LinesFrom(top)
  BY LinesNat DEF LinesOf
<1>2. NextIn(top, k) \in LinesOf(top)
  BY <1>1 DEF NextIn, LinesOf
<1>3. CASE k + 1 < LinesFrom(top)
  <2>1. (k + 1) * LineHeight = k * LineHeight + LineHeight /\ k * LineHeight \in Nat
    BY <1>1, Height
  <2>2. RowIn(top, k + 1) = RowIn(top, k) + LineHeight
    BY <2>1, Height DEF RowIn
  <2> QED
    BY <1>2, <1>3, <2>2, LastLine DEF LineAfter, NextIn
<1>4. CASE ~(k + 1 < LinesFrom(top))
  <2>1. RowIn(top, 0) = top
    BY Height DEF RowIn
  <2> QED
    BY <1>2, <1>4, <2>1, LastLine DEF LineAfter, NextIn
<1> QED
  BY <1>3, <1>4

\* On the page that is the line that follows in the abstract printer.
LEMMA NextLine ==
  ASSUME NEW k \in LineNumbers
  PROVE  /\ LP!Follows(k) \in LineNumbers
         /\ LineAfter(RowOf(k), text_offset_y) = RowOf(LP!Follows(k))
<1>1. PageLines \in Nat /\ k \in Nat /\ k < PageLines
  BY LinesNat, GeometryAssumption DEF PageLines, LineNumbers, LinesOf
<1>2. LP!Follows(k) = NextIn(text_offset_y, k)
  <2>1. LP!Follows(k) = (k + 1) % PageLines
    BY DEF LP!Follows
  <2>2. CASE k + 1 < PageLines
    <3>1. (k + 1) % PageLines = k + 1
      BY <1>1, <2>2
    <3> QED
      BY <2>1, <2>2, <3>1 DEF NextIn, PageLines
  <2>3. CASE ~(k + 1 < PageLines)
    <3>1. k + 1 = PageLines
      BY <1>1, <2>3
    <3>2. (k + 1) % PageLines = 0
      <4> DEFINE n == PageLines
      <4>1. n \in Nat \ {0} /\ n = n * 1 + 0 /\ 0 \in 0 .. n - 1
        BY <1>1
      <4> HIDE DEF n
      <4>2. (n * 1 + 0) % n = 0
        BY <4>1, DivModUnique
      <4> QED
        BY <3>1, <4>1, <4>2 DEF n
    <3> QED
      BY <2>1, <2>3, <3>2 DEF NextIn, PageLines
  <2> QED
    BY <2>2, <2>3
<1> QED
  BY <1>2, NextRow, GeometryAssumption DEF LineNumbers, RowOf

\* The bands of two lines do not meet, and a character stays in its line's.
BandIn(top, k) == RowIn(top, k) .. RowIn(top, k) + CHAR_HEIGHT - 1

LEMMA BandsApart ==
  ASSUME NEW top \in Nat, NEW k \in Nat, NEW l \in Nat,
         NEW r \in BandIn(top, k), r \in BandIn(top, l)
  PROVE  k = l
<1>1. k * LineHeight \in Nat /\ l * LineHeight \in Nat
  BY Height
<1>2. /\ r \in Int
      /\ top + k * LineHeight <= r /\ r < top + k * LineHeight + LineHeight
      /\ top + l * LineHeight <= r /\ r < top + l * LineHeight + LineHeight
  BY <1>1, Height DEF BandIn, RowIn
<1>3. k * LineHeight < l * LineHeight + LineHeight /\ l * LineHeight < k * LineHeight + LineHeight
  BY <1>1, <1>2, Height
<1>4. ~(k >= l + 1)
  <2>1. SUFFICES ASSUME k >= l + 1 PROVE FALSE
    OBVIOUS
  <2>2. k * LineHeight >= (l + 1) * LineHeight
    BY <2>1, Height
  <2>3. (l + 1) * LineHeight = l * LineHeight + LineHeight
    BY Height
  <2> QED
    BY <1>1, <1>3, <2>2, <2>3, Height
<1>5. ~(l >= k + 1)
  <2>1. SUFFICES ASSUME l >= k + 1 PROVE FALSE
    OBVIOUS
  <2>2. l * LineHeight >= (k + 1) * LineHeight
    BY <2>1, Height
  <2>3. (k + 1) * LineHeight = k * LineHeight + LineHeight
    BY Height
  <2> QED
    BY <1>1, <1>3, <2>2, <2>3, Height
<1> QED
  BY <1>4, <1>5

LEMMA BoxInBand ==
  ASSUME NEW top, NEW k \in Nat, NEW c, NEW p \in Box(c, RowIn(top, k))
  PROVE  p[2] \in BandIn(top, k)
BY DEF Box, BandIn

\* The bands of the page.
LEMMA PageBand == \A k : Band(k) = BandIn(text_offset_y, k)
BY DEF Band, BandIn, RowIn

\* The cursor, and the loops while they run, stand on lines of the page.
OnGrid ==
  /\ proc \in {"none", "vprintln", "whiten"}
  /\ \E k \in LineNumbers : vprintln_y_off = RowOf(k)
  /\ proc # "none" => \E k \in LineNumbers : y = RowOf(k)

Ink == old \cup new
LineNow == LineOf(IF proc = "none" THEN vprintln_y_off ELSE y)

\* A step that changes the ink in a box of line k only, and stays on that line
\* or goes to the next, is a step of the printer.
LEMMA PrintStep ==
  ASSUME NEW k \in LineNumbers, LineNow = k,
         LineNow' \in {k, LP!Follows(k)},
         \A p : p \notin Box(x, RowOf(k)) => (p \in Ink' <=> p \in Ink)
  PROVE  LP!Write
<1>1. k \in Nat
  BY DEF LineNumbers, LinesOf
<1>2. \A p : p \in Box(x, RowOf(k)) => p[2] \in Band(k)
  BY <1>1, BoxInBand, PageBand DEF RowOf
<1>3. ASSUME NEW l \in LineNumbers, l # k
      PROVE  {p \in Ink' : p[2] \in Band(l)} = {p \in Ink : p[2] \in Band(l)}
  <2>1. l \in Nat
    BY <1>3 DEF LineNumbers, LinesOf
  <2>2. \A p : p[2] \in Band(l) => p \notin Box(x, RowOf(k))
    BY <1>1, <1>2, <1>3, <2>1, BandsApart, PageBand, GeometryAssumption
  <2> QED
    BY <2>2
<1>4. {p \in Ink' : p[2] \notin Bands} = {p \in Ink : p[2] \notin Bands}
  <2>1. Band(k) \subseteq Bands
    BY DEF Bands, LineNumbers, LinesOf, PageLines
  <2> QED
    BY <1>2, <2>1
<1> USE DEF LP!Write, LineNow, LineOf, Ink, LineNumbers, LinesOf, LineShown
<1>5. \A l \in 0 .. PageLines - 1 : l # k => TextShown'[l] = TextShown[l]
  BY <1>3 DEF TextShown, Band, PageLines, LinesFrom, HasNext, LineHeight
<1>6. AroundShown' = AroundShown
  BY <1>4 DEF AroundShown, Bands, Band, PageLines, LinesFrom, HasNext, LineHeight
<1> QED
  BY <1>5, <1>6

LEMMA GridStep ==
  ASSUME OnGrid, Vprintln
  PROVE  OnGrid' /\ LP!Write
<1> DEFINE Goes(k) == LineAfter(RowOf(k), text_offset_y) = RowOf(LP!Follows(k))
<1>1. \A k \in LineNumbers : LineOf(RowOf(k)) = k /\ LP!Follows(k) \in LineNumbers /\ Goes(k)
  BY LineOfRow, NextLine DEF LineNumbers, LinesOf
<1>2. PICK v \in LineNumbers : vprintln_y_off = RowOf(v)
  BY DEF OnGrid
<1>3. CASE VprintlnCall
  <2>1. proc = "none" /\ proc' = "vprintln" /\ y' = RowOf(v) /\ vprintln_y_off' = RowOf(v)
    BY <1>2, <1>3 DEF VprintlnCall
  <2>2. OnGrid'
    BY <2>1 DEF OnGrid
  <2>3. LineNow = v /\ LineNow' = v
    BY <1>1, <1>2, <2>1 DEF LineNow
  <2>4. Ink' = Ink
    BY <1>3 DEF VprintlnCall, Begins, Ink
  <2> QED
    BY <2>2, <2>3, <2>4, PrintStep
<1>4. CASE proc # "none"
  <2>1. PICK k \in LineNumbers : y = RowOf(k)
    BY <1>4 DEF OnGrid
  <2>2. LineNow = k
    BY <1>1, <1>4, <2>1 DEF LineNow
  <2>3. ASSUME Carriage(text_offset_x, text_offset_y), UNCHANGED <<proc, vprintln_y_off>>
        PROVE  OnGrid' /\ LineNow' = LP!Follows(k)
    <3>1. y' = RowOf(LP!Follows(k)) /\ LP!Follows(k) \in LineNumbers
      BY <1>1, <2>1, <2>3 DEF Carriage
    <3>2. OnGrid'
      BY <1>2, <2>3, <3>1 DEF OnGrid
    <3>3. LineNow' = LineOf(RowOf(LP!Follows(k)))
      BY <1>4, <2>3, <3>1 DEF LineNow
    <3> QED
      BY <1>1, <3>1, <3>2, <3>3
  <2>4. ASSUME UNCHANGED <<y, vprintln_y_off>>, proc' \in {"vprintln", "whiten"}
        PROVE  OnGrid' /\ LineNow' = k
    <3>1. OnGrid'
      BY <1>2, <2>1, <2>4 DEF OnGrid
    <3>2. LineNow' = LineOf(RowOf(k))
      BY <2>1, <2>4 DEF LineNow
    <3> QED
      BY <1>1, <3>1, <3>2
  <2>5. CASE Newline
    BY <2>2, <2>3, <2>5, PrintStep DEF Newline, Ink
  <2>6. ASSUME NEW g \in Glyphs, Character(g) PROVE OnGrid' /\ LP!Write
    <3>1. \A p : p \notin Box(x, RowOf(k)) => (p \in Ink' <=> p \in Ink)
      BY <2>1, <2>6 DEF Character, Draw, Ink
    <3>2. OnGrid' /\ LineNow' \in {k, LP!Follows(k)}
      BY <2>3, <2>4, <2>6 DEF Character, Step
    <3> QED
      BY <2>2, <3>1, <3>2, PrintStep
  <2>7. CASE EndOfText
    BY <2>2, <2>4, <2>7, PrintStep DEF EndOfText, Ink
  <2>8. CASE Whiten
    <3>1. \A p : p \notin Box(x, RowOf(k)) => (p \in Ink' <=> p \in Ink)
      BY <2>1, <2>8 DEF Whiten, Ink
    <3>2. OnGrid' /\ LineNow' = k
      BY <2>4, <2>8 DEF Whiten
    <3> QED
      BY <2>2, <3>1, <3>2, PrintStep
  <2>9. CASE LineBreak
    <3>1. vprintln_y_off' = RowOf(LP!Follows(k)) /\ proc' = "none" /\ LP!Follows(k) \in LineNumbers
      BY <1>1, <2>1, <2>9 DEF LineBreak
    <3>2. OnGrid'
      BY <3>1 DEF OnGrid
    <3>3. LineNow' = LP!Follows(k)
      BY <1>1, <3>1 DEF LineNow
    <3>4. Ink' = Ink
      BY <2>9 DEF LineBreak, Ink
    <3> QED
      BY <2>2, <3>2, <3>3, <3>4, PrintStep
  <2> QED
    BY <1>4, <2>5, <2>6, <2>7, <2>8, <2>9 DEF Vprintln, VprintlnCall
<1> QED
  BY <1>3, <1>4 DEF Vprintln, Newline, Character, EndOfText, Whiten, LineBreak

\* A block has a first line, and so has the page.
LEMMA FirstIn ==
  ASSUME NEW top \in Nat
  PROVE  0 \in LinesOf(top) /\ RowIn(top, 0) = top
<1>1. LinesFrom(top) \in Nat /\ LinesFrom(top) >= 1
  <2>1. CASE HasNext(top)
    <3> DEFINE d == (DISPLAY_NUM_ROWS - 2 * LineHeight - top) + (LineHeight - 1)
    <3>1. d \in Nat
      BY <2>1, Height, GeometryAssumption DEF HasNext
    <3>2. d \div LineHeight \in Nat
      <4> HIDE DEF d
      <4> QED
        BY <3>1, Height, DivMod
    <3> QED
      BY <2>1, <3>2 DEF LinesFrom
  <2>2. CASE ~HasNext(top)
    BY <2>2 DEF LinesFrom
  <2> QED
    BY <2>1, <2>2
<1>2. RowIn(top, 0) = top
  BY Height DEF RowIn
<1> QED
  BY <1>1, <1>2 DEF LinesOf

LEMMA FirstLine == 0 \in LineNumbers /\ RowOf(0) = text_offset_y /\ LineOf(RowOf(0)) = 0
BY FirstIn, LineOfRow, GeometryAssumption DEF LineNumbers, RowOf

\* For every geometry and every text, vprintln is a printer of lines: it
\* writes one line after the other, wraps to the first after the last that
\* fits, and keeps everything outside the line in turn.
THEOREM Refinement == PrintSpec => IsLinePrinter
<1>1. Init => OnGrid /\ LP!Init
  BY FirstLine DEF Init, OnGrid, LP!Init, LineOf, LineShown
<1>2. OnGrid /\ [Vprintln]_vars => OnGrid'
  <2>1. OnGrid /\ UNCHANGED vars => OnGrid'
    BY DEF vars, OnGrid
  <2> QED
    BY <2>1, GridStep
<1>3. OnGrid /\ [Vprintln]_vars => [LP!Next]_(LP!lpVars)
  <2>1. UNCHANGED vars => UNCHANGED LP!lpVars
    BY DEF vars, LP!lpVars, LineShown, TextShown, AroundShown
  <2> QED
    BY <2>1, GridStep DEF LP!Next
<1>4. IsLinePrinter <=> LP!Init /\ [][LP!Next]_(LP!lpVars)
  BY DEF IsLinePrinter, LP!Spec
<1> QED
  BY <1>1, <1>2, <1>3, <1>4, PTL DEF PrintSpec
-----------------------------------------------------------------------------
\* How many lines further line l is than line k, once round the block at most.
Ahead(top, k, l) == IF l > k THEN l - k ELSE l - k + LinesFrom(top)

\* A call that stands on line k: what it has drawn on this line is left of it,
\* and on the lines that are left to it there is nothing of it.
StandsOn(top, k) ==
  /\ y = RowIn(top, k) /\ room <= LinesFrom(top)
  /\ room > 0 =>
       \A p \in drawn :
         /\ p[2] \in BandIn(top, k) => p[1] < x
         /\ \A l \in LinesOf(top) : Ahead(top, k, l) < room => p[2] \notin BandIn(top, l)

\* The block that a call writes in.
Block == IF proc = "put_fb_string" THEN y_off ELSE text_offset_y

KeptInv ==
  /\ TextKept
  /\ \E k \in LineNumbers : vprintln_y_off = RowOf(k)
  /\ proc # "none" => \E k \in LinesOf(Block) : StandsOn(Block, k)

LEMMA InitKept == Init => KeptInv
<1> SUFFICES ASSUME Init PROVE KeptInv
  OBVIOUS
<1>1. TextKept /\ proc = "none"
  BY DEF Init, TextKept
<1>2. \E k \in LineNumbers : vprintln_y_off = RowOf(k)
  BY FirstLine DEF Init
<1> QED
  BY <1>1, <1>2 DEF KeptInv

\* A call begins on any line of its block.
LEMMA BeginKept ==
  ASSUME NEW top \in Nat, NEW k \in LinesOf(top), Begins(top), y' = RowIn(top, k)
  PROVE  TextKept' /\ StandsOn(top, k)'
<1>1. drawn' = {} /\ room' = LinesFrom(top) /\ LinesFrom(top) \in Nat
  BY LinesNat DEF Begins
<1>2. TextKept'
  BY <1>1 DEF TextKept
<1>3. /\ y' = RowIn(top, k) /\ room' <= LinesFrom(top)
      /\ \A p \in drawn' : FALSE
  BY <1>1
<1> QED
  BY <1>2, <1>3 DEF StandsOn, RowIn, BandIn, LinesOf, Ahead, LinesFrom, HasNext, LineHeight

\* The next line is one of those left, and those behind it are left to it.
LEMMA CarriageKept ==
  ASSUME NEW top \in Nat, NEW k \in LinesOf(top), StandsOn(top, k), room \in Nat,
         NEW left, Carriage(left, top),
         NEW D, room > 0 =>
           \A p \in D : \A l \in LinesOf(top) : Ahead(top, k, l) < room => p[2] \notin BandIn(top, l),
         drawn' = D
  PROVE  StandsOn(top, NextIn(top, k))'
<1> DEFINE n == NextIn(top, k)
           L == LinesFrom(top)
<1>1. n \in LinesOf(top) /\ y' = RowIn(top, n)
  BY NextRow DEF Carriage, StandsOn
<1>2. room' \in Nat /\ room' <= L /\ (room' > 0 => room' = room - 1 /\ room > 0)
  BY LinesNat DEF Carriage, StandsOn
<1>3. L \in Nat /\ k \in Nat /\ k < L /\ n = IF k + 1 < L THEN k + 1 ELSE 0
  BY LinesNat DEF LinesOf, NextIn
<1>4. ASSUME room' > 0, NEW l \in LinesOf(top), Ahead(top, n, l) < room' \/ l = n
      PROVE  Ahead(top, k, l) < room
  <2>1. l \in Nat /\ l < L /\ room' = room - 1 /\ room \in Nat
    BY <1>2, <1>4, LinesNat DEF LinesOf
  <2>2. CASE l = n
    <3>1. Ahead(top, k, l) = 1
      BY <1>3, <2>1, <2>2 DEF Ahead
    <3> QED
      BY <1>4, <2>1, <3>1
  <2>3. CASE l # n
    <3>1. Ahead(top, k, l) = Ahead(top, n, l) + 1 /\ Ahead(top, n, l) \in Int
      BY <1>3, <2>1, <2>3 DEF Ahead
    <3> QED
      BY <1>4, <2>1, <2>3, <3>1
  <2> QED
    BY <2>2, <2>3
<1>5. ASSUME room' > 0, NEW p \in D
      PROVE  /\ p[2] \notin BandIn(top, n)
             /\ \A l \in LinesOf(top) : Ahead(top, n, l) < room' => p[2] \notin BandIn(top, l)
  BY <1>1, <1>2, <1>4, <1>5
<1> HIDE DEF n
<1>6. /\ y' = RowIn(top, n) /\ room' <= LinesFrom(top)
      /\ room' > 0 =>
           \A p \in drawn' :
             /\ p[2] \in BandIn(top, n) => p[1] < x'
             /\ \A l \in LinesOf(top) : Ahead(top, n, l) < room' => p[2] \notin BandIn(top, l)
  BY <1>1, <1>2, <1>5
<1>7. StandsOn(top, n)'
  BY <1>6 DEF StandsOn, RowIn, BandIn, LinesOf, Ahead, LinesFrom, HasNext, LineHeight
<1> QED
  BY <1>7 DEF n
\* The box of a character is on its line, right of what the call has drawn there.
LEMMA BoxIsFree ==
  ASSUME NEW top \in Nat, NEW k \in LinesOf(top), StandsOn(top, k), x \in Nat,
         room \in Nat, room > 0
  PROVE  /\ drawn \cap Box(x, y) = {}
         /\ \A p \in Box(x, y) :
              /\ p[1] \in x .. x + CHAR_WIDTH - 1
              /\ \A l \in LinesOf(top) : Ahead(top, k, l) < room => p[2] \notin BandIn(top, l)
<1>1. y = RowIn(top, k) /\ k \in Nat /\ k < LinesFrom(top) /\ LinesFrom(top) \in Nat
  BY LinesNat DEF StandsOn, LinesOf
<1>2. \A p \in Box(x, y) : p[1] \in x .. x + CHAR_WIDTH - 1 /\ p[2] \in BandIn(top, k)
  <2>1. \A p \in Box(x, y) : p[1] \in x .. x + CHAR_WIDTH - 1
    BY DEF Box
  <2> QED
    BY <1>1, <2>1, BoxInBand
<1>3. ASSUME NEW p \in Box(x, y), NEW l \in LinesOf(top), Ahead(top, k, l) < room
      PROVE  p[2] \notin BandIn(top, l)
  <2>1. l \in Nat /\ room <= LinesFrom(top) /\ room > 0
    BY DEF LinesOf, StandsOn
  <2>2. Ahead(top, k, k) = LinesFrom(top)
    BY <1>1 DEF Ahead
  <2>3. l # k
    BY <1>1, <1>3, <2>1, <2>2
  <2> QED
    BY <1>1, <1>2, <2>1, <2>3, BandsApart
<1>4. ASSUME NEW p \in drawn \cap Box(x, y) PROVE FALSE
  <2>1. p[1] < x /\ p[1] \in x .. x + CHAR_WIDTH - 1
    BY <1>2, <1>4 DEF StandsOn
  <2> QED
    BY <2>1
<1> QED
  BY <1>2, <1>3, <1>4

\* A character is added to what is shown, and takes nothing away.
LEMMA DrawKept ==
  ASSUME NEW top \in Nat, NEW k \in LinesOf(top), StandsOn(top, k), TextKept,
         x \in Nat, room \in Nat, \A p \in drawn : p[1] \in Nat,
         NEW g \in Glyphs, Draw(g),
         NEW width \in Nat, width >= CHAR_WIDTH, NEW left, Step(width, left, top)
  PROVE  TextKept' /\ \E j \in LinesOf(top) : StandsOn(top, j)'
<1>1. drawn' = drawn \cup (IF g = "space" THEN {} ELSE Box(x, y))
      /\ new' = (new \ Box(x, y)) \cup (IF g = "space" THEN {} ELSE Box(x, y))
  BY DEF Draw
<1>2. room' \in Nat /\ (room' > 0 => room > 0)
  BY DEF Step, Carriage
<1>3. TextKept'
  BY <1>1, <1>2, BoxIsFree DEF TextKept
<1>4. room > 0 =>
        \A p \in drawn' :
          /\ p \in drawn \/ p[1] \in x .. x + CHAR_WIDTH - 1
          /\ \A l \in LinesOf(top) : Ahead(top, k, l) < room => p[2] \notin BandIn(top, l)
  BY <1>1, BoxIsFree DEF StandsOn
<1>5. CASE x < Edge
  <2>1. x' = x + width /\ y' = y /\ room' = room
    BY <1>5 DEF Step
  <2>2. ASSUME room > 0, NEW p \in drawn', p[2] \in BandIn(top, k) PROVE p[1] < x'
    <3>1. CASE p \in drawn
      <4>1. p[1] < x /\ p[1] \in Nat
        BY <2>2, <3>1 DEF StandsOn
      <4> QED
        BY <2>1, <4>1, GeometryAssumption
    <3>2. CASE p[1] \in x .. x + CHAR_WIDTH - 1
      BY <2>1, <3>2, GeometryAssumption
    <3> QED
      BY <1>4, <2>2, <3>1, <3>2
  <2>3. /\ y' = RowIn(top, k) /\ room' <= LinesFrom(top)
        /\ room' > 0 =>
             \A p \in drawn' :
               /\ p[2] \in BandIn(top, k) => p[1] < x'
               /\ \A l \in LinesOf(top) : Ahead(top, k, l) < room' => p[2] \notin BandIn(top, l)
    BY <1>4, <2>1, <2>2 DEF StandsOn
  <2>4. StandsOn(top, k)'
    BY <2>3 DEF StandsOn, RowIn, BandIn, LinesOf, Ahead, LinesFrom, HasNext, LineHeight
  <2> QED
    BY <1>3, <2>4
<1>6. CASE ~(x < Edge)
  <2>1. Carriage(left, top)
    BY <1>6 DEF Step
  <2> DEFINE D == drawn'
  <2>2. StandsOn(top, NextIn(top, k))'
    BY <1>4, <2>1, CarriageKept
  <2> QED
    BY <1>3, <2>2, NextRow
<1> QED
  BY <1>5, <1>6

\* A step that draws nothing and stays on its line, not further left.
LEMMA StayKept ==
  ASSUME NEW top, NEW k, StandsOn(top, k), UNCHANGED <<y, room, drawn>>,
         x \in Nat, x' \in Nat, x' >= x, \A p \in drawn : p[1] \in Nat
  PROVE  StandsOn(top, k)'
<1>1. ASSUME NEW p \in drawn, p[1] < x PROVE p[1] < x'
  <2>1. p[1] \in Nat
    OBVIOUS
  <2> QED
    BY <1>1, <2>1
<1>2. /\ y' = RowIn(top, k) /\ room' <= LinesFrom(top)
      /\ room' > 0 =>
           \A p \in drawn' :
             /\ p[2] \in BandIn(top, k) => p[1] < x'
             /\ \A l \in LinesOf(top) : Ahead(top, k, l) < room' => p[2] \notin BandIn(top, l)
  BY <1>1 DEF StandsOn
<1> QED
  BY <1>2 DEF StandsOn, RowIn, BandIn, LinesOf, Ahead, LinesFrom, HasNext, LineHeight

LEMMA VprintlnKept ==
  ASSUME IInv, KeptInv, Vprintln PROVE KeptInv'
<1> DEFINE top == text_offset_y
<1>0. /\ TypeOK /\ x \in Nat /\ room \in Nat /\ top \in Nat
      /\ \A p \in drawn : p[1] \in Nat
  <2>1. \A p \in Screen : p[1] \in Nat
    BY GeometryAssumption DEF Screen
  <2> QED
    BY <2>1, Ranges, GeometryAssumption DEF IInv
<1>1. PICK v \in LineNumbers : vprintln_y_off = RowOf(v)
  BY DEF KeptInv
<1>2. ASSUME TextKept', NEW j \in LineNumbers, StandsOn(top, j)',
             vprintln_y_off' = vprintln_y_off, proc' \in {"vprintln", "whiten"}
      PROVE  KeptInv'
  <2>1. Block' = top
    BY <1>2 DEF Block
  <2>2. \E l \in LinesOf(top) : StandsOn(top, l)'
    BY <1>2 DEF LineNumbers
  <2> HIDE DEF top
  <2>3. (\E l \in LinesOf(Block) : StandsOn(Block, l))'
    BY <2>1, <2>2 DEF LinesOf, StandsOn, RowIn, BandIn, Ahead, LinesFrom, HasNext, LineHeight
  <2> QED
    BY <1>1, <1>2, <2>3 DEF KeptInv, LineNumbers, LinesOf, RowOf, RowIn, LinesFrom, HasNext, LineHeight
<1>3. CASE VprintlnCall
  <2>1. /\ Begins(top) /\ y' = RowIn(top, v) /\ v \in LinesOf(top)
        /\ proc' = "vprintln" /\ vprintln_y_off' = vprintln_y_off
    BY <1>1, <1>3 DEF VprintlnCall, RowOf, LineNumbers
  <2> HIDE DEF top
  <2>2. TextKept' /\ StandsOn(top, v)'
    BY <1>0, <2>1, BeginKept
  <2> QED
    BY <1>2, <2>1, <2>2
<1>4. CASE proc \in {"vprintln", "whiten"}
  <2>1. PICK k \in LinesOf(top) : StandsOn(top, k)
    BY <1>4 DEF KeptInv, Block
  <2>2. k \in LineNumbers /\ TextKept
    BY <2>1 DEF LineNumbers, KeptInv
  <2>3. CASE Newline
    <3>1. Carriage(text_offset_x, top) /\ drawn' = drawn /\ new' = new
      BY <2>3 DEF Newline
    <3>2. proc' = "vprintln" /\ vprintln_y_off' = vprintln_y_off
      BY <2>3 DEF Newline
    <3> HIDE DEF top
    <3>3. StandsOn(top, NextIn(top, k))'
      BY <1>0, <2>1, <3>1, CarriageKept DEF StandsOn
    <3>4. TextKept'
      BY <1>0, <2>2, <3>1 DEF TextKept, Carriage
    <3>5. NextIn(top, k) \in LineNumbers
      BY <1>0, <2>1, NextRow DEF LineNumbers, top
    <3> QED
      BY <1>2, <3>2, <3>3, <3>4, <3>5
  <2>4. ASSUME NEW g \in Glyphs, Character(g) PROVE KeptInv'
    <3> DEFINE width == CHAR_WIDTH + CHAR_INTERLINESPACING
    <3>1. /\ Draw(g) /\ Step(width, text_offset_x, top)
          /\ proc' = "vprintln" /\ vprintln_y_off' = vprintln_y_off
      BY <2>4 DEF Character
    <3>2. width \in Nat /\ width >= CHAR_WIDTH
      BY GeometryAssumption
    <3> HIDE DEF top, width
    <3>3. TextKept' /\ \E j \in LinesOf(top) : StandsOn(top, j)'
      BY <1>0, <2>1, <2>2, <3>1, <3>2, DrawKept
    <3> QED
      BY <1>2, <3>1, <3>3 DEF LineNumbers, top
  <2>5. CASE EndOfText \/ Whiten
    <3>1. /\ UNCHANGED <<y, room, drawn, vprintln_y_off>> /\ proc' \in {"vprintln", "whiten"}
          /\ x' \in Nat /\ x' >= x
      BY <1>0, <2>5, GeometryAssumption DEF EndOfText, Whiten
    <3>2. StandsOn(top, k)'
      BY <1>0, <2>1, <3>1, StayKept
    <3>3. TextKept'
      <4>1. CASE EndOfText
        BY <2>2, <4>1 DEF EndOfText, TextKept
      <4>2. CASE Whiten
        BY <1>0, <2>1, <2>2, <4>2, BoxIsFree DEF Whiten, TextKept
      <4> QED
        BY <2>5, <4>1, <4>2
    <3> QED
      BY <1>2, <2>2, <3>1, <3>2, <3>3
  <2>6. CASE LineBreak
    <3>1. /\ vprintln_y_off' = LineAfter(y, top) /\ proc' = "none"
          /\ UNCHANGED <<new, drawn, room>>
      BY <2>6 DEF LineBreak
    <3>2. y = RowIn(top, k)
      BY <2>1 DEF StandsOn
    <3> HIDE DEF top
    <3>3. vprintln_y_off' = RowIn(top, NextIn(top, k)) /\ NextIn(top, k) \in LinesOf(top)
      BY <1>0, <2>1, <3>1, <3>2, NextRow
    <3>4. TextKept'
      BY <2>2, <3>1 DEF TextKept
    <3>5. \E j \in LineNumbers : vprintln_y_off' = RowOf(j)
      BY <3>3 DEF LineNumbers, RowOf, top
    <3> QED
      BY <3>1, <3>4, <3>5 DEF KeptInv, LineNumbers, LinesOf, RowOf, RowIn, LinesFrom, HasNext, LineHeight
  <2> QED
    BY <1>4, <2>3, <2>4, <2>5, <2>6 DEF Vprintln, VprintlnCall
<1> QED
  BY <1>3, <1>4 DEF Vprintln, Newline, Character, EndOfText, Whiten, LineBreak

LEMMA PutFbStringKept ==
  ASSUME IInv, KeptInv, PutFbString PROVE KeptInv'
<1>0. /\ TypeOK /\ x \in Nat /\ room \in Nat /\ y_off \in Nat
      /\ \A p \in drawn : p[1] \in Nat
  <2>1. \A p \in Screen : p[1] \in Nat
    BY GeometryAssumption DEF Screen
  <2> QED
    BY <2>1, Ranges DEF IInv
<1>1. vprintln_y_off' = vprintln_y_off
  BY DEF PutFbString, PutString, StringCharacter, StringEnd
<1>2. (\E v \in LineNumbers : vprintln_y_off = RowOf(v))'
  BY <1>1 DEF KeptInv, LineNumbers, LinesOf, RowOf, RowIn, LinesFrom, HasNext, LineHeight
<1>3. ASSUME TextKept', NEW top, top = y_off', NEW j \in LinesOf(top), StandsOn(top, j)',
             proc' = "put_fb_string"
      PROVE  KeptInv'
  <2>1. Block' = top
    BY <1>3 DEF Block
  <2>2. (\E l \in LinesOf(Block) : StandsOn(Block, l))'
    BY <1>3, <2>1 DEF LinesOf, StandsOn, RowIn, BandIn, Ahead, LinesFrom, HasNext, LineHeight
  <2> QED
    BY <1>2, <1>3, <2>2 DEF KeptInv
<1>4. CASE PutString
  <2>1. PICK s \in StringStarts : y' = s[2] /\ y_off' = s[2] /\ Begins(s[2])
    BY <1>4 DEF PutString
  <2> DEFINE top == s[2]
  <2>2. top \in Nat /\ proc' = "put_fb_string"
    BY <1>4, StartsAssumption DEF PutString
  <2>3. y' = top /\ y_off' = top /\ Begins(top)
    BY <2>1
  <2> HIDE DEF top
  <2>4. 0 \in LinesOf(top) /\ RowIn(top, 0) = top
    BY <2>2, FirstIn
  <2>5. TextKept' /\ StandsOn(top, 0)'
    BY <2>2, <2>3, <2>4, BeginKept
  <2> QED
    BY <1>3, <2>2, <2>3, <2>4, <2>5
<1>5. CASE proc = "put_fb_string"
  <2> DEFINE top == y_off
  <2>1. PICK k \in LinesOf(top) : StandsOn(top, k)
    BY <1>5 DEF KeptInv, Block
  <2>2. TextKept
    BY DEF KeptInv
  <2>3. ASSUME NEW g \in Glyphs, StringCharacter(g) PROVE KeptInv'
    <3> DEFINE width == CHAR_WIDTH + CHAR_INTERCHARSPACING
    <3>1. /\ Draw(g) /\ Step(width, x_off, top)
          /\ proc' = "put_fb_string" /\ y_off' = top
      BY <2>3 DEF StringCharacter
    <3>2. width \in Nat /\ width >= CHAR_WIDTH /\ top \in Nat
      BY <1>0, GeometryAssumption
    <3> HIDE DEF width
    <3>3. TextKept' /\ \E j \in LinesOf(top) : StandsOn(top, j)'
      BY <1>0, <2>1, <2>2, <3>1, <3>2, DrawKept
    <3> QED
      BY <1>3, <3>1, <3>3
  <2>4. CASE StringEnd
    <3>1. UNCHANGED <<new, drawn, room>> /\ proc' = "none"
      BY <2>4 DEF StringEnd
    <3>2. TextKept'
      BY <2>2, <3>1 DEF TextKept
    <3> QED
      BY <1>2, <3>1, <3>2 DEF KeptInv
  <2> QED
    BY <1>5, <2>3, <2>4 DEF PutFbString, PutString
<1> QED
  BY <1>4, <1>5 DEF PutFbString, StringCharacter, StringEnd

LEMMA NextKept == IInv /\ KeptInv /\ [Next]_vars => KeptInv'
<1>1. KeptInv /\ UNCHANGED vars => KeptInv'
  BY DEF vars, KeptInv, TextKept, Block, LineNumbers, LinesOf, StandsOn, RowOf, RowIn, BandIn,
         Ahead, LinesFrom, HasNext, LineHeight
<1> QED
  BY <1>1, VprintlnKept, PutFbStringKept DEF Next

\* For every geometry, every order of calls and every text that does not need
\* more lines than its block has: nothing of it is lost, neither to its own
\* later characters nor to the whitening.
THEOREM TextSafe == Spec => []TextKept
<1>1. KeptInv => TextKept
  BY DEF KeptInv
<1> QED
  BY <1>1, InitKept, NextKept, Invariance, PTL DEF Spec
-----------------------------------------------------------------------------
(***************************************************************************)
(* main: the controller is started on a painted buffer only, no character  *)
(* is clipped, and the screen is a page written line after line.           *)
(***************************************************************************)
Cities == {"koeln", "cologne"}
Printing == {"title", "greeting", "echo"}
Waiting == {"base", "go", "started", "tell", "prompt", "written"}

\* Before de0_vga_init has whitened the screen.
Blank ==
  /\ proc = "none" /\ x = 0 /\ y = 0 /\ x_off = 0 /\ y_off = 0
  /\ vprintln_y_off = 0
  /\ old \subseteq Screen /\ new = {} /\ drawn = {} /\ room = 0
  /\ ~painted /\ ~go

\* What each place in main has behind it, and what may run there.
Stage ==
  \/ main \in {"start", "oom", "failed"} /\ Blank
  \/ main \in Cities /\ IInv /\ ~painted /\ ~go
     /\ proc \in {"none", "put_fb_string"} /\ vprintln_y_off = text_offset_y
  \/ main = "base" /\ IInv /\ painted /\ ~go /\ proc = "none" /\ OnGrid
  \/ main = "go" /\ IInv /\ painted /\ fb_base /\ ~go /\ proc = "none" /\ OnGrid
  \/ main \in {"started", "tell", "prompt", "written"}
     /\ IInv /\ painted /\ fb_base /\ proc = "none" /\ OnGrid
  \/ main \in Printing /\ IInv /\ painted /\ fb_base /\ OnGrid

LEMMA StageInit == AppInit => Stage
BY DEF AppInit, Stage, Blank

\* A step of the driver within main.
LEMMA Drawing ==
  ASSUME IInv, OnGrid, Vprintln
  PROVE  IInv' /\ OnGrid' /\ LP!Write
BY VprintlnInv, GridStep

\* vprintln runs only where main calls it.
LEMMA CallsOnly ==
  ASSUME Stage, proc \in {"vprintln", "whiten"} \/ main \in Printing
  PROVE  main \in Printing /\ IInv /\ painted /\ fb_base /\ OnGrid
BY DEF Stage, Blank, OnGrid, Cities, Printing

LEMMA StringsOnly ==
  ASSUME Stage, proc = "put_fb_string" \/ main \in Cities
  PROVE  /\ main \in Cities /\ IInv /\ ~painted /\ ~go
         /\ vprintln_y_off = text_offset_y
         /\ proc \in {"none", "put_fb_string"}
BY DEF Stage, Blank, OnGrid, Cities, Printing

\* The steps of main that print.
PrintsNow == Call \/ TakeNewline \/ TakeCharacter \/ Finish \/ PrintReturns

LEMMA PrintingStep ==
  ASSUME Stage, PrintsNow
  PROVE  /\ main \in Printing /\ painted /\ painted' /\ Vprintln
         /\ Stage' /\ LP!Write
<1>1. Vprintln /\ UNCHANGED <<fb_base, go, painted>>
  BY DEF PrintsNow, Call, TakeNewline, TakeCharacter, Finish, PrintReturns, Vprintln, appVars
<1>2. proc \in {"vprintln", "whiten"} \/ main \in Printing
  BY DEF PrintsNow, Call, TakeNewline, TakeCharacter, Finish, PrintReturns, Printing,
         Newline, Character, EndOfText, Whiten, LineBreak
<1>3. main \in Printing /\ IInv /\ painted /\ fb_base /\ OnGrid
  BY <1>2, CallsOnly
<1>4. IInv' /\ OnGrid' /\ LP!Write
  BY <1>1, <1>3, Drawing
<1>5. main' \in Printing \/ (main' \in {"tell", "written"} /\ proc' = "none")
  <2>1. CASE PrintReturns
    <3>1. main' = AfterPrint[main] /\ proc' = "none"
      BY <2>1 DEF PrintReturns, LineBreak
    <3>2. AfterPrint["title"] = "greeting" /\ AfterPrint["greeting"] = "tell"
          /\ AfterPrint["echo"] = "written"
      BY DEF AfterPrint
    <3> QED
      BY <1>3, <3>1, <3>2 DEF Printing
  <2>2. CASE Call \/ TakeNewline \/ TakeCharacter \/ Finish
    BY <1>3, <2>2 DEF Call, TakeNewline, TakeCharacter, Finish, Printing, appVars
  <2> QED
    BY <2>1, <2>2 DEF PrintsNow
<1> QED
  BY <1>1, <1>3, <1>4, <1>5 DEF Stage

\* The steps of de0_vga_init after it has whitened the screen.
LEMMA SplashStep ==
  ASSUME Stage, SplashCall \/ SplashCharacter \/ SplashEnd
  PROVE  /\ ~painted
         /\ painted' => vprintln_y_off' = text_offset_y /\ proc' = "none"
         /\ Stage'
<1>1. PutFbString /\ UNCHANGED <<fb_base, go>>
  BY DEF SplashCall, SplashCharacter, SplashEnd, PutFbString, appVars
<1>2. /\ main \in Cities /\ IInv /\ ~painted /\ ~go
      /\ vprintln_y_off = text_offset_y
      /\ proc \in {"none", "put_fb_string"}
  <2>1. proc = "put_fb_string" \/ main \in Cities
    BY DEF SplashCall, SplashCharacter, SplashEnd, StringCharacter, StringEnd, Cities
  <2> QED
    BY <2>1, StringsOnly
<1>3. IInv' /\ UNCHANGED vprintln_y_off
  <2>1. UNCHANGED vprintln_y_off
    BY <1>1 DEF PutFbString, PutString, StringCharacter, StringEnd
  <2> QED
    BY <1>1, <1>2, <2>1, PutFbStringInv
<1>4. CASE SplashCall \/ SplashCharacter
  <2>1. UNCHANGED <<main, painted, go>> /\ proc' = "put_fb_string"
    BY <1>4 DEF SplashCall, SplashCharacter, PutString, StringCharacter, appVars
  <2> QED
    BY <1>2, <1>3, <2>1 DEF Stage
<1>5. CASE SplashEnd
  <2>1. proc' = "none"
    BY <1>5 DEF SplashEnd, StringEnd
  <2>2. CASE main = "koeln"
    <3>1. main' = "cologne" /\ ~painted'
      BY <1>5, <2>2 DEF SplashEnd
    <3> QED
      BY <1>1, <1>2, <1>3, <2>1, <3>1 DEF Stage, Cities
  <2>3. CASE main = "cologne"
    <3>1. main' = "base" /\ painted'
      BY <1>5, <2>3 DEF SplashEnd
    <3>2. OnGrid'
      BY <1>2, <1>3, <2>1, FirstLine DEF OnGrid, LineNumbers, LinesOf, RowOf, RowIn, LinesFrom,
                                         HasNext, LineHeight
    <3> QED
      BY <1>1, <1>2, <1>3, <2>1, <3>1, <3>2 DEF Stage
  <2> QED
    BY <1>2, <2>2, <2>3 DEF Cities
<1> QED
  BY <1>4, <1>5

\* Where printf returns to; only its message for lack of memory comes before the
\* screen is painted.
LEMMA PrintfMoves ==
  ASSUME Printf
  PROVE  \/ main = "oom" /\ main' = "failed"
         \/ main = "started" /\ main' = "title"
         \/ main = "tell" /\ main' = "prompt"
         \/ main = "written" /\ main' = "tell"
BY DEF Printf, AfterPrintf

\* The rest of main leaves what is shown alone once it is painted.
LEMMA PlainStep ==
  ASSUME Stage, InitSucceeds \/ InitFails \/ WriteBase \/ WriteGo \/ Printf \/ Fgets
  PROVE  /\ painted' = painted /\ Stage'
         /\ painted => UNCHANGED vars
<1>1. CASE InitSucceeds
  <2>1. Blank
    BY <1>1 DEF InitSucceeds, Stage, Cities, Printing
  <2>2. IInv'
    BY <1>1, <2>1, PlacedSuffices, GeometryAssumption, SplashAssumption
    DEF InitSucceeds, Blank
  <2> QED
    BY <1>1, <2>1, <2>2 DEF InitSucceeds, Stage, Blank, Cities
<1>2. CASE InitFails \/ (Printf /\ main = "oom")
  <2>1. UNCHANGED <<vars, go, painted>> /\ main \in {"start", "oom"} /\ main' \in {"oom", "failed"}
    BY <1>2, PrintfMoves DEF InitFails, Printf
  <2>2. Blank
    BY <2>1 DEF Stage, Cities, Printing
  <2> QED
    BY <2>1, <2>2 DEF Stage, Blank, vars
<1>3. CASE WriteBase \/ WriteGo \/ Fgets \/ (Printf /\ main # "oom")
  <2>1. /\ UNCHANGED vars /\ UNCHANGED painted /\ main \in Waiting
        /\ \/ main = "base" /\ main' = "go" /\ fb_base' /\ UNCHANGED go
           \/ main = "go" /\ main' = "started" /\ UNCHANGED fb_base
           \/ main = "started" /\ main' = "title" /\ UNCHANGED fb_base
           \/ /\ main \in {"tell", "prompt", "written"} /\ UNCHANGED fb_base
              /\ main' \in {"tell", "prompt", "echo"}
    <3>1. CASE WriteBase \/ WriteGo \/ Fgets
      BY <3>1 DEF WriteBase, WriteGo, Fgets, Waiting
    <3>2. CASE Printf /\ main # "oom"
      <4>1. UNCHANGED <<vars, fb_base, painted>>
        BY <3>2 DEF Printf
      <4> QED
        BY <3>2, <4>1, PrintfMoves DEF Waiting
    <3> QED
      BY <1>3, <3>1, <3>2
  <2>2. IInv /\ OnGrid /\ painted /\ proc = "none" /\ (main = "base" => ~go)
        /\ (main # "base" => fb_base)
    BY <2>1 DEF Stage, Waiting, Cities, Printing
  <2>3. IInv' /\ OnGrid' /\ proc' = "none"
    BY <2>1, <2>2 DEF vars, IInv, TypeOK, Placed, OnGrid
  <2> QED
    BY <2>1, <2>2, <2>3 DEF Stage, Printing
<1> QED
  BY <1>1, <1>2, <1>3

LEMMA StageStep == Stage /\ [AppNext]_allVars => Stage'
<1>1. Stage /\ UNCHANGED allVars => Stage'
  BY DEF allVars, vars, appVars, Stage, Blank, IInv, TypeOK, Placed, OnGrid
<1> QED
  BY <1>1, PrintingStep, SplashStep, PlainStep DEF AppNext, PrintsNow

LEMMA StageInvariant == AppSpec => []Stage
BY StageInit, StageStep, PTL DEF AppSpec

\* For every screen and every text typed, the controller is started only when
\* the frame buffer is painted and the base register has its address.
THEOREM ReadySafe == AppSpec => []GoOnlyReady
<1>1. Stage => GoOnlyReady
  BY DEF Stage, Blank, GoOnlyReady
<1> QED
  BY <1>1, StageInvariant, PTL

\* Type correctness of the driver while main runs it.
THEOREM AppTypeSafe == AppSpec => []TypeOK
<1>1. Blank => TypeOK
  BY GeometryAssumption DEF Blank, TypeOK, Screen
<1>2. Stage => TypeOK
  BY <1>1 DEF Stage, IInv, Blank
<1> QED
  BY <1>2, StageInvariant, PTL

\* For every text typed, no character of the splash or the text is clipped.
THEOREM AppGlyphsSafe == AppSpec => []GlyphsInside
<1>1. IInv => GlyphsInside
  BY GeometryAssumption, Ranges DEF IInv, Placed, GlyphsInside
<1>2. Stage => GlyphsInside
  BY <1>1 DEF Stage, Blank, GlyphsInside
<1> QED
  BY <1>2, StageInvariant, PTL

\* Before de0_vga_init nothing is drawn.
AppKept == (room = 0 /\ main \in {"start", "oom", "failed"}) \/ KeptInv

LEMMA KeptStep ==
  ASSUME Stage, AppKept, [AppNext]_allVars PROVE AppKept'
<1>1. CASE InitSucceeds
  <2>1. vprintln_y_off' = text_offset_y /\ proc' = "none" /\ room' = 0
    BY <1>1 DEF InitSucceeds, Stage, Blank, Cities, Printing
  <2>2. TextKept'
    BY <2>1 DEF TextKept
  <2> QED
    BY <2>1, <2>2, FirstLine DEF AppKept, KeptInv, LineNumbers, LinesOf, RowOf, RowIn,
                                 LinesFrom, HasNext, LineHeight
<1>2. CASE InitFails \/ UNCHANGED allVars \/ WriteBase \/ WriteGo \/ Printf \/ Fgets
  <2>1. UNCHANGED vars
    BY <1>2 DEF InitFails, WriteBase, WriteGo, Printf, Fgets, allVars
  <2>2. KeptInv => KeptInv'
    BY <2>1 DEF vars, KeptInv, TextKept, Block, LineNumbers, LinesOf, StandsOn, RowOf,
                RowIn, BandIn, Ahead, LinesFrom, HasNext, LineHeight
  <2>3. main \in {"start", "oom", "failed"} => main' \in {"start", "oom", "failed"}
    BY <1>2, PrintfMoves DEF InitFails, WriteBase, WriteGo, Fgets, allVars, appVars
  <2> QED
    BY <2>1, <2>2, <2>3 DEF AppKept, vars
<1>3. CASE PrintsNow
  <2>1. Vprintln /\ main \in Printing
    BY <1>3, PrintingStep
  <2>2. IInv /\ KeptInv
    BY <2>1, CallsOnly DEF AppKept, Printing
  <2> QED
    BY <2>1, <2>2, VprintlnKept DEF AppKept
<1>4. CASE SplashCall \/ SplashCharacter \/ SplashEnd
  <2>1. PutFbString
    BY <1>4 DEF SplashCall, SplashCharacter, SplashEnd, PutFbString
  <2>2. main \in Cities /\ IInv
    <3>1. proc = "put_fb_string" \/ main \in Cities
      BY <1>4 DEF SplashCall, SplashCharacter, SplashEnd, StringCharacter, StringEnd, Cities
    <3> QED
      BY <3>1, StringsOnly
  <2> QED
    BY <2>1, <2>2, PutFbStringKept DEF AppKept, Cities
<1> QED
  BY <1>1, <1>2, <1>3, <1>4 DEF AppNext, PrintsNow

\* For every text typed, and for the splash: a text that fits its lines is on the
\* screen in full until the next one begins.
THEOREM AppTextSafe == AppSpec => []TextKept
<1>1. AppInit => AppKept
  BY DEF AppInit, AppKept
<1>2. AppKept => TextKept
  BY DEF AppKept, KeptInv, TextKept
<1> QED
  BY <1>1, <1>2, KeptStep, StageInvariant, PTL DEF AppSpec

\* For every geometry and every text typed, main's screen is a page of lines
\* after the splash, written in turn.
THEOREM AppRefinement == AppSpec => PrintsLines
<1>1. AppInit => Page!Init
  BY DEF AppInit, Page!Init
<1>2. painted /\ painted' /\ LP!Write => Page!Write
  BY DEF LP!Write, Page!Write, LP!Follows, Page!Follows
<1>3. UNCHANGED vars /\ UNCHANGED painted => UNCHANGED Page!lpVars
  BY DEF vars, Page!lpVars, LineShown, TextShown, AroundShown
<1>4. ASSUME Stage, [AppNext]_allVars PROVE [Page!Next]_(Page!lpVars)
  <2>1. CASE PrintsNow
    BY <1>2, <1>4, <2>1, PrintingStep DEF Page!Next
  <2>2. CASE SplashCall \/ SplashCharacter \/ SplashEnd
    <3>1. ~painted /\ (painted' => vprintln_y_off' = text_offset_y /\ proc' = "none")
      BY <1>4, <2>2, SplashStep
    <3>2. painted' => LineShown' = 0
      BY <3>1, FirstLine DEF LineShown, LineOf
    <3> QED
      BY <3>1, <3>2 DEF Page!Next, Page!Prepare
  <2>3. CASE InitSucceeds \/ InitFails \/ WriteBase \/ WriteGo \/ Printf \/ Fgets
    <3>1. painted' = painted /\ (painted => UNCHANGED vars)
      BY <1>4, <2>3, PlainStep
    <3> QED
      BY <1>3, <3>1 DEF Page!Next, Page!Prepare
  <2>4. CASE UNCHANGED allVars
    BY <1>3, <2>4 DEF allVars, appVars
  <2> QED
    BY <1>4, <2>1, <2>2, <2>3, <2>4 DEF AppNext, PrintsNow
<1>5. PrintsLines <=> Page!Init /\ [][Page!Next]_(Page!lpVars)
  BY DEF PrintsLines, Page!Spec
<1> QED
  BY <1>1, <1>4, <1>5, StageInvariant, PTL DEF AppSpec
=============================================================================
