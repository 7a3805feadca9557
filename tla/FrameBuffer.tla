---------------------------- MODULE FrameBuffer ----------------------------
(***************************************************************************)
(* The frame buffer in memory: the driver packs pixels into segments with  *)
(* frame_px_w, a load, a mask and a store, while the read master fetches   *)
(* segments and knows nothing of it.                                       *)
(*                                                                         *)
(* A segment is stored and fetched in several transfers of the memory.  A  *)
(* piece <<p, t>> is the part of pixel p that transfer t carries.  Its     *)
(* content is the colour whose bits it holds, so a torn pixel is one whose *)
(* pieces hold two colours.                                                *)
(***************************************************************************)
EXTENDS Integers

CONSTANTS
  DISPLAY_NUM_COLUMNS, DISPLAY_NUM_ROWS,
  PixelsPerSegment,   \* 5 in the code
  PixelBits,          \* 12
  TransferBits,       \* 16, the width of the SDRAM
  Colours,
  Rects               \* the areas software writes, records of off_x, off_y, width, height

\* A row is a whole number of segments: frame_px_w shifts by x % 5, not by the pixel's index.
ASSUME RasterAssumption ==
  /\ PixelsPerSegment \in Nat \ {0}
  /\ PixelBits \in Nat \ {0} /\ TransferBits \in Nat \ {0}
  /\ DISPLAY_NUM_ROWS \in Nat \ {0} /\ DISPLAY_NUM_COLUMNS \in Nat \ {0}
  /\ DISPLAY_NUM_COLUMNS % PixelsPerSegment = 0
ASSUME RectsAssumption ==
  \A r \in Rects : /\ r.off_x \in Nat /\ r.off_y \in Nat
                   /\ r.width \in Nat /\ r.height \in Nat

VARIABLES
  mem,      \* the segments
  rect,     \* the area put_frame_buffer was called for
  x, y,     \* its loop variables
  pc,       \* "idle", "loop" or "store"
  seg,      \* the segment computed by frame_px_w, in registers
  todo,     \* the transfers of it that are not stored yet
  colour,   \* history: the colour frame_px_w was given
  picture,  \* history: the colour each pixel was last given
  fetched,  \* read master: the transfers of the segment it has, from 0 up
  wanted,   \* read master: the segment it is fetching
  word,     \* read master: the pieces it has
  seen      \* history: the colours each pixel of it has had since the fetch began

driverVars == <<mem, rect, x, y, pc, seg, todo, colour, picture>>
masterVars == <<fetched, wanted, word>>
vars == <<driverVars, masterVars, seen>>

Columns == 0 .. DISPLAY_NUM_COLUMNS - 1
Rows == 0 .. DISPLAY_NUM_ROWS - 1
Slots == 0 .. PixelsPerSegment - 1
Segments == 0 .. (DISPLAY_NUM_COLUMNS * DISPLAY_NUM_ROWS) \div PixelsPerSegment - 1
Transfers == 0 .. (PixelsPerSegment * PixelBits - 1) \div TransferBits
Carries(t, p) ==
  /\ t * TransferBits < (p + 1) * PixelBits
  /\ p * PixelBits < (t + 1) * TransferBits
Pieces == {q \in Slots \X Transfers : Carries(q[2], q[1])}
Word == [Pieces -> Colours]

\* frame_seg (fb, x, y), and the slot frame_px_w shifts to.
SegmentOf(c, r) == (c + r * DISPLAY_NUM_COLUMNS) \div PixelsPerSegment
SlotOf(c) == c % PixelsPerSegment

\* The segment s with its slot p replaced by the colour v.
\* (Mutant: the mask is not shifted and takes slot 0 along.)
PackedUnshifted(s, p, v) == [q \in Pieces |-> IF q[1] \in {p, 0} THEN v ELSE s[q]]
Packed(s, p, v) == [q \in Pieces |-> IF q[1] = p THEN v ELSE s[q]]
-----------------------------------------------------------------------------
\* The place on the screen of slot p of segment s: segments are shown in the
\* order of their addresses, slots from the low bits up, row by row.
PixelAt(s, p) ==
  LET i == s * PixelsPerSegment + p
  IN <<i % DISPLAY_NUM_COLUMNS, i \div DISPLAY_NUM_COLUMNS>>

\* The colours a pixel may have at this moment.
Current(px) ==
  {picture[px]} \cup (IF pc = "store" /\ px = <<x, y>> THEN {colour} ELSE {})

\* malloc leaves any colours in the pixels; no area is being written.
Init ==
  /\ picture \in [Columns \X Rows -> Colours]
  /\ mem = [s \in Segments |-> [q \in Pieces |-> picture[PixelAt(s, q[1])]]]
  /\ rect \in Rects /\ x = 0 /\ y = 0 /\ pc = "idle"
  /\ seg = mem[0] /\ todo = {} /\ colour \in Colours
  /\ fetched = 0 /\ wanted \in Segments /\ word = [q \in {} |-> 0]
  /\ seen = [p \in Slots |-> {picture[PixelAt(wanted, p)]}]

\* Mutants: an area that is not clipped at an edge of the screen.
InColumnsUnclipped == x < rect.off_x + rect.width
InRowsUnclipped == y < rect.off_y + rect.height

InRows == y < rect.off_y + rect.height /\ y < DISPLAY_NUM_ROWS
InColumns == x < rect.off_x + rect.width /\ x < DISPLAY_NUM_COLUMNS

\* put_frame_buffer is called.  The loop that whitens the screen in
\* de0_vga_init and the one that draws the banner are calls for their area.
PutFrameBuffer ==
  /\ pc = "idle"
  /\ rect' \in Rects
  /\ x' = rect'.off_x /\ y' = rect'.off_y
  /\ pc' = "loop"
  /\ UNCHANGED <<mem, seg, todo, colour, picture, masterVars, seen>>

\* frame_px_w up to the store: the segment is loaded and the pixel replaced.
\* Only the driver writes the buffer, so the loads are one step.
PixelWrite ==
  /\ pc = "loop" /\ InRows /\ InColumns
  /\ colour' \in Colours
  /\ seg' = Packed(mem[SegmentOf(x, y)], SlotOf(x), colour')
  /\ todo' = Transfers
  /\ pc' = "store"
  /\ seen' = IF SegmentOf(x, y) = wanted
             THEN [seen EXCEPT ![SlotOf(x)] = @ \cup {colour'}] ELSE seen
  /\ UNCHANGED <<mem, rect, x, y, picture, masterVars>>

\* One transfer of the store, in any order; the last ends the loop's body.
StoreTransfer(t) ==
  /\ pc = "store" /\ t \in todo
  /\ mem' = [mem EXCEPT ![SegmentOf(x, y)] =
               [q \in Pieces |-> IF q[2] = t THEN seg[q] ELSE @[q]]]
  /\ todo' = todo \ {t}
  /\ IF todo' = {}
     THEN /\ pc' = "loop" /\ x' = x + 1
          /\ picture' = [picture EXCEPT ![<<x, y>>] = colour]
     ELSE UNCHANGED <<pc, x, picture>>
  /\ UNCHANGED <<rect, y, seg, colour, masterVars, seen>>

NextRow ==
  /\ pc = "loop" /\ InRows /\ ~InColumns
  /\ x' = rect.off_x /\ y' = y + 1
  /\ UNCHANGED <<mem, rect, pc, seg, todo, colour, picture, masterVars, seen>>

Return ==
  /\ pc = "loop" /\ ~InRows
  /\ pc' = "idle"
  /\ UNCHANGED <<mem, rect, x, y, seg, todo, colour, picture, masterVars, seen>>

Driver ==
  \/ PutFrameBuffer \/ PixelWrite \/ NextRow \/ Return
  \/ \E t \in Transfers : StoreTransfer(t)
-----------------------------------------------------------------------------
FetchBegin(s) ==
  /\ wanted' = s /\ fetched' = 0 /\ word' = [q \in {} |-> 0]
  /\ seen' = [p \in Slots |-> Current(PixelAt(s, p))]
  /\ UNCHANGED driverVars

FetchTransfer ==
  /\ fetched \in Transfers
  /\ word' = [q \in {q \in Pieces : q[2] <= fetched} |->
               IF q[2] = fetched THEN mem[wanted][q] ELSE word[q]]
  /\ fetched' = fetched + 1
  /\ UNCHANGED <<driverVars, wanted, seen>>

Master == FetchTransfer \/ \E s \in Segments : FetchBegin(s)

Next == Driver \/ Master
Spec == Init /\ [][Next]_vars
-----------------------------------------------------------------------------
\* Type correctness.
TypeOK ==
  /\ mem \in [Segments -> Word] /\ seg \in Word
  /\ rect \in Rects /\ x \in Nat /\ y \in Nat
  /\ pc \in {"idle", "loop", "store"} /\ todo \subseteq Transfers
  /\ pc = "store" => x \in Columns /\ y \in Rows
  /\ colour \in Colours /\ picture \in [Columns \X Rows -> Colours]
  /\ fetched \in Nat /\ wanted \in Segments
  /\ word \in [{q \in Pieces : q[2] < fetched} -> Colours]
  /\ seen \in [Slots -> SUBSET Colours]

\* The hardware shows every pixel where the driver wrote it and as it wrote
\* it, whatever was written around it: of the whole buffer only the pixel
\* frame_px_w is at work on may differ from the last colour it was given.
ShownAsWritten ==
  \A s \in Segments, q \in Pieces :
    \/ pc = "store" /\ PixelAt(s, q[1]) = <<x, y>>
    \/ mem[s][q] = picture[PixelAt(s, q[1])]

\* However far an area reaches beyond the screen, the loops call frame_px_w
\* only for a segment of the buffer that malloc returned.
StoresInside ==
  pc = "loop" /\ InRows /\ InColumns => SegmentOf(x, y) \in Segments

\* A segment fetched while software writes is torn in no pixel but those
\* that were written meanwhile: each piece is of a colour its pixel had
\* since the fetch began.
TornOnlyWhereWritten ==
  \A q \in Pieces : q[2] < fetched => word[q] \in seen[q[1]]
=============================================================================
