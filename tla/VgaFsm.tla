------------------------------- MODULE VgaFsm -------------------------------
(***************************************************************************)
(* The process vga_fsm of vga_controller_dma_vga_logic: it takes words of  *)
(* PXPERREAD pixels from the FIFO and phases the pixels out.               *)
(*                                                                         *)
(* A segment is the word it was loaded from and the number of pixels it    *)
(* has been shifted by; the pixel shown is the one in its lowest bits.     *)
(* The module holds the state and the operations; VgaController decides    *)
(* when they happen.                                                       *)
(***************************************************************************)
EXTENDS Integers

CONSTANT PXPERREAD   \* pixels in a word (5)

VARIABLES
  vga_state,     \* t_vga_state
  pxcnt,         \* the pixel of the word that is shown next
  curr_segment,  \* the word being shown and how far it is shifted
  fifo_read      \* rdreq of the FIFO

vgaVars == <<vga_state, pxcnt, curr_segment, fifo_read>>

VgaInit ==
  /\ vga_state = "idle"
  /\ pxcnt = 0
  /\ curr_segment = [word |-> 0, shift |-> 0]
  /\ fifo_read = FALSE

\* vga_screen_act = '0' is the asynchronous reset of two of the registers.
Advance(blank, n) ==
  /\ pxcnt' = IF blank THEN 0 ELSE n
  /\ vga_state' = IF blank THEN "idle" ELSE "running"

\* The first pixel of a word is due and the FIFO has one.
LoadSegment(q, blank) ==
  /\ pxcnt = 0
  /\ curr_segment' = [word |-> q, shift |-> 0]
  /\ fifo_read' = TRUE
  /\ Advance(blank, 1)

\* The first pixel of a word is due and the FIFO looks empty.
AwaitWord(blank) ==
  /\ pxcnt = 0
  /\ Advance(blank, 0)
  /\ UNCHANGED <<curr_segment, fifo_read>>

\* Mutant of ShiftSegment: the last pixel of a word asks for another word.
ShiftSegmentReadsOn(blank) ==
  /\ pxcnt # 0
  /\ curr_segment' = [curr_segment EXCEPT !.shift = @ + 1]
  /\ fifo_read' = (pxcnt = PXPERREAD - 1)
  /\ Advance(blank, (pxcnt + 1) % PXPERREAD)

\* Mutant of ShiftSegment: one pixel too many is taken from a word.
ShiftSegmentLong(blank) ==
  /\ pxcnt # 0
  /\ curr_segment' = [curr_segment EXCEPT !.shift = @ + 1]
  /\ fifo_read' = FALSE
  /\ Advance(blank, IF pxcnt < PXPERREAD THEN pxcnt + 1 ELSE 0)

\* Any other pixel of the word.
ShiftSegment(blank) ==
  /\ pxcnt # 0
  /\ curr_segment' = [curr_segment EXCEPT !.shift = @ + 1]
  /\ fifo_read' = FALSE
  /\ Advance(blank, IF pxcnt < PXPERREAD - 1 THEN pxcnt + 1 ELSE 0)

(***************************************************************************)
(* An edge of vga_px_clk.  "act" is vga_screen_act as the edge finds it,   *)
(* "blank" says that it is low just after the edge, "empty" and "q" are    *)
(* the outputs of the FIFO.                                                *)
(***************************************************************************)
VgaEdge(act, blank, empty, q) ==
  \/ act /\ ~empty /\ LoadSegment(q, blank)
  \/ act /\ empty /\ AwaitWord(blank)
  \/ act /\ ShiftSegment(blank)
  \/ /\ ~act
     /\ pxcnt' = 0 /\ vga_state' = "idle"
     /\ UNCHANGED <<curr_segment, fifo_read>>

\* vga_screen_act falls without an edge: GO is withdrawn.
VgaBlank ==
  /\ pxcnt' = 0 /\ vga_state' = "idle"
  /\ UNCHANGED <<curr_segment, fifo_read>>

\* What R, G and B show: black, the red of an underflow, or a pixel of a word.
Black == [colour |-> "black"]
Red == [colour |-> "red"]
Shown(empty) ==
  IF vga_state = "idle" THEN Black ELSE IF empty THEN Red ELSE curr_segment
=============================================================================
