--------------------------- MODULE VgaController ---------------------------
(***************************************************************************)
(* The VGA controller: the timing of VgaSignals, the read master of        *)
(* DmaReadMaster with its FIFO, the pixel logic of VgaFsm and the control  *)
(* register, wired as in vga_controller.vhd and driven by one clock.       *)
(*                                                                         *)
(* The memory behind the bus is environment: it may be as slow as it       *)
(* likes.  "settled" says of a frame that the memory has kept up with it   *)
(* so far: of the words asked for at once, the i-th was there no later     *)
(* than LATENCY + GAP * i edges of clk50 after the request.  A word is     *)
(* four transfers of the 16-bit SDRAM, so GAP is 4 or more, and LATENCY    *)
(* covers what comes before them and what holds them up: the arbitration,  *)
(* the latency of the SDRAM, the opening of a row, a refresh, the other    *)
(* masters.                                                                *)
(***************************************************************************)
EXTENDS Integers, Sequences

CONSTANTS
  LineLast, FrameLast, HSyncFirst, HSyncLimit, VSyncFirst, VSyncLimit,
  HActAfter, HActLast, VActAfter, VActLast,
  DEPTH, RdLag, WrLag, BUFFERWIDTH, Bases, FRAMEWORDS, MaxInflight, MaxAddress,
  PXPERREAD,
  LATENCY, GAP   \* how late the words of a memory that keeps up may be

\* A word holds several pixels, and a line is a whole number of words.
ASSUME PxAssumption ==
  /\ PXPERREAD \in Nat /\ PXPERREAD >= 2
  /\ (HActLast - HActAfter) % PXPERREAD = 0
ASSUME MemoryAssumption == LATENCY \in Nat /\ GAP \in Nat \ {0}

VARIABLES
  go,                                                   \* control register, bit 0
  px_clk, px_cnt, line_cnt, hactive, vactive, order,    \* VgaSignals
  px_due,                                               \* clk50 has just raised px_clk
  fifo, rdpipe, wrpipe, broken,                         \* DcFifo
  ctrl_fb_base, dma_state, address, pending_reads, burstcount,
  inflight, popped, frame_base, clean,                  \* DmaReadMaster
  vga_state, pxcnt, curr_segment, fifo_read,            \* VgaFsm
  age,      \* history: edges of clk50 since the words on their way were asked for
  settled   \* history: this frame began in order, and the memory has kept up

Sig == INSTANCE VgaSignals WITH reset <- ~go
dma_reset == ~go \/ ~Sig!VSync
Dma == INSTANCE DmaReadMaster WITH reset <- dma_reset
Vga == INSTANCE VgaFsm

\* What the parts ask of their parameters: the raster, the FIFO, the read master.
ASSUME ControllerAssumption ==
  Sig!RasterAssumption /\ Dma!FifoAssumption /\ Dma!DmaAssumption

sigVars == <<px_clk, px_cnt, line_cnt, hactive, vactive, order>>
dmaVars == <<fifo, rdpipe, wrpipe, broken, ctrl_fb_base, dma_state, address,
             pending_reads, burstcount, inflight, popped, frame_base, clean>>
vgaVars == <<vga_state, pxcnt, curr_segment, fifo_read>>
vars == <<go, sigVars, px_due, dmaVars, vgaVars, age, settled>>

Init ==
  /\ go = FALSE
  /\ Sig!Init
  /\ Dma!FifoInit
  /\ ctrl_fb_base = 0 /\ dma_state = "idle" /\ address = 0
  /\ pending_reads = 0 /\ burstcount = 0 /\ inflight = <<>>
  /\ popped = 0 /\ frame_base = 0 /\ clean = TRUE
  /\ Vga!VgaInit
  /\ px_due = FALSE /\ age = 0 /\ settled = FALSE

-----------------------------------------------------------------------------
\* Words have been asked for and have not all come.
Owing == dma_state = "reading" \/ inflight # <<>>

\* A memory that keeps up has returned the n-th word of a burst by then.
Due(n) == LATENCY + GAP * n

\* The next word is not overdue.  A request is accepted an edge before its first
\* word.
InTime ==
  /\ dma_state = "reading" => age + 1 < Due(1)
  /\ inflight # <<>> => age < Due(burstcount - Len(inflight) + 1)

\* An edge of clk50 while the read master is reset: words that return are lost.
ResetEdge == dma_reset /\ (Dma!BeatDuringReset \/ UNCHANGED dmaVars)

(***************************************************************************)
(* px_clk is clk50 divided by two: every second edge of clk50 lowers it,   *)
(* and every second edge raises it, just after the registers of the clk50  *)
(* domain have changed (PxEdge is then due before anything else).          *)
(***************************************************************************)
Clk50Edge ==
  /\ ~px_due
  /\ UNCHANGED <<go, px_cnt, line_cnt, hactive, vactive, order, vgaVars>>
  /\ px_due' = (go /\ ~px_clk)
  /\ px_clk' = FALSE
  /\ ResetEdge \/ \E valid \in BOOLEAN : Dma!Clk50(valid)
  /\ age' = IF settled /\ Owing /\ Owing' THEN age + 1 ELSE 0
  /\ settled' = (settled /\ InTime')

\* What the edge of px_clk does to the FIFO and, through v_sync, to the master.
ReadSide ==
  \/ /\ ~dma_reset /\ ~dma_reset' /\ fifo_read
     /\ Dma!FifoRead
     /\ popped' = IF broken' THEN popped ELSE popped + 1
     /\ UNCHANGED <<ctrl_fb_base, dma_state, address, pending_reads, burstcount,
                    inflight, frame_base, clean>>
  \/ dma_reset = dma_reset' /\ (dma_reset \/ ~fifo_read) /\ UNCHANGED dmaVars
  \/ Dma!AssertReset
  \/ Dma!ReleaseReset

\* The FIFO's show-ahead output; nothing is known of it when it is empty.
Q == IF fifo = <<>> THEN {0} ELSE {Head(fifo)}

PxEdge ==
  /\ px_due
  /\ px_due' = FALSE
  /\ UNCHANGED <<go, age>>
  /\ Sig!PxRise
  /\ \E empty \in Dma!RdEmptyOutcomes, q \in Q :
       Vga!VgaEdge(Sig!ScreenActive, ~Sig!ScreenActive', empty, q)
  /\ ReadSide
  /\ settled' = IF dma_reset /\ ~dma_reset' THEN clean' /\ ~fifo_read
                ELSE settled

\* Software sets GO: the frame goes on from line_cnt, wherever that stands.
SetGo ==
  /\ ~go
  /\ go' = TRUE
  /\ Sig!ReleaseReset
  /\ \/ Dma!ReleaseReset
     \/ dma_reset' /\ UNCHANGED dmaVars
  /\ UNCHANGED <<px_due, vgaVars, age, settled>>

\* Software clears GO.
ClearGo ==
  /\ go /\ ~px_due
  /\ go' = FALSE
  /\ Sig!AssertReset
  /\ Vga!VgaBlank
  /\ \/ Dma!AssertReset
     \/ dma_reset /\ UNCHANGED dmaVars
  /\ age' = 0 /\ settled' = FALSE
  /\ UNCHANGED px_due

\* Software writes the base register.
WriteBase ==
  /\ ~px_due
  /\ UNCHANGED <<go, sigVars, px_due, vgaVars, age, settled>>
  /\ Dma!WriteBase

Next == Clk50Edge \/ PxEdge \/ SetGo \/ ClearGo \/ WriteBase

\* The two clocks run; nothing is assumed of the software or the memory.
Fairness == WF_vars(Clk50Edge) /\ WF_vars(PxEdge)

Spec == Init /\ [][Next]_vars /\ Fairness

-----------------------------------------------------------------------------
Row == line_cnt - VActAfter - 1
Column == px_cnt - Sig!Lag - HActAfter - 2
WordsPerLine == (HActLast - HActAfter) \div PXPERREAD

(***************************************************************************)
(* A frame that begins with a quiet bus, no read request and a memory that *)
(* keeps up is shown exactly: at every pixel period the output is the      *)
(* pixel of the frame buffer that belongs to this row and this column.     *)
(***************************************************************************)
PictureExact ==
  settled /\ vga_state = "running" =>
    \A empty \in Dma!RdEmptyOutcomes :
      Vga!Shown(empty) = [word  |-> frame_base + Row * WordsPerLine + Column \div PXPERREAD,
                          shift |-> Column % PXPERREAD]

(***************************************************************************)
(* A picture that is right stays right, from frame to frame, as long as    *)
(* the memory keeps up and GO stays set.                                   *)
(***************************************************************************)
StaysSettled == [][settled /\ InTime' /\ go' => settled']_vars

(***************************************************************************)
(* "write data into fifo as it arrives, there MUST be space": no edge of   *)
(* clk50 writes a word into a full FIFO, whatever pauses the memory makes, *)
(* with the reader that the raster really has.                             *)
(***************************************************************************)
SpaceAlways == [][clean /\ ~broken /\ ~px_due => ~broken']_vars

(***************************************************************************)
(* A base that software writes reaches the screen, as long as GO stays set *)
(* and the base is not written again: some later frame is read from it.    *)
(***************************************************************************)
FlipArrives ==
  \A b \in Bases :
    go /\ ctrl_fb_base = b ~> frame_base = b \/ ctrl_fb_base # b \/ ~go

(***************************************************************************)
(* "640 pixel displayed data": when the active area of a line ends, the    *)
(* last pixel of the last word of this row is on the output.               *)
(***************************************************************************)
LastPixelShown ==
  [][settled /\ go' /\ vga_state = "running" /\ vga_state' = "idle" =>
       curr_segment = [word  |-> frame_base + (Row + 1) * WordsPerLine - 1,
                       shift |-> PXPERREAD - 1]]_vars
=============================================================================
