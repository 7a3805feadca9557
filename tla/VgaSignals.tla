----------------------------- MODULE VgaSignals -----------------------------
(***************************************************************************)
(* The signal generator vga_controller_vga_signals(a640x480): a pixel      *)
(* clock of half the rate of clk50, a pixel counter, a line counter, the   *)
(* two synchronisation pulses and the registered "screen active" window.   *)
(*                                                                         *)
(* The literals of the architecture are constants here, so that the same   *)
(* module is checked with the 800 x 525 raster of the code and with        *)
(* rasters small enough to be composed with the rest of the controller.    *)
(***************************************************************************)
EXTENDS Integers

CONSTANTS
  LineLast,               \* px_cnt of the last pixel of a line        (799)
  FrameLast,              \* line_cnt of the last line of a frame      (524)
  HSyncFirst, HSyncLimit, \* h_sync is low in HSyncFirst..HSyncLimit-1 (8, 104)
  VSyncFirst, VSyncLimit, \* v_sync is low in VSyncFirst..VSyncLimit-1 (2, 4)
  HActAfter, HActLast,    \* the two bounds sync compares px_cnt with  (150, 790)
  VActAfter, VActLast     \* the two bounds sync compares line_cnt with (36, 516)

ASSUME RasterAssumption ==
  /\ LineLast \in Nat /\ FrameLast \in Nat
  /\ HSyncFirst \in Nat /\ HSyncLimit \in Nat
  /\ VSyncFirst \in Nat /\ VSyncLimit \in Nat
  /\ HActAfter \in Nat /\ HActLast \in Nat
  /\ VActAfter \in Nat /\ VActLast \in Nat
  /\ HSyncFirst < HSyncLimit /\ HSyncLimit <= HActAfter
  /\ HActAfter < HActLast /\ HActLast < LineLast
  /\ VSyncFirst < VSyncLimit /\ VSyncLimit <= VActAfter
  /\ VActAfter < VActLast /\ VActLast <= FrameLast

VARIABLES
  reset,     \* input: not GO, asynchronous
  px_clk,    \* s_px_clk, TRUE when high
  px_cnt,    \* shared variable px_cnt
  line_cnt,  \* shared variable line_cnt
  hactive,   \* s_hactive
  vactive,   \* s_vactive
  order      \* which of the processes counter and sync runs first at an edge

vars == <<reset, px_clk, px_cnt, line_cnt, hactive, vactive, order>>

(***************************************************************************)
(* counter and sync are both sensitive to the rising edge of s_px_clk and  *)
(* share px_cnt and line_cnt without any ordering.  Synthesis turns the    *)
(* shared variables into registers, so sync reads the values before the    *)
(* edge ("sync_first"); a simulator may run counter first.  Either way the *)
(* choice is made once, at elaboration.                                    *)
(***************************************************************************)
Orders == {"sync_first", "counter_first"}

\* Mutant of NewPx: the wrap is tested one pixel late.
NewPxLate == IF px_cnt > LineLast THEN 0 ELSE px_cnt + 1

NewPx == IF px_cnt >= LineLast THEN 0 ELSE px_cnt + 1

\* Mutant of NewLine: the line advances when the displayed pixels end.
NewLineEarly ==
  IF px_cnt # HActLast THEN line_cnt
  ELSE IF line_cnt >= FrameLast THEN 0 ELSE line_cnt + 1

\* Mutant of NewLine: the line counter is not wrapped by the last line.
NewLineStuck ==
  IF px_cnt < LineLast \/ line_cnt >= FrameLast THEN line_cnt ELSE line_cnt + 1

NewLine ==
  IF px_cnt < LineLast THEN line_cnt
  ELSE IF line_cnt >= FrameLast THEN 0 ELSE line_cnt + 1

Counter == px_cnt' = NewPx /\ line_cnt' = NewLine

\* Mutant of Sync: <= on both sides of the pixel window.
SyncWide ==
  LET px   == IF order = "sync_first" THEN px_cnt ELSE NewPx
      line == IF order = "sync_first" THEN line_cnt ELSE NewLine
  IN  /\ hactive' = (px >= HActAfter /\ px <= HActLast)
      /\ vactive' = (line > VActAfter /\ line <= VActLast)

Sync ==
  LET px   == IF order = "sync_first" THEN px_cnt ELSE NewPx
      line == IF order = "sync_first" THEN line_cnt ELSE NewLine
  IN  /\ hactive' = (px > HActAfter /\ px <= HActLast)
      /\ vactive' = (line > VActAfter /\ line <= VActLast)

HSync == ~(px_cnt >= HSyncFirst /\ px_cnt < HSyncLimit)
VSync == ~(line_cnt >= VSyncFirst /\ line_cnt < VSyncLimit)
ScreenActive == hactive /\ vactive

Init ==
  /\ reset = TRUE
  /\ px_clk = FALSE
  /\ px_cnt = 0
  /\ line_cnt = 0
  /\ hactive = FALSE
  /\ vactive = FALSE
  /\ order \in Orders

\* An edge of clk50 that raises the pixel clock: counter and sync run.
PxRise ==
  /\ ~reset /\ ~px_clk
  /\ px_clk' = TRUE
  /\ Counter
  /\ Sync
  /\ UNCHANGED <<reset, order>>

\* An edge of clk50 that lowers the pixel clock.
PxFall ==
  /\ ~reset /\ px_clk
  /\ px_clk' = FALSE
  /\ UNCHANGED <<reset, px_cnt, line_cnt, hactive, vactive, order>>

(***************************************************************************)
(* The asynchronous reset clears the pixel clock, the pixel counter and    *)
(* the active window, and leaves line_cnt where it is.                     *)
(***************************************************************************)
AssertReset ==
  /\ ~reset
  /\ reset' = TRUE
  /\ px_clk' = FALSE
  /\ px_cnt' = 0
  /\ hactive' = FALSE
  /\ vactive' = FALSE
  /\ UNCHANGED <<line_cnt, order>>

ReleaseReset ==
  /\ reset
  /\ reset' = FALSE
  /\ UNCHANGED <<px_clk, px_cnt, line_cnt, hactive, vactive, order>>

Clk50 == PxRise \/ PxFall

Next == Clk50 \/ AssertReset \/ ReleaseReset

\* The oscillator runs as long as the board has power.
Spec == Init /\ [][Next]_vars /\ WF_vars(Clk50)

-----------------------------------------------------------------------------
TypeOK ==
  /\ reset \in BOOLEAN /\ px_clk \in BOOLEAN
  /\ px_cnt \in 0..LineLast
  /\ line_cnt \in 0..FrameLast
  /\ hactive \in BOOLEAN /\ vactive \in BOOLEAN
  /\ order \in Orders

(***************************************************************************)
(* The registered window lags the counters by one pixel, except when       *)
(* counter runs first.  In terms of the position on the line, the active   *)
(* area is exactly one rectangle of HActLast-HActAfter by                  *)
(* VActLast-VActAfter pixels (640 x 480), whatever restarts preceded it.   *)
(***************************************************************************)
Lag == IF order = "sync_first" THEN 1 ELSE 0

ActiveWindow ==
  ScreenActive <=> /\ px_cnt - Lag > HActAfter /\ px_cnt - Lag <= HActLast
                   /\ line_cnt > VActAfter /\ line_cnt <= VActLast

(***************************************************************************)
(* No pixel is shown while either synchronisation pulse is low: the        *)
(* registered window and the combinational pulses are derived separately.  *)
(***************************************************************************)
BlankDuringSync == ScreenActive => HSync /\ VSync

(***************************************************************************)
(* A line is never cut short: line_cnt moves only from the last pixel of a *)
(* line, and only to the next line of the frame, even if GO is withdrawn   *)
(* and set again in the middle of a frame.                                 *)
(***************************************************************************)
LinesInOrder ==
  [][line_cnt' # line_cnt =>
       /\ px_cnt = LineLast /\ px_cnt' = 0
       /\ line_cnt' = (line_cnt + 1) % (FrameLast + 1)]_vars

(***************************************************************************)
(* If GO stays set, v_sync is pulsed again and again, which is what        *)
(* restarts the frame buffer reads of every frame.                         *)
(***************************************************************************)
FramesKeepComing ==
  <>[]~reset => []<>(~VSync) /\ []<>ScreenActive
=============================================================================
