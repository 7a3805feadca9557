------------------------- MODULE VgaSignalsProofs -------------------------
(***************************************************************************)
(* Proofs about VgaSignals for every raster that satisfies                 *)
(* RasterAssumption, of which the 800 x 525 raster of the code is one.     *)
(***************************************************************************)
EXTENDS VgaSignals, TLAPS

\* The registered column window always matches the pixel counter ...
ColumnsTracked ==
  hactive <=> px_cnt - Lag > HActAfter /\ px_cnt - Lag <= HActLast

\* ... and the registered row window matches the line counter except on the
\* first pixel of a line, where it may still be that of the line before (or
\* have been cleared by the reset).
RowsTracked ==
  px_cnt # 0 => (vactive <=> line_cnt > VActAfter /\ line_cnt <= VActLast)

IInv == TypeOK /\ ColumnsTracked /\ RowsTracked

-----------------------------------------------------------------------------
(* An edge leaves both counters in their ranges, and the line counter      *)
(* moves only when the pixel counter returns to 0.                         *)
LEMMA CounterStep ==
  ASSUME TypeOK
  PROVE  /\ NewPx \in 0..LineLast
         /\ NewLine \in 0..FrameLast
         /\ NewPx = 0 \/ (NewPx = px_cnt + 1 /\ NewLine = line_cnt)
         /\ NewPx = 0 => px_cnt = LineLast
BY RasterAssumption DEF RasterAssumption, TypeOK, NewPx, NewLine

(* What the cleared counters mean: both are in range, outside the window.  *)
LEMMA Cleared ==
  /\ 0 \in 0..LineLast /\ 0 \in 0..FrameLast
  /\ ~(0 - 0 > HActAfter) /\ ~(0 - 1 > HActAfter)
BY RasterAssumption DEF RasterAssumption

(* The reset state satisfies the invariant.                                *)
LEMMA InitInv == Init => IInv
<1> SUFFICES ASSUME Init PROVE IInv
  OBVIOUS
<1>1. TypeOK
  BY Cleared DEF Init, TypeOK
<1>2. ColumnsTracked
  BY Cleared, Zenon DEF Init, ColumnsTracked, Lag
<1> QED
  BY <1>1, <1>2 DEF Init, IInv, RowsTracked

(* Every step preserves the invariant.                                     *)
LEMMA NextInv == IInv /\ [Next]_vars => IInv'
<1> SUFFICES ASSUME IInv, [Next]_vars PROVE IInv'
  OBVIOUS
<1> USE RasterAssumption
<1>1. CASE PxRise
  <2>1. TypeOK'
    BY <1>1, CounterStep DEF IInv, TypeOK, PxRise, Counter, Sync
  <2>2. ColumnsTracked'
    <3>1. CASE order = "sync_first"
      <4>1. hactive' = (px_cnt > HActAfter /\ px_cnt <= HActLast)
        BY <1>1, <3>1 DEF PxRise, Sync
      <4>2. px_cnt' = NewPx /\ Lag' = 1
        BY <1>1, <3>1 DEF PxRise, Counter, Lag
      <4>3. NewPx = px_cnt + 1 \/ (NewPx = 0 /\ px_cnt = LineLast)
        BY CounterStep DEF IInv
      <4>4. NewPx - 1 > HActAfter /\ NewPx - 1 <= HActLast
              <=> px_cnt > HActAfter /\ px_cnt <= HActLast
        BY <4>3 DEF IInv, TypeOK, RasterAssumption
      <4> QED
        BY <4>1, <4>2, <4>4 DEF ColumnsTracked
    <3>2. CASE order = "counter_first"
      <4>1. hactive' = (NewPx > HActAfter /\ NewPx <= HActLast)
        BY <1>1, <3>2 DEF PxRise, Sync
      <4>2. px_cnt' = NewPx /\ Lag' = 0
        BY <1>1, <3>2 DEF PxRise, Counter, Lag
      <4>3. NewPx \in Int
        BY CounterStep DEF IInv, RasterAssumption
      <4>4. NewPx - 0 = NewPx
        BY <4>3
      <4> QED
        BY <4>1, <4>2, <4>4 DEF ColumnsTracked
    <3> QED
      BY <3>1, <3>2 DEF IInv, TypeOK, Orders
  <2>3. RowsTracked'
    <3> SUFFICES ASSUME px_cnt' # 0
                 PROVE  vactive' <=> line_cnt' > VActAfter /\ line_cnt' <= VActLast
      BY DEF RowsTracked
    <3>1. line_cnt' = line_cnt /\ NewLine = line_cnt
      BY <1>1, CounterStep DEF IInv, PxRise, Counter
    <3> QED
      BY <1>1, <3>1 DEF PxRise, Sync
  <2> QED
    BY <2>1, <2>2, <2>3 DEF IInv
<1>2. CASE PxFall
  BY <1>2 DEF IInv, PxFall, TypeOK, ColumnsTracked, RowsTracked, Lag
<1>3. CASE AssertReset
  <2>1. TypeOK'
    BY <1>3, Cleared, Zenon DEF IInv, AssertReset, TypeOK
  <2>2. ColumnsTracked'
    BY <1>3, Cleared, Zenon DEF AssertReset, ColumnsTracked, Lag
  <2> QED
    BY <1>3, <2>1, <2>2 DEF IInv, AssertReset, RowsTracked
<1>4. CASE ReleaseReset
  BY <1>4 DEF IInv, ReleaseReset, TypeOK, ColumnsTracked, RowsTracked, Lag
<1>5. CASE UNCHANGED vars
  BY <1>5 DEF IInv, vars, TypeOK, ColumnsTracked, RowsTracked, Lag
<1> QED
  BY <1>1, <1>2, <1>3, <1>4, <1>5 DEF Next, Clk50

(* The invariant gives the properties the runs check.                      *)
LEMMA InvImplies == IInv => ActiveWindow /\ BlankDuringSync
<1> SUFFICES ASSUME IInv PROVE ActiveWindow /\ BlankDuringSync
  OBVIOUS
<1>1. hactive => px_cnt # 0
  BY RasterAssumption DEF RasterAssumption, IInv, TypeOK, ColumnsTracked, Lag, Orders
<1>2. ActiveWindow
  BY <1>1, RasterAssumption
     DEF RasterAssumption, IInv, TypeOK, ColumnsTracked, RowsTracked, Lag,
         ActiveWindow, ScreenActive
<1> QED
  BY <1>2, RasterAssumption
     DEF RasterAssumption, IInv, TypeOK, ActiveWindow, BlankDuringSync, HSync,
         VSync, Lag

(* Type correctness, for every raster: both counters stay in their frame.  *)
THEOREM TypeCorrect == Spec => []TypeOK
<1>1. IInv => TypeOK
  BY DEF IInv
<1> QED
  BY InitInv, NextInv, <1>1, PTL DEF Spec

(* For every raster, every order of the two processes and any withdrawal   *)
(* of GO, the screen is active on exactly the intended rectangle.          *)
THEOREM WindowIsExact == Spec => []ActiveWindow
  BY InitInv, NextInv, InvImplies, PTL DEF Spec

(* For every raster, nothing is shown while a synchronisation pulse is low.*)
THEOREM SyncIsBlank == Spec => []BlankDuringSync
  BY InitInv, NextInv, InvImplies, PTL DEF Spec

(* For every raster, the lines of a frame follow each other in order.      *)
THEOREM LineOrder == Spec => LinesInOrder
<1>1. IInv /\ [Next]_vars
        => [line_cnt' # line_cnt =>
              /\ px_cnt = LineLast /\ px_cnt' = 0
              /\ line_cnt' = (line_cnt + 1) % (FrameLast + 1)]_vars
  <2> SUFFICES ASSUME IInv, Next, line_cnt' # line_cnt
               PROVE  /\ px_cnt = LineLast /\ px_cnt' = 0
                      /\ line_cnt' = (line_cnt + 1) % (FrameLast + 1)
    OBVIOUS
  <2>1. px_cnt' = NewPx /\ line_cnt' = NewLine
    BY DEF Next, Clk50, PxRise, PxFall, AssertReset, ReleaseReset, Counter
  <2>2. px_cnt = LineLast /\ px_cnt' = 0
    BY <2>1, CounterStep DEF IInv, NewPx, NewLine
  <2>3. line_cnt' = (line_cnt + 1) % (FrameLast + 1)
    <3>1. line_cnt' = IF line_cnt = FrameLast THEN 0 ELSE line_cnt + 1
      BY <2>1, <2>2, RasterAssumption DEF IInv, TypeOK, NewLine, RasterAssumption
    <3> QED
      BY <3>1, RasterAssumption DEF IInv, TypeOK, RasterAssumption
  <2> QED
    BY <2>2, <2>3
<1> QED
  BY InitInv, NextInv, <1>1, PTL DEF Spec, LinesInOrder
=============================================================================
