------------------------- MODULE VgaControllerProofs -------------------------
(***************************************************************************)
(* Proofs about the controller as a whole: a settled frame shows every     *)
(* pixel of its window, exactly, and the frames after it do so too; and no *)
(* word finds the FIFO full, if its size leaves room for its lags.         *)
(*                                                                         *)
(* The invariant of the picture, PictureInv, says where the pixel logic is *)
(* in terms of the raster (InPlace), that the words between it and the     *)
(* memory follow one another (InOrder), and that there are enough of them  *)
(* (Supplied).  The last is the point: the FIFO has to hold more words     *)
(* than rdempty may hide whatever the master is doing, and what the master *)
(* has to hold in each state is what makes that inductive.                 *)
(***************************************************************************)
EXTENDS VgaController, FiniteSetTheorems, Division, TLAPS

\* The theorems of the signal generator and of the read master, for those in the
\* controller.
S == INSTANCE VgaSignalsProofs WITH reset <- ~go
D == INSTANCE DmaReadMasterProofs WITH reset <- dma_reset

Pixels == HActLast - HActAfter

(***************************************************************************)
(* What a word is worth in time: the edges of clk50 in which its pixels    *)
(* are shown.                                                              *)
(***************************************************************************)
Worth(n) == 2 * PXPERREAD * n

(***************************************************************************)
(* The stock of a FIFO in use, in edges of clk50 until it would be empty:  *)
(* with Least there are more words than rdempty may hide, and with Target  *)
(* so many that the first word of the next burst comes before that.        *)
(***************************************************************************)
Least == Worth(RdLag + 1) + 3
Target == Least + Due(1) - 1

(***************************************************************************)
(* The sizes, for a memory with this latency and gap: a FIFO that is       *)
(* filled does not wrap; half a buffer of words is worth more than it      *)
(* takes to fetch it; the FIFO holds the target when the master sees no    *)
(* space for half a buffer; and the longest burst returns within a line.   *)
(* With 63 of 64 words, 5 pixels a word, lines of 800 and lags of up to 4  *)
(* edges that is a latency of 185, 123 or 61 edges for gaps of 4, 6 or 8.  *)
(***************************************************************************)
FastEnough ==
  /\ BUFFERWIDTH < DEPTH
  /\ GAP <= 2 * PXPERREAD
  /\ Worth(Dma!Half) > Due(Dma!Half)
  /\ Dma!Half >= WrLag /\ Worth(Dma!Half - WrLag) > Target
  /\ Due(BUFFERWIDTH) <= 2 * LineLast

Bit(b) == IF b THEN 1 ELSE 0
\* The words of a request that the bus has not accepted yet.
Asked == IF dma_state = "reading" THEN burstcount ELSE 0

\* The types, of each part; the raster with the invariant of VgaSignalsProofs.
Types ==
  /\ go \in BOOLEAN /\ px_due \in BOOLEAN
  /\ S!IInv
  /\ fifo \in Seq(Nat) /\ Dma!Hidden <= Len(fifo) /\ broken \in BOOLEAN
  /\ rdpipe \in [1 .. RdLag -> BOOLEAN] /\ wrpipe \in [0 .. WrLag -> BOOLEAN]
  /\ ctrl_fb_base \in Bases \cup {0} /\ frame_base \in Bases \cup {0}
  /\ dma_state \in Dma!States
  /\ address \in Nat /\ pending_reads \in 0 .. BUFFERWIDTH
  /\ burstcount \in {0, Dma!Half, BUFFERWIDTH}
  /\ dma_state = "reading" => burstcount # 0
  /\ inflight \in Seq(Nat) /\ popped \in Nat /\ clean \in BOOLEAN
  /\ vga_state \in {"idle", "running"} /\ pxcnt \in 0 .. PXPERREAD - 1
  /\ fifo_read \in BOOLEAN /\ age \in Nat /\ settled \in BOOLEAN

\* The FIFO has been cleared and not used since.
Cleared ==
  /\ fifo = <<>> /\ ~broken /\ popped = 0
  /\ \A i \in 1 .. RdLag : ~rdpipe[i]
  /\ \A i \in 0 .. WrLag : ~wrpipe[i]

\* The clocks, the window and what a reset leaves.
Wired ==
  /\ px_due => go /\ ~px_clk
  /\ ~go => ~px_clk
  /\ ~Sig!ScreenActive => vga_state = "idle" /\ pxcnt = 0
  /\ dma_reset => Cleared /\ dma_state = "idle"
  /\ settled => go

(***************************************************************************)
(* Time, in edges of clk50.  Three states make a period of px_clk: after   *)
(* it has risen, after it has fallen, and when it is about to rise again.  *)
(***************************************************************************)
Phase == IF px_clk THEN 0 ELSE IF px_due THEN 2 ELSE 1
Elapsed == 2 * px_cnt + Phase

\* Between two frames the words that were on the bus come back and are lost.
Drained ==
  /\ vga_state = "idle" /\ ~fifo_read /\ InTime
  /\ inflight # <<>> => /\ line_cnt = VSyncFirst /\ Elapsed <= age
                        /\ Len(inflight) <= burstcount

\* The lines of the window whose words have all been taken.
LinesDone ==
  IF line_cnt < VSyncFirst \/ line_cnt > VActLast THEN VActLast - VActAfter
  ELSE IF line_cnt <= VActAfter THEN 0
  ELSE IF px_cnt - Sig!Lag > HActLast THEN Row + 1
  ELSE Row

\* The pixel logic in the window: the pixel on the output, the word it belongs
\* to, and the read that takes this word from the FIFO, at its first pixel.
Shows(row, column) ==
  /\ vga_state = "running"
  /\ pxcnt = (column + 1) % PXPERREAD
  /\ fifo_read <=> column % PXPERREAD = 0
  /\ curr_segment = [word  |-> frame_base + row * WordsPerLine + column \div PXPERREAD,
                     shift |-> column % PXPERREAD]
  /\ popped = row * WordsPerLine + column \div PXPERREAD
              + (IF column % PXPERREAD = 0 THEN 0 ELSE 1)

\* The pixel logic outside of the window.
Rests(lines) ==
  /\ vga_state = "idle" /\ pxcnt = 0 /\ ~fifo_read
  /\ popped = lines * WordsPerLine

InPlace ==
  IF Sig!ScreenActive /\ Column >= 0 THEN Shows(Row, Column) ELSE Rests(LinesDone)

\* The words stored, on the bus and still to be asked for follow one another.
InOrder ==
  IF dma_state = "idle"
  THEN fifo = <<>> /\ inflight = <<>>
  ELSE /\ \A i \in 1 .. Len(fifo) : fifo[i] = frame_base + popped + i - 1
       /\ \A i \in 1 .. Len(inflight) : inflight[i] = frame_base + popped + Len(fifo) + i - 1
       /\ address = frame_base + popped + Len(fifo) + Len(inflight)

\* At most one request is on the bus, and pending_reads counts its words.
Pending ==
  /\ dma_state # "complete" => inflight = <<>>
  /\ dma_state \in {"reading", "complete"} => burstcount \in {Dma!Half, BUFFERWIDTH}
  /\ dma_state = "complete" => /\ inflight # <<>> /\ pending_reads = Len(inflight)
                              /\ Len(inflight) <= burstcount

\* The writer, who may count too many words, never counts more than it asked for.
Room == Len(fifo) + Dma!Late + Len(inflight) + Asked <= BUFFERWIDTH

\* Before the first burst has returned: within the line in which v_sync rises,
\* far from the window.
Starting ==
  /\ line_cnt = VSyncLimit
  /\ \A i \in 0 .. WrLag : ~wrpipe[i]
  /\ dma_state = "idle" => Elapsed = 0
  /\ dma_state = "nospace" => Elapsed = 1
  /\ dma_state \in {"reading", "complete"} => Elapsed = age + 2 /\ burstcount = BUFFERWIDTH
  /\ dma_state # "complete" => fifo = <<>> /\ \A i \in 1 .. RdLag : ~rdpipe[i]
  /\ dma_state = "complete" => Len(fifo) = BUFFERWIDTH - Len(inflight)

(***************************************************************************)
(* Afterwards the stock is never less than Least.  It is the time in which *)
(* the pixel logic takes the words stored, if it takes the next one as     *)
(* early as it can, in NextPop edges of px_clk.  It falls by one at most   *)
(* at an edge of clk50, not at all at an edge of px_clk, and rises by what *)
(* a word is worth when one arrives: so it can be compared with the age of *)
(* the burst under way.                                                    *)
(***************************************************************************)
NextPop == IF fifo_read THEN 1 ELSE IF pxcnt = 0 THEN 2 ELSE PXPERREAD - pxcnt + 2
Stock == Worth(Len(fifo)) + 2 * NextPop - Phase
Supplied ==
  /\ dma_state # "idle" /\ Stock >= Least
  /\ dma_state = "nospace" => Stock > Target
  /\ dma_state = "reading" => Stock >= Target - age
  /\ dma_state = "complete" => Stock >= Target - age + Worth(burstcount - Len(inflight))

\* A frame that is shown as it should be.
Flow == InOrder /\ Pending /\ Room /\ InTime /\ (Starting \/ Supplied)
Served == clean /\ ~broken /\ InPlace /\ Flow

(***************************************************************************)
(* The output carries a pixel at every period of the window but the first  *)
(* of each line, and at no other.  So the pixels PictureExact speaks of    *)
(* are all shown, in every line, except for the last one of the line.      *)
(***************************************************************************)
WindowFilled ==
  settled => /\ vga_state = "running" <=> Sig!ScreenActive /\ Column >= 0
             /\ vga_state = "running" =>
                  /\ Column \in 0 .. Pixels - 2
                  /\ Row \in 0 .. (VActLast - VActAfter - 1)

(***************************************************************************)
(* In a settled frame the FIFO is neither overrun nor run dry: there is    *)
(* never more in it, or on its way to it, than BUFFERWIDTH words.          *)
(***************************************************************************)
SettledFits ==
  settled /\ ~dma_reset => ~broken /\ Len(fifo) + Len(inflight) <= BUFFERWIDTH

\* The inductive invariant of the picture.
PictureInv ==
  /\ Types /\ Wired
  /\ settled => IF dma_reset THEN Drained ELSE Served

-----------------------------------------------------------------------------
(* The parameters.                                                         *)
LEMMA Raster ==
  /\ LineLast \in Nat /\ FrameLast \in Nat
  /\ HActAfter \in Nat /\ HActLast \in Nat /\ HActAfter < HActLast /\ HActLast < LineLast
  /\ VSyncFirst \in Nat /\ VSyncLimit \in Nat /\ VSyncFirst < VSyncLimit
  /\ VActAfter \in Nat /\ VActLast \in Nat
  /\ VSyncLimit <= VActAfter /\ VActAfter < VActLast /\ VActLast <= FrameLast
BY ControllerAssumption DEF Sig!RasterAssumption

(* The FIFO, the bursts and the memory.                                    *)
LEMMA Buffers ==
  /\ DEPTH \in Nat \ {0} /\ RdLag \in Nat /\ WrLag \in Nat
  /\ BUFFERWIDTH \in Nat /\ BUFFERWIDTH >= 2
  /\ MaxInflight \in Nat /\ MaxInflight >= BUFFERWIDTH
  /\ MaxAddress \in Nat /\ Bases \subseteq Nat
  /\ Dma!Half \in Nat /\ Dma!Half > 0 /\ 2 * Dma!Half <= BUFFERWIDTH
BY ControllerAssumption DEF Dma!FifoAssumption, Dma!DmaAssumption, Dma!Half

(* A line is WordsPerLine words of PXPERREAD pixels.                       *)
LEMMA Words ==
  /\ PXPERREAD \in Nat /\ PXPERREAD >= 2
  /\ WordsPerLine \in Nat \ {0} /\ Pixels = PXPERREAD * WordsPerLine
<1>1. PXPERREAD \in Nat /\ PXPERREAD >= 2 /\ Pixels % PXPERREAD = 0
  BY PxAssumption DEF PxAssumption, Pixels
<1>2. Pixels \in Nat \ {0}
  BY Raster DEF Pixels
<1>3. /\ Pixels = PXPERREAD * (Pixels \div PXPERREAD) + (Pixels % PXPERREAD)
      /\ Pixels \div PXPERREAD \in Nat
  BY <1>1, <1>2, DivMod
<1>4. WordsPerLine = Pixels \div PXPERREAD
  BY DEF WordsPerLine, Pixels
<1> QED
  BY <1>1, <1>2, <1>3, <1>4

(* Words and the time they take.                                           *)
LEMMA Paces ==
  ASSUME NEW n \in Nat, NEW m \in Nat, n <= m
  PROVE  /\ Worth(n) \in Nat /\ Worth(n) <= Worth(m)
         /\ Worth(n + 1) = Worth(n) + 2 * PXPERREAD /\ Worth(0) = 0
         /\ Due(n) \in Nat /\ Due(n) <= Due(m)
         /\ Due(n + 1) = Due(n) + GAP /\ Due(0) = LATENCY
         /\ GAP <= 2 * PXPERREAD => Worth(n) - Due(n) <= Worth(m) - Due(m)
<1>1. PXPERREAD \in Nat /\ GAP \in Nat /\ LATENCY \in Nat
  BY Words, MemoryAssumption
<1>2. /\ Worth(n) \in Nat /\ Worth(m) \in Nat /\ Due(n) \in Nat /\ Due(m) \in Nat
      /\ Worth(n + 1) = Worth(n) + 2 * PXPERREAD /\ Worth(0) = 0
      /\ Due(n + 1) = Due(n) + GAP /\ Due(0) = LATENCY
  BY <1>1 DEF Worth, Due
<1>3. PICK d \in Nat : m = n + d
  <2>1. m - n \in Nat /\ m = n + (m - n)
    OBVIOUS
  <2> QED
    BY <2>1
<1>4. Worth(m) = Worth(n) + 2 * PXPERREAD * d /\ Due(m) = Due(n) + GAP * d
  BY <1>1, <1>3 DEF Worth, Due
<1>5. 2 * PXPERREAD * d \in Nat /\ GAP * d \in Nat
  BY <1>1
<1>6. GAP <= 2 * PXPERREAD => GAP * d <= 2 * PXPERREAD * d
  BY <1>1
<1> QED
  BY <1>2, <1>4, <1>5, <1>6

-----------------------------------------------------------------------------
(* The FIFO counts as this module does.                                    *)
LEMMA SameCardinality ==
  ASSUME NEW A PROVE Dma!Cardinality(A) = Cardinality(A)
BY Zenon DEF Dma!Cardinality, Cardinality

(* Hidden words and late reads are the registers that are set, before and  *)
(* after a step.                                                           *)
LEMMA Counted ==
  /\ Dma!Hidden = Cardinality({i \in 1..RdLag : rdpipe[i]})
  /\ Dma!Hidden' = Cardinality({i \in 1..RdLag : rdpipe'[i]})
  /\ Dma!Late = Cardinality({i \in 0..WrLag : wrpipe[i]})
  /\ Dma!Late' = Cardinality({i \in 0..WrLag : wrpipe'[i]})
BY SameCardinality, Zenon DEF Dma!Hidden, Dma!Late

(* The two pipes of registers are finite.                                  *)
LEMMA Intervals ==
  /\ IsFiniteSet(1..RdLag) /\ Cardinality(1..RdLag) = RdLag
  /\ IsFiniteSet(0..WrLag) /\ Cardinality(0..WrLag) = WrLag + 1
<1>1. IsFiniteSet(1..RdLag) /\ Cardinality(1..RdLag) = RdLag
  BY FS_Interval, Buffers
<1>2. IsFiniteSet(0..WrLag) /\ Cardinality(0..WrLag) = WrLag + 1
  BY FS_Interval, Buffers
<1> QED
  BY <1>1, <1>2

(* How much the two sides of the FIFO are wrong about it.                  *)
LEMMA HiddenBound == Dma!Hidden \in 0 .. RdLag
<1> DEFINE A == {i \in 1..RdLag : rdpipe[i]}
<1>1. A \in SUBSET (1..RdLag)
  OBVIOUS
<1> HIDE DEF A
<1>2. IsFiniteSet(A) /\ Cardinality(A) <= RdLag
  BY <1>1, Intervals, FS_Subset
<1>3. Cardinality(A) \in Nat
  BY <1>2, FS_CardinalityType
<1> QED
  BY <1>2, <1>3, Counted, Buffers DEF A

(* The same of the reads the writer does not know of.                      *)
LEMMA LateBound == Dma!Late \in 0 .. (WrLag + 1)
<1> DEFINE A == {i \in 0..WrLag : wrpipe[i]}
<1>1. A \in SUBSET (0..WrLag)
  OBVIOUS
<1> HIDE DEF A
<1>2. IsFiniteSet(A) /\ Cardinality(A) <= WrLag + 1
  BY <1>1, Intervals, FS_Subset
<1>3. Cardinality(A) \in Nat
  BY <1>2, FS_CardinalityType
<1> QED
  BY <1>2, <1>3, Counted, Buffers DEF A

(* Nothing on its way, nothing unknown.                                    *)
LEMMA NothingHidden == (\A i \in 1 .. RdLag : ~rdpipe[i]) => Dma!Hidden = 0
<1> SUFFICES ASSUME \A i \in 1 .. RdLag : ~rdpipe[i] PROVE Dma!Hidden = 0
  OBVIOUS
<1>1. {i \in 1..RdLag : rdpipe[i]} = {}
  OBVIOUS
<1> QED
  BY <1>1, FS_EmptySet, Counted

(* The same of the reads.                                                  *)
LEMMA NothingLate == (\A i \in 0 .. WrLag : ~wrpipe[i]) => Dma!Late = 0
<1> SUFFICES ASSUME \A i \in 0 .. WrLag : ~wrpipe[i] PROVE Dma!Late = 0
  OBVIOUS
<1>1. {i \in 0..WrLag : wrpipe[i]} = {}
  OBVIOUS
<1> QED
  BY <1>1, FS_EmptySet, Counted

(* An edge of clk50 never makes the writer know less ...                   *)
LEMMA LateFalls ==
  ASSUME NEW ws, Dma!FifoWrClk(ws)
  PROVE  Dma!Late' \in Nat /\ Dma!Late' <= Dma!Late
<1> DEFINE A == {i \in 0..WrLag : wrpipe[i]}
           B == {i \in 0..WrLag : wrpipe'[i]}
           before == [i \in B |-> i - 1]
<1>1. A \in SUBSET (0..WrLag) /\ B \in SUBSET (0..WrLag)
  OBVIOUS
<1>2. \A i \in B : i - 1 \in A
  <2> SUFFICES ASSUME NEW i \in 0..WrLag, wrpipe'[i]
               PROVE  i - 1 \in 0..WrLag /\ wrpipe[i - 1]
    OBVIOUS
  <2>1. i > 0 /\ wrpipe[i - 1]
    BY DEF Dma!FifoWrClk
  <2> QED
    BY <2>1, Buffers
<1>3. Dma!Late = Cardinality(A) /\ Dma!Late' = Cardinality(B)
  BY Counted
<1> HIDE DEF A, B
<1>4. before \in Injection(B, A)
  <2>1. \A i, j \in B : before[i] = before[j] => i = j
    BY <1>1, Buffers
  <2>2. before \in [B -> A]
    BY <1>2
  <2> QED
    BY <2>1, <2>2 DEF Injection, IsInjective
<1>5. IsFiniteSet(A) /\ IsFiniteSet(B)
  BY <1>1, Intervals, FS_Subset
<1>6. Cardinality(B) <= Cardinality(A)
  BY <1>4, <1>5, FS_Injection
<1>7. Cardinality(B) \in Nat
  BY <1>5, FS_CardinalityType
<1> QED
  BY <1>3, <1>6, <1>7

(* ... and a read, one word less.                                          *)
LEMMA LateRises ==
  ASSUME Dma!FifoRead
  PROVE  Dma!Late' \in Nat /\ Dma!Late' <= Dma!Late + 1
<1> DEFINE A == {i \in 0..WrLag : wrpipe[i]}
           B == {i \in 0..WrLag : wrpipe'[i]}
<1>1. A \in SUBSET (0..WrLag) /\ B \in SUBSET (0..WrLag)
  OBVIOUS
<1>2. B \in SUBSET (A \cup {0})
  BY DEF Dma!FifoRead
<1>3. Dma!Late = Cardinality(A) /\ Dma!Late' = Cardinality(B)
  BY Counted
<1> HIDE DEF A, B
<1>4. IsFiniteSet(A) /\ IsFiniteSet(B)
  BY <1>1, Intervals, FS_Subset
<1>5. /\ IsFiniteSet(A \cup {0})
      /\ Cardinality(A \cup {0}) = IF 0 \in A THEN Cardinality(A) ELSE Cardinality(A) + 1
  BY <1>4, FS_AddElement
<1>6. Cardinality(B) <= Cardinality(A \cup {0})
  BY <1>2, <1>5, FS_Subset
<1>7. Cardinality(A) \in Nat /\ Cardinality(B) \in Nat
  BY <1>4, FS_CardinalityType
<1> QED
  BY <1>3, <1>5, <1>6, <1>7

(* A word that is written is hidden; none becomes hidden otherwise.        *)
LEMMA HiddenRises ==
  ASSUME NEW ws, Dma!FifoWrClk(ws)
  PROVE  /\ Dma!Hidden' \in Nat
         /\ Dma!Hidden' <= Dma!Hidden + (IF ws = <<>> THEN 0 ELSE 1)
         /\ broken' => Dma!Hidden' = 0
<1> DEFINE A == {i \in 1..RdLag : rdpipe[i]}
           B == {i \in 1..RdLag : rdpipe'[i]}
           C == B \ {1}
           before == [i \in C |-> i - 1]
<1>1. A \in SUBSET (1..RdLag) /\ B \in SUBSET (1..RdLag)
  OBVIOUS
<1>2. \A i \in C : i - 1 \in A
  <2> SUFFICES ASSUME NEW i \in 1..RdLag, rdpipe'[i], i # 1
               PROVE  i - 1 \in 1..RdLag /\ rdpipe[i - 1]
    OBVIOUS
  <2>1. rdpipe[i - 1]
    BY DEF Dma!FifoWrClk
  <2> QED
    BY <2>1, Buffers
<1>3. Dma!Hidden = Cardinality(A) /\ Dma!Hidden' = Cardinality(B)
  BY Counted
<1>4. ws = <<>> => 1 \notin B
  BY DEF Dma!FifoWrClk
<1>5. broken' => B = {}
  BY DEF Dma!FifoWrClk
<1> HIDE DEF A, B
<1>6. before \in Injection(C, A)
  <2>1. \A i, j \in C : before[i] = before[j] => i = j
    BY <1>1, Buffers
  <2>2. before \in [C -> A]
    BY <1>2
  <2> QED
    BY <2>1, <2>2 DEF Injection, IsInjective
<1>7. IsFiniteSet(A) /\ IsFiniteSet(B) /\ IsFiniteSet(C)
  BY <1>1, Intervals, FS_Subset
<1>8. Cardinality(A) \in Nat /\ Cardinality(B) \in Nat /\ Cardinality(C) \in Nat
  BY <1>7, FS_CardinalityType
<1>9. Cardinality(C) <= Cardinality(A)
  BY <1>6, <1>7, FS_Injection
<1>10. Cardinality(C) = IF 1 \in B THEN Cardinality(B) - 1 ELSE Cardinality(B)
  BY <1>7, FS_RemoveElement
<1>11. broken' => Cardinality(B) = 0
  BY <1>5, FS_EmptySet
<1> HIDE DEF C
<1> QED
  BY <1>3, <1>4, <1>8, <1>9, <1>10, <1>11

(* A read hides nothing and shows nothing: only the stored words fall.     *)
LEMMA HiddenStays ==
  ASSUME Dma!FifoRead
  PROVE  Dma!Hidden' = IF broken' THEN 0 ELSE Dma!Hidden
<1>1. broken' => {i \in 1..RdLag : rdpipe'[i]} = {}
  BY DEF Dma!FifoRead
<1>2. ~broken' => {i \in 1..RdLag : rdpipe'[i]} = {i \in 1..RdLag : rdpipe[i]}
  BY DEF Dma!FifoRead
<1> QED
  BY <1>1, <1>2, FS_EmptySet, Counted

-----------------------------------------------------------------------------
(* The signal generator in the controller takes its own steps, or none.    *)
LEMMA SignalStep == S!IInv /\ [Next]_vars => S!IInv'
<1> SUFFICES ASSUME S!IInv, [Next]_vars PROVE S!IInv'
  OBVIOUS
<1>0. S!RasterAssumption
  BY ControllerAssumption DEF Sig!RasterAssumption, S!RasterAssumption
<1>1. CASE Clk50Edge
  <2>1. /\ UNCHANGED <<go, px_cnt, line_cnt, hactive, vactive, order>>
        /\ px_clk' = FALSE
    BY <1>1 DEF Clk50Edge
  <2> QED
    BY <2>1 DEF S!IInv, S!TypeOK, S!ColumnsTracked, S!RowsTracked, S!Lag
<1>2. CASE PxEdge
  <2>1. S!PxRise
    BY <1>2 DEF PxEdge, Sig!PxRise, S!PxRise, Sig!Counter, S!Counter, Sig!Sync, S!Sync,
                Sig!NewPx, S!NewPx, Sig!NewLine, S!NewLine
  <2> QED
    BY <1>0, <2>1, S!NextInv DEF S!Next, S!Clk50
<1>3. CASE SetGo
  <2>1. S!ReleaseReset
    BY <1>3 DEF SetGo, Sig!ReleaseReset, S!ReleaseReset
  <2> QED
    BY <1>0, <2>1, S!NextInv DEF S!Next
<1>4. CASE ClearGo
  <2>1. S!AssertReset
    BY <1>4 DEF ClearGo, Sig!AssertReset, S!AssertReset
  <2> QED
    BY <1>0, <2>1, S!NextInv DEF S!Next
<1>5. CASE WriteBase \/ UNCHANGED vars
  <2>1. UNCHANGED <<go, px_clk, px_cnt, line_cnt, hactive, vactive, order>>
    BY <1>5 DEF WriteBase, vars, sigVars
  <2> QED
    BY <2>1 DEF S!IInv, S!TypeOK, S!ColumnsTracked, S!RowsTracked, S!Lag
<1> QED
  BY <1>1, <1>2, <1>3, <1>4, <1>5 DEF Next

(* What the rest of the controller needs to know of the raster.            *)
Where ==
  /\ px_cnt \in 0 .. LineLast /\ line_cnt \in 0 .. FrameLast
  /\ px_clk \in BOOLEAN /\ order \in Sig!Orders /\ Sig!Lag \in {0, 1}
  /\ Sig!ScreenActive \in BOOLEAN /\ Sig!VSync \in BOOLEAN
  /\ Sig!ScreenActive => Sig!VSync
  /\ Sig!ActiveWindow

(* The invariant of the signal generator gives all of it.                  *)
LEMMA Position == S!IInv => Where
<1> SUFFICES ASSUME S!IInv PROVE Where
  OBVIOUS
<1>0. S!RasterAssumption
  BY ControllerAssumption DEF Sig!RasterAssumption, S!RasterAssumption
<1>1. S!ActiveWindow /\ S!BlankDuringSync
  BY <1>0, S!InvImplies
<1>2. /\ Sig!ActiveWindow
      /\ Sig!ScreenActive => Sig!VSync
  BY <1>1 DEF S!ActiveWindow, Sig!ActiveWindow, S!BlankDuringSync, S!ScreenActive,
              Sig!ScreenActive, S!VSync, Sig!VSync, S!Lag, Sig!Lag
<1>3. /\ px_cnt \in 0 .. LineLast /\ line_cnt \in 0 .. FrameLast
      /\ px_clk \in BOOLEAN /\ order \in Sig!Orders
      /\ hactive \in BOOLEAN /\ vactive \in BOOLEAN
  BY DEF S!IInv, S!TypeOK, S!Orders, Sig!Orders
<1>4. Sig!Lag \in {0, 1} /\ Sig!ScreenActive \in BOOLEAN /\ Sig!VSync \in BOOLEAN
  BY <1>3 DEF Sig!Lag, Sig!ScreenActive, Sig!VSync
<1> QED
  BY <1>2, <1>3, <1>4 DEF Where

(* The next pixel period is the next on this line, or the first of the next.*)
PxMoves ==
  /\ go /\ go' /\ ~px_clk /\ px_clk' /\ px_due /\ ~px_due' /\ age' = age
  /\ Sig!Lag' = Sig!Lag
  /\ \/ px_cnt < LineLast /\ px_cnt' = px_cnt + 1 /\ line_cnt' = line_cnt
     \/ /\ px_cnt = LineLast /\ px_cnt' = 0
        /\ line_cnt' = IF line_cnt = FrameLast THEN 0 ELSE line_cnt + 1
  /\ Where /\ Where'

(* An edge of the pixel clock is one step of the raster.                   *)
LEMMA PxPosition ==
  ASSUME S!IInv, PxEdge
  PROVE  PxMoves
<1>1. S!IInv'
  BY SignalStep DEF Next
<1>2. Where
  BY Position
<1>3. Where'
  BY <1>1, Position, PTL
<1>4. /\ px_due /\ ~px_due' /\ go' = go /\ age' = age
      /\ Sig!PxRise
  BY DEF PxEdge
<1>5. /\ go /\ ~px_clk /\ px_clk' /\ order' = order
      /\ px_cnt' = Sig!NewPx /\ line_cnt' = Sig!NewLine
  BY <1>4 DEF Sig!PxRise, Sig!Counter
<1>6. \/ px_cnt < LineLast /\ px_cnt' = px_cnt + 1 /\ line_cnt' = line_cnt
      \/ /\ px_cnt = LineLast /\ px_cnt' = 0
         /\ line_cnt' = IF line_cnt = FrameLast THEN 0 ELSE line_cnt + 1
  BY <1>2, <1>5, Raster DEF Where, Sig!NewPx, Sig!NewLine
<1>7. Sig!Lag' = Sig!Lag
  BY <1>5 DEF Sig!Lag
<1> QED
  BY <1>2, <1>3, <1>4, <1>5, <1>6, <1>7 DEF PxMoves

-----------------------------------------------------------------------------
(* Types.                                                                  *)
LEMMA InitTypes == Init => Types
<1> SUFFICES ASSUME Init PROVE Types
  OBVIOUS
<1>1. S!IInv
  <2>1. S!Init
    BY DEF Init, Sig!Init, S!Init, Sig!Orders, S!Orders
  <2> QED
    BY <2>1, S!InitInv, ControllerAssumption DEF Sig!RasterAssumption, S!RasterAssumption
<1>2. /\ rdpipe \in [1..RdLag -> BOOLEAN] /\ wrpipe \in [0..WrLag -> BOOLEAN]
      /\ fifo \in Seq(Nat) /\ inflight \in Seq(Nat) /\ broken = FALSE
  BY DEF Init, Dma!FifoInit
<1>5. Dma!Hidden <= Len(fifo)
  <2>1. \A i \in 1..RdLag : ~rdpipe[i]
    BY DEF Init, Dma!FifoInit
  <2> QED
    BY <1>2, <2>1, NothingHidden
<1>3. pxcnt \in 0 .. PXPERREAD - 1 /\ vga_state = "idle" /\ fifo_read = FALSE
  BY Words DEF Init, Vga!VgaInit
<1>4. /\ address \in Nat /\ pending_reads \in 0 .. BUFFERWIDTH /\ popped \in Nat
      /\ burstcount = 0 /\ dma_state = "idle" /\ clean = TRUE
      /\ ctrl_fb_base = 0 /\ frame_base = 0 /\ go = FALSE /\ px_due = FALSE
      /\ settled = FALSE /\ age = 0
  BY Buffers DEF Init
<1> QED
  BY <1>1, <1>2, <1>3, <1>4, <1>5 DEF Types, Dma!States

(* What an edge of clk50 does to the FIFO and its pipes.                   *)
LEMMA WrClkTypes ==
  ASSUME Types, NEW ws \in Seq(Nat), Dma!FifoWrClk(ws)
  PROVE  /\ fifo' \in Seq(Nat) /\ broken' \in BOOLEAN /\ Dma!Hidden' <= Len(fifo')
         /\ rdpipe' \in [1..RdLag -> BOOLEAN] /\ wrpipe' \in [0..WrLag -> BOOLEAN]
<1>1. broken' \in BOOLEAN /\ fifo' \in Seq(Nat)
  BY DEF Types, Dma!FifoWrClk
<1>2. rdpipe' \in [1..RdLag -> BOOLEAN]
  <2>1. \A i \in 1..RdLag : i # 1 => rdpipe[i - 1] \in BOOLEAN
    BY Buffers DEF Types
  <2>2. \A i \in 1..RdLag :
          (~broken' /\ IF i = 1 THEN ws # <<>> ELSE rdpipe[i - 1]) \in BOOLEAN
    BY <1>1, <2>1
  <2> QED
    BY <2>2, Zenon DEF Dma!FifoWrClk
<1>3. wrpipe' \in [0..WrLag -> BOOLEAN]
  <2>2. \A i \in 0..WrLag : (~broken' /\ i > 0 /\ wrpipe[i - 1]) \in BOOLEAN
    BY Zenon
  <2> QED
    BY <2>2, Zenon DEF Dma!FifoWrClk
<1>4. Dma!Hidden' <= Len(fifo')
  <2>1. fifo \in Seq(Nat) /\ Dma!Hidden <= Len(fifo) /\ Dma!Hidden \in Nat
    BY HiddenBound, Buffers DEF Types
  <2>2. fifo' = IF broken' THEN <<>> ELSE fifo \o ws
    BY DEF Dma!FifoWrClk
  <2>3. ws # <<>> => Len(ws) >= 1
    OBVIOUS
  <2> QED
    BY <2>1, <2>2, <2>3, HiddenRises
<1> QED
  BY <1>1, <1>2, <1>3, <1>4

(* What an edge takes from the bus.                                        *)
LEMMA BeatRest ==
  ASSUME Types, NEW valid \in BOOLEAN, valid => inflight # <<>>
  PROVE  /\ Dma!Beat(valid) \in Seq(Nat) /\ Dma!Rest(valid) \in Seq(Nat)
         /\ Len(Dma!Beat(valid)) = Bit(valid)
         /\ Len(Dma!Rest(valid)) = Len(inflight) - Bit(valid)
         /\ \A i \in 1..Len(Dma!Rest(valid)) :
              Dma!Rest(valid)[i] = inflight[Bit(valid) + i]
<1>1. inflight \in Seq(Nat)
  BY DEF Types
<1>2. CASE valid
  BY <1>1, <1>2 DEF Dma!Beat, Dma!Rest, Bit
<1>3. CASE ~valid
  BY <1>1, <1>3 DEF Dma!Beat, Dma!Rest, Bit
<1> QED
  BY <1>2, <1>3

(* An edge of clk50 keeps the types of the read master and its FIFO.       *)
LEMMA EdgeTypes ==
  ASSUME Types, NEW valid \in BOOLEAN, Dma!Clk50(valid)
  PROVE  /\ fifo' \in Seq(Nat) /\ broken' \in BOOLEAN /\ Dma!Hidden' <= Len(fifo')
         /\ rdpipe' \in [1..RdLag -> BOOLEAN] /\ wrpipe' \in [0..WrLag -> BOOLEAN]
         /\ ctrl_fb_base' = ctrl_fb_base /\ frame_base' \in Bases \cup {0}
         /\ dma_state' \in Dma!States /\ address' \in Nat /\ pending_reads' \in 0 .. BUFFERWIDTH
         /\ burstcount' \in {0, Dma!Half, BUFFERWIDTH}
         /\ dma_state' = "reading" => burstcount' # 0
         /\ inflight' \in Seq(Nat) /\ popped' = popped /\ clean' = clean
<1>1. Dma!EveryEdge(valid)
  BY DEF Dma!Clk50, Dma!Idle, Dma!NoSpace, Dma!ReadingWaits, Dma!ReadingAccepted, Dma!Complete
<1>2. valid => inflight # <<>>
  BY <1>1 DEF Dma!EveryEdge
<1>3. Dma!Beat(valid) \in Seq(Nat) /\ Dma!Rest(valid) \in Seq(Nat)
  BY <1>2, BeatRest
<1>4. /\ fifo' \in Seq(Nat) /\ broken' \in BOOLEAN /\ Dma!Hidden' <= Len(fifo')
      /\ rdpipe' \in [1..RdLag -> BOOLEAN] /\ wrpipe' \in [0..WrLag -> BOOLEAN]
      /\ ctrl_fb_base' = ctrl_fb_base /\ popped' = popped /\ clean' = clean
  BY <1>1, <1>3, WrClkTypes DEF Dma!EveryEdge
<1>5. Dma!Decremented(valid) \in 0 .. BUFFERWIDTH
  BY Buffers DEF Types, Dma!Decremented
<1>6. BUFFERWIDTH # 0 /\ Dma!Half # 0 /\ Dma!Half \in Nat /\ BUFFERWIDTH \in Nat
      /\ Dma!Half <= BUFFERWIDTH
  BY Buffers
<1>7. CASE Dma!Idle(valid)
  <2>1. ctrl_fb_base \in Nat
    BY Buffers DEF Types
  <2> QED
    BY <1>3, <1>4, <1>5, <1>6, <1>7, <2>1 DEF Dma!Idle, Types, Dma!States
<1>11. CASE Dma!ReadingWaits(valid)
  BY <1>3, <1>4, <1>5, <1>6, <1>11 DEF Dma!ReadingWaits, Types, Dma!States
<1>8. CASE Dma!NoSpace(valid)
  BY <1>3, <1>4, <1>5, <1>6, <1>8 DEF Dma!NoSpace, Types, Dma!States
<1>9. CASE Dma!Complete(valid)
  BY <1>3, <1>4, <1>5, <1>6, <1>9 DEF Dma!Complete, Types, Dma!States
<1>10. CASE Dma!ReadingAccepted(valid)
  <2>1. burstcount \in Nat /\ burstcount # 0 /\ burstcount <= BUFFERWIDTH /\ address \in Nat
    BY <1>10, <1>6 DEF Dma!ReadingAccepted, Types
  <2>2. Dma!Burst(address, burstcount) \in Seq(Nat)
    BY <2>1 DEF Dma!Burst
  <2>3. inflight' \in Seq(Nat)
    BY <1>10, <1>3, <2>2 DEF Dma!ReadingAccepted
  <2>4. pending_reads' \in 0 .. BUFFERWIDTH /\ address' \in Nat
    BY <1>10, <1>6, <2>1 DEF Dma!ReadingAccepted
  <2> QED
    BY <1>4, <1>10, <2>3, <2>4 DEF Dma!ReadingAccepted, Types, Dma!States
<1> QED
  BY <1>7, <1>8, <1>9, <1>10, <1>11 DEF Dma!Clk50

(* What an edge of the pixel clock does to the FIFO.                       *)
LEMMA ReadTypes ==
  ASSUME Types, Dma!FifoRead
  PROVE  /\ fifo' \in Seq(Nat) /\ broken' \in BOOLEAN /\ Dma!Hidden' <= Len(fifo')
         /\ rdpipe' \in [1..RdLag -> BOOLEAN] /\ wrpipe' \in [0..WrLag -> BOOLEAN]
<1>1. fifo \in Seq(Nat) /\ Dma!Hidden <= Len(fifo) /\ Dma!Hidden \in Nat
  BY HiddenBound, Buffers DEF Types
<1>2. /\ broken' = (broken \/ Len(fifo) = Dma!Hidden)
      /\ fifo' = IF broken' THEN <<>> ELSE Tail(fifo)
  BY DEF Dma!FifoRead
<1>3. broken' \in BOOLEAN
  BY <1>2, Zenon DEF Types
<1>4. fifo' \in Seq(Nat) /\ Dma!Hidden' <= Len(fifo')
  <2>1. CASE broken'
    BY <1>2, <2>1, HiddenStays
  <2>2. CASE ~broken'
    <3>1. Len(fifo) > Dma!Hidden /\ fifo' = Tail(fifo) /\ Dma!Hidden' = Dma!Hidden
      <4>1. Dma!Hidden' = Dma!Hidden
        BY <2>2, HiddenStays
      <4>2. Len(fifo) # Dma!Hidden /\ fifo' = Tail(fifo)
        BY <1>2, <2>2, Zenon
      <4> QED
        BY <1>1, <4>1, <4>2
    <3> QED
      BY <1>1, <3>1
  <2> QED
    BY <2>1, <2>2
<1>5. rdpipe' \in [1..RdLag -> BOOLEAN] /\ wrpipe' \in [0..WrLag -> BOOLEAN]
  BY Zenon, <1>3 DEF Types, Dma!FifoRead
<1> QED
  BY <1>3, <1>4, <1>5

(* What the pixel logic does at an edge.                                   *)
LEMMA VgaTypes ==
  ASSUME Types, NEW act, NEW blank \in BOOLEAN, NEW empty, NEW q,
         Vga!VgaEdge(act, blank, empty, q)
  PROVE  /\ vga_state' \in {"idle", "running"} /\ pxcnt' \in 0 .. PXPERREAD - 1
         /\ fifo_read' \in BOOLEAN
         /\ ~act \/ blank => vga_state' = "idle" /\ pxcnt' = 0
<1>1. pxcnt \in 0 .. PXPERREAD - 1 /\ fifo_read \in BOOLEAN
  BY DEF Types
<1>2. /\ 0 \in 0 .. PXPERREAD - 1 /\ 1 \in 0 .. PXPERREAD - 1
      /\ (IF pxcnt < PXPERREAD - 1 THEN pxcnt + 1 ELSE 0) \in 0 .. PXPERREAD - 1
  BY <1>1, Words
<1> QED
  BY <1>1, <1>2, Zenon DEF Vga!VgaEdge, Vga!LoadSegment, Vga!AwaitWord, Vga!ShiftSegment, Vga!Advance

(* Types, for each part of the controller.                                 *)
LEMMA ReadSideTypes ==
  ASSUME Types, ReadSide
  PROVE  /\ fifo' \in Seq(Nat) /\ Dma!Hidden' <= Len(fifo') /\ broken' \in BOOLEAN
         /\ rdpipe' \in [1..RdLag -> BOOLEAN] /\ wrpipe' \in [0..WrLag -> BOOLEAN]
         /\ ctrl_fb_base' = ctrl_fb_base /\ frame_base' = frame_base
         /\ dma_state' \in Dma!States /\ address' \in Nat /\ pending_reads' \in 0 .. BUFFERWIDTH
         /\ burstcount' = burstcount /\ dma_state' \in {dma_state, "idle"}
         /\ inflight' \in Seq(Nat) /\ popped' \in Nat /\ clean' \in BOOLEAN
<1>1. CASE Dma!FifoRead /\ popped' = (IF broken' THEN popped ELSE popped + 1)
           /\ UNCHANGED <<ctrl_fb_base, dma_state, address, pending_reads, burstcount,
                          inflight, frame_base, clean>>
  <2>1. popped' \in Nat
    BY <1>1 DEF Types
  <2> QED
    BY <1>1, <2>1, ReadTypes DEF Types
<1>2. CASE UNCHANGED dmaVars
  <2>1. Dma!Hidden' = Dma!Hidden
    BY <1>2 DEF dmaVars, Dma!Hidden
  <2> QED
    BY <1>2, <2>1 DEF Types, dmaVars
<1>3. CASE Dma!AssertReset
  <2>1. /\ fifo' = <<>> /\ broken' = FALSE /\ popped' = 0 /\ pending_reads' = 0
        /\ address' = ctrl_fb_base /\ dma_state' = "idle"
        /\ UNCHANGED <<ctrl_fb_base, burstcount, inflight, frame_base, clean>>
        /\ rdpipe' = [i \in 1..RdLag |-> FALSE] /\ wrpipe' = [i \in 0..WrLag |-> FALSE]
    BY <1>3 DEF Dma!AssertReset, Dma!FifoClear
  <2>2. {i \in 1..RdLag : rdpipe'[i]} = {}
    BY <2>1
  <2>3. Dma!Hidden' = 0
    BY <2>2, Counted, FS_EmptySet
  <2>4. rdpipe' \in [1..RdLag -> BOOLEAN] /\ wrpipe' \in [0..WrLag -> BOOLEAN]
    BY <2>1
  <2>5. address' \in Nat
    BY <2>1, Buffers DEF Types
  <2>6. /\ fifo' \in Seq(Nat) /\ Dma!Hidden' <= Len(fifo') /\ broken' \in BOOLEAN
        /\ pending_reads' \in 0 .. BUFFERWIDTH /\ popped' \in Nat
    <3>1. 0 \in 0 .. BUFFERWIDTH /\ <<>> \in Seq(Nat) /\ 0 <= Len(<<>>)
      BY Buffers
    <3>2. Dma!Hidden' <= Len(fifo')
      BY <2>1, <2>3, <3>1, Zenon
    <3>3. fifo' \in Seq(Nat) /\ broken' \in BOOLEAN
      BY <2>1, <3>1, Zenon
    <3> QED
      BY <2>1, <3>1, <3>2, <3>3
  <2>7. dma_state' \in Dma!States /\ inflight' \in Seq(Nat) /\ clean' \in BOOLEAN
    BY <2>1 DEF Types, Dma!States
  <2> QED
    BY <2>1, <2>4, <2>5, <2>6, <2>7
<1>4. CASE Dma!ReleaseReset
  <2>1. UNCHANGED <<fifo, rdpipe, wrpipe, broken, ctrl_fb_base, dma_state, address,
                    pending_reads, burstcount, inflight, popped, frame_base>>
        /\ clean' \in BOOLEAN
    BY <1>4 DEF Dma!ReleaseReset, Dma!fifoVars, Dma!dmaRegs
  <2>2. Dma!Hidden' = Dma!Hidden
    BY <2>1 DEF Dma!Hidden
  <2> QED
    BY <2>1, <2>2 DEF Types
<1> QED
  BY <1>1, <1>2, <1>3, <1>4, Zenon DEF ReadSide

(* Every step preserves the types.                                         *)
LEMMA NextTypes == Types /\ [Next]_vars => Types'
<1> SUFFICES ASSUME Types, [Next]_vars PROVE Types'
  OBVIOUS
<1>0. S!IInv'
  BY SignalStep DEF Types
<1>1. CASE Clk50Edge
  <2>1. /\ UNCHANGED <<go, vga_state, pxcnt, curr_segment, fifo_read>>
        /\ px_due' \in BOOLEAN /\ settled' = (settled /\ InTime')
        /\ age' = IF settled /\ Owing /\ Owing' THEN age + 1 ELSE 0
        /\ ResetEdge \/ \E valid \in BOOLEAN : Dma!Clk50(valid)
    BY <1>1 DEF Clk50Edge, vgaVars
  <2>5. age' \in Nat /\ settled' \in BOOLEAN
    <3>1. age \in Nat /\ settled \in BOOLEAN
      BY DEF Types
    <3>2. age + 1 \in Nat /\ 0 \in Nat
      BY <3>1
    <3> QED
      BY <2>1, <3>1, <3>2, Zenon DEF InTime
  <2>2. ASSUME NEW valid \in BOOLEAN, Dma!Clk50(valid) PROVE Types'
    BY <1>0, <2>1, <2>2, <2>5, EdgeTypes DEF Types
  <2>3. CASE UNCHANGED dmaVars
    <3>1. Dma!Hidden' = Dma!Hidden
      BY <2>3 DEF dmaVars, Dma!Hidden
    <3> QED
      BY <1>0, <2>1, <2>3, <2>5, <3>1 DEF Types, dmaVars
  <2>4. CASE Dma!BeatDuringReset
    <3>1. /\ inflight # <<>> /\ inflight' = Tail(inflight)
          /\ UNCHANGED <<fifo, rdpipe, wrpipe, broken, ctrl_fb_base, dma_state, address,
                         pending_reads, burstcount, popped, frame_base, clean>>
      BY <2>4 DEF Dma!BeatDuringReset, Dma!fifoVars, Dma!dmaRegs
    <3>2. Dma!Hidden' = Dma!Hidden
      BY <3>1 DEF Dma!Hidden
    <3>3. inflight' \in Seq(Nat)
      BY <3>1 DEF Types
    <3> QED
      BY <1>0, <2>1, <2>5, <3>1, <3>2, <3>3 DEF Types
  <2> QED
    BY <2>1, <2>2, <2>3, <2>4 DEF ResetEdge
<1>2. CASE PxEdge
  <2>1. /\ UNCHANGED <<go, age>> /\ px_due' = FALSE /\ ReadSide
    BY <1>2 DEF PxEdge
  <2>2. PICK empty \in Dma!RdEmptyOutcomes, q \in Q :
          Vga!VgaEdge(Sig!ScreenActive, ~Sig!ScreenActive', empty, q)
    BY <1>2 DEF PxEdge
  <2>3. /\ vga_state' \in {"idle", "running"} /\ pxcnt' \in 0 .. PXPERREAD - 1
        /\ fifo_read' \in BOOLEAN
    BY <2>2, VgaTypes
  <2>4. settled' \in BOOLEAN
    BY <1>2, Zenon DEF PxEdge, Types
  <2> QED
    BY <1>0, <2>1, <2>3, <2>4, ReadSideTypes DEF Types
<1>3. CASE SetGo
  <2>1. /\ go' \in BOOLEAN
        /\ UNCHANGED <<px_due, vga_state, pxcnt, curr_segment, fifo_read, age, settled>>
        /\ UNCHANGED dmaVars \/ Dma!ReleaseReset
    BY <1>3 DEF SetGo, vgaVars
  <2>2. /\ UNCHANGED <<fifo, rdpipe, wrpipe, broken, ctrl_fb_base, dma_state, address,
                       pending_reads, burstcount, inflight, popped, frame_base>>
        /\ clean' \in BOOLEAN
    BY <2>1 DEF Types, dmaVars, Dma!ReleaseReset, Dma!fifoVars, Dma!dmaRegs
  <2>3. Dma!Hidden' = Dma!Hidden
    BY <2>2 DEF Dma!Hidden
  <2> QED
    BY <1>0, <2>1, <2>2, <2>3 DEF Types
<1>4. CASE ClearGo
  <2>1. /\ go' \in BOOLEAN /\ settled' = FALSE /\ age' = 0
        /\ UNCHANGED <<px_due, curr_segment, fifo_read>>
        /\ pxcnt' = 0 /\ vga_state' = "idle"
        /\ UNCHANGED dmaVars \/ Dma!AssertReset
    BY <1>4 DEF ClearGo, Vga!VgaBlank
  <2>2. pxcnt' \in 0 .. PXPERREAD - 1
    BY <2>1, Words
  <2>3. CASE UNCHANGED dmaVars
    <3>1. Dma!Hidden' = Dma!Hidden
      BY <2>3 DEF dmaVars, Dma!Hidden
    <3> QED
      BY <1>0, <2>1, <2>2, <2>3, <3>1 DEF Types, dmaVars
  <2>4. CASE Dma!AssertReset
    <3>1. ReadSide
      BY <2>4 DEF ReadSide
    <3> QED
      BY <1>0, <2>1, <2>2, <3>1, ReadSideTypes DEF Types
  <2> QED
    BY <2>1, <2>3, <2>4
<1>5. CASE WriteBase
  <2>1. /\ ctrl_fb_base' \in Bases /\ address' \in {ctrl_fb_base', address}
        /\ UNCHANGED <<go, px_due, vga_state, pxcnt, curr_segment, fifo_read, age, settled>>
        /\ UNCHANGED <<fifo, rdpipe, wrpipe, broken, dma_state, pending_reads, burstcount,
                       inflight, popped, frame_base, clean>>
    BY <1>5 DEF WriteBase, vgaVars, Dma!WriteBase, Dma!fifoVars
  <2>2. Dma!Hidden' = Dma!Hidden
    BY <2>1 DEF Dma!Hidden
  <2>3. address' \in Nat
    BY <2>1, Buffers DEF Types
  <2> QED
    BY <1>0, <2>1, <2>2, <2>3 DEF Types
<1>6. CASE UNCHANGED vars
  <2>1. /\ UNCHANGED <<go, px_due, vga_state, pxcnt, curr_segment, fifo_read>>
        /\ UNCHANGED dmaVars /\ UNCHANGED <<age, settled>>
    BY <1>6 DEF vars, vgaVars
  <2>2. Dma!Hidden' = Dma!Hidden
    BY <2>1 DEF dmaVars, Dma!Hidden
  <2> QED
    BY <1>0, <2>1, <2>2 DEF Types, dmaVars
<1> QED
  BY <1>1, <1>2, <1>3, <1>4, <1>5, <1>6 DEF Next

-----------------------------------------------------------------------------
(* The clocks, the window and the resets.                                  *)
LEMMA AssertClears ==
  ASSUME Dma!AssertReset
  PROVE  Cleared' /\ dma_state' = "idle" /\ ~dma_reset /\ dma_reset'
BY DEF Dma!AssertReset, Dma!FifoClear, Cleared

(* It holds before GO is set, when everything is reset.                    *)
LEMMA InitWired == Init => Wired
<1> SUFFICES ASSUME Init PROVE Wired
  OBVIOUS
<1>1. ~px_due /\ ~px_clk /\ ~settled /\ vga_state = "idle" /\ pxcnt = 0 /\ dma_state = "idle"
  BY DEF Init, Sig!Init, Vga!VgaInit
<1>2. Cleared
  BY DEF Init, Dma!FifoInit, Cleared
<1> QED
  BY <1>1, <1>2 DEF Wired

(* Every step keeps the clocks apart, the pixel logic blank outside the    *)
(* window, and the read master cleared while v_sync is low.                *)
LEMMA NextWired == Types /\ Wired /\ [Next]_vars => Wired'
<1> SUFFICES ASSUME Types, Wired, [Next]_vars PROVE Wired'
  OBVIOUS
<1>1. CASE Clk50Edge
  <2>1. /\ UNCHANGED <<go, line_cnt, hactive, vactive, vga_state, pxcnt>>
        /\ px_due' = (go /\ ~px_clk) /\ px_clk' = FALSE /\ (settled' => settled)
        /\ ResetEdge \/ \E valid \in BOOLEAN : Dma!Clk50(valid)
    BY <1>1 DEF Clk50Edge, vgaVars
  <2>2. /\ Sig!ScreenActive' = Sig!ScreenActive
        /\ dma_reset' = dma_reset
    BY <2>1 DEF Sig!ScreenActive, dma_reset, Sig!VSync
  <2>3. ASSUME NEW valid \in BOOLEAN, Dma!Clk50(valid) PROVE Wired'
    <3>1. ~dma_reset
      BY <2>3 DEF Dma!Clk50, Dma!Idle, Dma!NoSpace, Dma!ReadingWaits,
                  Dma!ReadingAccepted, Dma!Complete, Dma!EveryEdge
    <3> QED
      BY <2>1, <2>2, <3>1 DEF Wired
  <2>4. CASE ResetEdge
    <3>1. UNCHANGED <<fifo, rdpipe, wrpipe, broken, dma_state, popped>>
      BY <2>4 DEF ResetEdge, dmaVars, Dma!BeatDuringReset, Dma!fifoVars, Dma!dmaRegs
    <3> QED
      BY <2>1, <2>2, <3>1 DEF Wired, Cleared
  <2> QED
    BY <2>1, <2>3, <2>4
<1>2. CASE PxEdge
  <2>1. /\ go /\ go' /\ ~px_due'
        /\ ReadSide
    BY <1>2 DEF PxEdge, Wired
  <2>2. PICK empty \in Dma!RdEmptyOutcomes, q \in Q :
          Vga!VgaEdge(Sig!ScreenActive, ~Sig!ScreenActive', empty, q)
    BY <1>2 DEF PxEdge
  <2>3. ~Sig!ScreenActive' => vga_state' = "idle" /\ pxcnt' = 0
    BY <2>2, VgaTypes
  <2>4. dma_reset' => Cleared' /\ dma_state' = "idle"
    <3>1. CASE Dma!AssertReset
      BY <3>1, AssertClears
    <3>2. CASE Dma!ReleaseReset
      BY <3>2 DEF Dma!ReleaseReset
    <3>3. CASE dma_reset = dma_reset' /\ UNCHANGED dmaVars
      BY <3>3 DEF Wired, Cleared, dmaVars
    <3> QED
      BY <2>1, <3>1, <3>2, <3>3 DEF ReadSide
  <2> QED
    BY <2>1, <2>3, <2>4 DEF Wired
<1>3. CASE SetGo
  <2>1. /\ ~go /\ go' /\ UNCHANGED <<px_due, vga_state, pxcnt, settled, hactive, vactive>>
        /\ Dma!ReleaseReset \/ UNCHANGED dmaVars
    BY <1>3 DEF SetGo, Sig!ReleaseReset, vgaVars
  <2>2. ~px_due /\ ~settled /\ dma_reset
    BY <2>1 DEF Wired, dma_reset
  <2>3. dma_reset' => Cleared' /\ dma_state' = "idle"
    BY <2>1, <2>2 DEF Wired, Cleared, dmaVars, Dma!ReleaseReset
  <2>4. Sig!ScreenActive' = Sig!ScreenActive
    BY <2>1 DEF Sig!ScreenActive
  <2> QED
    BY <2>1, <2>2, <2>3, <2>4 DEF Wired
<1>4. CASE ClearGo
  <2>1. /\ ~px_due' /\ ~px_clk' /\ ~settled' /\ vga_state' = "idle" /\ pxcnt' = 0
        /\ Dma!AssertReset \/ (dma_reset /\ UNCHANGED dmaVars)
    BY <1>4 DEF ClearGo, Sig!AssertReset, Vga!VgaBlank
  <2>2. Cleared' /\ dma_state' = "idle"
    BY <2>1, AssertClears DEF Wired, Cleared, dmaVars
  <2> QED
    BY <2>1, <2>2 DEF Wired
<1>5. CASE WriteBase
  <2>1. /\ UNCHANGED <<go, px_due, px_clk, line_cnt, hactive, vactive, vga_state, pxcnt,
                       settled>>
        /\ UNCHANGED <<fifo, rdpipe, wrpipe, broken, dma_state, popped>>
    BY <1>5 DEF WriteBase, sigVars, vgaVars, Dma!WriteBase, Dma!fifoVars
  <2> QED
    BY <2>1 DEF Wired, Cleared, dma_reset, Sig!VSync, Sig!ScreenActive
<1>6. CASE UNCHANGED vars
  <2>1. /\ UNCHANGED <<go, px_due, px_clk, line_cnt, hactive, vactive, vga_state, pxcnt>>
        /\ UNCHANGED <<fifo, rdpipe, wrpipe, broken, dma_state, popped>>
        /\ settled' = settled
    BY <1>6 DEF vars, sigVars, vgaVars, dmaVars
  <2> QED
    BY <2>1 DEF Wired, Cleared, dma_reset, Sig!VSync, Sig!ScreenActive
<1> QED
  BY <1>1, <1>2, <1>3, <1>4, <1>5, <1>6 DEF Next

-----------------------------------------------------------------------------
(* Columns and words.                                                      *)
LEMMA NextColumn ==
  ASSUME NEW c \in Nat
  PROVE  /\ c \div PXPERREAD \in Nat /\ c % PXPERREAD \in 0 .. PXPERREAD - 1
         /\ (c + 1) \div PXPERREAD
              = c \div PXPERREAD + (IF c % PXPERREAD = PXPERREAD - 1 THEN 1 ELSE 0)
         /\ (c + 1) % PXPERREAD
              = IF c % PXPERREAD = PXPERREAD - 1 THEN 0 ELSE (c % PXPERREAD) + 1
<1> DEFINE q == c \div PXPERREAD
           r == c % PXPERREAD
<1>1. /\ PXPERREAD \in Nat \ {0} /\ PXPERREAD >= 2
      /\ c = PXPERREAD * q + r /\ q \in Nat /\ r \in 0 .. PXPERREAD - 1
  <2>1. PXPERREAD \in Nat \ {0} /\ PXPERREAD >= 2
    BY Words
  <2> QED
    BY <2>1, DivMod
<1> HIDE DEF q, r
<1>2. CASE r = PXPERREAD - 1
  <2>1. c + 1 = PXPERREAD * (q + 1) + 0
    BY <1>1, <1>2
  <2>2. (c + 1) \div PXPERREAD = q + 1 /\ (c + 1) % PXPERREAD = 0
    BY <1>1, <2>1, DivModUnique
  <2> QED
    BY <1>1, <1>2, <2>2 DEF q, r
<1>3. CASE r # PXPERREAD - 1
  <2>1. c + 1 = PXPERREAD * q + (r + 1) /\ r + 1 \in 0 .. PXPERREAD - 1
    BY <1>1, <1>3
  <2>2. (c + 1) \div PXPERREAD = q /\ (c + 1) % PXPERREAD = r + 1
    BY <1>1, <2>1, DivModUnique
  <2> QED
    BY <1>1, <1>3, <2>2 DEF q, r
<1> QED
  BY <1>2, <1>3

(* The first column of a line is the first pixel of a word.                *)
LEMMA FirstColumn ==
  0 \div PXPERREAD = 0 /\ 0 % PXPERREAD = 0 /\ (0 + 1) % PXPERREAD = 1
<1>1. PXPERREAD \in Nat \ {0} /\ PXPERREAD >= 2 /\ 0 = PXPERREAD * 0 + 0
  BY Words
<1>2. 0 \div PXPERREAD = 0 /\ 0 % PXPERREAD = 0
  BY <1>1, DivModUnique
<1> QED
  BY <1>1, <1>2, NextColumn

(* The last column that is shown is the last but one of the last word.     *)
LEMMA LastColumn ==
  /\ (Pixels - 2) \div PXPERREAD = WordsPerLine - 1
  /\ (Pixels - 2) % PXPERREAD = PXPERREAD - 2
<1>1. /\ PXPERREAD \in Nat \ {0} /\ PXPERREAD - 2 \in 0 .. PXPERREAD - 1
      /\ WordsPerLine - 1 \in Nat
      /\ Pixels - 2 = PXPERREAD * (WordsPerLine - 1) + (PXPERREAD - 2)
  BY Words
<1> QED
  BY <1>1, DivModUnique

(* A column that is shown belongs to one of the words of its line.         *)
LEMMA WordOfColumn ==
  ASSUME NEW c \in 0 .. Pixels - 2
  PROVE  c \div PXPERREAD \in 0 .. WordsPerLine - 1
<1> DEFINE q == c \div PXPERREAD
           r == c % PXPERREAD
<1>1. /\ PXPERREAD \in Nat \ {0} /\ WordsPerLine \in Nat \ {0}
      /\ Pixels = PXPERREAD * WordsPerLine /\ Pixels \in Nat
  BY Words
<1>2. c \in Nat /\ c < Pixels
  BY <1>1
<1>3. c = PXPERREAD * q + r /\ q \in Nat /\ r \in 0 .. PXPERREAD - 1
  BY <1>1, <1>2, DivMod
<1> HIDE DEF q, r
<1>4. ASSUME q >= WordsPerLine PROVE FALSE
  <2>1. PXPERREAD * q >= PXPERREAD * WordsPerLine
    BY <1>1, <1>3, <1>4
  <2>2. PXPERREAD * q \in Nat
    BY <1>1, <1>3
  <2> QED
    BY <1>1, <1>2, <1>3, <2>1, <2>2
<1> QED
  BY <1>1, <1>3, <1>4 DEF q

(* The place of a pixel that is shown.                                     *)
LEMMA Visible ==
  ASSUME Where, Sig!ScreenActive, Column >= 0
  PROVE  /\ Column \in 0 .. Pixels - 2
         /\ Row \in 0 .. (VActLast - VActAfter - 1)
BY Raster DEF Where, Sig!ActiveWindow, Column, Row, Pixels

(* The words of some lines, and of one more.                               *)
LEMMA Products ==
  ASSUME NEW n \in Nat, NEW m \in Nat, n <= m
  PROVE  /\ n * WordsPerLine \in Nat /\ n * WordsPerLine <= m * WordsPerLine
         /\ (n + 1) * WordsPerLine = n * WordsPerLine + WordsPerLine
<1>1. WordsPerLine \in Nat
  BY Words
<1> QED
  BY <1>1

(* There is always a word for the reader, once the first ones are there.   *)
LEMMA Enough ==
  ASSUME Types, ~broken, Supplied
  PROVE  /\ Len(fifo) > Dma!Hidden /\ Len(fifo) >= 1
         /\ Dma!RdEmptyOutcomes = {FALSE}
<1>1. /\ Dma!Hidden \in Nat /\ Dma!Hidden <= RdLag /\ RdLag \in Nat
      /\ Len(fifo) \in Nat
  BY HiddenBound, Buffers DEF Types
<1>2. /\ PXPERREAD \in Nat /\ PXPERREAD >= 2
      /\ NextPop \in Nat /\ NextPop <= PXPERREAD + 1 /\ Phase \in 0 .. 2
  BY Words DEF Types, NextPop, Phase
<1>3. Worth(Len(fifo)) + 2 * NextPop - Phase >= Worth(RdLag + 1) + 3
  BY DEF Supplied, Stock, Least
<1>4. ~(Len(fifo) <= RdLag)
  <2> SUFFICES ASSUME Len(fifo) <= RdLag PROVE FALSE
    OBVIOUS
  <2>1. /\ Worth(Len(fifo)) <= Worth(RdLag) /\ Worth(Len(fifo)) \in Nat
    BY <1>1, Paces
  <2>2. Worth(RdLag + 1) = Worth(RdLag) + 2 * PXPERREAD /\ Worth(RdLag) \in Nat
    BY <1>1, Paces
  <2> QED
    BY <1>2, <1>3, <2>1, <2>2
<1>5. Len(fifo) > Dma!Hidden /\ Len(fifo) >= 1
  BY <1>1, <1>4
<1>6. (Len(fifo) = Dma!Hidden) = FALSE
  BY <1>1, <1>5
<1> QED
  BY <1>5, <1>6 DEF Dma!RdEmptyOutcomes

(* In the window the FIFO is past its start, so its output is a word and   *)
(* rdempty is low.                                                         *)
LEMMA ActiveSupplied ==
  ASSUME Types, Served, Sig!ScreenActive
  PROVE  /\ Supplied
         /\ Len(fifo) > Dma!Hidden /\ Len(fifo) >= 1
         /\ Dma!RdEmptyOutcomes = {FALSE}
<1>1. line_cnt # VSyncLimit
  BY Position, Raster DEF Types, Where, Sig!ActiveWindow
<1>2. Supplied
  BY <1>1 DEF Served, Flow, Starting
<1> QED
  BY <1>2, Enough DEF Served, Flow

(* What an edge of the pixel clock within a frame does to the FIFO.        *)
Reads ==
  /\ UNCHANGED <<frame_base, dma_state, address, pending_reads, burstcount, inflight, clean>>
  /\ ~broken' /\ popped' = popped + Bit(fifo_read)
  /\ fifo_read => /\ Len(fifo) >= 1 /\ fifo' = Tail(fifo) /\ Supplied
                  /\ Dma!Late' \in Nat /\ Dma!Late' <= Dma!Late + 1
  /\ ~fifo_read => UNCHANGED <<fifo, rdpipe, wrpipe>>

(* Within a frame an edge of the pixel clock takes a word exactly when the *)
(* pixel logic has asked for one, and never from an empty FIFO.            *)
LEMMA PxReads ==
  ASSUME Types, Served, PxEdge, ~dma_reset, ~dma_reset'
  PROVE  Reads
<1>1. fifo_read => Sig!ScreenActive
  BY DEF Served, InPlace, Rests
<1>2. ReadSide /\ popped \in Nat /\ fifo_read \in BOOLEAN /\ ~broken
  BY DEF PxEdge, Types, Served
<1>3. ~Dma!AssertReset /\ ~Dma!ReleaseReset
  BY DEF Dma!AssertReset, Dma!ReleaseReset
<1>4. CASE fifo_read
  <2>1. /\ Dma!FifoRead
        /\ popped' = IF broken' THEN popped ELSE popped + 1
        /\ UNCHANGED <<ctrl_fb_base, dma_state, address, pending_reads, burstcount,
                       inflight, frame_base, clean>>
    BY <1>2, <1>3, <1>4 DEF ReadSide
  <2>2. Supplied /\ Len(fifo) > Dma!Hidden /\ Len(fifo) >= 1
    BY <1>1, <1>4, ActiveSupplied
  <2>3. Len(fifo) # Dma!Hidden
    BY <2>2, HiddenBound, Buffers DEF Types
  <2>4. ~broken' /\ fifo' = Tail(fifo)
    BY <1>2, <2>1, <2>3, Zenon DEF Dma!FifoRead
  <2>5. Dma!Late' \in Nat /\ Dma!Late' <= Dma!Late + 1
    BY <2>1, LateRises
  <2> QED
    BY <1>4, <2>1, <2>2, <2>4, <2>5 DEF Reads, Bit
<1>5. CASE ~fifo_read
  <2>1. UNCHANGED dmaVars
    BY <1>2, <1>3, <1>5 DEF ReadSide
  <2> QED
    BY <1>2, <1>5, <2>1 DEF Reads, Bit, dmaVars
<1> QED
  BY <1>2, <1>4, <1>5

(* What it does to the pixel logic: nothing, or a pixel of the word that   *)
(* is shown, or the first pixel of the next one.                           *)
LEMMA PxShows ==
  ASSUME Types, Served, PxEdge, Wired
  PROVE  /\ ~Sig!ScreenActive => /\ vga_state' = "idle" /\ pxcnt' = 0
                                 /\ fifo_read' = fifo_read
         /\ Sig!ScreenActive =>
              /\ pxcnt = 0 => /\ curr_segment' = [word |-> fifo[1], shift |-> 0]
                              /\ fifo_read'
                              /\ Sig!ScreenActive' => pxcnt' = 1
              /\ pxcnt # 0 =>
                   /\ curr_segment' = [curr_segment EXCEPT !.shift = @ + 1]
                   /\ ~fifo_read'
                   /\ Sig!ScreenActive' =>
                        pxcnt' = IF pxcnt < PXPERREAD - 1 THEN pxcnt + 1 ELSE 0
              /\ ~Sig!ScreenActive' => vga_state' = "idle" /\ pxcnt' = 0
              /\ Sig!ScreenActive' => vga_state' = "running"
<1> PICK empty \in Dma!RdEmptyOutcomes, q \in Q :
      Vga!VgaEdge(Sig!ScreenActive, ~Sig!ScreenActive', empty, q)
  BY DEF PxEdge
<1>1. CASE ~Sig!ScreenActive
  BY <1>1 DEF Vga!VgaEdge
<1>2. CASE Sig!ScreenActive
  <2>1. /\ Len(fifo) >= 1 /\ Dma!RdEmptyOutcomes = {FALSE} /\ fifo \in Seq(Nat)
    BY <1>2, ActiveSupplied DEF Types
  <2>2. ~empty /\ q = fifo[1]
    BY <2>1 DEF Q
  <2>3. \/ Vga!LoadSegment(fifo[1], ~Sig!ScreenActive')
        \/ Vga!ShiftSegment(~Sig!ScreenActive')
    BY <1>2, <2>2 DEF Vga!VgaEdge
  <2> QED
    BY <1>2, <2>3 DEF Vga!LoadSegment, Vga!ShiftSegment, Vga!Advance
<1> QED
  BY <1>1, <1>2

-----------------------------------------------------------------------------
(* Where an edge of the pixel clock leads to.                              *)
LEMMA Leads ==
  ASSUME PxMoves
  PROVE  /\ Sig!ScreenActive /\ Column < 0 =>
              /\ Sig!ScreenActive' /\ Column' = 0 /\ Row' = Row /\ LinesDone = Row
              /\ Row \in Nat
         /\ Sig!ScreenActive /\ Column >= 0 /\ Sig!ScreenActive' =>
              Column' = Column + 1 /\ Row' = Row
         /\ Sig!ScreenActive /\ Column >= 0 /\ ~Sig!ScreenActive' => Column = Pixels - 2
         /\ ~Sig!ScreenActive => ~(Sig!ScreenActive' /\ Column' >= 0)
<1>1. /\ Where /\ Where' /\ Sig!Lag' = Sig!Lag
      /\ \/ px_cnt < LineLast /\ px_cnt' = px_cnt + 1 /\ line_cnt' = line_cnt
         \/ px_cnt = LineLast /\ px_cnt' = 0
  BY DEF PxMoves
<1>2. /\ Sig!Lag \in {0, 1} /\ px_cnt \in Nat /\ px_cnt <= LineLast /\ line_cnt \in Nat
      /\ Sig!ActiveWindow /\ Sig!ActiveWindow'
      /\ Column = px_cnt - Sig!Lag - HActAfter - 2
      /\ Column' = px_cnt' - Sig!Lag - HActAfter - 2
      /\ Row = line_cnt - VActAfter - 1 /\ Row' = line_cnt' - VActAfter - 1
  BY <1>1, Raster DEF Where, Column, Row
<1>3. HActLast >= HActAfter + 2
  <2>1. Pixels >= 2
    <3>1. WordsPerLine \in Nat /\ WordsPerLine >= 1 /\ PXPERREAD \in Nat /\ PXPERREAD >= 2
          /\ Pixels = PXPERREAD * WordsPerLine
      BY Words
    <3>2. PXPERREAD * WordsPerLine >= PXPERREAD * 1
      BY <3>1
    <3> QED
      BY <3>1, <3>2
  <2> QED
    BY <2>1, Raster DEF Pixels
<1>4. /\ Sig!ScreenActive <=> /\ px_cnt - Sig!Lag > HActAfter /\ px_cnt - Sig!Lag <= HActLast
                              /\ line_cnt > VActAfter /\ line_cnt <= VActLast
      /\ Sig!ScreenActive' <=> /\ px_cnt' - Sig!Lag > HActAfter /\ px_cnt' - Sig!Lag <= HActLast
                               /\ line_cnt' > VActAfter /\ line_cnt' <= VActLast
  BY <1>1, <1>2 DEF Sig!ActiveWindow
<1>5. Sig!ScreenActive /\ Column < 0 =>
        Sig!ScreenActive' /\ Column' = 0 /\ Row' = Row /\ Row \in Nat
  BY <1>1, <1>2, <1>3, <1>4, Raster
<1>6. Sig!ScreenActive => px_cnt - Sig!Lag <= HActLast /\ line_cnt > VActAfter
                          /\ line_cnt <= VActLast
  BY <1>4
<1>7. Sig!ScreenActive => LinesDone = Row
  BY <1>2, <1>6, Raster DEF LinesDone
<1>8. Sig!ScreenActive /\ Column >= 0 /\ Sig!ScreenActive' =>
              Column' = Column + 1 /\ Row' = Row
  BY <1>1, <1>2, <1>3, <1>4, Raster
<1>9. Sig!ScreenActive /\ Column >= 0 /\ ~Sig!ScreenActive' => Column = Pixels - 2
  BY <1>1, <1>2, <1>3, <1>4, Raster DEF Pixels
<1>10. ~Sig!ScreenActive => ~(Sig!ScreenActive' /\ Column' >= 0)
  BY <1>1, <1>2, <1>3, <1>4, Raster
<1> QED
  BY <1>5, <1>7, <1>8, <1>9, <1>10

(* A line counts as done when its window closes.                           *)
LEMMA Lines ==
  ASSUME PxMoves, Sig!VSync, Sig!VSync'
  PROVE  /\ ~Sig!ScreenActive => LinesDone' = LinesDone
         /\ Sig!ScreenActive /\ ~Sig!ScreenActive' => LinesDone' = Row + 1
<1>1. /\ Where /\ Where' /\ Sig!Lag' = Sig!Lag
      /\ \/ px_cnt < LineLast /\ px_cnt' = px_cnt + 1 /\ line_cnt' = line_cnt
         \/ /\ px_cnt = LineLast /\ px_cnt' = 0
            /\ line_cnt' = IF line_cnt = FrameLast THEN 0 ELSE line_cnt + 1
  BY DEF PxMoves
<1>2. /\ Sig!Lag \in {0, 1} /\ px_cnt \in Nat /\ px_cnt <= LineLast
      /\ line_cnt \in Nat /\ line_cnt <= FrameLast
      /\ line_cnt < VSyncFirst \/ line_cnt >= VSyncLimit
      /\ line_cnt' < VSyncFirst \/ line_cnt' >= VSyncLimit
      /\ Row = line_cnt - VActAfter - 1 /\ Row' = line_cnt' - VActAfter - 1
  BY <1>1, Raster DEF Where, Row, Sig!VSync
<1>3. /\ Sig!ScreenActive <=> /\ px_cnt - Sig!Lag > HActAfter /\ px_cnt - Sig!Lag <= HActLast
                              /\ line_cnt > VActAfter /\ line_cnt <= VActLast
      /\ Sig!ScreenActive' <=> /\ px_cnt' - Sig!Lag > HActAfter /\ px_cnt' - Sig!Lag <= HActLast
                               /\ line_cnt' > VActAfter /\ line_cnt' <= VActLast
  BY <1>1 DEF Where, Sig!ActiveWindow
<1>4. LinesDone' = IF line_cnt' < VSyncFirst \/ line_cnt' > VActLast THEN VActLast - VActAfter
                   ELSE IF line_cnt' <= VActAfter THEN 0
                   ELSE IF px_cnt' - Sig!Lag > HActLast THEN line_cnt' - VActAfter
                   ELSE line_cnt' - VActAfter - 1
  BY <1>1, <1>2, Raster DEF LinesDone
<1>5. LinesDone = IF line_cnt < VSyncFirst \/ line_cnt > VActLast THEN VActLast - VActAfter
                  ELSE IF line_cnt <= VActAfter THEN 0
                  ELSE IF px_cnt - Sig!Lag > HActLast THEN line_cnt - VActAfter
                  ELSE line_cnt - VActAfter - 1
  BY <1>2, Raster DEF LinesDone
<1>6. CASE px_cnt < LineLast /\ px_cnt' = px_cnt + 1 /\ line_cnt' = line_cnt
  BY <1>2, <1>3, <1>4, <1>5, <1>6, Raster
<1>7. CASE px_cnt = LineLast /\ px_cnt' = 0 /\ line_cnt = FrameLast /\ line_cnt' = 0
  BY <1>2, <1>3, <1>4, <1>5, <1>7, Raster
<1>8. CASE px_cnt = LineLast /\ px_cnt' = 0 /\ line_cnt # FrameLast /\ line_cnt' = line_cnt + 1
  BY <1>2, <1>3, <1>4, <1>5, <1>8, Raster
<1> QED
  BY <1>1, <1>6, <1>7, <1>8

(* A pixel is shown where the raster now is.                               *)
LEMMA NowShown ==
  ASSUME NEW row, NEW column \in Nat, Row' = row, Column' = column, Sig!ScreenActive',
         frame_base' = frame_base, vga_state' = "running",
         pxcnt' = (column + 1) % PXPERREAD,
         fifo_read' <=> column % PXPERREAD = 0,
         curr_segment' = [word  |-> frame_base + row * WordsPerLine + column \div PXPERREAD,
                          shift |-> column % PXPERREAD],
         popped' = row * WordsPerLine + column \div PXPERREAD
                     + (IF column % PXPERREAD = 0 THEN 0 ELSE 1)
  PROVE  InPlace'
BY DEF InPlace, Shows

(* The pixel logic follows the raster.                                     *)
LEMMA PxInPlace ==
  ASSUME Types, Wired, Served, PxEdge, ~dma_reset, ~dma_reset'
  PROVE  InPlace'
<1>1. PxMoves
  BY PxPosition DEF Types
<1>2. Reads
  BY PxReads
<1>3. Where /\ Where' /\ Sig!VSync /\ Sig!VSync'
  BY <1>1 DEF PxMoves, dma_reset
<1>4. popped' = popped + Bit(fifo_read) /\ frame_base' = frame_base /\ popped \in Nat
      /\ frame_base \in Nat
  BY <1>2, Buffers DEF Reads, Types
<1>5. PXPERREAD \in Nat /\ PXPERREAD >= 2 /\ WordsPerLine \in Nat /\ WordsPerLine >= 1
  BY Words
<1>6. CASE Sig!ScreenActive /\ Column >= 0
  <2>1. /\ Column \in 0 .. Pixels - 2 /\ Row \in Nat /\ Column \in Nat /\ Column + 1 \in Nat
    BY <1>3, <1>6, Visible, Raster
  <2> DEFINE q == Column \div PXPERREAD
             r == Column % PXPERREAD
             rw == Row * WordsPerLine
  <2>2. /\ q \in Nat /\ r \in 0 .. PXPERREAD - 1 /\ rw \in Nat
        /\ (Column + 1) \div PXPERREAD = q + (IF r = PXPERREAD - 1 THEN 1 ELSE 0)
        /\ (Column + 1) % PXPERREAD = IF r = PXPERREAD - 1 THEN 0 ELSE r + 1
    BY <1>5, <2>1, NextColumn, Products
  <2>3. (Column + 1 + 1) % PXPERREAD
          = IF r = PXPERREAD - 1 THEN 1 ELSE IF r = PXPERREAD - 2 THEN 0 ELSE r + 2
    <3>1. (Column + 1 + 1) % PXPERREAD
            = IF (Column + 1) % PXPERREAD = PXPERREAD - 1 THEN 0
              ELSE ((Column + 1) % PXPERREAD) + 1
      BY <2>1, NextColumn
    <3> QED
      BY <1>5, <2>2, <3>1
  <2>4. /\ vga_state = "running" /\ pxcnt = (Column + 1) % PXPERREAD
        /\ (fifo_read <=> r = 0)
        /\ curr_segment = [word |-> frame_base + rw + q, shift |-> r]
        /\ popped = rw + q + (IF r = 0 THEN 0 ELSE 1)
    BY <1>6 DEF Served, InPlace, Shows
  <2> HIDE DEF q, r, rw
  <2>5. popped' = rw + q + 1
    BY <1>4, <2>2, <2>4, <1>5 DEF Bit
  <2>6. CASE Sig!ScreenActive'
    <3>1. Column' = Column + 1 /\ Row' = Row
      BY <1>1, <1>6, <2>6, Leads
    <3>2. vga_state' = "running"
      BY <1>6, <2>6, PxShows
    <3>3. CASE r = PXPERREAD - 1
      <4>1. pxcnt = 0 /\ ~fifo_read
        BY <1>5, <2>2, <2>4, <3>3
      <4>2. curr_segment' = [word |-> fifo[1], shift |-> 0] /\ fifo_read' /\ pxcnt' = 1
        BY <1>6, <2>6, <4>1, PxShows
      <4>3. fifo[1] = frame_base + popped
        <5>1. Len(fifo) >= 1 /\ Supplied /\ fifo \in Seq(Nat)
          BY <1>6, ActiveSupplied DEF Types
        <5>2. \A i \in 1 .. Len(fifo) : fifo[i] = frame_base + popped + i - 1
          BY <5>1 DEF Served, Flow, InOrder, Supplied
        <5>3. fifo[1] = frame_base + popped + 1 - 1
          BY <5>1, <5>2
        <5> QED
          BY <1>4, <5>3
      <4>4. fifo[1] = frame_base + rw + (q + 1)
        BY <1>4, <1>5, <2>2, <2>4, <3>3, <4>3
      <4>5. InPlace'
        <5>1. pxcnt' = (Column + 1 + 1) % PXPERREAD
          BY <2>3, <3>3, <4>2
        <5>2. (Column + 1) % PXPERREAD = 0 /\ (Column + 1) \div PXPERREAD = q + 1
          BY <2>2, <3>3
        <5>3. popped' = rw + (q + 1) + 0
          BY <2>2, <2>5
        <5>4. curr_segment' = [word |-> frame_base + rw + (q + 1), shift |-> 0]
          BY <4>2, <4>4
        <5> QED
          BY <1>4, <2>1, <2>6, <3>1, <3>2, <4>2, <5>1, <5>2, <5>3, <5>4, NowShown DEF rw
      <4> QED
        BY <4>5
    <3>4. CASE r # PXPERREAD - 1
      <4>1. pxcnt = r + 1 /\ pxcnt # 0
        BY <1>5, <2>2, <2>4, <3>4
      <4>2. /\ curr_segment' = [curr_segment EXCEPT !.shift = @ + 1] /\ ~fifo_read'
            /\ pxcnt' = IF pxcnt < PXPERREAD - 1 THEN pxcnt + 1 ELSE 0
        BY <1>6, <2>6, <4>1, PxShows
      <4>3. pxcnt' = (Column + 1 + 1) % PXPERREAD
        BY <1>5, <2>2, <2>3, <3>4, <4>1, <4>2
      <4>4. (Column + 1) % PXPERREAD = r + 1 /\ (Column + 1) \div PXPERREAD = q /\ r + 1 # 0
        BY <2>2, <3>4
      <4>5. curr_segment' = [word |-> frame_base + rw + q, shift |-> r + 1]
        BY <2>4, <4>2
      <4> QED
        BY <1>4, <2>1, <2>5, <2>6, <3>1, <3>2, <4>2, <4>3, <4>4, <4>5, NowShown DEF rw
    <3> QED
      BY <3>3, <3>4
  <2>7. CASE ~Sig!ScreenActive'
    <3>1. Column = Pixels - 2 /\ LinesDone' = Row + 1
      BY <1>1, <1>3, <1>6, <2>7, Leads, Lines
    <3>2. q = WordsPerLine - 1 /\ r = PXPERREAD - 2
      BY <3>1, LastColumn DEF q, r
    <3>3. pxcnt # 0
      BY <1>5, <2>2, <2>4, <3>2
    <3>4. vga_state' = "idle" /\ pxcnt' = 0 /\ ~fifo_read'
      BY <1>6, <2>7, <3>3, PxShows
    <3>5. (Row + 1) * WordsPerLine = rw + WordsPerLine
      BY <2>1, Products DEF rw
    <3>6. popped' = (Row + 1) * WordsPerLine
      BY <1>5, <2>2, <2>5, <3>2, <3>5
    <3> QED
      BY <2>7, <3>1, <3>4, <3>6 DEF InPlace, Rests
  <2> QED
    BY <2>6, <2>7
<1>7. CASE Sig!ScreenActive /\ ~(Column >= 0)
  <2>1. /\ vga_state = "idle" /\ pxcnt = 0 /\ ~fifo_read /\ popped = LinesDone * WordsPerLine
    BY <1>7 DEF Served, InPlace, Rests
  <2>2. Column < 0
    BY <1>3, <1>7, Raster DEF Where, Column
  <2>3. Sig!ScreenActive' /\ Column' = 0 /\ Row' = Row /\ LinesDone = Row /\ Row \in Nat
    BY <1>1, <1>7, <2>2, Leads
  <2>4. /\ curr_segment' = [word |-> fifo[1], shift |-> 0] /\ fifo_read' /\ pxcnt' = 1
        /\ vga_state' = "running"
    BY <1>7, <2>1, <2>3, PxShows
  <2>5. fifo[1] = frame_base + popped
    <3>1. Len(fifo) >= 1 /\ Supplied /\ fifo \in Seq(Nat)
      BY <1>7, ActiveSupplied DEF Types
    <3>2. \A i \in 1 .. Len(fifo) : fifo[i] = frame_base + popped + i - 1
      BY <3>1 DEF Served, Flow, InOrder, Supplied
    <3>3. fifo[1] = frame_base + popped + 1 - 1
      BY <3>1, <3>2
    <3> QED
      BY <1>4, <3>3
  <2>6. popped' = Row * WordsPerLine /\ Row * WordsPerLine \in Nat
    BY <1>4, <2>1, <2>3, Products DEF Bit
  <2>7. fifo[1] = frame_base + Row * WordsPerLine + 0
    BY <1>4, <2>1, <2>3, <2>5, <2>6
  <2>8. popped' = Row * WordsPerLine + 0 + 0
    BY <2>6
  <2> QED
    BY <1>4, <2>3, <2>4, <2>7, <2>8, FirstColumn DEF InPlace, Shows
<1>8. CASE ~Sig!ScreenActive
  <2>1. /\ vga_state = "idle" /\ pxcnt = 0 /\ ~fifo_read /\ popped = LinesDone * WordsPerLine
    BY <1>8 DEF Served, InPlace, Rests
  <2>2. vga_state' = "idle" /\ pxcnt' = 0 /\ ~fifo_read'
    BY <1>8, <2>1, PxShows
  <2>3. popped' = LinesDone' * WordsPerLine
    <3>1. popped' = popped
      BY <1>4, <2>1 DEF Bit
    <3> QED
      BY <1>1, <1>3, <1>8, <2>1, <3>1, Lines
  <2> QED
    BY <1>1, <1>8, <2>2, <2>3, Leads DEF InPlace, Rests
<1> QED
  BY <1>6, <1>7, <1>8

(* The next word is taken as early as NextPop says, and no earlier: an edge*)
(* of the pixel clock leaves the stock as it is, or adds to it.            *)
LEMMA PxStock ==
  ASSUME Types, Wired, Served, PxEdge, ~dma_reset, ~dma_reset'
  PROVE  Stock' >= Stock /\ Stock' \in Int /\ Stock \in Int
<1>1. Reads /\ fifo \in Seq(Nat) /\ fifo' \in Seq(Nat) /\ fifo_read \in BOOLEAN
      /\ fifo_read' \in BOOLEAN /\ pxcnt \in 0 .. PXPERREAD - 1 /\ pxcnt' \in 0 .. PXPERREAD - 1
  <2>1. Types'
    BY NextTypes DEF Next
  <2> QED
    BY <2>1, PxReads DEF Types
<1>2. Phase = 2 /\ Phase' = 0 /\ Sig!ScreenActive \in BOOLEAN
  BY PxPosition DEF Types, PxMoves, Phase, Where
<1>3. PXPERREAD \in Nat /\ PXPERREAD >= 2
  BY Words
<1>4. ASSUME Sig!ScreenActive, Column >= 0
      PROVE  /\ Column \in Nat /\ pxcnt = (Column + 1) % PXPERREAD
             /\ fifo_read <=> Column % PXPERREAD = 0
             /\ ~Sig!ScreenActive' => Column % PXPERREAD = PXPERREAD - 2
  <2>1. Column \in Nat /\ PxMoves
    BY <1>4, Visible, Position, PxPosition, Raster DEF Types
  <2>2. pxcnt = (Column + 1) % PXPERREAD /\ (fifo_read <=> Column % PXPERREAD = 0)
    BY <1>4 DEF Served, InPlace, Shows
  <2>3. ASSUME ~Sig!ScreenActive' PROVE Column % PXPERREAD = PXPERREAD - 2
    <3>1. Sig!VSync
      BY DEF dma_reset
    <3>2. Column = Pixels - 2
      BY <1>4, <2>1, <2>3, <3>1, Leads, Visible, Raster DEF Pixels, PxMoves
    <3> QED
      BY <2>1, <3>2, LastColumn
  <2> QED
    BY <2>1, <2>2, <2>3
<1>5. CASE fifo_read
  <2>1. Sig!ScreenActive /\ Column >= 0 /\ Column % PXPERREAD = 0
    BY <1>5 DEF Served, InPlace, Shows, Rests
  <2>2. pxcnt = 1
    <3>1. Column \in Nat /\ pxcnt = (Column + 1) % PXPERREAD
      BY <1>4, <2>1
    <3>2. (Column + 1) % PXPERREAD
            = IF Column % PXPERREAD = PXPERREAD - 1 THEN 0 ELSE (Column % PXPERREAD) + 1
      BY <3>1, NextColumn, Zenon
    <3> QED
      BY <1>3, <2>1, <3>1, <3>2
  <2>3. ~fifo_read' /\ Len(fifo') = Len(fifo) - 1 /\ Len(fifo) >= 1
    BY <1>1, <1>5, <2>1, <2>2, PxShows DEF Reads
  <2>4. NextPop' = PXPERREAD /\ NextPop = 1
    <3>1. CASE Sig!ScreenActive'
      BY <1>1, <1>3, <1>5, <2>1, <2>2, <2>3, <3>1, PxShows DEF NextPop
    <3>2. CASE ~Sig!ScreenActive'
      <4>1. PXPERREAD = 2
        BY <1>3, <1>4, <2>1, <3>2
      <4> QED
        BY <1>3, <1>5, <2>1, <2>3, <3>2, <4>1, PxShows DEF NextPop
    <3> QED
      BY <3>1, <3>2
  <2>5. /\ Worth(Len(fifo)) = Worth(Len(fifo')) + 2 * PXPERREAD
        /\ Worth(Len(fifo')) \in Nat
    <3>1. Len(fifo') \in Nat /\ Len(fifo) = Len(fifo') + 1
      BY <1>1, <2>3
    <3> QED
      BY <3>1, Paces
  <2> QED
    BY <1>2, <1>3, <2>4, <2>5 DEF Stock
<1>6. CASE ~fifo_read
  <2>1. fifo' = fifo
    BY <1>1, <1>6 DEF Reads
  <2>2. NextPop' >= NextPop - 1 /\ NextPop \in Nat /\ NextPop' \in Nat
    <3>1. CASE ~Sig!ScreenActive
      BY <1>1, <1>3, <1>6, <3>1, PxShows DEF Wired, NextPop
    <3>2. CASE Sig!ScreenActive /\ pxcnt = 0
      BY <1>1, <1>3, <1>6, <3>2, PxShows DEF NextPop
    <3>3. CASE Sig!ScreenActive /\ pxcnt # 0 /\ Sig!ScreenActive'
      BY <1>1, <1>3, <1>6, <3>3, PxShows DEF NextPop
    <3>4. CASE Sig!ScreenActive /\ pxcnt # 0 /\ ~Sig!ScreenActive'
      <4>1. Column >= 0
        BY <3>4 DEF Served, InPlace, Rests
      <4>2. /\ Column \in Nat /\ Column % PXPERREAD = PXPERREAD - 2
            /\ pxcnt = (Column + 1) % PXPERREAD
        BY <1>4, <3>4, <4>1
      <4>3. pxcnt = PXPERREAD - 1
        <5>1. (Column + 1) % PXPERREAD
                = IF Column % PXPERREAD = PXPERREAD - 1 THEN 0 ELSE (Column % PXPERREAD) + 1
          BY <4>2, NextColumn, Zenon
        <5> QED
          BY <1>3, <4>2, <5>1
      <4> QED
        BY <1>1, <1>3, <1>6, <3>4, <4>3, PxShows DEF NextPop
    <3> QED
      BY <1>2, <3>1, <3>2, <3>3, <3>4
  <2>3. Worth(Len(fifo)) \in Nat
    BY <1>1, Paces
  <2> QED
    BY <1>2, <2>1, <2>2, <2>3 DEF Stock
<1> QED
  BY <1>1, <1>5, <1>6

(* The words stay in order when the first one is taken.                    *)
LEMMA PxOrder ==
  ASSUME Types, Wired, Served, PxEdge, ~dma_reset, ~dma_reset'
  PROVE  InOrder'
<1>1. Reads /\ fifo \in Seq(Nat) /\ inflight \in Seq(Nat) /\ popped \in Nat /\ frame_base \in Nat
  BY PxReads, Buffers DEF Types
<1>2. CASE fifo_read
  <2>1. Len(fifo) >= 1 /\ fifo' = Tail(fifo) /\ dma_state # "idle" /\ dma_state' # "idle"
        /\ popped' = popped + 1 /\ inflight' = inflight /\ address' = address
        /\ frame_base' = frame_base
    BY <1>1, <1>2 DEF Reads, Supplied, Bit
  <2>2. /\ \A i \in 1 .. Len(fifo) : fifo[i] = frame_base + popped + i - 1
        /\ \A i \in 1 .. Len(inflight) : inflight[i] = frame_base + popped + Len(fifo) + i - 1
        /\ address = frame_base + popped + Len(fifo) + Len(inflight)
    BY <2>1 DEF Served, Flow, InOrder
  <2>3. Len(fifo') = Len(fifo) - 1 /\ \A i \in 1 .. Len(fifo') : fifo'[i] = fifo[i + 1]
    BY <1>1, <2>1
  <2>4. \A i \in 1 .. Len(fifo') : fifo'[i] = frame_base' + popped' + i - 1
    BY <1>1, <2>1, <2>2, <2>3
  <2>7. /\ Len(fifo) \in Nat /\ Len(inflight) \in Nat /\ popped \in Nat /\ frame_base \in Nat
        /\ Len(fifo') = Len(fifo) - 1 /\ popped' = popped + 1 /\ frame_base' = frame_base
    BY <1>1, <2>1, <2>3
  <2>8. frame_base' + popped' + Len(fifo') = frame_base + popped + Len(fifo)
    BY <2>7
  <2>5. \A i \in 1 .. Len(inflight') : inflight'[i] = frame_base' + popped' + Len(fifo') + i - 1
    BY <2>1, <2>2, <2>7, <2>8
  <2>6. address' = frame_base' + popped' + Len(fifo') + Len(inflight')
    BY <2>1, <2>2, <2>7, <2>8
  <2> QED
    BY <2>1, <2>4, <2>5, <2>6 DEF InOrder
<1>3. CASE ~fifo_read
  <2>1. popped' = popped /\ fifo' = fifo /\ inflight' = inflight /\ address' = address
        /\ frame_base' = frame_base /\ dma_state' = dma_state
    BY <1>1, <1>3 DEF Reads, Bit
  <2> QED
    BY <2>1 DEF Served, Flow, InOrder
<1> QED
  BY <1>2, <1>3

(* A word that is taken makes room, even if the writer is late to see it.  *)
LEMMA PxRoom ==
  ASSUME Types, Wired, Served, PxEdge, ~dma_reset, ~dma_reset'
  PROVE  Pending' /\ Room'
<1>1. Reads /\ fifo \in Seq(Nat) /\ Len(inflight) \in Nat /\ Asked \in Nat /\ Dma!Late \in Nat
  BY PxReads, Buffers, LateBound DEF Types, Asked
<1>2. /\ dma_state' = dma_state /\ burstcount' = burstcount /\ pending_reads' = pending_reads
      /\ inflight' = inflight /\ Asked' = Asked
  BY <1>1 DEF Reads, Asked
<1>3. Pending'
  BY <1>2 DEF Served, Flow, Pending
<1>4. Len(fifo') + Dma!Late' <= Len(fifo) + Dma!Late /\ Len(fifo') \in Nat /\ Dma!Late' \in Nat
  <2>1. CASE fifo_read
    <3>1. Len(fifo) >= 1 /\ fifo' = Tail(fifo) /\ Dma!Late' \in Nat /\ Dma!Late' <= Dma!Late + 1
      BY <1>1, <2>1 DEF Reads
    <3>2. Len(fifo') = Len(fifo) - 1
      BY <1>1, <3>1
    <3> QED
      BY <1>1, <3>1, <3>2
  <2>2. CASE ~fifo_read
    <3>1. fifo' = fifo /\ wrpipe' = wrpipe
      BY <1>1, <2>2 DEF Reads
    <3>2. Dma!Late' = Dma!Late
      BY <3>1 DEF Dma!Late
    <3> QED
      BY <1>1, <3>1, <3>2
  <2> QED
    BY <2>1, <2>2
<1>5. Room'
  BY <1>1, <1>2, <1>4, Buffers DEF Served, Flow, Room
<1> QED
  BY <1>3, <1>5

(* What the sizes give: a stock with which a request may be made, and a    *)
(* first burst that returns within a line.                                 *)
LEMMA Sizes ==
  ASSUME FastEnough
  PROVE  /\ BUFFERWIDTH < DEPTH
         /\ Least \in Nat /\ Target \in Nat /\ Target = Least + LATENCY + GAP - 1
         /\ Target >= Least /\ LATENCY \in Nat /\ GAP \in Nat
         /\ Due(BUFFERWIDTH) <= 2 * LineLast
<1>1. Due(0 + 1) = Due(0) + GAP /\ Due(0) = LATENCY
  BY Paces
<1>2. Worth(RdLag + 1) \in Nat
  BY Paces, Buffers
<1> QED
  BY <1>1, <1>2, MemoryAssumption DEF FastEnough, Least, Target

(* No word of a burst that is in time comes later than the burst may take. *)
LEMMA BurstInTime ==
  ASSUME FastEnough, NEW n \in Nat, n <= BUFFERWIDTH
  PROVE  Due(n) \in Nat /\ Due(n) <= 2 * LineLast
BY Paces, Sizes, Buffers, Raster

(* An edge of the pixel clock does not change what is due.                 *)
LEMMA PxInTime ==
  ASSUME InTime, dma_state' \in {dma_state, "idle"},
         UNCHANGED <<age, inflight, burstcount>>
  PROVE  InTime'
BY DEF InTime, Due

(* An edge of the pixel clock leaves the words the picture needs.          *)
LEMMA PxSupply ==
  ASSUME FastEnough, Types, Wired, Served, PxEdge, ~dma_reset, ~dma_reset'
  PROVE  InTime' /\ (Starting \/ Supplied)'
<1>1. Reads /\ PxMoves
  BY PxReads, PxPosition DEF Types
<1>2. /\ dma_state' = dma_state /\ burstcount' = burstcount /\ inflight' = inflight
      /\ age' = age /\ px_due /\ ~px_due' /\ ~px_clk /\ px_clk'
  BY <1>1 DEF Reads, PxMoves
<1>3. InTime'
  BY <1>2, PxInTime DEF Served, Flow
<1>4. CASE Supplied
  <2>1. Stock' >= Stock /\ Stock' \in Int /\ Stock \in Int
    BY PxStock
  <2>2. Least \in Nat /\ Target \in Nat /\ age \in Nat
    BY Sizes DEF Types
  <2>3. dma_state' = "complete" => Worth(burstcount - Len(inflight)) \in Int
    <3>1. dma_state = "complete" => burstcount - Len(inflight) \in Nat
      BY Buffers DEF Served, Flow, Pending, Types
    <3> QED
      BY <1>2, <3>1, Paces
  <2>4. Worth(burstcount - Len(inflight))' = Worth(burstcount - Len(inflight))
    BY <1>2 DEF Worth
  <2>5. /\ dma_state' # "idle" /\ Stock' >= Least
        /\ dma_state' = "nospace" => Stock' > Target
        /\ dma_state' = "reading" => Stock' >= Target - age'
        /\ dma_state' = "complete" => Stock' >= Target - age' + Worth(burstcount - Len(inflight))
    BY <1>2, <1>4, <2>1, <2>2, <2>3 DEF Supplied
  <2> QED
    BY <1>3, <2>4, <2>5 DEF Supplied, Least, Target, Worth, Due
<1>5. CASE Starting /\ ~Supplied
  <2>1. ~fifo_read /\ fifo' = fifo /\ rdpipe' = rdpipe /\ wrpipe' = wrpipe
    BY <1>1, <1>5 DEF Reads
  <2>2. /\ px_cnt \in Nat /\ px_cnt <= LineLast /\ LineLast \in Nat
        /\ Phase = 2 /\ Phase' = 0 /\ age \in Nat
    BY <1>1, <1>2, Raster DEF Types, PxMoves, Where, Phase
  <2>3. dma_state = "reading" \/ dma_state = "complete"
    BY <1>5, <2>2 DEF Starting, Types, Dma!States, Elapsed
  <2>4. age = 2 * px_cnt
    BY <1>5, <2>2, <2>3 DEF Starting, Elapsed
  <2>5. age < 2 * LineLast
    <3>1. CASE dma_state = "reading"
      <4>1. age + 1 < Due(1)
        BY <3>1 DEF Served, Flow, InTime
      <4> QED
        BY <2>2, <4>1, BurstInTime, Buffers
    <3>2. CASE dma_state = "complete"
      <4>1. age < Due(burstcount - Len(inflight) + 1)
        BY <3>2 DEF Served, Flow, InTime, Pending
      <4>2. burstcount - Len(inflight) + 1 \in Nat /\ burstcount - Len(inflight) + 1 <= BUFFERWIDTH
        <5>1. /\ inflight # <<>> /\ inflight \in Seq(Nat) /\ Len(inflight) <= burstcount
              /\ burstcount \in {Dma!Half, BUFFERWIDTH}
          BY <3>2 DEF Served, Flow, Pending, Types
        <5>2. Len(inflight) \in Nat /\ Len(inflight) >= 1
          BY <5>1
        <5> QED
          BY <5>1, <5>2, Buffers
      <4> QED
        BY <2>2, <4>1, <4>2, BurstInTime
    <3> QED
      BY <2>3, <3>1, <3>2
  <2>6. px_cnt' = px_cnt + 1 /\ line_cnt' = line_cnt
    BY <1>1, <2>2, <2>4, <2>5 DEF PxMoves
  <2>7. Elapsed' = Elapsed
    BY <2>2, <2>6 DEF Elapsed
  <2> QED
    BY <1>2, <1>3, <1>5, <2>1, <2>3, <2>6, <2>7 DEF Starting
<1> QED
  BY <1>4, <1>5 DEF Served, Flow

(* All of it, for an edge of the pixel clock within a frame.               *)
LEMMA PxServed ==
  ASSUME FastEnough, Types, Wired, Served, PxEdge, ~dma_reset, ~dma_reset'
  PROVE  Served'
<1>1. clean' /\ ~broken'
  BY PxReads DEF Reads, Served
<1> QED
  BY <1>1, PxInPlace, PxOrder, PxRoom, PxSupply DEF Served, Flow

-----------------------------------------------------------------------------
(* Between two frames.                                                     *)
LEMMA BlankEdge ==
  ASSUME PxEdge, ~Sig!ScreenActive
  PROVE  vga_state' = "idle" /\ pxcnt' = 0 /\ fifo_read' = fifo_read
BY DEF PxEdge, Vga!VgaEdge

(* v_sync falls: what is on the bus is at most one request.                *)
LEMMA PxDrains ==
  ASSUME Types, Wired, Served, PxEdge, ~dma_reset, dma_reset'
  PROVE  Drained'
<1>1. PxMoves
  BY PxPosition DEF Types
<1>2. Sig!VSync /\ ~Sig!VSync' /\ ~Sig!ScreenActive' /\ Where /\ Where'
  BY <1>1 DEF PxMoves, dma_reset, Where
<1>3. vga_state' = "idle" /\ ~fifo_read'
  <2>1. CASE ~Sig!ScreenActive
    BY <2>1, BlankEdge DEF Served, InPlace, Rests
  <2>2. CASE Sig!ScreenActive
    <3>1. Column >= 0
      <4>1. Column \in Int
        BY <1>2, Raster DEF Where, Column
      <4>2. ~(Column < 0)
        BY <1>1, <1>2, <2>2, Leads
      <4> QED
        BY <4>1, <4>2
    <3>2. Column = Pixels - 2 /\ Column \in Nat
      BY <1>1, <1>2, <2>2, <3>1, Leads, Visible, Raster DEF Pixels
    <3>3. pxcnt = (Column + 1) % PXPERREAD
      BY <2>2, <3>1 DEF Served, InPlace, Shows
    <3>4. pxcnt # 0
      <4>1. PXPERREAD \in Nat /\ PXPERREAD >= 2 /\ Column % PXPERREAD = PXPERREAD - 2
        BY <3>2, LastColumn, Words
      <4>2. Column \in Nat /\ Column % PXPERREAD # PXPERREAD - 1
        BY <3>2, <4>1
      <4>3. (Column + 1) % PXPERREAD = (Column % PXPERREAD) + 1
        BY <4>2, NextColumn
      <4> QED
        BY <3>3, <4>1, <4>3
    <3> QED
      BY <1>2, <2>2, <3>4, PxShows
  <2> QED
    BY <2>1, <2>2
<1>4. inflight' = inflight
  BY DEF PxEdge, ReadSide, Dma!AssertReset, Dma!ReleaseReset
<1>5. /\ inflight # <<>> => Len(inflight) <= burstcount
      /\ age' \in Nat /\ burstcount' = burstcount
  <2>1. age' = age /\ age \in Nat /\ burstcount' = burstcount
    BY <1>1, ReadSideTypes DEF PxMoves, Types, PxEdge
  <2> QED
    BY <2>1 DEF Served, Flow, Pending
<1>6. line_cnt' = VSyncFirst /\ px_cnt' = 0
  BY <1>1, <1>2, Raster DEF PxMoves, Where, Sig!VSync
<1>7. Elapsed' = 0
  BY <1>1, <1>6 DEF PxMoves, Elapsed, Phase
<1>8. InTime'
  <2>1. dma_state' \in {dma_state, "idle"} /\ UNCHANGED <<age, inflight, burstcount>>
    BY <1>1, <1>4, <1>5, ReadSideTypes DEF PxMoves, PxEdge
  <2> QED
    BY <2>1, PxInTime DEF Served, Flow
<1> QED
  BY <1>3, <1>4, <1>5, <1>6, <1>7, <1>8 DEF Drained

(* A burst that v_sync has cut off is back within the first line.          *)
LEMMA BackInTime ==
  ASSUME FastEnough, Types, Drained, inflight # <<>>
  PROVE  Elapsed < 2 * LineLast
<1>1. /\ age < Due(burstcount - Len(inflight) + 1) /\ Elapsed <= age
      /\ Len(inflight) <= burstcount
  BY DEF Drained, InTime
<1>2. Len(inflight) \in Nat /\ Len(inflight) >= 1
  BY DEF Types
<1>3. burstcount - Len(inflight) + 1 \in Nat /\ burstcount - Len(inflight) + 1 <= BUFFERWIDTH
  BY <1>1, <1>2, Buffers DEF Types
<1>4. age \in Nat /\ Elapsed \in Int /\ LineLast \in Nat
  BY Position, Raster DEF Types, Where, Elapsed, Phase
<1> QED
  BY <1>1, <1>3, <1>4, BurstInTime

(* While v_sync is low the pixel logic rests, and the words on the bus     *)
(* return within the first line.                                           *)
LEMMA PxStaysDrained ==
  ASSUME FastEnough, Types, Wired, Drained, PxEdge, dma_reset, dma_reset'
  PROVE  Drained'
<1>1. PxMoves
  BY PxPosition DEF Types
<1>2. ~Sig!ScreenActive
  BY <1>1 DEF PxMoves, dma_reset, Where
<1>3. vga_state' = "idle" /\ ~fifo_read'
  BY <1>2, BlankEdge DEF Drained
<1>4. UNCHANGED <<age, inflight, burstcount, dma_state>>
  BY <1>1 DEF PxMoves, PxEdge, ReadSide, dmaVars, Dma!AssertReset, Dma!ReleaseReset
<1>5. InTime'
  BY <1>4, PxInTime DEF Drained
<1>6. ASSUME inflight # <<>> PROVE line_cnt' = VSyncFirst /\ Elapsed' <= age'
  <2>1. Elapsed < 2 * LineLast /\ line_cnt = VSyncFirst /\ Elapsed <= age
    BY <1>6, BackInTime DEF Drained
  <2>2. px_cnt \in Nat /\ LineLast \in Nat /\ Phase = 2 /\ Phase' = 0
    BY <1>1, Raster DEF PxMoves, Where, Phase
  <2>3. px_cnt' = px_cnt + 1 /\ line_cnt' = line_cnt
    BY <1>1, <2>1, <2>2 DEF PxMoves, Elapsed
  <2> QED
    BY <1>4, <2>1, <2>2, <2>3 DEF Elapsed
<1> QED
  BY <1>3, <1>4, <1>5, <1>6 DEF Drained

(* v_sync rises.                                                           *)
LEMMA PxReleases ==
  ASSUME Types, PxEdge, dma_reset, ~dma_reset'
  PROVE  /\ line_cnt = VSyncLimit - 1 /\ px_cnt = LineLast
         /\ line_cnt' = VSyncLimit /\ px_cnt' = 0 /\ px_clk' /\ ~px_due' /\ px_due
         /\ ~Sig!ScreenActive /\ ~Sig!ScreenActive'
         /\ Dma!ReleaseReset
<1>1. PxMoves
  BY PxPosition DEF Types
<1>2. ~Sig!VSync /\ Sig!VSync' /\ Where /\ Where' /\ px_clk' /\ ~px_due' /\ px_due
  BY <1>1 DEF PxMoves, dma_reset
<1>3. /\ line_cnt = VSyncLimit - 1 /\ px_cnt = LineLast
      /\ line_cnt' = VSyncLimit /\ px_cnt' = 0
  BY <1>1, <1>2, Raster DEF PxMoves, Where, Sig!VSync
<1>4. ~Sig!ScreenActive /\ ~Sig!ScreenActive'
  <2>1. ~Sig!ScreenActive
    BY <1>2 DEF Where
  <2>2. Sig!ScreenActive' => line_cnt' > VActAfter
    BY <1>2 DEF Where, Sig!ActiveWindow
  <2> QED
    BY <1>3, <2>1, <2>2, Raster
<1>5. Dma!ReleaseReset
  BY DEF PxEdge, ReadSide, Dma!AssertReset
<1> QED
  BY <1>2, <1>3, <1>4, <1>5

(* A frame that starts settled starts with everything in place.            *)
LEMMA PxStartsFrame ==
  ASSUME Types, Wired, PxEdge, dma_reset, ~dma_reset', settled'
  PROVE  Served'
<1>1. clean' /\ ~fifo_read
  <2>1. settled' = (clean' /\ ~fifo_read)
    BY DEF PxEdge
  <2> QED
    BY <2>1
<1>2. /\ line_cnt' = VSyncLimit /\ px_cnt' = 0 /\ px_clk'
      /\ ~Sig!ScreenActive /\ ~Sig!ScreenActive'
      /\ UNCHANGED <<fifo, rdpipe, wrpipe, broken, dma_state, inflight, popped>>
      /\ clean' = (inflight = <<>>)
  BY PxReleases DEF Dma!ReleaseReset, Dma!fifoVars, Dma!dmaRegs
<1>3. /\ fifo' = <<>> /\ ~broken' /\ dma_state' = "idle" /\ popped' = 0 /\ inflight' = <<>>
      /\ \A i \in 1 .. RdLag : ~rdpipe'[i]
      /\ \A i \in 0 .. WrLag : ~wrpipe'[i]
  BY <1>1, <1>2 DEF Wired, Cleared
<1>4. vga_state' = "idle" /\ pxcnt' = 0 /\ ~fifo_read'
  BY <1>1, <1>2, BlankEdge
<1>5. InPlace'
  <2>1. LinesDone' = 0
    BY <1>2, Raster DEF LinesDone
  <2>2. 0 = 0 * WordsPerLine
    BY Words
  <2> QED
    BY <1>2, <1>3, <1>4, <2>1, <2>2 DEF InPlace, Rests
<1>6. InOrder' /\ Pending'
  BY <1>3 DEF InOrder, Pending
<1>7. Room'
  <2>1. {i \in 0..WrLag : wrpipe'[i]} = {}
    BY <1>3
  <2>2. Dma!Late' = 0
    BY <2>1, FS_EmptySet, Counted
  <2>3. Asked' = 0 /\ Len(fifo') = 0 /\ Len(inflight') = 0
    BY <1>3 DEF Asked
  <2> QED
    BY <2>2, <2>3, Buffers DEF Room
<1>8. Starting'
  <2>1. Elapsed' = 0
    BY <1>2 DEF Elapsed, Phase
  <2> QED
    BY <1>2, <1>3, <2>1 DEF Starting
<1>9. InTime'
  BY <1>3 DEF InTime
<1> QED
  BY <1>1, <1>3, <1>5, <1>6, <1>7, <1>8, <1>9 DEF Served, Flow

(* A frame after a frame that was shown begins in order.                   *)
LEMMA PxGoesOn ==
  ASSUME FastEnough, Types, Wired, settled, Drained, PxEdge, dma_reset, ~dma_reset'
  PROVE  settled'
<1>1. settled' = (clean' /\ ~fifo_read)
  BY DEF PxEdge
<1>2. line_cnt = VSyncLimit - 1 /\ px_cnt = LineLast /\ px_due
      /\ clean' = (inflight = <<>>)
  BY PxReleases DEF Dma!ReleaseReset
<1>3. inflight = <<>>
  <2> SUFFICES ASSUME inflight # <<>> PROVE FALSE
    OBVIOUS
  <2>1. Elapsed < 2 * LineLast
    BY BackInTime
  <2>2. ~px_clk
    BY DEF PxEdge, Sig!PxRise
  <2> QED
    BY <1>2, <2>1, <2>2, Raster DEF Elapsed, Phase
<1> QED
  BY <1>1, <1>2, <1>3 DEF Drained

-----------------------------------------------------------------------------
(* An edge of clk50 within a frame.                                        *)
ClkMoves(valid) ==
  /\ UNCHANGED <<go, px_cnt, line_cnt, hactive, vactive, order,
                 vga_state, pxcnt, curr_segment, fifo_read>>
  /\ ~px_due /\ ~px_clk' /\ px_due' = ~px_clk
  /\ Dma!Clk50(valid) /\ Dma!EveryEdge(valid)
  /\ valid => inflight # <<>>
  /\ age' = IF Owing /\ Owing' THEN age + 1 ELSE 0

(* With the read master awake and the memory in time.                      *)
LEMMA ClkMaster ==
  ASSUME Types, Wired, settled, ~dma_reset, Clk50Edge
  PROVE  \E valid \in BOOLEAN : ClkMoves(valid)
<1>1. go /\ px_clk \in BOOLEAN
  BY Position DEF Wired, Types, Where
<1>2. PICK valid \in BOOLEAN : Dma!Clk50(valid)
  BY DEF Clk50Edge, ResetEdge
<1>3. Dma!EveryEdge(valid) /\ (valid => inflight # <<>>)
  BY <1>2 DEF Dma!Clk50, Dma!Idle, Dma!NoSpace, Dma!ReadingWaits, Dma!ReadingAccepted,
              Dma!Complete, Dma!EveryEdge
<1>4. /\ UNCHANGED <<go, px_cnt, line_cnt, hactive, vactive, order,
                     vga_state, pxcnt, curr_segment, fifo_read>>
      /\ ~px_due /\ ~px_clk' /\ px_due' = ~px_clk
  BY <1>1 DEF Clk50Edge, vgaVars
<1>5. age' = IF Owing /\ Owing' THEN age + 1 ELSE 0
  BY DEF Clk50Edge
<1> QED
  BY <1>2, <1>3, <1>4, <1>5 DEF ClkMoves

(* Time goes on by one edge.                                               *)
LEMMA ClkTime ==
  ASSUME Types, NEW valid, ClkMoves(valid)
  PROVE  /\ Phase \in {0, 1} /\ Phase' = Phase + 1
         /\ Elapsed \in Nat /\ Elapsed' = Elapsed + 1
         /\ NextPop \in Nat /\ NextPop >= 1 /\ NextPop' = NextPop
<1>1. px_cnt \in Nat /\ px_clk \in BOOLEAN
  BY Position, Raster DEF Types, Where
<1>2. ~px_due /\ ~px_clk' /\ px_due' = ~px_clk /\ px_cnt' = px_cnt
  BY DEF ClkMoves
<1>3. Phase \in {0, 1} /\ Phase' = Phase + 1
  <2>1. CASE px_clk
    <3>1. ~px_due'
      BY <1>2, <2>1, Zenon
    <3> QED
      BY <1>2, <2>1, <3>1 DEF Phase
  <2>2. CASE ~px_clk
    <3>1. px_due'
      BY <1>2, <2>2, Zenon
    <3> QED
      BY <1>2, <2>2, <3>1 DEF Phase
  <2> QED
    BY <1>1, <2>1, <2>2
<1>4. NextPop \in Nat /\ NextPop >= 1
  BY Words DEF NextPop, Types
<1>5. NextPop' = NextPop
  BY DEF ClkMoves, NextPop
<1> QED
  BY <1>1, <1>2, <1>3, <1>4, <1>5 DEF Elapsed

(* A word moves from the bus to the FIFO, which has room for it.           *)
Moved(valid) ==
  /\ ~broken' /\ clean' = clean /\ popped' = popped
  /\ fifo' \in Seq(Nat) /\ Len(fifo') = Len(fifo) + Bit(valid)
  /\ \A i \in 1 .. Len(fifo) : fifo'[i] = fifo[i]
  /\ valid => Len(inflight) >= 1 /\ fifo'[Len(fifo) + 1] = inflight[1]
  /\ Dma!Rest(valid) \in Seq(Nat) /\ Len(Dma!Rest(valid)) = Len(inflight) - Bit(valid)
  /\ \A i \in 1 .. Len(Dma!Rest(valid)) : Dma!Rest(valid)[i] = inflight[Bit(valid) + i]
  /\ Dma!Late' \in Nat /\ Dma!Late' <= Dma!Late
  /\ (\A i \in 0 .. WrLag : ~wrpipe[i]) => \A i \in 0 .. WrLag : ~wrpipe'[i]
  /\ ~valid /\ (\A i \in 1 .. RdLag : ~rdpipe[i]) => \A i \in 1 .. RdLag : ~rdpipe'[i]

(* A sequence and another one behind it.                                   *)
LEMMA Concatenation ==
  ASSUME NEW s \in Seq(Nat), NEW t \in Seq(Nat)
  PROVE  /\ s \o t \in Seq(Nat) /\ Len(s \o t) = Len(s) + Len(t)
         /\ \A i \in 1..Len(s) : (s \o t)[i] = s[i]
         /\ \A i \in 1..Len(t) : (s \o t)[Len(s) + i] = t[i]
OBVIOUS

(* A frame that is served has room for the word that arrives.              *)
LEMMA ClkMoved ==
  ASSUME FastEnough, Types, Served, NEW valid \in BOOLEAN, ClkMoves(valid)
  PROVE  Moved(valid)
<1>1. /\ fifo \in Seq(Nat) /\ inflight \in Seq(Nat) /\ ~broken
      /\ Dma!FifoWrClk(Dma!Beat(valid)) /\ clean' = clean /\ popped' = popped
      /\ (valid => inflight # <<>>)
  BY DEF Types, Served, ClkMoves, Dma!EveryEdge
<1>2. /\ Dma!Beat(valid) \in Seq(Nat) /\ Len(Dma!Beat(valid)) = Bit(valid)
      /\ Dma!Rest(valid) \in Seq(Nat) /\ Len(Dma!Rest(valid)) = Len(inflight) - Bit(valid)
      /\ \A i \in 1 .. Len(Dma!Rest(valid)) : Dma!Rest(valid)[i] = inflight[Bit(valid) + i]
  BY <1>1, BeatRest
<1>3. Bit(valid) \in {0, 1} /\ (valid => Len(inflight) >= 1) /\ Bit(valid) <= Len(inflight)
  BY <1>1 DEF Bit
<1>4. ~(Len(fifo) + Len(Dma!Beat(valid)) > DEPTH)
  <2>1. Len(fifo) + Len(inflight) <= BUFFERWIDTH
    <3>1. Asked \in Nat /\ Dma!Late \in Nat /\ Len(fifo) \in Nat /\ Len(inflight) \in Nat
      BY <1>1, Buffers, LateBound DEF Asked, Types
    <3> QED
      BY <3>1, Buffers DEF Served, Flow, Room
  <2> QED
    BY <1>1, <1>2, <1>3, <2>1, Sizes, Buffers
<1>5. ~broken'
  BY <1>1, <1>4, Zenon DEF Dma!FifoWrClk
<1>6. fifo' = fifo \o Dma!Beat(valid)
  BY <1>1, <1>5, Zenon DEF Dma!FifoWrClk
<1>7. /\ fifo' \in Seq(Nat) /\ Len(fifo') = Len(fifo) + Bit(valid)
      /\ \A i \in 1 .. Len(fifo) : fifo'[i] = fifo[i]
      /\ \A i \in 1 .. Bit(valid) : fifo'[Len(fifo) + i] = Dma!Beat(valid)[i]
  <2>1. /\ fifo \o Dma!Beat(valid) \in Seq(Nat)
        /\ Len(fifo \o Dma!Beat(valid)) = Len(fifo) + Len(Dma!Beat(valid))
        /\ \A i \in 1 .. Len(fifo) : (fifo \o Dma!Beat(valid))[i] = fifo[i]
        /\ \A i \in 1 .. Len(Dma!Beat(valid)) :
             (fifo \o Dma!Beat(valid))[Len(fifo) + i] = Dma!Beat(valid)[i]
    BY <1>1, <1>2, Concatenation
  <2> QED
    BY <1>2, <1>6, <2>1, Zenon
<1>8. valid => fifo'[Len(fifo) + 1] = inflight[1]
  <2> SUFFICES ASSUME valid PROVE fifo'[Len(fifo) + 1] = inflight[1]
    OBVIOUS
  <2>1. Dma!Beat(valid)[1] = inflight[1] /\ Bit(valid) = 1
    BY <1>1 DEF Dma!Beat, Bit
  <2>2. 1 \in 1 .. Bit(valid)
    <3>1. 1 \in 1 .. 1
      OBVIOUS
    <3> QED
      BY <2>1, <3>1, Zenon
  <2> QED
    BY <1>7, <2>1, <2>2, Zenon
<1>9. Dma!Late' \in Nat /\ Dma!Late' <= Dma!Late
  BY <1>1, LateFalls
<1>10. (\A i \in 0 .. WrLag : ~wrpipe[i]) => \A i \in 0 .. WrLag : ~wrpipe'[i]
  <2> SUFFICES ASSUME \A i \in 0 .. WrLag : ~wrpipe[i], NEW i \in 0 .. WrLag PROVE ~wrpipe'[i]
    OBVIOUS
  <2>1. wrpipe'[i] => i > 0 /\ wrpipe[i - 1]
    BY <1>1 DEF Dma!FifoWrClk
  <2>2. i > 0 => i - 1 \in 0 .. WrLag
    BY Buffers
  <2> QED
    BY <2>1, <2>2
<1>11. ~valid /\ (\A i \in 1 .. RdLag : ~rdpipe[i]) => \A i \in 1 .. RdLag : ~rdpipe'[i]
  <2> SUFFICES ASSUME ~valid, \A i \in 1 .. RdLag : ~rdpipe[i], NEW i \in 1 .. RdLag
               PROVE  ~rdpipe'[i]
    OBVIOUS
  <2>1. Dma!Beat(valid) = <<>>
    BY DEF Dma!Beat
  <2>2. rdpipe'[i] => i # 1 /\ rdpipe[i - 1]
    BY <1>1, <2>1 DEF Dma!FifoWrClk
  <2>3. i # 1 => i - 1 \in 1 .. RdLag
    BY Buffers
  <2> QED
    BY <2>2, <2>3
<1> QED
  BY <1>1, <1>2, <1>3, <1>5, <1>7, <1>8, <1>9, <1>10, <1>11 DEF Moved

(* The stock falls by the edge, and rises by what the word is worth.       *)
LEMMA StockRises ==
  ASSUME Types, NEW valid \in BOOLEAN, ClkMoves(valid), Moved(valid)
  PROVE  /\ Stock \in Int /\ Stock' \in Int
         /\ Stock' = Stock - 1 + 2 * PXPERREAD * Bit(valid)
         /\ Bit(valid) = 1 => Stock' = Stock - 1 + 2 * PXPERREAD
<1>1. Len(fifo) \in Nat /\ Len(fifo') = Len(fifo) + Bit(valid) /\ Bit(valid) \in {0, 1}
  BY DEF Types, Moved, Bit
<1>2. /\ Worth(Len(fifo)) \in Nat /\ Worth(Len(fifo) + 1) = Worth(Len(fifo)) + 2 * PXPERREAD
      /\ Worth(Len(fifo) + 0) = Worth(Len(fifo))
  BY <1>1, Paces
<1>3. Stock' = Worth(Len(fifo')) + 2 * NextPop' - Phase'
  BY DEF Stock, Worth
<1>4. PXPERREAD \in Nat
  BY Words
<1>5. CASE Bit(valid) = 0
  BY <1>1, <1>2, <1>3, <1>4, <1>5, ClkTime DEF Stock
<1>6. CASE Bit(valid) = 1
  BY <1>1, <1>2, <1>3, <1>4, <1>6, ClkTime DEF Stock
<1> QED
  BY <1>1, <1>5, <1>6

(* The stored words and those on the bus stay in order.                    *)
LEMMA MovedOrder ==
  ASSUME Types, Served, NEW valid \in BOOLEAN, Moved(valid), dma_state # "idle"
  PROVE  /\ \A i \in 1 .. Len(fifo') : fifo'[i] = frame_base + popped + i - 1
         /\ \A i \in 1 .. Len(Dma!Rest(valid)) :
              Dma!Rest(valid)[i] = frame_base + popped + Len(fifo') + i - 1
         /\ address = frame_base + popped + Len(fifo') + Len(Dma!Rest(valid))
<1>1. /\ \A i \in 1 .. Len(fifo) : fifo[i] = frame_base + popped + i - 1
      /\ \A i \in 1 .. Len(inflight) : inflight[i] = frame_base + popped + Len(fifo) + i - 1
      /\ address = frame_base + popped + Len(fifo) + Len(inflight)
  BY DEF Served, Flow, InOrder
<1>2. /\ Len(fifo) \in Nat /\ Len(inflight) \in Nat /\ popped \in Nat /\ frame_base \in Nat
      /\ Bit(valid) \in {0, 1} /\ (valid <=> Bit(valid) = 1)
  BY Buffers DEF Types, Bit
<1>3. /\ Len(fifo') = Len(fifo) + Bit(valid)
      /\ \A i \in 1 .. Len(fifo) : fifo'[i] = fifo[i]
      /\ valid => Len(inflight) >= 1 /\ fifo'[Len(fifo) + 1] = inflight[1]
      /\ Len(Dma!Rest(valid)) = Len(inflight) - Bit(valid)
      /\ \A i \in 1 .. Len(Dma!Rest(valid)) : Dma!Rest(valid)[i] = inflight[Bit(valid) + i]
  BY DEF Moved
<1>4. ASSUME NEW i \in 1 .. Len(fifo') PROVE fifo'[i] = frame_base + popped + i - 1
  <2>1. CASE i \in 1 .. Len(fifo)
    BY <1>1, <1>3, <2>1
  <2>2. CASE i \notin 1 .. Len(fifo)
    <3>1. i = Len(fifo) + 1 /\ valid
      BY <1>2, <1>3, <2>2
    <3>2. 1 \in 1 .. Len(inflight)
      BY <1>2, <1>3, <3>1
    <3>3. inflight[1] = frame_base + popped + Len(fifo) + 1 - 1
      BY <1>1, <3>2
    <3> QED
      BY <1>2, <1>3, <3>1, <3>3
  <2> QED
    BY <2>1, <2>2
<1>5. ASSUME NEW i \in 1 .. Len(Dma!Rest(valid))
      PROVE  Dma!Rest(valid)[i] = frame_base + popped + Len(fifo') + i - 1
  <2>1. Bit(valid) + i \in 1 .. Len(inflight)
    BY <1>2, <1>3
  <2>2. inflight[Bit(valid) + i] = frame_base + popped + Len(fifo) + (Bit(valid) + i) - 1
    BY <1>1, <2>1
  <2> QED
    BY <1>2, <1>3, <2>2
<1>6. address = frame_base + popped + Len(fifo') + Len(Dma!Rest(valid))
  BY <1>1, <1>2, <1>3
<1> QED
  BY <1>4, <1>5, <1>6

(* No pixel is due at an edge of clk50.                                    *)
LEMMA ClkInPlace ==
  ASSUME Types, Served, NEW valid \in BOOLEAN, ClkMoves(valid), Moved(valid)
  PROVE  InPlace'
<1>1. /\ UNCHANGED <<px_cnt, line_cnt, hactive, vactive, order,
                     vga_state, pxcnt, curr_segment, fifo_read>>
      /\ popped' = popped
  BY DEF ClkMoves, Moved
<1>2. /\ Sig!ScreenActive' = Sig!ScreenActive /\ Column' = Column /\ Row' = Row
      /\ LinesDone' = LinesDone
  BY <1>1 DEF Sig!ScreenActive, Column, Row, LinesDone, Sig!Lag
<1>3. CASE Sig!ScreenActive
  <2>1. dma_state # "idle"
    BY <1>3, ActiveSupplied DEF Supplied
  <2>2. frame_base' = frame_base
    BY <2>1 DEF ClkMoves, Dma!Clk50, Dma!Idle, Dma!NoSpace, Dma!ReadingWaits,
                Dma!ReadingAccepted, Dma!Complete
  <2> QED
    BY <1>1, <1>2, <2>2 DEF Served, InPlace, Shows, Rests
<1>4. CASE ~Sig!ScreenActive
  BY <1>1, <1>2, <1>4 DEF Served, InPlace, Rests
<1> QED
  BY <1>3, <1>4

(* The frame begins: the base register is read.                            *)
LEMMA ClkIdle ==
  ASSUME FastEnough, Types, Wired, Served, NEW valid \in BOOLEAN, ClkMoves(valid), Moved(valid),
         Dma!Idle(valid)
  PROVE  InTime' => Flow'
<1>1. /\ dma_state = "idle" /\ dma_state' = "nospace" /\ address' = ctrl_fb_base
      /\ frame_base' = ctrl_fb_base /\ inflight' = Dma!Rest(valid)
  BY DEF Dma!Idle
<1>2. Starting /\ ~Supplied
  BY <1>1 DEF Served, Flow, Supplied
<1>3. /\ fifo = <<>> /\ inflight = <<>> /\ Elapsed = 0 /\ line_cnt = VSyncLimit
      /\ ~valid
  BY <1>1, <1>2 DEF Served, Flow, InOrder, Starting, ClkMoves
<1>4. Bit(valid) = 0 /\ Len(fifo') = 0 /\ Len(inflight') = 0
  BY <1>1, <1>3 DEF Moved, Bit
<1>5. fifo' = <<>> /\ inflight' = <<>>
  BY <1>1, <1>4 DEF Moved
<1>6. popped' = 0
  <2>1. ~Sig!ScreenActive
    BY <1>2, ActiveSupplied
  <2>2. popped = LinesDone * WordsPerLine
    BY <2>1 DEF Served, InPlace, Rests
  <2>3. LinesDone = 0
    BY <1>3, Raster DEF LinesDone
  <2> QED
    BY <2>2, <2>3, Words DEF Moved
<1>7. InOrder' /\ Pending'
  <2>1. ctrl_fb_base \in Nat
    BY Buffers DEF Types
  <2> QED
    BY <1>1, <1>5, <1>6, <2>1 DEF InOrder, Pending
<1>8. Room'
  <2>1. Dma!Late = 0
    BY <1>2, NothingLate DEF Starting
  <2>2. Dma!Late' = 0 /\ Asked' = 0
    BY <1>1, <2>1 DEF Moved, Asked
  <2> QED
    BY <1>4, <2>2, Buffers DEF Room
<1>9. Starting'
  <2>1. /\ line_cnt' = VSyncLimit /\ Elapsed' = 1
        /\ (\A i \in 0 .. WrLag : ~wrpipe'[i]) /\ (\A i \in 1 .. RdLag : ~rdpipe'[i])
    BY <1>1, <1>2, <1>3, ClkTime DEF Starting, ClkMoves, Moved
  <2> QED
    BY <1>1, <1>5, <2>1 DEF Starting
<1> QED
  BY <1>7, <1>8, <1>9 DEF Flow

(* The master looks for space: it asks for a FIFO of words when there is   *)
(* none, for half a FIFO when no more than half is used.                   *)
LEMMA ClkNoSpace ==
  ASSUME FastEnough, Types, Wired, Served, NEW valid \in BOOLEAN, ClkMoves(valid), Moved(valid),
         Dma!NoSpace(valid)
  PROVE  InTime' => Flow'
<1>1. /\ dma_state = "nospace" /\ address' = address /\ frame_base' = frame_base
      /\ inflight' = Dma!Rest(valid) /\ popped' = popped
  BY DEF Dma!NoSpace, Moved
<1>2. inflight = <<>> /\ ~valid /\ Bit(valid) = 0
  BY <1>1 DEF Served, Flow, Pending, ClkMoves, Bit
<1>3. /\ Len(fifo') = Len(fifo) /\ Len(fifo) \in Nat /\ inflight' \in Seq(Nat) /\ Len(inflight') = 0
      /\ Dma!Late' \in Nat /\ Dma!Late' <= Dma!Late
  BY <1>1, <1>2 DEF Moved, Types
<1>4. inflight' = <<>>
  BY <1>3
<1>5. dma_state' \in {"nospace", "reading"}
  BY DEF Dma!NoSpace
<1>6. InOrder'
  <2>1. /\ \A i \in 1 .. Len(fifo') : fifo'[i] = frame_base + popped + i - 1
        /\ address = frame_base + popped + Len(fifo') + Len(Dma!Rest(valid))
    BY <1>1, MovedOrder
  <2>2. 1 .. Len(inflight') = {} /\ Len(inflight') = Len(Dma!Rest(valid))
    BY <1>1, <1>3
  <2>3. address' = frame_base' + popped' + Len(fifo') + Len(inflight')
    BY <1>1, <2>1, <2>2
  <2> QED
    BY <1>1, <1>5, <2>1, <2>2, <2>3 DEF InOrder
<1>7. px_clk \in BOOLEAN /\ BUFFERWIDTH \in Nat /\ Dma!Half \in Nat
      /\ 2 * Dma!Half <= BUFFERWIDTH /\ Dma!Late \in 0 .. WrLag + 1
      /\ RdLag \in Nat /\ WrLag \in Nat
  BY Position, Buffers, LateBound DEF Types, Where
<1>8. Len(fifo) + Dma!Late <= BUFFERWIDTH
  <2>1. Asked = 0
    BY <1>1 DEF Asked
  <2> QED
    BY <1>2, <1>3, <1>7, <2>1 DEF Served, Flow, Room
<1>9. CASE Supplied
  <2>1. Dma!RdEmptyOutcomes = {FALSE}
    BY <1>9, Enough DEF Served
  <2>2. Dma!WrUsedWOutcomes = {Len(fifo) + Dma!Late}
    <3>1. (Len(fifo) + Dma!Late) % DEPTH = Len(fifo) + Dma!Late
      <4>1. BUFFERWIDTH < DEPTH /\ DEPTH \in Nat
        BY Buffers DEF FastEnough
      <4>2. Len(fifo) + Dma!Late \in 0 .. DEPTH - 1
        BY <1>3, <1>7, <1>8, <4>1
      <4> QED
        BY <4>1, <4>2
    <3> QED
      BY <3>1 DEF Dma!WrUsedWOutcomes, Served
  <2>3. \/ /\ Len(fifo) + Dma!Late <= Dma!Half
           /\ burstcount' = Dma!Half /\ dma_state' = "reading"
        \/ /\ Len(fifo) + Dma!Late > Dma!Half
           /\ burstcount' = burstcount /\ dma_state' = "nospace"
    BY <1>1, <2>1, <2>2 DEF Dma!NoSpace
  <2>4. /\ Stock > Target /\ Stock' = Stock - 1 /\ Stock \in Int
        /\ Target \in Nat /\ Least \in Nat /\ Target >= Least
        /\ Target' = Target /\ Least' = Least
    <3>1. Worth(Len(fifo)) \in Nat /\ Worth(Len(fifo))' = Worth(Len(fifo))
      BY <1>3, Paces DEF Worth
    <3>2. Stock \in Int /\ Stock' = Stock - 1
      BY <3>1, ClkTime DEF Stock
    <3> QED
      BY <1>1, <1>9, <3>2, Sizes DEF Supplied, Target, Least, Worth, Due
  <2>5. age' = 0
    BY <1>1, <1>2 DEF ClkMoves, Owing
  <2>6. CASE dma_state' = "reading"
    <3>1. burstcount' = Dma!Half /\ Len(fifo) + Dma!Late <= Dma!Half
      BY <2>3, <2>6
    <3>2. Pending'
      BY <1>4, <2>6, <3>1 DEF Pending
    <3>3. Room'
      BY <1>3, <1>4, <1>7, <2>6, <3>1 DEF Room, Asked
    <3>4. Supplied'
      BY <2>4, <2>5, <2>6 DEF Supplied
    <3> QED
      BY <1>6, <3>2, <3>3, <3>4 DEF Flow
  <2>7. CASE dma_state' = "nospace"
    <3>1. Len(fifo) + Dma!Late > Dma!Half
      BY <2>3, <2>7
    <3>2. Pending'
      BY <1>4, <2>7 DEF Pending
    <3>3. Room'
      BY <1>3, <1>4, <1>7, <1>8, <2>7 DEF Room, Asked
    <3>4. Supplied'
      <4>1. Worth(Len(fifo')) >= Worth(Dma!Half - WrLag) /\ Worth(Dma!Half - WrLag) > Target
            /\ Worth(Len(fifo')) \in Nat /\ Worth(Dma!Half - WrLag) \in Nat
        <5>1. Dma!Half - WrLag \in Nat /\ Worth(Dma!Half - WrLag) > Target
          BY <1>7 DEF FastEnough
        <5>2. Len(fifo') \in Nat /\ Len(fifo') >= Dma!Half - WrLag
          BY <1>3, <1>7, <3>1
        <5> QED
          BY <5>1, <5>2, Paces
      <4>2. Stock' = Worth(Len(fifo')) + 2 * NextPop' - Phase'
        BY DEF Stock, Worth
      <4>3. Stock' > Target
        BY <2>4, <4>1, <4>2, ClkTime
      <4> QED
        BY <2>4, <2>7, <4>3 DEF Supplied
    <3> QED
      BY <1>6, <3>2, <3>3, <3>4 DEF Flow
  <2> QED
    BY <1>5, <2>6, <2>7
<1>10. CASE Starting /\ ~Supplied
  <2>1. /\ fifo = <<>> /\ Elapsed = 1 /\ line_cnt = VSyncLimit
        /\ (\A i \in 1 .. RdLag : ~rdpipe[i]) /\ (\A i \in 0 .. WrLag : ~wrpipe[i])
    BY <1>1, <1>10 DEF Starting
  <2>2. Dma!Hidden = 0 /\ Dma!Late = 0 /\ Len(fifo) = 0
    BY <2>1, NothingHidden, NothingLate
  <2>3. Dma!RdEmptyOutcomes = {TRUE}
    BY <2>2 DEF Dma!RdEmptyOutcomes, Served
  <2>4. burstcount' = BUFFERWIDTH /\ dma_state' = "reading"
    BY <2>3 DEF Dma!NoSpace
  <2>5. fifo' = <<>>
    BY <1>3, <2>2 DEF Moved
  <2>6. Pending'
    BY <1>4, <2>4 DEF Pending
  <2>7. Room'
    <3>1. Asked' = BUFFERWIDTH
      BY <2>4 DEF Asked
    <3>2. Dma!Late' = 0 /\ Len(fifo') = 0
      BY <1>3, <2>2
    <3> QED
      BY <1>3, <1>7, <3>1, <3>2 DEF Room
  <2>8. Starting'
    <3>1. /\ line_cnt' = VSyncLimit /\ Elapsed' = 2
          /\ (\A i \in 0 .. WrLag : ~wrpipe'[i]) /\ (\A i \in 1 .. RdLag : ~rdpipe'[i])
      BY <1>2, <2>1, ClkTime DEF ClkMoves, Moved
    <3>2. age' = 0
      BY <1>1, <1>2 DEF ClkMoves, Owing
    <3> QED
      BY <2>4, <2>5, <3>1, <3>2 DEF Starting
  <2> QED
    BY <1>6, <2>6, <2>7, <2>8 DEF Flow
<1> QED
  BY <1>9, <1>10 DEF Served, Flow

(* The request waits, but not too long.                                    *)
LEMMA ClkWaits ==
  ASSUME FastEnough, Types, Wired, Served, NEW valid \in BOOLEAN, ClkMoves(valid), Moved(valid),
         Dma!ReadingWaits(valid)
  PROVE  InTime' => Flow'
<1>1. /\ dma_state = "reading" /\ dma_state' = "reading" /\ burstcount' = burstcount
      /\ address' = address /\ frame_base' = frame_base
      /\ inflight' = Dma!Rest(valid) /\ popped' = popped
  BY DEF Dma!ReadingWaits, Moved
<1>2. inflight = <<>> /\ ~valid /\ Bit(valid) = 0
  BY <1>1 DEF Served, Flow, Pending, ClkMoves, Bit
<1>3. /\ Len(fifo') = Len(fifo) /\ Len(fifo) \in Nat /\ inflight' \in Seq(Nat) /\ Len(inflight') = 0
      /\ Dma!Late' \in Nat /\ Dma!Late' <= Dma!Late /\ Dma!Late \in Nat
      /\ Len(inflight) = 0
  BY <1>1, <1>2, LateBound, Buffers DEF Moved, Types
<1>4. inflight' = <<>>
  BY <1>3
<1>6. InOrder'
  <2>1. /\ \A i \in 1 .. Len(fifo') : fifo'[i] = frame_base + popped + i - 1
        /\ address = frame_base + popped + Len(fifo') + Len(Dma!Rest(valid))
    BY <1>1, MovedOrder
  <2>2. 1 .. Len(inflight') = {} /\ Len(inflight') = Len(Dma!Rest(valid))
    BY <1>1, <1>3
  <2>3. address' = frame_base' + popped' + Len(fifo') + Len(inflight')
    BY <1>1, <2>1, <2>2
  <2> QED
    BY <1>1, <2>1, <2>2, <2>3 DEF InOrder
<1>7. Pending'
  BY <1>1, <1>4 DEF Pending, Served, Flow
<1>8. Room'
  <2>1. Asked' = burstcount /\ Asked = burstcount /\ burstcount \in Nat /\ BUFFERWIDTH \in Nat
    BY <1>1, Buffers DEF Asked, Types
  <2> QED
    BY <1>3, <2>1 DEF Served, Flow, Room
<1>9. line_cnt' = line_cnt /\ age' = age + 1 /\ age \in Nat
  BY <1>1 DEF ClkMoves, Owing, Types
<1>10. CASE Supplied
  <2> SUFFICES ASSUME InTime' PROVE Flow'
    OBVIOUS
  <2>1. Stock >= Target - age /\ Stock' = Stock - 1 /\ Stock \in Int
    <3>1. Stock >= Target - age
      BY <1>1, <1>10 DEF Supplied
    <3>2. Worth(Len(fifo)) \in Nat /\ Worth(Len(fifo))' = Worth(Len(fifo))
      BY <1>3, Paces DEF Worth
    <3> QED
      BY <3>1, <3>2, ClkTime DEF Stock
  <2>2. age' + 1 < Due(1)
    BY <1>1 DEF InTime, Due
  <2>3. /\ Due(1) = LATENCY + GAP /\ LATENCY \in Nat /\ GAP \in Nat
        /\ Target = Least + LATENCY + GAP - 1 /\ Least \in Nat
        /\ Target' = Target /\ Least' = Least
    BY Sizes DEF Due, Target, Least, Worth
  <2>4. Stock' >= Target - age' /\ Stock' >= Least
    BY <1>9, <2>1, <2>2, <2>3
  <2> QED
    BY <1>1, <1>6, <1>7, <1>8, <2>3, <2>4 DEF Supplied, Flow
<1>11. CASE Starting
  <2>1. fifo' = <<>>
    BY <1>1, <1>3, <1>11 DEF Moved, Starting
  <2>2. Elapsed' = age' + 2
    BY <1>1, <1>9, <1>11, ClkTime DEF Starting
  <2>3. Starting'
    BY <1>1, <1>2, <1>9, <1>11, <2>1, <2>2 DEF Starting, Moved
  <2> QED
    BY <1>6, <1>7, <1>8, <2>3 DEF Flow
<1> QED
  BY <1>10, <1>11 DEF Served, Flow

(* The request is accepted: the words of the burst follow in order.        *)
LEMMA ClkAccepted ==
  ASSUME FastEnough, Types, Wired, Served, NEW valid \in BOOLEAN, ClkMoves(valid), Moved(valid),
         Dma!ReadingAccepted(valid)
  PROVE  InTime' => Flow'
<1>1. /\ dma_state = "reading" /\ dma_state' = "complete" /\ burstcount' = burstcount
      /\ address' = address + burstcount /\ frame_base' = frame_base
      /\ inflight' = Dma!Rest(valid) \o Dma!Burst(address, burstcount) /\ popped' = popped
      /\ pending_reads' = IF valid THEN burstcount - 1 ELSE burstcount
  BY DEF Dma!ReadingAccepted, Moved
<1>2. inflight = <<>> /\ ~valid /\ Bit(valid) = 0
  BY <1>1 DEF Served, Flow, Pending, ClkMoves, Bit
<1>3. /\ Len(fifo') = Len(fifo) /\ Len(fifo) \in Nat
      /\ Dma!Rest(valid) \in Seq(Nat) /\ Len(Dma!Rest(valid)) = 0
      /\ Dma!Late' \in Nat /\ Dma!Late' <= Dma!Late /\ Dma!Late \in Nat
      /\ Len(inflight) = 0
  BY <1>1, <1>2, LateBound, Buffers DEF Moved, Types
<1>4. /\ burstcount \in Nat /\ burstcount > 0 /\ address \in Nat
      /\ burstcount \in {Dma!Half, BUFFERWIDTH} /\ BUFFERWIDTH \in Nat
  BY <1>1, Buffers DEF Types, Served, Flow, Pending
<1>5. /\ inflight' \in Seq(Nat) /\ Len(inflight') = burstcount
      /\ \A i \in 1 .. burstcount : inflight'[i] = address + i - 1
  <2>1. /\ Dma!Burst(address, burstcount) \in Seq(Nat)
        /\ Len(Dma!Burst(address, burstcount)) = burstcount
        /\ \A i \in 1 .. burstcount : Dma!Burst(address, burstcount)[i] = address + i - 1
    BY <1>4 DEF Dma!Burst
  <2>2. Dma!Rest(valid) = <<>>
    BY <1>3
  <2>3. inflight' = Dma!Burst(address, burstcount)
    BY <1>1, <2>1, <2>2
  <2> QED
    BY <2>1, <2>3
<1>6. InOrder'
  <2>1. /\ \A i \in 1 .. Len(fifo') : fifo'[i] = frame_base + popped + i - 1
        /\ address = frame_base + popped + Len(fifo') + Len(Dma!Rest(valid))
    BY <1>1, MovedOrder
  <2>2. address = frame_base + popped + Len(fifo') /\ frame_base \in Nat /\ popped \in Nat
    BY <1>3, <2>1, Buffers DEF Types
  <2>3. \A i \in 1 .. Len(inflight') :
          inflight'[i] = frame_base' + popped' + Len(fifo') + i - 1
    BY <1>1, <1>5, <2>2
  <2>4. address' = frame_base' + popped' + Len(fifo') + Len(inflight')
    BY <1>1, <1>5, <2>2
  <2> QED
    BY <1>1, <2>1, <2>3, <2>4 DEF InOrder
<1>7. Pending'
  <2>1. inflight' # <<>> /\ pending_reads' = Len(inflight')
    BY <1>1, <1>2, <1>4, <1>5
  <2> QED
    BY <1>1, <1>4, <1>5, <2>1 DEF Pending
<1>8. Room'
  <2>1. Asked' = 0 /\ Asked = burstcount
    BY <1>1 DEF Asked
  <2> QED
    BY <1>3, <1>4, <1>5, <2>1 DEF Served, Flow, Room
<1>9. line_cnt' = line_cnt /\ age' = age + 1 /\ age \in Nat /\ inflight' # <<>>
  BY <1>1, <1>4, <1>5 DEF ClkMoves, Owing, Types
<1>10. CASE Supplied
  <2> SUFFICES ASSUME InTime' PROVE Flow'
    OBVIOUS
  <2>1. Stock >= Target - age /\ Stock' = Stock - 1 /\ Stock \in Int
    <3>1. Stock >= Target - age
      BY <1>1, <1>10 DEF Supplied
    <3>2. Worth(Len(fifo)) \in Nat /\ Worth(Len(fifo))' = Worth(Len(fifo))
      BY <1>3, Paces DEF Worth
    <3> QED
      BY <3>1, <3>2, ClkTime DEF Stock
  <2>2. burstcount' - Len(inflight') = 0
    BY <1>1, <1>4, <1>5
  <2>3. age' < Due(1)
    <3>1. age' < Due(burstcount' - Len(inflight') + 1)
      BY <1>9 DEF InTime, Due
    <3> QED
      BY <2>2, <3>1
  <2>4. /\ Due(1) = LATENCY + GAP /\ LATENCY \in Nat /\ GAP \in Nat
        /\ Target = Least + LATENCY + GAP - 1 /\ Least \in Nat
        /\ Target' = Target /\ Least' = Least
    BY Sizes DEF Due, Target, Least, Worth
  <2>5. Stock' >= Target - age' + Worth(0) /\ Stock' >= Least
    BY <1>9, <2>1, <2>3, <2>4, Paces
  <2>6. Stock' >= Target' - age' + Worth(burstcount' - Len(inflight'))
    BY <2>2, <2>4, <2>5
  <2> QED
    BY <1>1, <1>6, <1>7, <1>8, <2>4, <2>5, <2>6 DEF Supplied, Flow, Worth
<1>11. CASE Starting
  <2>1. Len(fifo) = 0 /\ burstcount = BUFFERWIDTH
    BY <1>1, <1>11 DEF Starting
  <2>2. line_cnt' = VSyncLimit /\ (\A i \in 0 .. WrLag : ~wrpipe'[i]) /\ Elapsed' = age' + 2
    BY <1>1, <1>9, <1>11, ClkTime DEF Starting, Moved
  <2>3. Len(fifo') = 0 /\ Len(inflight') = BUFFERWIDTH /\ burstcount' = BUFFERWIDTH
    BY <1>1, <1>3, <1>5, <2>1
  <2>4. Len(fifo') = BUFFERWIDTH - Len(inflight')
    BY <1>4, <2>3
  <2>5. Starting'
    BY <1>1, <2>2, <2>3, <2>4 DEF Starting
  <2> QED
    BY <1>6, <1>7, <1>8, <2>5 DEF Flow
<1> QED
  BY <1>10, <1>11 DEF Served, Flow

(* pending_reads counts down to the last word, and does not wrap before.   *)
LEMMA Countdown ==
  ASSUME Types, NEW valid \in BOOLEAN, pending_reads >= 1
  PROVE  Dma!Decremented(valid) = pending_reads - Bit(valid)
<1>1. pending_reads \in Nat /\ pending_reads <= BUFFERWIDTH /\ BUFFERWIDTH \in Nat
  BY Buffers DEF Types
<1>2. CASE valid
  <2>1. pending_reads + BUFFERWIDTH = (BUFFERWIDTH + 1) * 1 + (pending_reads - 1)
    BY <1>1
  <2>2. (pending_reads + BUFFERWIDTH) % (BUFFERWIDTH + 1) = pending_reads - 1
    BY <1>1, <2>1
  <2> QED
    BY <1>2, <2>2 DEF Dma!Decremented, Bit
<1>3. CASE ~valid
  BY <1>1, <1>3 DEF Dma!Decremented, Bit
<1> QED
  BY <1>2, <1>3

(* A word of the burst arrives or not; the last one lets the master look   *)
(* for space again.                                                        *)
LEMMA ClkComplete ==
  ASSUME FastEnough, Types, Wired, Served, NEW valid \in BOOLEAN, ClkMoves(valid), Moved(valid),
         Dma!Complete(valid)
  PROVE  InTime' => Flow'
<1>1. /\ dma_state = "complete" /\ burstcount' = burstcount
      /\ address' = address /\ frame_base' = frame_base
      /\ inflight' = Dma!Rest(valid) /\ popped' = popped
      /\ pending_reads' = Dma!Decremented(valid)
      /\ dma_state' = IF valid /\ pending_reads = 1 THEN "nospace" ELSE "complete"
  BY DEF Dma!Complete, Moved
<1>2. /\ inflight # <<>> /\ pending_reads = Len(inflight) /\ Len(inflight) <= burstcount
      /\ burstcount \in {Dma!Half, BUFFERWIDTH}
  BY <1>1 DEF Served, Flow, Pending
<1>3. /\ Len(inflight) \in Nat /\ Len(inflight) >= 1 /\ Len(fifo) \in Nat
      /\ Dma!Late \in Nat /\ burstcount \in Nat /\ BUFFERWIDTH \in Nat /\ Least \in Nat
  <2>1. Dma!Late \in Nat /\ Dma!Half \in Nat /\ BUFFERWIDTH \in Nat
    BY LateBound, Buffers
  <2>2. Least \in Nat
    BY Sizes
  <2>3. inflight \in Seq(Nat) /\ fifo \in Seq(Nat)
    BY DEF Types
  <2> QED
    BY <1>2, <2>1, <2>2, <2>3
<1>4. Bit(valid) \in {0, 1} /\ (valid <=> Bit(valid) = 1)
  BY DEF Bit
<1>5. line_cnt' = line_cnt /\ age \in Nat
  BY DEF ClkMoves, Types
<1>6. /\ Len(fifo') = Len(fifo) + Bit(valid) /\ Len(inflight') = Len(inflight) - Bit(valid)
      /\ inflight' \in Seq(Nat) /\ Dma!Late' \in Nat /\ Dma!Late' <= Dma!Late
  BY <1>1 DEF Moved
<1>7. InOrder'
  <2>1. /\ \A i \in 1 .. Len(fifo') : fifo'[i] = frame_base' + popped' + i - 1
        /\ \A i \in 1 .. Len(inflight') :
             inflight'[i] = frame_base' + popped' + Len(fifo') + i - 1
        /\ address' = frame_base' + popped' + Len(fifo') + Len(inflight')
    BY <1>1, MovedOrder
  <2> QED
    BY <1>1, <2>1 DEF InOrder
<1>8. pending_reads' = Len(inflight')
  BY <1>1, <1>2, <1>3, <1>6, Countdown
<1>9. Room'
  <2>1. Asked' = 0 /\ Asked = 0
    BY <1>1 DEF Asked
  <2> QED
    BY <1>3, <1>4, <1>6, <2>1 DEF Served, Flow, Room
<1>10. CASE valid /\ pending_reads = 1
  <2>1. dma_state' = "nospace" /\ Len(inflight') = 0 /\ Bit(valid) = 1 /\ Len(inflight) = 1
    <3>1. Bit(valid) = 1 /\ Len(inflight) = 1
      BY <1>2, <1>4, <1>10
    <3>2. dma_state' = "nospace"
      BY <1>1, <1>10, Zenon
    <3> QED
      BY <1>6, <3>1, <3>2
  <2>2. inflight' = <<>>
    BY <1>6, <2>1
  <2>3. Pending'
    BY <2>1, <2>2 DEF Pending
  <2>4. Stock' > Target /\ Target \in Nat /\ Least \in Nat /\ Target >= Least
    <3>1. /\ Target \in Nat /\ Least \in Nat /\ Target >= Least
          /\ Target = Least + LATENCY + GAP - 1 /\ LATENCY \in Nat /\ GAP \in Nat
      BY Sizes
    <3>2. CASE Supplied
      <4>1. age < Due(burstcount)
        <5>1. age < Due(burstcount - Len(inflight) + 1)
          BY <1>2 DEF Served, Flow, InTime
        <5> QED
          BY <1>3, <2>1, <5>1
      <4>2. Stock >= Target - age + Worth(burstcount - 1)
        BY <1>1, <2>1, <3>2 DEF Supplied
      <4>3. Stock' = Stock - 1 + 2 * PXPERREAD /\ Stock \in Int
        BY <1>3, <1>6, <2>1, StockRises
      <4>4. /\ burstcount - 1 \in Nat /\ Worth(burstcount) = Worth(burstcount - 1) + 2 * PXPERREAD
            /\ Worth(burstcount - 1) \in Nat
        <5>1. burstcount - 1 \in Nat /\ burstcount = (burstcount - 1) + 1
          BY <1>2, <1>3
        <5> QED
          BY <5>1, Paces
      <4>5. /\ Worth(burstcount) - Due(burstcount) > 0
            /\ Worth(burstcount) \in Nat /\ Due(burstcount) \in Nat
        <5>1. /\ Dma!Half \in Nat /\ Dma!Half <= burstcount
              /\ GAP <= 2 * PXPERREAD /\ Worth(Dma!Half) > Due(Dma!Half)
          BY <1>2, Buffers DEF FastEnough
        <5>2. /\ GAP <= 2 * PXPERREAD =>
                   Worth(Dma!Half) - Due(Dma!Half) <= Worth(burstcount) - Due(burstcount)
              /\ Worth(Dma!Half) \in Nat /\ Due(Dma!Half) \in Nat
          BY <1>3, <5>1, Paces
        <5>3. Worth(burstcount) \in Nat /\ Due(burstcount) \in Nat
          <6>1. burstcount <= burstcount
            BY <1>3
          <6> QED
            BY <1>3, <6>1, Paces
        <5> QED
          BY <5>1, <5>2, <5>3
      <4>6. PXPERREAD \in Nat
        BY Words
      <4> QED
        BY <1>5, <3>1, <4>1, <4>2, <4>3, <4>4, <4>5, <4>6
    <3>3. CASE Starting
      <4>1. Len(fifo') = BUFFERWIDTH
        BY <1>1, <1>3, <1>6, <2>1, <3>3 DEF Starting
      <4>2. /\ Worth(BUFFERWIDTH) >= Worth(Dma!Half - WrLag) /\ Worth(Dma!Half - WrLag) > Target
            /\ Worth(BUFFERWIDTH) \in Nat /\ Worth(Dma!Half - WrLag) \in Nat
        <5>1. /\ Dma!Half - WrLag \in Nat /\ Dma!Half - WrLag <= BUFFERWIDTH
              /\ Worth(Dma!Half - WrLag) > Target
          BY Buffers DEF FastEnough
        <5> QED
          BY <1>3, <5>1, Paces
      <4>3. Stock' = Worth(BUFFERWIDTH) + 2 * NextPop' - Phase'
        BY <4>1 DEF Stock, Worth
      <4> QED
        BY <3>1, <4>2, <4>3, ClkTime
    <3> QED
      BY <3>2, <3>3 DEF Served, Flow
  <2>5. Supplied'
    <3>1. Target' = Target /\ Least' = Least
      BY DEF Target, Least, Worth, Due
    <3> QED
      BY <2>1, <2>4, <3>1, Sizes, StockRises DEF Supplied
  <2> QED
    BY <1>7, <1>9, <2>3, <2>5 DEF Flow
<1>11. CASE ~(valid /\ pending_reads = 1)
  <2> SUFFICES ASSUME InTime' PROVE Flow'
    OBVIOUS
  <2>1. dma_state' = "complete" /\ Len(inflight') >= 1
    <3>1. dma_state' = "complete"
      BY <1>1, <1>11, Zenon
    <3> QED
      BY <1>2, <1>3, <1>4, <1>6, <1>11, <3>1
  <2>2. inflight' # <<>>
    BY <2>1
  <2>3. Pending'
    BY <1>1, <1>2, <1>3, <1>4, <1>6, <1>8, <2>1, <2>2 DEF Pending
  <2>4. age' = age + 1
    BY <1>2, <2>2 DEF ClkMoves, Owing
  <2>5. CASE Supplied
    <3> DEFINE r == burstcount - Len(inflight)
               n == burstcount' - Len(inflight')
    <3>1. r \in Nat /\ n = r + Bit(valid) /\ n \in Nat
      BY <1>1, <1>2, <1>3, <1>4, <1>6
    <3>2. Stock >= Target - age + Worth(r) /\ Stock \in Int
      BY <1>1, <1>3, <1>6, <2>5, StockRises DEF Supplied
    <3>3. age' < Due(n + 1)
      BY <2>2 DEF InTime, Due
    <3> HIDE DEF r, n
    <3>4. /\ Worth(r) \in Nat /\ Worth(n) \in Nat /\ Due(n) \in Nat
          /\ Worth(n) = Worth(r) + 2 * PXPERREAD * Bit(valid)
          /\ Due(n + 1) = Due(n) + GAP
      <4>1. Worth(r + 1) = Worth(r) + 2 * PXPERREAD /\ Worth(r) \in Nat /\ Worth(r + 0) = Worth(r)
        BY <3>1, Paces
      <4>2. Worth(n) \in Nat /\ Due(n) \in Nat /\ Due(n + 1) = Due(n) + GAP
        BY <3>1, Paces
      <4>3. CASE Bit(valid) = 0
        BY <3>1, <4>1, <4>2, <4>3, Words
      <4>4. CASE Bit(valid) = 1
        BY <3>1, <4>1, <4>2, <4>4, Words
      <4> QED
        BY <1>4, <4>3, <4>4
    <3>5. Stock' = Stock - 1 + 2 * PXPERREAD * Bit(valid)
      BY <1>3, <1>4, <1>6, StockRises
    <3>6. Stock' >= Target - age' + Worth(n) /\ Stock' \in Int
      <4>1. 2 * PXPERREAD * Bit(valid) \in Nat
        BY <1>4, Words
      <4> HIDE DEF Bit
      <4> QED
        BY <1>5, <2>4, <3>2, <3>4, <3>5, <4>1, Sizes
    <3>7. Worth(n) - Due(n) >= 0 - LATENCY
      <4>1. Worth(0) - Due(0) <= Worth(n) - Due(n) /\ Worth(0) = 0 /\ Due(0) = LATENCY
        BY <3>1, Paces DEF FastEnough
      <4> QED
        BY <3>4, <4>1, Sizes
    <3>8. Stock' >= Least
      <4>1. /\ Target = Least + LATENCY + GAP - 1 /\ Least \in Nat
            /\ LATENCY \in Nat /\ GAP \in Nat /\ age' \in Nat
        BY <1>5, <2>4, Sizes
      <4> QED
        BY <3>3, <3>4, <3>6, <3>7, <4>1
    <3>9. Supplied'
      <4>1. Target' = Target /\ Least' = Least
        BY DEF Target, Least, Worth, Due
      <4>2. Worth(burstcount - Len(inflight))' = Worth(n)
        BY DEF Worth, n
      <4> QED
        BY <2>1, <3>6, <3>8, <4>1, <4>2 DEF Supplied
    <3> QED
      BY <1>7, <1>9, <2>3, <3>9 DEF Flow
  <2>6. CASE Starting
    <3>1. /\ line_cnt = VSyncLimit /\ \A i \in 0 .. WrLag : ~wrpipe[i]
          /\ burstcount = BUFFERWIDTH /\ Len(fifo) = BUFFERWIDTH - Len(inflight)
          /\ Elapsed = age + 2
      BY <1>1, <2>6 DEF Starting
    <3>2. Len(fifo') = BUFFERWIDTH - Len(inflight') /\ burstcount' = BUFFERWIDTH
      BY <1>1, <1>3, <1>4, <1>6, <3>1
    <3>3. /\ line_cnt' = VSyncLimit /\ \A i \in 0 .. WrLag : ~wrpipe'[i]
          /\ Elapsed' = age' + 2
      BY <1>5, <2>4, <3>1, ClkTime DEF Moved
    <3>4. Starting'
      BY <2>1, <3>2, <3>3 DEF Starting
    <3> QED
      BY <1>7, <1>9, <2>3, <3>4 DEF Flow
  <2> QED
    BY <2>5, <2>6 DEF Served, Flow
<1> QED
  BY <1>10, <1>11

(* A frame that is shown stays in place, in order and supplied at an edge  *)
(* of clk50.                                                               *)
LEMMA ClkServed ==
  ASSUME FastEnough, Types, Wired, settled, ~dma_reset, Served, Clk50Edge, InTime'
  PROVE  Served' /\ ~dma_reset'
<1>1. PICK valid \in BOOLEAN : ClkMoves(valid)
  BY ClkMaster
<1>2. Moved(valid)
  BY <1>1, ClkMoved
<1>3. clean' /\ ~broken'
  BY <1>2 DEF Moved, Served
<1>4. InPlace'
  BY <1>1, <1>2, ClkInPlace
<1>5. Flow'
  <2>1. CASE Dma!Idle(valid)
    BY <1>1, <1>2, <2>1, ClkIdle
  <2>2. CASE Dma!NoSpace(valid)
    BY <1>1, <1>2, <2>2, ClkNoSpace
  <2>3. CASE Dma!ReadingWaits(valid)
    BY <1>1, <1>2, <2>3, ClkWaits
  <2>4. CASE Dma!ReadingAccepted(valid)
    BY <1>1, <1>2, <2>4, ClkAccepted
  <2>5. CASE Dma!Complete(valid)
    BY <1>1, <1>2, <2>5, ClkComplete
  <2> QED
    BY <1>1, <2>1, <2>2, <2>3, <2>4, <2>5 DEF ClkMoves, Dma!Clk50
<1>6. ~dma_reset'
  BY <1>1 DEF ClkMoves, dma_reset, Sig!VSync
<1> QED
  BY <1>3, <1>4, <1>5, <1>6 DEF Served

(* Between two frames the words that were on the bus return in time.       *)
LEMMA ClkDrained ==
  ASSUME FastEnough, Types, Wired, settled, dma_reset, Drained, Clk50Edge, InTime'
  PROVE  Drained' /\ dma_reset'
<1>1. /\ UNCHANGED <<go, px_cnt, line_cnt, vga_state, fifo_read>>
      /\ ~px_due /\ ~px_clk' /\ px_due' = ~px_clk
      /\ age' = IF Owing /\ Owing' THEN age + 1 ELSE 0
  BY DEF Clk50Edge, vgaVars, Wired
<1>2. dma_reset'
  BY <1>1 DEF dma_reset, Sig!VSync
<1>3. ResetEdge
  BY DEF Clk50Edge, Dma!Clk50, Dma!Idle, Dma!NoSpace, Dma!ReadingWaits,
         Dma!ReadingAccepted, Dma!Complete, Dma!EveryEdge
<1>4. vga_state' = "idle" /\ ~fifo_read'
  BY <1>1 DEF Drained
<1>5. inflight' \in {inflight, Tail(inflight)} /\ burstcount' = burstcount
      /\ (inflight = <<>> => inflight' = <<>>)
  BY <1>3 DEF ResetEdge, Dma!BeatDuringReset, dmaVars, Dma!dmaRegs
<1>6. ASSUME inflight' # <<>>
      PROVE  line_cnt' = VSyncFirst /\ Elapsed' <= age' /\ Len(inflight') <= burstcount'
  <2>1. inflight # <<>> /\ inflight \in Seq(Nat) /\ Len(inflight) \in Nat
        /\ Len(inflight') <= Len(inflight) /\ Len(inflight') \in Nat /\ age' = age + 1
    BY <1>1, <1>5, <1>6 DEF Types, Owing
  <2>2. line_cnt = VSyncFirst /\ Elapsed <= age /\ Len(inflight) <= burstcount
    BY <2>1 DEF Drained
  <2>3. Elapsed' = Elapsed + 1 /\ Elapsed \in Int /\ age \in Nat /\ burstcount \in Nat
    <3>1. px_cnt \in Nat /\ px_clk \in BOOLEAN
      BY Position, Raster DEF Types, Where
    <3>2. CASE px_clk
      <4>1. ~px_due'
        BY <1>1, <3>2, Zenon
      <4> QED
        BY <1>1, <3>1, <3>2, <4>1, Buffers DEF Elapsed, Phase, Types
    <3>3. CASE ~px_clk
      <4>1. px_due'
        BY <1>1, <3>3, Zenon
      <4> QED
        BY <1>1, <3>1, <3>3, <4>1, Buffers DEF Elapsed, Phase, Types
    <3> QED
      BY <3>1, <3>2, <3>3
  <2> QED
    BY <1>1, <1>5, <2>1, <2>2, <2>3
<1> QED
  BY <1>2, <1>4, <1>6 DEF Drained

-----------------------------------------------------------------------------
(* The other steps.                                                        *)

(* Software may write the base register at any time: the frame on the      *)
(* screen does not hear of it.                                             *)
LEMMA WriteKeeps ==
  ASSUME WriteBase \/ UNCHANGED vars
  PROVE  /\ dma_reset' = dma_reset /\ settled' = settled
         /\ Drained => Drained'
         /\ ~dma_reset /\ Served => Served'
<1>1. UNCHANGED <<go, sigVars, px_due, vgaVars, age, settled, fifo, rdpipe, wrpipe, broken,
                  dma_state, pending_reads, burstcount, inflight, popped, frame_base, clean>>
  BY DEF WriteBase, Dma!WriteBase, Dma!fifoVars, vars, dmaVars
<1>2. dma_reset' = dma_reset /\ Sig!ScreenActive' = Sig!ScreenActive /\ Sig!Lag' = Sig!Lag
      /\ Dma!Late' = Dma!Late
  BY <1>1 DEF sigVars, dma_reset, Sig!VSync, Sig!ScreenActive, Sig!Lag, Dma!Late
<1>3. Drained => Drained'
  BY <1>1 DEF sigVars, vgaVars, Drained, InTime, Due, Elapsed, Phase
<1>4. ASSUME ~dma_reset, Served PROVE Served'
  <2>1. address' = address
    BY <1>4 DEF WriteBase, Dma!WriteBase, vars, dmaVars
  <2>2. InPlace => InPlace'
    BY <1>1, <1>2 DEF sigVars, vgaVars, InPlace, Shows, Rests, LinesDone, Row, Column
  <2>3. (InOrder => InOrder') /\ (Pending => Pending') /\ (InTime => InTime')
    BY <1>1, <2>1 DEF InOrder, Pending, InTime, Due
  <2>4. Room => Room'
    BY <1>1, <1>2 DEF Room, Asked
  <2>5. (Starting => Starting') /\ (Supplied => Supplied')
    BY <1>1 DEF sigVars, vgaVars, Starting, Supplied, Stock, NextPop, Phase, Elapsed, Least, Target,
                  Worth, Due
  <2> QED
    BY <1>1, <1>4, <2>2, <2>3, <2>4, <2>5 DEF Served, Flow
<1> QED
  BY <1>1, <1>2, <1>3, <1>4

(* A frame in which GO changes is not settled.                             *)
LEMMA Unsettles ==
  ASSUME Wired, SetGo \/ ClearGo
  PROVE  ~settled'
BY DEF Wired, SetGo, ClearGo

-----------------------------------------------------------------------------
(* The inductive invariant.                                                *)

(* Nothing is settled when the system starts.                              *)
LEMMA InitInv == Init => PictureInv
BY InitTypes, InitWired DEF Init, PictureInv

(* Every step preserves the invariant.                                     *)
LEMMA NextInv ==
  ASSUME FastEnough, PictureInv, [Next]_vars
  PROVE  PictureInv'
<1>1. Types /\ Wired /\ (settled => IF dma_reset THEN Drained ELSE Served)
  BY DEF PictureInv
<1>2. Types' /\ Wired'
  BY <1>1, NextTypes, NextWired
<1>3. ASSUME settled' PROVE IF dma_reset' THEN Drained' ELSE Served'
  <2>1. CASE Clk50Edge
    <3>1. settled /\ InTime'
      <4>1. settled' = (settled /\ InTime')
        BY <2>1 DEF Clk50Edge
      <4> QED
        BY <1>3, <4>1, Zenon
    <3>2. CASE dma_reset
      BY <1>1, <2>1, <3>1, <3>2, ClkDrained
    <3>3. CASE ~dma_reset
      BY <1>1, <2>1, <3>1, <3>3, ClkServed
    <3> QED
      BY <3>2, <3>3
  <2>2. CASE PxEdge
    <3>1. (dma_reset /\ ~dma_reset') \/ settled
      BY <1>3, <2>2 DEF PxEdge
    <3>2. CASE dma_reset /\ ~dma_reset'
      BY <1>1, <1>3, <2>2, <3>2, PxStartsFrame
    <3>3. CASE dma_reset /\ dma_reset'
      BY <1>1, <2>2, <3>1, <3>3, PxStaysDrained
    <3>4. CASE ~dma_reset /\ ~dma_reset'
      BY <1>1, <2>2, <3>1, <3>4, PxServed
    <3>5. CASE ~dma_reset /\ dma_reset'
      BY <1>1, <2>2, <3>1, <3>5, PxDrains
    <3> QED
      BY <3>2, <3>3, <3>4, <3>5
  <2>3. CASE WriteBase \/ UNCHANGED vars
    <3>1. /\ dma_reset' = dma_reset /\ settled' = settled /\ (Drained => Drained')
          /\ ~dma_reset /\ Served => Served'
      BY <2>3, WriteKeeps
    <3> QED
      BY <1>1, <1>3, <3>1
  <2>4. CASE SetGo \/ ClearGo
    BY <1>1, <1>3, <2>4, Unsettles
  <2> QED
    BY <2>1, <2>2, <2>3, <2>4 DEF Next
<1> QED
  BY <1>2, <1>3 DEF PictureInv

(* A settled frame shows its pixels.                                       *)
LEMMA InvShows == PictureInv => PictureExact
<1> SUFFICES ASSUME PictureInv, settled, vga_state = "running",
                    NEW empty \in Dma!RdEmptyOutcomes
             PROVE  Vga!Shown(empty)
                      = [word  |-> frame_base + Row * WordsPerLine + Column \div PXPERREAD,
                         shift |-> Column % PXPERREAD]
  BY DEF PictureExact
<1>1. Served /\ Types
  BY DEF PictureInv, Drained
<1>2. Sig!ScreenActive /\ Column >= 0 /\ Shows(Row, Column)
  BY <1>1 DEF Served, InPlace, Rests
<1>3. empty = FALSE
  BY <1>1, <1>2, ActiveSupplied
<1>4. Vga!Shown(empty) = curr_segment
  BY <1>3 DEF Vga!Shown
<1> QED
  BY <1>2, <1>4 DEF Shows

(* A settled frame stays settled.                                          *)
LEMMA InvStays ==
  ASSUME FastEnough, PictureInv, [Next]_vars, settled, InTime', go'
  PROVE  settled'
<1>1. Types /\ Wired /\ (IF dma_reset THEN Drained ELSE Served)
  BY DEF PictureInv
<1>2. CASE PxEdge
  <2>1. CASE dma_reset /\ ~dma_reset'
    BY <1>1, <1>2, <2>1, PxGoesOn
  <2>2. CASE ~(dma_reset /\ ~dma_reset')
    BY <1>2, <2>2 DEF PxEdge
  <2> QED
    BY <2>1, <2>2
<1>3. CASE Clk50Edge
  <2>1. settled' = (settled /\ InTime')
    BY <1>3 DEF Clk50Edge
  <2> QED
    BY <2>1, Zenon
<1>5. CASE SetGo \/ WriteBase \/ UNCHANGED vars
  BY <1>5 DEF SetGo, WriteBase, vars
<1>4. CASE ClearGo
  BY <1>4 DEF ClearGo
<1> QED
  BY <1>2, <1>3, <1>4, <1>5 DEF Next

(* A settled frame fills the window: a word is on the output at each of    *)
(* its pixels, and at no other.                                            *)
LEMMA InvFills == PictureInv => WindowFilled
<1> SUFFICES ASSUME PictureInv, settled
             PROVE  /\ vga_state = "running" <=> Sig!ScreenActive /\ Column >= 0
                    /\ vga_state = "running" =>
                         /\ Column \in 0 .. Pixels - 2
                         /\ Row \in 0 .. (VActLast - VActAfter - 1)
  BY DEF WindowFilled
<1>1. Types /\ Wired /\ (IF dma_reset THEN Drained ELSE Served)
  BY DEF PictureInv
<1>2. Where
  BY <1>1, Position DEF Types
<1>3. vga_state = "running" <=> Sig!ScreenActive /\ Column >= 0
  <2>1. CASE dma_reset
    <3>1. ~Sig!ScreenActive /\ vga_state = "idle"
      BY <1>1, <1>2, <2>1 DEF Wired, Drained, dma_reset, Where
    <3> QED
      BY <3>1
  <2>2. CASE ~dma_reset
    BY <1>1, <2>2 DEF Served, InPlace, Shows, Rests
  <2> QED
    BY <2>1, <2>2
<1> QED
  BY <1>2, <1>3, Visible

-----------------------------------------------------------------------------
(***************************************************************************)
(* The space in the FIFO, whatever the memory does.  The read master takes *)
(* the steps DmaReadMasterProofs is about, so its Room is kept as there.   *)
(***************************************************************************)
Live == ~dma_reset /\ clean /\ ~broken

\* The inductive invariant of the space.
SpaceInv == Types /\ Wired /\ D!Room

(* The assumptions and the types D asks for.                               *)
LEMMA RoomTypes ==
  Types => D!FifoAssumption /\ D!DmaAssumption /\ D!BusTypes /\ D!Hidden <= Len(fifo)
<1> SUFFICES ASSUME Types
             PROVE  D!FifoAssumption /\ D!DmaAssumption /\ D!BusTypes /\ D!Hidden <= Len(fifo)
  OBVIOUS
<1>1. D!FifoAssumption /\ D!DmaAssumption
  BY ControllerAssumption DEF Dma!FifoAssumption, D!FifoAssumption,
     Dma!DmaAssumption, D!DmaAssumption
<1>2. D!BusTypes
  BY DEF Types, D!BusTypes, D!Asked, Dma!Half, D!Half
<1>3. D!Hidden = Dma!Hidden
  BY Zenon DEF D!Hidden, Dma!Hidden, D!Cardinality, Dma!Cardinality
<1> QED
  BY <1>1, <1>2, <1>3 DEF Types

(* An edge of clk50 finds room, and leaves room.                           *)
LEMMA EdgeFits ==
  ASSUME Dma!SizeOK \/ (BUFFERWIDTH < DEPTH /\ WrLag < Dma!Half /\ Dma!FreshGrant),
         SpaceInv, Live, NEW valid \in BOOLEAN, Dma!Clk50(valid)
  PROVE  ~broken' /\ D!Room'
<1>1. /\ D!FifoAssumption /\ D!DmaAssumption /\ D!BusTypes /\ D!Room
      /\ D!Live /\ ~broken
  BY RoomTypes DEF SpaceInv, Live, D!Live
<1>2. D!Clk50(valid)
  BY DEF Dma!Clk50, D!Clk50, Dma!Idle, D!Idle, Dma!NoSpace, D!NoSpace,
         Dma!ReadingWaits, D!ReadingWaits, Dma!ReadingAccepted, D!ReadingAccepted,
         Dma!Complete, D!Complete, Dma!EveryEdge, D!EveryEdge, Dma!FifoWrClk, D!FifoWrClk,
         Dma!Beat, D!Beat, Dma!Rest, D!Rest, Dma!Decremented, D!Decremented,
         Dma!Burst, D!Burst, Dma!Half, D!Half, Dma!RdEmptyOutcomes, D!RdEmptyOutcomes,
         Dma!WrUsedWOutcomes, D!WrUsedWOutcomes, Dma!Hidden, D!Hidden, Dma!Late, D!Late,
         Dma!Cardinality, D!Cardinality
<1>3. D!Sizes /\ D!FreshGrant
  <2>1. CASE Dma!SizeOK
    <3>1. D!SizeOK
      BY <2>1 DEF Dma!SizeOK, D!SizeOK, Dma!Half, D!Half
    <3>2. D!FreshGrant
      BY <1>1, <1>2, <3>1, D!GrantFresh
    <3>3. D!Sizes
      BY <3>1, Buffers DEF D!SizeOK, D!Sizes
    <3> QED
      BY <3>2, <3>3
  <2>2. CASE BUFFERWIDTH < DEPTH /\ WrLag < Dma!Half /\ Dma!FreshGrant
    BY <2>2 DEF D!Sizes, D!Half, Dma!Half, D!FreshGrant, Dma!FreshGrant
  <2> QED
    BY <2>1, <2>2
<1> QED
  BY <1>1, <1>2, <1>3, D!EdgeRoom

(* What an edge of clk50 does, if the read master is awake.                *)
LEMMA AwakeEdge ==
  ASSUME Clk50Edge
  PROVE  /\ dma_reset' = dma_reset
         /\ ~dma_reset => \E valid \in BOOLEAN : Dma!Clk50(valid)
         /\ dma_reset => broken' = broken
<1>1. dma_reset' = dma_reset
  BY DEF Clk50Edge, dma_reset, Sig!VSync
<1>2. ASSUME NEW valid \in BOOLEAN, Dma!Clk50(valid)
      PROVE  ~dma_reset
  BY <1>2 DEF Dma!Clk50, Dma!Idle, Dma!NoSpace, Dma!ReadingWaits,
         Dma!ReadingAccepted, Dma!Complete, Dma!EveryEdge
<1>3. ~dma_reset => \E valid \in BOOLEAN : Dma!Clk50(valid)
  BY DEF Clk50Edge, ResetEdge
<1>4. dma_reset => broken' = broken
  BY <1>2 DEF Clk50Edge, ResetEdge, Dma!BeatDuringReset, Dma!fifoVars, dmaVars
<1> QED
  BY <1>1, <1>3, <1>4

(* Every step leaves the room, and no edge of clk50 breaks the FIFO.       *)
LEMMA NextFits ==
  ASSUME Dma!SizeOK \/ (BUFFERWIDTH < DEPTH /\ WrLag < Dma!Half /\ [Dma!FreshGrant]_vars),
         SpaceInv, [Next]_vars
  PROVE  D!Room' /\ (clean /\ ~broken /\ ~px_due => ~broken')
<1>1. Types /\ Wired /\ D!Room
  BY DEF SpaceInv
<1>2. CASE Clk50Edge
  <2>1. CASE dma_reset
    BY <1>2, <2>1, AwakeEdge DEF D!Room, D!Live
  <2>2. CASE ~dma_reset
    <3>1. PICK valid \in BOOLEAN : Dma!Clk50(valid)
      BY <1>2, <2>2, AwakeEdge
    <3>2. Dma!FifoWrClk(Dma!Beat(valid)) /\ clean' = clean /\ dma_state' # "idle"
      BY <3>1 DEF Dma!Clk50, Dma!Idle, Dma!NoSpace, Dma!ReadingWaits,
                  Dma!ReadingAccepted, Dma!Complete, Dma!EveryEdge
    <3>3. broken => broken'
      BY <3>2, Zenon DEF Dma!FifoWrClk
    <3>4. CASE Live
      <4>1. Dma!SizeOK \/ (BUFFERWIDTH < DEPTH /\ WrLag < Dma!Half /\ Dma!FreshGrant)
        BY DEF Dma!FreshGrant, vars, dmaVars
      <4> QED
        BY <3>1, <3>4, <4>1, EdgeFits
    <3>5. CASE ~Live
      BY <2>2, <3>2, <3>3, <3>5 DEF Live, D!Room, D!Live
    <3> QED
      BY <3>4, <3>5
  <2> QED
    BY <2>1, <2>2
<1>3. ASSUME UNCHANGED dmaVars, dma_reset' = dma_reset
      PROVE  D!Room' /\ broken' = broken
  <2>1. UNCHANGED <<fifo, wrpipe, broken, dma_state, pending_reads, burstcount, inflight,
                    clean>>
    BY <1>3 DEF dmaVars
  <2> QED
    BY <1>1, <1>3, <2>1 DEF D!Room, D!Live, D!Coming, D!Granted, D!Missed, D!Returned
<1>4. ASSUME dma_reset' PROVE D!Room'
  BY <1>4 DEF D!Room, D!Live
<1>5. ASSUME Dma!ReleaseReset PROVE D!Room' /\ broken' = broken
  <2>1. D!ReleaseReset
    BY <1>5 DEF Dma!ReleaseReset, D!ReleaseReset, Dma!fifoVars, D!fifoVars,
                Dma!dmaRegs, D!dmaRegs
  <2>2. dma_reset /\ broken' = broken
    BY <1>5 DEF Dma!ReleaseReset, Dma!fifoVars
  <2>3. fifo = <<>> /\ dma_state = "idle" /\ \A i \in 0..WrLag : ~wrpipe[i]
    BY <1>1, <2>2 DEF Wired, Cleared
  <2> QED
    BY <1>1, <2>1, <2>2, <2>3, RoomTypes, D!ReleaseRoom
<1>6. CASE PxEdge
  <2>0. px_due
    BY <1>6 DEF PxEdge
  <2>1. CASE /\ ~dma_reset /\ ~dma_reset' /\ Dma!FifoRead
             /\ UNCHANGED <<dma_state, pending_reads, burstcount, inflight, clean>>
    <3>1. D!FifoRead
      BY <2>1 DEF Dma!FifoRead, D!FifoRead, Dma!Hidden, D!Hidden, Dma!Cardinality, D!Cardinality
    <3>2. dma_reset' = dma_reset
      BY <2>1 DEF dma_reset
    <3>3. UNCHANGED <<dma_state, pending_reads, burstcount, inflight, clean, dma_reset>>
      BY <2>1, <3>2
    <3> QED
      BY <1>1, <2>0, <3>1, <3>3, RoomTypes, D!ReadRoom
  <2>2. CASE dma_reset' = dma_reset /\ UNCHANGED dmaVars
    BY <1>3, <2>2
  <2>3. CASE Dma!AssertReset
    BY <1>4, <2>0, <2>3 DEF Dma!AssertReset
  <2>4. CASE Dma!ReleaseReset
    BY <1>5, <2>4
  <2> QED
    BY <1>6, <2>1, <2>2, <2>3, <2>4 DEF PxEdge, ReadSide
<1>7. CASE SetGo
  <2>1. CASE Dma!ReleaseReset
    BY <1>5, <2>1
  <2>2. CASE dma_reset' /\ UNCHANGED dmaVars
    BY <1>4, <2>2 DEF dmaVars
  <2> QED
    BY <1>7, <2>1, <2>2 DEF SetGo
<1>8. CASE ClearGo
  <2>1. dma_reset'
    BY <1>8 DEF ClearGo, dma_reset
  <2>2. ~broken' \/ broken' = broken
    BY <1>8 DEF ClearGo, Dma!AssertReset, Dma!FifoClear, dmaVars
  <2> QED
    BY <1>4, <2>1, <2>2
<1>9. CASE WriteBase \/ UNCHANGED vars
  <2>1. UNCHANGED <<go, sigVars, fifo, wrpipe, broken, dma_state, pending_reads, burstcount,
                    inflight, clean>>
    BY <1>9 DEF WriteBase, Dma!WriteBase, vars, dmaVars, Dma!fifoVars
  <2>2. dma_reset' = dma_reset
    BY <2>1 DEF dma_reset, sigVars, Sig!VSync
  <2> QED
    BY <1>1, <2>1, <2>2 DEF D!Room, D!Live, D!Coming, D!Granted, D!Missed, D!Returned
<1> QED
  BY <1>2, <1>6, <1>7, <1>8, <1>9 DEF Next

-----------------------------------------------------------------------------
(* The theorems.                                                           *)

(* The state keeps its types, and the counters of the raster stay with the *)
(* clocks, whatever the software and the memory do.                        *)
THEOREM TypeCorrect == Spec => [](Types /\ Wired)
<1>1. Init => Types /\ Wired
  BY InitTypes, InitWired
<1>2. Types /\ Wired /\ [Next]_vars => Types' /\ Wired'
  BY NextTypes, NextWired
<1> QED
  BY <1>1, <1>2, PTL DEF Spec

(* A frame that begins with a quiet bus and a memory that keeps up is      *)
(* shown exactly, pixel by pixel, for every raster, every frame buffer and *)
(* every FIFO that is fast enough.                                         *)
THEOREM PictureSafe ==
  ASSUME FastEnough
  PROVE  Spec => []PictureExact
<1>1. PictureInv /\ [Next]_vars => PictureInv'
  BY NextInv
<1> QED
  BY InitInv, <1>1, InvShows, PTL DEF Spec

(* A picture that is right stays right, from frame to frame.               *)
THEOREM SettledStays ==
  ASSUME FastEnough
  PROVE  Spec => StaysSettled
<1>1. PictureInv /\ [Next]_vars => PictureInv'
  BY NextInv
<1>2. PictureInv /\ [Next]_vars => [settled /\ InTime' /\ go' => settled']_vars
  BY InvStays
<1> QED
  BY InitInv, <1>1, <1>2, PTL DEF Spec, StaysSettled

(* A settled frame leaves no pixel of the window out.                      *)
THEOREM WindowSafe ==
  ASSUME FastEnough
  PROVE  Spec => []WindowFilled
<1>1. PictureInv /\ [Next]_vars => PictureInv'
  BY NextInv
<1> QED
  BY InitInv, <1>1, InvFills, PTL DEF Spec

(* A settled frame neither overruns the FIFO nor runs it dry: with the     *)
(* sizes of the code, a memory that keeps up never meets a stale rdempty.  *)
THEOREM SettledHasSpace ==
  ASSUME FastEnough
  PROVE  Spec => []SettledFits
<1>1. PictureInv /\ [Next]_vars => PictureInv'
  BY NextInv
<1>2. PictureInv => SettledFits
  <2> SUFFICES ASSUME PictureInv, settled, ~dma_reset
               PROVE  ~broken /\ Len(fifo) + Len(inflight) <= BUFFERWIDTH
    BY DEF SettledFits
  <2>1. ~broken /\ Room
    BY DEF PictureInv, Served, Flow
  <2>2. Len(fifo) \in Nat /\ Len(inflight) \in Nat /\ Asked \in Nat /\ Dma!Late \in Nat
    BY LateBound, Buffers DEF PictureInv, Types, Asked
  <2> QED
    BY <2>1, <2>2, Buffers DEF Room
<1> QED
  BY InitInv, <1>1, <1>2, PTL DEF Spec

(* "There MUST be space", whatever the memory does: with the sizes of the  *)
(* code an edge of clk50 writes into a full FIFO only after the master has *)
(* asked for BUFFERWIDTH words while rdempty was stale.                    *)
THEOREM SpaceUnlessStale ==
  ASSUME BUFFERWIDTH < DEPTH, WrLag < Dma!Half
  PROVE  Spec /\ [][Dma!FreshGrant]_vars => SpaceAlways
<1>1. Init => SpaceInv
  BY InitTypes, InitWired DEF Init, SpaceInv, D!Room, D!Live, dma_reset
<1>2. SpaceInv /\ [Next]_vars /\ [Dma!FreshGrant]_vars => SpaceInv'
  BY NextTypes, NextWired, NextFits DEF SpaceInv
<1>3. SpaceInv /\ [Next]_vars /\ [Dma!FreshGrant]_vars
        => [clean /\ ~broken /\ ~px_due => ~broken']_vars
  BY NextFits
<1> QED
  BY <1>1, <1>2, <1>3, PTL DEF Spec, SpaceAlways

(* If BUFFERWIDTH leaves room for what the reader may not see, no edge of  *)
(* clk50 ever does, whatever the memory, the software and the raster do.   *)
THEOREM SpaceSafe ==
  ASSUME Dma!SizeOK
  PROVE  Spec => SpaceAlways
<1>1. Init => SpaceInv
  BY InitTypes, InitWired DEF Init, SpaceInv, D!Room, D!Live, dma_reset
<1>2. SpaceInv /\ [Next]_vars => SpaceInv'
  BY NextTypes, NextWired, NextFits DEF SpaceInv
<1>3. SpaceInv /\ [Next]_vars => [clean /\ ~broken /\ ~px_due => ~broken']_vars
  BY NextFits
<1> QED
  BY <1>1, <1>2, <1>3, PTL DEF Spec, SpaceAlways
=============================================================================
