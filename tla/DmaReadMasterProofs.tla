------------------------ MODULE DmaReadMasterProofs ------------------------
(***************************************************************************)
(* Proofs about DmaReadMaster, for every depth of the FIFO, every lag of   *)
(* its two sides, every burst length and every bus.                        *)
(***************************************************************************)
EXTENDS DmaReadMaster, FiniteSetTheorems, TLAPS

-----------------------------------------------------------------------------
(* The reader misses at most one word per register of its pipe.            *)
LEMMA HiddenBound ==
  ASSUME RdLag \in Nat
  PROVE  Hidden \in 0..RdLag
<1>1. IsFiniteSet(1..RdLag) /\ Cardinality(1..RdLag) = RdLag
  BY FS_Interval
<1>2. {i \in 1..RdLag : rdpipe[i]} \subseteq 1..RdLag
  OBVIOUS
<1>3. /\ IsFiniteSet({i \in 1..RdLag : rdpipe[i]})
      /\ Cardinality({i \in 1..RdLag : rdpipe[i]}) <= Cardinality(1..RdLag)
  BY <1>1, <1>2, FS_Subset
<1>4. Cardinality({i \in 1..RdLag : rdpipe[i]}) \in Nat
  BY <1>3, FS_CardinalityType
<1> QED
  BY <1>1, <1>3, <1>4 DEF Hidden

(* The writer misses at most one read per register of its pipe.            *)
LEMMA LateBound ==
  ASSUME WrLag \in Nat
  PROVE  Late \in 0..(WrLag + 1)
<1>1. IsFiniteSet(0..WrLag) /\ Cardinality(0..WrLag) = WrLag + 1
  BY FS_Interval
<1>2. {i \in 0..WrLag : wrpipe[i]} \subseteq 0..WrLag
  OBVIOUS
<1>3. /\ IsFiniteSet({i \in 0..WrLag : wrpipe[i]})
      /\ Cardinality({i \in 0..WrLag : wrpipe[i]}) <= Cardinality(0..WrLag)
  BY <1>1, <1>2, FS_Subset
<1>4. Cardinality({i \in 0..WrLag : wrpipe[i]}) \in Nat
  BY <1>3, FS_CardinalityType
<1> QED
  BY <1>1, <1>3, <1>4 DEF Late

(* What a concatenation of words holds.                                    *)
LEMMA Concatenation ==
  ASSUME NEW s \in Seq(Nat), NEW t \in Seq(Nat)
  PROVE  /\ s \o t \in Seq(Nat) /\ Len(s \o t) = Len(s) + Len(t)
         /\ \A i \in 1..Len(s) : (s \o t)[i] = s[i]
         /\ \A i \in 1..Len(t) : (s \o t)[Len(s) + i] = t[i]
OBVIOUS

(* What an edge moves from the bus to the FIFO.                            *)
LEMMA BeatRest ==
  ASSUME NEW valid \in BOOLEAN, inflight \in Seq(Nat), valid => inflight # <<>>
  PROVE  /\ Beat(valid) \in Seq(Nat) /\ Rest(valid) \in Seq(Nat)
         /\ Len(Beat(valid)) = (IF valid THEN 1 ELSE 0)
         /\ Len(Rest(valid)) = Len(inflight) - Len(Beat(valid))
         /\ \A i \in 1..Len(Beat(valid)) : Beat(valid)[i] = inflight[i]
         /\ \A i \in 1..Len(Rest(valid)) :
              Rest(valid)[i] = inflight[Len(Beat(valid)) + i]
<1>1. CASE valid
  BY <1>1 DEF Beat, Rest
<1>2. CASE ~valid
  BY <1>2 DEF Beat, Rest
<1> QED
  BY <1>1, <1>2

(* The counter of pending reads stays in its 0..BUFFERWIDTH.               *)
LEMMA DecrementedType ==
  ASSUME pending_reads \in 0..BUFFERWIDTH, NEW valid \in BOOLEAN
  PROVE  /\ Decremented(valid) \in 0..BUFFERWIDTH
         /\ valid /\ pending_reads > 0 => Decremented(valid) = pending_reads - 1
         /\ ~valid => Decremented(valid) = pending_reads
BY DmaAssumption DEF DmaAssumption, Decremented

(* A burst is the consecutive words it names.                              *)
LEMMA BurstType ==
  ASSUME NEW from \in Nat, NEW n \in Nat
  PROVE  /\ Burst(from, n) \in Seq(Nat) /\ Len(Burst(from, n)) = n
         /\ \A i \in 1..n : Burst(from, n)[i] = from + i - 1
BY DEF Burst

-----------------------------------------------------------------------------
(* Type correctness.  It needs to know that a request is for some words:   *)
(* the counter of pending reads is loaded with burstcount - 1.             *)
Asked == dma_state = "reading" => burstcount # 0

(* The initial state has the types.                                        *)
LEMMA InitType == Init => TypeOK
<1> SUFFICES ASSUME Init PROVE TypeOK
  OBVIOUS
<1>1. fifo \in Seq(Nat) /\ Len(fifo) <= DEPTH
  BY FifoAssumption DEF FifoAssumption, Init, FifoInit
<1>2. rdpipe \in [1..RdLag -> BOOLEAN] /\ wrpipe \in [0..WrLag -> BOOLEAN]
  BY Zenon DEF Init, FifoInit
<1>3. inflight \in Seq(Nat) /\ Len(inflight) <= MaxInflight
  BY DmaAssumption DEF DmaAssumption, Init
<1>4. pending_reads \in 0..BUFFERWIDTH /\ popped \in 0..FRAMEWORDS /\ address \in Nat
  BY DmaAssumption DEF DmaAssumption, Init
<1> QED
  BY <1>1, <1>2, <1>3, <1>4 DEF Init, FifoInit, TypeOK, States

(* The FIFO keeps its type, and its size, at every write edge.             *)
LEMMA WrClkType ==
  ASSUME TypeOK, NEW ws \in Seq(Nat), FifoWrClk(ws)
  PROVE  /\ fifo' \in Seq(Nat) /\ Len(fifo') <= DEPTH
         /\ rdpipe' \in [1..RdLag -> BOOLEAN]
         /\ wrpipe' \in [0..WrLag -> BOOLEAN]
         /\ broken' \in BOOLEAN
<1>1. fifo' \in Seq(Nat) /\ Len(fifo') <= DEPTH
  <2>1. CASE broken'
    <3>1. fifo' = <<>>
      BY <2>1 DEF FifoWrClk
    <3> QED
      BY <3>1, FifoAssumption DEF FifoAssumption
  <2>2. CASE ~broken'
    <3>1. fifo' = fifo \o ws /\ ~(Len(fifo) + Len(ws) > DEPTH)
      BY <2>2 DEF FifoWrClk
    <3> QED
      BY <3>1, FifoAssumption DEF FifoAssumption, TypeOK
  <2> QED
    BY <2>1, <2>2
<1>2. broken' \in BOOLEAN
  BY DEF FifoWrClk
<1>3. rdpipe' \in [1..RdLag -> BOOLEAN]
  <2>1. \A i \in 1..RdLag : i = 1 \/ i - 1 \in 1..RdLag
    BY FifoAssumption DEF FifoAssumption
  <2>2. \A i \in 1..RdLag :
          (IF i = 1 THEN ws # <<>> ELSE rdpipe[i - 1]) \in BOOLEAN
    BY <2>1 DEF TypeOK
  <2> QED
    BY <2>2, Zenon DEF FifoWrClk
<1>4. wrpipe' \in [0..WrLag -> BOOLEAN]
  BY Zenon DEF FifoWrClk
<1> QED
  BY <1>1, <1>2, <1>3, <1>4

(* Every edge leaves the FIFO, the inputs and the bus in their types.      *)
LEMMA EdgeType ==
  ASSUME TypeOK, NEW valid \in BOOLEAN, EveryEdge(valid)
  PROVE  /\ fifo' \in Seq(Nat) /\ Len(fifo') <= DEPTH
         /\ rdpipe' \in [1..RdLag -> BOOLEAN]
         /\ wrpipe' \in [0..WrLag -> BOOLEAN]
         /\ broken' \in BOOLEAN
         /\ reset' \in BOOLEAN /\ ctrl_fb_base' \in Bases \cup {0}
         /\ popped' \in 0..FRAMEWORDS /\ clean' \in BOOLEAN
         /\ Decremented(valid) \in 0..BUFFERWIDTH
         /\ Rest(valid) \in Seq(Nat) /\ Len(Rest(valid)) <= Len(inflight)
<1>1. Beat(valid) \in Seq(Nat) /\ Rest(valid) \in Seq(Nat)
      /\ Len(Rest(valid)) <= Len(inflight)
  BY BeatRest DEF TypeOK, EveryEdge
<1> QED
  BY <1>1, WrClkType, DecrementedType DEF TypeOK, EveryEdge

(* No request is for 0 words.                                              *)
LEMMA NextAsked == Asked /\ [Next]_vars => Asked'
<1> SUFFICES ASSUME Asked, [Next]_vars PROVE Asked'
  OBVIOUS
<1>1. ASSUME NEW valid \in BOOLEAN, Clk50(valid) PROVE Asked'
  <2>1. Half # 0 /\ BUFFERWIDTH # 0
    BY DmaAssumption DEF DmaAssumption, Half
  <2> QED
    BY <1>1, <2>1
       DEF Asked, Clk50, Idle, NoSpace, ReadingWaits, ReadingAccepted, Complete
<1>2. CASE AssertReset \/ ReleaseReset \/ BeatDuringReset \/ WriteBase \/ Pop
  BY <1>2 DEF Asked, AssertReset, ReleaseReset, BeatDuringReset, WriteBase, Pop, dmaRegs
<1>3. CASE UNCHANGED vars
  BY <1>3 DEF Asked, vars, dmaRegs
<1> QED
  BY <1>1, <1>2, <1>3 DEF Next

(* Every step keeps the types.                                             *)
LEMMA NextType == TypeOK /\ Asked /\ [Next]_vars => TypeOK'
<1> SUFFICES ASSUME TypeOK, Asked, [Next]_vars PROVE TypeOK'
  OBVIOUS
<1> USE DmaAssumption DEF DmaAssumption
<1>1. ASSUME NEW valid \in BOOLEAN, Idle(valid) PROVE TypeOK'
  BY <1>1, EdgeType DEF Idle, TypeOK, States
<1>2. ASSUME NEW valid \in BOOLEAN, NoSpace(valid) PROVE TypeOK'
  BY <1>2, EdgeType DEF NoSpace, TypeOK, States
<1>3. ASSUME NEW valid \in BOOLEAN, ReadingWaits(valid) PROVE TypeOK'
  BY <1>3, EdgeType DEF ReadingWaits, TypeOK
<1>4. ASSUME NEW valid \in BOOLEAN, ReadingAccepted(valid) PROVE TypeOK'
  <2>1. burstcount \in Nat /\ burstcount <= BUFFERWIDTH
    BY DEF TypeOK, Half
  <2>2. address' \in Nat
    BY <1>4, <2>1 DEF ReadingAccepted, TypeOK
  <2>3. pending_reads' \in 0..BUFFERWIDTH
    <3>1. burstcount > 0
      BY <1>4, <2>1 DEF ReadingAccepted, Asked
    <3> QED
      BY <1>4, <2>1, <3>1 DEF ReadingAccepted
  <2>4. inflight' \in Seq(Nat) /\ Len(inflight') <= MaxInflight
    <3>1. Burst(address, burstcount) \in Seq(Nat)
          /\ Len(Burst(address, burstcount)) = burstcount
      BY <2>1, BurstType DEF TypeOK
    <3>2. EveryEdge(valid) /\ Len(inflight) + burstcount <= MaxInflight
          /\ inflight' = Rest(valid) \o Burst(address, burstcount)
      BY <1>4 DEF ReadingAccepted
    <3>3. Rest(valid) \in Seq(Nat) /\ Len(Rest(valid)) <= Len(inflight)
      BY <3>2, EdgeType
    <3> QED
      BY <2>1, <3>1, <3>2, <3>3 DEF TypeOK
  <2> QED
    BY <1>4, <2>2, <2>3, <2>4, EdgeType DEF ReadingAccepted, TypeOK, States
<1>5. ASSUME NEW valid \in BOOLEAN, Complete(valid) PROVE TypeOK'
  BY <1>5, EdgeType DEF Complete, TypeOK, States
<1>6. CASE AssertReset
  <2>1. fifo' \in Seq(Nat) /\ Len(fifo') <= DEPTH
    BY <1>6, FifoAssumption DEF FifoAssumption, AssertReset, FifoClear
  <2>2. /\ rdpipe' \in [1..RdLag -> BOOLEAN] /\ wrpipe' \in [0..WrLag -> BOOLEAN]
        /\ broken' \in BOOLEAN
    BY <1>6, Zenon DEF AssertReset, FifoClear
  <2> QED
    BY <1>6, <2>1, <2>2 DEF AssertReset, TypeOK, States
<1>7. CASE ReleaseReset
  BY <1>7 DEF ReleaseReset, TypeOK, fifoVars, dmaRegs
<1>8. CASE BeatDuringReset
  BY <1>8 DEF BeatDuringReset, TypeOK, fifoVars, dmaRegs
<1>9. CASE WriteBase
  BY <1>9 DEF WriteBase, TypeOK, fifoVars
<1>10. CASE Pop
  <2>1. wrpipe' \in [0..WrLag -> BOOLEAN]
    BY <1>10, Zenon DEF Pop, FifoRead, TypeOK
  <2>2. fifo' \in Seq(Nat) /\ Len(fifo') <= DEPTH
    BY <1>10, HiddenBound, FifoAssumption
       DEF FifoAssumption, Pop, FifoRead, TypeOK
  <2> QED
    BY <1>10, <2>1, <2>2 DEF Pop, FifoRead, TypeOK, dmaRegs
<1>11. CASE UNCHANGED vars
  BY <1>11 DEF vars, fifoVars, dmaRegs, TypeOK
<1> QED
  BY <1>1, <1>2, <1>3, <1>4, <1>5, <1>6, <1>7, <1>8, <1>9, <1>10, <1>11
     DEF Next, Clk50

(* Type correctness for every constant, restarts of any length included.   *)
THEOREM TypeCorrect == Spec => []TypeOK
<1>1. Init => Asked
  BY DEF Init, Asked
<1>2. TypeOK /\ Asked /\ [Next]_vars => (TypeOK /\ Asked)'
  BY NextType, NextAsked
<1> QED
  BY InitType, <1>1, <1>2, PTL DEF Spec

-----------------------------------------------------------------------------
(* A word the reader takes is there.                                       *)
LEMMA PopFits ==
  ASSUME TypeOK, Pop
  PROVE  ~broken'
<1>1. ~broken /\ Len(fifo) > Hidden /\ fifo \in Seq(Nat)
  BY DEF Pop, TypeOK
<1>2. Hidden \in Nat
  BY HiddenBound, FifoAssumption DEF FifoAssumption
<1>3. Len(fifo) # Hidden
  BY <1>1, <1>2
<1> QED
  BY <1>1, <1>3, Zenon DEF Pop, FifoRead

(***************************************************************************)
(* The invariant of the order of the words.  It does not depend on the     *)
(* sizes: a FIFO that is overrun ends the frame it has (Streaming), and    *)
(* the count of the words on the bus is not affected.                      *)
(***************************************************************************)

\* WordsInOrder, of the FIFO and of the bus apart.
Ordered ==
  Streaming =>
    /\ address = frame_base + popped + Len(fifo) + Len(inflight)
    /\ \A i \in 1..Len(fifo) : fifo[i] = frame_base + popped + i - 1
    /\ \A i \in 1..Len(inflight) :
         inflight[i] = frame_base + popped + Len(fifo) + i - 1

\* Nothing is left of the last frame when one starts.
Fresh ==
  reset \/ (Live /\ dma_state = "idle")
    => fifo = <<>> /\ ~broken /\ popped = 0 /\ dma_state = "idle"

IInv == TypeOK /\ Asked /\ PendingExact /\ Ordered /\ Fresh

(* The initial state satisfies the invariant.                              *)
LEMMA InitInv == Init => IInv
<1> SUFFICES ASSUME Init PROVE IInv
  OBVIOUS
<1>1. Asked /\ PendingExact /\ Ordered /\ Fresh
  BY DEF Init, FifoInit, Asked, PendingExact, Ordered, Fresh, Live, Streaming, Running
<1> QED
  BY <1>1, InitType DEF IInv

(* An edge moves a word, or none, from the bus to a FIFO with room.        *)
LEMMA EdgeMoves ==
  ASSUME TypeOK, NEW valid \in BOOLEAN, EveryEdge(valid), ~broken'
  PROVE  /\ ~broken /\ fifo' \in Seq(Nat)
         /\ Len(fifo') = Len(fifo) + (IF valid THEN 1 ELSE 0)
         /\ \A i \in 1..Len(fifo) : fifo'[i] = fifo[i]
         /\ valid => inflight # <<>> /\ fifo'[Len(fifo) + 1] = inflight[1]
<1>1. /\ fifo \in Seq(Nat) /\ inflight \in Seq(Nat)
      /\ valid => inflight # <<>>
  BY DEF TypeOK, EveryEdge
<1>2. /\ Beat(valid) \in Seq(Nat)
      /\ Len(Beat(valid)) = (IF valid THEN 1 ELSE 0)
      /\ \A i \in 1..Len(Beat(valid)) : Beat(valid)[i] = inflight[i]
  BY <1>1, BeatRest
<1>3. ~broken /\ fifo' = fifo \o Beat(valid)
  BY Zenon DEF EveryEdge, FifoWrClk
<1>4. CASE valid
  <2>1. Len(Beat(valid)) = 1 /\ Beat(valid)[1] = inflight[1]
    BY <1>1, <1>4 DEF Beat
  <2> DEFINE s == fifo \o Beat(valid)
  <2>2. /\ s \in Seq(Nat) /\ Len(s) = Len(fifo) + Len(Beat(valid))
        /\ \A i \in 1..Len(fifo) : s[i] = fifo[i]
        /\ \A i \in 1..Len(Beat(valid)) : s[Len(fifo) + i] = Beat(valid)[i]
    BY <1>1, <1>2, Concatenation
  <2> HIDE DEF s
  <2>3. /\ fifo' \in Seq(Nat) /\ Len(fifo') = Len(fifo) + 1
        /\ \A i \in 1..Len(fifo) : fifo'[i] = fifo[i]
        /\ \A i \in 1..1 : fifo'[Len(fifo) + i] = Beat(valid)[i]
    BY <1>3, <2>1, <2>2, Zenon DEF s
  <2>4. fifo'[Len(fifo) + 1] = inflight[1]
    BY <2>1, <2>3
  <2> QED
    BY <1>1, <1>3, <1>4, <2>3, <2>4
<1>5. CASE ~valid
  <2>1. Len(Beat(valid)) = 0
    BY <1>2, <1>5
  <2> QED
    BY <1>1, <1>2, <1>3, <1>5, <2>1
<1> QED
  BY <1>4, <1>5

(* What is left on the bus after an edge.                                  *)
LEMMA EdgeLeaves ==
  ASSUME TypeOK, NEW valid \in BOOLEAN, EveryEdge(valid)
  PROVE  /\ Rest(valid) \in Seq(Nat)
         /\ Len(Rest(valid)) = Len(inflight) - (IF valid THEN 1 ELSE 0)
         /\ \A i \in 1..Len(Rest(valid)) :
              Rest(valid)[i] = inflight[(IF valid THEN 1 ELSE 0) + i]
<1>1. inflight \in Seq(Nat) /\ (valid => inflight # <<>>)
  BY DEF TypeOK, EveryEdge
<1>2. /\ Rest(valid) \in Seq(Nat)
      /\ Len(Beat(valid)) = (IF valid THEN 1 ELSE 0)
      /\ Len(Rest(valid)) = Len(inflight) - Len(Beat(valid))
      /\ \A i \in 1..Len(Rest(valid)) :
           Rest(valid)[i] = inflight[Len(Beat(valid)) + i]
  BY <1>1, BeatRest
<1> QED
  BY <1>2

(* An edge in any state but complete moves no word, and overruns nothing.  *)
LEMMA QuietEdge ==
  ASSUME IInv, Live, NEW valid \in BOOLEAN, EveryEdge(valid),
         dma_state # "complete"
  PROVE  /\ ~valid /\ inflight = <<>> /\ Rest(valid) = <<>>
         /\ (broken' <=> broken)
         /\ ~broken' => /\ Len(fifo') = Len(fifo)
                        /\ \A i \in 1..Len(fifo) : fifo'[i] = fifo[i]
<1>1. inflight = <<>>
  BY DEF IInv, PendingExact
<1>2. ~valid
  BY <1>1 DEF EveryEdge
<1>3. broken' <=> broken
  <2>1. Len(Beat(valid)) = 0 /\ Len(fifo) \in Nat /\ Len(fifo) <= DEPTH
    BY <1>2 DEF Beat, IInv, TypeOK
  <2>2. ~(Len(fifo) + Len(Beat(valid)) > DEPTH)
    BY <2>1, FifoAssumption DEF FifoAssumption
  <2>3. broken \in BOOLEAN
    BY DEF IInv, TypeOK
  <2> QED
    BY <2>2, <2>3, Zenon DEF EveryEdge, FifoWrClk
<1>4. ~broken' => /\ Len(fifo') = Len(fifo)
                  /\ \A i \in 1..Len(fifo) : fifo'[i] = fifo[i]
  <2>1. fifo \in Seq(Nat)
    BY DEF IInv, TypeOK
  <2> QED
    BY <1>2, <2>1, EdgeMoves DEF IInv
<1> QED
  BY <1>1, <1>2, <1>3, <1>4 DEF Rest

(* Every edge of clk50 keeps the count and the order of the words.         *)
LEMMA EdgeInv ==
  ASSUME IInv, NEW valid \in BOOLEAN, Clk50(valid), TypeOK'
  PROVE  PendingExact' /\ Ordered' /\ Fresh'
<1>0. EveryEdge(valid) /\ (Live' <=> Live) /\ ~reset /\ ~reset'
  BY DEF Clk50, Idle, NoSpace, ReadingWaits, ReadingAccepted, Complete, EveryEdge, Live
<1>1. CASE ~Live
  <2>1. ~Live' /\ ~reset'
    BY <1>0, <1>1
  <2> QED
    BY <2>1 DEF PendingExact, Ordered, Fresh, Streaming, Running, Live
<1>2. CASE Live
  <2> USE <1>2
  <2>0. /\ fifo \in Seq(Nat) /\ inflight \in Seq(Nat)
        /\ address \in Nat /\ popped \in Nat /\ frame_base \in Nat
        /\ ctrl_fb_base \in Nat
        /\ BUFFERWIDTH \in Nat /\ Half \in Nat /\ Half >= 1 /\ BUFFERWIDTH >= 1
        /\ burstcount \in {0, Half, BUFFERWIDTH}
    BY DmaAssumption, FifoAssumption
       DEF DmaAssumption, FifoAssumption, IInv, TypeOK, Half
  <2>f. dma_state' # "idle" /\ Fresh'
    <3>1. dma_state' # "idle"
      BY DEF Clk50, Idle, NoSpace, ReadingWaits, ReadingAccepted, Complete
    <3> QED
      BY <1>0, <3>1 DEF Fresh
  <2>1. CASE Idle(valid)
    <3>1. /\ inflight' = <<>> /\ fifo = <<>> /\ dma_state' = "nospace"
          /\ popped' = 0 /\ address' = ctrl_fb_base /\ frame_base' = ctrl_fb_base
          /\ ~broken' => Len(fifo') = 0
      BY <1>0, <2>1, QuietEdge DEF Idle, EveryEdge, IInv, Fresh
    <3> QED
      BY <1>0, <2>0, <2>f, <3>1 DEF PendingExact, Ordered, Streaming, Running, Live
  <2>2. CASE NoSpace(valid) \/ ReadingWaits(valid)
    <3>1. /\ dma_state \in {"nospace", "reading"}
          /\ dma_state' \in {"nospace", "reading"}
          /\ inflight' = <<>> /\ inflight = <<>> /\ (broken' <=> broken)
          /\ address' = address /\ popped' = popped /\ frame_base' = frame_base
          /\ ~broken' => /\ Len(fifo') = Len(fifo)
                         /\ \A i \in 1..Len(fifo) : fifo'[i] = fifo[i]
      BY <1>0, <2>2, QuietEdge DEF NoSpace, ReadingWaits, EveryEdge
    <3>2. PendingExact'
      BY <3>1 DEF PendingExact
    <3>3. Ordered'
      BY <1>0, <2>0, <3>1 DEF IInv, Ordered, Streaming, Running, Live
    <3> QED
      BY <2>f, <3>2, <3>3
  <2>3. CASE ReadingAccepted(valid)
    <3>1. /\ dma_state = "reading" /\ dma_state' = "complete" /\ ~valid
          /\ inflight' = <<>> \o Burst(address, burstcount)
          /\ (broken' <=> broken)
          /\ inflight = <<>> /\ address' = address + burstcount
          /\ popped' = popped /\ frame_base' = frame_base
          /\ pending_reads' = burstcount
          /\ ~broken' => /\ Len(fifo') = Len(fifo)
                         /\ \A i \in 1..Len(fifo) : fifo'[i] = fifo[i]
      BY <1>0, <2>3, QuietEdge DEF ReadingAccepted, EveryEdge
    <3>2. burstcount \in Nat /\ burstcount # 0
      BY <2>0, <3>1 DEF IInv, Asked
    <3>3. /\ Burst(address, burstcount) \in Seq(Nat)
          /\ Len(Burst(address, burstcount)) = burstcount
          /\ \A i \in 1..burstcount : Burst(address, burstcount)[i] = address + i - 1
      BY <2>0, <3>2, BurstType
    <3>4. inflight' = Burst(address, burstcount)
      BY <3>1, <3>3
    <3>5. Len(inflight') = burstcount /\ inflight' # <<>>
      BY <3>2, <3>3, <3>4
    <3>6. PendingExact'
      BY <3>1, <3>5 DEF PendingExact
    <3>7. Ordered'
      <4> SUFFICES ASSUME ~broken'
                   PROVE  /\ address' = frame_base' + popped' + Len(fifo') + Len(inflight')
                          /\ \A i \in 1..Len(fifo') : fifo'[i] = frame_base' + popped' + i - 1
                          /\ \A i \in 1..Len(inflight') :
                               inflight'[i] = frame_base' + popped' + Len(fifo') + i - 1
        BY DEF Ordered, Streaming, Running, Live
      <4>1. /\ address = frame_base + popped + Len(fifo)
            /\ \A i \in 1..Len(fifo) : fifo[i] = frame_base + popped + i - 1
        BY <1>0, <2>0, <3>1 DEF IInv, Ordered, Streaming, Running, Live
      <4>2. \A i \in 1..Len(inflight') :
              inflight'[i] = frame_base' + popped' + Len(fifo') + i - 1
        BY <2>0, <3>1, <3>2, <3>3, <3>4, <3>5, <4>1
      <4> QED
        BY <2>0, <3>1, <3>2, <3>5, <4>1, <4>2
    <3> QED
      BY <2>f, <3>6, <3>7
  <2>4. CASE Complete(valid)
    <3> DEFINE n == IF valid THEN 1 ELSE 0
    <3>1. /\ dma_state = "complete"
          /\ inflight' = Rest(valid) /\ Len(inflight') = Len(inflight) - n
          /\ \A i \in 1..Len(inflight') : inflight'[i] = inflight[n + i]
          /\ address' = address /\ frame_base' = frame_base /\ popped' = popped
          /\ pending_reads' = Decremented(valid)
          /\ dma_state' = IF valid /\ pending_reads = 1 THEN "nospace" ELSE "complete"
      BY <1>0, <2>4, EdgeLeaves DEF Complete, EveryEdge, IInv
    <3>a. ~broken' =>
            /\ ~broken /\ Len(fifo') = Len(fifo) + n
            /\ \A i \in 1..Len(fifo) : fifo'[i] = fifo[i]
            /\ valid => fifo'[Len(fifo) + 1] = inflight[1]
      BY <1>0, EdgeMoves DEF IInv
    <3>n. n \in {0, 1} /\ (valid => n = 1) /\ (~valid => n = 0)
      OBVIOUS
    <3> HIDE DEF n
    <3>l. Len(fifo) \in Nat /\ Len(inflight) \in Nat
      BY <2>0
    <3>2. pending_reads = Len(inflight) /\ inflight # <<>> /\ Len(inflight) > 0
      BY <2>0, <3>1 DEF IInv, PendingExact
    <3>3. inflight' \in Seq(Nat)
      BY DEF TypeOK
    <3>4. PendingExact'
      <4>1. CASE valid /\ pending_reads = 1
        <5>1. Len(inflight') = 0
          BY <3>1, <3>n, <3>2, <4>1
        <5>2. inflight' = <<>>
          BY <3>3, <5>1
        <5>3. dma_state' = "nospace"
          BY <3>1, <4>1, Zenon
        <5> QED
          BY <5>2, <5>3 DEF PendingExact
      <4>2. CASE ~(valid /\ pending_reads = 1)
        <5>d. /\ valid => Decremented(valid) = Len(inflight) - 1
              /\ ~valid => Decremented(valid) = Len(inflight)
          <6>1. pending_reads \in 0..BUFFERWIDTH
            BY DEF IInv, TypeOK
          <6>2. /\ valid => Decremented(valid) = pending_reads - 1
                /\ ~valid => Decremented(valid) = pending_reads
            BY <6>1, <3>2, DecrementedType
          <6> QED
            BY <6>2, <3>2
        <5>1. pending_reads' = Len(inflight')
          <6>1. pending_reads' = Decremented(valid) /\ Len(inflight') = Len(inflight) - n
            BY <3>1
          <6> QED
            BY <6>1, <5>d, <3>l, <3>n
        <5>2. Len(inflight') > 0
          BY <3>l, <3>1, <3>n, <3>2, <4>2
        <5>3. inflight' # <<>> /\ dma_state' = "complete"
          BY <3>1, <4>2, <5>2
        <5> QED
          BY <5>1, <5>3 DEF PendingExact
      <4> QED
        BY <4>1, <4>2
    <3>5. Ordered'
      <4> SUFFICES ASSUME ~broken'
                   PROVE  /\ address' = frame_base' + popped' + Len(fifo') + Len(inflight')
                          /\ \A i \in 1..Len(fifo') : fifo'[i] = frame_base' + popped' + i - 1
                          /\ \A i \in 1..Len(inflight') :
                               inflight'[i] = frame_base' + popped' + Len(fifo') + i - 1
        BY DEF Ordered, Streaming, Running, Live
      <4>0. /\ ~broken /\ Len(fifo') = Len(fifo) + n
            /\ \A i \in 1..Len(fifo) : fifo'[i] = fifo[i]
            /\ valid => fifo'[Len(fifo) + 1] = inflight[1]
        BY <3>a
      <4>1. /\ address = frame_base + popped + Len(fifo) + Len(inflight)
            /\ \A i \in 1..Len(fifo) : fifo[i] = frame_base + popped + i - 1
            /\ \A i \in 1..Len(inflight) :
                 inflight[i] = frame_base + popped + Len(fifo) + i - 1
        BY <1>0, <3>1, <4>0 DEF IInv, Ordered, Streaming, Running, Live
      <4>2. address' = frame_base' + popped' + Len(fifo') + Len(inflight')
        BY <2>0, <3>1, <3>n, <3>l, <4>0, <4>1
      <4>3. \A i \in 1..Len(fifo') : fifo'[i] = frame_base' + popped' + i - 1
        <5> SUFFICES ASSUME NEW i \in 1..Len(fifo')
                     PROVE  fifo'[i] = frame_base + popped + i - 1
          BY <3>1
        <5>1. CASE i \in 1..Len(fifo)
          BY <4>0, <4>1, <5>1
        <5>2. CASE i \notin 1..Len(fifo)
          <6>1. valid /\ i = Len(fifo) + 1
            BY <3>n, <3>l, <4>0, <5>2
          <6>2. 1 \in 1..Len(inflight)
            BY <3>l, <3>2
          <6>3. inflight[1] = frame_base + popped + Len(fifo) + 1 - 1
            BY <4>1, <6>2
          <6> QED
            BY <2>0, <3>l, <4>0, <6>1, <6>3
        <5> QED
          BY <5>1, <5>2
      <4>4. \A i \in 1..Len(inflight') :
              inflight'[i] = frame_base' + popped' + Len(fifo') + i - 1
        <5> SUFFICES ASSUME NEW i \in 1..Len(inflight')
                     PROVE  inflight'[i] = frame_base + popped + Len(fifo') + i - 1
          BY <3>1
        <5>1. inflight'[i] = inflight[n + i] /\ n + i \in 1..Len(inflight)
          BY <3>1, <3>n, <3>l
        <5>2. inflight[n + i] = frame_base + popped + Len(fifo) + (n + i) - 1
          BY <4>1, <5>1
        <5> QED
          BY <2>0, <3>n, <3>l, <4>0, <5>1, <5>2
      <4> QED
        BY <4>2, <4>3, <4>4
    <3> QED
      BY <2>f, <3>4, <3>5
  <2> QED
    BY <2>1, <2>2, <2>3, <2>4 DEF Clk50
<1> QED
  BY <1>1, <1>2

(* The other steps: the reset, the register and the reader.                *)
LEMMA OtherInv ==
  ASSUME IInv, TypeOK',
         AssertReset \/ ReleaseReset \/ BeatDuringReset \/ WriteBase \/ Pop
  PROVE  PendingExact' /\ Ordered' /\ Fresh'
<1>0. /\ fifo \in Seq(Nat) /\ inflight \in Seq(Nat) /\ inflight' \in Seq(Nat)
      /\ address \in Nat /\ popped \in Nat /\ frame_base \in Nat
  BY DmaAssumption DEF DmaAssumption, IInv, TypeOK
<1>1. CASE AssertReset
  <2>1. reset' /\ ~Live'
    BY <1>1 DEF AssertReset, Live
  <2> QED
    BY <1>1, <2>1 DEF AssertReset, FifoClear, PendingExact, Ordered, Fresh, Streaming, Running, Live
<1>2. CASE ReleaseReset
  <2>1. fifo = <<>> /\ ~broken /\ popped = 0 /\ dma_state = "idle"
    BY <1>2 DEF ReleaseReset, IInv, Fresh
  <2>2. /\ fifo' = <<>> /\ ~broken' /\ popped' = 0 /\ dma_state' = "idle"
        /\ Live' => inflight' = <<>>
    BY <1>2, <2>1 DEF ReleaseReset, fifoVars, dmaRegs, Live
  <2> QED
    BY <1>0, <2>2 DEF PendingExact, Ordered, Streaming, Running, Fresh, Live
<1>3. CASE BeatDuringReset
  <2>1. reset' /\ ~Live'
    BY <1>3 DEF BeatDuringReset, Live
  <2>2. Fresh'
    BY <1>3 DEF BeatDuringReset, IInv, Fresh, fifoVars, dmaRegs, Live
  <2> QED
    BY <2>1, <2>2 DEF PendingExact, Ordered, Streaming, Running, Live
<1>4. CASE WriteBase
  <2>1. /\ UNCHANGED <<fifo, broken, inflight, popped, frame_base, clean, reset,
                       dma_state, pending_reads>>
        /\ Streaming => address' = address
    BY <1>4 DEF WriteBase, fifoVars, Streaming, Running
  <2> QED
    BY <2>1 DEF IInv, PendingExact, Ordered, Streaming, Running, Fresh, Live
<1>5. CASE Pop
  <2>1. /\ ~reset /\ ~broken /\ Len(fifo) > Hidden /\ popped' = popped + 1
        /\ UNCHANGED <<reset, dma_state, address, pending_reads, burstcount,
                       inflight, frame_base, clean>>
    BY <1>5 DEF Pop, dmaRegs
  <2>2. fifo # <<>> /\ Hidden \in Nat
    BY <1>0, <2>1, HiddenBound, FifoAssumption DEF FifoAssumption
  <2>3. ~broken'
    BY <1>5, PopFits DEF IInv
  <2>4. fifo' = Tail(fifo)
    BY <1>5, <2>3 DEF Pop, FifoRead
  <2>5. /\ Len(fifo') = Len(fifo) - 1
        /\ \A i \in 1..Len(fifo') : fifo'[i] = fifo[i + 1]
    BY <1>0, <2>2, <2>4
  <2>6. PendingExact'
    BY <2>1 DEF IInv, PendingExact, Live
  <2>7. Fresh'
    BY <2>1, <2>2 DEF IInv, Fresh, Live
  <2>8. Ordered'
    <3> SUFFICES ASSUME Streaming
                 PROVE  /\ address = frame_base + (popped + 1) + Len(fifo') + Len(inflight)
                        /\ \A i \in 1..Len(fifo') :
                             fifo'[i] = frame_base + (popped + 1) + i - 1
                        /\ \A i \in 1..Len(inflight) :
                             inflight[i] = frame_base + (popped + 1) + Len(fifo') + i - 1
      BY <2>1 DEF Ordered, Live, Streaming, Running
    <3>1. /\ address = frame_base + popped + Len(fifo) + Len(inflight)
          /\ \A i \in 1..Len(fifo) : fifo[i] = frame_base + popped + i - 1
          /\ \A i \in 1..Len(inflight) :
               inflight[i] = frame_base + popped + Len(fifo) + i - 1
      BY DEF IInv, Ordered, Streaming, Running, Live
    <3>2. \A i \in 1..Len(fifo') : fifo'[i] = frame_base + popped + (i + 1) - 1
      BY <1>0, <2>5, <3>1
    <3> QED
      BY <1>0, <2>5, <3>1, <3>2
  <2> QED
    BY <2>6, <2>7, <2>8
<1> QED
  BY <1>1, <1>2, <1>3, <1>4, <1>5

(* Every step preserves the invariant, whatever the sizes.                 *)
LEMMA NextInv == IInv /\ [Next]_vars => IInv'
<1> SUFFICES ASSUME IInv, [Next]_vars PROVE IInv'
  OBVIOUS
<1>1. TypeOK' /\ Asked'
  BY NextType, NextAsked DEF IInv
<1>2. CASE Next
  BY <1>1, <1>2, EdgeInv, OtherInv DEF Next, IInv
<1>3. CASE UNCHANGED vars
  <2>1. PendingExact' /\ Ordered' /\ Fresh'
    BY <1>3 DEF vars, fifoVars, dmaRegs, IInv, PendingExact, Ordered, Streaming,
                Running, Fresh, Live
  <2> QED
    BY <1>1, <2>1 DEF IInv
<1> QED
  BY <1>2, <1>3

(* The order of the whole stream from the order of its two parts.          *)
LEMMA OrderedStream == IInv => WordsInOrder
<1> SUFFICES ASSUME IInv, Streaming
             PROVE  /\ \A i \in 1..Len(Stream) : Stream[i] = frame_base + popped + i - 1
                    /\ address = frame_base + popped + Len(Stream)
  BY DEF WordsInOrder
<1>0. /\ fifo \in Seq(Nat) /\ inflight \in Seq(Nat) /\ address \in Nat
      /\ popped \in Nat /\ frame_base \in Nat
  BY DmaAssumption DEF DmaAssumption, IInv, TypeOK
<1>1. Stream \in Seq(Nat) /\ Len(Stream) = Len(fifo) + Len(inflight)
  BY <1>0, Concatenation DEF Stream
<1>2. /\ address = frame_base + popped + Len(fifo) + Len(inflight)
      /\ \A i \in 1..Len(fifo) : fifo[i] = frame_base + popped + i - 1
      /\ \A i \in 1..Len(inflight) :
           inflight[i] = frame_base + popped + Len(fifo) + i - 1
  BY DEF IInv, Ordered, Streaming, Running, Live
<1>3. ASSUME NEW i \in 1..Len(Stream) PROVE Stream[i] = frame_base + popped + i - 1
  <2>1. CASE i \in 1..Len(fifo)
    BY <1>0, <1>2, <2>1, Concatenation DEF Stream
  <2>2. CASE i \notin 1..Len(fifo)
    <3>1. i - Len(fifo) \in 1..Len(inflight) /\ Len(fifo) + (i - Len(fifo)) = i
      BY <1>0, <1>1, <2>2
    <3>2. Stream[i] = inflight[i - Len(fifo)]
      BY <1>0, <3>1, Concatenation DEF Stream
    <3>3. inflight[i - Len(fifo)] = frame_base + popped + Len(fifo) + (i - Len(fifo)) - 1
      BY <1>2, <3>1
    <3> QED
      BY <1>0, <1>1, <3>2, <3>3
  <2> QED
    BY <2>1, <2>2
<1> QED
  BY <1>0, <1>1, <1>2, <1>3

(* The read master counts the words on the bus exactly, whatever the sizes *)
(* of the FIFO and of the bursts.                                          *)
THEOREM PendingSafe == Spec => []PendingExact
<1>1. IInv => PendingExact
  BY DEF IInv
<1> QED
  BY <1>1, InitInv, NextInv, PTL DEF Spec

(* The reader is given the words of the frame in order, without a gap, as  *)
(* long as no word has found the FIFO full.                                *)
THEOREM OrderSafe == Spec => []WordsInOrder
  BY InitInv, NextInv, OrderedStream, PTL DEF Spec, Streaming, Running, Live

-----------------------------------------------------------------------------
(***************************************************************************)
(* The space.  The FIFO holds the words stored and those on the bus or     *)
(* still to be asked for, with the reads since the request that the writer *)
(* does not know of (Missed) counted as words.  A burst takes an edge for  *)
(* each of its words, so when the next request is made the writer has      *)
(* learned of every read older than this one, and what wrusedw overstates  *)
(* still does not reach DEPTH, where it would wrap to 0.                   *)
(*                                                                         *)
(* These lemmas ask of the state no more than BusTypes: the controller,    *)
(* whose reader is the raster, uses them too.                              *)
(***************************************************************************)
Granted == IF dma_state = "reading" THEN burstcount ELSE 0

BusTypes ==
  /\ fifo \in Seq(Nat) /\ inflight \in Seq(Nat) /\ address \in Nat
  /\ burstcount \in {0, Half, BUFFERWIDTH} /\ Asked

\* The words of the burst under way that have returned: it is this many edges old,
\* at least.
Returned ==
  IF dma_state \in {"reading", "complete"} THEN burstcount - Granted - Len(inflight)
  ELSE WrLag + 1

Missed == Cardinality({i \in 0..WrLag : wrpipe[i] /\ i < Returned})

\* PendingExact, and no more on the bus than was asked for.
Coming ==
  /\ dma_state # "complete" => inflight = <<>>
  /\ dma_state = "complete" => /\ inflight # <<>> /\ pending_reads = Len(inflight)
                              /\ Len(inflight) <= burstcount

Room ==
  Live /\ ~broken => Coming /\ Len(fifo) + Len(inflight) + Granted + Missed < DEPTH

\* What the proof needs of the sizes, of those of the code and of any others.
Sizes == BUFFERWIDTH < DEPTH /\ WrLag < Half

(* The sizes and the registers are numbers.                                *)
LEMMA RoomTypes ==
  ASSUME BusTypes
  PROVE  /\ RdLag \in Nat /\ WrLag \in Nat /\ DEPTH \in Nat /\ BUFFERWIDTH \in Nat
         /\ Half \in Nat /\ Half >= 1 /\ Half + Half <= BUFFERWIDTH
         /\ burstcount \in Nat /\ Granted \in Nat
         /\ Len(fifo) \in Nat /\ Len(inflight) \in Nat /\ Returned \in Int
<1>1. /\ RdLag \in Nat /\ WrLag \in Nat /\ DEPTH \in Nat /\ BUFFERWIDTH \in Nat
      /\ Half \in Nat /\ Half >= 1 /\ Half + Half <= BUFFERWIDTH
  BY DmaAssumption, FifoAssumption DEF DmaAssumption, FifoAssumption, Half
<1>2. Len(fifo) \in Nat /\ Len(inflight) \in Nat /\ burstcount \in Nat
  BY <1>1 DEF BusTypes
<1>3. Granted \in Nat
  BY <1>1, <1>2 DEF Granted
<1> QED
  BY <1>1, <1>2, <1>3 DEF Returned

(* The registers of the writer's pipe.                                     *)
LEMMA Pipe == WrLag \in Nat /\ IsFiniteSet(0..WrLag)
<1>1. WrLag \in Nat
  BY FifoAssumption DEF FifoAssumption
<1> QED
  BY <1>1, FS_Interval

(* Missed is a number, and all of Late when no burst is under way.         *)
LEMMA MissedType ==
  /\ Missed \in Nat
  /\ Returned = WrLag + 1 => Missed = Late
<1> DEFINE A == {i \in 0..WrLag : wrpipe[i] /\ i < Returned}
<1>1. WrLag \in Nat
  BY Pipe
<1>2. A \in SUBSET (0..WrLag)
  OBVIOUS
<1>3. Returned = WrLag + 1 => A = {i \in 0..WrLag : wrpipe[i]}
  BY <1>1
<1> HIDE DEF A
<1>5. IsFiniteSet(A)
  BY <1>2, Pipe, FS_Subset
<1>6. Cardinality(A) \in Nat
  BY <1>5, FS_CardinalityType
<1>7. Missed = Cardinality(A)
  BY DEF Missed, A
<1> QED
  BY <1>3, <1>6, <1>7 DEF Late

(* A request, or a reset, leaves nothing to miss.                          *)
LEMMA NothingMissed ==
  Returned' = 0 \/ (\A i \in 0..WrLag : ~wrpipe'[i]) => Missed' = 0
<1> DEFINE A == {i \in 0..WrLag : wrpipe'[i] /\ i < Returned'}
<1>1. Returned' = 0 \/ (\A i \in 0..WrLag : ~wrpipe'[i]) => A = {}
  BY Pipe
<1>2. Missed' = Cardinality(A)
  BY DEF Missed
<1> QED
  BY <1>1, <1>2, FS_EmptySet

(* An edge of clk50 never makes the writer miss more ...                   *)
LEMMA MissedFalls ==
  ASSUME NEW ws, FifoWrClk(ws),
         Returned \in Int, Returned' \in Int, Returned' <= Returned + 1
  PROVE  Missed' \in Nat /\ Missed' <= Missed
<1> DEFINE A == {i \in 0..WrLag : wrpipe[i] /\ i < Returned}
           B == {i \in 0..WrLag : wrpipe'[i] /\ i < Returned'}
           before == [i \in B |-> i - 1]
<1>1. WrLag \in Nat
  BY Pipe
<1>2. A \in SUBSET (0..WrLag) /\ B \in SUBSET (0..WrLag)
  OBVIOUS
<1>3. \A i \in B : i - 1 \in A
  <2> SUFFICES ASSUME NEW i \in 0..WrLag, wrpipe'[i], i < Returned'
               PROVE  i - 1 \in 0..WrLag /\ wrpipe[i - 1] /\ i - 1 < Returned
    OBVIOUS
  <2>1. i > 0 /\ wrpipe[i - 1]
    BY DEF FifoWrClk
  <2> QED
    BY <1>1, <2>1
<1>4. Missed = Cardinality(A) /\ Missed' = Cardinality(B)
  BY DEF Missed
<1> HIDE DEF A, B
<1>5. before \in Injection(B, A)
  <2>1. \A i, j \in B : before[i] = before[j] => i = j
    BY <1>1, <1>2
  <2>2. before \in [B -> A]
    BY <1>3
  <2> QED
    BY <2>1, <2>2 DEF Injection, IsInjective
<1>6. IsFiniteSet(A) /\ IsFiniteSet(B)
  BY <1>2, Pipe, FS_Subset
<1>7. Cardinality(B) <= Cardinality(A)
  BY <1>5, <1>6, FS_Injection
<1>8. Cardinality(B) \in Nat
  BY <1>6, FS_CardinalityType
<1> QED
  BY <1>4, <1>7, <1>8

(* ... and a read, by one word.                                            *)
LEMMA MissedRises ==
  ASSUME FifoRead, Returned' = Returned
  PROVE  Missed' \in Nat /\ Missed' <= Missed + 1
<1> DEFINE A == {i \in 0..WrLag : wrpipe[i] /\ i < Returned}
           B == {i \in 0..WrLag : wrpipe'[i] /\ i < Returned'}
<1>1. WrLag \in Nat
  BY Pipe
<1>2. A \in SUBSET (0..WrLag) /\ B \in SUBSET (0..WrLag)
  OBVIOUS
<1>3. B \in SUBSET (A \cup {0})
  BY DEF FifoRead
<1>4. Missed = Cardinality(A) /\ Missed' = Cardinality(B)
  BY DEF Missed
<1> HIDE DEF A, B
<1>5. IsFiniteSet(A) /\ IsFiniteSet(B)
  BY <1>2, Pipe, FS_Subset
<1>6. /\ IsFiniteSet(A \cup {0})
      /\ Cardinality(A \cup {0}) = IF 0 \in A THEN Cardinality(A) ELSE Cardinality(A) + 1
  BY <1>5, FS_AddElement
<1>7. Cardinality(B) <= Cardinality(A \cup {0})
  BY <1>3, <1>6, FS_Subset
<1>8. Cardinality(A) \in Nat /\ Cardinality(B) \in Nat
  BY <1>5, FS_CardinalityType
<1> QED
  BY <1>4, <1>6, <1>7, <1>8

(* The grant: what a request adds fits.  Half of BUFFERWIDTH does because  *)
(* wrusedw only overstates, all of it because the step is fresh; and it is *)
(* if the reader's error fits as well.                                     *)
LEMMA GrantFits ==
  ASSUME Sizes, BusTypes, Room, Live, ~broken, dma_state = "nospace",
         NEW empty \in RdEmptyOutcomes, NEW used \in WrUsedWOutcomes
  PROVE  /\ empty => Len(fifo) <= RdLag
         /\ used <= Half => Len(fifo) <= Half
<1>1. /\ Len(inflight) = 0 /\ Granted = 0
      /\ Len(fifo) + Len(inflight) + Granted + Missed < DEPTH
  BY DEF Room, Coming, Granted
<1>2. empty = (Len(fifo) = Hidden) /\ used = (Len(fifo) + Late) % DEPTH
  BY <1>1, Zenon DEF RdEmptyOutcomes, WrUsedWOutcomes
<1>3. Missed = Late /\ Late \in Nat
  BY MissedType DEF Returned
<1>4. used = Len(fifo) + Late
  <2>1. Len(fifo) + Late \in 0..(DEPTH - 1)
    BY <1>1, <1>3, RoomTypes
  <2>2. DEPTH \in Nat /\ DEPTH > 0
    BY FifoAssumption DEF FifoAssumption
  <2> QED
    BY <1>2, <2>1, <2>2
<1>5. ASSUME empty PROVE Len(fifo) <= RdLag
  <2>1. Len(fifo) = Hidden /\ Hidden \in 0..RdLag
    BY <1>2, <1>5, HiddenBound, RoomTypes
  <2> QED
    BY <2>1, RoomTypes
<1>6. used <= Half => Len(fifo) <= Half
  BY <1>3, <1>4, RoomTypes
<1> QED
  BY <1>5, <1>6

(* Every request is fresh, if the reader's error fits.                     *)
LEMMA GrantFresh ==
  ASSUME SizeOK, BusTypes, Room, Live, ~broken, NEW valid \in BOOLEAN, Clk50(valid)
  PROVE  FreshGrant
<1> SUFFICES ASSUME dma_state = "nospace", dma_state' = "reading", burstcount' = BUFFERWIDTH
             PROVE  Len(fifo) + BUFFERWIDTH < DEPTH
  BY DEF FreshGrant
<1>1. PICK empty \in RdEmptyOutcomes, used \in WrUsedWOutcomes :
        empty \/ (used <= Half /\ burstcount' = Half)
  BY DEF Clk50, Idle, NoSpace, ReadingWaits, ReadingAccepted, Complete
<1>2. Sizes
  BY RoomTypes DEF SizeOK, Sizes
<1>3. (empty => Len(fifo) <= RdLag) /\ Half # BUFFERWIDTH
  BY <1>2, GrantFits, RoomTypes
<1>4. Len(fifo) <= RdLag
  BY <1>1, <1>3
<1> QED
  BY <1>4, RoomTypes DEF SizeOK

(* An edge of clk50 finds room for the word it moves, and leaves room for  *)
(* what is on its way.                                                     *)
LEMMA EdgeRoom ==
  ASSUME Sizes, FreshGrant, BusTypes, Room, Live, ~broken,
         NEW valid \in BOOLEAN, Clk50(valid)
  PROVE  ~broken' /\ Room'
<1> DEFINE n == IF valid THEN 1 ELSE 0
<1>1. /\ Coming /\ Missed \in Nat
      /\ Len(fifo) + Len(inflight) + Granted + Missed < DEPTH
  BY MissedType DEF Room
<1>2. /\ EveryEdge(valid) /\ FifoWrClk(Beat(valid)) /\ (valid => inflight # <<>>)
      /\ fifo \in Seq(Nat) /\ inflight \in Seq(Nat)
  BY DEF Clk50, Idle, NoSpace, ReadingWaits, ReadingAccepted, Complete, EveryEdge, BusTypes
<1>3. /\ Beat(valid) \in Seq(Nat) /\ Len(Beat(valid)) = n
      /\ Rest(valid) \in Seq(Nat) /\ Len(Rest(valid)) = Len(inflight) - n
  BY <1>2, BeatRest
<1>4. n \in {0, 1} /\ n <= Len(inflight) /\ (valid <=> n = 1)
  BY <1>2
<1> HIDE DEF n
<1>5. ~broken'
  <2>1. ~(Len(fifo) + Len(Beat(valid)) > DEPTH)
    BY <1>1, <1>3, <1>4, RoomTypes
  <2> QED
    BY <1>1, <1>2, <2>1, Zenon DEF FifoWrClk
<1>6. fifo' \in Seq(Nat) /\ Len(fifo') = Len(fifo) + n /\ Len(fifo') \in Nat
  <2>1. fifo' = fifo \o Beat(valid)
    BY <1>2, <1>5, Zenon DEF FifoWrClk
  <2> QED
    BY <1>2, <1>3, <1>4, <2>1, Concatenation
<1>7. ASSUME dma_state # "complete"
      PROVE  n = 0 /\ ~valid /\ Rest(valid) = <<>> /\ Len(fifo') = Len(fifo)
             /\ Len(inflight) = 0
  <2>1. inflight = <<>>
    BY <1>1, <1>7 DEF Coming
  <2> QED
    BY <1>3, <1>4, <1>6, <2>1
<1>8. ASSUME Returned' \in Int, Returned' <= Returned + 1
      PROVE  Missed' \in Nat /\ Missed' <= Missed
  BY <1>2, <1>8, MissedFalls, RoomTypes
<1>9. CASE Idle(valid)
  <2>1. dma_state = "idle" /\ dma_state' = "nospace" /\ inflight' = <<>>
    BY <1>7, <1>9 DEF Idle
  <2>2. Granted = 0 /\ Granted' = 0 /\ Returned = WrLag + 1 /\ Returned' = WrLag + 1
    BY <2>1 DEF Granted, Returned
  <2>3. Missed' \in Nat /\ Missed' <= Missed
    BY <1>8, <2>2, RoomTypes
  <2>4. Coming' /\ Len(fifo') + Len(inflight') + Granted' + Missed' < DEPTH
    BY <1>1, <1>7, <2>1, <2>2, <2>3, RoomTypes DEF Coming
  <2> QED
    BY <1>5, <2>4 DEF Room
<1>10. CASE NoSpace(valid)
  <2>1. dma_state = "nospace" /\ inflight' = <<>> /\ Granted = 0 /\ Returned = WrLag + 1
    BY <1>7, <1>10 DEF NoSpace, Granted, Returned
  <2>2. PICK empty \in RdEmptyOutcomes, used \in WrUsedWOutcomes :
          \/ /\ empty /\ burstcount' = BUFFERWIDTH /\ dma_state' = "reading"
          \/ /\ ~empty /\ used <= Half
             /\ burstcount' = Half /\ dma_state' = "reading"
          \/ /\ ~empty /\ burstcount' = burstcount /\ dma_state' = "nospace"
    BY <1>10 DEF NoSpace
  <2>3. CASE dma_state' = "nospace"
    <3>1. Granted' = 0 /\ Returned' = WrLag + 1
      BY <2>3 DEF Granted, Returned
    <3>2. Missed' \in Nat /\ Missed' <= Missed
      BY <1>8, <2>1, <3>1, RoomTypes
    <3>3. Coming' /\ Len(fifo') + Len(inflight') + Granted' + Missed' < DEPTH
      BY <1>1, <1>7, <2>1, <2>3, <3>1, <3>2, RoomTypes DEF Coming
    <3> QED
      BY <1>5, <3>3 DEF Room
  <2>4. CASE dma_state' = "reading"
    <3>1. Len(fifo) + burstcount' < DEPTH /\ burstcount' \in Nat
      <4>1. CASE burstcount' = BUFFERWIDTH
        BY <2>1, <2>4, <4>1, RoomTypes DEF FreshGrant
      <4>2. CASE burstcount' # BUFFERWIDTH
        <5>1. used <= Half /\ burstcount' = Half
          BY <2>2, <2>4, <4>2
        <5>2. Len(fifo) <= Half
          BY <2>1, <5>1, GrantFits
        <5> QED
          BY <5>1, <5>2, RoomTypes DEF Sizes
      <4> QED
        BY <4>1, <4>2
    <3>2. Granted' = burstcount' /\ Returned' = 0
      <4>1. Granted' = burstcount' /\ Len(inflight') = 0
        BY <2>1, <2>4 DEF Granted
      <4>2. Returned' = burstcount' - Granted' - Len(inflight')
        BY <2>4 DEF Returned
      <4>3. burstcount' \in Nat
        BY <3>1
      <4>4. \A b \in Nat : b - b - 0 = 0
        OBVIOUS
      <4>5. Returned' = burstcount' - burstcount' - 0
        BY <4>1, <4>2, Zenon
      <4> QED
        BY <4>1, <4>3, <4>4, <4>5, Zenon
    <3>3. Missed' = 0
      BY <3>2, NothingMissed
    <3>4. Coming' /\ Len(fifo') + Len(inflight') + Granted' + Missed' < DEPTH
      BY <1>7, <2>1, <2>4, <3>1, <3>2, <3>3, RoomTypes DEF Coming
    <3> QED
      BY <1>5, <3>4 DEF Room
  <2> QED
    BY <2>2, <2>3, <2>4
<1>11. CASE ReadingWaits(valid)
  <2>1. /\ dma_state = "reading" /\ dma_state' = "reading" /\ inflight' = <<>>
        /\ burstcount' = burstcount
    BY <1>7, <1>11 DEF ReadingWaits
  <2>2. Granted' = Granted /\ Returned' = Returned
    BY <1>7, <2>1 DEF Granted, Returned
  <2>3. Missed' \in Nat /\ Missed' <= Missed
    BY <1>8, <2>2, RoomTypes
  <2>4. Coming' /\ Len(fifo') + Len(inflight') + Granted' + Missed' < DEPTH
    BY <1>1, <1>7, <2>1, <2>2, <2>3, RoomTypes DEF Coming
  <2> QED
    BY <1>5, <2>4 DEF Room
<1>12. CASE ReadingAccepted(valid)
  <2>1. /\ dma_state = "reading" /\ dma_state' = "complete" /\ burstcount' = burstcount
        /\ inflight' = Rest(valid) \o Burst(address, burstcount)
        /\ pending_reads' = IF valid THEN burstcount - 1 ELSE burstcount
    BY <1>12 DEF ReadingAccepted
  <2>2. burstcount \in Nat /\ burstcount # 0 /\ address \in Nat
    BY <2>1, RoomTypes DEF BusTypes, Asked
  <2>3. /\ inflight' \in Seq(Nat) /\ Len(inflight') = burstcount
        /\ pending_reads' = burstcount
    <3>1. /\ Burst(address, burstcount) \in Seq(Nat)
          /\ Len(Burst(address, burstcount)) = burstcount
      BY <2>2, BurstType
    <3>2. Rest(valid) = <<>> /\ ~valid
      BY <1>7, <2>1
    <3> QED
      BY <2>1, <3>1, <3>2
  <2>4. Granted = burstcount /\ Granted' = 0 /\ Returned = 0 /\ Returned' = 0
    <3>1. Granted = burstcount /\ Granted' = 0 /\ Len(inflight) = 0
      BY <1>7, <2>1 DEF Granted
    <3> QED
      BY <2>1, <2>2, <2>3, <3>1 DEF Returned
  <2>5. Missed' \in Nat /\ Missed' <= Missed
    BY <1>8, <2>4
  <2>6. Len(fifo') + Len(inflight') + Granted' + Missed' < DEPTH
    BY <1>1, <1>7, <2>1, <2>2, <2>3, <2>4, <2>5, RoomTypes
  <2>7. Coming'
    <3>1. inflight' # <<>>
      BY <2>2, <2>3
    <3> QED
      BY <2>1, <2>2, <2>3, <3>1 DEF Coming
  <2> QED
    BY <1>5, <2>6, <2>7 DEF Room
<1>13. CASE Complete(valid)
  <2>1. /\ dma_state = "complete" /\ burstcount' = burstcount /\ inflight' = Rest(valid)
        /\ pending_reads' = Decremented(valid)
        /\ dma_state' = IF valid /\ pending_reads = 1 THEN "nospace" ELSE "complete"
    BY <1>13 DEF Complete
  <2>2. /\ pending_reads = Len(inflight) /\ Len(inflight) <= burstcount /\ Len(inflight) >= 1
        /\ burstcount \in {Half, BUFFERWIDTH}
    <3>1. inflight # <<>> /\ pending_reads = Len(inflight) /\ Len(inflight) <= burstcount
      BY <1>1, <2>1 DEF Coming
    <3>2. Len(inflight) >= 1
      BY <1>2, <3>1
    <3> QED
      BY <3>1, <3>2, RoomTypes DEF BusTypes
  <2>3. /\ inflight' \in Seq(Nat) /\ Len(inflight') = Len(inflight) - n
        /\ Granted = 0 /\ Granted' = 0 /\ Returned = burstcount - Len(inflight)
    BY <1>3, <2>1, RoomTypes DEF Granted, Returned
  <2>4. pending_reads' = Len(inflight')
    <3>1. pending_reads \in 0..BUFFERWIDTH /\ pending_reads > 0
      BY <2>2, RoomTypes
    <3>2. Decremented(valid) = pending_reads - n
      <4>1. CASE valid
        BY <1>4, <3>1, <4>1, DecrementedType
      <4>2. CASE ~valid
        BY <1>4, <3>1, <4>2, DecrementedType
      <4> QED
        BY <4>1, <4>2
    <3> QED
      BY <2>1, <2>2, <2>3, <3>2
  <2>5. CASE valid /\ pending_reads = 1
    <3>1. dma_state' = "nospace" /\ n = 1 /\ Len(inflight) = 1
      BY <1>4, <2>1, <2>2, <2>5
    <3>2. inflight' = <<>>
      BY <2>3, <3>1
    <3>3. Returned' = WrLag + 1 /\ Returned' <= Returned + 1
      BY <2>2, <2>3, <3>1, RoomTypes DEF Returned, Sizes
    <3>4. Missed' \in Nat /\ Missed' <= Missed
      BY <1>8, <3>3, RoomTypes
    <3>5. Coming' /\ Len(fifo') + Len(inflight') + Granted' + Missed' < DEPTH
      BY <1>1, <1>6, <2>3, <3>1, <3>2, <3>4, RoomTypes DEF Coming
    <3> QED
      BY <1>5, <3>5 DEF Room
  <2>6. CASE ~(valid /\ pending_reads = 1)
    <3>1. dma_state' = "complete"
      BY <2>1, <2>6, Zenon
    <3>2. Len(inflight') >= 1 /\ Len(inflight') <= burstcount'
      BY <1>4, <2>1, <2>2, <2>3, <2>6, RoomTypes
    <3>3. inflight' # <<>>
      BY <2>3, <3>2
    <3>4. Returned' = burstcount - Len(inflight') /\ Returned' <= Returned + 1
      BY <1>4, <2>1, <2>3, <3>1, RoomTypes DEF Returned
    <3>5. Missed' \in Nat /\ Missed' <= Missed
      BY <1>8, <2>3, <3>4, RoomTypes
    <3>6. Len(fifo') + Len(inflight') + Granted' + Missed' < DEPTH
      <4>1. Len(fifo) \in Nat /\ Len(inflight) \in Nat /\ DEPTH \in Nat
        BY RoomTypes
      <4> QED
        BY <1>1, <1>4, <1>6, <2>3, <3>5, <4>1
    <3> QED
      BY <1>5, <2>4, <3>1, <3>2, <3>3, <3>6 DEF Coming, Room
  <2> QED
    BY <2>5, <2>6
<1> QED
  BY <1>9, <1>10, <1>11, <1>12, <1>13 DEF Clk50

(* A word the reader takes makes room.                                     *)
LEMMA ReadRoom ==
  ASSUME BusTypes, Room, Hidden <= Len(fifo), FifoRead,
         UNCHANGED <<dma_state, pending_reads, burstcount, inflight, clean, reset>>
  PROVE  Room'
<1> SUFFICES ASSUME Live', ~broken'
             PROVE  Coming' /\ Len(fifo') + Len(inflight') + Granted' + Missed' < DEPTH
  BY DEF Room
<1>1. /\ ~broken /\ Len(fifo) # Hidden /\ fifo' = Tail(fifo) /\ Live
  BY Zenon DEF FifoRead, Live
<1>2. fifo \in Seq(Nat) /\ Hidden \in Nat
  BY HiddenBound, RoomTypes DEF BusTypes
<1>3. Len(fifo) >= 1 /\ Len(fifo') = Len(fifo) - 1
  BY <1>1, <1>2
<1>4. Granted' = Granted /\ Returned' = Returned
  BY DEF Granted, Returned
<1>5. Missed' \in Nat /\ Missed' <= Missed + 1
  BY <1>4, MissedRises
<1>6. Coming /\ Len(fifo) + Len(inflight) + Granted + Missed < DEPTH
  BY <1>1 DEF Room
<1>7. Len(fifo') + Len(inflight') + Granted' + Missed' < DEPTH
  <2>1. Len(fifo) \in Nat /\ Len(inflight) \in Nat /\ Granted \in Nat /\ DEPTH \in Nat
    BY RoomTypes
  <2>2. Missed \in Nat /\ Len(inflight') = Len(inflight)
    BY MissedType
  <2> QED
    BY <1>3, <1>4, <1>5, <1>6, <2>1, <2>2
<1> QED
  BY <1>6, <1>7 DEF Coming

(* A frame that starts with a quiet bus has all the room there is.         *)
LEMMA ReleaseRoom ==
  ASSUME ReleaseReset, fifo = <<>>, dma_state = "idle",
         \A i \in 0..WrLag : ~wrpipe[i]
  PROVE  Room'
<1> SUFFICES ASSUME Live'
             PROVE  Coming' /\ Len(fifo') + Len(inflight') + Granted' + Missed' < DEPTH
  BY DEF Room
<1>1. /\ fifo' = <<>> /\ dma_state' = "idle" /\ inflight' = <<>>
      /\ \A i \in 0..WrLag : ~wrpipe'[i]
  BY DEF ReleaseReset, fifoVars, dmaRegs, Live
<1>2. Missed' = 0
  BY <1>1, NothingMissed
<1>3. Granted' = 0 /\ Coming'
  BY <1>1 DEF Granted, Coming
<1>4. DEPTH \in Nat /\ DEPTH > 0
  BY FifoAssumption DEF FifoAssumption
<1> QED
  BY <1>1, <1>2, <1>3, <1>4

\* A reset clears what the writer does not know of.
Emptied == reset => \A i \in 0..WrLag : ~wrpipe[i]

\* The invariant of the space, on top of IInv.
SpaceInv == ThereIsSpace /\ Room /\ Emptied

(* IInv has the types.                                                     *)
LEMMA InvBusTypes == IInv => BusTypes /\ Hidden \in Nat
  BY HiddenBound, DmaAssumption, FifoAssumption
     DEF DmaAssumption, FifoAssumption, IInv, TypeOK, BusTypes

(* A master that starts has all the room there is.                         *)
LEMMA InitSpace == Init => SpaceInv
  BY DEF Init, FifoInit, SpaceInv, ThereIsSpace, Room, Live, Emptied

(* Every step leaves room, if its request is fresh.                        *)
LEMMA NextSpace ==
  ASSUME Sizes
  PROVE  IInv /\ IInv' /\ SpaceInv /\ [Next]_vars /\ [FreshGrant]_vars => SpaceInv'
<1> SUFFICES ASSUME IInv, SpaceInv, [Next]_vars, [FreshGrant]_vars PROVE SpaceInv'
  OBVIOUS
<1>1. BusTypes /\ Hidden \in Nat /\ ThereIsSpace /\ Room /\ Emptied
  BY InvBusTypes DEF SpaceInv
<1>2. ASSUME NEW valid \in BOOLEAN, Clk50(valid) PROVE SpaceInv'
  <2>1. EveryEdge(valid)
    BY <1>2 DEF Clk50, Idle, NoSpace, ReadingWaits, ReadingAccepted, Complete
  <2>2. ~reset' /\ (Live' <=> Live)
    BY <2>1 DEF EveryEdge, Live
  <2>3. CASE Live
    <3>1. ~broken
      BY <1>1, <2>3 DEF ThereIsSpace
    <3>2. FreshGrant
      BY <1>2 DEF vars, fifoVars, dmaRegs, FreshGrant
    <3>3. ~broken' /\ Room'
      BY <1>1, <1>2, <2>3, <3>1, <3>2, EdgeRoom
    <3> QED
      BY <2>2, <3>3 DEF SpaceInv, ThereIsSpace, Emptied
  <2>4. CASE ~Live
    BY <2>2, <2>4 DEF SpaceInv, ThereIsSpace, Room, Emptied
  <2> QED
    BY <2>3, <2>4
<1>3. CASE AssertReset
  BY <1>3 DEF AssertReset, FifoClear, SpaceInv, ThereIsSpace, Room, Live, Emptied
<1>4. CASE ReleaseReset
  <2>1. reset /\ ~reset' /\ fifo = <<>> /\ ~broken /\ dma_state = "idle" /\ broken' = broken
    BY <1>4 DEF ReleaseReset, IInv, Fresh, fifoVars
  <2>2. Room'
    BY <1>1, <1>4, <2>1, ReleaseRoom DEF Emptied
  <2> QED
    BY <2>1, <2>2 DEF SpaceInv, ThereIsSpace, Emptied
<1>5. CASE BeatDuringReset
  BY <1>1, <1>5 DEF BeatDuringReset, fifoVars, SpaceInv, ThereIsSpace, Room, Live, Emptied
<1>6. CASE Pop
  <2>1. /\ FifoRead /\ ~broken' /\ Len(fifo) > Hidden /\ ~reset /\ ~reset'
        /\ UNCHANGED <<dma_state, pending_reads, burstcount, inflight, clean, reset>>
    BY <1>6, PopFits DEF Pop, dmaRegs, IInv
  <2>2. Hidden <= Len(fifo)
    BY <1>1, <2>1, RoomTypes
  <2>3. Room'
    BY <1>1, <2>1, <2>2, ReadRoom
  <2> QED
    BY <2>1, <2>3 DEF SpaceInv, ThereIsSpace, Emptied
<1>7. CASE WriteBase \/ UNCHANGED vars
  <2>1. UNCHANGED <<fifo, wrpipe, broken, inflight, clean, reset, dma_state, pending_reads,
                    burstcount>>
    BY <1>7 DEF WriteBase, fifoVars, vars, dmaRegs
  <2> QED
    BY <1>1, <2>1
       DEF SpaceInv, ThereIsSpace, Room, Live, Emptied, Coming, Granted, Missed, Returned
<1> QED
  BY <1>2, <1>3, <1>4, <1>5, <1>6, <1>7 DEF Next

(* Every step leaves room, if there is room for the reader's error.        *)
LEMMA NextSized ==
  ASSUME SizeOK
  PROVE  IInv /\ IInv' /\ SpaceInv /\ [Next]_vars => SpaceInv'
<1> SUFFICES ASSUME IInv, IInv', SpaceInv, [Next]_vars PROVE SpaceInv'
  OBVIOUS
<1>1. BusTypes /\ Room /\ (Live => ~broken)
  BY InvBusTypes DEF SpaceInv, ThereIsSpace
<1>2. Sizes
  BY <1>1, RoomTypes DEF SizeOK, Sizes
<1>3. CASE Live /\ \E valid \in BOOLEAN : Clk50(valid)
  <2>1. FreshGrant
    BY <1>1, <1>3, GrantFresh
  <2> QED
    BY <1>2, <2>1, NextSpace
<1>4. CASE ~Live /\ \E valid \in BOOLEAN : Clk50(valid)
  <2>1. ~reset /\ ~reset' /\ ~Live'
    BY <1>4 DEF Live, Clk50, Idle, NoSpace, ReadingWaits, ReadingAccepted, Complete, EveryEdge
  <2> QED
    BY <2>1 DEF SpaceInv, ThereIsSpace, Room, Emptied
<1>5. CASE AssertReset \/ ReleaseReset \/ BeatDuringReset \/ WriteBase \/ Pop
  <2>1. FreshGrant
    BY <1>5 DEF FreshGrant, AssertReset, ReleaseReset, BeatDuringReset, WriteBase, Pop, dmaRegs
  <2> QED
    BY <1>2, <2>1, NextSpace
<1>6. CASE UNCHANGED vars
  BY <1>2, <1>6, NextSpace
<1> QED
  BY <1>3, <1>4, <1>5, <1>6 DEF Next

(* What is stored and asked for bounds how far the address has come.       *)
LEMMA SpaceBounds == IInv /\ SpaceInv => ThereIsSpace /\ PrefetchBounded
<1> SUFFICES ASSUME IInv, SpaceInv, Live, Running
             PROVE  address <= frame_base + FRAMEWORDS + DEPTH
  BY DEF SpaceInv, PrefetchBounded
<1>1. /\ ~broken /\ BusTypes /\ Missed \in Nat
      /\ Len(fifo) + Len(inflight) + Granted + Missed < DEPTH
  BY InvBusTypes, MissedType DEF SpaceInv, ThereIsSpace, Room
<1>2. address = frame_base + popped + Len(fifo) + Len(inflight)
  BY <1>1 DEF IInv, Ordered, Streaming, Live
<1>3. address \in Nat /\ popped \in Nat /\ popped <= FRAMEWORDS /\ frame_base \in Nat
      /\ FRAMEWORDS \in Nat
  BY DmaAssumption DEF DmaAssumption, IInv, TypeOK
<1> QED
  BY <1>1, <1>2, <1>3, RoomTypes

(* "There MUST be space": with the sizes of the code a word finds the FIFO *)
(* full only after the master has asked for BUFFERWIDTH words while        *)
(* rdempty was stale, however the bus and the reader behave; a wrusedw     *)
(* that lags, and that wraps to 0, never does it.                          *)
THEOREM SpaceUnlessStale ==
  ASSUME Sizes
  PROVE  Spec /\ [][FreshGrant]_vars => []ThereIsSpace
  BY InitInv, InitSpace, NextInv, NextSpace, SpaceBounds, PTL DEF Spec

(* And only then does the read master run more than a FIFO past the frame. *)
THEOREM PrefetchUnlessStale ==
  ASSUME Sizes
  PROVE  Spec /\ [][FreshGrant]_vars => []PrefetchBounded
  BY InitInv, InitSpace, NextInv, NextSpace, SpaceBounds, PTL DEF Spec

(* If BUFFERWIDTH leaves room for what the reader may not see, no word     *)
(* ever finds the FIFO full.                                               *)
THEOREM SpaceSafe == ASSUME SizeOK PROVE Spec => []ThereIsSpace
  BY InitInv, InitSpace, NextInv, NextSized, SpaceBounds, PTL DEF Spec

(* Then the read master never runs more than a FIFO past the frame.        *)
THEOREM PrefetchSafe == ASSUME SizeOK PROVE Spec => []PrefetchBounded
  BY InitInv, InitSpace, NextInv, NextSized, SpaceBounds, PTL DEF Spec

-----------------------------------------------------------------------------
(* Refinement: the word at the head of everything stored, on the bus and   *)
(* still to be asked for is the next one of the frame.                     *)
LEMMA NextWordIs ==
  IInv => NextWord = IF Streaming THEN frame_base + popped ELSE 0
<1> SUFFICES ASSUME IInv
             PROVE  NextWord = IF Streaming THEN frame_base + popped ELSE 0
  OBVIOUS
<1>1. CASE ~Streaming
  BY <1>1 DEF NextWord
<1>2. CASE Streaming
  <2>0. /\ fifo \in Seq(Nat) /\ inflight \in Seq(Nat)
        /\ popped \in Nat /\ frame_base \in Nat
    BY DmaAssumption DEF DmaAssumption, IInv, TypeOK
  <2>1. Stream \in Seq(Nat)
    BY <2>0, Concatenation DEF Stream
  <2>2. /\ \A i \in 1..Len(Stream) : Stream[i] = frame_base + popped + i - 1
        /\ address = frame_base + popped + Len(Stream)
    BY <1>2, OrderedStream DEF WordsInOrder, Live, Streaming, Running
  <2>3. CASE Stream = <<>>
    BY <1>2, <2>0, <2>2, <2>3 DEF NextWord
  <2>4. CASE Stream # <<>>
    <3>1. 1 \in 1..Len(Stream) /\ Head(Stream) = Stream[1]
      BY <2>1, <2>4
    <3>2. Stream[1] = frame_base + popped
      BY <2>0, <2>2, <3>1
    <3> QED
      BY <1>2, <2>4, <3>1, <3>2 DEF NextWord
  <2> QED
    BY <2>3, <2>4
<1> QED
  BY <1>1, <1>2

(* Every step of the read master is a step of the word stream, or none.    *)
LEMMA StepRefines ==
  ASSUME IInv, IInv', Next,
         NextWord = (IF Streaming THEN frame_base + popped ELSE 0),
         NextWord' = (IF Streaming THEN frame_base + popped ELSE 0)'
  PROVE  WS!Next \/ UNCHANGED <<ctrl_fb_base, Streaming, NextWord>>
<1>0. frame_base \in Nat /\ popped \in Nat
  BY DmaAssumption DEF DmaAssumption, IInv, TypeOK
<1>e. ASSUME Streaming, ~Streaming', ctrl_fb_base' = ctrl_fb_base PROVE WS!End
  BY <1>e DEF WS!End
<1>s. ASSUME ~Streaming, ~Streaming', ctrl_fb_base' = ctrl_fb_base
      PROVE  UNCHANGED <<ctrl_fb_base, Streaming, NextWord>>
  <2>1. Streaming' = Streaming
    BY <1>s DEF Streaming, Running
  <2> QED
    BY <1>s, <2>1
<1>1. ASSUME NEW valid \in BOOLEAN, Idle(valid)
      PROVE  WS!Begin \/ UNCHANGED <<ctrl_fb_base, Streaming, NextWord>>
  <2>1. /\ ~Running /\ Running' /\ frame_base' = ctrl_fb_base /\ popped' = popped
        /\ ctrl_fb_base' = ctrl_fb_base /\ ~reset /\ clean' = clean /\ EveryEdge(valid)
    BY <1>1 DEF Idle, EveryEdge, Running
  <2>2. CASE ~clean
    BY <1>s, <2>1, <2>2 DEF Streaming
  <2>3. CASE clean
    <3>1. Live /\ popped = 0 /\ ~broken
      BY <1>1, <2>1, <2>3 DEF IInv, Fresh, Idle, Live
    <3>2. ~broken'
      BY <1>1, <2>1, <3>1, QuietEdge DEF Idle
    <3>3. ~Streaming /\ Streaming'
      BY <2>1, <2>3, <3>2 DEF Streaming
    <3>4. frame_base' + popped' = ctrl_fb_base
      BY <1>0, <2>1, <3>1, DmaAssumption DEF DmaAssumption, IInv, TypeOK
    <3> QED
      BY <2>1, <3>3, <3>4 DEF WS!Begin
  <2> QED
    BY <2>2, <2>3
<1>2. ASSUME NEW valid \in BOOLEAN,
             NoSpace(valid) \/ ReadingWaits(valid) \/ ReadingAccepted(valid) \/ Complete(valid)
      PROVE  WS!End \/ UNCHANGED <<ctrl_fb_base, Streaming, NextWord>>
  <2>1. /\ Running /\ Running' /\ EveryEdge(valid)
        /\ UNCHANGED <<ctrl_fb_base, frame_base, popped, clean>>
    BY <1>2
       DEF NoSpace, ReadingWaits, ReadingAccepted, Complete, EveryEdge, Running
  <2>b. broken => broken'
    BY <2>1, Zenon DEF EveryEdge, FifoWrClk
  <2>2. CASE Streaming'
    <3>1. Streaming /\ Streaming' = Streaming
      BY <2>1, <2>b, <2>2 DEF Streaming, Running
    <3> QED
      BY <2>1, <2>2, <3>1
  <2>3. CASE ~Streaming'
    BY <1>e, <1>s, <2>1, <2>3
  <2> QED
    BY <2>2, <2>3
<1>3. CASE AssertReset
  <2>1. ~Streaming' /\ ctrl_fb_base' = ctrl_fb_base
    BY <1>3 DEF AssertReset, Streaming, Running
  <2> QED
    BY <1>e, <1>s, <2>1 DEF WS!Next
<1>4. CASE ReleaseReset \/ BeatDuringReset
  <2>1. ~Streaming /\ ~Streaming' /\ ctrl_fb_base' = ctrl_fb_base
    BY <1>4 DEF ReleaseReset, BeatDuringReset, Streaming, Running, dmaRegs, IInv, Fresh
  <2> QED
    BY <1>s, <2>1
<1>5. CASE WriteBase
  <2>1. /\ ctrl_fb_base' \in Bases
        /\ UNCHANGED <<reset, dma_state, broken, clean, frame_base, popped>>
    BY <1>5 DEF WriteBase, fifoVars
  <2>2. Streaming' = Streaming
    BY <2>1 DEF Streaming, Running
  <2>3. NextWord' = NextWord
    BY <2>1, <2>2
  <2> QED
    BY <2>1, <2>2, <2>3 DEF WS!Next, WS!SetBase
<1>6. CASE Pop
  <2>1. /\ ~reset /\ fifo # <<>> /\ popped' = popped + 1 /\ ~broken /\ ~broken'
        /\ UNCHANGED <<reset, dma_state, ctrl_fb_base, frame_base, clean>>
    BY <1>6, PopFits, HiddenBound, FifoAssumption DEF FifoAssumption, Pop, dmaRegs, IInv
  <2>2. Streaming' = Streaming
    BY <2>1 DEF Streaming, Running
  <2>3. CASE ~clean
    BY <1>s, <2>1, <2>2, <2>3 DEF Streaming
  <2>4. CASE clean
    <3>1. Streaming /\ Streaming'
      BY <2>1, <2>2, <2>4 DEF IInv, Fresh, Live, Streaming, Running
    <3>2. frame_base' + popped' = (frame_base + popped) + 1
      BY <1>0, <2>1
    <3>3. NextWord' = NextWord + 1
      BY <3>1, <3>2
    <3> QED
      BY <2>1, <2>2, <3>1, <3>3 DEF WS!Next, WS!Deliver
  <2> QED
    BY <2>3, <2>4
<1> QED
  BY <1>1, <1>2, <1>3, <1>4, <1>5, <1>6 DEF Next, Clk50, WS!Next

(* The read master implements a stream of consecutive words from a base    *)
(* that is read once a frame, whatever the sizes and the resets: an        *)
(* overflow ends a frame, and a reset too short for the bus skips one.     *)
THEOREM Refinement == Spec => IsWordStream
<1>1. Init => IInv
  BY InitInv
<1>2. IInv /\ [Next]_vars => IInv'
  BY NextInv
<1>3. Init => WS!Init
  BY DEF Init, FifoInit, WS!Init, Streaming, Running, NextWord
<1>4. IInv => NextWord = IF Streaming THEN frame_base + popped ELSE 0
  BY NextWordIs
<1>5. (IInv => NextWord = IF Streaming THEN frame_base + popped ELSE 0)'
  BY <1>4, PTL
<1>6. IInv /\ IInv' /\ [Next]_vars => [WS!Next]_<<ctrl_fb_base, Streaming, NextWord>>
  <2> SUFFICES ASSUME IInv, IInv', [Next]_vars
               PROVE  [WS!Next]_<<ctrl_fb_base, Streaming, NextWord>>
    OBVIOUS
  <2>1. CASE Next
    BY <1>4, <1>5, <2>1, StepRefines
  <2>2. CASE UNCHANGED vars
    BY <2>2 DEF vars, fifoVars, dmaRegs, Streaming, Running, NextWord, Stream
  <2> QED
    BY <2>1, <2>2
<1>7. IsWordStream <=> WS!Init /\ [][WS!Next]_<<ctrl_fb_base, Streaming, NextWord>>
  BY DEF IsWordStream, WS!Spec, WS!wsVars
<1> QED
  BY <1>1, <1>2, <1>3, <1>6, <1>7, PTL DEF Spec
=============================================================================
