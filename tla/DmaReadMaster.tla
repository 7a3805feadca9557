--------------------------- MODULE DmaReadMaster ---------------------------
(***************************************************************************)
(* The read master of vga_controller_dma_vga_logic: the process dma_fsm,   *)
(* the FIFO it fills, the Avalon bus it reads through and the reset that   *)
(* restarts it at every vertical synchronisation.                          *)
(*                                                                         *)
(* The bus and the reader of the FIFO are environment: the bus accepts a   *)
(* burst and returns its words when it likes, in order; the reader takes   *)
(* at most the FRAMEWORDS words of a frame, and never from a FIFO that     *)
(* looks empty.  A word is identified with its address, in words.          *)
(***************************************************************************)
EXTENDS DcFifo

CONSTANTS
  BUFFERWIDTH,  \* the words asked for when the FIFO is empty        (63)
  Bases,        \* the values software writes to the base register
  FRAMEWORDS,   \* the words a frame is made of                      (128 * 480)
  MaxInflight,  \* bound: the words the bus has accepted and not returned
  MaxAddress    \* bound: no request behind this address is accepted

ASSUME DmaAssumption ==
  /\ BUFFERWIDTH \in Nat /\ BUFFERWIDTH >= 2
  /\ Bases \subseteq Nat /\ Bases # {}
  /\ FRAMEWORDS \in Nat
  /\ MaxInflight \in Nat /\ MaxInflight >= BUFFERWIDTH
  /\ MaxAddress \in Nat

VARIABLES
  reset,          \* input: not GO, or v_sync low
  ctrl_fb_base,   \* input: the base register
  dma_state,      \* t_dma_state
  address,        \* the address of the next burst
  pending_reads,  \* the words still to come, as dma_fsm counts them
  burstcount,     \* the words asked for
  inflight,       \* environment: the words the bus has accepted and not returned
  popped,         \* environment: the words the reader has taken in this frame
  frame_base,     \* history: the base this frame started from
  clean           \* history: no word was inflight when the reset was released

dmaRegs == <<dma_state, address, pending_reads, burstcount>>
vars == <<fifoVars, reset, ctrl_fb_base, dmaRegs, inflight, popped, frame_base, clean>>

States == {"idle", "nospace", "reading", "complete"}
Half == BUFFERWIDTH \div 2

-----------------------------------------------------------------------------
(* What an edge of clk50 sees of the bus: a word (valid) or none.           *)
Beat(valid) == IF valid THEN <<Head(inflight)>> ELSE <<>>
Rest(valid) == IF valid THEN Tail(inflight) ELSE inflight

\* Mutant of Decremented: the counter is not kept in its range.
DecrementedUnbounded(valid) == IF valid THEN pending_reads - 1 ELSE pending_reads

\* "ALWAYS decrement pending reads on received data": 6 bits wrap at 0.
Decremented(valid) ==
  IF valid THEN (pending_reads + BUFFERWIDTH) % (BUFFERWIDTH + 1) ELSE pending_reads

Burst(from, n) == [i \in 1..n |-> from + i - 1]

\* What every edge does, whatever the state: fifo_write <= dma_readdatavalid.
EveryEdge(valid) ==
  /\ ~reset
  /\ valid => inflight # <<>>
  /\ FifoWrClk(Beat(valid))
  /\ UNCHANGED <<reset, ctrl_fb_base, popped, clean>>

Idle(valid) ==
  /\ dma_state = "idle"
  /\ EveryEdge(valid)
  /\ address' = ctrl_fb_base
  /\ frame_base' = ctrl_fb_base
  /\ dma_state' = "nospace"
  /\ pending_reads' = Decremented(valid)
  /\ inflight' = Rest(valid)
  /\ UNCHANGED burstcount

\* Mutant of NoSpace: the number of words used is not compared.
NoSpaceGreedy(valid) ==
  /\ dma_state = "nospace"
  /\ EveryEdge(valid)
  /\ \E empty \in RdEmptyOutcomes :
       burstcount' = IF empty THEN BUFFERWIDTH ELSE Half
  /\ dma_state' = "reading"
  /\ pending_reads' = Decremented(valid)
  /\ inflight' = Rest(valid)
  /\ UNCHANGED <<address, frame_base>>

\* Mutant of NoSpace: the next words are asked for when few are left.
NoSpaceLazy(valid) ==
  /\ dma_state = "nospace"
  /\ EveryEdge(valid)
  /\ \E empty \in RdEmptyOutcomes, used \in WrUsedWOutcomes :
       \/ /\ empty
          /\ burstcount' = BUFFERWIDTH
          /\ dma_state' = "reading"
       \/ /\ ~empty /\ used < Half \div 2
          /\ burstcount' = Half
          /\ dma_state' = "reading"
       \/ /\ ~empty /\ used >= Half \div 2
          /\ UNCHANGED <<burstcount, dma_state>>
  /\ pending_reads' = Decremented(valid)
  /\ inflight' = Rest(valid)
  /\ UNCHANGED <<address, frame_base>>

NoSpace(valid) ==
  /\ dma_state = "nospace"
  /\ EveryEdge(valid)
  /\ \E empty \in RdEmptyOutcomes, used \in WrUsedWOutcomes :
       \/ /\ empty
          /\ burstcount' = BUFFERWIDTH
          /\ dma_state' = "reading"
       \/ /\ ~empty /\ used <= Half
          /\ burstcount' = Half
          /\ dma_state' = "reading"
       \/ /\ ~empty /\ used > Half
          /\ UNCHANGED <<burstcount, dma_state>>
  /\ pending_reads' = Decremented(valid)
  /\ inflight' = Rest(valid)
  /\ UNCHANGED <<address, frame_base>>

\* The bus holds the request back: dma_waitreq is high.
ReadingWaits(valid) ==
  /\ dma_state = "reading"
  /\ EveryEdge(valid)
  /\ pending_reads' = Decremented(valid)
  /\ inflight' = Rest(valid)
  /\ UNCHANGED <<dma_state, address, burstcount, frame_base>>

\* The bus accepts the request.  A word that arrives on the same edge is
\* taken for the first one of this burst.
ReadingAccepted(valid) ==
  /\ dma_state = "reading"
  /\ EveryEdge(valid)
  /\ Len(inflight) + burstcount <= MaxInflight /\ address <= MaxAddress
  /\ address' = address + burstcount
  /\ pending_reads' = IF valid THEN burstcount - 1 ELSE burstcount
  /\ inflight' = Rest(valid) \o Burst(address, burstcount)
  /\ dma_state' = "complete"
  /\ UNCHANGED <<burstcount, frame_base>>

\* Mutant of Complete: any word that arrives is taken for the last one.
CompleteEarly(valid) ==
  /\ dma_state = "complete"
  /\ EveryEdge(valid)
  /\ pending_reads' = Decremented(valid)
  /\ dma_state' = IF valid THEN "nospace" ELSE "complete"
  /\ inflight' = Rest(valid)
  /\ UNCHANGED <<address, burstcount, frame_base>>

\* Mutant of Complete: the last word is missed.
CompleteLate(valid) ==
  /\ dma_state = "complete"
  /\ EveryEdge(valid)
  /\ pending_reads' = Decremented(valid)
  /\ dma_state' = IF valid /\ pending_reads = 0 THEN "nospace" ELSE "complete"
  /\ inflight' = Rest(valid)
  /\ UNCHANGED <<address, burstcount, frame_base>>

Complete(valid) ==
  /\ dma_state = "complete"
  /\ EveryEdge(valid)
  /\ pending_reads' = Decremented(valid)
  /\ dma_state' = IF valid /\ pending_reads = 1 THEN "nospace" ELSE "complete"
  /\ inflight' = Rest(valid)
  /\ UNCHANGED <<address, burstcount, frame_base>>

Clk50(valid) ==
  \/ Idle(valid)
  \/ NoSpace(valid)
  \/ ReadingWaits(valid)
  \/ ReadingAccepted(valid)
  \/ Complete(valid)

-----------------------------------------------------------------------------
\* v_sync falls, or software clears GO.  The bus does not hear of it.
AssertReset ==
  /\ ~reset
  /\ reset' = TRUE
  /\ dma_state' = "idle"
  /\ address' = ctrl_fb_base
  /\ pending_reads' = 0
  /\ FifoClear
  /\ popped' = 0
  /\ UNCHANGED <<ctrl_fb_base, burstcount, inflight, frame_base, clean>>

ReleaseReset ==
  /\ reset
  /\ reset' = FALSE
  /\ clean' = (inflight = <<>>)
  /\ UNCHANGED <<fifoVars, ctrl_fb_base, dmaRegs, inflight, popped, frame_base>>

\* A word that returns while aclr is held is lost.
BeatDuringReset ==
  /\ reset /\ inflight # <<>>
  /\ inflight' = Tail(inflight)
  /\ UNCHANGED <<fifoVars, reset, ctrl_fb_base, dmaRegs, popped, frame_base, clean>>

\* Mutant of WriteBase: the new base takes effect at once.
WriteBaseAtOnce ==
  /\ ctrl_fb_base' \in Bases \ {ctrl_fb_base}
  /\ address' = ctrl_fb_base'
  /\ UNCHANGED <<fifoVars, reset, dma_state, pending_reads, burstcount, inflight,
                 popped, frame_base, clean>>

\* Software writes the base register; address is loaded while reset is high.
WriteBase ==
  /\ ctrl_fb_base' \in Bases \ {ctrl_fb_base}
  /\ address' = IF reset THEN ctrl_fb_base' ELSE address
  /\ UNCHANGED <<fifoVars, reset, dma_state, pending_reads, burstcount, inflight,
                 popped, frame_base, clean>>

\* The reader takes a word, at most once in a period of clk50.
Pop ==
  /\ ~reset /\ ~wrpipe[0] /\ popped < FRAMEWORDS
  /\ ~broken /\ Len(fifo) > Hidden
  /\ FifoRead
  /\ popped' = popped + 1
  /\ UNCHANGED <<reset, ctrl_fb_base, dmaRegs, inflight, frame_base, clean>>

Init ==
  /\ FifoInit
  /\ reset = TRUE
  /\ ctrl_fb_base = 0
  /\ dma_state = "idle"
  /\ address = ctrl_fb_base
  /\ pending_reads = 0
  /\ burstcount = 0
  /\ inflight = <<>>
  /\ popped = 0
  /\ frame_base = ctrl_fb_base
  /\ clean = TRUE

Next ==
  \/ \E valid \in BOOLEAN : Clk50(valid)
  \/ AssertReset \/ ReleaseReset \/ BeatDuringReset \/ WriteBase \/ Pop

(***************************************************************************)
(* clk50 runs; the arbiter of the bus serves its masters in turn, so a     *)
(* request is accepted in the end; and the memory returns every word.      *)
(* Nothing is assumed of the reader, of GO or of v_sync.                   *)
(***************************************************************************)
Fairness ==
  /\ WF_vars(\E valid \in BOOLEAN : Clk50(valid))
  /\ WF_vars(\E valid \in BOOLEAN : ReadingAccepted(valid))
  /\ WF_vars(Clk50(TRUE))

Spec == Init /\ [][Next]_vars /\ Fairness

-----------------------------------------------------------------------------
TypeOK ==
  /\ fifo \in Seq(Nat) /\ Len(fifo) <= DEPTH
  /\ rdpipe \in [1..RdLag -> BOOLEAN]
  /\ wrpipe \in [0..WrLag -> BOOLEAN]
  /\ broken \in BOOLEAN
  /\ reset \in BOOLEAN
  /\ ctrl_fb_base \in Bases \cup {0}
  /\ dma_state \in States
  /\ address \in Nat
  /\ pending_reads \in 0..BUFFERWIDTH
  /\ burstcount \in {0, Half, BUFFERWIDTH}
  /\ inflight \in Seq(Nat) /\ Len(inflight) <= MaxInflight
  /\ popped \in 0..FRAMEWORDS
  /\ frame_base \in Bases \cup {0}
  /\ clean \in BOOLEAN

\* BUFFERWIDTH leaves room for the words the reader may not see, and half of it
\* takes longer to return than the writer is behind.
SizeOK == BUFFERWIDTH + RdLag < DEPTH /\ WrLag < Half

(***************************************************************************)
(* A step that asks for BUFFERWIDTH words does so when there is room for   *)
(* them: with the 63 words of 64 of the code, when the FIFO is empty, as   *)
(* rdempty says.                                                           *)
(***************************************************************************)
FreshGrant ==
  dma_state = "nospace" /\ dma_state' = "reading" /\ burstcount' = BUFFERWIDTH
    => Len(fifo) + BUFFERWIDTH < DEPTH

Live == clean /\ ~reset
Running == ~reset /\ dma_state # "idle"
Streaming == Running /\ ~broken /\ clean
Stream == fifo \o inflight

(***************************************************************************)
(* "write data into fifo as it arrives, there MUST be space": however late *)
(* the two sides of the FIFO learn of each other, no word that was asked   *)
(* for finds the FIFO full, and none is read twice.                        *)
(***************************************************************************)
ThereIsSpace == Live => ~broken

(***************************************************************************)
(* pending_reads counts the words on the bus exactly: the master asks for  *)
(* the next burst when, and only when, the last one has returned, although *)
(* words arrive in every state and the counter is written from two places. *)
(***************************************************************************)
PendingExact ==
  Live => /\ dma_state # "complete" => inflight = <<>>
          /\ dma_state = "complete" => /\ inflight # <<>>
                                      /\ pending_reads = Len(inflight)

(***************************************************************************)
(* What the reader has taken, what is stored, what is on the bus and what  *)
(* will be asked for are the words of one frame, in order, without a gap   *)
(* or a repetition, from the base the frame started with, as long as no    *)
(* word has found the FIFO full.                                           *)
(***************************************************************************)
WordsInOrder ==
  Streaming =>
    /\ \A i \in 1..Len(Stream) : Stream[i] = frame_base + popped + i - 1
    /\ address = frame_base + popped + Len(Stream)

(***************************************************************************)
(* The master does not know where a frame ends and reads on behind it, but *)
(* never by more than a FIFO of words: software must leave that much room  *)
(* behind the frame buffer at the end of the memory.                       *)
(***************************************************************************)
PrefetchBounded ==
  Live /\ Running => address <= frame_base + FRAMEWORDS + DEPTH

(***************************************************************************)
(* A reader that finds the FIFO empty gets a word in the end, unless the   *)
(* reset or an overflow comes first, also when words of an earlier request *)
(* arrive after a reset that was too short.                                *)
(***************************************************************************)
Starved == ~reset /\ ~broken /\ Len(fifo) = Hidden
Refill == Starved ~> ~Starved

(***************************************************************************)
(* The words the reader sees, as a specification of their own.  A frame    *)
(* ends with the reset, or early with an overflow, and there is none after *)
(* a reset that words of the last frame outlived.                          *)
(***************************************************************************)
NextWord ==
  IF ~Streaming THEN 0 ELSE IF Stream = <<>> THEN address ELSE Head(Stream)

WS == INSTANCE WordStream
        WITH fb_base <- ctrl_fb_base, running <- Streaming, next <- NextWord

\* The read master implements a stream of consecutive words.
IsWordStream == WS!Spec
=============================================================================
