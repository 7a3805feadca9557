------------------------------- MODULE DcFifo -------------------------------
(***************************************************************************)
(* The dual-clock FIFO vga_controller_fifo, an Altera dcfifo of DEPTH      *)
(* words in show-ahead mode, as its two users see it: the writer in the    *)
(* clk50 domain and the reader in the domain of the pixel clock, which is  *)
(* clk50 divided by two.                                                   *)
(*                                                                         *)
(* Each side learns of the other's operations late, through a pipe of      *)
(* synchronisation registers.  The lags are counted in periods of clk50.   *)
(* The module holds the state and the operations; its users decide when    *)
(* they happen.                                                            *)
(***************************************************************************)
EXTENDS Integers, Sequences, FiniteSets

CONSTANTS
  DEPTH,   \* lpm_numwords (64)
  RdLag,   \* clk50 edges after which a written word shows in rdempty
  WrLag    \* clk50 edges after which a read shows in wrusedw

ASSUME FifoAssumption ==
  DEPTH \in Nat \ {0} /\ RdLag \in Nat /\ WrLag \in Nat

VARIABLES
  fifo,    \* the words stored, oldest first
  rdpipe,  \* rdpipe[i]: a word was written i edges of clk50 ago
  wrpipe,  \* wrpipe[i]: a word was read between the i-th last edge and the next
  broken   \* a write found no room or a read found no word, since the last aclr

fifoVars == <<fifo, rdpipe, wrpipe, broken>>

\* Words the reader does not see yet, and reads the writer does not see yet.
Hidden == Cardinality({i \in 1..RdLag : rdpipe[i]})
Late   == Cardinality({i \in 0..WrLag : wrpipe[i]})

(***************************************************************************)
(* overflow_checking and underflow_checking are OFF: once a pointer has    *)
(* overtaken the other one the flags and the data mean nothing until aclr, *)
(* so any value of a flag is an outcome.                                   *)
(***************************************************************************)
RdEmptyOutcomes ==
  IF broken THEN BOOLEAN ELSE {Len(fifo) = Hidden}

\* lpm_widthu = log2(DEPTH): a full FIFO reports 0 words.
WrUsedWOutcomes ==
  IF broken THEN 0..(DEPTH - 1) ELSE {(Len(fifo) + Late) % DEPTH}

FifoInit ==
  /\ fifo = <<>>
  /\ rdpipe = [i \in 1..RdLag |-> FALSE]
  /\ wrpipe = [i \in 0..WrLag |-> FALSE]
  /\ broken = FALSE

\* aclr
FifoClear ==
  /\ fifo' = <<>>
  /\ rdpipe' = [i \in 1..RdLag |-> FALSE]
  /\ wrpipe' = [i \in 0..WrLag |-> FALSE]
  /\ broken' = FALSE

\* An edge of wrclk: the words of ws (none or one) are written, and what
\* happened on each side moves one register on its way to the other.  What the
\* registers of a broken FIFO hold is of no consequence.
FifoWrClk(ws) ==
  /\ broken' = (broken \/ Len(fifo) + Len(ws) > DEPTH)
  /\ fifo' = IF broken' THEN <<>> ELSE fifo \o ws
  /\ rdpipe' = [i \in 1..RdLag |->
                  ~broken' /\ IF i = 1 THEN ws # <<>> ELSE rdpipe[i - 1]]
  /\ wrpipe' = [i \in 0..WrLag |-> ~broken' /\ i > 0 /\ wrpipe[i - 1]]

\* An edge of rdclk with rdreq.
FifoRead ==
  /\ broken' = (broken \/ Len(fifo) = Hidden)
  /\ fifo' = IF broken' THEN <<>> ELSE Tail(fifo)
  /\ rdpipe' = [i \in 1..RdLag |-> ~broken' /\ rdpipe[i]]
  /\ wrpipe' = [i \in 0..WrLag |-> ~broken' /\ (i = 0 \/ wrpipe[i])]
=============================================================================
