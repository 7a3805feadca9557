------------------------------ MODULE JtagUart ------------------------------
(***************************************************************************)
(* The driver of the JTAG UART (altera_avalon_jtag_uart_*.c) with its      *)
(* interrupt routine, the device (system_jtag_uart_0.v) and the host.  The *)
(* program and the routine share two ring buffers and irq_enable.          *)
(*                                                                         *)
(* The program runs one action per access to what it shares; the routine   *)
(* one per access to the device, and the program waits while it runs.  The *)
(* host moves at any time.  Interrupts are disabled from the change of     *)
(* irq_enable to the write of the device's copy, which is one action.      *)
(***************************************************************************)
EXTENDS Integers, Sequences

CONSTANTS
  BUF_LEN,     \* ALTERA_AVALON_JTAG_UART_BUF_LEN, 2048
  DEPTH,       \* of each of the two FIFOs, 64
  THRESHOLD,   \* of fifo_AE and fifo_AF, 8
  DEFAULT_TIMEOUT,   \* in seconds, 10
  INT_MAX,
  Chars,       \* characters are numbers below Chars, sent in turn
  MaxSpace,    \* the longest read or write
  HasTimer     \* whether alt_alarm_start finds a timer
ASSUME BuffersAssumption ==
  /\ BUF_LEN \in Nat /\ BUF_LEN >= 2
  /\ DEPTH \in Nat \ {0} /\ THRESHOLD \in 0 .. DEPTH - 1
  /\ HasTimer \in BOOLEAN
  /\ Chars \in Nat \ {0} /\ MaxSpace \in Nat \ {0}
ASSUME TimeoutAssumption ==
  INT_MAX \in Nat /\ DEFAULT_TIMEOUT \in 2 .. INT_MAX - 1

VARIABLES
  rx_fifo, tx_fifo,          \* the device's FIFOs
  pause_irq, ac,             \* its flags: the host pauses; the host was active
  connected,                 \* whether the host attends to the device
  irq_enable,                \* enabled interrupts: "RE", "WE"
  rx_in, rx_out, rx_buf,     \* the ring the routine fills and read empties
  tx_in, tx_out, tx_buf,     \* the ring write fills and the routine empties
  timeout, host_inactive,    \* seconds
  isr, wi, space, ravail,    \* the routine: where it is, and its locals
  pc, seen, n, left,         \* the program: where it is, and its locals
  moved,                     \* the call has moved its pointer
  nonblock,                  \* flags & O_NONBLOCK
  user,                      \* what read has put into the caller's buffer, until
                             \* it returns
  typed, written, host       \* the stream's next character at the host and at
                             \* write, and what the host has received

device == <<rx_fifo, tx_fifo, pause_irq, ac>>
rings == <<rx_in, rx_out, rx_buf, tx_in, tx_out, tx_buf>>
routine == <<isr, wi, space, ravail>>
locals == <<seen, n, left, moved, nonblock>>
program == <<pc, locals, user>>
streams == <<typed, written, host>>
vars == <<device, connected, irq_enable, rings, timeout, host_inactive, routine,
          program, streams>>

Slots == 0 .. BUF_LEN - 1
Char == 0 .. Chars - 1
\* (Mutant: without the wrap.)
FollowsUnwrapped(i) == i + 1
Follows(i) == (i + 1) % BUF_LEN
\* The occupied part of a ring.
Used(in, out) == (in - out) % BUF_LEN
Contents(buf, in, out) == [i \in 1 .. Used(in, out) |-> buf[(out + i - 1) % BUF_LEN]]
Least(a, b) == IF a < b THEN a ELSE b

\* altera_avalon_jtag_uart_init: it does not know whether the host is there if
\* there is no timer.
Init ==
  /\ rx_fifo = <<>> /\ tx_fifo = <<>> /\ pause_irq = FALSE /\ ac = FALSE
  /\ connected \in BOOLEAN
  /\ irq_enable = {"RE"}
  /\ rx_in = 0 /\ rx_out = 0 /\ rx_buf = [i \in Slots |-> 0]
  /\ tx_in = 0 /\ tx_out = 0 /\ tx_buf = [i \in Slots |-> 0]
  /\ timeout = (IF HasTimer THEN DEFAULT_TIMEOUT ELSE INT_MAX) /\ host_inactive = 0
  /\ isr = "none" /\ wi = FALSE /\ space = 0 /\ ravail = FALSE
  /\ pc = "idle" /\ seen = 0 /\ n = 0 /\ left = 0 /\ moved = FALSE /\ nonblock = FALSE
  /\ user = <<>>
  /\ typed = 0 /\ written = 0 /\ host = <<>>
-----------------------------------------------------------------------------
\* The host: it types, it pauses, it takes a character, it comes and goes.
Type ==
  /\ connected /\ Len(rx_fifo) < DEPTH
  /\ rx_fifo' = Append(rx_fifo, typed) /\ typed' = (typed + 1) % Chars
  /\ ac' = TRUE
  /\ UNCHANGED <<tx_fifo, pause_irq, connected, irq_enable, rings, timeout,
                 host_inactive, routine, program, written, host>>

Pause ==
  /\ connected
  /\ pause_irq' = (pause_irq \/ rx_fifo # <<>>)
  /\ ac' = TRUE
  /\ UNCHANGED <<rx_fifo, tx_fifo, connected, irq_enable, rings, timeout,
                 host_inactive, routine, program, streams>>

Drain ==
  /\ connected /\ tx_fifo # <<>>
  /\ tx_fifo' = Tail(tx_fifo) /\ host' = <<Head(tx_fifo)>>
  /\ UNCHANGED <<rx_fifo, pause_irq, ac, connected, irq_enable, rings, timeout,
                 host_inactive, routine, program, typed, written>>

Plug ==
  /\ connected' = ~connected
  /\ UNCHANGED <<device, irq_enable, rings, timeout, host_inactive, routine,
                 program, streams>>

Host == Type \/ Pause \/ Drain \/ Plug
-----------------------------------------------------------------------------
\* The device asks for a read when its FIFO is almost full or the host pauses,
\* and for a write when its FIFO is almost empty.
RI == "RE" \in irq_enable /\ (pause_irq \/ DEPTH - Len(rx_fifo) <= THRESHOLD)
WI == "WE" \in irq_enable /\ Len(tx_fifo) <= THRESHOLD

Interrupt ==
  /\ isr = "none" /\ (RI \/ WI)
  /\ isr' = "control"
  /\ UNCHANGED <<device, connected, irq_enable, rings, timeout, host_inactive,
                 wi, space, ravail, program, streams>>

\* The head of the routine's loop: it ends when nothing is asked for.
Control ==
  /\ isr = "control"
  /\ isr' = IF RI THEN "read" ELSE IF WI THEN "write" ELSE "none"
  /\ wi' = WI
  /\ space' = IF WI THEN DEPTH - Len(tx_fifo) ELSE 0
  /\ ravail' = RI
  /\ UNCHANGED <<device, connected, irq_enable, rings, timeout, host_inactive,
                 program, streams>>

\* The read loop: a character is taken when there is space for it.  The device
\* tells whether it had one (RVALID), and an edge later how many it has left
\* (RAVAIL); then it also forgets the pause.
RingFull == Follows(rx_in) = rx_out
TakeData ==
  /\ isr = "read" /\ ~RingFull
  /\ IF rx_fifo = <<>>
     THEN isr' = "invalid" /\ UNCHANGED <<rx_fifo, rx_buf, rx_in>>
     ELSE /\ isr' = "valid"
          /\ rx_fifo' = Tail(rx_fifo)
          /\ rx_buf' = [rx_buf EXCEPT ![rx_in] = Head(rx_fifo)]
          /\ rx_in' = Follows(rx_in)
  /\ UNCHANGED <<tx_fifo, pause_irq, ac, connected, irq_enable, rx_out,
                 tx_in, tx_out, tx_buf, timeout, host_inactive, wi, space, ravail,
                 program, streams>>

CountData ==
  /\ isr \in {"valid", "invalid"}
  /\ isr' = IF isr = "valid" THEN "read" ELSE "readend"
  /\ ravail' = (rx_fifo # <<>>)
  /\ pause_irq' = FALSE
  /\ UNCHANGED <<rx_fifo, tx_fifo, ac, connected, irq_enable, rings, timeout,
                 host_inactive, wi, space, program, streams>>

StopReading ==
  /\ isr = "read" /\ RingFull
  /\ isr' = "readend"
  /\ UNCHANGED <<device, connected, irq_enable, rings, timeout, host_inactive,
                 wi, space, ravail, program, streams>>

\* (Mutant: the interrupt is left on.)
ReadEndOn ==
  /\ isr = "readend"
  /\ isr' = IF wi THEN "write" ELSE "control"
  /\ ravail' = FALSE
  /\ UNCHANGED <<device, connected, irq_enable, rings, timeout, host_inactive, wi, space,
                 program, streams>>

ReadEnd ==
  /\ isr = "readend"
  /\ irq_enable' = IF ravail THEN irq_enable \ {"RE"} ELSE irq_enable
  /\ isr' = IF wi THEN "write" ELSE "control"
  /\ ravail' = FALSE
  /\ UNCHANGED <<device, connected, rings, timeout, host_inactive, wi, space,
                 program, streams>>

\* The write loop, as long as there was space when it began.  A full FIFO would
\* drop the character.
PutData ==
  /\ isr = "write" /\ space > 0 /\ tx_out # tx_in
  /\ tx_fifo' = IF Len(tx_fifo) < DEPTH THEN Append(tx_fifo, tx_buf[tx_out]) ELSE tx_fifo
  /\ tx_out' = Follows(tx_out)
  /\ space' = space - 1
  /\ UNCHANGED <<rx_fifo, pause_irq, ac, connected, irq_enable, rx_in, rx_out, rx_buf,
                 tx_in, tx_buf, timeout, host_inactive, isr, wi, ravail, program, streams>>

WriteEnd ==
  /\ isr = "write" /\ (space = 0 \/ tx_out = tx_in)
  /\ irq_enable' = IF space > 0 THEN irq_enable \ {"WE"} ELSE irq_enable
  /\ isr' = "control" /\ wi' = FALSE /\ space' = 0
  /\ UNCHANGED <<device, connected, rings, timeout, host_inactive, ravail,
                 program, streams>>

Routine ==
  \/ Interrupt \/ Control \/ TakeData \/ CountData \/ StopReading \/ ReadEnd
  \/ PutData \/ WriteEnd

\* altera_avalon_jtag_uart_timeout, an alarm once a second if there is a timer.
Timed == timeout # INT_MAX
\* (Mutants: it stops counting one later; it does not clear ac.)
TimeoutLate ==
  /\ isr = "none" /\ Timed
  /\ ac' = FALSE
  /\ host_inactive' = IF ac THEN 0
                      ELSE IF host_inactive < INT_MAX - 1 THEN host_inactive + 1
                      ELSE host_inactive
  /\ UNCHANGED <<rx_fifo, tx_fifo, pause_irq, connected, irq_enable, rings, timeout,
                 routine, program, streams>>
TimeoutKeepsAc ==
  /\ isr = "none" /\ Timed
  /\ host_inactive' = IF ac THEN 0
                      ELSE IF host_inactive < INT_MAX - 2 THEN host_inactive + 1
                      ELSE host_inactive
  /\ UNCHANGED <<device, connected, irq_enable, rings, timeout,
                 routine, program, streams>>

Timeout ==
  /\ isr = "none" /\ Timed
  /\ ac' = FALSE
  /\ host_inactive' = IF ac THEN 0
                      ELSE IF host_inactive < INT_MAX - 2 THEN host_inactive + 1
                      ELSE host_inactive
  /\ UNCHANGED <<rx_fifo, tx_fifo, pause_irq, connected, irq_enable, rings, timeout,
                 routine, program, streams>>
-----------------------------------------------------------------------------
\* The program, one call after the other.
HostAbsent == host_inactive >= timeout
At(place) == isr = "none" /\ pc = place
Keeps == UNCHANGED <<device, connected, timeout, host_inactive, routine>>

Begin(place) ==
  /\ At("idle")
  /\ pc' = place
  /\ nonblock' \in BOOLEAN
  /\ Keeps /\ UNCHANGED <<irq_enable, rings, streams>>

\* A call returns how far its pointer has moved.  If it has not: -EWOULDBLOCK,
\* or -EIO when it may block.
Return ==
  /\ pc' = "idle"
  /\ seen' = 0 /\ n' = 0 /\ left' = 0 /\ moved' = FALSE /\ nonblock' = FALSE
  /\ user' = <<>>
EIO == ~moved /\ ~nonblock

Read ==
  /\ Begin("r_scan")
  /\ left' \in 1 .. MaxSpace
  /\ UNCHANGED <<seen, n, moved, user>>

\* What can be copied at once: up to the end of the ring.
Readable(in) == IF in >= rx_out THEN in - rx_out ELSE BUF_LEN - rx_out

ReadScan ==
  /\ At("r_scan")
  /\ seen' = rx_in
  /\ n' = Least(Readable(rx_in), left)
  /\ pc' = IF n' > 0 THEN "r_copy" ELSE IF moved \/ nonblock THEN "r_done" ELSE "r_spin"
  /\ Keeps
  /\ UNCHANGED <<irq_enable, rings, left, moved, nonblock, user, streams>>

ReadCopy ==
  /\ At("r_copy") /\ pc' = "r_advance"
  /\ user' = user \o [i \in 1 .. n |-> rx_buf[rx_out + i - 1]]
  /\ left' = left - n /\ moved' = TRUE
  /\ Keeps
  /\ UNCHANGED <<irq_enable, rings, seen, n, nonblock, streams>>

\* (Mutant: it empties the ring.)
ReadAdvanceAll ==
  /\ At("r_advance")
  /\ rx_out' = rx_in
  /\ pc' = IF left > 0 THEN "r_scan" ELSE "r_done"
  /\ Keeps
  /\ UNCHANGED <<irq_enable, rx_in, rx_buf, tx_in, tx_out, tx_buf, locals, user, streams>>

ReadAdvance ==
  /\ At("r_advance")
  /\ rx_out' = (rx_out + n) % BUF_LEN
  /\ pc' = IF left > 0 THEN "r_scan" ELSE "r_done"
  /\ Keeps
  /\ UNCHANGED <<irq_enable, rx_in, rx_buf, tx_in, tx_out, tx_buf, locals, user, streams>>

\* It spins until a character comes or the host has been absent too long, and
\* looks which it was.
ReadSpin ==
  /\ At("r_spin") /\ pc' = "r_check"
  /\ seen # rx_in \/ HostAbsent
  /\ Keeps /\ UNCHANGED <<irq_enable, rings, locals, user, streams>>

ReadCheck ==
  /\ At("r_check")
  /\ pc' = IF seen = rx_in THEN "r_done" ELSE "r_scan"
  /\ Keeps /\ UNCHANGED <<irq_enable, rings, locals, user, streams>>

\* (Mutant: the interrupt stays off.)
ReadDoneOff ==
  /\ At("r_done")
  /\ Return
  /\ Keeps /\ UNCHANGED <<irq_enable, rings, streams>>

\* There is space in the ring again.
ReadDone ==
  /\ At("r_done")
  /\ irq_enable' = IF moved THEN irq_enable \cup {"RE"} ELSE irq_enable
  /\ Return
  /\ Keeps /\ UNCHANGED <<rings, streams>>

Write ==
  /\ Begin("w_scan")
  /\ left' \in 1 .. MaxSpace
  /\ UNCHANGED <<seen, n, moved, user>>

\* (Mutant: no slot stays free.)
WritableFull(out) == IF tx_in < out THEN out - tx_in ELSE BUF_LEN - tx_in
\* What can be copied at once; one slot of the ring stays free.
Writable(out) ==
  IF tx_in < out THEN out - 1 - tx_in
  ELSE IF out > 0 THEN BUF_LEN - tx_in ELSE BUF_LEN - 1 - tx_in

WriteScan ==
  /\ At("w_scan")
  /\ seen' = tx_out
  /\ n' = Least(Writable(tx_out), left)
  /\ pc' = IF n' > 0 THEN "w_copy" ELSE "w_kick"
  /\ Keeps
  /\ UNCHANGED <<irq_enable, rings, left, moved, nonblock, user, streams>>

WriteCopy ==
  /\ At("w_copy") /\ pc' = "w_advance"
  /\ tx_buf' = [i \in Slots |-> IF i \in tx_in .. tx_in + n - 1
                                THEN (written + i - tx_in) % Chars ELSE tx_buf[i]]
  /\ left' = left - n /\ moved' = TRUE
  /\ Keeps
  /\ UNCHANGED <<irq_enable, rx_in, rx_out, rx_buf, tx_in, tx_out, seen, n, nonblock,
                 user, streams>>

WriteAdvance ==
  /\ At("w_advance")
  /\ tx_in' = (tx_in + n) % BUF_LEN
  /\ written' = (written + n) % Chars
  /\ pc' = IF left > 0 THEN "w_scan" ELSE "w_kick"
  /\ Keeps
  /\ UNCHANGED <<irq_enable, rx_in, rx_out, rx_buf, tx_out, tx_buf, locals, user,
                 typed, host>>

\* (Mutant: the interrupt is not enabled before it waits.)
WriteKickLate ==
  /\ At("w_kick")
  /\ IF left > 0 /\ ~nonblock
     THEN pc' = "w_spin" /\ UNCHANGED <<irq_enable, locals, user>>
     ELSE irq_enable' = irq_enable \cup {"WE"} /\ Return
  /\ Keeps /\ UNCHANGED <<rings, streams>>

WriteKick ==
  /\ At("w_kick")
  /\ irq_enable' = irq_enable \cup {"WE"}
  /\ IF left > 0 /\ ~nonblock THEN pc' = "w_spin" /\ UNCHANGED <<locals, user>>
     ELSE Return
  /\ Keeps /\ UNCHANGED <<rings, streams>>

\* It spins until the routine has taken a character or the host is absent.
WriteSpin ==
  /\ At("w_spin") /\ pc' = "w_check"
  /\ seen # tx_out \/ HostAbsent
  /\ Keeps /\ UNCHANGED <<irq_enable, rings, locals, user, streams>>

WriteCheck ==
  /\ At("w_check")
  /\ IF seen = tx_out THEN Return ELSE pc' = "w_scan" /\ UNCHANGED <<locals, user>>
  /\ Keeps /\ UNCHANGED <<irq_enable, rings, streams>>

Close == Begin("close") /\ UNCHANGED <<seen, n, left, moved, user>>

\* It waits for everything to be on its way, or the host to be absent.
CloseWait ==
  /\ At("close")
  /\ tx_out = tx_in \/ HostAbsent \/ nonblock
  /\ Return
  /\ Keeps /\ UNCHANGED <<irq_enable, rings, streams>>

\* TIOCSTIMEOUT: an argument out of range means for ever, or nearly.
SetTimeout ==
  /\ At("idle") /\ Timed
  /\ \E arg \in {DEFAULT_TIMEOUT, 0} :
       timeout' = IF arg >= 2 /\ arg < INT_MAX THEN arg ELSE INT_MAX - 1
  /\ UNCHANGED <<device, connected, irq_enable, rings, host_inactive, routine,
                 pc, locals, user, streams>>

Calls == Read \/ Write \/ Close \/ SetTimeout
Program ==
  \/ ReadScan \/ ReadCopy \/ ReadAdvance \/ ReadSpin \/ ReadCheck \/ ReadDone
  \/ WriteScan \/ WriteCopy \/ WriteAdvance \/ WriteKick \/ WriteSpin \/ WriteCheck
  \/ CloseWait

Next == Host \/ Routine \/ Timeout \/ Calls \/ Program

\* The processor runs and takes interrupts, the timer ticks, and a connected
\* host takes what it is sent and pauses; it need not type, nor the program
\* call.
Fairness ==
  /\ WF_vars(Routine) /\ WF_vars(Program) /\ WF_vars(Timeout)
  /\ WF_vars(Pause) /\ WF_vars(Drain)
Spec == Init /\ [][Next]_vars /\ Fairness
-----------------------------------------------------------------------------
\* Type correctness.
TypeOK ==
  /\ rx_fifo \in Seq(Char) /\ Len(rx_fifo) <= DEPTH
  /\ tx_fifo \in Seq(Char) /\ Len(tx_fifo) <= DEPTH
  /\ pause_irq \in BOOLEAN /\ ac \in BOOLEAN /\ connected \in BOOLEAN
  /\ irq_enable \subseteq {"RE", "WE"}
  /\ rx_in \in Slots /\ rx_out \in Slots /\ rx_buf \in [Slots -> Char]
  /\ tx_in \in Slots /\ tx_out \in Slots /\ tx_buf \in [Slots -> Char]
  /\ timeout \in {DEFAULT_TIMEOUT, INT_MAX - 1, INT_MAX}
  /\ host_inactive \in 0 .. INT_MAX
  /\ isr \in {"none", "control", "read", "valid", "invalid", "readend", "write"}
  /\ wi \in BOOLEAN /\ space \in 0 .. DEPTH /\ ravail \in BOOLEAN
  /\ pc \in {"idle", "r_scan", "r_copy", "r_advance", "r_spin", "r_check", "r_done",
             "w_scan", "w_copy", "w_advance", "w_kick", "w_spin", "w_check", "close"}
  /\ seen \in Slots /\ n \in 0 .. BUF_LEN /\ left \in 0 .. MaxSpace
  /\ moved \in BOOLEAN /\ nonblock \in BOOLEAN
  /\ user \in Seq(Char)
  /\ typed \in Char /\ written \in Char /\ host \in Seq(Char)

\* Both directions lose, double and reorder nothing, whatever the order in
\* which the program, the routine and the host move, and hold no more than a
\* ring and a FIFO.
Copied == IF pc = "r_advance" THEN n ELSE 0
RxQueue == Contents(rx_buf, rx_in, (rx_out + Copied) % BUF_LEN) \o rx_fifo
TxQueue == tx_fifo \o Contents(tx_buf, tx_in, tx_out)
Rx == INSTANCE Channel WITH
  Capacity <- BUF_LEN - 1 + DEPTH, next <- typed, out <- user, queue <- RxQueue
Tx == INSTANCE Channel WITH
  Capacity <- BUF_LEN - 1 + DEPTH, next <- written, out <- host, queue <- TxQueue
Lossless == Rx!Spec /\ Tx!Spec

\* Nothing waits for an interrupt nobody will enable: with characters to send
\* the write interrupt is on or about to be; with the read interrupt off there
\* is something to be read that will turn it on again.
Armed ==
  /\ tx_in # tx_out => "WE" \in irq_enable \/ pc \in {"w_scan", "w_copy", "w_advance", "w_kick"}
  /\ "RE" \notin irq_enable => rx_in # rx_out \/ (moved /\ pc \in {"r_scan", "r_done"})

\* No call fails for an absent host unless a timer counts the seconds.
FailsOnlyTimed ==
  [][(ReadDone \/ WriteKick \/ WriteCheck) /\ pc' = "idle" /\ EIO
       => timeout <= INT_MAX - 2]_vars

\* The routine comes to its end, however fast the host types and takes.
RoutineEnds == isr # "none" ~> isr = "none"

\* A read that waits gets what has been typed, and a write that waits for
\* space gets some, if the host stays.
WaitingRead == pc = "r_spin"
Sending == pc \in {"w_spin", "close"}
CallsServed ==
  /\ WaitingRead /\ rx_fifo # <<>> ~> ~WaitingRead \/ ~connected
  /\ Sending ~> ~Sending \/ ~connected

\* Neither waits for a host that is absent if a timer counts.
AbsenceNoticed ==
  (WaitingRead \/ Sending) /\ ~connected /\ timeout = DEFAULT_TIMEOUT
    ~> ~(WaitingRead \/ Sending) \/ connected
=============================================================================
