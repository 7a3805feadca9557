-------------------------- MODULE JtagUartProofs --------------------------
(***************************************************************************)
(* Proofs about the driver of the JTAG UART, for rings, FIFOs and timeouts *)
(* of every size, with and without a timer.  Each step is taken in turn:   *)
(* what it leaves alone (the frames), then the conjuncts of the invariant  *)
(* that it can disturb.  The second half shows that each direction of the  *)
(* driver implements Channel: facts about sequences, facts about the rings,*)
(* the invariant SpanInv, and one lemma for each step that moves a         *)
(* character.                                                              *)
(***************************************************************************)
EXTENDS JtagUart, SequenceTheorems, TLAPS

\* Type correctness, in parts.
TypeDevice ==
  /\ rx_fifo \in Seq(Char) /\ Len(rx_fifo) <= DEPTH
  /\ tx_fifo \in Seq(Char) /\ Len(tx_fifo) <= DEPTH
  /\ pause_irq \in BOOLEAN /\ ac \in BOOLEAN /\ connected \in BOOLEAN
  /\ irq_enable \subseteq {"RE", "WE"}
TypeRings ==
  /\ rx_in \in Slots /\ rx_out \in Slots /\ rx_buf \in [Slots -> Char]
  /\ tx_in \in Slots /\ tx_out \in Slots /\ tx_buf \in [Slots -> Char]
TypeRoutine ==
  /\ timeout \in {DEFAULT_TIMEOUT, INT_MAX - 1, INT_MAX}
  /\ host_inactive \in 0 .. INT_MAX
  /\ isr \in {"none", "control", "read", "valid", "invalid", "readend", "write"}
  /\ wi \in BOOLEAN /\ space \in 0 .. DEPTH /\ ravail \in BOOLEAN
TypeProgram ==
  /\ pc \in {"idle", "r_scan", "r_copy", "r_advance", "r_spin", "r_check", "r_done",
             "w_scan", "w_copy", "w_advance", "w_kick", "w_spin", "w_check",
                "close"}
  /\ seen \in Slots /\ n \in 0 .. BUF_LEN /\ left \in 0 .. MaxSpace
  /\ moved \in BOOLEAN /\ nonblock \in BOOLEAN
TypeStreams ==
  /\ user \in Seq(Char)
  /\ typed \in Char /\ written \in Char /\ host \in Seq(Char)

\* The routine reads only when there is something: a pause counts only with
\* characters in the FIFO, so the first read of the loop is valid, and from then
\* on the ring is not empty.
RoutineInv ==
  /\ isr \notin {"valid", "invalid"} /\ pause_irq => rx_fifo # <<>>
  /\ isr = "read" => rx_fifo # <<>> \/ rx_in # rx_out
  /\ isr \in {"valid", "invalid", "readend"} => rx_in # rx_out

\* A copy stays within the ring, and what is waited for is the first move of
\* the other side's pointer.
CallInv ==
  /\ pc \in {"r_copy", "w_copy"} => n <= left
  /\ pc = "r_copy" => rx_out + n <= BUF_LEN
  /\ pc \in {"r_advance", "w_advance"} => moved
  /\ pc \in {"r_spin", "r_check"} => seen = rx_out
  /\ pc \in {"r_scan", "r_spin", "r_check", "w_scan", "w_spin",
     "w_check"} => left > 0
  /\ pc = "w_kick" /\ left = 0 => moved
  /\ pc \in {"w_spin",
     "w_check"} \/ (pc = "w_kick" /\ left > 0) => seen = Follows(tx_in)

\* A call gives up only if the seconds are counted.
CountInv ==
  /\ host_inactive <= INT_MAX - 2
  /\ pc = "r_check" => seen # rx_in \/ timeout <= INT_MAX - 2
  /\ pc = "w_check" => seen # tx_out \/ timeout <= INT_MAX - 2
  /\ pc = "r_done" => moved \/ nonblock \/ timeout <= INT_MAX - 2

IInv ==
  /\ TypeDevice /\ TypeRings /\ TypeRoutine /\ TypeProgram /\ TypeStreams
  /\ Armed /\ RoutineInv /\ CallInv /\ CountInv

LEMMA TypeParts ==
  TypeOK <=> TypeDevice /\ TypeRings /\ TypeRoutine /\ TypeProgram /\ TypeStreams
  BY DEF TypeOK, TypeDevice, TypeRings, TypeRoutine, TypeProgram, TypeStreams
-----------------------------------------------------------------------------
\* The assumptions on the constants.
LEMMA Sizes == /\ BUF_LEN \in Nat /\ BUF_LEN >= 2
               /\ DEPTH \in Nat /\ DEPTH >= 1 /\ THRESHOLD \in Nat /\ THRESHOLD < DEPTH
               /\ Chars \in Nat /\ Chars >= 1 /\ MaxSpace \in Nat /\ MaxSpace >= 1
               /\ INT_MAX \in Nat /\ INT_MAX >= 3
               /\ DEFAULT_TIMEOUT \in Nat /\ DEFAULT_TIMEOUT <= INT_MAX - 1
               /\ DEFAULT_TIMEOUT >= 2
  BY BuffersAssumption, TimeoutAssumption

\* The next slot of a ring: another one, and a different one for each slot.
LEMMA NextSlot ==
  ASSUME NEW i \in Slots
  PROVE  /\ Follows(i) \in Slots /\ Follows(i) # i
         /\ Follows(i) = IF i = BUF_LEN - 1 THEN 0 ELSE i + 1
  BY Sizes DEF Slots, Follows

LEMMA NextSlotOnce ==
  ASSUME NEW i \in Slots, NEW j \in Slots, Follows(i) = Follows(j)
  PROVE  i = j
  BY Sizes, NextSlot DEF Slots

\* A sequence of characters that grows or shrinks by one.
LEMMA Grown ==
  ASSUME NEW s \in Seq(Char), NEW c \in Char
  PROVE  Append(s, c) \in Seq(Char) /\ Append(s, c) # <<>> /\ Len(Append(s,
     c)) = Len(s) + 1
<1>1. Append(s, c) \in Seq(Char) /\ Len(Append(s, c)) = Len(s) + 1
  OBVIOUS
<1>2. Len(s) + 1 # 0 /\ Len(<<>>) = 0
  OBVIOUS
<1> QED
  BY <1>1, <1>2

LEMMA Shrunk ==
  ASSUME NEW s \in Seq(Char), s # <<>>
  PROVE  Tail(s) \in Seq(Char) /\ Head(s) \in Char /\ Len(Tail(s)) = Len(s) - 1
  OBVIOUS

LEMMA Empty == <<>> \in Seq(Char)
  OBVIOUS

\* A call that returns leaves nothing behind.
LEMMA Returned ==
  ASSUME Return
  PROVE  TypeProgram' /\ (UNCHANGED streams /\ TypeStreams => TypeStreams')
<1>1. pc' = "idle" /\ seen' = 0 /\ n' = 0 /\ left' = 0 /\ user' = <<>>
  BY DEF Return
<1>2. moved' \in BOOLEAN /\ nonblock' \in BOOLEAN
  BY Zenon DEF Return
<1> QED
  BY <1>1, <1>2, Sizes, Empty DEF TypeProgram, TypeStreams, streams, Slots, Char

\* A part of the state that does not change keeps its type.
LEMMA Frames ==
  ASSUME IInv
  PROVE  /\ UNCHANGED <<device, connected, irq_enable>> => TypeDevice'
         /\ UNCHANGED rings => TypeRings'
         /\ UNCHANGED <<timeout, host_inactive, routine>> => TypeRoutine'
         /\ UNCHANGED <<pc, locals>> => TypeProgram'
         /\ UNCHANGED <<user, streams>> => TypeStreams'
         /\ UNCHANGED <<tx_in, tx_out, irq_enable, pc, rx_in, rx_out,
                        moved>> => Armed'
         /\ UNCHANGED <<isr, pause_irq, rx_fifo, rx_in, rx_out>> => RoutineInv'
         /\ UNCHANGED <<pc, n, left, rx_out, moved, seen, tx_in>> => CallInv'
         /\ UNCHANGED <<host_inactive, pc, seen, rx_in, timeout, tx_out, moved,
                        nonblock>> => CountInv'
<1>1. ASSUME UNCHANGED <<user, streams>> PROVE TypeStreams'
  <2>1. user' = user /\ host' = host /\ typed' = typed /\ written' = written
    BY <1>1 DEF streams
  <2> QED
    BY <2>1 DEF IInv, TypeStreams, Char
<1>2. UNCHANGED <<device, connected, irq_enable>> => TypeDevice'
  BY DEF IInv, TypeDevice, device, Char
<1>3. UNCHANGED rings => TypeRings'
  BY DEF IInv, TypeRings, rings, Char, Slots
<1>4. UNCHANGED <<timeout, host_inactive, routine>> => TypeRoutine'
  BY DEF IInv, TypeRoutine, routine
<1>5. UNCHANGED <<pc, locals>> => TypeProgram'
  BY DEF IInv, TypeProgram, locals, Slots
<1>6. UNCHANGED <<tx_in, tx_out, irq_enable, pc, rx_in, rx_out, moved>> => Armed'
  BY DEF IInv, Armed
<1>7. UNCHANGED <<isr, pause_irq, rx_fifo, rx_in, rx_out>> => RoutineInv'
  BY DEF IInv, RoutineInv
<1>8. UNCHANGED <<pc, n, left, rx_out, moved, seen, tx_in>> => CallInv'
  BY DEF IInv, CallInv
<1>9. UNCHANGED <<host_inactive, pc, seen, rx_in, timeout, tx_out, moved, nonblock>>
        => CountInv'
  BY DEF IInv, CountInv
<1> QED
  BY <1>1, <1>2, <1>3, <1>4, <1>5, <1>6, <1>7, <1>8, <1>9

\* What the actions and the frames are made of.
USE Sizes DEF IInv, device, rings, routine, locals, program, streams, Keeps, At,
   Begin

LEMMA TypeInv ==
  ASSUME IInv, Type PROVE IInv'
<1>1. UNCHANGED <<rings, timeout, host_inactive, routine, pc, locals, isr, rx_in,
                  rx_out>>
  BY DEF Type
<1>2. TypeDevice'
  BY <1>1, Grown DEF Type, TypeDevice, TypeStreams
<1>3. TypeStreams'
  BY <1>1 DEF Type, TypeStreams, Char
<1>4. Armed'
  BY <1>1 DEF Type, Armed, TypeDevice, TypeProgram
<1>5. RoutineInv'
  BY <1>1, Grown DEF Type, RoutineInv, TypeRoutine, TypeStreams, TypeDevice
<1> QED
  BY <1>1, <1>2, <1>3, <1>4, <1>5, Frames

LEMMA PauseInv ==
  ASSUME IInv, Pause PROVE IInv'
<1>1. UNCHANGED <<rings, timeout, host_inactive, routine, pc, locals, user,
                  streams, isr, rx_in, rx_out, rx_fifo, irq_enable>>
  BY DEF Pause
<1>2. TypeDevice'
  BY <1>1 DEF Pause, TypeDevice
<1>3. RoutineInv'
  BY <1>1 DEF Pause, RoutineInv, TypeRoutine
<1> QED
  BY <1>1, <1>2, <1>3, Frames

LEMMA DrainInv ==
  ASSUME IInv, Drain PROVE IInv'
<1>1. UNCHANGED <<rings, timeout, host_inactive, routine, pc, locals, rx_fifo,
                  pause_irq, irq_enable>>
  BY DEF Drain
<1>2. TypeDevice'
  BY <1>1, Shrunk DEF Drain, TypeDevice
<1>3. TypeStreams'
  BY <1>1, Shrunk, Grown, Empty DEF Drain, TypeStreams, TypeDevice
<1> QED
  BY <1>1, <1>2, <1>3, Frames

LEMMA PlugInv ==
  ASSUME IInv, Plug PROVE IInv'
<1>1. UNCHANGED <<rings, timeout, host_inactive, routine, pc, locals, user,
                  streams, device, irq_enable>>
  BY DEF Plug
<1>2. TypeDevice'
  BY <1>1 DEF Plug, TypeDevice
<1> QED
  BY <1>1, <1>2, Frames

LEMMA InterruptInv ==
  ASSUME IInv, Interrupt PROVE IInv'
<1>1. UNCHANGED <<device, connected, irq_enable, rings, pc, locals, user, streams,
                  host_inactive, timeout>>
  BY DEF Interrupt
<1>2. TypeRoutine'
  BY <1>1 DEF Interrupt, TypeRoutine
<1>3. RoutineInv'
  BY <1>1 DEF Interrupt, RoutineInv, TypeRoutine
<1> QED
  BY <1>1, <1>2, <1>3, Frames

LEMMA ControlInv ==
  ASSUME IInv, Control PROVE IInv'
<1>1. UNCHANGED <<device, connected, irq_enable, rings, pc, locals, user, streams,
                  host_inactive, timeout>>
  BY DEF Control
<1>2. TypeRoutine'
  BY <1>1 DEF Control, TypeRoutine, TypeDevice, WI, RI
<1>3. RoutineInv'
  BY <1>1 DEF Control, RoutineInv, TypeRoutine, TypeDevice, RI
<1> QED
  BY <1>1, <1>2, <1>3, Frames

LEMMA TakeDataInv ==
  ASSUME IInv, TakeData PROVE IInv'
<1>1. UNCHANGED <<pc, locals, user, streams, tx_in, tx_out, tx_buf, rx_out,
                  pause_irq, irq_enable, timeout, host_inactive>>
  BY DEF TakeData
<1>2. TypeDevice'
  <2>1. CASE rx_fifo = <<>>
    BY <1>1, <2>1 DEF TakeData, TypeDevice
  <2>2. CASE rx_fifo # <<>>
    <3>1. rx_fifo' = Tail(rx_fifo)
      BY <2>2 DEF TakeData
    <3>2. rx_fifo' \in Seq(Char) /\ Len(rx_fifo') = Len(rx_fifo) - 1
      BY <2>2, <3>1, Shrunk DEF TypeDevice
    <3> QED
      BY <1>1, <3>2 DEF TakeData, TypeDevice
  <2> QED
    BY <2>1, <2>2
<1>3. TypeRings'
  BY <1>1, Shrunk, NextSlot DEF TakeData, TypeRings, TypeDevice, Char, Slots
<1>4. TypeRoutine'
  BY <1>1 DEF TakeData, TypeRoutine
<1>5. Armed'
  BY <1>1, NextSlot DEF TakeData, Armed, TypeDevice, TypeProgram, RingFull,
     TypeRings
<1>6. RoutineInv'
  BY <1>1, NextSlot DEF TakeData, RoutineInv, TypeRoutine, RingFull, TypeRings
<1>7. CountInv'
  BY <1>1, NextSlot DEF TakeData, CountInv, TypeProgram, TypeRoutine, RingFull,
     CallInv, TypeRings
<1> QED
  BY <1>1, <1>2, <1>3, <1>4, <1>5, <1>6, <1>7, Frames

LEMMA CountDataInv ==
  ASSUME IInv, CountData PROVE IInv'
<1>1. UNCHANGED <<rings, pc, locals, user, streams, rx_fifo, tx_fifo, ac,
                  irq_enable, timeout, host_inactive>>
  BY DEF CountData
<1>2. TypeDevice'
  BY <1>1 DEF CountData, TypeDevice
<1>3. TypeRoutine'
  BY <1>1 DEF CountData, TypeRoutine
<1>4. RoutineInv'
  BY <1>1 DEF CountData, RoutineInv, TypeRoutine
<1> QED
  BY <1>1, <1>2, <1>3, <1>4, Frames

LEMMA StopReadingInv ==
  ASSUME IInv, StopReading PROVE IInv'
<1>1. UNCHANGED <<device, connected, irq_enable, rings, pc, locals, user, streams,
                  timeout, host_inactive>>
  BY DEF StopReading
<1>2. TypeRoutine'
  BY <1>1 DEF StopReading, TypeRoutine
<1>3. RoutineInv'
  BY <1>1, NextSlot DEF StopReading, RoutineInv, TypeRoutine, RingFull, TypeRings
<1> QED
  BY <1>1, <1>2, <1>3, Frames

LEMMA ReadEndInv ==
  ASSUME IInv, ReadEnd PROVE IInv'
<1>1. UNCHANGED <<rings, pc, locals, user, streams, device, timeout, host_inactive>>
  BY DEF ReadEnd
<1>2. TypeDevice'
  BY <1>1 DEF ReadEnd, TypeDevice
<1>3. TypeRoutine'
  BY <1>1 DEF ReadEnd, TypeRoutine
<1>4. Armed'
  BY <1>1 DEF ReadEnd, Armed, TypeDevice, TypeProgram, RoutineInv
<1>5. RoutineInv'
  BY <1>1 DEF ReadEnd, RoutineInv, TypeRoutine
<1> QED
  BY <1>1, <1>2, <1>3, <1>4, <1>5, Frames

LEMMA PutDataInv ==
  ASSUME IInv, PutData PROVE IInv'
<1>1. UNCHANGED <<pc, locals, user, streams, rx_fifo, pause_irq, irq_enable,
                  rx_in, rx_out, tx_in, isr, timeout, host_inactive>>
  BY DEF PutData
<1>2. TypeDevice'
  BY <1>1, Grown DEF PutData, TypeDevice, TypeRings
<1>3. TypeRings'
  BY <1>1, NextSlot DEF PutData, TypeRings
<1>4. TypeRoutine'
  BY <1>1 DEF PutData, TypeRoutine
<1>5. Armed'
  BY <1>1 DEF PutData, Armed, TypeDevice, TypeProgram
<1>6. CountInv'
  BY <1>1, NextSlotOnce, NextSlot DEF PutData, CountInv, TypeProgram, TypeRoutine,
     CallInv, TypeRings
<1> QED
  BY <1>1, <1>2, <1>3, <1>4, <1>5, <1>6, Frames

LEMMA WriteEndInv ==
  ASSUME IInv, WriteEnd PROVE IInv'
<1>1. UNCHANGED <<rings, pc, locals, user, streams, device, timeout, host_inactive>>
  BY DEF WriteEnd
<1>2. TypeDevice'
  BY <1>1 DEF WriteEnd, TypeDevice
<1>3. TypeRoutine'
  <2>1. wi' = FALSE /\ wi' \in BOOLEAN
    BY Zenon DEF WriteEnd
  <2> QED
    BY <1>1, <2>1 DEF WriteEnd, TypeRoutine
<1>4. Armed'
  BY <1>1 DEF WriteEnd, Armed, TypeDevice, TypeProgram
<1>5. RoutineInv'
  BY <1>1 DEF WriteEnd, RoutineInv, TypeRoutine
<1> QED
  BY <1>1, <1>2, <1>3, <1>4, <1>5, Frames

LEMMA TimeoutInv ==
  ASSUME IInv, Timeout PROVE IInv'
<1>1. UNCHANGED <<rings, pc, locals, user, streams, rx_fifo, pause_irq,
                  irq_enable, timeout, routine>>
  BY DEF Timeout
<1>2. TypeDevice'
  BY <1>1 DEF Timeout, TypeDevice
<1>3. TypeRoutine'
  BY <1>1 DEF Timeout, TypeRoutine, Timed
<1>4. CountInv'
  BY <1>1 DEF Timeout, CountInv, TypeProgram, TypeRoutine, Timed
<1> QED
  BY <1>1, <1>2, <1>3, <1>4, Frames

LEMMA ReadInv ==
  ASSUME IInv, Read PROVE IInv'
<1>1. UNCHANGED <<device, connected, irq_enable, rings, timeout, host_inactive,
                  routine, user, streams, seen, n, moved>>
  BY DEF Read
<1>2. TypeProgram'
  BY <1>1 DEF Read, TypeProgram
<1>3. Armed'
  BY <1>1 DEF Read, Armed, TypeDevice, TypeProgram
<1>4. CallInv'
  BY <1>1 DEF Read, CallInv, TypeProgram
<1>5. CountInv'
  BY <1>1 DEF Read, CountInv, TypeProgram, TypeRoutine
<1> QED
  BY <1>1, <1>2, <1>3, <1>4, <1>5, Frames

LEMMA WriteInv ==
  ASSUME IInv, Write PROVE IInv'
<1>1. UNCHANGED <<device, connected, irq_enable, rings, timeout, host_inactive,
                  routine, user, streams, seen, n, moved>>
  BY DEF Write
<1>2. TypeProgram'
  BY <1>1 DEF Write, TypeProgram
<1>3. Armed'
  BY <1>1 DEF Write, Armed, TypeDevice, TypeProgram
<1>4. CallInv'
  BY <1>1 DEF Write, CallInv, TypeProgram
<1>5. CountInv'
  BY <1>1 DEF Write, CountInv, TypeProgram, TypeRoutine
<1> QED
  BY <1>1, <1>2, <1>3, <1>4, <1>5, Frames

LEMMA CloseInv ==
  ASSUME IInv, Close PROVE IInv'
<1>1. UNCHANGED <<device, connected, irq_enable, rings, timeout, host_inactive,
                  routine, user, streams, seen, n, left, moved>>
  BY DEF Close
<1>2. TypeProgram'
  BY <1>1 DEF Close, TypeProgram
<1>3. Armed'
  BY <1>1 DEF Close, Armed, TypeDevice, TypeProgram
<1>4. CallInv'
  BY <1>1 DEF Close, CallInv, TypeProgram
<1>5. CountInv'
  BY <1>1 DEF Close, CountInv, TypeProgram, TypeRoutine
<1> QED
  BY <1>1, <1>2, <1>3, <1>4, <1>5, Frames

LEMMA SetTimeoutInv ==
  ASSUME IInv, SetTimeout PROVE IInv'
<1>1. UNCHANGED <<device, connected, irq_enable, rings, pc, locals, user, streams,
                  host_inactive, routine>>
  BY DEF SetTimeout
<1>2. TypeRoutine'
  BY <1>1 DEF SetTimeout, TypeRoutine
<1>3. CountInv'
  BY <1>1 DEF SetTimeout, CountInv, TypeProgram, TypeRoutine, Timed
<1> QED
  BY <1>1, <1>2, <1>3, Frames

LEMMA ReadScanInv ==
  ASSUME IInv, ReadScan PROVE IInv'
<1>1. UNCHANGED <<device, connected, irq_enable, rings, timeout, host_inactive,
                  routine, user, streams, left, moved, nonblock, irq_enable>>
  BY DEF ReadScan
<1>2. TypeProgram'
  BY <1>1 DEF ReadScan, TypeProgram, TypeRings, Slots, Readable, Least
<1>3. Armed'
  BY <1>1 DEF ReadScan, Armed, TypeDevice, TypeProgram, TypeRings, Slots,
     Readable, Least, CallInv
<1>4. CallInv'
  BY <1>1 DEF ReadScan, CallInv, TypeProgram, TypeRings, Slots, Readable, Least
<1>5. CountInv'
  BY <1>1 DEF ReadScan, CountInv, TypeProgram, TypeRoutine
<1> QED
  BY <1>1, <1>2, <1>3, <1>4, <1>5, Frames

LEMMA ReadCopyInv ==
  ASSUME IInv, ReadCopy PROVE IInv'
<1>1. UNCHANGED <<device, connected, irq_enable, rings, timeout, host_inactive,
                  routine, seen, n, nonblock>>
  BY DEF ReadCopy
<1>2. TypeProgram'
  BY <1>1 DEF ReadCopy, TypeProgram, CallInv
<1>3. TypeStreams'
  BY <1>1 DEF ReadCopy, TypeStreams, TypeRings, CallInv, TypeProgram, Slots
<1>4. Armed'
  BY <1>1 DEF ReadCopy, Armed, TypeDevice, TypeProgram
<1>5. CallInv'
  BY <1>1 DEF ReadCopy, CallInv, TypeProgram
<1>6. CountInv'
  BY <1>1 DEF ReadCopy, CountInv, TypeProgram, TypeRoutine
<1> QED
  BY <1>1, <1>2, <1>3, <1>4, <1>5, <1>6, Frames

LEMMA ReadAdvanceInv ==
  ASSUME IInv, ReadAdvance PROVE IInv'
<1>1. UNCHANGED <<device, connected, irq_enable, timeout, host_inactive, routine,
                  user, streams, locals, rx_in, tx_in, tx_out, rx_buf, tx_buf,
                  irq_enable>>
  BY DEF ReadAdvance
<1>2. TypeRings'
  BY <1>1 DEF ReadAdvance, TypeRings, TypeProgram, Slots
<1>3. TypeProgram'
  BY <1>1 DEF ReadAdvance, TypeProgram
<1>4. Armed'
  BY <1>1 DEF ReadAdvance, Armed, TypeDevice, TypeProgram, CallInv
<1>5. RoutineInv'
  BY <1>1 DEF ReadAdvance, RoutineInv, TypeRoutine
<1>6. CallInv'
  BY <1>1 DEF ReadAdvance, CallInv, TypeProgram
<1>7. CountInv'
  BY <1>1 DEF ReadAdvance, CountInv, TypeProgram, TypeRoutine, CallInv
<1> QED
  BY <1>1, <1>2, <1>3, <1>4, <1>5, <1>6, <1>7, Frames

LEMMA ReadSpinInv ==
  ASSUME IInv, ReadSpin PROVE IInv'
<1>1. UNCHANGED <<device, connected, irq_enable, rings, timeout, host_inactive,
                  routine, user, streams, locals>>
  BY DEF ReadSpin
<1>2. TypeProgram'
  BY <1>1 DEF ReadSpin, TypeProgram
<1>3. Armed'
  BY <1>1 DEF ReadSpin, Armed, TypeDevice, TypeProgram
<1>4. CallInv'
  BY <1>1 DEF ReadSpin, CallInv, TypeProgram
<1>5. CountInv'
  BY <1>1 DEF ReadSpin, CountInv, TypeProgram, TypeRoutine, HostAbsent
<1> QED
  BY <1>1, <1>2, <1>3, <1>4, <1>5, Frames

LEMMA ReadCheckInv ==
  ASSUME IInv, ReadCheck PROVE IInv'
<1>1. UNCHANGED <<device, connected, irq_enable, rings, timeout, host_inactive,
                  routine, user, streams, locals>>
  BY DEF ReadCheck
<1>2. TypeProgram'
  BY <1>1 DEF ReadCheck, TypeProgram
<1>3. Armed'
  BY <1>1 DEF ReadCheck, Armed, TypeDevice, TypeProgram
<1>4. CallInv'
  BY <1>1 DEF ReadCheck, CallInv, TypeProgram
<1>5. CountInv'
  BY <1>1 DEF ReadCheck, CountInv, TypeProgram, TypeRoutine
<1> QED
  BY <1>1, <1>2, <1>3, <1>4, <1>5, Frames

LEMMA ReadDoneInv ==
  ASSUME IInv, ReadDone PROVE IInv'
<1>1. UNCHANGED <<rings, timeout, host_inactive, routine, device>>
  BY DEF ReadDone, Return
<1>2. TypeDevice'
  BY <1>1 DEF ReadDone, TypeDevice
<1>3. TypeProgram'
  BY <1>1, Returned DEF ReadDone, TypeProgram
<1>4. TypeStreams'
  BY <1>1, Returned DEF ReadDone, TypeStreams
<1>5. Armed'
  BY <1>1 DEF ReadDone, Armed, TypeDevice, TypeProgram, Return
<1>6. CallInv'
  BY <1>1 DEF ReadDone, CallInv, TypeProgram, Return
<1>7. CountInv'
  BY <1>1 DEF ReadDone, CountInv, TypeProgram, TypeRoutine, Return
<1> QED
  BY <1>1, <1>2, <1>3, <1>4, <1>5, <1>6, <1>7, Frames

LEMMA WriteScanInv ==
  ASSUME IInv, WriteScan PROVE IInv'
<1>1. UNCHANGED <<device, connected, irq_enable, rings, timeout, host_inactive,
                  routine, user, streams, left, moved, nonblock>>
  BY DEF WriteScan
<1>2. TypeProgram'
  BY <1>1 DEF WriteScan, TypeProgram, TypeRings, Slots, Writable, Least
<1>3. Armed'
  BY <1>1 DEF WriteScan, Armed, TypeDevice, TypeProgram
<1>4. CallInv'
  BY <1>1, NextSlot DEF WriteScan, CallInv, TypeProgram, TypeRings, Slots,
     Writable, Least
<1>5. CountInv'
  BY <1>1 DEF WriteScan, CountInv, TypeProgram, TypeRoutine
<1> QED
  BY <1>1, <1>2, <1>3, <1>4, <1>5, Frames

LEMMA WriteCopyInv ==
  ASSUME IInv, WriteCopy PROVE IInv'
<1>1. UNCHANGED <<device, connected, irq_enable, timeout, host_inactive, routine,
                  user, streams, rx_in, rx_out, tx_in, tx_out, seen, n, nonblock>>
  BY DEF WriteCopy
<1>2. TypeRings'
  BY <1>1 DEF WriteCopy, TypeRings, TypeStreams, TypeProgram, Char, Slots
<1>3. TypeProgram'
  BY <1>1 DEF WriteCopy, TypeProgram, CallInv
<1>4. Armed'
  BY <1>1 DEF WriteCopy, Armed, TypeDevice, TypeProgram
<1>5. CallInv'
  BY <1>1 DEF WriteCopy, CallInv, TypeProgram
<1>6. CountInv'
  BY <1>1 DEF WriteCopy, CountInv, TypeProgram, TypeRoutine
<1> QED
  BY <1>1, <1>2, <1>3, <1>4, <1>5, <1>6, Frames

LEMMA WriteAdvanceInv ==
  ASSUME IInv, WriteAdvance PROVE IInv'
<1>1. UNCHANGED <<device, connected, irq_enable, timeout, host_inactive, routine,
                  locals, rx_in, rx_out, tx_out>>
  BY DEF WriteAdvance
<1>2. TypeRings'
  BY <1>1 DEF WriteAdvance, TypeRings, TypeProgram, Slots
<1>3. TypeProgram'
  BY <1>1 DEF WriteAdvance, TypeProgram
<1>4. TypeStreams'
  BY <1>1 DEF WriteAdvance, TypeStreams, TypeProgram, Char
<1>5. Armed'
  BY <1>1 DEF WriteAdvance, Armed, TypeDevice, TypeProgram
<1>6. CallInv'
  BY <1>1 DEF WriteAdvance, CallInv, TypeProgram
<1>7. CountInv'
  BY <1>1 DEF WriteAdvance, CountInv, TypeProgram, TypeRoutine
<1> QED
  BY <1>1, <1>2, <1>3, <1>4, <1>5, <1>6, <1>7, Frames

LEMMA WriteKickInv ==
  ASSUME IInv, WriteKick PROVE IInv'
<1>1. UNCHANGED <<rings, timeout, host_inactive, routine, device>>
  BY DEF WriteKick, Return
<1>2. TypeDevice'
  BY <1>1 DEF WriteKick, TypeDevice
<1>3. TypeProgram'
  <2>1. CASE left > 0 /\ ~nonblock
    BY <1>1, <2>1 DEF WriteKick, TypeProgram
  <2>2. CASE ~(left > 0 /\ ~nonblock)
    BY <1>1, <2>2, Returned DEF WriteKick
  <2> QED
    BY <2>1, <2>2
<1>4. TypeStreams'
  <2>1. CASE left > 0 /\ ~nonblock
    BY <1>1, <2>1 DEF WriteKick, TypeStreams
  <2>2. CASE ~(left > 0 /\ ~nonblock)
    BY <1>1, <2>2, Returned DEF WriteKick
  <2> QED
    BY <2>1, <2>2
<1>5. Armed'
  BY <1>1 DEF WriteKick, Armed, TypeDevice, TypeProgram, Return
<1>6. CallInv'
  BY <1>1 DEF WriteKick, CallInv, TypeProgram, Return
<1>7. CountInv'
  BY <1>1 DEF WriteKick, CountInv, TypeProgram, TypeRoutine, Return
<1> QED
  BY <1>1, <1>2, <1>3, <1>4, <1>5, <1>6, <1>7, Frames

LEMMA WriteSpinInv ==
  ASSUME IInv, WriteSpin PROVE IInv'
<1>1. UNCHANGED <<device, connected, irq_enable, rings, timeout, host_inactive,
                  routine, user, streams, locals>>
  BY DEF WriteSpin
<1>2. TypeProgram'
  BY <1>1 DEF WriteSpin, TypeProgram
<1>3. Armed'
  BY <1>1 DEF WriteSpin, Armed, TypeDevice, TypeProgram
<1>4. CallInv'
  BY <1>1 DEF WriteSpin, CallInv, TypeProgram
<1>5. CountInv'
  BY <1>1 DEF WriteSpin, CountInv, TypeProgram, TypeRoutine, HostAbsent
<1> QED
  BY <1>1, <1>2, <1>3, <1>4, <1>5, Frames

LEMMA WriteCheckInv ==
  ASSUME IInv, WriteCheck PROVE IInv'
<1>1. UNCHANGED <<device, connected, irq_enable, rings, timeout, host_inactive,
                  routine>>
  BY DEF WriteCheck, Return
<1>2. TypeProgram'
  <2>1. CASE seen # tx_out
    BY <1>1, <2>1 DEF WriteCheck, TypeProgram
  <2>2. CASE ~(seen # tx_out)
    BY <1>1, <2>2, Returned DEF WriteCheck
  <2> QED
    BY <2>1, <2>2
<1>3. TypeStreams'
  <2>1. CASE seen # tx_out
    BY <1>1, <2>1 DEF WriteCheck, TypeStreams
  <2>2. CASE ~(seen # tx_out)
    BY <1>1, <2>2, Returned DEF WriteCheck
  <2> QED
    BY <2>1, <2>2
<1>4. Armed'
  BY <1>1 DEF WriteCheck, Armed, TypeDevice, TypeProgram, Return
<1>5. CallInv'
  BY <1>1 DEF WriteCheck, CallInv, TypeProgram, Return
<1>6. CountInv'
  BY <1>1 DEF WriteCheck, CountInv, TypeProgram, TypeRoutine, Return
<1> QED
  BY <1>1, <1>2, <1>3, <1>4, <1>5, <1>6, Frames

LEMMA CloseWaitInv ==
  ASSUME IInv, CloseWait PROVE IInv'
<1>1. UNCHANGED <<device, connected, irq_enable, rings, timeout, host_inactive,
                  routine>>
  BY DEF CloseWait, Return
<1>2. TypeProgram'
  BY <1>1, Returned DEF CloseWait, TypeProgram
<1>3. TypeStreams'
  BY <1>1, Returned DEF CloseWait, TypeStreams
<1>4. Armed'
  BY <1>1 DEF CloseWait, Armed, TypeDevice, TypeProgram, Return
<1>5. CallInv'
  BY <1>1 DEF CloseWait, CallInv, TypeProgram, Return
<1>6. CountInv'
  BY <1>1 DEF CloseWait, CountInv, TypeProgram, TypeRoutine, Return
<1> QED
  BY <1>1, <1>2, <1>3, <1>4, <1>5, <1>6, Frames

-----------------------------------------------------------------------------
LEMMA InitInv == Init => IInv
<1> SUFFICES ASSUME Init PROVE IInv
  OBVIOUS
<1>1. TypeDevice
  <2>1. pause_irq \in BOOLEAN /\ ac \in BOOLEAN
    BY Zenon DEF Init
  <2>2. connected \in BOOLEAN /\ Len(<<>>) = 0
    BY DEF Init
  <2> QED
    BY <2>1, <2>2, Empty DEF Init, TypeDevice
<1>2. TypeRings
  BY DEF Init, TypeRings, Slots, Char
<1>3. TypeRoutine
  <2>1. wi \in BOOLEAN /\ ravail \in BOOLEAN
    BY Zenon DEF Init
  <2> QED
    BY <2>1 DEF Init, TypeRoutine
<1>4. TypeProgram
  <2>1. moved \in BOOLEAN /\ nonblock \in BOOLEAN
    BY Zenon DEF Init
  <2> QED
    BY <2>1 DEF Init, TypeProgram, Slots
<1>5. TypeStreams
  BY Empty DEF Init, TypeStreams, Char
<1>6. Armed /\ RoutineInv /\ CallInv /\ CountInv
  BY DEF Init, Armed, RoutineInv, CallInv, CountInv
<1> QED
  BY <1>1, <1>2, <1>3, <1>4, <1>5, <1>6

\* The invariant is inductive: one case for each action.
LEMMA NextInv == IInv /\ [Next]_vars => IInv'
<1> SUFFICES ASSUME IInv, [Next]_vars PROVE IInv'
  OBVIOUS
<1>1. CASE Host
  BY <1>1, TypeInv, PauseInv, DrainInv, PlugInv DEF Host
<1>2. CASE Routine
  BY <1>2, InterruptInv, ControlInv, TakeDataInv, CountDataInv, StopReadingInv,
     ReadEndInv, PutDataInv, WriteEndInv DEF Routine
<1>3. CASE Timeout
  BY <1>3, TimeoutInv
<1>4. CASE Calls
  BY <1>4, ReadInv, WriteInv, CloseInv, SetTimeoutInv DEF Calls
<1>5. CASE Program
  BY <1>5, ReadScanInv, ReadCopyInv, ReadAdvanceInv, ReadSpinInv, ReadCheckInv,
     ReadDoneInv, WriteScanInv, WriteCopyInv, WriteAdvanceInv, WriteKickInv,
     WriteSpinInv, WriteCheckInv, CloseWaitInv DEF Program
<1>6. CASE UNCHANGED vars
  <2>1. UNCHANGED <<device, connected, irq_enable, rings, timeout, host_inactive,
                    routine, pc, locals, user, streams>>
    BY <1>6 DEF vars
  <2> QED
    BY <2>1, Frames
<1> QED
  BY <1>1, <1>2, <1>3, <1>4, <1>5, <1>6 DEF Next

THEOREM Invariance == Spec => []IInv
<1> HIDE DEF IInv
<1> QED
  BY InitInv, NextInv, PTL DEF Spec

\* The driver and the device keep their types, whatever the sizes.
THEOREM TypeCorrect == Spec => []TypeOK
<1>1. IInv => TypeOK
  BY TypeParts
<1> HIDE DEF IInv
<1> QED
  BY <1>1, Invariance, PTL

\* Neither direction waits for an interrupt that nobody will enable: the write
\* interrupt is on while there is something to send, or the program is about to
\* turn it on; with the read interrupt off there is something to be read, and
\* reading it turns the interrupt on again.
THEOREM ArmedSafe == Spec => []Armed
<1>1. IInv => Armed
  OBVIOUS
<1> HIDE DEF IInv
<1> QED
  BY <1>1, Invariance, PTL

\* Joining is associative.
LEMMA JoinThree ==
  ASSUME NEW f \in Seq(Char), NEW g \in Seq(Char), NEW h \in Seq(Char)
  PROVE  f \o (g \o h) = (f \o g) \o h
BY ConcatAssociative

\* A call that may wait fails only if a timer counts the seconds of absence: it
\* has seen the other side's pointer unmoved after the absence was noticed, and
\* without a timer the absence is never noticed.
THEOREM FailsSafe == Spec => FailsOnlyTimed
<1>1. ASSUME IInv, [Next]_vars
      PROVE  [(ReadDone \/ WriteKick \/ WriteCheck) /\ pc' = "idle" /\ EIO
                => timeout <= INT_MAX - 2]_vars
  <2>1. ASSUME ReadDone, EIO PROVE timeout <= INT_MAX - 2
    BY <1>1, <2>1 DEF ReadDone, EIO, CountInv
  <2>2. ASSUME WriteKick, pc' = "idle", EIO PROVE FALSE
    BY <1>1, <2>2 DEF WriteKick, EIO, CallInv, TypeProgram
  <2>3. ASSUME WriteCheck, pc' = "idle", EIO PROVE timeout <= INT_MAX - 2
    BY <1>1, <2>3 DEF WriteCheck, CountInv
  <2> QED
    BY <2>1, <2>2, <2>3
<1> HIDE DEF IInv
<1> QED
  BY <1>1, Invariance, PTL DEF Spec, FailsOnlyTimed
-----------------------------------------------------------------------------
\* Sequences of characters that are cut and joined.
LEMMA Joined ==
  ASSUME NEW s \in Seq(Char), NEW t \in Seq(Char)
  PROVE  /\ s \o t \in Seq(Char) /\ Len(s \o t) = Len(s) + Len(t)
         /\ \A i \in 1 .. Len(s) + Len(t) :
              (s \o t)[i] = IF i <= Len(s) THEN s[i] ELSE t[i - Len(s)]
  BY ConcatProperties

\* What is left of a sequence after its first k elements.
LEMMA Cut ==
  ASSUME NEW s \in Seq(Char), NEW k \in 0 .. Len(s)
  PROVE  /\ SubSeq(s, k + 1, Len(s)) \in Seq(Char)
         /\ Len(SubSeq(s, k + 1, Len(s))) = Len(s) - k
         /\ \A i \in 1 .. Len(s) - k : SubSeq(s, k + 1, Len(s))[i] = s[k + i]
         /\ SubSeq(s, 1, k) \in Seq(Char) /\ Len(SubSeq(s, 1, k)) = k
         /\ \A i \in 1 .. k : SubSeq(s, 1, k)[i] = s[i]
<1> DEFINE u == Len(s)
<1>1. /\ u \in Nat /\ k \in Nat /\ k <= u
      /\ k + 1 \in Int /\ u \in Int /\ 1 \in Int /\ k \in Int
  OBVIOUS
<1>2. \A i \in 1 .. u : s[i] \in Char
  OBVIOUS
<1> HIDE DEF u
<1>3. (\A i \in k + 1 .. u : s[i] \in Char) /\ \A i \in 1 .. k : s[i] \in Char
  BY <1>1, <1>2
<1>4. /\ SubSeq(s, k + 1, u) \in Seq(Char)
      /\ Len(SubSeq(s, k + 1, u)) = IF k + 1 <= u THEN u - (k + 1) + 1 ELSE 0
      /\ \A i \in 1 .. u - (k + 1) + 1 : SubSeq(s, k + 1, u)[i] = s[k + 1 + i - 1]
  BY <1>1, <1>3, SubSeqProperties
<1>5. /\ SubSeq(s, 1, k) \in Seq(Char)
      /\ Len(SubSeq(s, 1, k)) = IF 1 <= k THEN k - 1 + 1 ELSE 0
      /\ \A i \in 1 .. k - 1 + 1 : SubSeq(s, 1, k)[i] = s[1 + i - 1]
  BY <1>1, <1>3, SubSeqProperties
<1>6. /\ Len(SubSeq(s, k + 1, u)) = u - k
      /\ \A i \in 1 .. u - k : SubSeq(s, k + 1, u)[i] = s[k + i]
  BY <1>1, <1>4
<1>7. Len(SubSeq(s, 1, k)) = k /\ \A i \in 1 .. k : SubSeq(s, 1, k)[i] = s[i]
  BY <1>1, <1>5
<1> QED
  BY <1>4, <1>5, <1>6, <1>7 DEF u

\* What is taken from the front of two is taken from the first.
LEMMA CutFront ==
  ASSUME NEW s \in Seq(Char), NEW t \in Seq(Char), NEW k \in 0 .. Len(s)
  PROVE  /\ SubSeq(s \o t, k + 1, Len(s \o t)) = SubSeq(s, k + 1, Len(s)) \o t
         /\ SubSeq(s \o t, 1, k) = SubSeq(s, 1, k)
<1> DEFINE st == s \o t
           r == SubSeq(s, k + 1, Len(s))
<1>1. Len(s) \in Nat /\ Len(t) \in Nat /\ k \in Nat /\ k <= Len(s)
  OBVIOUS
<1>2. /\ st \in Seq(Char) /\ Len(st) = Len(s) + Len(t)
      /\ \A i \in 1 .. Len(s) + Len(t) :
           st[i] = IF i <= Len(s) THEN s[i] ELSE t[i - Len(s)]
  BY Joined
<1>3. /\ r \in Seq(Char) /\ Len(r) = Len(s) - k
      /\ \A i \in 1 .. Len(s) - k : r[i] = s[k + i]
      /\ SubSeq(s, 1, k) \in Seq(Char) /\ Len(SubSeq(s, 1, k)) = k
      /\ \A i \in 1 .. k : SubSeq(s, 1, k)[i] = s[i]
  BY Cut
<1> HIDE DEF st, r
<1>4. k \in 0 .. Len(st)
  BY <1>1, <1>2
<1>5. /\ SubSeq(st, k + 1, Len(st)) \in Seq(Char)
      /\ Len(SubSeq(st, k + 1, Len(st))) = Len(st) - k
      /\ \A i \in 1 .. Len(st) - k : SubSeq(st, k + 1, Len(st))[i] = st[k + i]
      /\ SubSeq(st, 1, k) \in Seq(Char) /\ Len(SubSeq(st, 1, k)) = k
      /\ \A i \in 1 .. k : SubSeq(st, 1, k)[i] = st[i]
  BY <1>2, <1>4, Cut
<1>6. /\ r \o t \in Seq(Char) /\ Len(r \o t) = Len(r) + Len(t)
      /\ \A i \in 1 .. Len(r) + Len(t) :
           (r \o t)[i] = IF i <= Len(r) THEN r[i] ELSE t[i - Len(r)]
  BY <1>3, Joined
<1>7. SubSeq(st, k + 1, Len(st)) = r \o t
  <2>1. Len(st) - k = Len(r \o t)
    BY <1>1, <1>2, <1>3, <1>6
  <2>2. ASSUME NEW i \in 1 .. Len(st) - k PROVE SubSeq(st, k + 1, Len(st))[i] = (r \o t)[i]
    <3>1. i \in Nat /\ i >= 1 /\ i <= Len(s) + Len(t) - k /\ k + i \in 1 .. Len(s) + Len(t)
          /\ i \in 1 .. Len(r) + Len(t)
      BY <1>1, <1>2, <1>3
    <3>2. SubSeq(st, k + 1, Len(st))[i] = st[k + i]
      BY <1>5
    <3>3. CASE i <= Len(s) - k
      <4>1. k + i <= Len(s) /\ i \in 1 .. Len(s) - k /\ i <= Len(r)
        BY <1>1, <1>3, <3>1, <3>3
      <4>2. st[k + i] = s[k + i] /\ (r \o t)[i] = r[i] /\ r[i] = s[k + i]
        BY <1>2, <1>3, <1>6, <3>1, <4>1
      <4> QED
        BY <3>2, <4>2
    <3>4. CASE ~(i <= Len(s) - k)
      <4>1. ~(k + i <= Len(s)) /\ ~(i <= Len(r)) /\ k + i - Len(s) = i - Len(r)
        BY <1>1, <1>3, <3>1, <3>4
      <4>2. st[k + i] = t[k + i - Len(s)] /\ (r \o t)[i] = t[i - Len(r)]
        BY <1>2, <1>6, <3>1, <4>1
      <4> QED
        BY <3>2, <4>1, <4>2
    <3> QED
      BY <3>3, <3>4
  <2> QED
    BY <1>5, <1>6, <2>1, <2>2, SeqEqual
<1>8. SubSeq(st, 1, k) = SubSeq(s, 1, k)
  <2>1. ASSUME NEW i \in 1 .. k PROVE SubSeq(st, 1, k)[i] = SubSeq(s, 1, k)[i]
    <3>1. i \in 1 .. Len(s) + Len(t) /\ i <= Len(s)
      BY <1>1
    <3> QED
      BY <1>2, <1>3, <1>5, <3>1
  <2> QED
    BY <1>3, <1>5, <2>1, SeqEqual
<1> QED
  BY <1>7, <1>8 DEF st, r

\* A single character.
LEMMA Single ==
  ASSUME NEW c \in Char, NEW s \in Seq(Char)
  PROVE  /\ <<c>> \in Seq(Char) /\ Len(<<c>>) = 1 /\ <<c>>[1] = c
         /\ Append(s, c) = s \o <<c>>
  OBVIOUS

\* A sequence is its first element and the rest.
LEMMA FirstRest ==
  ASSUME NEW s \in Seq(Char), s # <<>>
  PROVE  /\ Len(s) >= 1 /\ s[1] \in Char /\ s = <<s[1]>> \o SubSeq(s, 2, Len(s))
         /\ SubSeq(s, 2, Len(s)) \in Seq(Char)
         /\ Tail(s) = SubSeq(s, 2, Len(s)) /\ Head(s) = s[1]
         /\ SubSeq(s, 1, 1) = <<s[1]>>
<1>1. Len(s) \in Nat \ {0}
  BY EmptySeq
<1>2. s[1] \in Char /\ Head(s) = s[1] /\ 1 \in 0 .. Len(s)
  BY <1>1
<1>3. SubSeq(s, 1, Len(s)) = <<s[1]>> \o SubSeq(s, 1 + 1, Len(s))
  BY <1>1, SubSeqRecursiveFirst
<1>4. SubSeq(s, 1, Len(s)) = s
  BY SubSeqFull
<1>5. SubSeq(s, 1 + 1, Len(s)) \in Seq(Char)
  BY <1>2, Cut
<1>6. Tail(s) = SubSeq(s, 2, Len(s))
  BY TailIsSubSeq
<1>7. SubSeq(s, 1, 1) = <<s[1]>>
  <2>1. SubSeq(s, 1, 1) \in Seq(Char) /\ Len(SubSeq(s, 1, 1)) = 1 /\ SubSeq(s, 1, 1)[1] = s[1]
    BY <1>2, Cut
  <2>2. <<s[1]>> \in Seq(Char) /\ Len(<<s[1]>>) = 1 /\ <<s[1]>>[1] = s[1]
    BY <1>2
  <2> DEFINE p == SubSeq(s, 1, 1)
             q == <<s[1]>>
  <2>3. p \in Seq(Char) /\ q \in Seq(Char) /\ Len(p) = Len(q) /\ Len(p) = 1 /\ p[1] = q[1]
    BY <2>1, <2>2
  <2> HIDE DEF p, q
  <2>4. \A i \in 1 .. Len(p) : p[i] = q[i]
    BY <2>3
  <2>5. p = q
    BY <2>3, <2>4, SeqEqual
  <2> QED
    BY <2>5 DEF p, q
<1> QED
  BY <1>1, <1>2, <1>3, <1>4, <1>5, <1>6, <1>7

\* Moving the first element of the second part to the end of the first part
\* leaves the whole as it was.
LEMMA MoveCons ==
  ASSUME NEW s \in Seq(Char), NEW r \in Seq(Char), NEW c \in Char
  PROVE  Append(s, c) \o r = s \o (<<c>> \o r)
<1>1. <<c>> \in Seq(Char) /\ Append(s, c) = s \o <<c>>
  BY Single
<1>2. (s \o <<c>>) \o r = s \o (<<c>> \o r)
  BY <1>1, ConcatAssociative
<1> QED
  BY <1>1, <1>2, Zenon

\* The first of t moves behind s.
LEMMA MoveOne ==
  ASSUME NEW s \in Seq(Char), NEW t \in Seq(Char), t # <<>>
  PROVE  Append(s, t[1]) \o SubSeq(t, 2, Len(t)) = s \o t
<1> DEFINE c == t[1]
           r == SubSeq(t, 2, Len(t))
<1>1. c \in Char /\ t = <<c>> \o r /\ r \in Seq(Char)
  BY FirstRest
<1> HIDE DEF c, r
<1>2. Append(s, c) \o r = s \o (<<c>> \o r)
  BY <1>1, MoveCons
<1>3. Append(s, c) \o r = s \o t
  BY <1>1, <1>2, Zenon
<1> QED
  BY <1>3 DEF c, r
-----------------------------------------------------------------------------
\* Rings: what is in them, and what a move of a pointer does to it.

\* Positions in a ring, without the modulus.
LEMMA RingUsed ==
  ASSUME NEW in \in Slots, NEW out \in Slots
  PROVE  /\ Used(in, out) = IF in >= out THEN in - out ELSE in - out + BUF_LEN
         /\ Used(in, out) \in 0 .. BUF_LEN - 1
<1>1. CASE in >= out
  <2>1. in - out \in 0 .. BUF_LEN - 1
    BY <1>1, Sizes DEF Slots
  <2> QED
    BY <1>1, <2>1, Sizes DEF Used
<1>2. CASE in < out
  <2>1. in - out \in -(BUF_LEN - 1) .. -1
    BY <1>2, Sizes DEF Slots
  <2>2. (in - out) % BUF_LEN = in - out + BUF_LEN
    BY <2>1, Sizes
  <2> QED
    BY <1>2, <2>1, <2>2, Sizes DEF Used, Slots
<1> QED
  BY <1>1, <1>2 DEF Slots

\* A pointer moved on by m, without the modulus.
LEMMA RingSlot ==
  ASSUME NEW out \in Slots, NEW m \in 0 .. BUF_LEN
  PROVE  /\ (out + m) % BUF_LEN = IF out + m < BUF_LEN THEN out + m ELSE out + m - BUF_LEN
         /\ (out + m) % BUF_LEN \in Slots
<1>1. CASE out + m < BUF_LEN
  <2>1. out + m \in 0 .. BUF_LEN - 1
    BY <1>1, Sizes DEF Slots
  <2>2. (out + m) % BUF_LEN = out + m
    BY <2>1, Sizes
  <2> QED
    BY <1>1, <2>1, <2>2 DEF Slots
<1>2. CASE out + m >= BUF_LEN
  <2>1. out + m - BUF_LEN \in 0 .. BUF_LEN - 1
    BY <1>2, Sizes DEF Slots
  <2>2. (out + m) % BUF_LEN = out + m - BUF_LEN
    BY <2>1, Sizes DEF Slots
  <2> QED
    BY <1>2, <2>1, <2>2, Sizes DEF Slots
<1> QED
  BY <1>1, <1>2, Sizes DEF Slots

\* The slot of the i-th character.
Slot(out, i) == IF out + i - 1 < BUF_LEN THEN out + i - 1 ELSE out + i - 1 - BUF_LEN

\* What is in a ring.
LEMMA RingContents ==
  ASSUME NEW buf \in [Slots -> Char], NEW in \in Slots, NEW out \in Slots
  PROVE  /\ Contents(buf, in, out) \in Seq(Char)
         /\ Len(Contents(buf, in, out)) = Used(in, out)
         /\ \A i \in 1 .. Used(in, out) :
              Contents(buf, in, out)[i] = buf[Slot(out, i)]
<1>1. Used(in, out) \in Nat /\ Used(in, out) <= BUF_LEN - 1
  BY RingUsed, Sizes
<1>2. \A i \in 1 .. Used(in, out) :
        /\ (out + i - 1) % BUF_LEN = Slot(out, i)
        /\ (out + i - 1) % BUF_LEN \in Slots
  <2> SUFFICES ASSUME NEW i \in 1 .. Used(in, out)
               PROVE  /\ (out + i - 1) % BUF_LEN = Slot(out, i)
                      /\ (out + i - 1) % BUF_LEN \in Slots
    OBVIOUS
  <2>1. i - 1 \in 0 .. BUF_LEN /\ out + i - 1 = out + (i - 1)
    BY <1>1, Sizes DEF Slots
  <2> QED
    BY <2>1, RingSlot DEF Slot
<1>3. \A i \in 1 .. Used(in, out) : buf[(out + i - 1) % BUF_LEN] \in Char
  BY <1>2
<1> QED
  BY <1>1, <1>2, <1>3 DEF Contents

\* A ring that leaves what it has alone and takes s behind it.
Takes(buf, in, out, buf2, in2, s) ==
  /\ buf \in [Slots -> Char] /\ in \in Slots /\ out \in Slots
  /\ buf2 \in [Slots -> Char] /\ in2 \in Slots /\ s \in Seq(Char)
  /\ Used(in2, out) = Used(in, out) + Len(s)
  /\ \A i \in 1 .. Used(in, out) : buf2[Slot(out, i)] = buf[Slot(out, i)]
  /\ \A i \in 1 .. Len(s) : buf2[Slot(out, Used(in, out) + i)] = s[i]

\* A ring into which the sequence s is copied behind its contents.
LEMMA RingMore ==
  ASSUME NEW buf, NEW in, NEW out, NEW buf2, NEW in2, NEW s,
         Takes(buf, in, out, buf2, in2, s)
  PROVE  Contents(buf2, in2, out) = Contents(buf, in, out) \o s
<1>0. /\ buf \in [Slots -> Char] /\ in \in Slots /\ out \in Slots
      /\ buf2 \in [Slots -> Char] /\ in2 \in Slots /\ s \in Seq(Char)
      /\ Used(in2, out) = Used(in, out) + Len(s)
      /\ \A i \in 1 .. Used(in, out) : buf2[Slot(out, i)] = buf[Slot(out, i)]
      /\ \A i \in 1 .. Len(s) : buf2[Slot(out, Used(in, out) + i)] = s[i]
  BY DEF Takes
<1> DEFINE old == Contents(buf, in, out)
           new == Contents(buf2, in2, out)
           u == Used(in, out)
<1>u. u \in Nat
  BY <1>0, RingUsed, Sizes
<1>1. /\ old \in Seq(Char) /\ Len(old) = u
      /\ \A i \in 1 .. u : old[i] = buf[Slot(out, i)]
  BY ONLY <1>0, RingContents
<1>2. /\ new \in Seq(Char) /\ Len(new) = u + Len(s)
      /\ \A i \in 1 .. u + Len(s) : new[i] = buf2[Slot(out, i)]
  <2>1. /\ new \in Seq(Char) /\ Len(new) = Used(in2, out)
        /\ \A i \in 1 .. Used(in2, out) : new[i] = buf2[Slot(out, i)]
    BY ONLY <1>0, RingContents
  <2> QED
    BY <1>0, <2>1
<1>3. /\ old \o s \in Seq(Char) /\ Len(old \o s) = u + Len(s)
      /\ \A i \in 1 .. u + Len(s) : (old \o s)[i] = IF i <= u THEN old[i] ELSE s[i - u]
  <2> HIDE DEF old, u
  <2> QED
    BY <1>0, <1>1, ConcatProperties
<1>4. Len(s) \in Nat
  BY <1>0
<1> HIDE DEF old, new, u
<1>5. ASSUME NEW i \in 1 .. u + Len(s) PROVE new[i] = (old \o s)[i]
  <2>1. CASE i <= u
    <3>1. i \in 1 .. u
      BY <1>u, <1>4, <2>1
    <3>2. buf2[Slot(out, i)] = buf[Slot(out, i)]
      BY <1>0, <3>1 DEF u
    <3>3. old[i] = buf[Slot(out, i)]
      BY <1>1, <3>1
    <3>4. new[i] = buf2[Slot(out, i)]
      BY <1>2
    <3>5. (old \o s)[i] = old[i]
      BY <1>3, <2>1
    <3> QED
      BY <3>2, <3>3, <3>4, <3>5
  <2>2. CASE i > u
    <3>1. i - u \in 1 .. Len(s) /\ u + (i - u) = i
      BY <1>u, <1>4, <2>2
    <3>2. buf2[Slot(out, i)] = s[i - u]
      BY <1>0, <3>1 DEF u
    <3>3. ~(i <= u)
      BY <1>u, <1>4, <2>2
    <3> QED
      BY <1>2, <1>3, <3>2, <3>3
  <2>3. i <= u \/ i > u
    BY <1>u, <1>4
  <2> QED
    BY <2>1, <2>2, <2>3
<1> QED
  BY <1>2, <1>3, <1>5, SeqEqual DEF old, new

\* A ring from which the first m characters are taken.
LEMMA RingLess ==
  ASSUME NEW buf \in [Slots -> Char], NEW in \in Slots, NEW out \in Slots,
         NEW m \in 0 .. Used(in, out)
  PROVE  /\ Used(in, (out + m) % BUF_LEN) = Used(in, out) - m
         /\ Contents(buf, in, (out + m) % BUF_LEN)
              = SubSeq(Contents(buf, in, out), m + 1, Used(in, out))
<1> DEFINE out2 == (out + m) % BUF_LEN
           u == Used(in, out)
           s == Contents(buf, in, out)
           t == Contents(buf, in, out2)
<1>1. u \in Nat /\ u <= BUF_LEN - 1 /\ m \in Nat /\ m <= u /\ m \in 0 .. BUF_LEN
  BY RingUsed, Sizes
<1>2. out2 \in Slots /\ out2 = IF out + m < BUF_LEN THEN out + m ELSE out + m - BUF_LEN
  BY <1>1, RingSlot
<1>3. u = IF in >= out THEN in - out ELSE in - out + BUF_LEN
  BY RingUsed
<1>4. Used(in, out2) = IF in >= out2 THEN in - out2 ELSE in - out2 + BUF_LEN
  BY <1>2, RingUsed
<1>5. Used(in, out2) = u - m
  <2> HIDE DEF out2, u
  <2> QED
    BY <1>1, <1>2, <1>3, <1>4, Sizes DEF Slots
<1>6. /\ s \in Seq(Char) /\ Len(s) = u
      /\ \A i \in 1 .. u : s[i] = buf[Slot(out, i)]
  BY RingContents
<1>7. /\ t \in Seq(Char) /\ Len(t) = u - m
      /\ \A i \in 1 .. u - m : t[i] = buf[Slot(out2, i)]
  <2> DEFINE v == Used(in, out2)
  <2>1. /\ t \in Seq(Char) /\ Len(t) = v
        /\ \A i \in 1 .. v : t[i] = buf[Slot(out2, i)]
    <3>1. out2 \in Slots
      BY <1>2
    <3> HIDE DEF out2
    <3> QED
      BY <3>1, RingContents
  <2>2. v = u - m
    BY <1>5
  <2> HIDE DEF out2, u, s, t, v
  <2> QED
    BY ONLY <2>1, <2>2
<1> HIDE DEF out2, u, s, t
<1>8. /\ SubSeq(s, m + 1, u) \in Seq(Char) /\ Len(SubSeq(s, m + 1, u)) = u - m
      /\ \A i \in 1 .. u - m : SubSeq(s, m + 1, u)[i] = s[m + i]
  <2>1. m \in 0 .. Len(s)
    BY <1>1, <1>6
  <2>2. /\ SubSeq(s, m + 1, Len(s)) \in Seq(Char)
        /\ Len(SubSeq(s, m + 1, Len(s))) = Len(s) - m
        /\ \A i \in 1 .. Len(s) - m : SubSeq(s, m + 1, Len(s))[i] = s[m + i]
    BY <1>6, <2>1, Cut
  <2> QED
    BY <1>6, <2>2
<1>9. ASSUME NEW i \in 1 .. u - m PROVE t[i] = SubSeq(s, m + 1, u)[i]
  <2>1. Slot(out2, i) = Slot(out, m + i) /\ m + i \in 1 .. u
    BY <1>1, <1>2, Sizes DEF Slot, Slots
  <2> QED
    BY <1>6, <1>7, <1>8, <2>1
<1>10. t = SubSeq(s, m + 1, u)
  BY <1>7, <1>8, <1>9, SeqEqual
<1> QED
  BY <1>5, <1>10 DEF out2, u, s, t

\* One character more, one less.
LEMMA RingGrows ==
  ASSUME NEW in \in Slots, NEW out \in Slots, Follows(in) # out
  PROVE  Used(Follows(in), out) = Used(in, out) + 1
<1>1. Follows(in) \in Slots /\ Follows(in) = IF in = BUF_LEN - 1 THEN 0 ELSE in + 1
  BY NextSlot
<1>2. /\ Used(in, out) = IF in >= out THEN in - out ELSE in - out + BUF_LEN
      /\ Used(Follows(in), out) = IF Follows(in) >= out THEN Follows(in) - out
                                  ELSE Follows(in) - out + BUF_LEN
  BY <1>1, RingUsed
<1> QED
  BY <1>1, <1>2, Sizes DEF Slots

\* One character fewer once the reader's pointer has moved by one.
LEMMA RingShrinks ==
  ASSUME NEW in \in Slots, NEW out \in Slots, out # in
  PROVE  Used(in, Follows(out)) = Used(in, out) - 1
<1>1. Follows(out) \in Slots /\ Follows(out) = IF out = BUF_LEN - 1 THEN 0 ELSE out + 1
  BY NextSlot
<1>2. /\ Used(in, out) = IF in >= out THEN in - out ELSE in - out + BUF_LEN
      /\ Used(in, Follows(out)) = IF in >= Follows(out) THEN in - Follows(out)
                                  ELSE in - Follows(out) + BUF_LEN
  BY <1>1, RingUsed
<1> QED
  BY <1>1, <1>2, Sizes DEF Slots
-----------------------------------------------------------------------------
\* What a copy may take or fill stands in the ring, in one piece; what write
\* has copied and not advanced over is the stream's next; what the routine
\* still has to put fits into the FIFO.
ReadSpan ==
  pc \in {"r_copy", "r_advance"} =>
    n >= 1 /\ n <= Used(rx_in, rx_out) /\ rx_out + n <= BUF_LEN
WriteSpan ==
  /\ pc \in {"w_copy", "w_advance"} =>
       n >= 1 /\ n + Used(tx_in, tx_out) <= BUF_LEN - 1 /\ tx_in + n <= BUF_LEN
  /\ pc = "w_advance" =>
       \A i \in 0 .. n - 1 : tx_buf[tx_in + i] = (written + i) % Chars
FifoSpan == space + Len(tx_fifo) <= DEPTH
SpanInv == ReadSpan /\ WriteSpan /\ FifoSpan

\* What a step leaves alone keeps its part of SpanInv.
LEMMA SpanFrames ==
  ASSUME SpanInv
  PROVE  /\ UNCHANGED <<pc, n, rx_in, rx_out>> => ReadSpan'
         /\ pc' \notin {"r_copy", "r_advance"} => ReadSpan'
         /\ UNCHANGED <<pc, n, tx_in, tx_out, tx_buf, written>> => WriteSpan'
         /\ pc' \notin {"w_copy", "w_advance"} => WriteSpan'
         /\ UNCHANGED <<space, tx_fifo>> => FifoSpan'
<1>1. UNCHANGED <<pc, n, rx_in, rx_out>> => ReadSpan'
  BY DEF SpanInv, ReadSpan
<1>2. UNCHANGED <<pc, n, tx_in, tx_out, tx_buf, written>> => WriteSpan'
  BY DEF SpanInv, WriteSpan
<1>3. UNCHANGED <<space, tx_fifo>> => FifoSpan'
  BY DEF SpanInv, FifoSpan
<1> QED
  BY <1>1, <1>2, <1>3 DEF ReadSpan, WriteSpan

\* The steps of the host keep SpanInv.
LEMMA HostSpan ==
  ASSUME IInv, SpanInv, Host \/ Timeout PROVE SpanInv'
<1>1. UNCHANGED <<pc, n, rings, written, space>>
  BY DEF Host, Type, Pause, Drain, Plug, Timeout
<1>2. FifoSpan'
  <2>1. CASE Drain
    <3>1. Len(tx_fifo') = Len(tx_fifo) - 1 /\ Len(tx_fifo) \in Nat /\ space \in Nat
      BY <2>1, Shrunk DEF Drain, TypeDevice, TypeRoutine
    <3> QED
      BY <1>1, <3>1 DEF FifoSpan, SpanInv
  <2>2. CASE ~Drain
    <3>1. UNCHANGED <<space, tx_fifo>>
      BY <2>2 DEF Host, Type, Pause, Plug, Timeout
    <3> QED
      BY <3>1, SpanFrames
  <2> QED
    BY <2>1, <2>2
<1> QED
  BY <1>1, <1>2, SpanFrames DEF SpanInv

\* The steps of the interrupt routine keep SpanInv.
LEMMA RoutineSpan ==
  ASSUME IInv, SpanInv, Routine PROVE SpanInv'
<1>0. UNCHANGED <<pc, n, written, rx_out, tx_in, tx_buf>>
  BY DEF Routine, Interrupt, Control, TakeData, CountData, StopReading, ReadEnd,
     PutData, WriteEnd
<1>1. CASE TakeData
  <2>1. UNCHANGED <<tx_out, space, tx_fifo>>
    BY <1>1 DEF TakeData
  <2>2. ReadSpan'
    <3>1. CASE rx_in' = rx_in
      BY <1>0, <3>1, SpanFrames
    <3>2. CASE rx_in' # rx_in
      <4>1. rx_in' = Follows(rx_in) /\ Follows(rx_in) # rx_out
        BY <1>1, <3>2 DEF TakeData, RingFull
      <4>2. Used(rx_in', rx_out) = Used(rx_in, rx_out) + 1
        BY <4>1, RingGrows DEF TypeRings
      <4>3. Used(rx_in, rx_out) \in Nat /\ n \in Nat
        BY RingUsed DEF TypeRings, TypeProgram
      <4> QED
        BY <1>0, <4>2, <4>3 DEF ReadSpan, SpanInv
    <3> QED
      BY <3>1, <3>2
  <2> QED
    BY <1>0, <2>1, <2>2, SpanFrames DEF SpanInv
<1>2. CASE PutData
  <2>1. UNCHANGED <<rx_in>> /\ space' = space - 1 /\ tx_out' = Follows(tx_out)
        /\ tx_out # tx_in /\ space > 0
    BY <1>2 DEF PutData
  <2>2. FifoSpan'
    <3>1. Len(tx_fifo') <= Len(tx_fifo) + 1 /\ Len(tx_fifo') \in Nat
      BY <1>2, Grown DEF PutData, TypeDevice, TypeRings
    <3>2. Len(tx_fifo) \in Nat /\ space \in Nat
      BY DEF TypeDevice, TypeRoutine
    <3> QED
      BY <2>1, <3>1, <3>2 DEF FifoSpan, SpanInv
  <2>3. WriteSpan'
    <3>1. /\ Used(tx_in, Follows(tx_out)) = Used(tx_in, tx_out) - 1
          /\ Used(tx_in, tx_out) \in Nat
      BY <2>1, RingShrinks, RingUsed DEF TypeRings
    <3>2. n \in Nat
      BY DEF TypeProgram
    <3> QED
      BY <1>0, <2>1, <3>1, <3>2 DEF WriteSpan, SpanInv
  <2> QED
    BY <1>0, <2>1, <2>2, <2>3, SpanFrames DEF SpanInv
<1>3. CASE ~TakeData /\ ~PutData
  <2>1. UNCHANGED <<rx_in, tx_out, tx_fifo>>
    BY <1>3 DEF Routine, Interrupt, Control, CountData, StopReading, ReadEnd, WriteEnd
  <2>2. space' = space \/ space' = 0 \/ space' = DEPTH - Len(tx_fifo)
    BY <1>3 DEF Routine, Interrupt, Control, CountData, StopReading, ReadEnd, WriteEnd
  <2>3. FifoSpan'
    <3>1. Len(tx_fifo) \in Nat /\ Len(tx_fifo) <= DEPTH
      BY DEF TypeDevice
    <3> QED
      BY <2>1, <2>2, <3>1 DEF FifoSpan, SpanInv
  <2> QED
    BY <1>0, <2>1, <2>3, SpanFrames DEF SpanInv
<1> QED
  BY <1>1, <1>2, <1>3

\* The steps that begin a call keep SpanInv.
LEMMA CallsSpan ==
  ASSUME IInv, SpanInv, Calls PROVE SpanInv'
<1>1. pc' \notin {"r_copy", "r_advance", "w_copy", "w_advance"}
  BY DEF Calls, Read, Write, Close, SetTimeout
<1>2. UNCHANGED <<space, tx_fifo>>
  BY DEF Calls, Read, Write, Close, SetTimeout
<1> QED
  BY <1>1, <1>2, SpanFrames DEF SpanInv

\* A copy that has been decided on is possible.
LEMMA ReadScanSpan ==
  ASSUME IInv, SpanInv, ReadScan PROVE ReadSpan'
<1> SUFFICES ASSUME pc' = "r_copy"
             PROVE  /\ n' >= 1 /\ n' <= Used(rx_in', rx_out') /\ rx_out' + n' <= BUF_LEN
  BY DEF ReadScan, ReadSpan
<1>1. /\ rx_in' = rx_in /\ rx_out' = rx_out
      /\ n' = Least(Readable(rx_in), left) /\ n' > 0
  BY DEF ReadScan
<1>2. Used(rx_in, rx_out) = IF rx_in >= rx_out THEN rx_in - rx_out
                            ELSE rx_in - rx_out + BUF_LEN
  BY RingUsed DEF TypeRings
<1>3. rx_in \in 0 .. BUF_LEN - 1 /\ rx_out \in 0 .. BUF_LEN - 1 /\ left \in Nat
  BY DEF TypeRings, TypeProgram, Slots
<1> QED
  BY <1>1, <1>2, <1>3 DEF Least, Readable

\* How much fits at once: up to the end of the ring or up to the reader.
LEMMA WriteScanSpan ==
  ASSUME IInv, SpanInv, WriteScan PROVE WriteSpan'
<1> SUFFICES ASSUME pc' = "w_copy"
             PROVE  /\ n' >= 1 /\ n' + Used(tx_in', tx_out') <= BUF_LEN - 1
                    /\ tx_in' + n' <= BUF_LEN
  BY DEF WriteScan, WriteSpan
<1>1. /\ tx_in' = tx_in /\ tx_out' = tx_out
      /\ n' = Least(Writable(tx_out), left) /\ n' > 0
  BY DEF WriteScan
<1>2. Used(tx_in, tx_out) = IF tx_in >= tx_out THEN tx_in - tx_out
                            ELSE tx_in - tx_out + BUF_LEN
  BY RingUsed DEF TypeRings
<1>3. tx_in \in 0 .. BUF_LEN - 1 /\ tx_out \in 0 .. BUF_LEN - 1 /\ left \in Nat
  BY DEF TypeRings, TypeProgram, Slots
<1> QED
  BY <1>1, <1>2, <1>3 DEF Least, Writable

\* The copy leaves the next characters of the stream behind the contents.
LEMMA WriteCopySpan ==
  ASSUME IInv, SpanInv, WriteCopy PROVE WriteSpan'
<1>1. UNCHANGED <<tx_in, tx_out, n, written>> /\ pc = "w_copy"
  BY DEF WriteCopy
<1>2. n >= 1 /\ n + Used(tx_in, tx_out) <= BUF_LEN - 1 /\ tx_in + n <= BUF_LEN
  BY <1>1 DEF SpanInv, WriteSpan
<1>3. ASSUME NEW i \in 0 .. n - 1 PROVE tx_buf'[tx_in + i] = (written + i) % Chars
  <2>1. /\ tx_in + i \in Slots /\ tx_in + i \in tx_in .. tx_in + n - 1
        /\ written + (tx_in + i) - tx_in = written + i
    BY <1>2, <1>3 DEF TypeRings, TypeProgram, TypeStreams, Slots, Char
  <2>2. tx_buf' = [j \in Slots |-> IF j \in tx_in .. tx_in + n - 1
                                   THEN (written + j - tx_in) % Chars ELSE tx_buf[j]]
    BY DEF WriteCopy
  <2> QED
    BY <2>1, <2>2
<1> QED
  BY <1>1, <1>2, <1>3 DEF WriteSpan

\* The steps of the program keep SpanInv.
LEMMA ProgramSpan ==
  ASSUME IInv, SpanInv, Program PROVE SpanInv'
<1>1. UNCHANGED <<space, tx_fifo>>
  BY DEF Program, ReadScan, ReadCopy, ReadAdvance, ReadSpin, ReadCheck, ReadDone,
     WriteScan, WriteCopy, WriteAdvance, WriteKick, WriteSpin, WriteCheck, CloseWait
<1>2. CASE ReadScan
  <2>1. pc' \notin {"w_copy", "w_advance"}
    BY <1>2 DEF ReadScan
  <2> QED
    BY <1>1, <1>2, <2>1, ReadScanSpan, SpanFrames DEF SpanInv
<1>3. CASE ReadCopy
  <2>1. ReadSpan' /\ pc' \notin {"w_copy", "w_advance"}
    BY <1>3 DEF ReadCopy, ReadSpan, SpanInv
  <2> QED
    BY <1>1, <2>1, SpanFrames DEF SpanInv
<1>4. CASE WriteScan
  <2>1. pc' \notin {"r_copy", "r_advance"}
    BY <1>4 DEF WriteScan
  <2> QED
    BY <1>1, <1>4, <2>1, WriteScanSpan, SpanFrames DEF SpanInv
<1>5. CASE WriteCopy
  <2>1. pc' \notin {"r_copy", "r_advance"}
    BY <1>5 DEF WriteCopy
  <2> QED
    BY <1>1, <1>5, <2>1, WriteCopySpan, SpanFrames DEF SpanInv
<1>6. CASE ReadAdvance \/ ReadSpin \/ ReadCheck \/ ReadDone \/ WriteAdvance \/ WriteKick
             \/ WriteSpin \/ WriteCheck \/ CloseWait
  <2>1. pc' \notin {"r_copy", "r_advance", "w_copy", "w_advance"}
    BY <1>6 DEF ReadAdvance, ReadSpin, ReadCheck, ReadDone, WriteAdvance, WriteKick,
       WriteSpin, WriteCheck, CloseWait, Return
  <2> QED
    BY <1>1, <2>1, SpanFrames DEF SpanInv
<1> QED
  BY <1>2, <1>3, <1>4, <1>5, <1>6 DEF Program

\* SpanInv holds initially.
LEMMA InitSpan == Init => SpanInv
  BY DEF Init, SpanInv, ReadSpan, WriteSpan, FifoSpan

\* SpanInv is inductive relative to IInv.
LEMMA NextSpan ==
  ASSUME IInv, SpanInv, [Next]_vars PROVE SpanInv'
<1>1. CASE UNCHANGED vars
  BY <1>1, SpanFrames DEF vars, SpanInv
<1> QED
  BY <1>1, HostSpan, RoutineSpan, CallsSpan, ProgramSpan DEF Next
-----------------------------------------------------------------------------
\* What is on its way in each direction.
LEMMA Shapes ==
  ASSUME IInv, SpanInv
  PROVE  /\ Contents(rx_buf, rx_in, rx_out) \in Seq(Char)
         /\ Len(Contents(rx_buf, rx_in, rx_out)) = Used(rx_in, rx_out)
         /\ Used(rx_in, rx_out) \in 0 .. BUF_LEN - 1
         /\ Copied \in 0 .. Used(rx_in, rx_out)
         /\ (rx_out + Copied) % BUF_LEN \in Slots
         /\ Used(rx_in, (rx_out + Copied) % BUF_LEN) = Used(rx_in, rx_out) - Copied
         /\ Contents(tx_buf, tx_in, tx_out) \in Seq(Char)
         /\ Len(Contents(tx_buf, tx_in, tx_out)) = Used(tx_in, tx_out)
         /\ Used(tx_in, tx_out) \in 0 .. BUF_LEN - 1
<1>1. /\ rx_in \in Slots /\ rx_out \in Slots /\ rx_buf \in [Slots -> Char]
      /\ tx_in \in Slots /\ tx_out \in Slots /\ tx_buf \in [Slots -> Char]
  BY DEF TypeRings
<1>2. /\ Contents(rx_buf, rx_in, rx_out) \in Seq(Char)
      /\ Len(Contents(rx_buf, rx_in, rx_out)) = Used(rx_in, rx_out)
      /\ Contents(tx_buf, tx_in, tx_out) \in Seq(Char)
      /\ Len(Contents(tx_buf, tx_in, tx_out)) = Used(tx_in, tx_out)
  BY <1>1, RingContents
<1>3. Used(rx_in, rx_out) \in 0 .. BUF_LEN - 1 /\ Used(tx_in, tx_out) \in 0 .. BUF_LEN - 1
  BY <1>1, RingUsed
<1>4. Copied \in 0 .. Used(rx_in, rx_out)
  BY <1>3 DEF Copied, SpanInv, ReadSpan, TypeProgram
<1>5. Copied \in 0 .. BUF_LEN
  BY <1>3, <1>4
<1>6. (rx_out + Copied) % BUF_LEN \in Slots
  BY <1>1, <1>5, RingSlot
<1>7. Used(rx_in, (rx_out + Copied) % BUF_LEN) = Used(rx_in, rx_out) - Copied
  BY <1>1, <1>4, RingLess
<1> QED
  BY <1>2, <1>3, <1>4, <1>6, <1>7

\* The queue from the host is a sequence of characters, as long as its parts.
LEMMA RxShape ==
  ASSUME IInv, SpanInv
  PROVE  /\ Contents(rx_buf, rx_in, (rx_out + Copied) % BUF_LEN) \in Seq(Char)
         /\ RxQueue \in Seq(Char)
         /\ Len(RxQueue) = Used(rx_in, rx_out) - Copied + Len(rx_fifo)
         /\ Len(rx_fifo) \in Nat
<1>1. /\ rx_in \in Slots /\ (rx_out + Copied) % BUF_LEN \in Slots
      /\ rx_buf \in [Slots -> Char]
      /\ rx_fifo \in Seq(Char)
  BY Shapes DEF TypeRings, TypeDevice
<1> DEFINE o == (rx_out + Copied) % BUF_LEN
           c == Contents(rx_buf, rx_in, o)
<1>2. c \in Seq(Char) /\ Len(c) = Used(rx_in, rx_out) - Copied
  BY <1>1, Shapes, RingContents
<1> HIDE DEF c
<1>3. c \o rx_fifo \in Seq(Char) /\ Len(c \o rx_fifo) = Len(c) + Len(rx_fifo)
  BY <1>1, <1>2, Joined
<1> QED
  BY <1>1, <1>2, <1>3 DEF c, RxQueue

\* The queue to the host is a sequence of characters, as long as its parts.
LEMMA TxShape ==
  ASSUME IInv, SpanInv
  PROVE  /\ TxQueue \in Seq(Char)
         /\ Len(TxQueue) = Len(tx_fifo) + Used(tx_in, tx_out)
         /\ Len(tx_fifo) \in Nat
<1> DEFINE c == Contents(tx_buf, tx_in, tx_out)
<1>1. c \in Seq(Char) /\ Len(c) = Used(tx_in, tx_out) /\ tx_fifo \in Seq(Char)
  BY Shapes DEF TypeDevice
<1> HIDE DEF c
<1>2. tx_fifo \o c \in Seq(Char) /\ Len(tx_fifo \o c) = Len(tx_fifo) + Len(c)
  BY <1>1, Joined
<1> QED
  BY <1>1, <1>2 DEF c, TxQueue

\* Where nothing is copied the queue is the ring and the FIFO.
LEMMA Uncopied ==
  ASSUME NEW out \in Slots
  PROVE  (out + 0) % BUF_LEN = out
<1>1. 0 \in 0 .. BUF_LEN /\ out + 0 = out /\ out < BUF_LEN /\ out \in Nat
  BY DEF Slots
<1> QED
  BY <1>1, RingSlot

\* A step that leaves the ring, the FIFO and the copied part alone leaves the
\* queue from the host alone.
LEMMA RxStays ==
  ASSUME UNCHANGED <<rx_fifo, rx_buf, rx_in, rx_out>>, Copied' = Copied
  PROVE  RxQueue' = RxQueue
<1>1. rx_fifo' = rx_fifo /\ rx_buf' = rx_buf /\ rx_in' = rx_in /\ rx_out' = rx_out
  OBVIOUS
<1> QED
  BY <1>1, Zenon DEF RxQueue

\* A character is typed.
LEMMA TypeStep ==
  ASSUME IInv, SpanInv, Type PROVE Rx!Put
<1>1. /\ UNCHANGED <<rx_buf, rx_in, rx_out, pc, n, user>>
      /\ Len(rx_fifo) < DEPTH
      /\ rx_fifo' = Append(rx_fifo, typed) /\ typed' = (typed + 1) % Chars
  BY DEF Type
<1> DEFINE c == Contents(rx_buf, rx_in, (rx_out + Copied) % BUF_LEN)
           s == [i \in 1 .. 1 |-> (typed + i - 1) % Chars]
<1>2. c \in Seq(Char) /\ rx_fifo \in Seq(Char) /\ typed \in Char
  BY RxShape DEF TypeDevice, TypeStreams
<1>3. RxQueue = c \o rx_fifo /\ RxQueue' = c \o Append(rx_fifo, typed)
  BY <1>1 DEF RxQueue, Copied
<1>4. <<typed>> = s
  <2>1. \A i \in 1 .. 1 : (typed + i - 1) % Chars = typed
    <3>1. typed \in 0 .. Chars - 1
      BY <1>2 DEF Char
    <3> QED
      BY <3>1
  <2>2. s \in Seq(Char) /\ Len(s) = 1 /\ s[1] = typed
    <3>1. s \in [1 .. 1 -> Char] /\ s[1] = typed
      BY <1>2, <2>1
    <3>2. 1 \in Nat
      OBVIOUS
    <3>3. s \in Seq(Char) /\ DOMAIN s = 1 .. 1
      BY <3>1, <3>2 DEF s
    <3> HIDE DEF s
    <3> QED
      BY <3>1, <3>3
  <2> DEFINE q == <<typed>>
  <2>3. q \in Seq(Char) /\ Len(q) = 1 /\ q[1] = typed
    BY <1>2, Single
  <2> HIDE DEF q, s
  <2>4. \A i \in 1 .. Len(s) : s[i] = q[i]
    BY <2>2, <2>3
  <2>5. q = s
    BY <2>2, <2>3, <2>4, SeqEqual
  <2> QED
    BY <2>5 DEF q
<1> HIDE DEF c, s
<1>5. c \o Append(rx_fifo, typed) = (c \o rx_fifo) \o s
  <2>1. Append(rx_fifo, typed) = rx_fifo \o <<typed>> /\ <<typed>> \in Seq(Char)
    BY <1>2, Single
  <2>2. c \o (rx_fifo \o <<typed>>) = (c \o rx_fifo) \o <<typed>>
    BY <1>2, <2>1, ConcatAssociative
  <2> QED
    BY <1>4, <2>1, <2>2, Zenon
<1>6. RxQueue' = RxQueue \o s
  BY <1>3, <1>5, Zenon
<1>7. 1 \in 1 .. BUF_LEN - 1 + DEPTH - Len(RxQueue)
  <2>1. Len(rx_fifo) < DEPTH /\ Len(rx_fifo) \in Nat /\ DEPTH \in Nat
    BY <1>1, <1>2, Sizes
  <2> DEFINE l == Len(RxQueue)
             f == Len(rx_fifo)
             u == Used(rx_in, rx_out)
  <2>2. u \in 0 .. BUF_LEN - 1 /\ Copied \in 0 .. u
    BY Shapes
  <2>3. l = u - Copied + f
    BY RxShape
  <2>4. f < DEPTH /\ f \in Nat /\ DEPTH \in Nat /\ BUF_LEN \in Nat
    BY <2>1, Sizes
  <2> DEFINE k == Copied
  <2>5. k \in 0 .. u /\ l = u - k + f
    BY <2>2, <2>3
  <2>6. u \in 0 .. BUF_LEN - 1
    BY <2>2
  <2> HIDE DEF l, f, u, k
  <2>7. 1 \in 1 .. BUF_LEN - 1 + DEPTH - l
    BY ONLY <2>4, <2>5, <2>6
  <2> QED
    BY <2>7 DEF l
<1>8. typed' = (typed + 1) % Chars /\ UNCHANGED user
  BY <1>1
<1> QED
  BY <1>6, <1>7, <1>8 DEF Rx!Put, s

\* A character enters a ring.
LEMMA RingEnter ==
  ASSUME NEW buf \in [Slots -> Char], NEW in \in Slots, NEW out \in Slots, NEW h \in Char,
         Used(Follows(in), out) = Used(in, out) + 1
  PROVE  Contents([buf EXCEPT ![in] = h], Follows(in), out) = Contents(buf, in, out) \o <<h>>
<1> DEFINE buf2 == [buf EXCEPT ![in] = h]
           in2 == Follows(in)
           u == Used(in, out)
           s == <<h>>
<1>1. buf2 \in [Slots -> Char] /\ in2 \in Slots
  BY NextSlot
<1>2. u = (IF in >= out THEN in - out ELSE in - out + BUF_LEN) /\ u \in 0 .. BUF_LEN - 1
  BY RingUsed
<1>3. Slot(out, u + 1) = in
  <2> HIDE DEF u
  <2> QED
    BY <1>2 DEF Slot, Slots
<1>4. ASSUME NEW i \in 1 .. u PROVE buf2[Slot(out, i)] = buf[Slot(out, i)]
  <2>1. Slot(out, i) \in Slots /\ Slot(out, i) # in
    <3> HIDE DEF u
    <3> QED
      BY <1>2 DEF Slot, Slots
  <2> QED
    BY <2>1
<1>5. s \in Seq(Char) /\ Len(s) = 1 /\ s[1] = h
  BY Single
<1>6. buf2[in] = h
  OBVIOUS
<1>7. Used(in2, out) = Used(in, out) + Len(s)
  BY <1>5
<1> HIDE DEF buf2, in2, s
<1>8. \A i \in 1 .. Len(s) : buf2[Slot(out, Used(in, out) + i)] = s[i]
  BY <1>3, <1>5, <1>6
<1>9. \A i \in 1 .. Used(in, out) : buf2[Slot(out, i)] = buf[Slot(out, i)]
  BY <1>4
<1>10. s \in Seq(Char)
  BY <1>5
<1>11. Contents(buf2, in2, out) = Contents(buf, in, out) \o s
  <2>1. Takes(buf, in, out, buf2, in2, s)
    BY <1>1, <1>7, <1>8, <1>9, <1>10 DEF Takes
  <2> QED
    BY <2>1, RingMore
<1> QED
  BY <1>11 DEF buf2, in2, s

\* The routine takes a character from the FIFO to the ring.
LEMMA TakeStep ==
  ASSUME IInv, SpanInv, TakeData PROVE RxQueue' = RxQueue
<1>0. UNCHANGED <<pc, n, rx_out>>
  BY DEF TakeData
<1>1. CASE rx_fifo = <<>>
  BY <1>0, <1>1, RxStays DEF TakeData, Copied
<1>2. CASE rx_fifo # <<>>
  <2> DEFINE o == (rx_out + Copied) % BUF_LEN
             c == Contents(rx_buf, rx_in, o)
             h == rx_fifo[1]
  <2>1. /\ rx_in \in Slots /\ o \in Slots /\ rx_buf \in [Slots -> Char]
        /\ rx_fifo \in Seq(Char) /\ rx_out \in Slots
    BY Shapes DEF TypeRings, TypeDevice
  <2>2. /\ h \in Char /\ Head(rx_fifo) = h
        /\ Tail(rx_fifo) = SubSeq(rx_fifo, 2, Len(rx_fifo))
    BY <1>2, <2>1, FirstRest
  <2>3. /\ rx_fifo' = SubSeq(rx_fifo, 2, Len(rx_fifo))
        /\ rx_buf' = [rx_buf EXCEPT ![rx_in] = h]
        /\ rx_in' = Follows(rx_in) /\ Follows(rx_in) # rx_out
    BY <1>2, <2>2 DEF TakeData, RingFull
  <2>4. Follows(rx_in) \in Slots /\ rx_buf' \in [Slots -> Char]
    BY <2>1, <2>2, <2>3, NextSlot
  <2>u. Used(rx_in, o) \in Nat /\ o = (rx_out + Copied) % BUF_LEN
    BY <2>1, RingUsed
  <2>5. Used(rx_in', o) = Used(rx_in, o) + 1
    <3>1. Used(rx_in, o) = Used(rx_in, rx_out) - Copied
      BY Shapes
    <3>2. Used(Follows(rx_in), rx_out) = Used(rx_in, rx_out) + 1
      BY <2>1, <2>3, RingGrows
    <3>3. Used(Follows(rx_in), rx_out) \in 0 .. BUF_LEN - 1
      BY <2>1, <2>4, RingUsed
    <3>4. Copied \in 0 .. Used(Follows(rx_in), rx_out) /\ Copied \in Nat
          /\ Used(rx_in, rx_out) \in Nat
      BY <3>2, Shapes
    <3>5. Used(Follows(rx_in), o) = Used(Follows(rx_in), rx_out) - Copied
      BY <2>1, <2>4, <3>4, RingLess
    <3> QED
      BY <2>3, <3>1, <3>2, <3>4, <3>5
  <2>9. Contents(rx_buf', rx_in', o) = c \o <<h>>
    <3>1. rx_buf' \in [Slots -> Char] /\ rx_in' \in Slots
      BY <2>3, <2>4
    <3> HIDE DEF o, h
    <3> QED
      <4>1. Used(Follows(rx_in), o) = Used(rx_in, o) + 1
        BY <2>3, <2>5
      <4>2. o \in Slots /\ h \in Char /\ rx_in \in Slots /\ rx_buf \in [Slots -> Char]
        BY <2>1, <2>2
      <4>3. Contents([rx_buf EXCEPT ![rx_in] = h], Follows(rx_in), o)
              = Contents(rx_buf, rx_in, o) \o <<h>>
        BY ONLY <4>1, <4>2, RingEnter, Zenon
      <4> QED
        BY <2>3, <4>3, Zenon DEF c
  <2>10. c \in Seq(Char) /\ Append(c, h) = c \o <<h>>
    <3>1. c \in Seq(Char)
      BY RxShape
    <3> HIDE DEF c, h
    <3> QED
      BY <2>2, <3>1, Single
  <2>11. RxQueue' = (c \o <<h>>) \o SubSeq(rx_fifo, 2, Len(rx_fifo))
    BY <1>0, <2>3, <2>9 DEF RxQueue, Copied
  <2>12. Append(c, h) \o SubSeq(rx_fifo, 2, Len(rx_fifo)) = c \o rx_fifo
    <3> HIDE DEF c
    <3> QED
      BY <1>2, <2>1, <2>10, MoveOne
  <2>13. RxQueue = c \o rx_fifo
    BY DEF RxQueue
  <2> HIDE DEF c, h, o
  <2> QED
    BY <2>10, <2>11, <2>12, <2>13, Zenon
<1> QED
  BY <1>1, <1>2

\* The program copies from the ring: from then on the characters are with the
\* caller.
LEMMA ReadCopyStep ==
  ASSUME IInv, SpanInv, ReadCopy PROVE Rx!Get
<1> DEFINE c == Contents(rx_buf, rx_in, rx_out)
           s == [i \in 1 .. n |-> rx_buf[rx_out + i - 1]]
<1>1. /\ pc = "r_copy" /\ pc' = "r_advance"
      /\ UNCHANGED <<rx_buf, rx_in, rx_out, rx_fifo, n, typed>>
      /\ user' = user \o s
  BY DEF ReadCopy
<1>2. /\ c \in Seq(Char) /\ Len(c) = Used(rx_in, rx_out) /\ rx_fifo \in Seq(Char)
      /\ Len(c) \in Nat /\ n \in Nat /\ n >= 1 /\ n <= Len(c) /\ rx_out + n <= BUF_LEN
      /\ rx_out \in Slots /\ rx_in \in Slots /\ rx_buf \in [Slots -> Char]
  BY <1>1, Shapes DEF TypeRings, TypeDevice, TypeProgram, SpanInv, ReadSpan
<1>3. RxQueue = c \o rx_fifo
  BY <1>1, <1>2, Uncopied DEF RxQueue, Copied
<1>4. RxQueue' = SubSeq(c, n + 1, Len(c)) \o rx_fifo
  <2>1. n \in 0 .. Used(rx_in, rx_out)
    BY <1>2
  <2>2. Contents(rx_buf, rx_in, (rx_out + n) % BUF_LEN) = SubSeq(c, n + 1, Len(c))
    BY <1>2, <2>1, RingLess
  <2>3. RxQueue' = Contents(rx_buf, rx_in, (rx_out + n) % BUF_LEN) \o rx_fifo
    BY <1>1 DEF RxQueue, Copied
  <2> HIDE DEF c
  <2> QED
    BY <2>2, <2>3, Zenon
<1>5. s = SubSeq(c, 1, n)
  <2>1. ASSUME NEW i \in 1 .. n
        PROVE  rx_out + i - 1 \in Slots /\ Slot(rx_out, i) = rx_out + i - 1
                                      /\ c[i] = rx_buf[rx_out + i - 1]
    <3>1. rx_out + i - 1 \in Slots /\ Slot(rx_out, i) = rx_out + i - 1
          /\ i \in 1 .. Used(rx_in, rx_out)
      BY <1>2 DEF Slot, Slots
    <3>2. c[i] = rx_buf[Slot(rx_out, i)]
      BY ONLY <1>2, <3>1, RingContents
    <3> QED
      BY <3>1, <3>2
  <2>2. s \in Seq(Char) /\ Len(s) = n /\ \A i \in 1 .. n : s[i] = rx_buf[rx_out + i - 1]
    <3>1. s \in [1 .. n -> Char]
      BY <1>2, <2>1
    <3> QED
      BY <1>2, <3>1
  <2>3. n \in 0 .. Len(c)
    BY <1>2
  <2> HIDE DEF c, s
  <2>4. /\ SubSeq(c, 1, n) \in Seq(Char) /\ Len(SubSeq(c, 1, n)) = n
        /\ \A i \in 1 .. n : SubSeq(c, 1, n)[i] = c[i]
    BY <1>2, <2>3, Cut
  <2>5. \A i \in 1 .. n : s[i] = SubSeq(c, 1, n)[i]
    BY <2>1, <2>2, <2>4
  <2> QED
    BY <2>2, <2>4, <2>5, SeqEqual
<1> HIDE DEF c, s
<1>6. /\ SubSeq(c \o rx_fifo, n + 1, Len(c \o rx_fifo)) = SubSeq(c, n + 1, Len(c)) \o rx_fifo
      /\ SubSeq(c \o rx_fifo, 1, n) = SubSeq(c, 1, n)
  <2>1. n \in 0 .. Len(c)
    BY <1>2
  <2> QED
    BY <1>2, <2>1, CutFront
<1>7. RxQueue' = SubSeq(RxQueue, n + 1, Len(RxQueue))
  BY <1>3, <1>4, <1>6, Zenon
<1>8. user' = user \o SubSeq(RxQueue, 1, n)
  BY <1>1, <1>3, <1>5, <1>6, Zenon
<1>9. n \in 0 .. Len(RxQueue)
  <2>1. Len(RxQueue) = Len(c) + Len(rx_fifo) /\ Len(rx_fifo) \in Nat
    BY <1>1, <1>2, RxShape DEF Copied
  <2> QED
    BY <1>2, <2>1
<1>10. user' \in {kept \o SubSeq(RxQueue, 1, n) : kept \in {user, <<>>}}
  BY <1>8
<1>11. UNCHANGED typed
  BY <1>1
<1> QED
  BY <1>7, <1>9, <1>10, <1>11 DEF Rx!Get

\* A call returns and forgets what was read; everything else stays.
LEMMA ReturnStep ==
  ASSUME IInv, SpanInv, RxQueue' = RxQueue, typed' = typed, user' = <<>> PROVE Rx!Get
<1>1. RxQueue \in Seq(Char) /\ Len(RxQueue) \in Nat
  BY RxShape
<1>2. SubSeq(RxQueue, 0 + 1, Len(RxQueue)) = RxQueue
  BY <1>1, SubSeqFull
<1>3. SubSeq(RxQueue, 1, 0) = <<>>
  BY SubSeqEmpty
<1>4. <<>> \o SubSeq(RxQueue, 1, 0) = <<>>
  <2>1. <<>> \o <<>> = <<>>
    BY ConcatEmptySeq, Empty
  <2> QED
    BY <1>3, <2>1, Zenon
<1>5. user' \in {kept \o SubSeq(RxQueue, 1, 0) : kept \in {user, <<>>}}
  BY <1>4
<1>6. 0 \in 0 .. Len(RxQueue) /\ RxQueue' = SubSeq(RxQueue, 0 + 1, Len(RxQueue))
  BY <1>1, <1>2
<1> QED
  BY <1>5, <1>6 DEF Rx!Get

\* The ring is advanced over what has been copied.
LEMMA ReadAdvanceStep ==
  ASSUME IInv, SpanInv, ReadAdvance PROVE RxQueue' = RxQueue
<1>1. /\ pc = "r_advance" /\ pc' # "r_advance"
      /\ UNCHANGED <<rx_buf, rx_in, rx_fifo>> /\ rx_out' = (rx_out + n) % BUF_LEN
  BY DEF ReadAdvance
<1>2. Copied = n /\ Copied' = 0
  BY <1>1 DEF Copied
<1>3. (rx_out + n) % BUF_LEN \in Slots
  BY <1>2, Shapes
<1>4. (rx_out' + Copied') % BUF_LEN = (rx_out + Copied) % BUF_LEN
  <2>1. rx_out' \in Slots /\ rx_out' = (rx_out + Copied) % BUF_LEN
    BY <1>1, <1>2, <1>3
  <2>2. (rx_out' + 0) % BUF_LEN = rx_out'
    BY <2>1, Uncopied
  <2> QED
    BY <1>2, <2>1, <2>2, Zenon
<1> QED
  BY <1>1, <1>4, Zenon DEF RxQueue

\* Every step is one of the channel from the host to the program.
LEMMA RxStep ==
  ASSUME IInv, SpanInv, [Next]_vars PROVE [Rx!Next]_<<RxQueue, typed, user>>
<1>1. CASE Type
  BY <1>1, TypeStep DEF Rx!Next
<1>2. CASE TakeData
  <2>1. typed' = typed /\ user' = user
    BY <1>2 DEF TakeData
  <2> QED
    BY <1>2, <2>1, TakeStep
<1>3. CASE ReadCopy
  BY <1>3, ReadCopyStep DEF Rx!Next
<1>4. CASE ReadAdvance
  <2>1. typed' = typed /\ user' = user
    BY <1>4 DEF ReadAdvance
  <2> QED
    BY <1>4, <2>1, ReadAdvanceStep
<1>5. CASE Pause \/ Drain \/ Plug \/ Interrupt \/ Control \/ CountData \/ StopReading
             \/ ReadEnd \/ PutData \/ WriteEnd \/ Timeout \/ UNCHANGED vars
  <2>1. UNCHANGED <<rx_fifo, rx_buf, rx_in, rx_out, pc, n, typed, user>>
    BY <1>5 DEF Pause, Drain, Plug, Interrupt, Control, CountData, StopReading, ReadEnd,
       PutData, WriteEnd, Timeout, vars
  <2>2. Copied' = Copied
    BY <2>1 DEF Copied
  <2> QED
    BY <2>1, <2>2, RxStays
<1>6. CASE Calls \/ (Program /\ ~ReadCopy /\ ~ReadAdvance)
  <2>1. UNCHANGED <<rx_fifo, rx_buf, rx_in, rx_out, typed>>
    BY <1>6 DEF Calls, Read, Write, Close, SetTimeout, Program, ReadScan, ReadSpin,
       ReadCheck, ReadDone, WriteScan, WriteCopy, WriteAdvance, WriteKick, WriteSpin,
       WriteCheck, CloseWait
  <2>2. pc # "r_advance" /\ pc' # "r_advance"
    BY <1>6 DEF Calls, Read, Write, Close, SetTimeout, Program, ReadScan, ReadSpin,
       ReadCheck, ReadDone, WriteScan, WriteCopy, WriteAdvance, WriteKick, WriteSpin,
       WriteCheck, CloseWait, Return
  <2>3. user' = user \/ user' = <<>>
    BY <1>6 DEF Calls, Read, Write, Close, SetTimeout, Program, ReadScan, ReadSpin,
       ReadCheck, ReadDone, WriteScan, WriteCopy, WriteAdvance, WriteKick, WriteSpin,
       WriteCheck, CloseWait, Return
  <2>4. Copied' = Copied
    BY <2>2 DEF Copied
  <2>5. RxQueue' = RxQueue /\ typed' = typed
    BY <2>1, <2>4, RxStays
  <2> QED
    BY <2>3, <2>5, ReturnStep DEF Rx!Next
<1> QED
  BY <1>1, <1>2, <1>3, <1>4, <1>5, <1>6 DEF Next, Host, Routine, Program

\* The host takes a character.
LEMMA DrainStep ==
  ASSUME IInv, SpanInv, Drain PROVE Tx!Get
<1> DEFINE c == Contents(tx_buf, tx_in, tx_out)
           h == tx_fifo[1]
<1>1. /\ tx_fifo # <<>> /\ tx_fifo' = Tail(tx_fifo) /\ host' = <<Head(tx_fifo)>>
      /\ UNCHANGED <<tx_buf, tx_in, tx_out, written>>
  BY DEF Drain
<1>2. tx_fifo \in Seq(Char) /\ c \in Seq(Char)
  BY Shapes DEF TypeDevice
<1>3. /\ Len(tx_fifo) >= 1 /\ Tail(tx_fifo) = SubSeq(tx_fifo, 2, Len(tx_fifo))
      /\ Head(tx_fifo) = h /\ h \in Char /\ SubSeq(tx_fifo, 1, 1) = <<h>>
  BY <1>1, <1>2, FirstRest
<1>4. TxQueue = tx_fifo \o c /\ TxQueue' = SubSeq(tx_fifo, 2, Len(tx_fifo)) \o c
  BY <1>1, <1>3 DEF TxQueue
<1> HIDE DEF c, h
<1>5. /\ SubSeq(tx_fifo \o c, 1 + 1, Len(tx_fifo \o c))
           = SubSeq(tx_fifo, 1 + 1, Len(tx_fifo)) \o c
      /\ SubSeq(tx_fifo \o c, 1, 1) = SubSeq(tx_fifo, 1, 1)
  <2>1. 1 \in 0 .. Len(tx_fifo)
    BY <1>2, <1>3
  <2> QED
    BY <1>2, <2>1, CutFront
<1>6. TxQueue' = SubSeq(TxQueue, 1 + 1, Len(TxQueue))
  <2>1. 1 + 1 = 2
    OBVIOUS
  <2> QED
    BY <1>4, <1>5, <2>1, Zenon
<1>7. host' = <<>> \o SubSeq(TxQueue, 1, 1)
  <2>1. host' = <<h>> /\ SubSeq(TxQueue, 1, 1) = <<h>>
    BY <1>1, <1>3, <1>4, <1>5, Zenon
  <2>2. <<h>> \in Seq(Char)
    BY <1>3, Empty, Single
  <2>3. <<>> \o <<h>> = <<h>>
    BY <2>2, ConcatEmptySeq
  <2> QED
    BY <2>1, <2>3, Zenon
<1>8. host' \in {kept \o SubSeq(TxQueue, 1, 1) : kept \in {host, <<>>}}
  BY <1>7
<1>9. 1 \in 0 .. Len(TxQueue) /\ UNCHANGED written
  BY <1>1, <1>3, TxShape, Shapes
<1> QED
  BY <1>6, <1>8, <1>9 DEF Tx!Get

\* The routine takes a character from the ring to the FIFO, which has space.
LEMMA PutStep ==
  ASSUME IInv, SpanInv, PutData PROVE TxQueue' = TxQueue
<1> DEFINE c == Contents(tx_buf, tx_in, tx_out)
<1>0. /\ tx_out # tx_in /\ space > 0 /\ UNCHANGED <<tx_buf, tx_in>>
      /\ tx_out' = Follows(tx_out)
      /\ tx_fifo' = IF Len(tx_fifo) < DEPTH THEN Append(tx_fifo, tx_buf[tx_out]) ELSE tx_fifo
  BY DEF PutData
<1>1. /\ tx_fifo \in Seq(Char) /\ tx_in \in Slots /\ tx_out \in Slots
      /\ tx_buf \in [Slots -> Char] /\ c \in Seq(Char) /\ Len(c) = Used(tx_in, tx_out)
      /\ Len(c) \in Nat
  BY Shapes DEF TypeDevice, TypeRings
<1>2. Len(tx_fifo) < DEPTH
  BY <1>0, <1>1 DEF SpanInv, FifoSpan, TypeRoutine
<1>3. Len(c) >= 1
  <2>1. Used(tx_in, tx_out) = IF tx_in >= tx_out THEN tx_in - tx_out
                              ELSE tx_in - tx_out + BUF_LEN
    BY <1>1, RingUsed
  <2>2. tx_in \in 0 .. BUF_LEN - 1 /\ tx_out \in 0 .. BUF_LEN - 1
    BY <1>1 DEF Slots
  <2>3. Used(tx_in, tx_out) >= 1
    BY <1>0, <2>1, <2>2
  <2>4. Len(c) = Used(tx_in, tx_out)
    BY <1>1
  <2> QED
    BY <2>3, <2>4
<1>4. c[1] = tx_buf[tx_out] /\ c # <<>>
  <2>1. 1 \in 1 .. Used(tx_in, tx_out) /\ Slot(tx_out, 1) = tx_out
    BY <1>1, <1>3 DEF Slot, Slots
  <2>2. c[1] = tx_buf[tx_out]
    BY <1>1, <2>1, RingContents
  <2>3. Len(<<>>) = 0
    OBVIOUS
  <2> QED
    BY <1>3, <2>2, <2>3
<1>5. Contents(tx_buf, tx_in, Follows(tx_out)) = SubSeq(c, 2, Len(c))
  <2>1. 1 \in 0 .. Used(tx_in, tx_out)
    BY <1>1, <1>3
  <2>2. Contents(tx_buf, tx_in, (tx_out + 1) % BUF_LEN)
          = SubSeq(c, 1 + 1, Used(tx_in, tx_out))
    BY <1>1, <2>1, RingLess
  <2>3. 1 + 1 = 2 /\ Used(tx_in, tx_out) = Len(c)
    BY <1>1
  <2> HIDE DEF c
  <2> QED
    BY <2>2, <2>3, Zenon DEF Follows
<1>6. TxQueue = tx_fifo \o c
      /\ TxQueue' = Append(tx_fifo, tx_buf[tx_out]) \o Contents(tx_buf, tx_in, Follows(tx_out))
  BY <1>0, <1>2 DEF TxQueue
<1> HIDE DEF c
<1>7. Append(tx_fifo, c[1]) \o SubSeq(c, 2, Len(c)) = tx_fifo \o c
  BY <1>1, <1>4, MoveOne
<1> QED
  BY <1>4, <1>5, <1>6, <1>7, Zenon

\* The program copies to free slots: nothing is on its way yet.
LEMMA WriteCopyStep ==
  ASSUME IInv, IInv', SpanInv, WriteCopy PROVE TxQueue' = TxQueue
<1>1. pc = "w_copy" /\ UNCHANGED <<tx_fifo, tx_in, tx_out>>
  BY DEF WriteCopy
<1>2. /\ tx_in \in Slots /\ tx_out \in Slots /\ tx_buf \in [Slots -> Char]
      /\ tx_buf' \in [Slots -> Char] /\ n \in Nat
      /\ n >= 1 /\ n + Used(tx_in, tx_out) <= BUF_LEN - 1 /\ tx_in + n <= BUF_LEN
  BY <1>1 DEF TypeRings, TypeProgram, SpanInv, WriteSpan
<1>3. /\ Used(tx_in, tx_out) = IF tx_in >= tx_out THEN tx_in - tx_out
                               ELSE tx_in - tx_out + BUF_LEN
      /\ Used(tx_in, tx_out) \in Nat
  BY <1>2, RingUsed
<1>4. ASSUME NEW i \in 1 .. Used(tx_in, tx_out)
      PROVE  tx_buf'[Slot(tx_out, i)] = tx_buf[Slot(tx_out, i)]
  <2>1. Slot(tx_out, i) \in Slots /\ Slot(tx_out, i) \notin tx_in .. tx_in + n - 1
    BY <1>2, <1>3 DEF Slot, Slots
  <2>2. tx_buf' = [j \in Slots |-> IF j \in tx_in .. tx_in + n - 1
                                   THEN (written + j - tx_in) % Chars ELSE tx_buf[j]]
    BY DEF WriteCopy
  <2> QED
    BY <2>1, <2>2
<1>5. Contents(tx_buf', tx_in, tx_out) = Contents(tx_buf, tx_in, tx_out)
  <2>1. <<>> \in Seq(Char) /\ Len(<<>>) = 0
    BY Empty
  <2>2. Used(tx_in, tx_out) = Used(tx_in, tx_out) + Len(<<>>)
    BY <1>3, <2>1
  <2> DEFINE e == <<>>
  <2>3. e \in Seq(Char) /\ Len(e) = 0
    BY <2>1
  <2> HIDE DEF e
  <2>4. Takes(tx_buf, tx_in, tx_out, tx_buf', tx_in, e)
    BY <1>2, <1>3, <1>4, <2>3 DEF Takes
  <2>5. Contents(tx_buf', tx_in, tx_out) = Contents(tx_buf, tx_in, tx_out) \o e
    BY <2>4, RingMore
  <2>6. Contents(tx_buf, tx_in, tx_out) \o <<>> = Contents(tx_buf, tx_in, tx_out)
    BY Shapes, ConcatEmptySeq
  <2> QED
    BY <2>5, <2>6, Zenon DEF e
<1> QED
  BY <1>1, <1>5, Zenon DEF TxQueue

\* The ring is advanced over what has been copied, which is now on its way.
LEMMA WriteAdvanceStep ==
  ASSUME IInv, SpanInv, WriteAdvance PROVE Tx!Put
<1> DEFINE c == Contents(tx_buf, tx_in, tx_out)
           s == [i \in 1 .. n |-> (written + i - 1) % Chars]
           in2 == (tx_in + n) % BUF_LEN
<1>1. /\ pc = "w_advance" /\ UNCHANGED <<tx_fifo, tx_out, tx_buf, host>>
      /\ tx_in' = in2 /\ written' = (written + n) % Chars
  BY DEF WriteAdvance
<1>2. /\ tx_in \in Slots /\ tx_out \in Slots /\ tx_buf \in [Slots -> Char]
      /\ n \in Nat /\ n >= 1 /\ n + Used(tx_in, tx_out) <= BUF_LEN - 1
      /\ tx_in + n <= BUF_LEN /\ n \in 0 .. BUF_LEN /\ written \in 0 .. Chars - 1
      /\ \A i \in 0 .. n - 1 : tx_buf[tx_in + i] = (written + i) % Chars
  BY <1>1 DEF TypeRings, TypeProgram, TypeStreams, SpanInv, WriteSpan, Char
<1>3. in2 \in Slots /\ in2 = IF tx_in + n < BUF_LEN THEN tx_in + n ELSE tx_in + n - BUF_LEN
  BY <1>2, RingSlot
<1>4. /\ Used(tx_in, tx_out) = IF tx_in >= tx_out THEN tx_in - tx_out
                               ELSE tx_in - tx_out + BUF_LEN
      /\ Used(tx_in, tx_out) \in 0 .. BUF_LEN - 1
      /\ Used(in2, tx_out) = IF in2 >= tx_out THEN in2 - tx_out ELSE in2 - tx_out + BUF_LEN
  BY <1>2, <1>3, RingUsed
<1>5. Used(in2, tx_out) = Used(tx_in, tx_out) + n
  <2> HIDE DEF in2
  <2> QED
    BY <1>2, <1>3, <1>4 DEF Slots
<1>6. s \in Seq(Char) /\ Len(s) = n /\ \A i \in 1 .. n : s[i] = (written + i - 1) % Chars
  <2>1. \A i \in 1 .. n : (written + i - 1) % Chars \in Char
    BY <1>2 DEF Char
  <2>2. s \in [1 .. n -> Char]
    BY <2>1
  <2> QED
    BY <1>2, <2>2
<1>7. ASSUME NEW i \in 1 .. n
      PROVE  tx_buf[Slot(tx_out, Used(tx_in, tx_out) + i)] = (written + i - 1) % Chars
  <2>1. Slot(tx_out, Used(tx_in, tx_out) + i) = tx_in + (i - 1) /\ i - 1 \in 0 .. n - 1
    BY <1>2, <1>4 DEF Slot, Slots
  <2>2. written + (i - 1) = written + i - 1
    BY <1>2
  <2> QED
    BY <1>2, <2>1, <2>2
<1>8. Contents(tx_buf, in2, tx_out) = c \o s
  <2> HIDE DEF in2, s
  <2>1. Takes(tx_buf, tx_in, tx_out, tx_buf, in2, s)
    BY <1>2, <1>3, <1>5, <1>6, <1>7 DEF Takes
  <2> QED
    BY <2>1, RingMore
<1>9. c \in Seq(Char) /\ tx_fifo \in Seq(Char)
  BY Shapes DEF TypeDevice
<1>10. TxQueue = tx_fifo \o c /\ TxQueue' = tx_fifo \o Contents(tx_buf, in2, tx_out)
  BY <1>1 DEF TxQueue
<1>11. n \in 1 .. BUF_LEN - 1 + DEPTH - Len(TxQueue)
  <2>1. Len(tx_fifo) <= DEPTH
    BY DEF TypeDevice
  <2> QED
    BY <1>2, <1>4, <2>1, TxShape
<1> HIDE DEF c, s, in2
<1>12. tx_fifo \o (c \o s) = (tx_fifo \o c) \o s
  <2>1. s \in Seq(Char)
    BY <1>6
  <2>2. c \in Seq(Char)
    BY <1>9
  <2>3. tx_fifo \in Seq(Char)
    BY <1>9
  <2> QED
    BY ONLY <2>1, <2>2, <2>3, JoinThree
<1>13. TxQueue' = TxQueue \o s
  BY <1>8, <1>10, <1>12, Zenon
<1> QED
  BY <1>1, <1>11, <1>13 DEF Tx!Put, s

\* Every step is one of the channel from the program to the host.
LEMMA TxStep ==
  ASSUME IInv, IInv', SpanInv, [Next]_vars PROVE [Tx!Next]_<<TxQueue, written, host>>
<1>1. CASE Drain
  BY <1>1, DrainStep DEF Tx!Next
<1>2. CASE PutData
  <2>1. written' = written /\ host' = host
    BY <1>2 DEF PutData
  <2> QED
    BY <1>2, <2>1, PutStep
<1>3. CASE WriteCopy
  <2>1. written' = written /\ host' = host
    BY <1>3 DEF WriteCopy
  <2> QED
    BY <1>3, <2>1, WriteCopyStep
<1>4. CASE WriteAdvance
  BY <1>4, WriteAdvanceStep DEF Tx!Next
<1>5. CASE Type \/ Pause \/ Plug \/ Interrupt \/ Control \/ TakeData \/ CountData
             \/ StopReading \/ ReadEnd \/ WriteEnd \/ Timeout \/ UNCHANGED vars
  <2>1. UNCHANGED <<tx_fifo, tx_buf, tx_in, tx_out, written, host>>
    BY <1>5 DEF Type, Pause, Plug, Interrupt, Control, TakeData, CountData, StopReading,
       ReadEnd, WriteEnd, Timeout, vars
  <2> QED
    BY <2>1 DEF TxQueue
<1>6. CASE Calls \/ (Program /\ ~WriteCopy /\ ~WriteAdvance)
  <2>1. UNCHANGED <<tx_fifo, tx_buf, tx_in, tx_out, written, host>>
    BY <1>6 DEF Calls, Read, Write, Close, SetTimeout, Program, ReadScan, ReadCopy,
       ReadAdvance, ReadSpin, ReadCheck, ReadDone, WriteScan, WriteKick, WriteSpin,
       WriteCheck, CloseWait
  <2> QED
    BY <2>1 DEF TxQueue
<1> QED
  BY <1>1, <1>2, <1>3, <1>4, <1>5, <1>6 DEF Next, Host, Routine, Program

\* Both directions are channels, for rings and FIFOs of every size and every
\* order in which the program, the routine and the host move: no character is
\* lost, doubled or overtaken, and the two buffers bound what is on its way.
THEOREM Refinement == Spec => Lossless
<1>1. Init => Rx!Init /\ Tx!Init
  <2> SUFFICES ASSUME Init PROVE Rx!Init /\ Tx!Init
    OBVIOUS
  <2>1. /\ rx_in = 0 /\ rx_out = 0 /\ tx_in = 0 /\ tx_out = 0 /\ pc = "idle"
        /\ rx_fifo = <<>> /\ tx_fifo = <<>> /\ user = <<>> /\ host = <<>>
        /\ typed = 0 /\ written = 0
    BY DEF Init
  <2>2. IInv /\ SpanInv
    BY InitInv, InitSpan
  <2>3. Used(0, 0) = 0 /\ 0 \in Slots
    BY RingUsed DEF Slots
  <2>4. Len(RxQueue) = 0 /\ RxQueue \in Seq(Char) /\ Len(TxQueue) = 0 /\ TxQueue \in Seq(Char)
    <3>1. Len(rx_fifo) = 0 /\ Len(tx_fifo) = 0 /\ Copied = 0
      BY <2>1 DEF Copied
    <3>2. Len(RxQueue) = Used(rx_in, rx_out) - Copied + Len(rx_fifo) /\ RxQueue \in Seq(Char)
      BY <2>2, RxShape
    <3>3. Len(TxQueue) = Len(tx_fifo) + Used(tx_in, tx_out) /\ TxQueue \in Seq(Char)
      BY <2>2, TxShape
    <3> QED
      BY <2>1, <2>3, <3>1, <3>2, <3>3
  <2>5. RxQueue = <<>> /\ TxQueue = <<>>
    BY <2>4, EmptySeq
  <2> QED
    BY <2>1, <2>5 DEF Rx!Init, Tx!Init
<1>2. Init => SpanInv
  BY InitSpan
<1> HIDE DEF IInv
<1>3. IInv /\ SpanInv /\ [Next]_vars => SpanInv'
  BY NextSpan
<1>4. IInv /\ IInv' /\ SpanInv /\ [Next]_vars
        => /\ [Rx!Next]_<<RxQueue, typed, user>>
           /\ [Tx!Next]_<<TxQueue, written, host>>
  BY RxStep, TxStep
<1>5. Lossless <=> /\ Rx!Init /\ [][Rx!Next]_<<RxQueue, typed, user>>
                   /\ Tx!Init /\ [][Tx!Next]_<<TxQueue, written, host>>
  BY DEF Lossless, Rx!Spec, Tx!Spec
<1> QED
  BY <1>1, <1>2, <1>3, <1>4, <1>5, Invariance, PTL DEF Spec
=============================================================================
