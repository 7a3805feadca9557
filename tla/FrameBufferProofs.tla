------------------------- MODULE FrameBufferProofs -------------------------
(* Proofs about the frame buffer, for every screen, every packing of pixels *)
(* into segments and every way of splitting a segment into transfers.       *)
EXTENDS FrameBuffer, Division

\* Short names for the arithmetic.
C == DISPLAY_NUM_COLUMNS
R == DISPLAY_NUM_ROWS
P == PixelsPerSegment

\* A row is a whole number of segments.
LEMMA WholeRows ==
  /\ P \in Nat \ {0} /\ C \in Nat \ {0} /\ R \in Nat \ {0}
  /\ C \div P \in Nat \ {0} /\ C = P * (C \div P)
  /\ (C * R) \div P = (C \div P) * R
<1> USE DEF C, R, P
<1>1. P \in Nat \ {0} /\ C \in Nat \ {0} /\ R \in Nat \ {0} /\ C % P = 0
  BY RasterAssumption
<1>2. C = P * (C \div P) /\ C \div P \in Nat
  BY <1>1, DivMod
<1>3. C \div P # 0
  BY <1>1, <1>2
<1> DEFINE k == C \div P
<1>4. C * R = P * (k * R) + 0 /\ k * R \in Nat
  <2>1. k \in Nat /\ C = P * k
    BY <1>2
  <2> HIDE DEF k
  <2>2. (P * k) * R = P * (k * R)
    BY <1>1, <2>1
  <2> QED
    BY <1>1, <2>1, <2>2
<1>5. (P * (k * R) + 0) \div P = k * R
  <2>1. 0 \in 0 .. P - 1
    BY <1>1
  <2> HIDE DEF k, P
  <2> QED
    BY <1>1, <1>4, <2>1, DivModUnique DEF P
<1> QED
  BY <1>1, <1>2, <1>3, <1>4, <1>5

\* A segment and a slot are the quotient and the remainder of the pixel's
\* index, though frame_px_w takes the slot from the column alone.
LEMMA Index ==
  ASSUME NEW c \in Columns, NEW r \in Rows
  PROVE  /\ SegmentOf(c, r) \in Segments /\ SlotOf(c) \in Slots
         /\ c + r * C = P * SegmentOf(c, r) + SlotOf(c)
<1> DEFINE k == C \div P
           h == c \div P
           l == c % P
<1>1. /\ P \in Nat \ {0} /\ C \in Nat \ {0} /\ R \in Nat \ {0}
      /\ k \in Nat \ {0} /\ C = P * k /\ (C * R) \div P = k * R
  BY WholeRows
<1>2. c \in Nat /\ c < C /\ r \in Nat /\ r < R
  BY <1>1 DEF Columns, Rows, C, R
<1>3. c = P * h + l /\ h \in Nat /\ l \in 0 .. P - 1
  BY <1>1, <1>2, DivMod
<1> HIDE DEF h, l, k
<1>4. c + r * C = P * (k * r + h) + l /\ k * r + h \in Nat
  <2>1. r * C = P * (k * r)
    BY <1>1, <1>2
  <2>2. k * r \in Nat
    BY <1>1, <1>2
  <2>3. P * (k * r + h) = P * (k * r) + P * h
    BY <1>1, <1>3, <2>2
  <2>4. P * (k * r) \in Nat /\ P * h \in Nat
    BY <1>1, <1>3, <2>2
  <2> QED
    BY <1>3, <2>1, <2>2, <2>3, <2>4
<1>5. SegmentOf(c, r) = k * r + h
  <2>1. (P * (k * r + h) + l) \div P = k * r + h
    BY <1>1, <1>3, <1>4, DivModUnique
  <2> QED
    BY <1>4, <2>1 DEF SegmentOf, C, P
<1>6. SlotOf(c) = l
  BY DEF SlotOf, l, P
<1>7. h < k
  <2>1. SUFFICES ASSUME h >= k PROVE FALSE
    BY <1>1, <1>3
  <2>2. P * h >= P * k
    BY <1>1, <1>3, <2>1
  <2> QED
    BY <1>1, <1>2, <1>3, <2>2
<1>8. k * r + h < k * R
  <2>1. k * (r + 1) <= k * R
    BY <1>1, <1>2
  <2>2. k * (r + 1) = k * r + k
    BY <1>1, <1>2
  <2>3. k * r \in Nat /\ k * R \in Nat
    BY <1>1, <1>2
  <2> QED
    BY <1>1, <1>3, <1>7, <2>1, <2>2, <2>3
<1>9. k * r + h \in 0 .. (C * R) \div P - 1
  <2>1. k * R \in Nat
    BY <1>1
  <2> QED
    BY <1>1, <1>4, <1>8, <2>1
<1> QED
  BY <1>3, <1>4, <1>5, <1>6, <1>9 DEF Segments, Slots, C, R, P

\* What the hardware shows at column c and row r is what frame_px_w wrote there.
LEMMA Addressing ==
  ASSUME NEW s \in Segments, NEW p \in Slots, NEW c \in Columns, NEW r \in Rows
  PROVE  PixelAt(s, p) = <<c, r>> <=> SegmentOf(c, r) = s /\ SlotOf(c) = p
<1> DEFINE S == SegmentOf(c, r)
           l == SlotOf(c)
<1>1. P \in Nat \ {0} /\ C \in Nat \ {0} /\ R \in Nat \ {0}
  BY WholeRows
<1>2. c \in 0 .. C - 1 /\ r \in Nat /\ p \in 0 .. P - 1 /\ s \in Nat
  BY <1>1 DEF Columns, Rows, Slots, Segments, C, R, P
<1>3. S \in Nat /\ l \in 0 .. P - 1 /\ c + r * C = P * S + l
  BY Index DEF Segments, Slots, P
<1>4. PixelAt(s, p) = <<(s * P + p) % C, (s * P + p) \div C>>
  BY DEF PixelAt, P, C
<1> HIDE DEF S, l
<1>5. s * P \in Nat /\ s * P = P * s /\ r * C \in Nat /\ r * C = C * r
  BY <1>1, <1>2
<1>6. ASSUME PixelAt(s, p) = <<c, r>> PROVE S = s /\ l = p
  <2>1. s * P + p \in Nat
    BY <1>1, <1>2, <1>5
  <2>2. s * P + p = C * r + c
    <3>1. c = (s * P + p) % C /\ r = (s * P + p) \div C
      BY <1>4, <1>6
    <3> DEFINE i == s * P + p
    <3> HIDE DEF i
    <3>2. i \in Nat
      BY <2>1 DEF i
    <3>3. i = C * (i \div C) + (i % C)
      BY <1>1, <3>2, DivMod
    <3> QED
      BY <3>1, <3>3 DEF i
  <2>3. P * s + p = P * S + l
    BY <1>2, <1>3, <1>5, <2>2
  <2>4. (P * s + p) \div P = s /\ (P * s + p) % P = p
    BY <1>1, <1>2, DivModUnique
  <2>5. (P * S + l) \div P = S /\ (P * S + l) % P = l
    BY <1>1, <1>3, DivModUnique
  <2> QED
    BY <2>3, <2>4, <2>5
<1>7. ASSUME S = s, l = p PROVE PixelAt(s, p) = <<c, r>>
  <2>1. s * P + p = C * r + c
    BY <1>2, <1>3, <1>5, <1>7
  <2>2. (C * r + c) \div C = r /\ (C * r + c) % C = c
    BY <1>1, <1>2, DivModUnique
  <2> QED
    BY <1>4, <2>1, <2>2
<1> QED
  BY <1>6, <1>7 DEF S, l

\* Every slot of every segment is a pixel of the screen.
LEMMA OnScreen ==
  ASSUME NEW s \in Segments, NEW p \in Slots
  PROVE  PixelAt(s, p) \in Columns \X Rows
<1> DEFINE k == C \div P
           i == s * P + p
<1>1. /\ P \in Nat \ {0} /\ C \in Nat \ {0} /\ R \in Nat \ {0}
      /\ k \in Nat \ {0} /\ C = P * k /\ (C * R) \div P = k * R
  BY WholeRows
<1> HIDE DEF k
<1>2. k * R \in Nat /\ s \in Nat /\ s <= k * R - 1 /\ p \in 0 .. P - 1
  BY <1>1 DEF Segments, Slots, C, R, P
<1>3. i \in Nat /\ i < C * R
  <2>1. (s + 1) * P <= (k * R) * P
    BY <1>1, <1>2
  <2>2. (s + 1) * P = s * P + P /\ s * P \in Nat
    BY <1>1, <1>2
  <2>3. (k * R) * P = C * R /\ C * R \in Nat
    BY <1>1
  <2> QED
    BY <1>1, <1>2, <2>1, <2>2, <2>3
<1> DEFINE q == i \div C
           m == i % C
<1>4. i = C * q + m /\ q \in Nat /\ m \in 0 .. C - 1
  <2> HIDE DEF i
  <2> QED
    BY <1>1, <1>3, DivMod
<1>5. PixelAt(s, p) = <<m, q>>
  BY DEF PixelAt, P, C
<1> HIDE DEF i, q, m
<1>6. q < R
  <2>1. SUFFICES ASSUME q >= R PROVE FALSE
    BY <1>1, <1>4
  <2>2. C * q >= C * R
    BY <1>1, <1>4, <2>1
  <2>3. C * q \in Nat /\ C * R \in Nat
    BY <1>1, <1>4
  <2> QED
    BY <1>3, <1>4, <2>2, <2>3
<1> QED
  BY <1>1, <1>4, <1>5, <1>6 DEF Columns, Rows, C, R
-----------------------------------------------------------------------------
\* While frame_px_w is at work: its register is the segment in memory but for
\* the pixel, and a piece of the pixel in memory is the new colour as soon as
\* its transfer has been made.
InFlight ==
  pc = "store" =>
    \A q \in Pieces :
      LET stored == mem[SegmentOf(x, y)][q]
      IN /\ seg[q] = IF q[1] = SlotOf(x) THEN colour ELSE stored
         /\ q[1] = SlotOf(x) =>
              stored = IF q[2] \in todo THEN picture[<<x, y>>] ELSE colour

\* The history of the fetch has every colour its pixels have now.
SeenCovers == \A p \in Slots : Current(PixelAt(wanted, p)) \subseteq seen[p]

IInv == TypeOK /\ ShownAsWritten /\ InFlight /\ SeenCovers /\ TornOnlyWhereWritten

LEMMA PieceType ==
  ASSUME NEW q \in Pieces
  PROVE  q[1] \in Slots /\ q[2] \in Transfers /\ q[2] \in Nat
BY DEF Pieces, Slots, Transfers

\* A piece in memory is of a colour its pixel has at this moment.
LEMMA MemCurrent ==
  ASSUME TypeOK, ShownAsWritten, InFlight, NEW s \in Segments, NEW q \in Pieces
  PROVE  mem[s][q] \in Current(PixelAt(s, q[1]))
<1>1. q[1] \in Slots
  BY PieceType
<1>2. CASE pc = "store" /\ PixelAt(s, q[1]) = <<x, y>>
  <2>1. x \in Columns /\ y \in Rows
    BY <1>2 DEF TypeOK
  <2>2. SegmentOf(x, y) = s /\ SlotOf(x) = q[1]
    BY <1>1, <1>2, <2>1, Addressing
  <2>3. mem[s][q] \in {picture[<<x, y>>], colour}
    BY <1>2, <2>2 DEF InFlight
  <2> QED
    BY <1>2, <2>3 DEF Current
<1>3. CASE ~(pc = "store" /\ PixelAt(s, q[1]) = <<x, y>>)
  BY <1>3 DEF ShownAsWritten, Current
<1> QED
  BY <1>2, <1>3

LEMMA InitInv == Init => IInv
<1> SUFFICES ASSUME Init PROVE IInv
  OBVIOUS
<1>1. 0 \in Segments
  <2>1. C \div P \in Nat \ {0} /\ R \in Nat \ {0} /\ (C * R) \div P = (C \div P) * R
    BY WholeRows
  <2> DEFINE k == C \div P
  <2>2. k \in Nat \ {0} /\ (C * R) \div P = k * R
    BY <2>1
  <2> HIDE DEF k
  <2>3. k * R >= 1 /\ k * R \in Nat
    BY <2>1, <2>2
  <2>4. 0 \in 0 .. k * R - 1
    BY <2>3
  <2> QED
    BY <2>2, <2>4 DEF Segments, C, R, P
<1>2. mem \in [Segments -> Word]
  <2>1. \A s \in Segments, q \in Pieces : picture[PixelAt(s, q[1])] \in Colours
    BY OnScreen, PieceType DEF Init
  <2> QED
    BY <2>1 DEF Init, Word
<1>3. TypeOK
  <2>1. seg \in Word
    BY <1>1, <1>2 DEF Init
  <2>2. seen \in [Slots -> SUBSET Colours]
    BY OnScreen DEF Init
  <2>3. word \in [{q \in Pieces : q[2] < fetched} -> Colours]
    <3>1. {q \in Pieces : q[2] < fetched} = {}
      BY PieceType DEF Init, Transfers
    <3> QED
      BY <3>1 DEF Init
  <2> QED
    BY <1>2, <2>1, <2>2, <2>3 DEF Init, TypeOK
<1>4. ShownAsWritten
  BY DEF Init, ShownAsWritten
<1>5. InFlight
  BY DEF Init, InFlight
<1>6. SeenCovers
  BY DEF Init, SeenCovers, Current
<1>7. TornOnlyWhereWritten
  BY PieceType DEF Init, TornOnlyWhereWritten, Transfers
<1> QED
  BY <1>3, <1>4, <1>5, <1>6, <1>7 DEF IInv

\* Steps that touch neither the buffer nor the pixel under way.
LEMMA Quiet ==
  ASSUME IInv, UNCHANGED <<mem, picture, colour, masterVars, seen>>,
         UNCHANGED <<seg, todo>>, pc # "store", pc' \in {"idle", "loop"},
         rect' \in Rects, x' \in Nat, y' \in Nat
  PROVE  IInv'
<1>1. TypeOK'
  BY DEF IInv, TypeOK, masterVars
<1>2. ShownAsWritten'
  BY DEF IInv, ShownAsWritten
<1>3. InFlight'
  BY DEF InFlight
<1>4. SeenCovers'
  BY DEF IInv, SeenCovers, Current, masterVars
<1>5. TornOnlyWhereWritten'
  BY DEF IInv, TornOnlyWhereWritten, masterVars
<1> QED
  BY <1>1, <1>2, <1>3, <1>4, <1>5 DEF IInv

LEMMA PixelWriteInv == IInv /\ PixelWrite => IInv'
<1> SUFFICES ASSUME IInv, PixelWrite PROVE IInv'
  OBVIOUS
<1> USE DEF PixelWrite, masterVars
<1>1. x \in Columns /\ y \in Rows
  BY RasterAssumption DEF IInv, TypeOK, InRows, InColumns, Columns, Rows
<1>2. SegmentOf(x, y) \in Segments /\ SlotOf(x) \in Slots
  BY <1>1, Index
<1>3. TypeOK'
  <2>1. seg' \in Word
    BY <1>2 DEF Packed, Word, IInv, TypeOK
  <2>2. seen' \in [Slots -> SUBSET Colours]
    BY <1>2 DEF IInv, TypeOK
  <2> QED
    BY <1>1, <2>1, <2>2 DEF IInv, TypeOK
<1>4. ShownAsWritten'
  BY DEF IInv, ShownAsWritten
<1>5. InFlight'
  <2> SUFFICES ASSUME NEW q \in Pieces
               PROVE  /\ seg'[q] = IF q[1] = SlotOf(x) THEN colour' ELSE mem[SegmentOf(x, y)][q]
                      /\ q[1] = SlotOf(x) => mem[SegmentOf(x, y)][q] = picture[<<x, y>>]
    BY PieceType DEF InFlight
  <2>1. seg'[q] = IF q[1] = SlotOf(x) THEN colour' ELSE mem[SegmentOf(x, y)][q]
    BY DEF Packed
  <2>2. ASSUME q[1] = SlotOf(x) PROVE mem[SegmentOf(x, y)][q] = picture[<<x, y>>]
    <3>1. PixelAt(SegmentOf(x, y), q[1]) = <<x, y>>
      BY <1>1, <1>2, <2>2, Addressing
    <3> QED
      BY <1>2, <3>1 DEF IInv, ShownAsWritten
  <2> QED
    BY <2>1, <2>2
<1>6. SeenCovers'
  <2> SUFFICES ASSUME NEW p \in Slots
               PROVE  Current(PixelAt(wanted, p))' \subseteq seen'[p]
    BY DEF SeenCovers
  <2>1. picture[PixelAt(wanted, p)] \in seen'[p]
    BY <1>2 DEF IInv, TypeOK, SeenCovers, Current
  <2>2. ASSUME PixelAt(wanted, p) = <<x, y>> PROVE colour' \in seen'[p]
    <3>1. SegmentOf(x, y) = wanted /\ SlotOf(x) = p
      BY <1>1, <2>2, Addressing DEF IInv, TypeOK
    <3> QED
      BY <1>2, <3>1 DEF IInv, TypeOK
  <2> QED
    BY <2>1, <2>2 DEF Current, PixelAt
<1>7. TornOnlyWhereWritten'
  BY <1>2, PieceType DEF IInv, TypeOK, TornOnlyWhereWritten
<1> QED
  BY <1>3, <1>4, <1>5, <1>6, <1>7 DEF IInv

LEMMA StoreTransferInv ==
  ASSUME IInv, NEW t \in Transfers, StoreTransfer(t)
  PROVE  IInv'
<1> DEFINE S == SegmentOf(x, y)
           l == SlotOf(x)
<1> USE DEF StoreTransfer, masterVars
<1>1. x \in Columns /\ y \in Rows /\ x \in Nat
  BY DEF IInv, TypeOK
<1>2. S \in Segments /\ l \in Slots
  BY <1>1, Index
<1>3. seg \in Word /\ mem \in [Segments -> Word]
  BY DEF IInv, TypeOK
<1>4. \A s \in Segments, q \in Pieces :
        mem'[s][q] = IF s = S /\ q[2] = t THEN seg[q] ELSE mem[s][q]
  BY <1>2, <1>3
<1>5. \A s \in Segments, q \in Pieces :
        ~(s = S /\ q[1] = l) => mem'[s][q] = mem[s][q]
  BY <1>4 DEF IInv, InFlight
\* The pieces of the pixel under way: new where they are stored.
<1>6. \A q \in Pieces : q[1] = l =>
        mem'[S][q] = IF q[2] \in todo' THEN picture[<<x, y>>] ELSE colour
  BY <1>2, <1>4 DEF IInv, InFlight
<1>7. TypeOK'
  <2>1. mem' \in [Segments -> Word]
    BY <1>2, <1>3 DEF Word
  <2>2. x' \in Nat /\ picture' \in [Columns \X Rows -> Colours]
    BY <1>1 DEF IInv, TypeOK
  <2>3. pc' \in {"idle", "loop", "store"} /\ (pc' = "store" => x' = x)
    BY DEF IInv, TypeOK
  <2> QED
    BY <1>1, <2>1, <2>2, <2>3 DEF IInv, TypeOK
<1>8. \A s \in Segments, p \in Slots : PixelAt(s, p) = <<x, y>> <=> s = S /\ p = l
  BY <1>1, Addressing
<1>9. \A s \in Segments, p \in Slots : PixelAt(s, p) \in Columns \X Rows
  BY OnScreen
<1> HIDE DEF S, l
<1>10. CASE todo' = {}
  <2>1. pc' = "loop" /\ picture' = [picture EXCEPT ![<<x, y>>] = colour]
    BY <1>10
  <2>2. <<x, y>> \in Columns \X Rows /\ picture \in [Columns \X Rows -> Colours]
    BY <1>1 DEF IInv, TypeOK
  <2>3. ShownAsWritten'
    <3> SUFFICES ASSUME NEW s \in Segments, NEW q \in Pieces
                 PROVE  mem'[s][q] = picture'[PixelAt(s, q[1])]
      BY DEF ShownAsWritten, PixelAt
    <3>1. q[1] \in Slots
      BY PieceType
    <3>2. CASE s = S /\ q[1] = l
      <4>1. mem'[s][q] = colour
        BY <1>6, <1>10, <3>2
      <4> QED
        BY <1>8, <2>1, <2>2, <3>1, <3>2, <4>1
    <3>3. CASE ~(s = S /\ q[1] = l)
      <4>1. PixelAt(s, q[1]) # <<x, y>>
        BY <1>8, <3>1, <3>3
      <4>2. mem[s][q] = picture[PixelAt(s, q[1])]
        BY <4>1 DEF IInv, ShownAsWritten
      <4>3. picture'[PixelAt(s, q[1])] = picture[PixelAt(s, q[1])]
        BY <1>9, <2>1, <2>2, <3>1, <4>1
      <4> QED
        BY <1>5, <3>3, <4>2, <4>3
    <3> QED
      BY <3>2, <3>3
  <2>4. InFlight'
    BY <2>1 DEF InFlight
  <2>5. SeenCovers'
    <3> SUFFICES ASSUME NEW p \in Slots
                 PROVE  picture'[PixelAt(wanted, p)] \in seen[p]
      BY <2>1 DEF SeenCovers, Current, PixelAt
    <3>1. wanted \in Segments /\ pc = "store"
      BY DEF IInv, TypeOK
    <3>2. Current(PixelAt(wanted, p)) \subseteq seen[p]
      BY DEF IInv, SeenCovers
    <3>3. picture'[PixelAt(wanted, p)] \in Current(PixelAt(wanted, p))
      BY <1>9, <2>1, <2>2, <3>1 DEF Current
    <3> QED
      BY <3>2, <3>3
  <2>6. TornOnlyWhereWritten'
    BY DEF IInv, TornOnlyWhereWritten
  <2> QED
    BY <1>7, <2>3, <2>4, <2>5, <2>6 DEF IInv
<1>11. CASE todo' # {}
  <2>1. UNCHANGED <<pc, x, picture>> /\ pc = "store"
    BY <1>11
  <2>2. ShownAsWritten'
    <3> SUFFICES ASSUME NEW s \in Segments, NEW q \in Pieces, PixelAt(s, q[1]) # <<x, y>>
                 PROVE  mem'[s][q] = picture[PixelAt(s, q[1])]
      BY <2>1 DEF ShownAsWritten, PixelAt
    <3>1. mem'[s][q] = mem[s][q]
      BY <1>5, <1>8, PieceType
    <3> QED
      BY <3>1 DEF IInv, ShownAsWritten
  <2>3. InFlight'
    <3> SUFFICES ASSUME NEW q \in Pieces
                 PROVE  /\ seg[q] = IF q[1] = l THEN colour ELSE mem'[S][q]
                        /\ q[1] = l => mem'[S][q] = IF q[2] \in todo' THEN picture[<<x, y>>] ELSE colour
      BY <2>1 DEF InFlight, S, l, SegmentOf, SlotOf
    <3>1. seg[q] = IF q[1] = l THEN colour ELSE mem[S][q]
      BY <2>1 DEF IInv, InFlight, S, l
    <3> QED
      BY <1>2, <1>5, <1>6, <3>1
  <2>4. SeenCovers'
    BY <2>1 DEF IInv, SeenCovers, Current, PixelAt
  <2>5. TornOnlyWhereWritten'
    BY DEF IInv, TornOnlyWhereWritten
  <2> QED
    BY <1>7, <2>2, <2>3, <2>4, <2>5 DEF IInv
<1> QED
  BY <1>10, <1>11

LEMMA FetchBeginInv ==
  ASSUME IInv, NEW s \in Segments, FetchBegin(s)
  PROVE  IInv'
<1> USE DEF FetchBegin, driverVars
<1>1. TypeOK'
  <2>1. word' \in [{q \in Pieces : q[2] < fetched'} -> Colours]
    <3>1. {q \in Pieces : q[2] < fetched'} = {}
      BY PieceType DEF Transfers
    <3> QED
      BY <3>1
  <2>2. seen' \in [Slots -> SUBSET Colours]
    BY OnScreen DEF IInv, TypeOK, Current
  <2> QED
    BY <2>1, <2>2 DEF IInv, TypeOK
<1>2. ShownAsWritten' /\ InFlight'
  BY DEF IInv, ShownAsWritten, InFlight, PixelAt, SegmentOf, SlotOf
<1>3. SeenCovers'
  BY DEF SeenCovers, Current, PixelAt
<1>4. TornOnlyWhereWritten'
  BY PieceType DEF TornOnlyWhereWritten, Transfers
<1> QED
  BY <1>1, <1>2, <1>3, <1>4 DEF IInv

LEMMA FetchTransferInv == IInv /\ FetchTransfer => IInv'
<1> SUFFICES ASSUME IInv, FetchTransfer PROVE IInv'
  OBVIOUS
<1> USE DEF FetchTransfer, driverVars
<1>1. fetched \in Nat /\ wanted \in Segments
  BY DEF IInv, TypeOK
<1>2. {q \in Pieces : q[2] <= fetched} = {q \in Pieces : q[2] < fetched'}
  BY <1>1, PieceType
<1>3. TypeOK'
  <2>1. \A q \in Pieces : mem[wanted][q] \in Colours
    BY <1>1 DEF IInv, TypeOK, Word
  <2>2. \A q \in Pieces : q[2] <= fetched /\ q[2] # fetched => word[q] \in Colours
    <3>1. \A q \in Pieces : q[2] < fetched => word[q] \in Colours
      BY DEF IInv, TypeOK
    <3>2. \A q \in Pieces : q[2] <= fetched /\ q[2] # fetched => q[2] < fetched
      BY <1>1, PieceType
    <3> QED
      BY <3>1, <3>2
  <2>3. word' \in [{q \in Pieces : q[2] < fetched'} -> Colours]
    BY <1>2, <2>1, <2>2
  <2> QED
    BY <2>3, <1>1 DEF IInv, TypeOK
<1>4. ShownAsWritten' /\ InFlight' /\ SeenCovers'
  BY DEF IInv, ShownAsWritten, InFlight, SeenCovers, Current, PixelAt, SegmentOf, SlotOf
<1>5. TornOnlyWhereWritten'
  <2> SUFFICES ASSUME NEW q \in Pieces, q[2] < fetched'
               PROVE  word'[q] \in seen[q[1]]
    BY DEF TornOnlyWhereWritten
  <2>1. q[2] <= fetched
    BY <1>1, <1>2
  <2>2. CASE q[2] = fetched
    <3>1. mem[wanted][q] \in Current(PixelAt(wanted, q[1]))
      BY <1>1, MemCurrent DEF IInv
    <3> QED
      BY <2>1, <2>2, <3>1, PieceType DEF IInv, SeenCovers
  <2>3. CASE q[2] # fetched
    BY <1>1, <2>1, <2>3, PieceType DEF IInv, TornOnlyWhereWritten
  <2> QED
    BY <2>2, <2>3
<1> QED
  BY <1>3, <1>4, <1>5 DEF IInv

LEMMA NextInv == IInv /\ [Next]_vars => IInv'
<1> SUFFICES ASSUME IInv, [Next]_vars PROVE IInv'
  OBVIOUS
<1>1. CASE PutFrameBuffer
  BY <1>1, Quiet, RectsAssumption DEF PutFrameBuffer, IInv, TypeOK
<1>2. CASE PixelWrite
  BY <1>2, PixelWriteInv
<1>3. CASE NextRow
  BY <1>3, Quiet, RectsAssumption DEF NextRow, IInv, TypeOK
<1>4. CASE Return
  BY <1>4, Quiet DEF Return, IInv, TypeOK
<1>5. CASE \E t \in Transfers : StoreTransfer(t)
  BY <1>5, StoreTransferInv
<1>6. CASE \E s \in Segments : FetchBegin(s)
  BY <1>6, FetchBeginInv
<1>7. CASE FetchTransfer
  BY <1>7, FetchTransferInv
<1>8. CASE UNCHANGED vars
  BY <1>8 DEF vars, driverVars, masterVars, IInv, TypeOK, ShownAsWritten, InFlight,
     SeenCovers, Current, TornOnlyWhereWritten, PixelAt, SegmentOf, SlotOf
<1> QED
  BY <1>1, <1>2, <1>3, <1>4, <1>5, <1>6, <1>7, <1>8 DEF Next, Driver, Master

LEMMA Invariance == Spec => []IInv
  BY InitInv, NextInv, PTL DEF Spec

\* Type correctness of the frame buffer.
THEOREM TypeCorrect == Spec => []TypeOK
<1>1. IInv => TypeOK
  BY DEF IInv
<1> QED
  BY <1>1, Invariance, PTL

\* For every screen whose rows are whole segments, what the hardware shows is
\* what the driver wrote, but for the one pixel frame_px_w is at work on.
THEOREM PictureSafe == Spec => []ShownAsWritten
<1>1. IInv => ShownAsWritten
  BY DEF IInv
<1> QED
  BY <1>1, Invariance, PTL

\* For every area, also one that reaches over the edges of the screen, the
\* driver stores inside the buffer.
THEOREM BufferSafe == Spec => []StoresInside
<1>1. ASSUME IInv, pc = "loop", InRows, InColumns
      PROVE  SegmentOf(x, y) \in Segments
  <2>1. x \in Columns /\ y \in Rows
    BY <1>1, RasterAssumption DEF IInv, TypeOK, InRows, InColumns, Columns, Rows
  <2> QED
    BY <2>1, Index
<1>2. IInv => StoresInside
  BY <1>1 DEF StoresInside
<1> QED
  BY <1>2, Invariance, PTL

\* However a segment is split into transfers and in whatever order they are
\* made, the read master gets a torn pixel only where software wrote one.
THEOREM FetchSafe == Spec => []TornOnlyWhereWritten
<1>1. IInv => TornOnlyWhereWritten
  BY DEF IInv
<1> QED
  BY <1>1, Invariance, PTL
=============================================================================
