----------------------------- MODULE WordStream -----------------------------
(***************************************************************************)
(* What the read master promises the pixel logic, whatever the FIFO, the   *)
(* bursts and the bus do: while a frame runs, the reader is given one word *)
(* after the other, from the address the base register held when the frame *)
(* began.  A new base shows in the next frame, never in the middle of one. *)
(***************************************************************************)
EXTENDS Naturals

CONSTANT Bases   \* the values software writes to the base register

VARIABLES
  fb_base,   \* the base register
  running,   \* a frame runs
  next       \* the address of the word the reader is given next; 0 between frames

wsVars == <<fb_base, running, next>>

Init == fb_base = 0 /\ running = FALSE /\ next = 0

SetBase ==
  /\ fb_base' \in Bases
  /\ UNCHANGED <<running, next>>

Begin ==
  /\ ~running
  /\ running' = TRUE
  /\ next' = fb_base
  /\ UNCHANGED fb_base

Deliver ==
  /\ running
  /\ next' = next + 1
  /\ UNCHANGED <<fb_base, running>>

End ==
  /\ running
  /\ running' = FALSE
  /\ next' = 0
  /\ UNCHANGED fb_base

Next == SetBase \/ Begin \/ Deliver \/ End

Spec == Init /\ [][Next]_wsVars
=============================================================================
