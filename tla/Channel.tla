------------------------------ MODULE Channel ------------------------------
(***************************************************************************)
(* What a driver with buffers promises for each direction: the characters  *)
(* put in come out, all of them, once and in order, and never more than    *)
(* Capacity are on their way.  Characters are numbers, put in in turn.     *)
(***************************************************************************)
EXTENDS Naturals, Sequences

CONSTANTS Capacity, Chars

VARIABLES
  queue,   \* the characters on their way
  next,    \* the next to be put
  out      \* the characters that the receiver has been given

Init == queue = <<>> /\ next = 0 /\ out = <<>>

Put ==
  \E k \in 1 .. Capacity - Len(queue) :
    /\ queue' = queue \o [i \in 1 .. k |-> (next + i - 1) % Chars]
    /\ next' = (next + k) % Chars
    /\ UNCHANGED out

\* The receiver adds to what it has been given, or begins anew.
Get ==
  \E k \in 0 .. Len(queue) :
    /\ queue' = SubSeq(queue, k + 1, Len(queue))
    /\ out' \in {kept \o SubSeq(queue, 1, k) : kept \in {out, <<>>}}
    /\ UNCHANGED next

Next == Put \/ Get
Spec == Init /\ [][Next]_<<queue, next, out>>
=============================================================================
