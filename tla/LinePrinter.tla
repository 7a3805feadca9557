---------------------------- MODULE LinePrinter ----------------------------
(***************************************************************************)
(* What vprintln promises (vga_driver.h): text goes to one line of the     *)
(* page after the other, and from the last to the first; all other text,   *)
(* and everything outside the page, is kept until its line's turn comes.   *)
(***************************************************************************)
EXTENDS Naturals

CONSTANT Lines   \* how many lines the page has

VARIABLES
  ready,   \* the page is there; before, anything may be shown
  line,    \* the line that is written
  text,    \* what each line shows
  around   \* what is shown outside the lines

lpVars == <<ready, line, text, around>>

Follows(l) == (l + 1) % Lines

Init == ready => line = 0

\* Before the page is there; it starts with its first line.
Prepare ==
  /\ ~ready
  /\ ready' => line' = 0

\* Only the line in turn changes, then it may be left for the next.
Write ==
  /\ ready /\ ready'
  /\ line' \in {line, Follows(line)}
  /\ \A l \in 0 .. Lines - 1 : l # line => text'[l] = text[l]
  /\ around' = around

Next == Prepare \/ Write

Spec == Init /\ [][Next]_lpVars
=============================================================================
