--------------------------- MODULE MCApplication ---------------------------
(* A splash, and two strings above the text. *)
EXTENDS Application
OneStart == {<<8, 0>>}
OneSplash == {<<3, 0>>}
=============================================================================
