--------------------------- MODULE MCTextConsole ---------------------------
(* vprintln under a splash. *)
EXTENDS TextConsole
NoStart == {}
OneSplash == {<<3, 0>>}
=============================================================================
