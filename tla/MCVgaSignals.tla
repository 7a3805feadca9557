---------------------------- MODULE MCVgaSignals ----------------------------
(***************************************************************************)
(* VgaSignals for TLC.  The cfg file gives the 800 x 525 raster of the     *)
(* code.                                                                   *)
(***************************************************************************)
EXTENDS VgaSignals

=============================================================================
