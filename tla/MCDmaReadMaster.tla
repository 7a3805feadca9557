-------------------------- MODULE MCDmaReadMaster --------------------------
(* Instances of the read master for TLC.                                   *)
EXTENDS DmaReadMaster
=============================================================================
