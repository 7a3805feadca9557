---------------------------- MODULE MCJtagUart ----------------------------
(* One direction at a time: nothing begins in one while anything is under  *)
(* way in the other, whose ring must stand at its start.  This holds up    *)
(* only Type and the calls, and there is no fairness on them.              *)
EXTENDS JtagUart
RxIdle ==
  /\ rx_fifo = <<>> /\ rx_in = 0 /\ rx_out = 0
  /\ pc \notin {"r_scan", "r_copy", "r_advance", "r_spin", "r_check", "r_done"}
TxIdle ==
  /\ tx_fifo = <<>> /\ tx_in = 0 /\ tx_out = 0
  /\ pc \notin {"w_scan", "w_copy", "w_advance", "w_kick", "w_spin", "w_check"}
OneWay == RxIdle \/ TxIdle
OneWayNext ==
  \/ Pause \/ Drain \/ Plug \/ Routine \/ Timeout \/ SetTimeout \/ Program
  \/ (Type \/ Read \/ Write \/ Close) /\ OneWay'
OneWaySpec == Init /\ [][OneWayNext]_vars /\ Fairness

\* The same, but while anything is sent one character may be received.
RxLight == rx_out = 0 /\ rx_in + Len(rx_fifo) <= 1
LightNext ==
  \/ Pause \/ Drain \/ Plug \/ Routine \/ Timeout \/ SetTimeout \/ Program
  \/ (Type \/ Read \/ Write \/ Close) /\ (RxLight \/ TxIdle)'
LightSpec == Init /\ [][LightNext]_vars /\ Fairness
=============================================================================
