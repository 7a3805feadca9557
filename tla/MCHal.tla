------------------------------- MODULE MCHal -------------------------------
(* The file descriptors and the alarms share nothing, so each is checked   *)
(* while the other stands at its start.                                    *)
EXTENDS HalFiles, HalAlarms
HalNext ==
  \/ FilesNext /\ AlarmsInit /\ UNCHANGED alarmVars
  \/ AlarmsNext /\ FilesInit /\ UNCHANGED fileVars
HalInit == FilesInit /\ AlarmsInit
HalSpec == HalInit /\ [][HalNext]_<<fileVars, alarmVars>> /\ AlarmsFairness

\* Type correctness: of the descriptors, and of the list of alarms.
HalTypeOK == FilesTypeOK /\ AlarmsTypeOK
=============================================================================
