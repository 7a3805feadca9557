----------------------------- MODULE HalAlarms -----------------------------
(***************************************************************************)
(* The alarms of the HAL: alt_alarm_start, alt_alarm_stop and alt_tick,    *)
(* which the timer's interrupt calls and which calls the alarms' callbacks *)
(* in turn.  The tick counter and the alarms' times are numbers of 32 bits *)
(* that wrap.                                                              *)
(*                                                                         *)
(* Start and stop disable interrupts, so each is one action; the program   *)
(* does not run during a tick, but a callback may start and stop alarms.   *)
(***************************************************************************)
EXTENDS Integers

CONSTANTS
  Alarms,    \* structures alt_alarm
  Head,      \* alt_alarm_list
  NoAlarm,   \* no tick is being processed
  Wrap,      \* 2^32
  MaxPeriod  \* the longest time asked for
ASSUME AlarmsAssumption ==
  /\ Head \notin Alarms /\ NoAlarm \notin Alarms \cup {Head}
  /\ Wrap \in Nat /\ MaxPeriod \in 1 .. Wrap - 2

VARIABLES
  alt_tick_rate,     \* whether alt_sysclk_init has been called
  alt_nticks,
  next, previous,    \* the linked list; an alarm that is not in it is linked to itself
  time, rollover,    \* of each alarm
  alarm, saved,      \* alt_tick: the alarm looked at, and its local next
  calling            \* the alarm's callback is running
links == <<next, previous>>
alarmVars == <<alt_tick_rate, alt_nticks, links, time, rollover, alarm, saved, calling>>

Entries == Alarms \cup {Head}
Ticks == 0 .. Wrap - 1
Linked(a) == next[a] # a

AlarmsInit ==
  /\ alt_tick_rate = FALSE /\ alt_nticks = 0
  /\ next = [e \in Entries |-> e] /\ previous = [e \in Entries |-> e]
  /\ time = [a \in Alarms |-> 0] /\ rollover = [a \in Alarms |-> FALSE]
  /\ alarm = NoAlarm /\ saved = NoAlarm /\ calling = FALSE

SysclkInit ==
  /\ ~alt_tick_rate /\ alt_tick_rate' = TRUE
  /\ UNCHANGED <<alt_nticks, links, time, rollover, alarm, saved, calling>>

\* alt_llist_insert, behind the head.
Insert(a) ==
  /\ previous' = [previous EXCEPT ![a] = Head, ![next[Head]] = a]
  /\ next' = [next EXCEPT ![a] = next[Head], ![Head] = a]

\* alt_llist_remove.  (Mutant: the entry keeps its own links.)
RemoveKeeps(a) ==
  /\ previous' = [previous EXCEPT ![next[a]] = previous[a]]
  /\ next' = [next EXCEPT ![previous[a]] = next[a]]
Remove(a) ==
  /\ previous' = [previous EXCEPT ![next[a]] = previous[a], ![a] = a]
  /\ next' = [next EXCEPT ![previous[a]] = next[a], ![a] = a]

\* The program runs between ticks, callbacks run within one.
CodeRuns == alarm = NoAlarm \/ calling

\* alt_alarm_start, of an alarm that is not running; it fails without a timer.
\* (Mutant: the counter is not expected to wrap.)
AlarmStartFlat(a, nticks) ==
  /\ alt_tick_rate /\ CodeRuns /\ ~Linked(a) /\ a # alarm
  /\ time' = [time EXCEPT ![a] = (nticks + alt_nticks + 1) % Wrap]
  /\ rollover' = [rollover EXCEPT ![a] = FALSE]
  /\ Insert(a)
  /\ UNCHANGED <<alt_tick_rate, alt_nticks, alarm, saved, calling>>
AlarmStart(a, nticks) ==
  /\ alt_tick_rate /\ CodeRuns /\ ~Linked(a) /\ a # alarm
  /\ time' = [time EXCEPT ![a] = (nticks + alt_nticks + 1) % Wrap]
  /\ rollover' = [rollover EXCEPT ![a] = time'[a] < alt_nticks]
  /\ Insert(a)
  /\ UNCHANGED <<alt_tick_rate, alt_nticks, alarm, saved, calling>>

\* alt_alarm_stop, which leaves an alarm that is not running alone.
AlarmStop(a) ==
  /\ CodeRuns /\ Linked(a)
  /\ Remove(a)
  /\ UNCHANGED <<alt_tick_rate, alt_nticks, time, rollover, alarm, saved, calling>>

\* alt_tick looks at this alarm next, or ends.
Goto(e) == alarm' = IF e = Head THEN NoAlarm ELSE e

Tick ==
  /\ alt_tick_rate /\ alarm = NoAlarm
  /\ alt_nticks' = (alt_nticks + 1) % Wrap
  /\ Goto(next[Head])
  /\ UNCHANGED <<alt_tick_rate, links, time, rollover, saved, calling>>

\* One turn of the loop of alt_tick, up to the callback.
Rolled(a) == rollover[a] /\ alt_nticks # 0
Expired(a) == time[a] <= alt_nticks /\ ~Rolled(a)
Look ==
  /\ alarm # NoAlarm /\ ~calling
  /\ rollover' = [rollover EXCEPT ![alarm] = Rolled(alarm)]
  /\ IF Expired(alarm)
     THEN calling' = TRUE /\ saved' = next[alarm] /\ UNCHANGED alarm
     ELSE Goto(next[alarm]) /\ UNCHANGED <<calling, saved>>
  /\ UNCHANGED <<alt_tick_rate, alt_nticks, links, time>>

\* The callback returns the time until the next call, or 0 to end the alarm.
\* (Mutant: the loop goes on from the alarm's own link.)
CallbackReturnsHere(period) ==
  /\ calling /\ calling' = FALSE /\ saved' = NoAlarm
  /\ IF period = 0
     THEN Remove(alarm) /\ UNCHANGED <<time, rollover>>
     ELSE /\ time' = [time EXCEPT ![alarm] = (@ + period) % Wrap]
          /\ rollover' = [rollover EXCEPT ![alarm] = time'[alarm] < alt_nticks]
          /\ UNCHANGED links
  /\ Goto(next'[alarm])
  /\ UNCHANGED <<alt_tick_rate, alt_nticks>>
CallbackReturns(period) ==
  /\ calling /\ calling' = FALSE /\ saved' = NoAlarm
  /\ Goto(saved)
  /\ IF period = 0
     THEN Remove(alarm) /\ UNCHANGED <<time, rollover>>
     ELSE /\ time' = [time EXCEPT ![alarm] = (@ + period) % Wrap]
          /\ rollover' = [rollover EXCEPT ![alarm] = time'[alarm] < alt_nticks]
          /\ UNCHANGED links
  /\ UNCHANGED <<alt_tick_rate, alt_nticks>>

Process == Look \/ \E period \in 0 .. MaxPeriod : CallbackReturns(period)
AlarmsNext ==
  \/ SysclkInit \/ Tick \/ Process
  \/ \E a \in Alarms : AlarmStop(a) \/ \E nticks \in 0 .. MaxPeriod : AlarmStart(a, nticks)

\* The processor runs, and callbacks return.
AlarmsFairness == WF_alarmVars(Process)
AlarmsSpec == AlarmsInit /\ [][AlarmsNext]_alarmVars /\ AlarmsFairness
-----------------------------------------------------------------------------
\* Type correctness, of the list too: its links agree in both directions.
AlarmsTypeOK ==
  /\ alt_tick_rate \in BOOLEAN /\ alt_nticks \in Ticks
  /\ next \in [Entries -> Entries] /\ previous \in [Entries -> Entries]
  /\ \A e \in Entries : previous[next[e]] = e
  /\ time \in [Alarms -> Ticks] /\ rollover \in [Alarms -> BOOLEAN]
  /\ alarm \in Alarms \cup {NoAlarm} /\ saved \in Entries \cup {NoAlarm}
  /\ calling \in BOOLEAN

\* Every alarm is called on the very tick it was meant for, neither early nor
\* late, also when the counter wraps and when callbacks start and stop alarms.
OnTime == INSTANCE Timers WITH
  Longest <- MaxPeriod + 1,
  remaining <- [a \in {b \in Alarms : Linked(b)} |-> (time[a] - alt_nticks) % Wrap]
IsTimers == OnTime!Spec

\* alt_tick, which begins with an alarm of the list, ends, unless a callback
\* stops the alarm that alt_tick has already taken for the next.  If that one is
\* not started again, alt_tick goes on to it, linked to itself, for ever.
Looking == alarm # NoAlarm /\ ~calling /\ Linked(alarm)
SavedStopped == calling /\ saved \in Alarms \ {alarm} /\ ~Linked(saved)
TickEnds == Looking ~> alarm = NoAlarm \/ SavedStopped
=============================================================================
