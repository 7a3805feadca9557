------------------------------ MODULE Timers ------------------------------
(***************************************************************************)
(* Alarms as a program thinks of them: each running one counts down and is *)
(* served when it has come to zero, before time goes on; then it ends or   *)
(* begins again.                                                           *)
(***************************************************************************)
EXTENDS Integers

CONSTANTS Alarms, Longest

VARIABLE remaining   \* of the running alarms, the ticks until they are served

Running == DOMAIN remaining

Init == remaining = [a \in {} |-> 0]

Start(a) ==
  /\ a \notin Running
  /\ \E n \in 1 .. Longest :
       remaining' = [b \in Running \cup {a} |-> IF b = a THEN n ELSE remaining[b]]

Stop(a) ==
  /\ a \in Running
  /\ remaining' = [b \in Running \ {a} |-> remaining[b]]

Tick ==
  /\ \A a \in Running : remaining[a] > 0
  /\ remaining' = [a \in Running |-> remaining[a] - 1]

Serve(a) ==
  /\ a \in Running /\ remaining[a] = 0
  /\ \E n \in 1 .. Longest : remaining' = [remaining EXCEPT ![a] = n]

Next == Tick \/ \E a \in Alarms : Start(a) \/ Stop(a) \/ Serve(a)
Spec == Init /\ [][Next]_remaining
=============================================================================
