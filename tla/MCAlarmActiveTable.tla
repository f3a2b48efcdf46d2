------------------------- MODULE MCAlarmActiveTable -------------------------
(* Three alarms, so that rows outlive a full round of the counter. *)
EXTENDS AlarmActiveTable, Sequences

ThreeAlarms == {1000, 1001, 2000}
ThreeAlarmsLevels ==
  [a \in ThreeAlarms |->
     IF a = 2000 THEN {CLEARED, MINOR, MAJOR} ELSE {CLEARED, CRITICAL}]
BySeverity == [s \in Severity |-> <<0, 1, 2, 6, 5, 4, 3>>[s + 1]]
=============================================================================
