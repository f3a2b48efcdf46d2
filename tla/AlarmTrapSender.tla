-------------------------- MODULE AlarmTrapSender ---------------------------
(***************************************************************************)
(* AlarmTrapSender and the part of Net-SNMP behind it: the informs that    *)
(* were sent and not yet answered.  Every inform carries the definition it *)
(* was sent for as the correlator of its callback.                         *)
(***************************************************************************)
EXTENDS AlarmTableDefs

CONSTANTS
  snmp_notifications,  \* the configured NotificationTypes
  trap_ips             \* the inform sinks, one trap session each

VARIABLE
  informs   \* informs[i]: how many copies of inform i are unanswered

Inform ==
  {i \in [index : Alarms, severity : Severity,
          type : snmp_notifications, sink : trap_ips] :
      is_valid(i.index, i.severity)}

TrapSenderInit == informs = [i \in Inform |-> 0]

(* One inform per notification type; Net-SNMP copies it to every session.  *)
send_trap(index, severity) ==
  informs' = [i \in Inform |->
                IF i.index = index /\ i.severity = severity
                  THEN informs[i] + 1
                  ELSE informs[i]]

(* Slip: a callback for an inform that is not outstanding. *)
Answered_Twice(i) == informs' = [informs EXCEPT ![i] = @ - 1]

(* Net-SNMP takes an answered (or given up) inform off its list, and calls *)
(* alarm_trap_send_callback.                                               *)
Answered(i) ==
  /\ informs[i] > 0
  /\ informs' = [informs EXCEPT ![i] = @ - 1]
=============================================================================
