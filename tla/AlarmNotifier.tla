--------------------------- MODULE AlarmNotifier ----------------------------
(***************************************************************************)
(* What the scheduler promises its callers: per alarm, the severity the    *)
(* NMS was last told of and the one it is about to be told of.  No clock,  *)
(* heap, thread or informs.  AlarmScheduler implements it.                 *)
(***************************************************************************)
EXTENDS AlarmTableDefs

VARIABLES
  current,   \* what the NMS was last told
  pending,   \* what it will be told next; UNDEFINED_SEVERITY: nothing
  stopped

notifierVars == <<current, pending, stopped>>

NotifierInit ==
  /\ current = [a \in Alarms |-> UNDEFINED_SEVERITY]
  /\ pending = [a \in Alarms |-> UNDEFINED_SEVERITY]
  /\ stopped = FALSE

(* A changed severity replaces whatever was pending. *)
Request(a, s) ==
  /\ s # current[a]
  /\ pending' = [pending EXCEPT ![a] = s]

(* The alarm is back at the severity the NMS knows. *)
Cancel(a) ==
  /\ current[a] # UNDEFINED_SEVERITY
  /\ pending[a] # current[a]
  /\ pending' = [pending EXCEPT ![a] = UNDEFINED_SEVERITY]

(* The NMS is to be told again about alarms it was told of before. *)
Remind(S) ==
  /\ \A a \in S : current[a] # UNDEFINED_SEVERITY
  /\ pending' = [a \in Alarms |-> IF a \in S THEN current[a] ELSE pending[a]]

Notify(a) ==
  /\ pending[a] # UNDEFINED_SEVERITY
  /\ current' = [current EXCEPT ![a] = pending[a]]
  /\ pending' = [pending EXCEPT ![a] = UNDEFINED_SEVERITY]

Stop ==
  /\ stopped' = TRUE
  /\ pending' = [a \in Alarms |-> UNDEFINED_SEVERITY]
  /\ UNCHANGED current

NotifierNext ==
  /\ ~stopped
  /\ \/ /\ \/ \E a \in Alarms : \E s \in levels[a] : Request(a, s)
           \/ \E a \in Alarms : Cancel(a)
           \/ \E S \in SUBSET Alarms : Remind(S)
        /\ UNCHANGED <<current, stopped>>
     \/ \E a \in Alarms : Notify(a) /\ UNCHANGED stopped
     \/ Stop

NotifierSpec == NotifierInit /\ [][NotifierNext]_notifierVars
=============================================================================
