---------------------------- MODULE AlarmHistory ----------------------------
(***************************************************************************)
(* AlarmScheduler with a history of its requests, the severity that was    *)
(* last requested for each alarm and whether a resync has taken the place  *)
(* of that request, and of its informs: whether the NMS acknowledged the   *)
(* current severity, and when it was last sent.                            *)
(***************************************************************************)
EXTENDS AlarmScheduler

VARIABLES requested, overwritten, delivered, last_sent

requestHistory == <<requested, overwritten>>
informHistory == <<delivered, last_sent>>
historyVars == <<vars, requestHistory, informHistory>>

HistoryInit ==
  /\ Init
  /\ requested = [a \in Alarms |-> UNDEFINED_SEVERITY]
  /\ overwritten = {}
  /\ delivered = [a \in Alarms |-> FALSE]
  /\ last_sent = [a \in Alarms |-> 0]

(* What the alarm will have been sent as once its timer has popped. *)
Outcome(a) == IF a \in heap THEN timer[a].severity ELSE severity[a]

HistoryNext ==
  \/ \E a \in Alarms, s \in Severity :
        /\ Issue(a, s)
        /\ requested' = [requested EXCEPT ![a] = s]
        /\ overwritten' = overwritten \ {a}
        /\ UNCHANGED informHistory
  \/ /\ Sync
     /\ overwritten' = overwritten \cup
                         {a \in known_alarms : Outcome(a) # severity[a]}
     /\ UNCHANGED <<requested, informHistory>>
  \/ \E a \in Alarms :
        /\ SendDueAlarm(a)
        /\ delivered' = [delivered EXCEPT ![a] = FALSE]
        /\ last_sent' = [last_sent EXCEPT ![a] = now]
        /\ UNCHANGED requestHistory
  \/ \E i \in Inform :
        /\ InformReceived(i)
        /\ delivered' = [delivered EXCEPT
                           ![i.index] = @ \/ i.severity = severity[i.index]]
        /\ UNCHANGED <<requestHistory, last_sent>>
  \/ /\ (\E i \in Inform : InformTimedOut(i)) \/ Internal
     /\ UNCHANGED <<requestHistory, informHistory>>

HistorySpec == HistoryInit /\ [][HistoryNext]_historyVars /\ Fairness

-----------------------------------------------------------------------------
(* The last request for an alarm always decides what it was or will be     *)
(* sent as, unless a resync found a change of the alarm waiting and put    *)
(* the current severity in its place: retries, cancelled changes and       *)
(* timers left over from them never bring back an older request.           *)
LastRequestWins ==
  thread # "joined" =>
    \A a \in Alarms \ overwritten : Outcome(a) = requested[a]

(* A severity that stays requested is sent, unless the agent stops first   *)
(* or a resync finds the change waiting.                                   *)
RequestIsReachedOrOverwritten ==
  \A a \in Alarms : \A s \in levels[a] :
    [](requested[a] = s /\ ~_terminated =>
         <>(\/ requested[a] # s \/ _terminated \/ severity[a] = s
            \/ a \in overwritten))

(* A severity that stays requested is sent, unless the agent stops first.  *)
RequestIsReached ==
  \A a \in Alarms : \A s \in levels[a] :
    [](requested[a] = s /\ ~_terminated =>
         <>(requested[a] # s \/ _terminated \/ severity[a] = s))

(* The NMS knows the current severity of a, or there is work left that     *)
(* will tell it.                                                           *)
Covered(a) ==
  \/ delivered[a]
  \/ a \in heap
  \/ \E i \in Inform :
        i.index = a /\ i.severity = severity[a] /\ informs[i] > 0

(* A severity the NMS did not acknowledge is being sent or will be retried *)
(* unless a request has cancelled a scheduled change of the alarm since it *)
(* was sent: a cancelled change is the only way to lose a retry.           *)
OnlyCancellingLosesRetries ==
  \A a \in Alarms :
    severity[a] # UNDEFINED_SEVERITY /\ thread # "joined" =>
      Covered(a) \/ timer[a].severity # UNDEFINED_SEVERITY

(* The NMS never sees a severity reduced sooner than ALARM_REDUCED_DELAY   *)
(* after the last inform for the alarm, however the requests flicker.      *)
ReductionsAreSpaced ==
  [][\A a \in Alarms :
       Exceeds(severity[a], severity'[a]) =>
         now >= last_sent[a] + ALARM_REDUCED_DELAY]_historyVars
=============================================================================
