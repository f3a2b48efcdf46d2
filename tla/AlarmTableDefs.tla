--------------------------- MODULE AlarmTableDefs ---------------------------
(***************************************************************************)
(* The alarm definitions the agent loads once at start-up: for every alarm *)
(* index, the severity levels a definition exists for.  They never change  *)
(* afterwards, so they are constants of every other module.                *)
(***************************************************************************)
EXTENDS AlarmDef

CONSTANTS
  Alarms,   \* the alarm indexes that have a definition
  levels,   \* levels[a]: the severities alarm a is defined for
  Rank      \* the order operator> puts on AlarmDef::Severity

(* A JSON definition always names one of the real severities. *)
ASSUME LevelsAssumption ==
  levels \in [Alarms -> SUBSET (Severity \ {UNDEFINED_SEVERITY})]

(* operator> is a total order in which "nothing sent yet" is the lowest. *)
ASSUME RankAssumption ==
  /\ Rank \in [Severity -> Nat]
  /\ \A s, t \in Severity : Rank[s] = Rank[t] => s = t
  /\ \A s \in Severity \ {UNDEFINED_SEVERITY} :
        Rank[s] > Rank[UNDEFINED_SEVERITY]

(* get_definition(index, severity).is_valid() *)
is_valid(index, severity) == severity \in levels[index]

Exceeds(s, t) == Rank[s] > Rank[t]
=============================================================================
