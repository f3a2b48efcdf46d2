---------------------------- MODULE AlarmTables -----------------------------
(***************************************************************************)
(* Start-up of the alarms agent: AlarmTableDefs reads the JSON files of    *)
(* the alarms directory, in whatever order the directory lists them, and   *)
(* the definitions fill the Alarm Model Table and the ITU Alarm Table.     *)
(* The rows of these tables, of the Alarm Active Table and the informs     *)
(* point at each other by the keys of the rows.                            *)
(***************************************************************************)
EXTENDS AlarmDef, Sequences

CONSTANTS
  Files,          \* the entries of the directory
  Contents,       \* what a file may hold, see below
  InvalidJson,    \* the content of a file that fails its validation
  NotJson         \* the content of an entry that is no .json file

(* A valid file is a sequence of alarm definitions, each with an index and *)
(* the severities it has levels for.                                       *)
ASSUME ContentsAssumption ==
  /\ InvalidJson # NotJson
  /\ \A c \in Contents \ {InvalidJson, NotJson} :
       c \in Seq([index : Nat,
                 severities : SUBSET (Severity \ {UNDEFINED_SEVERITY})])

VARIABLES
  path_exists,   \* the directory is there
  content,       \* what each file holds
  files_left,    \* the files initialize() has yet to come to
  dup_check,     \* the indexes seen
  key_to_def,    \* _key_to_def: the AlarmTableDefs, each with its file
  startup,       \* how far the agent has come
  model_table, itu_table,   \* the rows of the two containers
  model_lost, itu_lost      \* the definitions they could not get a row for

tablesVars == <<path_exists, content, files_left, dup_check, key_to_def,
                startup, model_table, itu_table, model_lost, itu_lost>>

TablesInit ==
  /\ path_exists \in BOOLEAN
  /\ content \in [Files -> Contents]
  /\ files_left = Files
  /\ dup_check = {}
  /\ key_to_def = {}
  /\ startup = "initialize"
  /\ model_table = {} /\ itu_table = {}
  /\ model_lost = {} /\ itu_lost = {}

(* Slip: two levels share a state. *)
state_Shared(severity) == <<2, 1, 2, 6, 6, 4, 3>>[severity + 1]

(* AlarmTableDef::state, RFC 3877 section 5.4 *)
state(severity) == <<2, 1, 2, 6, 5, 4, 3>>[severity + 1]

AlarmTableDef(f, alarm) ==
  {[index |-> alarm.index, severity |-> s, file |-> f] : s \in alarm.severities}

-----------------------------------------------------------------------------
(* AlarmTableDefs::initialize                                              *)

OpenDirectory ==
  /\ startup = "initialize"
  /\ startup' = IF path_exists THEN "loading" ELSE "failed"
  /\ UNCHANGED <<path_exists, content, files_left, dup_check, key_to_def,
                 model_table, itu_table, model_lost, itu_lost>>

(* Slip: an index that another file has defined is not noticed. *)
Duplicates_InFile(alarms) ==
  {i \in DOMAIN alarms : \E j \in 1 .. i - 1 : alarms[j].index = alarms[i].index}

(* The alarms of a file at which populate_map would stop. *)
Duplicates(alarms) ==
  {i \in DOMAIN alarms :
     \/ alarms[i].index \in dup_check
     \/ \E j \in 1 .. i - 1 : alarms[j].index = alarms[i].index}

(* Inserts the alarms up to the first duplicate, if there is one.          *)
populate_map(f) ==
  LET alarms   == content[f]
      inserted == {i \in DOMAIN alarms : \A j \in Duplicates(alarms) : i < j}
  IN  /\ dup_check' = dup_check \cup {alarms[i].index : i \in inserted}
      /\ key_to_def' =
           key_to_def \cup UNION {AlarmTableDef(f, alarms[i]) : i \in inserted}
      /\ startup' = IF Duplicates(alarms) = {} THEN "loading" ELSE "failed"

LoadFile(f) ==
  /\ startup = "loading"
  /\ f \in files_left
  /\ files_left' = files_left \ {f}
  /\ \/ content[f] = NotJson /\ UNCHANGED <<dup_check, key_to_def, startup>>
     \/ /\ content[f] = InvalidJson
        /\ startup' = "failed"
        /\ UNCHANGED <<dup_check, key_to_def>>
     \/ content[f] \notin {NotJson, InvalidJson} /\ populate_map(f)
  /\ UNCHANGED <<path_exists, content, model_table, itu_table, model_lost,
                 itu_lost>>

(* initialize() returns true. *)
Loaded ==
  /\ startup = "loading"
  /\ files_left = {}
  /\ startup' = "loaded"
  /\ UNCHANGED <<path_exists, content, files_left, dup_check, key_to_def,
                 model_table, itu_table, model_lost, itu_lost>>

-----------------------------------------------------------------------------
(* The tables.  A container refuses a row whose key is taken; definitions  *)
(* come in the order of AlarmTableDefKey.                                  *)

Before(d, e) ==
  d.index < e.index \/ (d.index = e.index /\ d.severity < e.severity)

InsertAll(rows) ==
  {r \in rows : \A q \in rows : Before(q.def, r.def) => q.key # r.key}

alarmModelTable_insert_defs(defs) ==
  InsertAll({[key |-> <<d.index, state(d.severity)>>, def |-> d] : d \in defs})

ituAlarmTable_insert_defs(defs) ==
  InsertAll({[key |-> <<d.index, d.severity>>, def |-> d] : d \in defs})

(* Bound: no row is lost, one is, or the whole table is not registered. *)
Lost == {{}, key_to_def} \cup {{d} : d \in key_to_def}

init_alarmModelTable ==
  /\ startup = "loaded"
  /\ startup' = "model_table"
  /\ \E l \in Lost :
       /\ model_table' = alarmModelTable_insert_defs(key_to_def \ l)
       /\ model_lost' = l
  /\ UNCHANGED <<path_exists, content, files_left, dup_check, key_to_def,
                 itu_table, itu_lost>>

init_ituAlarmTable ==
  /\ startup = "model_table"
  /\ startup' = "ready"
  /\ \E l \in Lost :
       /\ itu_table' = ituAlarmTable_insert_defs(key_to_def \ l)
       /\ itu_lost' = l
  /\ UNCHANGED <<path_exists, content, files_left, dup_check, key_to_def,
                 model_table, model_lost>>

(* main() has returned, or goes on to start the scheduler.                 *)
StartedOrNot == startup \in {"failed", "ready"} /\ UNCHANGED tablesVars

TablesNext ==
  \/ OpenDirectory
  \/ \E f \in Files : LoadFile(f)
  \/ Loaded
  \/ init_alarmModelTable
  \/ init_ituAlarmTable
  \/ StartedOrNot

TablesSpec == TablesInit /\ [][TablesNext]_tablesVars

-----------------------------------------------------------------------------
(* What the columns of a row, and an inform, show for a definition.  A     *)
(* text stands for the definition it is taken from.                        *)

zero_dot_zero == <<0, 0>>

NotificationID(d) == IF d.severity = CLEARED THEN "clear" ELSE "active"

alarmModelTable_get_value(d) ==
  [NOTIFICATIONID  |-> NotificationID(d),
   VARBINDINDEX    |-> 0,
   VARBINDVALUE    |-> 0,
   DESCRIPTION     |-> d,
   SPECIFICPOINTER |-> <<d.index, d.severity>>,
   VARBINDSUBTREE  |-> zero_dot_zero,
   RESOURCEPREFIX  |-> zero_dot_zero,
   ROWSTATUS       |-> "active"]

ituAlarmTable_get_value(d) ==
  [EVENTTYPE      |-> "operationalViolation",
   PROBABLECAUSE  |-> d,
   ADDITIONALTEXT |-> d,
   GENERICMODEL   |-> <<d.index, state(d.severity)>>]

alarmActiveTable_get_value(d) ==
  [ENGINEID        |-> "",
   ADDRESSTYPE     |-> "that of local_ip",
   ADDRESS         |-> "local_ip",
   CONTEXTNAME     |-> "",
   VARBINDS        |-> 0,
   NOTIFICATIONID  |-> "active",
   RESOURCEID      |-> zero_dot_zero,
   DESCRIPTION     |-> d,
   LOGPOINTER      |-> zero_dot_zero,
   MODELPOINTER    |-> <<d.index, d.severity>>,
   SPECIFICPOINTER |-> zero_dot_zero]

send_rfc3877_trap(d) ==
  [trap        |-> NotificationID(d),
   model_row   |-> <<d.index, state(d.severity)>>,
   resource_id |-> zero_dot_zero]

send_enterprise_trap(d) ==
  [trap           |-> "clearwater alarm",
   MIB_version    |-> "MIB_VERSION",
   alarm_name     |-> d,
   alarm_oid      |-> <<d.index, state(d.severity)>>,
   resource_id    |-> zero_dot_zero,
   alarm_severity |-> d.severity,
   texts          |-> d,
   alarm_hostname |-> "hostname"]

-----------------------------------------------------------------------------
(* The definitions in the files, and whether they are in conflict.         *)
Entries(f) ==
  IF content[f] \in {NotJson, InvalidJson} THEN {} ELSE DOMAIN content[f]

AllDefs ==
  UNION {UNION {AlarmTableDef(f, content[f][i]) : i \in Entries(f)} : f \in Files}

Conflict ==
  \/ \E f \in Files : content[f] = InvalidJson
  \/ \E f, g \in Files : \E i \in Entries(f), j \in Entries(g) :
       <<f, i>> # <<g, j>> /\ content[f][i].index = content[g][j].index

(* Whatever the order of the files: initialize() returns true for a        *)
(* directory that is there and free of invalid files and of alarms defined *)
(* twice, then with all their definitions, and false for any other.        *)
LoadIsFaithful ==
  /\ startup = "failed" => ~path_exists \/ Conflict
  /\ startup \in {"loaded", "model_table", "ready"} =>
       path_exists /\ ~Conflict /\ key_to_def = AllDefs

(* The definitions whose row a pointer leads to. *)
Target(table, key) == {r.def : r \in {q \in table : q.key = key}}

(* The rows of a definition in the two tables point at each other, and     *)
(* informs of both types at that of the Model Table.  A pointer dangles    *)
(* only if there was no memory for the row itself, and then leads to no    *)
(* other definition's row; a row that is missing in one table costs the    *)
(* other none.                                                             *)
PointersResolve ==
  startup = "ready" =>
    \A d \in key_to_def :
      /\ Target(itu_table, alarmModelTable_get_value(d).SPECIFICPOINTER)
           = {d} \ itu_lost
      /\ Target(model_table, ituAlarmTable_get_value(d).GENERICMODEL)
           = {d} \ model_lost
      /\ Target(model_table, send_rfc3877_trap(d).model_row) = {d} \ model_lost
      /\ Target(model_table, send_enterprise_trap(d).alarm_oid)
           = {d} \ model_lost

(* "Alarm Model Table stores alarms according to alarmModelState": the row *)
(* of a raised alarm in the Active Table points at its row in the Model    *)
(* Table.                                                                  *)
ActivePointerResolves ==
  startup = "ready" =>
    \A d \in key_to_def \ model_lost :
      d.severity # CLEARED =>
        d \in Target(model_table, alarmActiveTable_get_value(d).MODELPOINTER)
=============================================================================
