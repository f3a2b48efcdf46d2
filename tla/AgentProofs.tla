----------------------------- MODULE AgentProofs ----------------------------
(***************************************************************************)
(* The alarms agent outside its scheduler.  The two static SNMP tables     *)
(* after start-up, for any directory: any number of files with any number  *)
(* of alarms, listed in any order.  The alarm active table, for any        *)
(* alarms, any range of its counter and any length of time.  The request   *)
(* listener inside its owner, for any clients and any number of requests   *)
(* and signals.                                                            *)
(***************************************************************************)
EXTENDS AlarmTables, AlarmActiveTable, AlarmsAgent, TLAPS

-----------------------------------------------------------------------------
(* The alarm model table and the ITU alarm table                           *)

(* The files initialize() has dealt with, and what they define. *)
Done == Files \ files_left
Indexes(f) == {content[f][i].index : i \in Entries(f)}
FileDefs(f) == UNION {AlarmTableDef(f, content[f][i]) : i \in Entries(f)}

(* The pairs of alarms with the same index that two files, or one, have. *)
Clash(f, g) ==
  \E i \in Entries(f), j \in Entries(g) :
    <<f, i>> # <<g, j>> /\ content[f][i].index = content[g][j].index

(* Unless it has failed, initialize() has found everything the files up to *)
(* now define, and nothing wrong with them; only a Conflict or a missing   *)
(* directory make it fail.                                                 *)
LoadInv ==
  /\ content \in [Files -> Contents]
  /\ files_left \subseteq Files
  /\ startup \in {"initialize", "loading", "failed", "loaded", "model_table", "ready"}
  /\ startup = "failed" => ~path_exists \/ Conflict
  /\ startup = "initialize" => files_left = Files
  /\ startup \in {"loading", "loaded", "model_table", "ready"} => path_exists
  /\ startup \in {"loaded", "model_table", "ready"} => files_left = {}
  /\ startup # "failed" =>
       /\ dup_check = UNION {Indexes(f) : f \in Done}
       /\ key_to_def = UNION {FileDefs(f) : f \in Done}
       /\ \A f \in Done : content[f] # InvalidJson
       /\ \A f, g \in Done : ~Clash(f, g)

(* Initially no file has been read. *)
LEMMA InitLoadInv == TablesInit => LoadInv
<1> SUFFICES ASSUME TablesInit PROVE LoadInv
  OBVIOUS
<1>1. Done = {}
  BY DEF TablesInit, Done
<1> QED
  BY <1>1 DEF TablesInit, LoadInv

(* A file that is valid is a sequence of definitions. *)
LEMMA ValidFile ==
  ASSUME LoadInv, NEW f \in Files, content[f] \notin {NotJson, InvalidJson}
  PROVE  /\ content[f] \in Seq([index : Nat,
                                severities : SUBSET (Severity \ {UNDEFINED_SEVERITY})])
         /\ Entries(f) = DOMAIN content[f]
         /\ Entries(f) = 1 .. Len(content[f]) /\ Len(content[f]) \in Nat
<1>1. content[f] \in Contents \ {InvalidJson, NotJson}
  BY DEF LoadInv
<1>2. content[f] \in Seq([index : Nat,
                         severities : SUBSET (Severity \ {UNDEFINED_SEVERITY})])
  BY <1>1, ContentsAssumption, Zenon
<1>3. Entries(f) = DOMAIN content[f]
  BY DEF Entries
<1> QED
  BY <1>2, <1>3

(* A conflict is an invalid file or a clash. *)
LEMMA ConflictIsClash ==
  Conflict <=> \/ \E f \in Files : content[f] = InvalidJson
               \/ \E f, g \in Files : Clash(f, g)
BY DEF Conflict, Clash

(* populate_map stops exactly where the file clashes with one that was     *)
(* read before, or with itself.                                            *)
LEMMA DuplicatesClash ==
  ASSUME LoadInv, startup = "loading", NEW f \in files_left,
         content[f] \notin {NotJson, InvalidJson}
  PROVE  Duplicates(content[f]) # {} <=> \E g \in Done \cup {f} : Clash(f, g)
<1> DEFINE alarms == content[f]
<1>0. f \in Files /\ f \notin Done
  BY DEF LoadInv, Done
<1>1. /\ Entries(f) = DOMAIN alarms
      /\ Entries(f) = 1 .. Len(alarms) /\ Len(alarms) \in Nat
  BY <1>0, ValidFile
<1>2. dup_check = UNION {Indexes(g) : g \in Done}
  BY DEF LoadInv
<1>3. ASSUME NEW i \in Duplicates(alarms)
      PROVE  \E g \in Done \cup {f} : Clash(f, g)
  <2>1. i \in Entries(f)
    BY <1>1 DEF Duplicates
  <2>2. CASE alarms[i].index \in dup_check
    <3>1. PICK g \in Done : alarms[i].index \in Indexes(g)
      BY <1>2, <2>2
    <3>2. PICK j \in Entries(g) : alarms[i].index = content[g][j].index
      BY <3>1 DEF Indexes
    <3> QED
      BY <1>0, <2>1, <3>1, <3>2 DEF Clash
  <2>3. ASSUME NEW j \in 1 .. i - 1, alarms[j].index = alarms[i].index
        PROVE  Clash(f, f)
    <3>1. j \in Entries(f) /\ i # j
      BY <1>1, <2>1
    <3> QED
      BY <2>1, <2>3, <3>1, Zenon DEF Clash
  <2> QED
    BY <2>2, <2>3 DEF Duplicates
<1>4. ASSUME NEW g \in Done, Clash(f, g)
      PROVE  Duplicates(alarms) # {}
  <2>1. PICK i \in Entries(f), j \in Entries(g) : alarms[i].index = content[g][j].index
    BY <1>4 DEF Clash
  <2>2. alarms[i].index \in dup_check
    BY <1>2, <2>1 DEF Indexes
  <2> QED
    BY <1>1, <2>2 DEF Duplicates
<1>5. ASSUME Clash(f, f)
      PROVE  Duplicates(alarms) # {}
  <2>1. PICK i \in Entries(f), j \in Entries(f) :
          i # j /\ alarms[i].index = alarms[j].index
    BY <1>5 DEF Clash
  <2>2. i \in 1 .. j - 1 \/ j \in 1 .. i - 1
    BY <1>1, <2>1
  <2> QED
    BY <1>1, <2>1, <2>2 DEF Duplicates
<1> QED
  BY <1>3, <1>4, <1>5

(* Two alarms clash whichever is looked at first. *)
LEMMA ClashSymmetric ==
  ASSUME NEW f, NEW g, Clash(f, g)
  PROVE  Clash(g, f)
BY DEF Clash

(* Reading a file. *)
LEMMA LoadFileStep ==
  ASSUME LoadInv, NEW f \in Files, LoadFile(f)
  PROVE  LoadInv'
<1>0. /\ startup = "loading" /\ f \in files_left /\ files_left' = files_left \ {f}
      /\ UNCHANGED <<path_exists, content>>
      /\ f \notin Done /\ Done' = Done \cup {f}
  BY DEF LoadFile, LoadInv, Done
<1>1. /\ dup_check = UNION {Indexes(g) : g \in Done}
      /\ key_to_def = UNION {FileDefs(g) : g \in Done}
      /\ \A g \in Done : content[g] # InvalidJson
      /\ \A g, h \in Done : ~Clash(g, h)
      /\ path_exists
  BY <1>0 DEF LoadInv
<1>2. /\ \A g : Entries(g)' = Entries(g)
      /\ \A g : Indexes(g)' = Indexes(g)
      /\ \A g : FileDefs(g)' = FileDefs(g)
      /\ \A g, h : Clash(g, h)' <=> Clash(g, h)
      /\ Conflict' <=> Conflict
  BY <1>0 DEF Entries, Indexes, FileDefs, Clash, Conflict
<1>3. ASSUME startup' = "failed", Conflict
      PROVE  LoadInv'
  BY <1>0, <1>2, <1>3 DEF LoadInv
<1>4. ASSUME startup' = "loading",
             dup_check' = dup_check \cup Indexes(f),
             key_to_def' = key_to_def \cup FileDefs(f),
             content[f] # InvalidJson,
             \A g \in Done \cup {f} : ~Clash(f, g)
      PROVE  LoadInv'
  <2>1. dup_check' = UNION {Indexes(g)' : g \in Done'}
    BY <1>0, <1>1, <1>2, <1>4
  <2>2. key_to_def' = UNION {FileDefs(g)' : g \in Done'}
    BY <1>0, <1>1, <1>2, <1>4
  <2>3. \A g \in Done' : content'[g] # InvalidJson
    BY <1>0, <1>1, <1>4
  <2>4. \A g, h \in Done' : ~Clash(g, h)'
    BY <1>0, <1>1, <1>2, <1>4, ClashSymmetric
  <2> QED
    BY <1>0, <1>1, <1>4, <2>1, <2>2, <2>3, <2>4 DEF LoadInv
<1>5. CASE content[f] = NotJson /\ UNCHANGED <<dup_check, key_to_def, startup>>
  <2>1. Entries(f) = {}
    BY <1>5 DEF Entries
  <2>2. Indexes(f) = {} /\ FileDefs(f) = {} /\ \A g : ~Clash(f, g)
    BY <2>1 DEF Indexes, FileDefs, Clash
  <2> QED
    BY <1>0, <1>4, <1>5, <2>2, ContentsAssumption
<1>6. CASE content[f] = InvalidJson /\ startup' = "failed"
  BY <1>3, <1>6 DEF Conflict
<1>7. CASE content[f] \notin {NotJson, InvalidJson} /\ populate_map(f)
  <2> DEFINE alarms == content[f]
             inserted == {i \in DOMAIN alarms : \A j \in Duplicates(alarms) : i < j}
  <2>0. /\ dup_check' = dup_check \cup {alarms[i].index : i \in inserted}
        /\ key_to_def' = key_to_def \cup UNION {AlarmTableDef(f, alarms[i]) : i \in inserted}
        /\ startup' = IF Duplicates(alarms) = {} THEN "loading" ELSE "failed"
    BY <1>7 DEF populate_map
  <2>1. Duplicates(alarms) # {} <=> \E g \in Done \cup {f} : Clash(f, g)
    BY <1>0, <1>7, DuplicatesClash
  <2>2. CASE Duplicates(alarms) = {}
    <3>1. inserted = Entries(f)
      BY <1>7, <2>2, ValidFile
    <3>2. /\ dup_check' = dup_check \cup Indexes(f)
          /\ key_to_def' = key_to_def \cup FileDefs(f)
      BY <2>0, <3>1 DEF Indexes, FileDefs
    <3> QED
      BY <1>4, <1>7, <2>0, <2>1, <2>2, <3>2
  <2>3. CASE Duplicates(alarms) # {}
    <3>1. Conflict
      BY <2>1, <2>3, ConflictIsClash DEF Done
    <3> QED
      BY <1>3, <2>0, <2>3, <3>1
  <2> QED
    BY <2>2, <2>3
<1> QED
  BY <1>5, <1>6, <1>7 DEF LoadFile

(* Every step keeps the invariant: the tables leave the definitions alone. *)
LEMMA StepLoadInv == LoadInv /\ [TablesNext]_tablesVars => LoadInv'
<1> SUFFICES ASSUME LoadInv, [TablesNext]_tablesVars PROVE LoadInv'
  OBVIOUS
<1>1. ASSUME UNCHANGED <<path_exists, content, files_left, dup_check, key_to_def>>
      PROVE  /\ Done' = Done
             /\ Conflict' <=> Conflict
             /\ UNION {Indexes(f)' : f \in Done'} = UNION {Indexes(f) : f \in Done}
             /\ UNION {FileDefs(f)' : f \in Done'} = UNION {FileDefs(f) : f \in Done}
             /\ \A f, g : Clash(f, g)' <=> Clash(f, g)
  BY <1>1 DEF Done, Conflict, Indexes, FileDefs, Clash, Entries
<1>2. CASE OpenDirectory
  BY <1>1, <1>2 DEF OpenDirectory, LoadInv
<1>3. ASSUME NEW f \in Files, LoadFile(f) PROVE LoadInv'
  BY <1>3, LoadFileStep
<1>4. CASE Loaded
  BY <1>1, <1>4 DEF Loaded, LoadInv
<1>5. CASE init_alarmModelTable
  BY <1>1, <1>5 DEF init_alarmModelTable, LoadInv
<1>6. CASE init_ituAlarmTable
  BY <1>1, <1>6 DEF init_ituAlarmTable, LoadInv
<1>7. CASE UNCHANGED tablesVars
  BY <1>1, <1>7 DEF tablesVars, LoadInv
<1> QED
  BY <1>2, <1>3, <1>4, <1>5, <1>6, <1>7 DEF TablesNext, StartedOrNot

(* The invariant holds throughout. *)
LEMMA LoadInvariance == TablesSpec => []LoadInv
  BY InitLoadInv, StepLoadInv, PTL DEF TablesSpec

(* Whatever the directory holds and in whatever order its files come,      *)
(* AlarmTableDefs::initialize returns true only for a directory without    *)
(* invalid files and alarms defined twice, then with exactly the           *)
(* definitions of its files, and false only for another.                   *)
THEOREM LoadThm == TablesSpec => []LoadIsFaithful
<1>1. LoadInv => LoadIsFaithful
  <2> SUFFICES ASSUME LoadInv PROVE LoadIsFaithful
    OBVIOUS
  <2>1. ASSUME startup \in {"loaded", "model_table", "ready"}
        PROVE  path_exists /\ ~Conflict /\ key_to_def = AllDefs
    <3>1. Done = Files
      BY <2>1 DEF LoadInv, Done
    <3>2. key_to_def = UNION {FileDefs(f) : f \in Files}
      BY <2>1, <3>1 DEF LoadInv
    <3>3. key_to_def = AllDefs
      BY <3>2 DEF FileDefs, AllDefs
    <3> QED
      BY <2>1, <3>1, <3>3, ConflictIsClash DEF LoadInv
  <2> QED
    BY <2>1 DEF LoadInv, LoadIsFaithful
<1> QED
  BY <1>1, LoadInvariance, PTL

-----------------------------------------------------------------------------
(* The tables hold what insert_defs leaves of the definitions without      *)
(* those there was no row for.                                             *)
RowsInv ==
  /\ startup \in {"model_table", "ready"} =>
       model_table = alarmModelTable_insert_defs(key_to_def \ model_lost)
  /\ startup = "ready" =>
       itu_table = ituAlarmTable_insert_defs(key_to_def \ itu_lost)

(* The two steps that fill the tables. *)
LEMMA StepRowsInv == RowsInv /\ [TablesNext]_tablesVars => RowsInv'
<1> SUFFICES ASSUME RowsInv, [TablesNext]_tablesVars PROVE RowsInv'
  OBVIOUS
<1> USE DEF alarmModelTable_insert_defs, ituAlarmTable_insert_defs
<1>1. CASE startup' \notin {"model_table", "ready"}
  BY <1>1 DEF RowsInv
<1>2. CASE init_alarmModelTable
  BY <1>2 DEF init_alarmModelTable, RowsInv
<1>3. CASE init_ituAlarmTable
  BY <1>3 DEF init_ituAlarmTable, RowsInv
<1>4. CASE UNCHANGED tablesVars
  BY <1>4, Zenon DEF tablesVars, RowsInv
<1> QED
  BY <1>1, <1>2, <1>3, <1>4
  DEF TablesNext, OpenDirectory, LoadFile, populate_map, Loaded, StartedOrNot

(* RFC 3877's states tell the severities apart. *)
LEMMA StateInjective ==
  \A s, t \in Severity \ {UNDEFINED_SEVERITY} : state(s) = state(t) => s = t
<1>1. /\ state(1) = 1 /\ state(2) = 2 /\ state(3) = 6
      /\ state(4) = 5 /\ state(5) = 4 /\ state(6) = 3
  BY DEF state
<1>2. \A s \in Severity \ {UNDEFINED_SEVERITY} : s \in {1, 2, 3, 4, 5, 6}
  BY DEF Severity, UNDEFINED_SEVERITY
<1> QED
  BY <1>1, <1>2

(* The definitions that were loaded have an index and a severity. *)
LEMMA DefFields ==
  ASSUME LoadInv, startup = "ready", NEW d \in key_to_def
  PROVE  d.index \in Nat /\ d.severity \in Severity \ {UNDEFINED_SEVERITY}
<1>1. PICK f \in Files : d \in FileDefs(f)
  BY DEF LoadInv, Done
<1>2. PICK i \in Entries(f) : d \in AlarmTableDef(f, content[f][i])
  BY <1>1 DEF FileDefs
<1>3. content[f] \notin {NotJson, InvalidJson}
  BY <1>2 DEF Entries
<1> DEFINE alarm == [index : Nat, severities : SUBSET (Severity \ {UNDEFINED_SEVERITY})]
<1>4. content[f] \in Seq(alarm) /\ i \in 1 .. Len(content[f])
  BY <1>2, <1>3, ValidFile, Zenon
<1>5. content[f][i] \in alarm
  <2> HIDE DEF alarm
  <2> QED
    BY <1>4
<1> QED
  BY <1>2, <1>5 DEF AlarmTableDef

(* A definition comes from one alarm of one file. *)
LEMMA DefOrigin ==
  ASSUME LoadInv, startup = "ready", NEW d \in key_to_def
  PROVE  \E f \in Done : \E i \in Entries(f) :
           /\ d.index = content[f][i].index
           /\ d = [index |-> d.index, severity |-> d.severity, file |-> f]
<1>1. PICK f \in Done : d \in FileDefs(f)
  BY DEF LoadInv
<1>2. PICK i \in Entries(f) : d \in AlarmTableDef(f, content[f][i])
  BY <1>1 DEF FileDefs
<1> QED
  BY <1>2 DEF AlarmTableDef

(* The index and the severity, or its state, tell the definitions apart:   *)
(* no two files, and no two alarms of a file, share an index.              *)
LEMMA KeysDiffer ==
  ASSUME LoadInv, startup = "ready",
         NEW d \in key_to_def, NEW e \in key_to_def, e.index = d.index,
         e.severity = d.severity \/ state(e.severity) = state(d.severity)
  PROVE  e = d
<1>1. e.severity = d.severity
  BY DefFields, StateInjective
<1>2. PICK f \in Done : \E i \in Entries(f) :
        /\ d.index = content[f][i].index
        /\ d = [index |-> d.index, severity |-> d.severity, file |-> f]
  BY DefOrigin
<1>3. PICK g \in Done : \E i \in Entries(g) :
        /\ e.index = content[g][i].index
        /\ e = [index |-> e.index, severity |-> e.severity, file |-> g]
  BY DefOrigin
<1>4. ~Clash(f, g)
  BY DEF LoadInv
<1>5. f = g
  BY <1>2, <1>3, <1>4 DEF Clash
<1> QED
  BY <1>1, <1>2, <1>3, <1>5

(* A container refuses no row if the keys differ, so that a key leads to   *)
(* the row of its definition, or to none if there was none to insert.      *)
LEMMA KeyLeadsToRow ==
  ASSUME NEW rows, NEW k, NEW d, NEW l,
         \A r \in rows : r.def \notin l /\ (r.key = k => r.def = d),
         d \notin l => [key |-> k, def |-> d] \in rows,
         ~Before(d, d)
  PROVE  Target(InsertAll(rows), k) = {d} \ l
<1> DEFINE row == [key |-> k, def |-> d]
<1>1. ASSUME NEW r \in InsertAll(rows), r.key = k
      PROVE  r.def = d /\ d \notin l
  BY <1>1 DEF InsertAll
<1>2. row.key = k /\ row.def = d
  OBVIOUS
<1>3. ASSUME d \notin l
      PROVE  row \in InsertAll(rows)
  <2>1. row \in rows
    BY <1>3
  <2> HIDE DEF row
  <2>2. \A q \in rows : Before(q.def, row.def) => q.key # row.key
    BY <1>2
  <2> QED
    BY <2>1, <2>2, Zenon DEF InsertAll
<1> HIDE DEF row
<1>4. {r.def : r \in {q \in InsertAll(rows) : q.key = k}} = {d} \ l
  BY <1>1, <1>2, <1>3
<1> QED
  BY <1>4 DEF Target

(* Both tables' keys lead to their rows. *)
LEMMA TablesLeadToRows ==
  ASSUME LoadInv, startup = "ready", NEW l, NEW d \in key_to_def
  PROVE  /\ Target(alarmModelTable_insert_defs(key_to_def \ l),
                   <<d.index, state(d.severity)>>) = {d} \ l
         /\ Target(ituAlarmTable_insert_defs(key_to_def \ l),
                   <<d.index, d.severity>>) = {d} \ l
<1>1. ~Before(d, d)
  <2>1. d.index \in Nat /\ d.severity \in Nat
    BY DefFields DEF Severity
  <2> QED
    BY <2>1 DEF Before
<1>2. ASSUME NEW e \in key_to_def,
             \/ <<e.index, state(e.severity)>> = <<d.index, state(d.severity)>>
             \/ <<e.index, e.severity>> = <<d.index, d.severity>>
      PROVE  e = d
  BY <1>2, KeysDiffer
<1>3. Target(alarmModelTable_insert_defs(key_to_def \ l), <<d.index, state(d.severity)>>)
        = {d} \ l
  <2> DEFINE row(e) == [key |-> <<e.index, state(e.severity)>>, def |-> e]
             rows == {row(e) : e \in key_to_def \ l}
  <2>1. ASSUME NEW r \in rows
        PROVE  r.def \notin l /\ (r.key = <<d.index, state(d.severity)>> => r.def = d)
    <3>1. PICK e \in key_to_def \ l : r = row(e)
      OBVIOUS
    <3> QED
      BY <1>2, <3>1
  <2>2. ASSUME d \notin l
        PROVE  [key |-> <<d.index, state(d.severity)>>, def |-> d] \in rows
    <3>1. d \in key_to_def \ l
      BY <2>2
    <3> QED
      BY <3>1, Zenon
  <2>3. alarmModelTable_insert_defs(key_to_def \ l) = InsertAll(rows)
    BY Zenon DEF alarmModelTable_insert_defs
  <2> HIDE DEF rows
  <2>4. Target(InsertAll(rows), <<d.index, state(d.severity)>>) = {d} \ l
    BY <1>1, <2>1, <2>2, KeyLeadsToRow
  <2> QED
    BY <2>3, <2>4, Zenon
<1>4. Target(ituAlarmTable_insert_defs(key_to_def \ l), <<d.index, d.severity>>)
        = {d} \ l
  <2> DEFINE row(e) == [key |-> <<e.index, e.severity>>, def |-> e]
             rows == {row(e) : e \in key_to_def \ l}
  <2>1. ASSUME NEW r \in rows
        PROVE  r.def \notin l /\ (r.key = <<d.index, d.severity>> => r.def = d)
    <3>1. PICK e \in key_to_def \ l : r = row(e)
      OBVIOUS
    <3> QED
      BY <1>2, <3>1
  <2>2. ASSUME d \notin l
        PROVE  [key |-> <<d.index, d.severity>>, def |-> d] \in rows
    <3>1. d \in key_to_def \ l
      BY <2>2
    <3> QED
      BY <3>1, Zenon
  <2>3. ituAlarmTable_insert_defs(key_to_def \ l) = InsertAll(rows)
    BY Zenon DEF ituAlarmTable_insert_defs
  <2> HIDE DEF rows
  <2>4. Target(InsertAll(rows), <<d.index, d.severity>>) = {d} \ l
    BY <1>1, <2>1, <2>2, KeyLeadsToRow
  <2> QED
    BY <2>3, <2>4, Zenon
<1> QED
  BY <1>3, <1>4

(* For any set of definitions and whatever rows there was no memory for,   *)
(* the rows of a definition in the Alarm Model Table and the ITU Alarm     *)
(* Table point at each other and informs of both types at the former; a    *)
(* pointer to a row that is missing leads to no other row.                 *)
THEOREM PointersThm == TablesSpec => []PointersResolve
<1>1. TablesInit => RowsInv
  BY DEF TablesInit, RowsInv
<1>2. LoadInv /\ RowsInv => PointersResolve
  <2> SUFFICES ASSUME LoadInv, RowsInv, startup = "ready", NEW d \in key_to_def
               PROVE  /\ Target(itu_table, alarmModelTable_get_value(d).SPECIFICPOINTER)
                           = {d} \ itu_lost
                      /\ Target(model_table, ituAlarmTable_get_value(d).GENERICMODEL)
                           = {d} \ model_lost
                      /\ Target(model_table, send_rfc3877_trap(d).model_row)
                           = {d} \ model_lost
                      /\ Target(model_table, send_enterprise_trap(d).alarm_oid)
                           = {d} \ model_lost
    BY DEF PointersResolve
  <2>1. /\ model_table = alarmModelTable_insert_defs(key_to_def \ model_lost)
        /\ itu_table = ituAlarmTable_insert_defs(key_to_def \ itu_lost)
    BY DEF RowsInv
  <2>2. Target(model_table, <<d.index, state(d.severity)>>) = {d} \ model_lost
    BY <2>1, TablesLeadToRows, Zenon
  <2>3. Target(itu_table, <<d.index, d.severity>>) = {d} \ itu_lost
    BY <2>1, TablesLeadToRows, Zenon
  <2>4. /\ alarmModelTable_get_value(d).SPECIFICPOINTER = <<d.index, d.severity>>
        /\ ituAlarmTable_get_value(d).GENERICMODEL = <<d.index, state(d.severity)>>
        /\ send_rfc3877_trap(d).model_row = <<d.index, state(d.severity)>>
        /\ send_enterprise_trap(d).alarm_oid = <<d.index, state(d.severity)>>
    BY DEF alarmModelTable_get_value, ituAlarmTable_get_value, send_rfc3877_trap,
           send_enterprise_trap
  <2> QED
    BY <2>2, <2>3, <2>4, Zenon
<1> QED
  BY <1>1, <1>2, LoadInvariance, StepRowsInv, PTL DEF TablesSpec

-----------------------------------------------------------------------------
(* The alarm active table                                                  *)

(* The counter a row of this second was created with is at most as many    *)
(* steps behind the current one as this second has used, going round at    *)
(* UINT_MAX.  Once a failed allocation has carried the counter past        *)
(* UINT_MAX - 1 it never goes round again.                                 *)
Used(r) ==
  LET p == r.counter - 1 IN
  \/ p < alarm_counter /\ alarm_counter - p <= created
  \/ p >= alarm_counter /\ p < UINT_MAX /\ alarm_counter - p + UINT_MAX <= created

HasRow(a) == alarm_indexes_to_rows[a] # NoRow

(* For the rows to have different keys, those of this second must not have *)
(* the counter value that comes next.                                      *)
TableInv ==
  /\ alarm_counter \in Nat /\ created \in Nat /\ datetime \in 0 .. MaxTime
  /\ alarm_indexes_to_rows \in [Alarms -> Row \cup {NoRow}]
  /\ \A a \in Alarms : HasRow(a) =>
       LET r == alarm_indexes_to_rows[a] IN
       /\ r.index = a
       /\ r.time <= datetime
       /\ r.time = datetime => Used(r)
  /\ \A a, b \in Alarms :
       HasRow(a) /\ HasRow(b)
         /\ SameKey(alarm_indexes_to_rows[a], alarm_indexes_to_rows[b]) => a = b
  /\ ContainerMatchesMap

(* The rows of the alarms other than a. *)
Others(a) == {alarm_indexes_to_rows[b] : b \in Alarms \ {a}} \ {NoRow}

(* A new row is its alarm's, and has the time it is created at. *)
LEMMA NewRowFields ==
  \A a, s : NewRow(a, s).index = a /\ NewRow(a, s).time = datetime
BY DEF NewRow

(* Initially both are empty. *)
LEMMA InitTableInv == TableInit => TableInv
  BY CounterAssumption DEF TableInit, TableInv, HasRow, ContainerMatchesMap

(* Every row has its fields. *)
LEMMA RowFields ==
  ASSUME TableInv, NEW a \in Alarms, HasRow(a)
  PROVE  /\ alarm_indexes_to_rows[a] \in Row
         /\ alarm_indexes_to_rows[a].time \in Nat
         /\ alarm_indexes_to_rows[a].counter \in Nat \ {0}
<1>1. alarm_indexes_to_rows[a] \in Row
  BY DEF TableInv, HasRow
<1> QED
  BY <1>1 DEF Row

(* What is left of the container without the row of an alarm. *)
LEMMA Without ==
  ASSUME TableInv, NEW a \in Alarms
  PROVE  /\ ~HasRow(a) => container = Others(a)
         /\ HasRow(a) => Remove(container, alarm_indexes_to_rows[a]) = Others(a)
<1>1. ~HasRow(a) => container = Others(a)
  BY DEF TableInv, ContainerMatchesMap, Others, HasRow
<1>2. ASSUME HasRow(a)
      PROVE  Remove(container, alarm_indexes_to_rows[a]) = Others(a)
  <2>1. ASSUME NEW b \in Alarms, HasRow(b)
        PROVE  SameKey(alarm_indexes_to_rows[b], alarm_indexes_to_rows[a]) <=> b = a
    BY <1>2, <2>1 DEF TableInv, SameKey
  <2>2. \A b \in Alarms : HasRow(b) /\ alarm_indexes_to_rows[b] = alarm_indexes_to_rows[a] => b = a
    BY <2>1 DEF SameKey
  <2>3. container = {alarm_indexes_to_rows[b] : b \in Alarms} \ {NoRow}
    BY DEF TableInv, ContainerMatchesMap
  <2> QED
    BY <2>1, <2>2, <2>3 DEF Remove, Others, HasRow
<1> QED
  BY <1>1, <1>2

(* No row of this second has the counter value that comes next. *)
LEMMA NextIsFree ==
  ASSUME TableInv, created < UINT_MAX, NEW a \in Alarms, NEW s,
         NEW b \in Alarms, HasRow(b)
  PROVE  ~SameKey(alarm_indexes_to_rows[b], NewRow(a, s))
<1> DEFINE r == alarm_indexes_to_rows[b]
<1>1. r.counter \in Nat \ {0} /\ r.time \in Nat
  BY RowFields
<1>2. r.time = datetime => Used(r)
  BY DEF TableInv
<1>3. Used(r) => r.counter # alarm_counter + 1
  BY <1>1, CounterAssumption DEF Used, TableInv, CounterAssumption
<1> QED
  BY <1>2, <1>3 DEF SameKey, NewRow

(* One more value is used: the counter advances, and goes round if it may. *)
LEMMA UsedAdvances ==
  ASSUME TableInv, created < UINT_MAX, created' = created + 1,
         alarm_counter' \in {NextCounter(alarm_counter), alarm_counter + 1},
         NEW b \in Alarms, HasRow(b), Used(alarm_indexes_to_rows[b])
  PROVE  \/ /\ alarm_indexes_to_rows[b].counter - 1 < alarm_counter'
            /\ alarm_counter' - (alarm_indexes_to_rows[b].counter - 1) <= created'
         \/ /\ alarm_indexes_to_rows[b].counter - 1 >= alarm_counter'
            /\ alarm_indexes_to_rows[b].counter - 1 < UINT_MAX
            /\ alarm_counter' - (alarm_indexes_to_rows[b].counter - 1) + UINT_MAX <= created'
<1> DEFINE p == alarm_indexes_to_rows[b].counter - 1
<1>1. p \in Nat /\ alarm_counter \in Nat /\ created \in Nat /\ UINT_MAX \in Nat \ {0}
  BY RowFields, CounterAssumption DEF TableInv, CounterAssumption
<1>2. \/ p < alarm_counter /\ alarm_counter - p <= created
      \/ p >= alarm_counter /\ p < UINT_MAX /\ alarm_counter - p + UINT_MAX <= created
  BY DEF Used
<1>3. \/ alarm_counter' = alarm_counter + 1
      \/ alarm_counter + 1 = UINT_MAX /\ alarm_counter' = 0
  BY DEF NextCounter
<1> HIDE DEF p
<1>4. \/ p < alarm_counter' /\ alarm_counter' - p <= created'
      \/ p >= alarm_counter' /\ p < UINT_MAX /\ alarm_counter' - p + UINT_MAX <= created'
  BY <1>1, <1>2, <1>3
<1> QED
  BY <1>4 DEF p

(* Creating the row of an alarm that has none left in the container. *)
LEMMA CreateRow ==
  ASSUME TableInv, NEW a \in Alarms, NEW s \in levels[a], s # CLEARED,
         created < UINT_MAX, UNCHANGED datetime,
         alarmActiveTable_create_row(a, s, Others(a))
  PROVE  TableInv'
<1> DEFINE map == alarm_indexes_to_rows
<1>t. /\ alarm_counter \in Nat /\ created \in Nat /\ datetime \in 0 .. MaxTime
      /\ UINT_MAX \in Nat \ {0} /\ MaxTime \in Nat
      /\ map \in [Alarms -> Row \cup {NoRow}]
  BY CounterAssumption DEF TableInv, CounterAssumption
<1>r. NewRow(a, s) \in Row /\ NewRow(a, s) # NoRow
  <2>1. s \in Severity \ {UNDEFINED_SEVERITY, CLEARED}
    BY LevelsAssumption DEF LevelsAssumption
  <2>2. NewRow(a, s) \in Row
    BY <1>t, <2>1 DEF NewRow, Row
  <2>3. NewRow(a, s).severity # NoRow.severity
    BY <2>1 DEF NewRow, NoRow
  <2> QED
    BY <2>2, <2>3
<1>o. Others(a) = {map[b] : b \in Alarms \ {a}} \ {NoRow}
  BY DEF Others
<1>1. CASE /\ container' = Insert(Others(a), NewRow(a, s))
           /\ map' = [map EXCEPT ![a] = NewRow(a, s)]
           /\ alarm_counter' = NextCounter(alarm_counter)
           /\ created' = created + 1
  <2>1. map' \in [Alarms -> Row \cup {NoRow}]
    BY <1>1, <1>t, <1>r
  <2>2. alarm_counter' \in Nat /\ created' \in Nat
    BY <1>1, <1>t DEF NextCounter
  <2>3. \A b \in Alarms \ {a} : HasRow(b)' => HasRow(b) /\ map'[b] = map[b]
    BY <1>1, <1>t DEF HasRow
  <2>4. map'[a] = NewRow(a, s)
    BY <1>1, <1>t
  <2>5. ASSUME NEW b \in Alarms, HasRow(b)'
        PROVE  /\ map'[b].index = b
               /\ map'[b].time <= datetime'
               /\ map'[b].time = datetime' => Used(map[b])'
    <3>1. CASE b = a
      <4>1. map'[b].counter - 1 = alarm_counter
        <5>1. map'[b].counter = alarm_counter + 1
          BY <3>1, <2>4 DEF NewRow
        <5> QED
          BY <5>1, <1>t
      <4>2. \/ alarm_counter' = alarm_counter + 1
            \/ alarm_counter + 1 = UINT_MAX /\ alarm_counter' = 0
        BY <1>1 DEF NextCounter
      <4>3. Used(map[b])'
        BY <4>1, <4>2, <1>1, <1>t DEF Used
      <4>4. map'[b].index = b /\ map'[b].time = datetime
        <5>1. map'[b] = NewRow(b, s)
          BY <3>1, <2>4, Zenon
        <5>2. NewRow(b, s).index = b /\ NewRow(b, s).time = datetime
          BY NewRowFields, Zenon
        <5> QED
          BY <5>1, <5>2, Zenon
      <4>5. datetime' = datetime /\ datetime <= datetime
        BY <1>t
      <4> QED
        BY <4>3, <4>4, <4>5, Zenon
    <3>2. CASE b # a
      <4>1. HasRow(b) /\ map'[b] = map[b]
        BY <3>2, <2>3, <2>5
      <4>2. Used(map[b]) => Used(map[b])'
        BY <1>1, <4>1, UsedAdvances, Zenon DEF Used
      <4> QED
        BY <4>1, <4>2, Zenon DEF TableInv
    <3> QED
      BY <3>1, <3>2
  <2>6. \A b \in Alarms \ {a} : HasRow(b) => ~SameKey(map[b], NewRow(a, s))
    BY NextIsFree
  <2>7. ASSUME NEW b \in Alarms, NEW c \in Alarms, HasRow(b)', HasRow(c)',
               SameKey(map[b], map[c])'
        PROVE  b = c
    <3>1. CASE b # a /\ c # a
      BY <3>1, <2>3, <2>7, Zenon DEF TableInv, SameKey
    <3>2. CASE b = a /\ c # a
      BY <3>2, <2>3, <2>4, <2>6, <2>7, Zenon DEF SameKey
    <3>3. CASE b # a /\ c = a
      BY <3>3, <2>3, <2>4, <2>6, <2>7 DEF SameKey
    <3> QED
      BY <3>1, <3>2, <3>3
  <2>8. Insert(Others(a), NewRow(a, s)) = Others(a) \cup {NewRow(a, s)}
    BY <2>6, <1>o DEF Insert, HasRow
  <2>9. ContainerMatchesMap'
    BY <1>1, <2>8, <1>o, <1>r, <1>t DEF ContainerMatchesMap
  <2> QED
    BY <2>1, <2>2, <2>5, <2>7, <2>9, <1>t, Zenon DEF TableInv
<1>2. CASE /\ container' = Others(a)
           /\ map' = [map EXCEPT ![a] = NoRow]
           /\ \/ UNCHANGED <<alarm_counter, created>>
              \/ alarm_counter' = alarm_counter + 1 /\ created' = created + 1
  <2>1. \A b \in Alarms : HasRow(b)' => HasRow(b) /\ map'[b] = map[b]
    BY <1>2, <1>t DEF HasRow
  <2>2. ASSUME NEW b \in Alarms, HasRow(b)', Used(map[b])
        PROVE  Used(map[b])'
    <3>1. HasRow(b) /\ map'[b] = map[b]
      BY <2>1, <2>2
    <3>2. CASE UNCHANGED <<alarm_counter, created>>
      BY <3>1, <3>2, <2>2 DEF Used
    <3>3. CASE alarm_counter' = alarm_counter + 1 /\ created' = created + 1
      BY <3>1, <3>3, <2>2, UsedAdvances DEF Used
    <3> QED
      BY <1>2, <3>2, <3>3
  <2>3. ContainerMatchesMap'
    BY <1>2, <1>o, <1>t DEF ContainerMatchesMap
  <2>4. map' \in [Alarms -> Row \cup {NoRow}]
    BY <1>2, <1>t
  <2>5. alarm_counter' \in Nat /\ created' \in Nat /\ datetime' \in 0 .. MaxTime
    BY <1>2, <1>t
  <2>6. ASSUME NEW b \in Alarms, HasRow(b)'
        PROVE  /\ map'[b].index = b
               /\ map'[b].time <= datetime'
               /\ map'[b].time = datetime' => Used(map[b])'
    BY <2>1, <2>2, <2>6, Zenon DEF TableInv
  <2>7. ASSUME NEW b \in Alarms, NEW c \in Alarms, HasRow(b)', HasRow(c)',
               SameKey(map[b], map[c])'
        PROVE  b = c
    BY <2>1, <2>7, Zenon DEF TableInv, SameKey
  <2> QED
    BY <2>3, <2>4, <2>5, <2>6, <2>7, Zenon DEF TableInv
<1> QED
  BY <1>1, <1>2 DEF alarmActiveTable_create_row

(* Deleting the row of an alarm. *)
LEMMA DeleteRow ==
  ASSUME TableInv, NEW a \in Alarms, HasRow(a), UNCHANGED datetime,
         alarmActiveTable_delete_row(a)
  PROVE  TableInv'
<1> DEFINE map == alarm_indexes_to_rows
<1>1. map' = [map EXCEPT ![a] = NoRow] /\ UNCHANGED <<alarm_counter, created>>
  BY DEF alarmActiveTable_delete_row
<1>2. \A b \in Alarms : HasRow(b)' => HasRow(b) /\ map'[b] = map[b]
  BY <1>1 DEF HasRow, TableInv
<1>3. ContainerMatchesMap'
  <2>1. container' = Others(a)
    BY Without DEF alarmActiveTable_delete_row
  <2> QED
    BY <2>1, <1>1 DEF ContainerMatchesMap, Others, TableInv
<1>4. ASSUME NEW b \in Alarms, HasRow(b)'
      PROVE  /\ map'[b].index = b
             /\ map'[b].time <= datetime'
             /\ map'[b].time = datetime' => Used(map[b])'
  BY <1>1, <1>2, <1>4 DEF TableInv, Used
<1>5. ASSUME NEW b \in Alarms, NEW c \in Alarms, HasRow(b)', HasRow(c)',
             SameKey(map[b], map[c])'
      PROVE  b = c
  BY <1>2, <1>5 DEF TableInv, SameKey
<1>6. map' \in [Alarms -> Row \cup {NoRow}]
  BY <1>1 DEF TableInv
<1> QED
  BY <1>1, <1>3, <1>4, <1>5, <1>6 DEF TableInv

(* A new second: every row is older. *)
LEMMA SecondKeeps ==
  ASSUME TableInv, Second
  PROVE  TableInv'
<1>1. /\ datetime' = datetime + 1 /\ datetime < MaxTime /\ created' = 0
      /\ UNCHANGED <<alarm_indexes_to_rows, container, alarm_counter>>
  BY DEF Second, rowVars
<1>2. datetime \in Nat /\ MaxTime \in Nat /\ datetime' \in 0 .. MaxTime
  BY <1>1, CounterAssumption DEF TableInv, CounterAssumption
<1>3. ASSUME NEW b \in Alarms, HasRow(b)
      PROVE  /\ alarm_indexes_to_rows[b].index = b
             /\ alarm_indexes_to_rows[b].time < datetime'
  <2>1. alarm_indexes_to_rows[b].time \in Nat
    BY <1>3, RowFields
  <2> QED
    BY <2>1, <1>1, <1>2, <1>3 DEF TableInv
<1>4. \A b \in Alarms : HasRow(b) => alarm_indexes_to_rows[b].time \in Nat
  BY RowFields
<1> QED
  BY <1>1, <1>2, <1>3, <1>4
  DEF TableInv, HasRow, SameKey, ContainerMatchesMap

(* Every step keeps the invariant. *)
LEMMA TableInvInductive == TableInv /\ [TableNext]_tableVars => TableInv'
<1> SUFFICES ASSUME TableInv, [TableNext]_tableVars
             PROVE  TableInv'
  OBVIOUS
<1>1. ASSUME UNCHANGED <<alarm_indexes_to_rows, container, alarm_counter, created, datetime>>
      PROVE  TableInv'
  BY <1>1 DEF TableInv, HasRow, Used, SameKey, ContainerMatchesMap
<1>2. ASSUME NEW a \in Alarms, NEW s \in levels[a], update_alarm_state(a, s)
      PROVE  TableInv'
  <2>0. /\ created < UINT_MAX \/ s = CLEARED
        /\ alarmActiveTable_trap_handler(a, s)
        /\ UNCHANGED datetime
    BY <1>2 DEF update_alarm_state
  <2>1. CASE ~HasRow(a) /\ s # CLEARED /\ alarmActiveTable_create_row(a, s, container)
    <3>1. container = Others(a)
      BY <2>1, Without
    <3> QED
      BY <2>0, <2>1, <3>1, CreateRow, Zenon
  <2>2. CASE HasRow(a) /\ s # CLEARED /\ ReplaceRow(a, s)
    <3>1. Remove(container, alarm_indexes_to_rows[a]) = Others(a)
      BY <2>2, Without
    <3> QED
      BY <2>0, <2>2, <3>1, CreateRow, Zenon DEF ReplaceRow
  <2>3. CASE UNCHANGED <<rowVars, created>>
    BY <2>0, <2>3, <1>1 DEF rowVars
  <2>4. CASE HasRow(a) /\ alarmActiveTable_delete_row(a)
    BY <2>0, <2>4, DeleteRow
  <2> QED
    BY <2>0, <2>1, <2>2, <2>3, <2>4, Zenon DEF alarmActiveTable_trap_handler, HasRow
<1>3. CASE Second
  BY <1>3, SecondKeeps
<1>4. CASE UNCHANGED tableVars
  BY <1>1, <1>4 DEF tableVars, rowVars
<1> QED
  BY <1>2, <1>3, <1>4 DEF TableNext

(* Container and map agree at all times: alarmActiveTable_create_row never *)
(* meets a key that is taken and alarmActiveTable_delete_row never leaves  *)
(* a freed row behind, whatever the number of alarms and UINT_MAX, as long *)
(* as no second uses more counter values than there are.                   *)
THEOREM ContainerMatchesMapThm == TableSpec => []ContainerMatchesMap
<1>1. TableInv => ContainerMatchesMap
  BY DEF TableInv
<1> QED
  BY <1>1, InitTableInv, TableInvInductive, PTL DEF TableSpec

-----------------------------------------------------------------------------
(* The container shows of every alarm what its row in the map says. *)
LEMMA ShownIsMapped ==
  TableInv => \A a \in Alarms : Shown(a) = alarm_indexes_to_rows[a].severity
<1> SUFFICES ASSUME TableInv, NEW a \in Alarms
             PROVE  Shown(a) = alarm_indexes_to_rows[a].severity
  OBVIOUS
<1> DEFINE rows == {r \in container : r.index = a}
<1>1. ASSUME NEW r \in container
      PROVE  r.index = a <=> HasRow(a) /\ r = alarm_indexes_to_rows[a]
  <2>1. PICK b \in Alarms : HasRow(b) /\ r = alarm_indexes_to_rows[b]
    BY DEF TableInv, ContainerMatchesMap, HasRow
  <2> QED
    BY <2>1 DEF TableInv
<1>2. CASE HasRow(a)
  <2>1. alarm_indexes_to_rows[a] \in container
    BY <1>2 DEF TableInv, ContainerMatchesMap, HasRow
  <2>2. rows = {alarm_indexes_to_rows[a]}
    BY <1>1, <1>2, <2>1
  <2> QED
    BY <2>2 DEF Shown
<1>3. CASE ~HasRow(a)
  <2>1. rows = {}
    BY <1>1, <1>3
  <2>2. alarm_indexes_to_rows[a].severity = UNDEFINED_SEVERITY
    BY <1>3 DEF HasRow, NoRow
  <2> QED
    BY <2>1, <2>2 DEF Shown
<1> QED
  BY <1>2, <1>3

(* The names the two modules share. *)
LEMMA SameSeverities ==
  /\ Abstract!UNDEFINED_SEVERITY = UNDEFINED_SEVERITY
  /\ Abstract!CLEARED = CLEARED
BY DEF Abstract!UNDEFINED_SEVERITY, UNDEFINED_SEVERITY, Abstract!CLEARED, CLEARED

(* The rows a step of the handler leaves the map with. *)
LEMMA HandlerOnMap ==
  ASSUME TableInv, NEW a \in Alarms, NEW s \in levels[a],
         alarmActiveTable_trap_handler(a, s)
  PROVE  LET now == [b \in Alarms |-> alarm_indexes_to_rows[b].severity]
             new == [b \in Alarms |-> alarm_indexes_to_rows'[b].severity]
         IN  \/ new = [now EXCEPT ![a] = IF s = CLEARED THEN UNDEFINED_SEVERITY ELSE s]
             \/ failed # failed' /\ new = [now EXCEPT ![a] = UNDEFINED_SEVERITY]
<1> DEFINE map == alarm_indexes_to_rows
<1>0. map \in [Alarms -> Row \cup {NoRow}] /\ NoRow.severity = UNDEFINED_SEVERITY
  BY Zenon DEF TableInv, NoRow
<1>1. ASSUME NEW C, s # CLEARED, alarmActiveTable_create_row(a, s, C)
      PROVE  \/ map' = [map EXCEPT ![a] = NewRow(a, s)]
             \/ failed # failed' /\ map' = [map EXCEPT ![a] = NoRow]
  BY <1>1 DEF alarmActiveTable_create_row
<1>2. NewRow(a, s).severity = s
  BY DEF NewRow
<1>3. CASE s # CLEARED /\ \E C : alarmActiveTable_create_row(a, s, C)
  <2>1. CASE map' = [map EXCEPT ![a] = NewRow(a, s)]
    BY <1>0, <1>2, <1>3, <2>1, Zenon
  <2>2. CASE failed # failed' /\ map' = [map EXCEPT ![a] = NoRow]
    BY <1>0, <2>2, Zenon
  <2> QED
    BY <1>1, <1>3, <2>1, <2>2, Zenon
<1>4. CASE s = CLEARED /\ map' = [map EXCEPT ![a] = NoRow]
  BY <1>0, <1>4, Zenon
<1>5. CASE map' = map /\ map[a] # NoRow /\ s = map[a].severity
  <2>1. s # CLEARED
    BY <1>0, <1>5 DEF Row
  <2> QED
    BY <1>0, <1>5, <2>1, Zenon
<1>6. CASE map' = map /\ map[a] = NoRow /\ s = CLEARED
  BY <1>0, <1>6
<1> QED
  BY <1>3, <1>4, <1>5, <1>6, Zenon
  DEF alarmActiveTable_trap_handler, ReplaceRow, alarmActiveTable_delete_row, rowVars

(* Every step of the table is one of what it promises. *)
LEMMA TableStepRefines ==
  ASSUME TableInv, TableInv', [TableNext]_tableVars,
         \A a \in Alarms : Shown(a) = alarm_indexes_to_rows[a].severity,
         \A a \in Alarms : Shown(a)' = alarm_indexes_to_rows'[a].severity
  PROVE  [\E a \in Alarms : \E s \in levels[a] :
            /\ severity' = [severity EXCEPT ![a] = s]
            /\ \/ Abstract!alarmActiveTable_trap_handler(a, s)
               \/ failed # failed' /\ Abstract!OutOfMemory(a)
         ]_<<severity, container>>
<1>1. ASSUME NEW a \in Alarms, NEW s \in levels[a], update_alarm_state(a, s)
      PROVE  /\ severity' = [severity EXCEPT ![a] = s]
             /\ \/ Abstract!alarmActiveTable_trap_handler(a, s)
                \/ failed # failed' /\ Abstract!OutOfMemory(a)
  <2> DEFINE now == [b \in Alarms |-> alarm_indexes_to_rows[b].severity]
             new == [b \in Alarms |-> alarm_indexes_to_rows'[b].severity]
  <2>1. /\ [b \in Alarms |-> Shown(b)] = now
        /\ [b \in Alarms |-> Shown(b)'] = new
    OBVIOUS
  <2>2. \/ new = [now EXCEPT ![a] = IF s = CLEARED THEN UNDEFINED_SEVERITY ELSE s]
        \/ failed # failed' /\ new = [now EXCEPT ![a] = UNDEFINED_SEVERITY]
    BY <1>1, HandlerOnMap, Zenon DEF update_alarm_state
  <2> QED
    BY <1>1, <2>1, <2>2, SameSeverities, Zenon
    DEF update_alarm_state, Abstract!alarmActiveTable_trap_handler, Abstract!OutOfMemory
<1>2. Second \/ UNCHANGED tableVars => UNCHANGED <<severity, container>>
  BY DEF Second, tableVars, rowVars
<1> QED
  BY <1>1, <1>2 DEF TableNext

(* The table implements ActiveAlarms: after every update the container     *)
(* shows the severity handed to alarmActiveTable_trap_handler, or nothing  *)
(* for a cleared alarm, and only a failed allocation costs a row.          *)
THEOREM ImplementsActiveAlarmsThm == TableSpec => ImplementsActiveAlarms
<1>1. TableInit => Abstract!ActiveAlarmsInit
  BY SameSeverities DEF TableInit, Abstract!ActiveAlarmsInit, Shown
<1>2. TableSpec => []TableInv
  BY InitTableInv, TableInvInductive, PTL DEF TableSpec
<1>3. (TableInv => \A a \in Alarms : Shown(a) = alarm_indexes_to_rows[a].severity)'
  BY ShownIsMapped, PTL
<1>4. TableInv /\ TableInv' /\ [TableNext]_tableVars =>
        [\E a \in Alarms : \E s \in levels[a] :
           /\ severity' = [severity EXCEPT ![a] = s]
           /\ \/ Abstract!alarmActiveTable_trap_handler(a, s)
              \/ failed # failed' /\ Abstract!OutOfMemory(a)
        ]_<<severity, container>>
  BY <1>3, ShownIsMapped, TableStepRefines, Zenon
<1> QED
  BY <1>1, <1>2, <1>4, PTL DEF TableSpec, ImplementsActiveAlarms

-----------------------------------------------------------------------------
(* What TableInv leaves open: no second uses more counter values than      *)
(* there are, and the counter goes round before UINT_MAX unless a failed   *)
(* allocation carried it past the test.                                    *)
RangeInv ==
  /\ severity \in [Alarms -> Severity]
  /\ failed \in BOOLEAN
  /\ failed \/ alarm_counter < UINT_MAX
  /\ created <= UINT_MAX

(* Creating a row uses one counter value, or none. *)
LEMMA CreateRowRange ==
  ASSUME TableInv, RangeInv, NEW a \in Alarms, NEW s, NEW C,
         created < UINT_MAX, alarmActiveTable_create_row(a, s, C)
  PROVE  /\ failed' \in BOOLEAN
         /\ failed' \/ alarm_counter' < UINT_MAX
         /\ created' <= UINT_MAX
<1>1. alarm_counter \in Nat /\ created \in Nat /\ UINT_MAX \in Nat \ {0}
  BY CounterAssumption DEF TableInv
<1>2. NextCounter(alarm_counter) < UINT_MAX \/ failed
  BY <1>1 DEF NextCounter, RangeInv
<1>3. created + 1 <= UINT_MAX
  BY <1>1
<1>4. CASE UNCHANGED failed /\ alarm_counter' = NextCounter(alarm_counter)
           /\ created' = created + 1
  BY <1>2, <1>3, <1>4 DEF RangeInv
<1>5. CASE failed' = TRUE /\ created' \in {created, created + 1}
  BY <1>1, <1>3, <1>5
<1> QED
  BY <1>4, <1>5, Zenon DEF alarmActiveTable_create_row

(* Every step keeps the ranges. *)
LEMMA RangeInvInductive ==
  TableInv /\ RangeInv /\ [TableNext]_tableVars => RangeInv'
<1> SUFFICES ASSUME TableInv, RangeInv, [TableNext]_tableVars
             PROVE  RangeInv'
  OBVIOUS
<1>1. ASSUME NEW a \in Alarms, NEW s \in levels[a], update_alarm_state(a, s)
      PROVE  RangeInv'
  <2>1. severity' \in [Alarms -> Severity]
    <3>1. s \in Severity
      BY LevelsAssumption
    <3> QED
      BY <1>1, <3>1 DEF update_alarm_state, RangeInv
  <2>2. CASE s # CLEARED /\ \E C : alarmActiveTable_create_row(a, s, C)
    BY <1>1, <2>1, <2>2, CreateRowRange, Zenon DEF update_alarm_state, RangeInv
  <2>3. CASE UNCHANGED <<alarm_counter, created, failed>>
    BY <2>1, <2>3 DEF RangeInv
  <2> QED
    BY <1>1, <2>2, <2>3, Zenon
    DEF update_alarm_state, alarmActiveTable_trap_handler, ReplaceRow,
        alarmActiveTable_delete_row, rowVars
<1>2. CASE Second
  BY <1>2, CounterAssumption DEF Second, rowVars, RangeInv
<1>3. CASE UNCHANGED tableVars
  BY <1>3 DEF tableVars, rowVars, RangeInv
<1> QED
  BY <1>1, <1>2, <1>3 DEF TableNext

(* Every variable keeps to its type: the counter that becomes part of a    *)
(* row's 32-bit index stays below UINT_MAX as long as every index could be *)
(* allocated, and the container holds nothing but complete rows.           *)
THEOREM TableTypeThm == TableSpec => []TableTypeOK
<1>1. TableInit => TableInv /\ RangeInv
  <2> SUFFICES ASSUME TableInit PROVE RangeInv
    BY InitTableInv
  <2>1. severity \in [Alarms -> Severity]
    BY DEF TableInit, Severity, UNDEFINED_SEVERITY
  <2>2. alarm_counter < UINT_MAX /\ created <= UINT_MAX
    BY CounterAssumption DEF TableInit
  <2> QED
    BY <2>1, <2>2, Zenon DEF TableInit, RangeInv
<1>2. TableInv /\ RangeInv => TableTypeOK
  <2> SUFFICES ASSUME TableInv, RangeInv PROVE TableTypeOK
    OBVIOUS
  <2>1. container \in SUBSET Row
    BY DEF TableInv, ContainerMatchesMap
  <2>2. created \in 0 .. UINT_MAX
    BY CounterAssumption DEF TableInv, RangeInv
  <2> QED
    BY <2>1, <2>2 DEF TableInv, RangeInv, TableTypeOK
<1> QED
  BY <1>1, <1>2, TableInvInductive, RangeInvInductive, PTL DEF TableSpec

-----------------------------------------------------------------------------
(* The request listener and its owner                                      *)

(* Only a failed zmq_send leaves the socket owing an answer, so that the   *)
(* next receive fails; and before start() has created the thread nothing   *)
(* of it is there, so that opening the context cannot undo an excuse.      *)
ListenerInv ==
  /\ listener \in {none, "created", "receiving", "handling", "replying",
                   "closing", "posting", "exited"}
  /\ zmq_failed \in BOOLEAN
  /\ main \in {"init", "locked"} => listener = none /\ rep_owes = none
  /\ rep_owes # none =>
       listener \in {"handling", "replying"} \/ zmq_failed \/ ctx # "open"
  /\ msg # none => listener = "handling"
  /\ listener \in {"posting", "exited"} => sck = "closed"
  /\ main = "stopped" => listener = "exited"
  /\ OnlyErrorsEndListener

(* Initially there is no thread. *)
LEMMA InitListenerInv == AgentInit => ListenerInv
  BY Zenon DEF AgentInit, ListenerInit, ListenerInv, OnlyErrorsEndListener, none

(* Steps of the owner in start() and stop(). *)
LEMMA OwnerStep ==
  ASSUME ListenerInv,
         \/ start \/ stop \/ JoinListener
         \/ CreateThreadFails \/ SpuriousStart \/ zmq_clean_ctx_Interrupted
  PROVE  ListenerInv'
<1>1. CASE InitZmq
  BY <1>1 DEF InitZmq, ListenerInv, OnlyErrorsEndListener, none
<1>2. CASE CreateThread
  BY <1>2 DEF CreateThread, zmqVars, ListenerInv, OnlyErrorsEndListener, none
<1>3. CASE WaitForStart \/ SpuriousStart \/ Started
  BY <1>3 DEF WaitForStart, SpuriousStart, Started, zmqVars, ListenerInv,
              OnlyErrorsEndListener, none
<1>4. CASE stop \/ CreateThreadFails
  BY <1>4 DEF stop, CreateThreadFails, ListenerInv, OnlyErrorsEndListener, none
<1>5. CASE zmq_clean_ctx \/ zmq_clean_ctx_Interrupted
  BY <1>5 DEF zmq_clean_ctx, zmq_clean_ctx_Interrupted, ReturnFromDestroy, zmqVars,
              ListenerInv, OnlyErrorsEndListener, none
<1>6. CASE JoinListener
  BY <1>6 DEF JoinListener, zmqVars, ListenerInv, OnlyErrorsEndListener, none
<1> QED
  BY <1>1, <1>2, <1>3, <1>4, <1>5, <1>6 DEF start

(* Steps of the listener thread, and of its clients. *)
LEMMA ListenerThreadStep ==
  ASSUME ListenerInv,
         \/ ListenerThread \/ next_msg_Fails \/ reply_Fails
         \/ \E c \in Clients, r \in Requests : SendRequest(c, r)
  PROVE  ListenerInv'
<1>1. CASE SignalStart
  BY <1>1 DEF SignalStart, zmqVars, ListenerInv, OnlyErrorsEndListener, none
<1>2. ASSUME NEW c \in Clients, next_msg(c) PROVE ListenerInv'
  BY <1>2 DEF next_msg, ListenerInv, OnlyErrorsEndListener, none
<1>3. CASE next_msg_Fails
  BY <1>3, Zenon DEF next_msg_Fails, zmqVars, ListenerInv, OnlyErrorsEndListener, none
<1>4. CASE HandleRequest
  BY <1>4 DEF HandleRequest, zmqVars, ListenerInv, OnlyErrorsEndListener, none
<1>5. CASE reply
  BY <1>5 DEF reply, ListenerInv, OnlyErrorsEndListener, none
<1>6. CASE reply_Fails
  BY <1>6, Zenon DEF reply_Fails, zmqVars, ListenerInv, OnlyErrorsEndListener, none
<1>7. CASE CloseSocket
  BY <1>7 DEF CloseSocket, zmq_clean_sck, ListenerInv, OnlyErrorsEndListener, none
<1>8. CASE listener_thread
  BY <1>8 DEF listener_thread, zmqVars, ListenerInv, OnlyErrorsEndListener, none
<1>9. ASSUME NEW c \in Clients, NEW r \in Requests, SendRequest(c, r)
      PROVE  ListenerInv'
  BY <1>9 DEF SendRequest, ListenerInv, OnlyErrorsEndListener, none
<1> QED
  BY <1>1, <1>2, <1>3, <1>4, <1>5, <1>6, <1>7, <1>8, <1>9 DEF ListenerThread

(* Steps of main() and of signals, which leave listener and socket alone. *)
LEMMA MainStep ==
  ASSUME ListenerInv,
         \/ ReturnFailure \/ InstallHandler \/ sem_wait \/ DeleteListener
         \/ JoinHeapThread \/ JoinNoThread \/ DestroyLock
         \/ Killed \/ agent_terminate_handler \/ Crash
  PROVE  ListenerInv'
<1>1. UNCHANGED <<listener, zmqVars, msg, zmq_failed>>
  BY Zenon DEF ReturnFailure, InstallHandler, sem_wait, DeleteListener, JoinHeapThread,
         JoinNoThread, DestroyLock, Killed, agent_terminate_handler, Crash
<1>2. main' = main \/ main' \notin {"init", "locked", "stopped"}
  BY DEF ReturnFailure, InstallHandler, sem_wait, DeleteListener, JoinHeapThread,
         JoinNoThread, DestroyLock, Killed, agent_terminate_handler, Crash
<1> QED
  BY <1>1, <1>2 DEF zmqVars, ListenerInv, OnlyErrorsEndListener

(* Every step keeps the invariant. *)
LEMMA StepListenerInv == ListenerInv /\ [AgentNext]_agentVars => ListenerInv'
<1> SUFFICES ASSUME ListenerInv, [AgentNext]_agentVars PROVE ListenerInv'
  OBVIOUS
<1>1. CASE UNCHANGED listenerVars
  BY <1>1 DEF listenerVars, zmqVars, ListenerInv, OnlyErrorsEndListener
<1>2. CASE UNCHANGED agentVars
  BY <1>1, <1>2 DEF agentVars
<1>3. CASE Main \/ stop
  BY <1>3, MainStep, OwnerStep DEF Main
<1>4. CASE Listener
  BY <1>4, ListenerThreadStep DEF Listener
<1>5. CASE Killed \/ agent_terminate_handler \/ Crash
  BY <1>5, MainStep
<1>6. CASE SnmpLock \/ SnmpUnlock
  BY <1>1, <1>6 DEF SnmpLock, SnmpUnlock
<1>7. CASE Environment
  BY <1>7, OwnerStep, ListenerThreadStep DEF Environment
<1> QED
  BY <1>2, <1>3, <1>4, <1>5, <1>6, <1>7 DEF AgentNext

(* The invariant holds throughout. *)
LEMMA ListenerInvariance == AgentSpec => []ListenerInv
  BY InitListenerInv, StepListenerInv, PTL DEF AgentSpec

(* No request ends the listener thread, whoever sends how many: it leaves  *)
(* its loop only after a ZeroMQ error or once the context has ended.       *)
THEOREM OnlyErrorsThm == AgentSpec => []OnlyErrorsEndListener
<1>1. ListenerInv => OnlyErrorsEndListener
  BY DEF ListenerInv
<1> QED
  BY <1>1, ListenerInvariance, PTL

(* Once stop() has returned, thread and socket are gone and no request is  *)
(* half read.                                                              *)
THEOREM StoppedThm == AgentSpec => []StoppedIsClean
<1>1. ListenerInv => StoppedIsClean
  BY DEF ListenerInv, StoppedIsClean
<1> QED
  BY <1>1, ListenerInvariance, PTL

-----------------------------------------------------------------------------
(* The socket the thread uses was opened before start() created it, and    *)
(* only the thread closes it.                                              *)
SocketInv ==
  /\ ListenerTypeOK
  /\ main = "locked" => sck = "open"
  /\ listener = "created" => sck = "open"

(* Steps of the owner keep the types. *)
LEMMA OwnerStepType ==
  ASSUME ListenerInv, SocketInv,
         \/ start \/ stop \/ JoinListener
         \/ CreateThreadFails \/ SpuriousStart \/ zmq_clean_ctx_Interrupted
  PROVE  SocketInv'
<1>1. CASE InitZmq
  BY <1>1 DEF InitZmq, ListenerInv, SocketInv, ListenerTypeOK, none
<1>2. CASE CreateThread
  BY <1>2 DEF CreateThread, zmqVars, SocketInv, ListenerTypeOK
<1>3. CASE WaitForStart \/ SpuriousStart \/ Started \/ JoinListener
  BY <1>3, Zenon DEF WaitForStart, SpuriousStart, Started, JoinListener, zmqVars,
              SocketInv, ListenerTypeOK
<1>4. CASE stop \/ CreateThreadFails
  BY <1>4, Zenon DEF stop, CreateThreadFails, SocketInv, ListenerTypeOK
<1>5. CASE zmq_clean_ctx \/ zmq_clean_ctx_Interrupted
  BY <1>5 DEF zmq_clean_ctx, zmq_clean_ctx_Interrupted, ReturnFromDestroy, zmqVars,
              SocketInv, ListenerTypeOK
<1> QED
  BY <1>1, <1>2, <1>3, <1>4, <1>5 DEF start

(* So do those of the listener thread, and of its clients. *)
LEMMA ListenerThreadStepType ==
  ASSUME ListenerInv, SocketInv,
         \/ ListenerThread \/ next_msg_Fails \/ reply_Fails
         \/ \E c \in Clients, r \in Requests : SendRequest(c, r)
  PROVE  SocketInv'
<1>1. CASE SignalStart
  BY <1>1 DEF SignalStart, zmqVars, SocketInv, ListenerTypeOK
<1>2. ASSUME NEW c \in Clients, next_msg(c) PROVE SocketInv'
  BY <1>2 DEF next_msg, SocketInv, ListenerTypeOK
<1>3. CASE next_msg_Fails
  <2>1. zmq_failed' \in BOOLEAN
    BY <1>3, Zenon DEF next_msg_Fails, SocketInv, ListenerTypeOK
  <2> QED
    BY <1>3, <2>1 DEF next_msg_Fails, zmqVars, SocketInv, ListenerTypeOK
<1>4. CASE HandleRequest
  BY <1>4 DEF HandleRequest, zmqVars, SocketInv, ListenerTypeOK
<1>5. CASE reply
  BY <1>5, Zenon DEF reply, SocketInv, ListenerTypeOK
<1>6. CASE reply_Fails
  <2>1. zmq_failed' \in BOOLEAN
    BY <1>6 DEF reply_Fails
  <2> QED
    BY <1>6, <2>1 DEF reply_Fails, zmqVars, SocketInv, ListenerTypeOK
<1>7. CASE CloseSocket
  BY <1>7 DEF CloseSocket, zmq_clean_sck, SocketInv, ListenerTypeOK, ListenerInv, none
<1>8. CASE listener_thread
  BY <1>8 DEF listener_thread, zmqVars, SocketInv, ListenerTypeOK
<1>9. ASSUME NEW c \in Clients, NEW r \in Requests, SendRequest(c, r)
      PROVE  SocketInv'
  <2>1. requests' \in 0 .. MaxRequests
    BY <1>9, MaxRequestsAssumption DEF SendRequest, SocketInv, ListenerTypeOK
  <2> QED
    BY <1>9, <2>1 DEF SendRequest, SocketInv, ListenerTypeOK
<1> QED
  BY <1>1, <1>2, <1>3, <1>4, <1>5, <1>6, <1>7, <1>8, <1>9 DEF ListenerThread

(* And those of main() and of signals. *)
LEMMA MainStepType ==
  ASSUME SocketInv,
         \/ ReturnFailure \/ InstallHandler \/ sem_wait \/ DeleteListener
         \/ JoinHeapThread \/ JoinNoThread \/ DestroyLock
         \/ Killed \/ agent_terminate_handler \/ Crash
  PROVE  SocketInv'
<1>1. UNCHANGED <<listener, zmqVars, msg, zmq_failed>>
  BY Zenon DEF ReturnFailure, InstallHandler, sem_wait, DeleteListener, JoinHeapThread,
         JoinNoThread, DestroyLock, Killed, agent_terminate_handler, Crash
<1>2. \/ main' = main
      \/ main' \in {"exited", "running"} \cup Deleting
  BY DEF ReturnFailure, InstallHandler, sem_wait, DeleteListener, JoinHeapThread,
         JoinNoThread, DestroyLock, Killed, agent_terminate_handler, Crash, Deleting
<1>3. term_sem' \in Nat
  <2>1. term_sem \in Nat
    BY DEF SocketInv, ListenerTypeOK
  <2>2. CASE sem_wait \/ agent_terminate_handler
    BY <2>1, <2>2 DEF sem_wait, agent_terminate_handler
  <2>3. ~(sem_wait \/ agent_terminate_handler) => UNCHANGED term_sem
    BY Zenon DEF ReturnFailure, InstallHandler, DeleteListener, JoinHeapThread,
           JoinNoThread, DestroyLock, Killed, Crash
  <2> QED
    BY <2>1, <2>2, <2>3
<1> QED
  BY <1>1, <1>2, <1>3 DEF zmqVars, Deleting, SocketInv, ListenerTypeOK

(* Every step keeps the types. *)
LEMMA StepSocketInv ==
  ListenerInv /\ SocketInv /\ [AgentNext]_agentVars => SocketInv'
<1> SUFFICES ASSUME ListenerInv, SocketInv, [AgentNext]_agentVars PROVE SocketInv'
  OBVIOUS
<1>1. CASE UNCHANGED listenerVars
  BY <1>1 DEF listenerVars, zmqVars, SocketInv, ListenerTypeOK
<1>2. CASE UNCHANGED agentVars
  BY <1>1, <1>2 DEF agentVars
<1>3. CASE Main \/ stop
  BY <1>3, MainStepType, OwnerStepType DEF Main
<1>4. CASE Listener
  BY <1>4, ListenerThreadStepType DEF Listener
<1>5. CASE Killed \/ agent_terminate_handler \/ Crash
  BY <1>5, MainStepType
<1>6. CASE SnmpLock \/ SnmpUnlock
  BY <1>1, <1>6 DEF SnmpLock, SnmpUnlock
<1>7. CASE Environment
  BY <1>7, OwnerStepType, ListenerThreadStepType DEF Environment
<1> QED
  BY <1>2, <1>3, <1>4, <1>5, <1>6, <1>7 DEF AgentNext

(* Every variable keeps to its type, and the thread never uses a socket    *)
(* that was not opened or that is closed, wherever a signal, stop() or a   *)
(* ZeroMQ error finds it.                                                  *)
THEOREM ListenerTypeThm == AgentSpec => []ListenerTypeOK
<1>1. AgentInit => SocketInv
  <2> SUFFICES ASSUME AgentInit PROVE SocketInv
    OBVIOUS
  <2>1. requests \in 0 .. MaxRequests /\ term_sem \in Nat
    BY MaxRequestsAssumption DEF AgentInit, ListenerInit
  <2>2. request \in [Clients -> Requests \cup {none}]
    BY DEF AgentInit, ListenerInit
  <2> QED
    BY <2>1, <2>2, Zenon DEF AgentInit, ListenerInit, SocketInv, ListenerTypeOK, none
<1>2. SocketInv => ListenerTypeOK
  BY DEF SocketInv
<1> QED
  BY <1>1, <1>2, ListenerInvariance, StepSocketInv, PTL DEF AgentSpec
=============================================================================
