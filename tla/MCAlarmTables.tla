--------------------------- MODULE MCAlarmTables ----------------------------
(* Two files with at most two alarms each, of two indexes, so that an      *)
(* index is defined twice in a file, in two files, or not at all.          *)
EXTENDS AlarmTables, SequencesExt

SomeLevels == {{CLEARED, CRITICAL},
               Severity \ {UNDEFINED_SEVERITY}}
SomeContents ==
  SeqOf([index : {1000, 1001}, severities : SomeLevels], 2)
    \cup {InvalidJson, NotJson}
=============================================================================
