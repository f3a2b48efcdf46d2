------------------------------ MODULE AlarmDef ------------------------------
(***************************************************************************)
(* AlarmDef::Severity, in the order of the names in the trap sender.       *)
(***************************************************************************)
EXTENDS Integers

UNDEFINED_SEVERITY == 0
CLEARED            == 1
INDETERMINATE      == 2
CRITICAL           == 3
MAJOR              == 4
MINOR              == 5
WARNING            == 6
Severity           == 0 .. 6
=============================================================================
