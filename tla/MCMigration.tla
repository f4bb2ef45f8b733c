------------------------------ MODULE MCMigration ------------------------------
(* Instances of MigrationProperties for TLC.                               *)
EXTENDS MigrationProperties

OneUnit == <<1>>            \* a single note of one unit
TwoUnits == <<2>>           \* a single note of two units
TwoNotes == <<1, 1>>        \* two notes, which may confirm separately
UnitAndDust == <<1, 0>>     \* a note of one unit and a dust note
=============================================================================
