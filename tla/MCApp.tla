--------------------------------- MODULE MCApp ---------------------------------
(* Instances of MigrationApp for TLC.                                      *)
EXTENDS MigrationApp

OneUnit == <<1>>            \* a single note of one unit
TwoNotes == <<1, 1>>        \* two notes, which may confirm separately
=============================================================================
