------------------------------ MODULE MCDocuments ------------------------------
(***************************************************************************)
(* Two files with the same invoice number, one of which can be read in two *)
(* ways; an upload of one of them, and two runs that read both.            *)
(***************************************************************************)
EXTENDS Documents

TwoFiles == 1 .. 2
OneUpload == {1}
TwoRuns == 1 .. 2
OneNumber == {1}
Reading(number, sound) == [number |-> number, sound |-> sound]
SomeReadings == << {Reading(1, TRUE)}, {Reading(1, TRUE), Reading(1, FALSE)} >>
=============================================================================
