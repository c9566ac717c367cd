------------------------------ MODULE MCEetRun -------------------------------
(* Instances of EetRun for TLC: one table and one more statement. *)
EXTENDS EetRun

OneTable == <<"t", "a">>
TwoRows == <<"t", "a", "b">>
JustTable == {"t"}
=============================================================================
