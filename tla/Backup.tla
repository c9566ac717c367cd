------------------------------- MODULE Backup --------------------------------
(***************************************************************************)
(* What the testers rely on: a database that can be saved and brought back *)
(* as it was saved.  An operation that does not get through says so to its *)
(* caller; until the next one succeeds nothing is known of the database.   *)
(*                                                                         *)
(* Two weaknesses some drivers have are spelled out: silent, a restore may *)
(* fall short without saying so; keeps, saving again after the first time  *)
(* keeps what was saved then.                                              *)
(***************************************************************************)
CONSTANTS Databases,  \* the states of a database
          Unknown     \* the database while an operation runs or after it failed

VARIABLES task,       \* the operation under way: none, run, save, restore, failed
          db, saved,  \* the database and its saved state (Unknown: none)
          silent, keeps

vars == <<task, db, saved, silent, keeps>>

Init ==
  /\ task = "none" /\ db = Unknown /\ saved = Unknown
  /\ silent \in BOOLEAN /\ keeps \in BOOLEAN

\* The caller asks for an operation; it may give up what was saved.
Begin ==
  /\ task \in {"none", "failed"}
  /\ task' \in {"run", "save", "restore"}
  /\ db' = Unknown /\ saved' \in {saved, Unknown} /\ UNCHANGED <<silent, keeps>>

Done == task' = "none" /\ db' \in Databases /\ UNCHANGED <<silent, keeps>>

Run == task = "run" /\ Done /\ UNCHANGED saved

Save ==
  /\ task = "save" /\ Done
  /\ saved' = db' \/ (keeps /\ saved # Unknown /\ saved' = saved)

Restore ==
  /\ task = "restore" /\ Done /\ UNCHANGED saved
  /\ db' = saved \/ silent

\* The caller sees an exception; a save that failed may have lost the old one.
Fail ==
  /\ task \in {"run", "save", "restore"} /\ task' = "failed" /\ db' = Unknown
  /\ saved' = saved \/ (task = "save" /\ saved' = Unknown)
  /\ UNCHANGED <<silent, keeps>>

Next == Begin \/ Run \/ Save \/ Restore \/ Fail

Spec == Init /\ [][Next]_vars
=============================================================================
