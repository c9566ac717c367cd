---------------------------- MODULE EetRunProofs ----------------------------
(***************************************************************************)
(* For every driver, record and number of faults: the database a tester    *)
(* works on is the one that was recorded, it has all its catalogs, the     *)
(* sessions do not pile up, and backup() and reset_to_backup() keep what   *)
(* Backup promises.  EetInv has the inductive invariant.  The first part   *)
(* is about the drivers' programs and those the child puts together from   *)
(* them: every operation fits the phase it is called in.  A step of an     *)
(* operation is one of a few moves of the program (the second part); each  *)
(* part of the invariant is followed through the moves, and then through   *)
(* the actions that begin an operation, end a test or the child.           *)
(***************************************************************************)
EXTENDS EetInv, FoldLemmas

-----------------------------------------------------------------------------
(***************************************************************************)
(* The programs.                                                           *)
(***************************************************************************)

(* What the kinds of steps are. *)
LEMMA StepKinds ==
  ASSUME NEW op
  PROVE /\ Throws(op).do = op /\ Throws(op).err = "plain" /\ Throws(op).stmt = "none"
        /\ Fatal(op).do = op /\ Fatal(op).err = "fatal" /\ Fatal(op).stmt = "none"
        /\ Tests(op).do = op /\ Tests(op).err = "lost" /\ Tests(op).stmt = "none"
        /\ Ignores(op).do = op /\ Ignores(op).err = "ignored" /\ Ignores(op).stmt = "none"
        /\ Probes(op).do = op /\ Probes(op).err = "probe" /\ Probes(op).stmt = "none"
        /\ Loads(op).do = op /\ Loads(op).err = "schema" /\ Loads(op).stmt = "none"
        /\ Catalog(op).do = op /\ Catalog(op).err = "schema" /\ Catalog(op).stmt = "cached"
        /\ Step(op, "expected").do = op /\ Step(op, "expected").err = "expected"
        /\ Step(op, "expected").stmt = "none"
PROOF BY DEF Throws, Fatal, Tests, Ignores, Probes, Loads, Catalog, Step

(* Each is a step. *)
LEMMA StepTypes ==
  ASSUME NEW op \in Doings
  PROVE /\ Throws(op) \in Steps /\ Fatal(op) \in Steps /\ Tests(op) \in Steps
        /\ Ignores(op) \in Steps /\ Probes(op) \in Steps /\ Loads(op) \in Steps
        /\ Catalog(op) \in Steps /\ Step(op, "expected") \in Steps
PROOF BY DEF Throws, Fatal, Tests, Ignores, Probes, Loads, Catalog, Step, Steps, Errs, Names

(* The operations the drivers and their callers are made of. *)
LEMMA Operations ==
  \A op \in {"connect", "connect_default", "set", "create", "create_missing", "open", "use", "close",
             "drop", "drop_force", "cancel_jobs", "wipe", "tidy", "if_backup", "need_record",
             "replay_backup", "replay_record", "copy_back", "apply", "load", "tables", "views",
             "indexes", "columns", "version", "types", "operators", "routines", "aggregates",
             "return", "insert", "query", "content", "write", "dump", "copy_record"} : op \in Doings
PROOF BY DEF Doings, Restores, Resets, Opens, Drops, Reads

(* The drivers, one by one.                                                *)
LEMMA Setup ==
  /\ DBMSs = {"mysql", "tidb", "oceanbase", "postgres", "gaussdb", "cockroach", "yugabyte",
              "clickhouse", "sqlite"}
  /\ dut_setup["mysql"] =
       [conn |-> mysql_connection, test |-> mysql_test,
        life |-> mysql_life, schema |-> schema_mysql]
  /\ dut_setup["tidb"] =
       [conn |-> tidb_connection, test |-> tidb_test,
        life |-> tidb_life, schema |-> schema_tidb]
  /\ dut_setup["oceanbase"] =
       [conn |-> ob_connection, test |-> ob_test,
        life |-> ob_life, schema |-> schema_ob]
  /\ dut_setup["postgres"] =
       [conn |-> pgsql_connection, test |-> pqxx_test,
        life |-> pqxx_life, schema |-> schema_pqxx]
  /\ dut_setup["gaussdb"] =
       [conn |-> gaussdb_connection, test |-> gaussdb_test,
        life |-> gaussdb_life, schema |-> schema_gaussdb]
  /\ dut_setup["cockroach"] =
       [conn |-> cockroach_connection, test |-> cockroach_test,
        life |-> cockroach_life, schema |-> schema_cockroach]
  /\ dut_setup["yugabyte"] =
       [conn |-> yugabyte_connection, test |-> yugabyte_test,
        life |-> yugabyte_life, schema |-> schema_yugabyte]
  /\ dut_setup["clickhouse"] =
       [conn |-> clickhouse_connection, test |-> clickhouse_test,
        life |-> clickhouse_life, schema |-> schema_clickhouse]
  /\ dut_setup["sqlite"] =
       [conn |-> sqlite_connection, test |-> sqlite_test,
        life |-> sqlite_life, schema |-> schema_sqlite]
PROOF BY DEF DBMSs, dut_setup

(* The programs of dut_mysql and schema_mysql.                             *)
LEMMA ProgramsOfMysql ==
  ASSUME driver = "mysql" PROVE ProgramsOk
PROOF
  <1>1. /\ D.conn.open = <<Fatal("connect")>>
        /\ D.conn.create = <<Throws("connect_default"), Throws("create"), Throws("use")>>
        /\ D.life.reset = <<Throws("drop"), Throws("create"), Throws("use")>>
        /\ D.life.backup = <<Throws("dump")>>
        /\ D.life.restore = <<Throws("drop"), Throws("create"), Throws("use"),
                            Throws("if_backup"), Throws("close"), Ignores("replay_backup"),
                            Throws("connect")>>
    BY Setup DEF D, mysql_connection, mysql_test, mysql_life, schema_mysql, DropCreateUse
  <1>2. D.schema = <<Loads("tables"), Loads("views"), Loads("indexes"), Loads("columns")>>
    BY Setup DEF D, mysql_connection, mysql_test, mysql_life, schema_mysql, DropCreateUse
  <1>3. /\ D.test.settings = <<Tests("set")>>
        /\ D.life.content = Ignores("content")
        /\ D.test.stmt \in {"lost", "plain"}
    BY Setup DEF D, mysql_connection, mysql_test, mysql_life, schema_mysql, DropCreateUse
  <1> DEFINE used == {Fatal("connect"), Throws("connect_default"), Throws("create"),
                       Throws("use"), Throws("drop"), Throws("dump"), Throws("if_backup"),
                       Throws("close"), Ignores("replay_backup"), Throws("connect"),
                       Tests("set"), Ignores("content")}
  <1>4. \A s \in used : s \in Steps /\ s.err \notin OfSchema
    <2>1. \A s \in used : s \in Steps
      BY StepTypes, Operations
    <2>2. \A s \in used : s.err \notin OfSchema
      BY StepKinds DEF OfSchema
    <2> QED BY <2>1, <2>2
  <1>5. \A s \in used : StepOk(s)
    BY DEF StepOk, Sound, Maker, Makes, Drops, Recorded, Forgiving, Dumping, Throws, Fatal,
       Tests, Ignores, Probes, Step
  <1>6. OpenOk
    BY <1>1, <1>4, <1>5, StepKinds, SMTT(30) DEF OpenOk, Good, Opens, Maker, Makes, Leaks,
       Leaky, NoLeaks, ClosesFirst
  <1>7. ResetOk
    BY <1>1, <1>4, <1>5, StepKinds DEF ResetOk, Good, Resets, Opens, Drops, HasDrop, Maker,
       Makes, Leaks, Leaky, NoLeaks, DropsMake, ClosesFirst
  <1>8. BackupOk
    BY <1>1, <1>4, <1>5, StepKinds DEF BackupOk, Good
  <1>9. RestoreOk
    BY <1>1, <1>4, <1>5, StepKinds, SMTT(30) DEF RestoreOk, Good, Restores, Resets, Opens,
       Drops, HasDrop, OnlyLast, Maker, Makes, Leaks, Leaky, LeaksOnce, DropsMake,
       ClosesFirst, Recorded
  <1>10. CallOk
    BY <1>3, <1>4, <1>5, StepKinds DEF CallOk, Good
  <1>11. SchemaOk
    BY <1>2, StepKinds, StepTypes, Operations DEF SchemaOk, Good, Reads, StepOk, Sound, Maker,
       Makes, Drops, Catalogs, CatalogsOf, D
  <1> QED BY <1>6, <1>7, <1>8, <1>9, <1>10, <1>11 DEF ProgramsOk

(* The programs of dut_tidb and schema_tidb.                               *)
LEMMA ProgramsOfTidb ==
  ASSUME driver = "tidb" PROVE ProgramsOk
PROOF
  <1>1. /\ D.conn.open = <<Fatal("connect"), Throws("set")>>
        /\ D.conn.create = <<Throws("connect_default"), Throws("create"), Throws("use")>>
        /\ D.life.reset = <<Throws("drop"), Throws("create"), Throws("use")>>
        /\ D.life.backup = <<Throws("dump")>>
        /\ D.life.restore = <<Throws("drop"), Throws("create"), Throws("use"),
                            Throws("if_backup"), Throws("close"), Ignores("replay_backup"),
                            Throws("connect")>>
    BY Setup DEF D, tidb_connection, tidb_test, tidb_life, schema_tidb, DropCreateUse
  <1>2. D.schema = <<Loads("tables"), Loads("views"), Loads("indexes"), Loads("columns")>>
    BY Setup DEF D, tidb_connection, tidb_test, tidb_life, schema_tidb, DropCreateUse
  <1>3. /\ D.test.settings = <<>>
        /\ D.life.content = Ignores("content")
        /\ D.test.stmt \in {"lost", "plain"}
    BY Setup DEF D, tidb_connection, tidb_test, tidb_life, schema_tidb, DropCreateUse
  <1> DEFINE used == {Fatal("connect"), Throws("set"), Throws("connect_default"),
                       Throws("create"), Throws("use"), Throws("drop"), Throws("dump"),
                       Throws("if_backup"), Throws("close"), Ignores("replay_backup"),
                       Throws("connect"), Ignores("content")}
  <1>4. \A s \in used : s \in Steps /\ s.err \notin OfSchema
    <2>1. \A s \in used : s \in Steps
      BY StepTypes, Operations
    <2>2. \A s \in used : s.err \notin OfSchema
      BY StepKinds DEF OfSchema
    <2> QED BY <2>1, <2>2
  <1>5. \A s \in used : StepOk(s)
    BY DEF StepOk, Sound, Maker, Makes, Drops, Recorded, Forgiving, Dumping, Throws, Fatal,
       Tests, Ignores, Probes, Step
  <1>6. OpenOk
    BY <1>1, <1>4, <1>5, StepKinds, SMTT(30) DEF OpenOk, Good, Opens, Maker, Makes, Leaks,
       Leaky, NoLeaks, ClosesFirst
  <1>7. ResetOk
    BY <1>1, <1>4, <1>5, StepKinds DEF ResetOk, Good, Resets, Opens, Drops, HasDrop, Maker,
       Makes, Leaks, Leaky, NoLeaks, DropsMake, ClosesFirst
  <1>8. BackupOk
    BY <1>1, <1>4, <1>5, StepKinds DEF BackupOk, Good
  <1>9. RestoreOk
    BY <1>1, <1>4, <1>5, StepKinds, SMTT(30) DEF RestoreOk, Good, Restores, Resets, Opens,
       Drops, HasDrop, OnlyLast, Maker, Makes, Leaks, Leaky, LeaksOnce, DropsMake,
       ClosesFirst, Recorded
  <1>10. CallOk
    BY <1>3, <1>4, <1>5, StepKinds DEF CallOk, Good
  <1>11. SchemaOk
    BY <1>2, StepKinds, StepTypes, Operations DEF SchemaOk, Good, Reads, StepOk, Sound, Maker,
       Makes, Drops, Catalogs, CatalogsOf, D
  <1> QED BY <1>6, <1>7, <1>8, <1>9, <1>10, <1>11 DEF ProgramsOk

(* The programs of dut_oceanbase and schema_oceanbase.                     *)
LEMMA ProgramsOfOceanbase ==
  ASSUME driver = "oceanbase" PROVE ProgramsOk
PROOF
  <1>1. /\ D.conn.open = <<Fatal("connect")>>
        /\ D.conn.create = <<Throws("connect_default"), Throws("create"), Throws("use")>>
        /\ D.life.reset = <<Throws("drop"), Throws("create"), Throws("use")>>
        /\ D.life.backup = <<>>
        /\ D.life.restore = <<Throws("drop"), Throws("create"), Throws("use"),
                            Tests("replay_record")>>
    BY Setup DEF D, ob_connection, ob_test, ob_life, schema_ob, DropCreateUse
  <1>2. D.schema = <<Loads("tables"), Loads("views"), Loads("indexes"), Loads("columns")>>
    BY Setup DEF D, ob_connection, ob_test, ob_life, schema_ob, DropCreateUse
  <1>3. /\ D.test.settings = <<Throws("set")>>
        /\ D.life.content = Ignores("content")
        /\ D.test.stmt \in {"lost", "plain"}
    BY Setup DEF D, ob_connection, ob_test, ob_life, schema_ob, DropCreateUse
  <1> DEFINE used == {Fatal("connect"), Throws("connect_default"), Throws("create"),
                       Throws("use"), Throws("drop"), Tests("replay_record"), Throws("set"),
                       Ignores("content")}
  <1>4. \A s \in used : s \in Steps /\ s.err \notin OfSchema
    <2>1. \A s \in used : s \in Steps
      BY StepTypes, Operations
    <2>2. \A s \in used : s.err \notin OfSchema
      BY StepKinds DEF OfSchema
    <2> QED BY <2>1, <2>2
  <1>5. \A s \in used : StepOk(s)
    BY DEF StepOk, Sound, Maker, Makes, Drops, Recorded, Forgiving, Dumping, Throws, Fatal,
       Tests, Ignores, Probes, Step
  <1>6. OpenOk
    BY <1>1, <1>4, <1>5, StepKinds, SMTT(30) DEF OpenOk, Good, Opens, Maker, Makes, Leaks,
       Leaky, NoLeaks, ClosesFirst
  <1>7. ResetOk
    BY <1>1, <1>4, <1>5, StepKinds DEF ResetOk, Good, Resets, Opens, Drops, HasDrop, Maker,
       Makes, Leaks, Leaky, NoLeaks, DropsMake, ClosesFirst
  <1>8. BackupOk
    BY <1>1, <1>4, <1>5, StepKinds DEF BackupOk, Good
  <1>9. RestoreOk
    BY <1>1, <1>4, <1>5, StepKinds, SMTT(30) DEF RestoreOk, Good, Restores, Resets, Opens,
       Drops, HasDrop, OnlyLast, Maker, Makes, Leaks, Leaky, LeaksOnce, DropsMake,
       ClosesFirst, Recorded
  <1>10. CallOk
    BY <1>3, <1>4, <1>5, StepKinds DEF CallOk, Good
  <1>11. SchemaOk
    BY <1>2, StepKinds, StepTypes, Operations DEF SchemaOk, Good, Reads, StepOk, Sound, Maker,
       Makes, Drops, Catalogs, CatalogsOf, D
  <1> QED BY <1>6, <1>7, <1>8, <1>9, <1>10, <1>11 DEF ProgramsOk

(* The programs of dut_libpq and schema_pqxx.                              *)
LEMMA ProgramsOfPostgres ==
  ASSUME driver = "postgres" PROVE ProgramsOk
PROOF
  <1>1. /\ D.conn.open = <<Probes("connect"), Tests("set"), Tests("set")>>
        /\ D.conn.create = <<Fatal("connect_default"), Throws("create"), Throws("close"),
                           Throws("connect")>>
        /\ D.life.reset = <<Throws("close"), Throws("connect_default"), Throws("drop_force"),
                          Throws("create"), Throws("close"), Throws("connect"), Ignores("set"),
                          Ignores("set")>>
        /\ D.life.backup = <<Throws("copy_record")>>
        /\ D.life.restore = <<Throws("close"), Throws("connect_default"), Throws("drop_force"),
                            Throws("create"), Throws("close"), Throws("connect"),
                            Ignores("set"), Ignores("set"), Throws("if_backup"),
                            Fatal("connect"), Ignores("set"), Ignores("set"),
                            Ignores("replay_backup")>>
    BY Setup DEF D, pgsql_connection, pqxx_test, pqxx_life, pqxx_reset, Recreate,
       DefaultFirst, schema_pqxx, schema_pqxx_types
  <1>2. D.schema = <<Loads("version"), Catalog("types"), Loads("tables"), Loads("columns"),
                      Catalog("operators"), Catalog("routines"), Catalog("aggregates")>>
    <2>1. dut_setup["postgres"].schema = <<Loads("version"), Catalog("types"), Loads("tables"),
                                        Loads("columns"), Catalog("operators"),
                                        Catalog("routines"), Catalog("aggregates")>>
      BY DEF dut_setup, schema_pqxx, schema_pqxx_types, schema_pqxx_tables,
         schema_pqxx_routines
    <2> QED BY <2>1 DEF D
  <1>3. /\ D.test.settings = <<Throws("set")>>
        /\ D.life.content = Ignores("content")
        /\ D.test.stmt \in {"lost", "plain"}
    BY Setup DEF D, pgsql_connection, pqxx_test, pqxx_life, pqxx_reset, Recreate,
       DefaultFirst, schema_pqxx, schema_pqxx_types
  <1> DEFINE used == {Probes("connect"), Tests("set"), Fatal("connect_default"),
                       Throws("create"), Throws("close"), Throws("connect"),
                       Throws("connect_default"), Throws("drop_force"), Ignores("set"),
                       Throws("copy_record"), Throws("if_backup"), Fatal("connect"),
                       Ignores("replay_backup"), Throws("set"), Ignores("content")}
  <1>4. \A s \in used : s \in Steps /\ s.err \notin OfSchema
    <2>1. \A s \in used : s \in Steps
      BY StepTypes, Operations
    <2>2. \A s \in used : s.err \notin OfSchema
      BY StepKinds DEF OfSchema
    <2> QED BY <2>1, <2>2
  <1>5. \A s \in used : StepOk(s)
    BY DEF StepOk, Sound, Maker, Makes, Drops, Recorded, Forgiving, Dumping, Throws, Fatal,
       Tests, Ignores, Probes, Step
  <1>6. OpenOk
    BY <1>1, <1>4, <1>5, StepKinds, SMTT(30) DEF OpenOk, Good, Opens, Maker, Makes, Leaks,
       Leaky, NoLeaks, ClosesFirst
  <1>7. ResetOk
    BY <1>1, <1>4, <1>5, StepKinds DEF ResetOk, Good, Resets, Opens, Drops, HasDrop, Maker,
       Makes, Leaks, Leaky, NoLeaks, DropsMake, ClosesFirst
  <1>8. BackupOk
    BY <1>1, <1>4, <1>5, StepKinds DEF BackupOk, Good
  <1>9. RestoreOk
    BY <1>1, <1>4, <1>5, StepKinds, SMTT(30) DEF RestoreOk, Good, Restores, Resets, Opens,
       Drops, HasDrop, OnlyLast, Maker, Makes, Leaks, Leaky, LeaksOnce, DropsMake,
       ClosesFirst, Recorded
  <1>10. CallOk
    BY <1>3, <1>4, <1>5, StepKinds DEF CallOk, Good
  <1>11. SchemaOk
    BY <1>2, StepKinds, StepTypes, Operations DEF SchemaOk, Good, Reads, StepOk, Sound, Maker,
       Makes, Drops, Catalogs, CatalogsOf, D
  <1> QED BY <1>6, <1>7, <1>8, <1>9, <1>10, <1>11 DEF ProgramsOk

(* The programs of dut_gaussdb_m and schema_gaussdb_m.                     *)
LEMMA ProgramsOfGaussdb ==
  ASSUME driver = "gaussdb" PROVE ProgramsOk
PROOF
  <1>1. /\ D.conn.open = <<Probes("connect"), Tests("set")>>
        /\ D.conn.create = <<Fatal("connect_default"), Throws("create"), Throws("close"),
                           Throws("connect")>>
        /\ D.life.reset = <<Throws("close"), Throws("connect"), Ignores("wipe"), Ignores("tidy"),
                          Ignores("tidy")>>
        /\ D.life.backup = <<Throws("copy_record")>>
        /\ D.life.restore = <<Throws("close"), Throws("connect"), Ignores("wipe"),
                            Ignores("tidy"), Ignores("tidy"), Throws("if_backup"),
                            Fatal("connect"), Ignores("replay_backup")>>
    BY Setup DEF D, gaussdb_connection, gaussdb_test, gaussdb_life, gaussdb_reset,
       schema_gaussdb, schema_gaussdb_types
  <1>2. D.schema = <<Loads("version"), Catalog("types"), Loads("tables"), Loads("columns"),
                      Catalog("operators"), Catalog("routines"), Catalog("aggregates")>>
    <2>1. dut_setup["gaussdb"].schema = <<Loads("version"), Catalog("types"), Loads("tables"),
                                       Loads("columns"), Catalog("operators"),
                                       Catalog("routines"), Catalog("aggregates")>>
      BY DEF dut_setup, schema_gaussdb, schema_gaussdb_types, schema_gaussdb_tables,
         schema_gaussdb_routines
    <2> QED BY <2>1 DEF D
  <1>3. /\ D.test.settings = <<Throws("set")>>
        /\ D.life.content = Ignores("content")
        /\ D.test.stmt \in {"lost", "plain"}
    BY Setup DEF D, gaussdb_connection, gaussdb_test, gaussdb_life, gaussdb_reset,
       schema_gaussdb, schema_gaussdb_types
  <1> DEFINE used == {Probes("connect"), Tests("set"), Fatal("connect_default"),
                       Throws("create"), Throws("close"), Throws("connect"), Ignores("wipe"),
                       Ignores("tidy"), Throws("copy_record"), Throws("if_backup"),
                       Fatal("connect"), Ignores("replay_backup"), Throws("set"),
                       Ignores("content")}
  <1>4. \A s \in used : s \in Steps /\ s.err \notin OfSchema
    <2>1. \A s \in used : s \in Steps
      BY StepTypes, Operations
    <2>2. \A s \in used : s.err \notin OfSchema
      BY StepKinds DEF OfSchema
    <2> QED BY <2>1, <2>2
  <1>5. \A s \in used : StepOk(s)
    BY DEF StepOk, Sound, Maker, Makes, Drops, Recorded, Forgiving, Dumping, Throws, Fatal,
       Tests, Ignores, Probes, Step
  <1>6. OpenOk
    BY <1>1, <1>4, <1>5, StepKinds, SMTT(30) DEF OpenOk, Good, Opens, Maker, Makes, Leaks,
       Leaky, NoLeaks, ClosesFirst
  <1>7. ResetOk
    BY <1>1, <1>4, <1>5, StepKinds DEF ResetOk, Good, Resets, Opens, Drops, HasDrop, Maker,
       Makes, Leaks, Leaky, NoLeaks, DropsMake, ClosesFirst
  <1>8. BackupOk
    BY <1>1, <1>4, <1>5, StepKinds DEF BackupOk, Good
  <1>9. RestoreOk
    BY <1>1, <1>4, <1>5, StepKinds, SMTT(30) DEF RestoreOk, Good, Restores, Resets, Opens,
       Drops, HasDrop, OnlyLast, Maker, Makes, Leaks, Leaky, LeaksOnce, DropsMake,
       ClosesFirst, Recorded
  <1>10. CallOk
    BY <1>3, <1>4, <1>5, StepKinds DEF CallOk, Good
  <1>11. SchemaOk
    BY <1>2, StepKinds, StepTypes, Operations DEF SchemaOk, Good, Reads, StepOk, Sound, Maker,
       Makes, Drops, Catalogs, CatalogsOf, D
  <1> QED BY <1>6, <1>7, <1>8, <1>9, <1>10, <1>11 DEF ProgramsOk

(* The programs of dut_cockroachdb and schema_cockroachdb.                 *)
LEMMA ProgramsOfCockroach ==
  ASSUME driver = "cockroach" PROVE ProgramsOk
PROOF
  <1>1. /\ D.conn.open = <<Fatal("connect")>>
        /\ D.conn.create = <<Throws("connect_default"), Throws("create"), Throws("close"),
                           Throws("connect")>>
        /\ D.life.reset = <<Throws("close"), Throws("connect_default"), Throws("cancel_jobs"),
                          Throws("drop"), Throws("create"), Throws("close"), Throws("connect")>>
        /\ D.life.backup = <<>>
        /\ D.life.restore = <<Throws("close"), Throws("connect_default"), Throws("cancel_jobs"),
                            Throws("drop"), Throws("create"), Throws("close"),
                            Throws("connect"), Tests("replay_record")>>
    BY Setup DEF D, cockroach_connection, cockroach_test, cockroach_life, cockroach_reset,
       Recreate, DefaultFirst, schema_cockroach, schema_cockroach_types
  <1>2. D.schema = <<Loads("version"), Catalog("types"), Loads("tables"), Loads("columns"),
                      Catalog("operators"), Catalog("routines"), Catalog("aggregates")>>
    <2>1. dut_setup["cockroach"].schema = <<Loads("version"), Catalog("types"), Loads("tables"),
                                         Loads("columns"), Catalog("operators"),
                                         Catalog("routines"), Catalog("aggregates")>>
      BY DEF dut_setup, schema_cockroach, schema_cockroach_types, schema_cockroach_tables,
         schema_cockroach_routines
    <2> QED BY <2>1 DEF D
  <1>3. /\ D.test.settings = <<Throws("set")>>
        /\ D.life.content = Ignores("content")
        /\ D.test.stmt \in {"lost", "plain"}
    BY Setup DEF D, cockroach_connection, cockroach_test, cockroach_life, cockroach_reset,
       Recreate, DefaultFirst, schema_cockroach, schema_cockroach_types
  <1> DEFINE used == {Fatal("connect"), Throws("connect_default"), Throws("create"),
                       Throws("close"), Throws("connect"), Throws("cancel_jobs"),
                       Throws("drop"), Tests("replay_record"), Throws("set"), Ignores("content")}
  <1>4. \A s \in used : s \in Steps /\ s.err \notin OfSchema
    <2>1. \A s \in used : s \in Steps
      BY StepTypes, Operations
    <2>2. \A s \in used : s.err \notin OfSchema
      BY StepKinds DEF OfSchema
    <2> QED BY <2>1, <2>2
  <1>5. \A s \in used : StepOk(s)
    BY DEF StepOk, Sound, Maker, Makes, Drops, Recorded, Forgiving, Dumping, Throws, Fatal,
       Tests, Ignores, Probes, Step
  <1>6. OpenOk
    BY <1>1, <1>4, <1>5, StepKinds, SMTT(30) DEF OpenOk, Good, Opens, Maker, Makes, Leaks,
       Leaky, NoLeaks, ClosesFirst
  <1>7. ResetOk
    BY <1>1, <1>4, <1>5, StepKinds DEF ResetOk, Good, Resets, Opens, Drops, HasDrop, Maker,
       Makes, Leaks, Leaky, NoLeaks, DropsMake, ClosesFirst
  <1>8. BackupOk
    BY <1>1, <1>4, <1>5, StepKinds DEF BackupOk, Good
  <1>9. RestoreOk
    BY <1>1, <1>4, <1>5, StepKinds, SMTT(30) DEF RestoreOk, Good, Restores, Resets, Opens,
       Drops, HasDrop, OnlyLast, Maker, Makes, Leaks, Leaky, LeaksOnce, DropsMake,
       ClosesFirst, Recorded
  <1>10. CallOk
    BY <1>3, <1>4, <1>5, StepKinds DEF CallOk, Good
  <1>11. SchemaOk
    BY <1>2, StepKinds, StepTypes, Operations DEF SchemaOk, Good, Reads, StepOk, Sound, Maker,
       Makes, Drops, Catalogs, CatalogsOf, D
  <1> QED BY <1>6, <1>7, <1>8, <1>9, <1>10, <1>11 DEF ProgramsOk

(* The programs of dut_yugabyte and schema_yugabyte.                       *)
LEMMA ProgramsOfYugabyte ==
  ASSUME driver = "yugabyte" PROVE ProgramsOk
PROOF
  <1>1. /\ D.conn.open = <<Fatal("connect")>>
        /\ D.conn.create = <<Throws("connect_default"), Throws("create"), Throws("close"),
                           Throws("connect")>>
        /\ D.life.reset = <<Throws("close"), Throws("connect_default"), Throws("drop_force"),
                          Throws("create"), Throws("close"), Throws("connect")>>
        /\ D.life.backup = <<>>
        /\ D.life.restore = <<Throws("close"), Throws("connect_default"), Throws("drop_force"),
                            Throws("create"), Throws("close"), Throws("connect"),
                            Tests("replay_record")>>
    BY Setup DEF D, yugabyte_connection, yugabyte_test, yugabyte_life, yugabyte_reset,
       Recreate, DefaultFirst, schema_yugabyte, schema_yugabyte_types
  <1>2. D.schema = <<Loads("version"), Catalog("types"), Loads("tables"), Loads("columns"),
                      Catalog("operators"), Catalog("routines"), Catalog("aggregates")>>
    <2>1. dut_setup["yugabyte"].schema = <<Loads("version"), Catalog("types"), Loads("tables"),
                                        Loads("columns"), Catalog("operators"),
                                        Catalog("routines"), Catalog("aggregates")>>
      BY DEF dut_setup, schema_yugabyte, schema_yugabyte_types, schema_yugabyte_tables,
         schema_yugabyte_routines
    <2> QED BY <2>1 DEF D
  <1>3. /\ D.test.settings = <<Throws("set")>>
        /\ D.life.content = Ignores("content")
        /\ D.test.stmt \in {"lost", "plain"}
    BY Setup DEF D, yugabyte_connection, yugabyte_test, yugabyte_life, yugabyte_reset,
       Recreate, DefaultFirst, schema_yugabyte, schema_yugabyte_types
  <1> DEFINE used == {Fatal("connect"), Throws("connect_default"), Throws("create"),
                       Throws("close"), Throws("connect"), Throws("drop_force"),
                       Tests("replay_record"), Throws("set"), Ignores("content")}
  <1>4. \A s \in used : s \in Steps /\ s.err \notin OfSchema
    <2>1. \A s \in used : s \in Steps
      BY StepTypes, Operations
    <2>2. \A s \in used : s.err \notin OfSchema
      BY StepKinds DEF OfSchema
    <2> QED BY <2>1, <2>2
  <1>5. \A s \in used : StepOk(s)
    BY DEF StepOk, Sound, Maker, Makes, Drops, Recorded, Forgiving, Dumping, Throws, Fatal,
       Tests, Ignores, Probes, Step
  <1>6. OpenOk
    BY <1>1, <1>4, <1>5, StepKinds, SMTT(30) DEF OpenOk, Good, Opens, Maker, Makes, Leaks,
       Leaky, NoLeaks, ClosesFirst
  <1>7. ResetOk
    BY <1>1, <1>4, <1>5, StepKinds DEF ResetOk, Good, Resets, Opens, Drops, HasDrop, Maker,
       Makes, Leaks, Leaky, NoLeaks, DropsMake, ClosesFirst
  <1>8. BackupOk
    BY <1>1, <1>4, <1>5, StepKinds DEF BackupOk, Good
  <1>9. RestoreOk
    BY <1>1, <1>4, <1>5, StepKinds, SMTT(30) DEF RestoreOk, Good, Restores, Resets, Opens,
       Drops, HasDrop, OnlyLast, Maker, Makes, Leaks, Leaky, LeaksOnce, DropsMake,
       ClosesFirst, Recorded
  <1>10. CallOk
    BY <1>3, <1>4, <1>5, StepKinds DEF CallOk, Good
  <1>11. SchemaOk
    BY <1>2, StepKinds, StepTypes, Operations DEF SchemaOk, Good, Reads, StepOk, Sound, Maker,
       Makes, Drops, Catalogs, CatalogsOf, D
  <1> QED BY <1>6, <1>7, <1>8, <1>9, <1>10, <1>11 DEF ProgramsOk

(* The programs of dut_clickhouse and schema_clickhouse.                   *)
LEMMA ProgramsOfClickhouse ==
  ASSUME driver = "clickhouse" PROVE ProgramsOk
PROOF
  <1>1. /\ D.conn.open = <<Throws("create_missing")>>
        /\ D.conn.create = <<>>
        /\ D.life.reset = <<Throws("drop"), Throws("create_missing")>>
        /\ D.life.backup = <<>>
        /\ D.life.restore = <<Throws("drop"), Throws("create_missing"), Throws("need_record"),
                            Throws("replay_record")>>
    BY Setup DEF D, clickhouse_connection, clickhouse_test, clickhouse_life, clickhouse_reset,
       schema_clickhouse
  <1>2. D.schema = <<Loads("tables"), Loads("views"), Loads("columns")>>
    BY Setup DEF D, clickhouse_connection, clickhouse_test, clickhouse_life, clickhouse_reset,
       schema_clickhouse
  <1>3. /\ D.test.settings = <<>>
        /\ D.life.content = Throws("content")
        /\ D.test.stmt \in {"lost", "plain"}
    BY Setup DEF D, clickhouse_connection, clickhouse_test, clickhouse_life, clickhouse_reset,
       schema_clickhouse
  <1> DEFINE used == {Throws("create_missing"), Throws("drop"), Throws("need_record"),
                       Throws("replay_record"), Throws("content")}
  <1>4. \A s \in used : s \in Steps /\ s.err \notin OfSchema
    <2>1. \A s \in used : s \in Steps
      BY StepTypes, Operations
    <2>2. \A s \in used : s.err \notin OfSchema
      BY StepKinds DEF OfSchema
    <2> QED BY <2>1, <2>2
  <1>5. \A s \in used : StepOk(s)
    BY DEF StepOk, Sound, Maker, Makes, Drops, Recorded, Forgiving, Dumping, Throws, Fatal,
       Tests, Ignores, Probes, Step
  <1>6. OpenOk
    BY <1>1, <1>4, <1>5, StepKinds, SMTT(30) DEF OpenOk, Good, Opens, Maker, Makes, Leaks,
       Leaky, NoLeaks, ClosesFirst
  <1>7. ResetOk
    BY <1>1, <1>4, <1>5, StepKinds DEF ResetOk, Good, Resets, Opens, Drops, HasDrop, Maker,
       Makes, Leaks, Leaky, NoLeaks, DropsMake, ClosesFirst
  <1>8. BackupOk
    BY <1>1, <1>4, <1>5, StepKinds DEF BackupOk, Good
  <1>9. RestoreOk
    BY <1>1, <1>4, <1>5, StepKinds, SMTT(30) DEF RestoreOk, Good, Restores, Resets, Opens,
       Drops, HasDrop, OnlyLast, Maker, Makes, Leaks, Leaky, LeaksOnce, DropsMake,
       ClosesFirst, Recorded
  <1>10. CallOk
    BY <1>3, <1>4, <1>5, StepKinds DEF CallOk, Good
  <1>11. SchemaOk
    BY <1>2, StepKinds, StepTypes, Operations DEF SchemaOk, Good, Reads, StepOk, Sound, Maker,
       Makes, Drops, Catalogs, CatalogsOf, D
  <1> QED BY <1>6, <1>7, <1>8, <1>9, <1>10, <1>11 DEF ProgramsOk

(* The programs of dut_sqlite and schema_sqlite.                           *)
LEMMA ProgramsOfSqlite ==
  ASSUME driver = "sqlite" PROVE ProgramsOk
PROOF
  <1>1. /\ D.conn.open = <<Throws("open")>>
        /\ D.conn.create = <<>>
        /\ D.life.reset = <<Throws("close"), Ignores("drop"), Throws("open")>>
        /\ D.life.backup = <<Throws("dump")>>
        /\ D.life.restore = <<Throws("close"), Ignores("drop"), Throws("open"),
                            Throws("copy_back")>>
    BY Setup DEF D, sqlite_connection, sqlite_test, sqlite_life, schema_sqlite
  <1>2. D.schema = <<Loads("tables"), Loads("indexes"), Step("columns", "expected")>>
    BY Setup DEF D, sqlite_connection, sqlite_test, sqlite_life, schema_sqlite
  <1>3. /\ D.test.settings = <<>>
        /\ D.life.content = Throws("content")
        /\ D.test.stmt \in {"lost", "plain"}
    BY Setup DEF D, sqlite_connection, sqlite_test, sqlite_life, schema_sqlite
  <1> DEFINE used == {Throws("open"), Throws("close"), Ignores("drop"), Throws("dump"),
                       Throws("copy_back"), Throws("content")}
  <1>4. \A s \in used : s \in Steps /\ s.err \notin OfSchema
    <2>1. \A s \in used : s \in Steps
      BY StepTypes, Operations
    <2>2. \A s \in used : s.err \notin OfSchema
      BY StepKinds DEF OfSchema
    <2> QED BY <2>1, <2>2
  <1>5. \A s \in used : StepOk(s)
    BY DEF StepOk, Sound, Maker, Makes, Drops, Recorded, Forgiving, Dumping, Throws, Fatal,
       Tests, Ignores, Probes, Step
  <1>6. OpenOk
    BY <1>1, <1>4, <1>5, StepKinds, SMTT(30) DEF OpenOk, Good, Opens, Maker, Makes, Leaks,
       Leaky, NoLeaks, ClosesFirst
  <1>7. ResetOk
    BY <1>1, <1>4, <1>5, StepKinds DEF ResetOk, Good, Resets, Opens, Drops, HasDrop, Maker,
       Makes, Leaks, Leaky, NoLeaks, DropsMake, ClosesFirst
  <1>8. BackupOk
    BY <1>1, <1>4, <1>5, StepKinds DEF BackupOk, Good
  <1>9. RestoreOk
    <2> DEFINE p == D.life.restore
    <2>1. Good(p, Restores \ {"apply", "load"})
      BY <1>1, <1>4, <1>5, StepKinds DEF Good, Restores, Resets, Opens, Drops
    <2>2. DropsMake(p)
      BY <1>1, <1>4, <1>5, StepKinds DEF DropsMake, Maker, Makes, Drops
    <2>3. Len(p) >= 1 /\ p[Len(p)].do = "copy_back"
      BY <1>1, <1>4, <1>5, StepKinds
    <2>4. OnlyLast(p, {"copy_back"})
      BY <1>1, <1>4, <1>5, StepKinds DEF OnlyLast
    <2>5. ClosesFirst(p)
      BY <1>1, <1>4, <1>5, StepKinds DEF ClosesFirst
    <2>6. NoLeaks(p)
      BY <1>1, <1>4, <1>5, StepKinds DEF NoLeaks, Leaks, Leaky
    <2> QED BY <2>1, <2>2, <2>3, <2>4, <2>5, <2>6 DEF RestoreOk, Recorded, NoLeaks, LeaksOnce
  <1>10. CallOk
    BY <1>3, <1>4, <1>5, StepKinds DEF CallOk, Good
  <1>11. SchemaOk
    BY <1>2, StepKinds, StepTypes, Operations DEF SchemaOk, Good, Reads, StepOk, Sound, Maker,
       Makes, Drops, Catalogs, CatalogsOf, D
  <1> QED BY <1>6, <1>7, <1>8, <1>9, <1>10, <1>11 DEF ProgramsOk

(* Whichever driver dut_setup() chose, its programs are as they should be. *)
LEMMA Programs ==
  ASSUME driver \in Drivers PROVE ProgramsOk
PROOF
  BY DriversAssumption, Setup, ProgramsOfMysql, ProgramsOfTidb, ProgramsOfOceanbase,
     ProgramsOfPostgres, ProgramsOfGaussdb, ProgramsOfCockroach, ProgramsOfYugabyte,
     ProgramsOfClickhouse, ProgramsOfSqlite

(* The drivers that go on after a statement that failed are lenient.        *)
LEMMA ForgivingIsLenient == Forgiving \subseteq Lenient
PROOF
  <1> DEFINE Forgives(d) ==
               \E i \in 1..Len(dut_setup[d].life.restore) :
                 /\ dut_setup[d].life.restore[i].do \in {"replay_backup", "wipe"}
                 /\ dut_setup[d].life.restore[i].err = "ignored"
  <1>1. Forgives("mysql")
    <2>1. dut_setup["mysql"].life.restore[6] = Ignores("replay_backup") /\ Len(dut_setup["mysql"].life.restore) = 7
      BY DEF dut_setup, mysql_life, DropCreateUse
    <2> QED BY <2>1, StepKinds
  <1>2. Forgives("tidb")
    <2>1. dut_setup["tidb"].life.restore[6] = Ignores("replay_backup") /\ Len(dut_setup["tidb"].life.restore) = 7
      BY DEF dut_setup, tidb_life, DropCreateUse
    <2> QED BY <2>1, StepKinds
  <1>3. Forgives("postgres")
    <2>1. dut_setup["postgres"].life.restore[13] = Ignores("replay_backup") /\ Len(dut_setup["postgres"].life.restore) = 13
      BY DEF dut_setup, pqxx_life, pqxx_reset, Recreate, DefaultFirst
    <2> QED BY <2>1, StepKinds
  <1>4. Forgives("gaussdb")
    <2>1. dut_setup["gaussdb"].life.restore[8] = Ignores("replay_backup") /\ Len(dut_setup["gaussdb"].life.restore) = 8
      BY DEF dut_setup, gaussdb_life, gaussdb_reset
    <2> QED BY <2>1, StepKinds
  <1> HIDE DEF Forgives
  <1>5. \A d \in Forgiving : d \in DBMSs /\ Forgives(d)
    BY <1>1, <1>2, <1>3, <1>4, Setup DEF Forgiving
  <1> QED BY <1>5 DEF Lenient, Forgives

(* The database made by the prefixes of a record: one statement more each.  *)
LEMMA ReplayPrefixes ==
  ASSUME NEW S, NEW r \in Seq(S)
  PROVE  \E h \in [0..Len(r) -> Seq(S)] :
           /\ h[0] = <<>> /\ h[Len(r)] = Replay(r)
           /\ \A k \in 0..(Len(r) - 1) : h[k + 1] = After(h[k], r[k + 1])
PROOF
  <1> DEFINE n == Len(r)
             X == Seq(S)
             F == [i \in 1..n |-> [x \in X |-> After(x, r[i])]]
             E(g) == g = [s \in SUBSET (DOMAIN r) |->
                           IF s = {} THEN <<>> ELSE After(g[s \ {Max(s)}], r[Max(s)])]
             it == CHOOSE g : E(g)
  <1>1. n \in Nat /\ DOMAIN r = 1..n /\ <<>> \in X
    OBVIOUS
  <1>2. ASSUME NEW i \in 1..n, NEW x \in X PROVE After(x, r[i]) \in X
    BY DEF After
  <1>3. F \in [1..n -> [X -> X]]
    BY <1>2
  <1>4. PICK h \in [SUBSET (1..n) -> X] : IsFold(n, <<>>, F, h)
    <2> HIDE DEF F, n, X
    <2> QED BY <1>1, <1>3, FoldExists
  <1>5. ASSUME NEW s \in SUBSET (1..n), s # {}, NEW x \in X
        PROVE  F[Max(s)][x] = After(x, r[Max(s)])
    <2>1. Max(s) \in 1..n
      <3> HIDE DEF n
      <3> QED BY <1>1, <1>5, PositionsBelow
    <2> QED BY <2>1
  <1>6. E(h)
    <2>1. ASSUME NEW s \in SUBSET (1..n)
          PROVE  h[s] = IF s = {} THEN <<>> ELSE After(h[s \ {Max(s)}], r[Max(s)])
      <3>1. s # {} => h[s \ {Max(s)}] \in X
        <4> HIDE DEF n, X
        <4> QED BY <1>1, <1>4, PositionsBelow
      <3> HIDE DEF n, F, X
      <3> QED BY <1>4, <1>5, <3>1 DEF IsFold
    <2> QED BY <1>1, <1>4, <2>1
  <1>7. E(it)
    <2> HIDE DEF E
    <2> QED BY <1>6
  <1>8. Replay(r) = it[1..n]
    <2>1. Replay(r) = it[DOMAIN r]
      BY DEF Replay, FoldLeft, MapThenFoldSet
    <2> QED BY <1>1, <2>1
  <1>9. /\ it[{}] = <<>>
        /\ \A s \in SUBSET (1..n) : s # {} => it[s] = After(it[s \ {Max(s)}], r[Max(s)])
    <2> HIDE DEF it
    <2> QED BY <1>1, <1>7
  <1>10. PICK f \in [0..n -> X] :
           /\ f[0] = <<>> /\ f[n] = it[1..n]
           /\ \A k \in 0..(n - 1) : f[k + 1] = F[k + 1][f[k]]
    <2>1. ASSUME NEW s \in SUBSET (1..n), s # {}, it[s \ {Max(s)}] \in X
          PROVE  it[s] = F[Max(s)][it[s \ {Max(s)}]]
      <3> HIDE DEF n, F, X, it
      <3> QED BY <1>5, <1>9, <2>1
    <2> HIDE DEF n, F, X, it
    <2>2. FoldsOn(n, X, <<>>, F, it)
      BY <1>9, <2>1 DEF FoldsOn
    <2> QED BY <1>1, <1>3, <2>2, FoldPrefixes
  <1>11. \A k \in 0..(n - 1) : F[k + 1][f[k]] = After(f[k], r[k + 1])
    <2> TAKE k \in 0..(n - 1)
    <2>1. k + 1 \in 1..n /\ f[k] \in X
      <3> HIDE DEF n, X, F
      <3>1. k + 1 \in 1..n
        BY <1>1
      <3>2. k \in 0..n
        BY <1>1
      <3> QED BY <1>10, <3>1, <3>2
    <2> QED BY <2>1
  <1> HIDE DEF F, it
  <1> QED BY <1>8, <1>10, <1>11

(* The database of an empty record, and of one statement more.              *)
LEMMA ReplayAppend ==
  ASSUME NEW S, NEW r \in Seq(S), NEW x \in S
  PROVE  /\ Replay(<<>>) = <<>> /\ Replay(r) \in Seq(S)
         /\ Replay(Append(r, x)) = After(Replay(r), x)
PROOF
  <1> DEFINE n == Len(r)
             q == Append(r, x)
  <1>1. q \in Seq(S) /\ Len(q) = n + 1 /\ n \in Nat /\ q[n + 1] = x /\ \A k \in 1..n : q[k] = r[k]
    OBVIOUS
  <1>2. PICK f \in [0..n -> Seq(S)] :
          /\ f[0] = <<>> /\ f[n] = Replay(r)
          /\ \A k \in 0..(n - 1) : f[k + 1] = After(f[k], r[k + 1])
    BY ReplayPrefixes
  <1>3. PICK g \in [0..(n + 1) -> Seq(S)] :
          /\ g[0] = <<>> /\ g[n + 1] = Replay(q)
          /\ \A k \in 0..n : g[k + 1] = After(g[k], q[k + 1])
    <2> HIDE DEF q
    <2>1. \E g \in [0..Len(q) -> Seq(S)] :
            /\ g[0] = <<>> /\ g[Len(q)] = Replay(q)
            /\ \A k \in 0..(Len(q) - 1) : g[k + 1] = After(g[k], q[k + 1])
      BY <1>1, ReplayPrefixes
    <2>2. (n + 1) - 1 = n
      BY <1>1
    <2> HIDE DEF n
    <2> QED BY <1>1, <2>1, <2>2
  <1>4. \A k \in 0..(n - 1) : f[k] = g[k] => f[k + 1] = g[k + 1]
    <2> TAKE k \in 0..(n - 1)
    <2>1. k \in 0..n /\ k + 1 \in 1..n
      BY <1>1
    <2> HIDE DEF q
    <2> QED BY <1>1, <1>2, <1>3, <2>1
  <1>5. f[n] = g[n]
    <2>1. \A k \in 0..n : f[k] = g[k]
      <3>1. n \in Nat /\ f[0] = g[0]
        BY <1>1, <1>2, <1>3
      <3> HIDE DEF n
      <3> QED BY <1>4, <3>1, SameSteps
    <2> QED BY <1>1, <2>1
  <1>6. g[n + 1] = After(g[n], x)
    <2>1. n \in 0..n
      BY <1>1
    <2> HIDE DEF q, n
    <2> QED BY <1>1, <1>3, <2>1
  <1>7. Replay(r) \in Seq(S)
    BY <1>1, <1>2
  <1>8. Replay(<<>>) = <<>>
    <2>1. <<>> \in Seq(S) /\ Len(<<>>) = 0
      OBVIOUS
    <2>2. \E h \in [0..0 -> Seq(S)] : h[0] = <<>> /\ h[0] = Replay(<<>>)
      BY <2>1, ReplayPrefixes
    <2> QED BY <2>2
  <1> QED BY <1>2, <1>3, <1>5, <1>6, <1>7, <1>8

(* What Unread keeps: steps of p, among them all that read what is not      *)
(* cached.                                                                  *)
LEMMA UnreadKeeps ==
  ASSUME NEW S, NEW p \in Seq(S)
  PROVE  /\ Unread(p) \in Seq(S)
         /\ \A j \in 1..Len(Unread(p)) : \E i \in 1..Len(p) : Unread(p)[j] = p[i]
         /\ \A i \in 1..Len(p) : p[i].stmt = "none" \/ p[i].do \notin cache.has =>
              \E j \in 1..Len(Unread(p)) : Unread(p)[j] = p[i]
PROOF
  <1> DEFINE n == Len(p)
             X == Seq(S)
             Keep(q, s) == IF s.stmt = "none" \/ s.do \notin cache.has THEN Append(q, s) ELSE q
             F == [i \in 1..n |-> [q \in X |-> Keep(q, p[i])]]
             E(g) == g = [s \in SUBSET (DOMAIN p) |->
                           IF s = {} THEN <<>> ELSE Keep(g[s \ {Max(s)}], p[Max(s)])]
             it == CHOOSE g : E(g)
  <1>1. n \in Nat /\ DOMAIN p = 1..n /\ <<>> \in X
    OBVIOUS
  <1>2. ASSUME NEW i \in 1..n, NEW q \in X PROVE Keep(q, p[i]) \in X
    OBVIOUS
  <1>3. F \in [1..n -> [X -> X]]
    <2> HIDE DEF Keep
    <2> QED BY <1>2
  <1>4. PICK h \in [SUBSET (1..n) -> X] : IsFold(n, <<>>, F, h)
    <2> HIDE DEF F, n, X
    <2> QED BY <1>1, <1>3, FoldExists
  <1>5. ASSUME NEW s \in SUBSET (1..n), s # {}, NEW x \in X
        PROVE  F[Max(s)][x] = Keep(x, p[Max(s)])
    <2>1. Max(s) \in 1..n
      <3> HIDE DEF n
      <3> QED BY <1>1, <1>5, PositionsBelow
    <2> HIDE DEF Keep
    <2> QED BY <2>1
  <1>6. E(h)
    <2>1. ASSUME NEW s \in SUBSET (1..n)
          PROVE  h[s] = IF s = {} THEN <<>> ELSE Keep(h[s \ {Max(s)}], p[Max(s)])
      <3>1. s # {} => h[s \ {Max(s)}] \in X
        <4> HIDE DEF n, X
        <4> QED BY <1>1, <1>4, PositionsBelow
      <3> HIDE DEF n, F, X, Keep
      <3> QED BY <1>4, <1>5, <3>1 DEF IsFold
    <2> HIDE DEF Keep
    <2> QED BY <1>1, <1>4, <2>1
  <1>7. E(it)
    <2> HIDE DEF E
    <2> QED BY <1>6
  <1>8. Unread(p) = it[1..n]
    <2>1. Unread(p) = it[DOMAIN p]
      BY DEF Unread, FoldLeft, MapThenFoldSet
    <2> QED BY <1>1, <2>1
  <1>9. /\ it[{}] = <<>>
        /\ \A s \in SUBSET (1..n) : s # {} => it[s] = Keep(it[s \ {Max(s)}], p[Max(s)])
    <2> HIDE DEF it, Keep
    <2> QED BY <1>1, <1>7
  <1>10. PICK f \in [0..n -> X] :
           /\ f[0] = <<>> /\ f[n] = it[1..n]
           /\ \A k \in 0..(n - 1) : f[k + 1] = F[k + 1][f[k]]
    <2>1. ASSUME NEW s \in SUBSET (1..n), s # {}, it[s \ {Max(s)}] \in X
          PROVE  it[s] = F[Max(s)][it[s \ {Max(s)}]]
      <3> HIDE DEF n, F, X, it, Keep
      <3> QED BY <1>5, <1>9, <2>1
    <2> HIDE DEF n, F, X, it, Keep
    <2>2. FoldsOn(n, X, <<>>, F, it)
      BY <1>9, <2>1 DEF FoldsOn
    <2> QED BY <1>1, <1>3, <2>2, FoldPrefixes
  <1>11. \A k \in 0..(n - 1) : f[k + 1] = Keep(f[k], p[k + 1])
    <2> TAKE k \in 0..(n - 1)
    <2>1. k + 1 \in 1..n /\ f[k] \in X
      <3> HIDE DEF n, X, F
      <3>1. k + 1 \in 1..n
        BY <1>1
      <3>2. k \in 0..n
        BY <1>1
      <3> QED BY <1>10, <3>1, <3>2
    <2> HIDE DEF Keep
    <2>2. F[k + 1][f[k]] = Keep(f[k], p[k + 1])
      BY <2>1
    <2> HIDE DEF F
    <2> QED BY <1>10, <2>2
  <1> DEFINE From(q, k) == \A j \in 1..Len(q) : \E i \in 1..k : q[j] = p[i]
             New(i) == p[i].stmt = "none" \/ p[i].do \notin cache.has
             All(q, k) == \A i \in 1..k : New(i) => \E j \in 1..Len(q) : q[j] = p[i]
             Ok == {k \in Nat : k <= n => From(f[k], k) /\ All(f[k], k)}
  <1>12. 0 \in Ok
    BY <1>10
  <1>13. ASSUME NEW k \in Nat, k \in Ok PROVE k + 1 \in Ok
    <2> SUFFICES ASSUME k + 1 <= n PROVE From(f[k + 1], k + 1) /\ All(f[k + 1], k + 1)
      OBVIOUS
    <2>1. /\ k \in 0..(n - 1) /\ k <= n /\ f[k] \in X /\ From(f[k], k) /\ All(f[k], k)
          /\ f[k + 1] = Keep(f[k], p[k + 1]) /\ k + 1 \in 1..n /\ p[k + 1] \in S
      <3>1. k \in 0..(n - 1) /\ k <= n /\ k \in 0..n /\ k + 1 \in 1..n
        BY <1>1
      <3>2. f[k + 1] = Keep(f[k], p[k + 1]) /\ f[k] \in X
        <4> HIDE DEF Keep, X
        <4> QED BY <1>10, <1>11, <3>1
      <3> QED BY <1>13, <3>1, <3>2
    <2> DEFINE q == f[k]
               r == f[k + 1]
    <2>2. CASE New(k + 1)
      <3>1. r = Append(q, p[k + 1])
        BY <2>1, <2>2
      <3>2. /\ Len(r) = Len(q) + 1 /\ Len(q) \in Nat /\ r[Len(q) + 1] = p[k + 1]
            /\ \A j \in 1..Len(q) : r[j] = q[j]
        <4> HIDE DEF r
        <4> QED BY <2>1, <3>1
      <3>3. From(r, k + 1)
        <4> SUFFICES ASSUME NEW j \in 1..Len(r) PROVE \E i \in 1..(k + 1) : r[j] = p[i]
          OBVIOUS
        <4>1. j \in 1..Len(q) \/ j = Len(q) + 1
          BY <3>2
        <4> HIDE DEF r, q
        <4> QED BY <2>1, <3>2, <4>1 DEF q
      <3>4. All(r, k + 1)
        <4> SUFFICES ASSUME NEW i \in 1..(k + 1), New(i)
                     PROVE  \E j \in 1..Len(r) : r[j] = p[i]
          OBVIOUS
        <4>1. CASE i = k + 1
          <5>1. Len(q) + 1 \in 1..Len(r)
            BY <3>2
          <5> QED BY <3>2, <4>1, <5>1
        <4>2. CASE i \in 1..k
          <5>1. PICK j \in 1..Len(q) : q[j] = p[i]
            BY <2>1, <4>2
          <5>2. j \in 1..Len(r)
            BY <3>2
          <5> QED BY <3>2, <5>1, <5>2
        <4> QED BY <4>1, <4>2
      <3> QED BY <3>3, <3>4
    <2>3. CASE ~New(k + 1)
      <3>1. r = q
        BY <2>1, <2>3
      <3>2. From(r, k + 1)
        <4>1. \A i \in 1..k : i \in 1..(k + 1)
          OBVIOUS
        <4> QED BY <2>1, <3>1, <4>1
      <3>3. All(r, k + 1)
        <4>1. \A i \in 1..(k + 1) : New(i) => i \in 1..k
          BY <2>3
        <4> HIDE DEF New
        <4> QED BY <2>1, <3>1, <4>1
      <3> QED BY <3>2, <3>3
    <2> QED BY <2>2, <2>3
  <1>14. n \in Ok
    <2> HIDE DEF Ok
    <2> QED BY <1>1, <1>12, <1>13, NatClosed
  <1>15. From(f[n], n) /\ All(f[n], n) /\ f[n] \in X
    <2>1. n <= n /\ n \in 0..n
      BY <1>1
    <2>2. f[n] \in X
      <3> HIDE DEF it, F, X, n
      <3> QED BY <1>10, <2>1
    <2>3. From(f[n], n) /\ All(f[n], n)
      <3> HIDE DEF From, All
      <3> QED BY <1>14, <2>1
    <2> QED BY <2>2, <2>3
  <1>16. Unread(p) = f[n]
    BY <1>8, <1>10
  <1> QED BY <1>15, <1>16

(* One program after the other.                                             *)
LEMMA Glued ==
  ASSUME NEW p \in Seq(Steps), NEW q \in Seq(Steps)
  PROVE  /\ p \o q \in Seq(Steps) /\ Len(p \o q) = Len(p) + Len(q)
         /\ Len(p) \in Nat /\ Len(q) \in Nat
         /\ \A k \in 1..Len(p) : (p \o q)[k] = p[k]
         /\ \A k \in 1..Len(q) : (p \o q)[Len(p) + k] = q[k]
         /\ \A k \in (Len(p) + 1)..(Len(p) + Len(q)) : (p \o q)[k] = q[k - Len(p)]
PROOF OBVIOUS

(* Two programs one after the other.                                       *)
LEMMA GoodConcat ==
  ASSUME NEW A, NEW p, NEW q, Good(p, A), Good(q, A)
  PROVE  Good(p \o q, A)
PROOF
  <1> DEFINE r == p \o q
  <1>1. p \in Seq(Steps) /\ q \in Seq(Steps)
    BY DEF Good
  <1>2. /\ r \in Seq(Steps) /\ Len(r) = Len(p) + Len(q) /\ Len(p) \in Nat /\ Len(q) \in Nat
        /\ \A k \in 1..Len(p) : r[k] = p[k]
        /\ \A k \in (Len(p) + 1)..(Len(p) + Len(q)) : r[k] = q[k - Len(p)]
    BY <1>1, Glued
  <1> HIDE DEF r
  <1>3. ASSUME NEW k \in 1..Len(r) PROVE r[k].do \in A /\ StepOk(r[k])
    <2>1. CASE k \in 1..Len(p)
      BY <1>2, <2>1 DEF Good
    <2>2. CASE k \in (Len(p) + 1)..(Len(p) + Len(q))
      <3>1. k - Len(p) \in 1..Len(q)
        BY <1>2, <2>2
      <3> QED BY <1>2, <2>2, <3>1 DEF Good
    <2> QED BY <1>2, <2>1, <2>2
  <1> QED BY <1>2, <1>3 DEF Good, r

(* A program of some operations is one of more operations.                 *)
LEMMA GoodMore ==
  ASSUME NEW A, NEW B, A \subseteq B, NEW p, Good(p, A)
  PROVE  Good(p, B)
PROOF BY DEF Good

(* A program of one step.                                                  *)
LEMMA GoodOne ==
  ASSUME NEW A, NEW s \in Steps, s.do \in A, StepOk(s),
         s.err \in OfSchema => "tables" \in A
  PROVE  Good(<<s>>, A)
PROOF
  <1>1. <<s>> \in Seq(Steps) /\ Len(<<s>>) = 1 /\ <<s>>[1] = s
    OBVIOUS
  <1> QED BY <1>1 DEF Good

(* Where each of two programs makes the database again that it drops,      *)
(* so do both.                                                             *)
LEMMA MakeConcat ==
  ASSUME NEW p \in Seq(Steps), NEW q \in Seq(Steps), DropsMake(p), DropsMake(q)
  PROVE  DropsMake(p \o q)
PROOF
  <1> DEFINE r == p \o q
  <1>2. /\ r \in Seq(Steps) /\ Len(r) = Len(p) + Len(q) /\ Len(p) \in Nat /\ Len(q) \in Nat
        /\ \A k \in 1..Len(p) : r[k] = p[k]
        /\ \A k \in (Len(p) + 1)..(Len(p) + Len(q)) : r[k] = q[k - Len(p)]
    BY Glued
  <1> HIDE DEF r
  <1>3. ASSUME NEW k \in 1..Len(r), r[k].do \in Drops PROVE k < Len(r) /\ Maker(r[k + 1])
    <2>1. CASE k \in 1..Len(p)
      <3>1. k < Len(p) /\ Maker(p[k + 1])
        BY <1>2, <1>3, <2>1 DEF DropsMake
      <3>2. k + 1 \in 1..Len(p)
        BY <1>2, <3>1
      <3> QED BY <1>2, <3>1, <3>2
    <2>2. CASE k \in (Len(p) + 1)..(Len(p) + Len(q))
      <3>1. k - Len(p) \in 1..Len(q)
        BY <1>2, <2>2
      <3>2. k - Len(p) < Len(q) /\ Maker(q[k - Len(p) + 1])
        BY <1>2, <1>3, <2>2, <3>1 DEF DropsMake
      <3>3. k + 1 \in (Len(p) + 1)..(Len(p) + Len(q)) /\ (k + 1) - Len(p) = k - Len(p) + 1
        BY <1>2, <2>2, <3>2
      <3> QED BY <1>2, <3>2, <3>3
    <2> QED BY <1>2, <2>1, <2>2
  <1> QED BY <1>3 DEF DropsMake, r

(* A program that drops nothing has nothing to make again.                 *)
LEMMA NothingDropped ==
  ASSUME NEW A, A \cap Drops = {}, NEW p, Good(p, A)
  PROVE  DropsMake(p)
PROOF BY DEF Good, DropsMake

(* A program whose connections follow a close, behind any other one.        *)
LEMMA SessionsConcat ==
  ASSUME NEW p \in Seq(Steps), NEW q \in Seq(Steps), Sessions(p), NoLeaks(p), LeaksOnce(q),
         \A k \in 1..Len(q) : q[k].do = "connect" /\ ~Leaks(q[k]) =>
           \/ k >= 2 /\ q[k - 1].do = "close"
           \/ k >= 3 /\ q[k - 1].do = "replay_backup" /\ q[k - 2].do = "close"
           \/ k = 1 /\ Len(p) >= 1 /\ p[Len(p)].do = "close"
  PROVE  Sessions(p \o q)
PROOF
  <1> DEFINE r == p \o q
  <1>2. /\ r \in Seq(Steps) /\ Len(r) = Len(p) + Len(q) /\ Len(p) \in Nat /\ Len(q) \in Nat
        /\ \A k \in 1..Len(p) : r[k] = p[k]
        /\ \A k \in 1..Len(q) : r[Len(p) + k] = q[k]
        /\ \A k \in (Len(p) + 1)..(Len(p) + Len(q)) : r[k] = q[k - Len(p)]
    BY Glued
  <1> HIDE DEF r
  <1>3. ASSUME NEW k \in 1..Len(r), r[k].do = "connect", ~Leaks(r[k]) PROVE PartedIn(r, k)
    <2>1. CASE k \in 1..Len(p)
      <3>1. PartedIn(p, k)
        BY <1>2, <1>3, <2>1 DEF Sessions
      <3>2. PICK j \in 0..(k - 1) : /\ j = 0 \/ p[j].do = "close"
                                    /\ \A i \in (j + 1)..(k - 1) : p[i].do \in Quiet
        BY <3>1 DEF PartedIn
      <3>3. \A i \in 1..(k - 1) : i \in 1..Len(p) /\ r[i] = p[i]
        BY <1>2, <2>1
      <3>4. j = 0 \/ r[j].do = "close"
        BY <3>2, <3>3
      <3>5. \A i \in (j + 1)..(k - 1) : r[i].do \in Quiet
        BY <3>2, <3>3
      <3> QED BY <3>2, <3>4, <3>5 DEF PartedIn
    <2>2. CASE k \in (Len(p) + 1)..(Len(p) + Len(q))
      <3> DEFINE m == k - Len(p)
      <3>1. m \in 1..Len(q) /\ q[m] = r[k]
        BY <1>2, <2>2
      <3>2. CASE m >= 2 /\ q[m - 1].do = "close"
        <4>1. r[k - 1] = q[m - 1] /\ k - 1 \in 0..(k - 1)
          BY <1>2, <2>2, <3>2
        <4> QED BY <3>2, <4>1 DEF PartedIn
      <3>3. CASE m >= 3 /\ q[m - 1].do = "replay_backup" /\ q[m - 2].do = "close"
        <4>1. r[k - 1] = q[m - 1] /\ r[k - 2] = q[m - 2]
          <5>1. m - 1 \in 1..Len(q) /\ m - 2 \in 1..Len(q)
            BY <1>2, <3>1, <3>3
          <5>2. Len(p) + (m - 1) = k - 1 /\ Len(p) + (m - 2) = k - 2
            BY <1>2, <2>2
          <5> HIDE DEF m
          <5> QED BY <1>2, <5>1, <5>2
        <4>0. k \in Int /\ k >= 2 /\ k - 2 \in 0..(k - 1)
          BY <1>2, <2>2, <3>3
        <4>2. \A i \in ((k - 2) + 1)..(k - 1) : i = k - 1
          BY <4>0
        <4>3. \A i \in ((k - 2) + 1)..(k - 1) : r[i].do \in Quiet
          BY <3>3, <4>1, <4>2 DEF Quiet
        <4> QED BY <3>3, <4>0, <4>1, <4>3 DEF PartedIn
      <3>4. CASE m = 1 /\ Len(p) >= 1 /\ p[Len(p)].do = "close"
        <4>1. k - 1 = Len(p) /\ r[k - 1] = p[Len(p)] /\ k - 1 \in 0..(k - 1)
          BY <1>2, <2>2, <3>4
        <4> QED BY <3>4, <4>1 DEF PartedIn
      <3> QED BY <1>3, <3>1, <3>2, <3>3, <3>4
    <2> QED BY <1>2, <2>1, <2>2
  <1>4. ASSUME NEW k \in 1..Len(r), Leaks(r[k])
        PROVE  /\ k \in (Len(p) + 1)..(Len(p) + Len(q)) /\ Leaks(q[k - Len(p)])
               /\ k - Len(p) \in 1..Len(q)
    <2>1. k \notin 1..Len(p)
      BY <1>2, <1>4 DEF NoLeaks
    <2>2. k \in (Len(p) + 1)..(Len(p) + Len(q)) /\ k - Len(p) \in 1..Len(q)
      BY <1>2, <2>1
    <2> QED BY <1>2, <1>4, <2>2
  <1>5. LeaksOnce(r)
    <2> SUFFICES ASSUME NEW k \in 1..Len(r), Leaks(r[k])
                 PROVE  /\ \E f \in 1..(k - 1) : r[f].do = "drop_force"
                        /\ \A j \in 1..Len(r) : Leaks(r[j]) => j = k
      BY DEF LeaksOnce
    <2>1. PICK f \in 1..(k - Len(p) - 1) : q[f].do = "drop_force"
      BY <1>4 DEF LeaksOnce
    <2>2. Len(p) + f \in 1..(k - 1) /\ r[Len(p) + f] = q[f]
      BY <1>2, <1>4, <2>1
    <2>3. ASSUME NEW j \in 1..Len(r), Leaks(r[j]) PROVE j = k
      <3>1. j - Len(p) = k - Len(p)
        BY <1>4, <2>3 DEF LeaksOnce
      <3> QED BY <1>2, <3>1
    <2> QED BY <2>1, <2>2, <2>3
  <1> QED BY <1>3, <1>5 DEF Sessions, r

(* A program that makes no connection.                                      *)
LEMMA NoConnection ==
  ASSUME NEW p, \A k \in 1..Len(p) : p[k].do # "connect"
  PROVE  Sessions(p) /\ NoLeaks(p) /\ LeaksOnce(p) /\ ClosesFirst(p)
PROOF BY DEF Sessions, NoLeaks, LeaksOnce, ClosesFirst, Leaks, Leaky

(* The same steps, as the constructor of a schema takes them.               *)
LEMMA AsSchemaKeeps ==
  ASSUME NEW p, Good(p, Opens)
  PROVE  /\ Good(AsSchema(p), Opens \cup Reads) /\ Len(AsSchema(p)) = Len(p) /\ NoLeaks(AsSchema(p))
         /\ \A k \in 1..Len(p) : AsSchema(p)[k].do = p[k].do
PROOF
  <1> DEFINE q == AsSchema(p)
  <1>1. p \in Seq(Steps) /\ Len(p) \in Nat
    BY DEF Good
  <1>2. q = [i \in 1..Len(p) |-> [p[i] EXCEPT !.err = IF @ = "probe" THEN "schema_probe" ELSE "schema"]]
    BY DEF AsSchema
  <1> HIDE DEF q
  <1>3. Len(q) = Len(p) /\ \A k \in 1..Len(p) :
          q[k] = [p[k] EXCEPT !.err = IF @ = "probe" THEN "schema_probe" ELSE "schema"]
    BY <1>1, <1>2
  <1>4. ASSUME NEW k \in 1..Len(p)
        PROVE  /\ q[k].do = p[k].do /\ q[k].stmt = p[k].stmt
               /\ q[k].err = IF p[k].err = "probe" THEN "schema_probe" ELSE "schema"
               /\ q[k] \in Steps
    <2>1. p[k] \in Steps
      BY <1>1
    <2>2. /\ q[k].do = p[k].do /\ q[k].stmt = p[k].stmt
          /\ q[k].err = IF p[k].err = "probe" THEN "schema_probe" ELSE "schema"
      BY <1>3, <2>1 DEF Steps
    <2>3. q[k] = [do |-> p[k].do, err |-> q[k].err, stmt |-> p[k].stmt]
      BY <1>3, <2>1, <2>2 DEF Steps
    <2>4. q[k].err \in Errs
      BY <2>2 DEF Errs
    <2>5. p[k].do \in Doings /\ p[k].stmt \in Names
      BY <2>1 DEF Steps
    <2>6. [do |-> p[k].do, err |-> q[k].err, stmt |-> p[k].stmt] \in Steps
      BY <2>4, <2>5 DEF Steps
    <2> QED BY <2>2, <2>3, <2>6
  <1>5. ASSUME NEW k \in 1..Len(p) PROVE q[k].do \in Opens /\ StepOk(q[k]) /\ ~Leaks(q[k])
    <2>1. StepOk(p[k]) /\ p[k].do \in Opens
      BY DEF Good
    <2>2. ~Leaks(q[k])
      BY <1>4 DEF Leaks, Leaky
    <2> QED BY <1>4, <2>1, <2>2 DEF StepOk, Sound, Maker, Makes, Drops, Opens
  <1>6. q \in Seq(Steps)
    <2>1. \A k \in 1..Len(p) :
            [p[k] EXCEPT !.err = IF @ = "probe" THEN "schema_probe" ELSE "schema"] \in Steps
      BY <1>3, <1>4
    <2>2. q \in [1..Len(p) -> Steps]
      BY <1>2, <2>1
    <2> QED BY <1>1, <2>2
  <1> QED BY <1>3, <1>4, <1>5, <1>6 DEF Good, NoLeaks, Reads, q

(* Opening a connection.                                                    *)
LEMMA OpenFits ==
  ASSUME driver \in Drivers
  PROVE  /\ Good(D.conn.open, Opens) /\ D.conn.open \in Seq(Steps)
         /\ Len(D.conn.open) >= 1 /\ Maker(D.conn.open[1])
         /\ Sessions(D.conn.open) /\ NoLeaks(D.conn.open) /\ DropsMake(D.conn.open)
         /\ \A k \in 1..Len(D.conn.open) : D.conn.open[k].do = "connect" => k = 1
PROOF
  <1> DEFINE o == D.conn.open
  <1>1. OpenOk
    BY Programs DEF ProgramsOk
  <1>2. /\ Good(o, Opens) /\ o \in Seq(Steps) /\ Len(o) >= 1 /\ Maker(o[1]) /\ NoLeaks(o)
        /\ \A k \in 2..Len(o) : o[k].do = "set"
    BY <1>1 DEF OpenOk, Good
  <1> HIDE DEF o
  <1>3. \A k \in 1..Len(o) : o[k].do = "connect" => k = 1
    <2> SUFFICES ASSUME NEW k \in 1..Len(o), k # 1 PROVE o[k].do # "connect"
      OBVIOUS
    <2>1. k \in 2..Len(o)
      BY <1>2
    <2> QED BY <1>2, <2>1
  <1>4. DropsMake(o)
    BY <1>2, NothingDropped DEF Opens, Drops
  <1>5. LeaksOnce(o)
    BY <1>2 DEF LeaksOnce, NoLeaks
  <1>6. \A k \in 1..Len(o) : o[k].do = "connect" => PartedIn(o, k)
    <2> SUFFICES ASSUME 1 <= Len(o) PROVE PartedIn(o, 1)
      BY <1>2, <1>3
    <2>1. 0 \in 0..(1 - 1) /\ (0 + 1)..(1 - 1) = {}
      OBVIOUS
    <2> QED BY <2>1 DEF PartedIn
  <1>7. Sessions(o)
    BY <1>5, <1>6 DEF Sessions
  <1> QED BY <1>2, <1>3, <1>4, <1>7 DEF o

(* Loading a schema.                                                        *)
LEMMA LoadSchemaFits ==
  ASSUME driver \in Drivers
  PROVE  /\ Good(LoadSchema, Opens \cup Reads) /\ LoadSchema \in Seq(Steps)
         /\ Len(LoadSchema) >= 1 /\ Maker(LoadSchema[1]) /\ LoadSchema[Len(LoadSchema)].do = "close"
         /\ Sessions(LoadSchema) /\ NoLeaks(LoadSchema) /\ DropsMake(LoadSchema)
         /\ \A k \in 1..Len(D.schema) : D.schema[k].stmt = "cached" /\ D.schema[k].do \notin cache.has =>
              \E j \in 1..Len(LoadSchema) : LoadSchema[j] = D.schema[k]
PROOF
  <1> DEFINE o == AsSchema(D.conn.open)
             u == Unread(D.schema)
             c == <<Throws("close")>>
  <1>1. /\ Good(o, Opens \cup Reads) /\ o \in Seq(Steps) /\ Len(o) >= 1 /\ NoLeaks(o)
        /\ Maker(o[1])
        /\ \A k \in 1..Len(o) : o[k].do = "connect" => k = 1
    <2>1. /\ Good(D.conn.open, Opens) /\ Len(D.conn.open) >= 1 /\ Maker(D.conn.open[1])
          /\ \A k \in 1..Len(D.conn.open) : D.conn.open[k].do = "connect" => k = 1
          /\ D.conn.open \in Seq(Steps)
      BY OpenFits
    <2>2. /\ Good(o, Opens \cup Reads) /\ Len(o) = Len(D.conn.open) /\ NoLeaks(o)
          /\ \A k \in 1..Len(D.conn.open) : o[k].do = D.conn.open[k].do
      BY <2>1, AsSchemaKeeps
    <2> HIDE DEF o
    <2>3. 1 \in 1..Len(D.conn.open)
      BY <2>1
    <2> QED BY <2>1, <2>2, <2>3 DEF Good, Maker, Makes
  <1>2. Good(D.schema, Reads) /\ D.schema \in Seq(Steps)
    BY Programs DEF ProgramsOk, SchemaOk, Good
  <1>3. /\ u \in Seq(Steps)
        /\ \A j \in 1..Len(u) : \E i \in 1..Len(D.schema) : u[j] = D.schema[i]
        /\ \A i \in 1..Len(D.schema) : D.schema[i].do \notin cache.has =>
             \E j \in 1..Len(u) : u[j] = D.schema[i]
    BY <1>2, UnreadKeeps
  <1> HIDE DEF o, u
  <1>4. Good(u, Reads)
    BY <1>2, <1>3 DEF Good
  <1>5. Good(c, Opens) /\ c \in Seq(Steps)
    <2>1. /\ Throws("close") \in Steps /\ Throws("close").do = "close" /\ StepOk(Throws("close"))
          /\ Throws("close").err \notin OfSchema
      <3>1. Throws("close") \in Steps /\ Throws("close").do = "close"
        BY StepTypes, StepKinds, Operations
      <3>2. StepOk(Throws("close")) /\ Throws("close").err \notin OfSchema
        BY DEF Throws, Step, StepOk, Sound, Maker, Makes, Drops, OfSchema
      <3> QED BY <3>1, <3>2
    <2> HIDE DEF c
    <2>2. Good(c, Opens)
      BY <2>1, GoodOne DEF Opens, c
    <2> QED BY <2>2 DEF Good
  <1>6. Len(c) = 1 /\ c[1].do = "close"
    BY StepKinds
  <1> HIDE DEF c
  <1>7. LoadSchema = (o \o u) \o c
    BY DEF LoadSchema, o, u, c
  <1> DEFINE A == Opens \cup Reads
             l == (o \o u) \o c
  <1>8. Good(l, A) /\ l \in Seq(Steps)
    <2>1. Good(o, A) /\ Good(u, A) /\ Good(c, A)
      BY <1>1, <1>4, <1>5, GoodMore
    <2> HIDE DEF A
    <2> QED BY <2>1, GoodConcat DEF Good
  <1>9. /\ Len(l) = Len(o) + Len(u) + 1 /\ Len(o) \in Nat /\ Len(u) \in Nat
        /\ \A k \in 1..Len(o) : l[k] = o[k]
        /\ \A k \in (Len(o) + 1)..(Len(o) + Len(u)) : l[k] = u[k - Len(o)]
        /\ \A k \in 1..Len(u) : l[Len(o) + k] = u[k]
        /\ l[Len(l)] = c[1]
    <2> DEFINE a == o \o u
    <2>1. /\ a \in Seq(Steps) /\ Len(a) = Len(o) + Len(u) /\ Len(o) \in Nat /\ Len(u) \in Nat
          /\ \A k \in 1..Len(o) : a[k] = o[k]
          /\ \A k \in (Len(o) + 1)..(Len(o) + Len(u)) : a[k] = u[k - Len(o)]
      BY <1>1, <1>3, Glued
    <2> HIDE DEF a
    <2>2. /\ Len(a \o c) = Len(a) + Len(c) /\ \A k \in 1..Len(a) : (a \o c)[k] = a[k]
          /\ (a \o c)[Len(a) + 1] = c[1]
      <3>1. /\ Len(a \o c) = Len(a) + Len(c) /\ \A k \in 1..Len(a) : (a \o c)[k] = a[k]
            /\ \A k \in 1..Len(c) : (a \o c)[Len(a) + k] = c[k]
        BY <1>5, <2>1, Glued
      <3>2. 1 \in 1..Len(c)
        BY <1>6
      <3> QED BY <3>1, <3>2
    <2>3. l = a \o c
      BY DEF a
    <2> HIDE DEF l
    <2>4. Len(l) = Len(a) + 1 /\ \A k \in 1..Len(a) : l[k] = a[k]
      BY <1>6, <2>2, <2>3
    <2>5. \A k \in 1..Len(o) : k \in 1..Len(a)
      BY <2>1
    <2>6. \A k \in (Len(o) + 1)..(Len(o) + Len(u)) : k \in 1..Len(a)
      BY <2>1
    <2>7. \A k \in 1..Len(u) : Len(o) + k \in (Len(o) + 1)..(Len(o) + Len(u)) /\ (Len(o) + k) - Len(o) = k
      BY <2>1
    <2>8. \A k \in 1..Len(u) : l[Len(o) + k] = u[k]
      BY <2>1, <2>4, <2>6, <2>7
    <2>9. l[Len(l)] = c[1]
      BY <2>2, <2>3, <2>4
    <2> QED BY <2>1, <2>4, <2>5, <2>6, <2>8, <2>9
  <1> HIDE DEF l
  <1>10. Len(l) >= 1 /\ Maker(l[1]) /\ l[Len(l)].do = "close"
    <2>1. 1 \in 1..Len(o)
      BY <1>1, <1>9
    <2> QED BY <1>1, <1>6, <1>9, <2>1
  <1>11. \A k \in 1..Len(l) : l[k].do = "connect" => k = 1
    <2> SUFFICES ASSUME NEW k \in 1..Len(l), l[k].do = "connect" PROVE k = 1
      OBVIOUS
    <2>1. CASE k \in 1..Len(o)
      BY <1>1, <1>9, <2>1
    <2>2. CASE k \in (Len(o) + 1)..(Len(o) + Len(u))
      <3>1. k - Len(o) \in 1..Len(u)
        BY <1>9, <2>2
      <3>2. l[k].do \in Reads
        BY <1>4, <1>9, <2>2, <3>1 DEF Good
      <3> QED BY <3>2 DEF Reads
    <2>3. CASE k = Len(l)
      BY <1>6, <1>9, <2>3
    <2>4. k \in 1..Len(o) \/ k \in (Len(o) + 1)..(Len(o) + Len(u)) \/ k = Len(l)
      <3>1. Len(l) = Len(o) + Len(u) + 1 /\ Len(o) \in Nat /\ Len(u) \in Nat
        BY <1>9
      <3> DEFINE x == Len(o)
                 y == Len(u)
                 z == Len(l)
      <3>2. x \in Nat /\ y \in Nat /\ z = x + y + 1 /\ k \in 1..z
        BY <3>1
      <3> HIDE DEF x, y, z
      <3>3. k \in 1..x \/ k \in (x + 1)..(x + y) \/ k = z
        BY <3>2
      <3> QED BY <3>3 DEF x, y, z
    <2> QED BY <2>1, <2>2, <2>3, <2>4
  <1>12. NoLeaks(l)
    <2> SUFFICES ASSUME NEW k \in 1..Len(l), Leaks(l[k]) PROVE FALSE
      BY DEF NoLeaks
    <2>1. k = 1
      BY <1>11 DEF Leaks, Leaky
    <2>2. l[1] = o[1] /\ 1 \in 1..Len(o)
      BY <1>1, <1>9
    <2> QED BY <1>1, <2>1, <2>2 DEF NoLeaks
  <1>13. DropsMake(l)
    BY <1>8, NothingDropped DEF Opens, Reads, Drops
  <1>14. \A k \in 1..Len(l) : l[k].do = "connect" => PartedIn(l, k)
    <2> SUFFICES PartedIn(l, 1)
      BY <1>11
    <2>1. 0 \in 0..(1 - 1) /\ (0 + 1)..(1 - 1) = {}
      OBVIOUS
    <2> QED BY <2>1 DEF PartedIn
  <1>15. Sessions(l)
    BY <1>12, <1>14 DEF Sessions, LeaksOnce, NoLeaks
  <1>16. ASSUME NEW k \in 1..Len(D.schema), D.schema[k].do \notin cache.has
         PROVE  \E j \in 1..Len(l) : l[j] = D.schema[k]
    <2>1. PICK j \in 1..Len(u) : u[j] = D.schema[k]
      BY <1>3, <1>16
    <2>2. Len(o) + j \in 1..Len(l) /\ l[Len(o) + j] = u[j]
      BY <1>9
    <2> QED BY <2>1, <2>2
  <1> QED BY <1>7, <1>8, <1>10, <1>12, <1>13, <1>15, <1>16 DEF l

(* The programs the child calls fit the phase it calls them in.             *)
LEMMA LastOfConcat ==
  ASSUME NEW o \in Seq(Steps), NEW p \in Seq(Steps), NEW ops,
         \A k \in 1..Len(o) : o[k].do \notin ops, OnlyLast(p, ops)
  PROVE  OnlyLast(o \o p, ops)
PROOF
  <1> DEFINE r == o \o p
  <1>1. /\ Len(r) = Len(o) + Len(p) /\ Len(o) \in Nat /\ Len(p) \in Nat
        /\ \A k \in 1..Len(o) : r[k] = o[k]
        /\ \A k \in (Len(o) + 1)..(Len(o) + Len(p)) : r[k] = p[k - Len(o)]
    BY Glued
  <1> HIDE DEF r
  <1>2. ASSUME NEW k \in 1..Len(r), r[k].do \in ops PROVE k = Len(r)
    <2>1. k \in (Len(o) + 1)..(Len(o) + Len(p))
      BY <1>1, <1>2
    <2>2. k - Len(o) \in 1..Len(p) /\ r[k] = p[k - Len(o)]
      BY <1>1, <2>1
    <2>3. k - Len(o) = Len(p)
      BY <1>2, <2>2 DEF OnlyLast
    <2> QED BY <1>1, <2>1, <2>3
  <1> QED BY <1>2 DEF OnlyLast, r

(* A program on a new connection.                                           *)
Opened(q, p, A) ==
  /\ Good(q, A) /\ DropsMake(q)
  /\ driver # "gaussdb" => Sessions(q)
  /\ Len(q) >= 1 /\ Maker(q[1])
  /\ Len(p) >= 1 => q[Len(q)] = p[Len(p)]
  /\ \A k \in 1..Len(p) : \E j \in 1..Len(q) : q[j] = p[k]
  /\ \A j \in 1..Len(q) : q[j].do \in Opens \/ \E k \in 1..Len(p) : q[j] = p[k]

(* A program run on a connection that is opened for it.                    *)
LEMMA OpenThen ==
  ASSUME driver \in Drivers, NEW A, Opens \subseteq A, NEW p, Good(p, A), DropsMake(p),
         driver # "gaussdb" => ClosesFirst(p) /\ LeaksOnce(p)
  PROVE  Opened(D.conn.open \o p, p, A)
PROOF
  <1> DEFINE o == D.conn.open
             r == o \o p
  <1>1. /\ Good(o, Opens) /\ o \in Seq(Steps) /\ Len(o) >= 1 /\ Maker(o[1])
        /\ Sessions(o) /\ NoLeaks(o) /\ DropsMake(o) /\ p \in Seq(Steps)
    BY OpenFits DEF Good
  <1> HIDE DEF o
  <1>2. /\ r \in Seq(Steps) /\ Len(r) = Len(o) + Len(p) /\ Len(o) \in Nat /\ Len(p) \in Nat
        /\ \A k \in 1..Len(o) : r[k] = o[k]
        /\ \A k \in 1..Len(p) : r[Len(o) + k] = p[k]
        /\ \A k \in (Len(o) + 1)..(Len(o) + Len(p)) : r[k] = p[k - Len(o)]
    BY <1>1, Glued
  <1>3. Good(r, A) /\ DropsMake(r)
    <2>1. Good(o, A)
      BY <1>1, GoodMore
    <2> QED BY <1>1, <2>1, GoodConcat, MakeConcat
  <1>4. driver # "gaussdb" => Sessions(r)
    BY <1>1, SessionsConcat DEF ClosesFirst
  <1> HIDE DEF r
  <1>5. Len(r) >= 1 /\ Maker(r[1])
    <2>1. 1 \in 1..Len(o)
      BY <1>1, <1>2
    <2> QED BY <1>1, <1>2, <2>1
  <1>6. Len(p) >= 1 => r[Len(r)] = p[Len(p)]
    <2> SUFFICES ASSUME Len(p) >= 1 PROVE r[Len(r)] = p[Len(p)]
      OBVIOUS
    <2>1. Len(p) \in 1..Len(p)
      BY <1>2
    <2> QED BY <1>2, <2>1
  <1>7. \A k \in 1..Len(p) : \E j \in 1..Len(r) : r[j] = p[k]
    <2> TAKE k \in 1..Len(p)
    <2>1. Len(o) + k \in 1..Len(r)
      BY <1>2
    <2> QED BY <1>2, <2>1
  <1>8. \A j \in 1..Len(r) : r[j].do \in Opens \/ \E k \in 1..Len(p) : r[j] = p[k]
    <2> TAKE j \in 1..Len(r)
    <2>1. CASE j \in 1..Len(o)
      BY <1>1, <1>2, <2>1 DEF Good
    <2>2. CASE j \in (Len(o) + 1)..(Len(o) + Len(p))
      <3>1. j - Len(o) \in 1..Len(p)
        BY <1>2, <2>2
      <3> QED BY <1>2, <2>2, <3>1
    <2> QED BY <1>2, <2>1, <2>2
  <1> QED BY <1>3, <1>4, <1>5, <1>6, <1>7, <1>8 DEF Opened, r, o

(* reset() fits, of the database to be made and of the one to be reduced.  *)
LEMMA ResetFits ==
  ASSUME driver \in Drivers, NEW ph \in {"reset", "m_reset"}
  PROVE  /\ Fits(ph, D.conn.open \o D.life.reset)
         /\ Len(D.conn.open \o D.life.reset) >= 1 /\ Maker((D.conn.open \o D.life.reset)[1])
PROOF
  <1> DEFINE p == D.life.reset
             q == D.conn.open \o p
  <1>1. /\ Good(p, Resets) /\ DropsMake(p)
        /\ driver # "gaussdb" => HasDrop(p) /\ ClosesFirst(p) /\ NoLeaks(p)
    BY Programs DEF ProgramsOk, ResetOk
  <1> HIDE DEF p
  <1>2. driver # "gaussdb" => ClosesFirst(p) /\ LeaksOnce(p)
    BY <1>1 DEF NoLeaks, LeaksOnce
  <1>3. Opens \subseteq Resets
    BY DEF Resets
  <1>4. /\ Good(q, Resets) /\ DropsMake(q) /\ (driver # "gaussdb" => Sessions(q))
        /\ Len(q) >= 1 /\ Maker(q[1])
        /\ \A k \in 1..Len(p) : \E j \in 1..Len(q) : q[j] = p[k]
    <2>1. Opened(D.conn.open \o p, p, Resets)
      BY <1>1, <1>2, <1>3, OpenThen
    <2> QED BY <2>1 DEF Opened
  <1> HIDE DEF q
  <1>5. driver # "gaussdb" => HasDrop(q)
    BY <1>1, <1>4 DEF HasDrop
  <1>6. OnlyLast(q, {"dump", "copy_back"})
    BY <1>4 DEF Good, Resets, Opens, Drops, OnlyLast
  <1>7. Ops(ph) = Resets
    BY DEF Ops
  <1> QED BY <1>4, <1>5, <1>6, <1>7 DEF Fits, p, q

(* backup() fits, on a new connection and on the one of the reduction.     *)
LEMMA BackupFits ==
  ASSUME driver \in Drivers
  PROVE  /\ Fits("backup", D.conn.open \o D.life.backup)
         /\ Len(D.conn.open \o D.life.backup) >= 1 /\ Maker((D.conn.open \o D.life.backup)[1])
         /\ Fits("m_backup", D.life.backup)
         /\ \A k \in 1..Len(D.life.backup) : D.life.backup[k].do # "connect"
PROOF
  <1> DEFINE p == D.life.backup
             q == D.conn.open \o p
             A == Opens \cup {"dump", "copy_record"}
  <1>1. /\ Good(p, {"dump", "copy_record"}) /\ Len(p) <= 1 /\ p \in Seq(Steps)
        /\ driver = "sqlite" => Len(p) = 1 /\ p[1].do = "dump"
    BY Programs DEF ProgramsOk, BackupOk, Good
  <1> HIDE DEF p
  <1>2. \A k \in 1..Len(p) : p[k].do # "connect" /\ p[k].do \notin Drops
    BY <1>1 DEF Good, Drops
  <1>3. /\ Sessions(p) /\ LeaksOnce(p) /\ ClosesFirst(p) /\ DropsMake(p)
    BY <1>2, NoConnection DEF DropsMake
  <1>4. Good(p, A) /\ Opens \subseteq A
    BY <1>1, GoodMore
  <1>5. OnlyLast(p, {"dump", "copy_back"})
    <2>1. Len(p) \in Nat
      BY <1>1
    <2> QED BY <1>1, <2>1 DEF OnlyLast
  <1>5a. driver = "sqlite" => \E k \in 1..Len(p) : p[k].do = "dump"
    BY <1>1
  <1>6. /\ Good(q, A) /\ DropsMake(q) /\ (driver # "gaussdb" => Sessions(q))
        /\ Len(q) >= 1 /\ Maker(q[1])
        /\ \A k \in 1..Len(p) : \E j \in 1..Len(q) : q[j] = p[k]
    <2>1. Opened(D.conn.open \o p, p, A)
      BY <1>3, <1>4, OpenThen
    <2> QED BY <2>1 DEF Opened
  <1>7. OnlyLast(q, {"dump", "copy_back"})
    <2>1. /\ D.conn.open \in Seq(Steps)
          /\ \A k \in 1..Len(D.conn.open) : D.conn.open[k].do \notin {"dump", "copy_back"}
      BY OpenFits DEF Good, Opens
    <2> QED BY <1>1, <1>5, <2>1, LastOfConcat
  <1> HIDE DEF q
  <1>8. Ops("backup") = A /\ Ops("m_backup") = A
    BY DEF Ops
  <1>9. Fits("backup", q)
    BY <1>5a, <1>6, <1>7, <1>8 DEF Fits
  <1>10. Fits("m_backup", p)
    BY <1>3, <1>4, <1>5, <1>5a, <1>8 DEF Fits
  <1> QED BY <1>2, <1>6, <1>9, <1>10 DEF p, q

(* reset_to_backup() fits.                                                 *)
LEMMA RestoreFits ==
  ASSUME driver \in Drivers
  PROVE  /\ Fits("restore", D.conn.open \o D.life.restore)
         /\ Len(D.conn.open \o D.life.restore) >= 1 /\ Maker((D.conn.open \o D.life.restore)[1])
PROOF
  <1> DEFINE p == D.life.restore
             q == D.conn.open \o p
  <1>1. /\ Good(p, Restores \ {"apply", "load"}) /\ DropsMake(p) /\ p \in Seq(Steps)
        /\ driver \in Recorded =>
             /\ Len(p) >= 1 /\ p[Len(p)].do = "replay_record"
             /\ OnlyLast(p, {"replay_record"}) /\ HasDrop(p)
        /\ driver = "sqlite" =>
             /\ Len(p) >= 1 /\ p[Len(p)].do = "copy_back"
             /\ OnlyLast(p, {"copy_back"})
        /\ driver # "gaussdb" => ClosesFirst(p) /\ LeaksOnce(p)
    BY Programs DEF ProgramsOk, RestoreOk, Good
  <1> HIDE DEF p
  <1>2. Opens \subseteq Restores /\ Opens \subseteq Restores \ {"apply", "load"}
    BY DEF Restores, Resets, Opens
  <1>3. Good(p, Restores)
    BY <1>1 DEF Good
  <1>4. /\ Good(q, Restores) /\ DropsMake(q) /\ (driver # "gaussdb" => Sessions(q))
        /\ Len(q) >= 1 /\ Maker(q[1])
        /\ Len(p) >= 1 => q[Len(q)] = p[Len(p)]
        /\ \A k \in 1..Len(p) : \E j \in 1..Len(q) : q[j] = p[k]
        /\ \A j \in 1..Len(q) : q[j].do \in Opens \/ \E k \in 1..Len(p) : q[j] = p[k]
    <2>1. Opened(D.conn.open \o p, p, Restores)
      BY <1>1, <1>2, <1>3, OpenThen
    <2> QED BY <2>1 DEF Opened
  <1>5. /\ driver \in Recorded => OnlyLast(q, {"replay_record"})
        /\ driver = "sqlite" => OnlyLast(q, {"dump", "copy_back"})
    <2>1. /\ D.conn.open \in Seq(Steps)
          /\ \A k \in 1..Len(D.conn.open) : D.conn.open[k].do \notin {"dump", "copy_back"}
          /\ \A k \in 1..Len(D.conn.open) : D.conn.open[k].do \notin {"replay_record"}
      BY OpenFits DEF Good, Opens
    <2>2. \A k \in 1..Len(p) : p[k].do # "dump"
      BY <1>1 DEF Good, Restores, Resets, Opens, Drops
    <2>3. driver = "sqlite" => OnlyLast(p, {"dump", "copy_back"})
      BY <1>1, <2>2 DEF OnlyLast
    <2>4. driver = "sqlite" => OnlyLast(q, {"dump", "copy_back"})
      BY <1>1, <2>1, <2>3, LastOfConcat
    <2>5. driver \in Recorded => OnlyLast(q, {"replay_record"})
      BY <1>1, <2>1, LastOfConcat
    <2> QED BY <2>4, <2>5
  <1> HIDE DEF q
  <1>6. driver \in Recorded => HasDrop(q)
    BY <1>1, <1>4 DEF HasDrop
  <1>7. \A k \in 1..Len(q) : q[k].do \notin {"apply", "load"}
    BY <1>1, <1>4 DEF Good, Opens
  <1>8. driver = "sqlite" => \E k \in 1..Len(q) : q[k].do = "copy_back"
    <2>1. Len(q) \in Nat
      BY <1>4 DEF Good
    <2>2. Len(q) \in 1..Len(q)
      BY <1>4, <2>1
    <2> QED BY <1>1, <1>4, <2>2
  <1>9. Ops("restore") = Restores
    BY DEF Ops
  <1> QED BY <1>1, <1>4, <1>5, <1>6, <1>7, <1>8, <1>9 DEF Fits, p, q

(* A statement run by test().                                               *)
LEMMA StatementFits ==
  ASSUME driver \in Drivers, NEW op \in {"insert", "write", "query", "apply"}, NEW s \in Names,
         op # "query" => s \notin {"none", "cached"}, s # "cached"
  PROVE  /\ Statement(op, s) \in Steps /\ StepOk(Statement(op, s))
         /\ Statement(op, s).do = op /\ Statement(op, s).stmt = s
         /\ Statement(op, s).err \in {"lost", "plain"} /\ Statement(op, s).err \notin OfSchema
PROOF
  <1>1. D.test.stmt \in {"lost", "plain"}
    BY Programs DEF ProgramsOk, CallOk
  <1>2. /\ Statement(op, s).do = op /\ Statement(op, s).stmt = s
        /\ Statement(op, s).err \in {"lost", "plain"}
        /\ Statement(op, s) = [do |-> op, err |-> D.test.stmt, stmt |-> s]
    BY <1>1 DEF Statement
  <1>3. D.test.stmt \in Errs /\ op \in Doings
    BY <1>1, Operations DEF Errs
  <1>4. Statement(op, s) \in Steps
    BY <1>2, <1>3 DEF Steps
  <1>5. StepOk(Statement(op, s))
    BY <1>2 DEF StepOk, Sound, Maker, Makes, Drops
  <1> QED BY <1>2, <1>4, <1>5 DEF OfSchema

(* What interect_test() and normal_test() call fits.                       *)
LEMMA InsertFits ==
  ASSUME driver \in Drivers, Made \in Nat, Made < Len(Stmts)
  PROVE  /\ Fits("dml", D.conn.open \o <<Statement("insert", Stmts[Made + 1])>>)
         /\ Len(D.conn.open \o <<Statement("insert", Stmts[Made + 1])>>) >= 1
         /\ Maker((D.conn.open \o <<Statement("insert", Stmts[Made + 1])>>)[1])
         /\ Fits("ddl", LoadSchema \o D.conn.open \o <<Statement("insert", Stmts[Made + 1])>>)
         /\ Len(LoadSchema \o D.conn.open \o <<Statement("insert", Stmts[Made + 1])>>) >= 1
         /\ Maker((LoadSchema \o D.conn.open \o <<Statement("insert", Stmts[Made + 1])>>)[1])
PROOF
  <1> DEFINE s == Statement("insert", Stmts[Made + 1])
             p == <<s>>
             q == D.conn.open \o p
             l == LoadSchema
             r == l \o q
             A == Opens \cup {"insert"}
             B == Opens \cup Reads \cup {"insert"}
  <1>1. /\ Stmts[Made + 1] \in ToSet(Stmts) /\ Stmts[Made + 1] \in Names
        /\ Stmts[Made + 1] \notin {"none", "cached"}
    <2>1. Made + 1 \in 1..Len(Stmts) /\ Len(Stmts) \in Nat
      BY NamesAssumption
    <2>2. Stmts[Made + 1] \in ToSet(Stmts)
      BY <2>1, NamesAssumption DEF ToSet
    <2> QED BY <2>2, NamesAssumption DEF Names
  <1>2. s \in Steps /\ StepOk(s) /\ s.do = "insert" /\ s.stmt = Stmts[Made + 1] /\ s.err \notin OfSchema
    <2>1. "insert" \in {"insert", "write", "query", "apply"}
      OBVIOUS
    <2> QED BY <1>1, <2>1, StatementFits
  <1> HIDE DEF s
  <1>3. p \in Seq(Steps) /\ Len(p) = 1 /\ p[1] = s
    BY <1>2
  <1>4. Good(p, A)
    <2>1. s.do \in A
      BY <1>2
    <2> QED BY <1>2, <2>1, GoodOne
  <1> HIDE DEF p
  <1>5. \A k \in 1..Len(p) : p[k].do # "connect" /\ p[k].do \notin Drops
    BY <1>2, <1>3 DEF Drops
  <1>6. ClosesFirst(p) /\ LeaksOnce(p) /\ DropsMake(p)
    BY <1>5, NoConnection DEF DropsMake
  <1>7. Opens \subseteq A
    OBVIOUS
  <1>8. Opened(q, p, A)
    BY <1>4, <1>6, <1>7, OpenThen
  <1>9. \A k \in 1..Len(q) : q[k].do = "insert" => k = Len(q) /\ q[k].stmt = Stmts[Made + 1]
    <2>1. OnlyLast(p, {"insert"})
      BY <1>3 DEF OnlyLast
    <2>2. /\ D.conn.open \in Seq(Steps)
          /\ \A k \in 1..Len(D.conn.open) : D.conn.open[k].do \notin {"insert"}
      BY OpenFits DEF Good, Opens
    <2>3. OnlyLast(q, {"insert"})
      BY <1>3, <2>1, <2>2, LastOfConcat
    <2>4. q[Len(q)] = s
      BY <1>3, <1>8 DEF Opened
    <2> QED BY <1>2, <2>3, <2>4 DEF OnlyLast
  <1>10. /\ OnlyLast(q, {"dump", "copy_back"}) /\ Good(q, A) /\ DropsMake(q)
         /\ (driver # "gaussdb" => Sessions(q)) /\ Len(q) >= 1 /\ Maker(q[1])
    BY <1>8 DEF Opened, Good, Opens, OnlyLast
  <1>11. Fits("dml", q)
    <2>1. Ops("dml") = A
      BY DEF Ops
    <2> QED BY <1>9, <1>10, <2>1 DEF Fits
  <1>12. /\ Good(l, B) /\ l \in Seq(Steps) /\ Len(l) >= 1 /\ Maker(l[1]) /\ l[Len(l)].do = "close"
         /\ Sessions(l) /\ NoLeaks(l) /\ DropsMake(l) /\ Good(l, Opens \cup Reads)
    BY LoadSchemaFits, GoodMore DEF Good
  <1>13. Good(D.conn.open, Opens) /\ D.conn.open \in Seq(Steps) /\ NoLeaks(D.conn.open)
         /\ \A k \in 1..Len(D.conn.open) : D.conn.open[k].do = "connect" => k = 1
    BY OpenFits
  <1> HIDE DEF l
  <1>14. r = (l \o D.conn.open) \o p
    <2>1. l \o (D.conn.open \o p) = (l \o D.conn.open) \o p
      <3> DEFINE o == D.conn.open
      <3>1. o \in Seq(Steps) /\ l \in Seq(Steps) /\ p \in Seq(Steps)
        BY <1>3, <1>12, <1>13
      <3> HIDE DEF o
      <3>2. (l \o o) \o p = l \o (o \o p)
        BY <3>1, ConcatAssociative
      <3> QED BY <3>2 DEF o
    <2> QED BY <2>1 DEF q, r
  <1>15. q \in Seq(Steps) /\ Good(q, B)
    BY <1>10 DEF Good
  <1>16. NoLeaks(q) /\ \A k \in 1..Len(q) : q[k].do = "connect" => k = 1
    <2>1. /\ Len(q) = Len(D.conn.open) + Len(p) /\ Len(D.conn.open) \in Nat
          /\ \A k \in 1..Len(D.conn.open) : q[k] = D.conn.open[k]
          /\ \A k \in (Len(D.conn.open) + 1)..(Len(D.conn.open) + Len(p)) : q[k] = p[k - Len(D.conn.open)]
      BY <1>3, <1>13, Glued
    <2> HIDE DEF q
    <2>2. ASSUME NEW k \in 1..Len(q), q[k].do = "connect" PROVE k \in 1..Len(D.conn.open)
      <3>1. q[Len(q)].do # "connect"
        <4>1. q[Len(q)] = p[1]
          BY <1>3, <2>1
        <4> QED BY <1>2, <1>3, <4>1
      <3> QED BY <1>3, <2>1, <2>2, <3>1
    <2>3. NoLeaks(q)
      BY <1>13, <2>1, <2>2 DEF NoLeaks, Leaks, Leaky
    <2> QED BY <1>13, <2>1, <2>2, <2>3
  <1> HIDE DEF q
  <1>17. Good(r, B) /\ DropsMake(r)
    BY <1>10, <1>12, <1>15, GoodConcat, MakeConcat
  <1>18. Sessions(r)
    <2>1. LeaksOnce(q)
      BY <1>16 DEF LeaksOnce, NoLeaks
    <2> QED BY <1>12, <1>15, <1>16, <2>1, SessionsConcat
  <1>19. /\ Len(r) = Len(l) + Len(q) /\ Len(l) \in Nat /\ Len(q) \in Nat
         /\ \A k \in 1..Len(l) : r[k] = l[k]
         /\ \A k \in (Len(l) + 1)..(Len(l) + Len(q)) : r[k] = q[k - Len(l)]
    BY <1>12, <1>15, Glued
  <1> HIDE DEF r
  <1>20. Len(r) >= 1 /\ Maker(r[1])
    <2>1. 1 \in 1..Len(l)
      BY <1>12, <1>19
    <2> QED BY <1>12, <1>19, <2>1
  <1>21. ASSUME NEW k \in 1..Len(r), r[k].do = "insert" PROVE k = Len(r) /\ r[k].stmt = Stmts[Made + 1]
    <2>1. k \notin 1..Len(l)
      <3> SUFFICES ASSUME k \in 1..Len(l) PROVE FALSE
        OBVIOUS
      <3>1. l[k].do \in Opens \cup Reads /\ l[k].do = "insert"
        BY <1>12, <1>19, <1>21 DEF Good
      <3> QED BY <3>1 DEF Opens, Reads
    <2>2. k \in (Len(l) + 1)..(Len(l) + Len(q)) /\ k - Len(l) \in 1..Len(q)
      BY <1>19, <2>1
    <2>3. k - Len(l) = Len(q) /\ r[k].stmt = Stmts[Made + 1]
      BY <1>9, <1>19, <1>21, <2>2
    <2> QED BY <1>19, <2>2, <2>3
  <1>22. OnlyLast(r, {"dump", "copy_back"})
    BY <1>17 DEF Good, Opens, Reads, OnlyLast
  <1>23. Fits("ddl", r)
    <2>1. Ops("ddl") = B
      BY DEF Ops
    <2> QED BY <1>17, <1>18, <1>21, <1>22, <2>1 DEF Fits
  <1> QED BY <1>10, <1>11, <1>14, <1>20, <1>23 DEF l, p, q, s

(* get_schema() fits, and reads each catalog that was not read before.     *)
LEMMA SchemaFits ==
  ASSUME driver \in Drivers, NEW ph \in {"schema", "testing"}
  PROVE  Fits(ph, LoadSchema) /\ Len(LoadSchema) >= 1 /\ Maker(LoadSchema[1])
PROOF
  <1>1. /\ Good(LoadSchema, Opens \cup Reads) /\ Sessions(LoadSchema) /\ DropsMake(LoadSchema)
        /\ Len(LoadSchema) >= 1 /\ Maker(LoadSchema[1])
        /\ \A k \in 1..Len(D.schema) : D.schema[k].stmt = "cached" /\ D.schema[k].do \notin cache.has =>
             \E j \in 1..Len(LoadSchema) : LoadSchema[j] = D.schema[k]
    BY LoadSchemaFits
  <1>2. ASSUME NEW c \in Catalogs, c \notin cache.has
        PROVE  \E k \in 1..Len(LoadSchema) : LoadSchema[k].do = c /\ LoadSchema[k].stmt = "cached"
    <2>1. PICK i \in 1..Len(D.schema) : D.schema[i].stmt = "cached" /\ D.schema[i].do = c
      BY DEF Catalogs, CatalogsOf, D
    <2> QED BY <1>1, <1>2, <2>1
  <1>3. OnlyLast(LoadSchema, {"dump", "copy_back"})
    BY <1>1 DEF Good, Opens, Reads, OnlyLast
  <1>4. Ops(ph) = Opens \cup Reads
    BY DEF Ops
  <1> QED BY <1>1, <1>2, <1>3, <1>4 DEF Fits

(* The run of a SELECT fits.                                               *)
LEMMA QueryFits ==
  ASSUME driver \in Drivers
  PROVE  LET q == D.conn.open \o (D.test.settings \o <<Statement("query", "none")>>)
         IN  Fits("run", q) /\ Len(q) >= 1 /\ Maker(q[1])
PROOF
  <1> DEFINE s == Statement("query", "none")
             t == D.test.settings
             p == t \o <<s>>
             q == D.conn.open \o p
             A == Opens \cup {"query", "content", "write"}
  <1>1. s \in Steps /\ StepOk(s) /\ s.do = "query" /\ s.err \notin OfSchema
    <2>1. "query" \in {"insert", "write", "query", "apply"} /\ "none" \in Names
      BY DEF Names
    <2> QED BY <2>1, StatementFits
  <1>2. Good(t, {"set"})
    BY Programs DEF ProgramsOk, CallOk
  <1> HIDE DEF s, t
  <1>3. Good(<<s>>, {"set", "query"}) /\ Good(t, {"set", "query"})
    BY <1>1, <1>2, GoodOne, GoodMore
  <1>4. Good(p, {"set", "query"})
    BY <1>3, GoodConcat
  <1> HIDE DEF p
  <1>5. Good(p, A)
    BY <1>4 DEF Good, Opens
  <1>6. \A k \in 1..Len(p) : p[k].do # "connect" /\ p[k].do \notin Drops
    BY <1>4 DEF Good, Drops
  <1>7. ClosesFirst(p) /\ LeaksOnce(p) /\ DropsMake(p)
    BY <1>6, NoConnection DEF DropsMake
  <1>8. Opened(q, p, A)
    BY <1>5, <1>7, OpenThen
  <1> HIDE DEF q
  <1>9. OnlyLast(q, {"dump", "copy_back"})
    BY <1>8 DEF Opened, Good, Opens, OnlyLast
  <1>10. Ops("run") = A
    BY DEF Ops
  <1>11. Fits("run", q) /\ Len(q) >= 1 /\ Maker(q[1])
    BY <1>8, <1>9, <1>10 DEF Fits, Opened
  <1> QED BY <1>11 DEF q, p, s, t

(* The run of an UPDATE or a DELETE between two looks at the table fits.   *)
LEMMA ChangeFits ==
  ASSUME driver \in Drivers
  PROVE  LET q == <<D.life.content>> \o D.test.settings \o <<Statement("write", "w"), D.life.content>>
         IN  Fits("run", q) /\ \A k \in 1..Len(q) : q[k].do # "connect"
PROOF
  <1> DEFINE s == Statement("write", "w")
             t == D.test.settings
             c == D.life.content
             q == <<c>> \o t \o <<s, c>>
             B == {"set", "content", "write"}
             A == Opens \cup {"query", "content", "write"}
  <1>1. s \in Steps /\ StepOk(s) /\ s.do = "write" /\ s.err \notin OfSchema
    <2>1. "write" \in {"insert", "write", "query", "apply"} /\ "w" \in Names
      BY DEF Names
    <2>2. "w" \notin {"none", "cached"}
      OBVIOUS
    <2> QED BY <2>1, <2>2, StatementFits
  <1>2. Good(t, {"set"}) /\ c \in Steps /\ c.do = "content" /\ StepOk(c) /\ c.err \notin OfSchema
    BY Programs DEF ProgramsOk, CallOk
  <1> HIDE DEF s, t, c
  <1>3. Good(<<c>>, B) /\ Good(t, B)
    BY <1>2, GoodOne, GoodMore
  <1>4. Good(<<s, c>>, B)
    <2>1. <<s, c>> \in Seq(Steps) /\ Len(<<s, c>>) = 2 /\ <<s, c>>[1] = s /\ <<s, c>>[2] = c
      BY <1>1, <1>2
    <2>2. \A k \in 1..2 : k = 1 \/ k = 2
      OBVIOUS
    <2> QED BY <1>1, <1>2, <2>1, <2>2 DEF Good
  <1>5. Good(q, B)
    BY <1>3, <1>4, GoodConcat
  <1> HIDE DEF q
  <1>6. Good(q, A)
    BY <1>5 DEF Good, Opens
  <1>7. \A k \in 1..Len(q) : q[k].do # "connect" /\ q[k].do \notin Drops /\ q[k].do \notin {"dump", "copy_back"}
    BY <1>5 DEF Good, Drops
  <1>8. Sessions(q) /\ DropsMake(q) /\ OnlyLast(q, {"dump", "copy_back"})
    BY <1>7, NoConnection DEF DropsMake, OnlyLast
  <1>9. Ops("run") = A
    BY DEF Ops
  <1> QED BY <1>6, <1>7, <1>8, <1>9 DEF Fits, q, s, t, c

(* Feeding the statements that are left fits.                              *)
LEMMA FeedFits ==
  ASSUME driver \in Drivers, NEW r \in Seq(ToSet(Stmts) \cup {"noop"})
  PROVE  LET q == [i \in 1..Len(r) |-> Statement("apply", r[i])]
         IN  Fits("m_feed", q) /\ \A k \in 1..Len(q) : q[k].do # "connect"
PROOF
  <1> DEFINE q == [i \in 1..Len(r) |-> Statement("apply", r[i])]
  <1>1. ASSUME NEW i \in 1..Len(r)
        PROVE  /\ Statement("apply", r[i]) \in Steps /\ StepOk(Statement("apply", r[i]))
               /\ Statement("apply", r[i]).do = "apply" /\ Statement("apply", r[i]).err \notin OfSchema
    <2>1. r[i] \in Names /\ r[i] \notin {"none", "cached"}
      BY NamesAssumption DEF Names
    <2>2. "apply" \in {"insert", "write", "query", "apply"}
      OBVIOUS
    <2> QED BY <2>1, <2>2, StatementFits
  <1>2. q \in Seq(Steps) /\ Len(q) = Len(r) /\ \A i \in 1..Len(q) : q[i] = Statement("apply", r[i])
    BY <1>1
  <1> HIDE DEF q
  <1>3. Good(q, {"apply"})
    BY <1>1, <1>2 DEF Good
  <1>4. \A k \in 1..Len(q) : q[k].do # "connect" /\ q[k].do \notin Drops /\ q[k].do \notin {"dump", "copy_back"}
    BY <1>3 DEF Good, Drops
  <1>5. Sessions(q) /\ DropsMake(q) /\ OnlyLast(q, {"dump", "copy_back"})
    BY <1>4, NoConnection DEF DropsMake, OnlyLast
  <1>6. Ops("m_feed") = {"apply"}
    BY DEF Ops
  <1> QED BY <1>3, <1>4, <1>5, <1>6 DEF Fits, q

-----------------------------------------------------------------------------
(***************************************************************************)
(* How a step of an operation moves on.                                    *)
(***************************************************************************)

(***************************************************************************)
(* What a step of an operation does to the program: the first step goes,   *)
(* and with it, when a client stops loading, all that loads; what it puts  *)
(* in comes first.                                                         *)
(***************************************************************************)
Goes(q, m) ==
  /\ prog \in Seq(Steps) /\ prog' \in Seq(Steps) /\ q \in Seq(Steps) /\ m \in 2..Len(prog)
  /\ \A i \in 2..(m - 1) : prog[i].do = "load"
  /\ Len(prog') = Len(q) + (Len(prog) - m + 1)
  /\ \A k \in 1..Len(q) : prog'[k] = q[k]
  /\ \A i \in m..Len(prog) :
       i - m + 1 + Len(q) \in 1..Len(prog') /\ prog'[i - m + 1 + Len(q)] = prog[i]
  /\ \A k \in 1..Len(prog') : k > Len(q) =>
       k - Len(q) + m - 1 \in m..Len(prog) /\ prog'[k] = prog[k - Len(q) + m - 1]

\* What the operation has read when a call was answered, and when it was not.
Answered(s) == IF s.do \in {"content", "query"} THEN Append(seen, db) ELSE seen
Missed(s) == IF s.do = "content" THEN Append(seen, Absent) ELSE seen

Fell(s) == IF s.do \in {"connect", "connect_default"} THEN "dead" ELSE conn
Left(s) == leaked' = leaked \/ (s.do = "connect" /\ conn = "test" /\ leaked' = leaked + 1)

Stops ==
  LET s == prog[1] IN
  /\ Len(prog) > 1 /\ prog' = <<>> /\ task' = "failed"
  /\ exn' \in {"plain", "fatal", "expected", "abort"} /\ (exn' = "expected" => s.err \in OfSchema)
  /\ s.err \notin {"ignored", "probe", "schema_probe"}
  /\ UNCHANGED <<driver, up, db, record, cache>> /\ faults' \in 0..MaxFaults
  /\ conn' = Fell(s) /\ Left(s)
  /\ backup' = IF s.do = "dump" THEN <<>> ELSE backup

Returns ==
  /\ Len(prog) = 1 /\ prog[1].do = "return" /\ prog' = <<>> /\ task' = "none"
  /\ UNCHANGED <<driver, up, db, conn, leaked, record, backup, exn, cache, faults, seen>>

Cuts ==
  /\ Len(prog) > 1 /\ prog[1].do = "if_backup" /\ backup = None
  /\ prog' = <<prog[Len(prog)]>>
  /\ UNCHANGED <<driver, up, db, conn, leaked, record, backup, exn, task, cache, faults, seen>>

Passes(m) ==
  LET s == prog[1] IN
  /\ s.err = "ignored" /\ s.do \notin Drops /\ s.do # "close" /\ (s.do # "load" => m = 2)
  /\ Goes(<<>>, m) /\ (s.do = "load" => prog[m].do # "load")
  /\ UNCHANGED <<driver, up, db, record, backup, exn, task, cache>> /\ faults' \in 0..MaxFaults
  /\ conn' = Fell(s) /\ Left(s)
  /\ seen' = Missed(s) /\ (faults' = faults => ~Serves(s))

Does ==
  LET s == prog[1] IN
  /\ s.do \notin {"return", "replay_record", "replay_backup"} /\ ~(s.do = "connect" /\ db = Absent)
  /\ ~(s.do = "if_backup" /\ backup = None)
  /\ Goes(<<>>, 2) /\ Serves(s) /\ seen' = Answered(s)
  /\ db' = Database(s) /\ conn' = Connection(s) /\ leaked' = Leaked(s)
  /\ record' = IF s.do = "insert" THEN Append(Rec, s.stmt) ELSE record
  /\ backup' = (CASE s.do = "dump" -> db [] s.do = "copy_record" -> record [] OTHER -> backup)
  /\ cache' = Cache(s, TRUE)
  /\ UNCHANGED <<driver, up, exn, task, faults>>

Creates ==
  LET s == prog[1] IN
  /\ s.do = "connect" /\ Goes(Creation(s), 2) /\ seen' = seen
  /\ UNCHANGED <<driver, up, db, record, backup, exn, task, cache>> /\ faults' \in 0..MaxFaults
  /\ \/ db = Absent /\ conn' = conn /\ leaked' = leaked
     \/ s.err \in {"probe", "schema_probe"} /\ conn' = "dead" /\ Left(s)

File(s) == IF s.do = "replay_record" THEN record ELSE backup
Unfolds ==
  LET s == prog[1] IN
  /\ s.do \in {"replay_record", "replay_backup"}
  /\ Goes(process_dbrecord_into_sqls(s, File(s)), 2)
  /\ UNCHANGED <<driver, up, db, conn, leaked, record, backup, exn, task, cache, faults, seen>>

Counts ==
  /\ prog[1].do = "insert" /\ Goes(<<>>, 2)
  /\ record' = Append(Rec, "noop")
  /\ UNCHANGED <<driver, up, db, conn, leaked, backup, exn, task, cache, seen>>
  /\ faults' \in 0..MaxFaults /\ faults' # faults

(* A program that goes on with some steps and the ones behind the m-th.    *)
LEMMA GoesOn ==
  ASSUME prog \in Seq(Steps), NEW q \in Seq(Steps), NEW m \in 2..Len(prog),
         \A i \in 2..(m - 1) : prog[i].do = "load",
         prog' = q \o SubSeq(prog, m, Len(prog))
  PROVE  Goes(q, m)
PROOF
  <1> DEFINE n == Len(prog)
             r == SubSeq(prog, m, n)
  <1>1. n \in Nat /\ m \in 2..n
    OBVIOUS
  <1>2. r \in Seq(Steps) /\ Len(r) = n - m + 1 /\ \A i \in 1..(n - m + 1) : r[i] = prog[i + m - 1]
    BY <1>1
  <1>3. /\ q \o r \in Seq(Steps) /\ Len(q \o r) = Len(q) + Len(r) /\ Len(q) \in Nat
        /\ \A k \in 1..Len(q) : (q \o r)[k] = q[k]
        /\ \A k \in (Len(q) + 1)..(Len(q) + Len(r)) : (q \o r)[k] = r[k - Len(q)]
    BY <1>2, Glued
  <1>4. prog' = q \o r
    OBVIOUS
  <1> HIDE DEF r, n
  <1>5. ASSUME NEW k \in 1..Len(prog'), k > Len(q)
        PROVE  k - Len(q) + m - 1 \in m..n /\ prog'[k] = prog[k - Len(q) + m - 1]
    <2>1. k \in (Len(q) + 1)..(Len(q) + Len(r)) /\ k - Len(q) \in 1..(n - m + 1)
      BY <1>1, <1>2, <1>3, <1>4, <1>5
    <2>2. prog'[k] = r[k - Len(q)]
      BY <1>3, <1>4, <2>1
    <2>3. r[k - Len(q)] = prog[k - Len(q) + m - 1]
      BY <1>2, <2>1
    <2>4. k - Len(q) + m - 1 \in m..n
      BY <1>1, <1>3, <2>1
    <2> QED BY <2>2, <2>3, <2>4
  <1>6. ASSUME NEW i \in m..n
        PROVE  i - m + 1 + Len(q) \in 1..Len(prog') /\ prog'[i - m + 1 + Len(q)] = prog[i]
    <2> DEFINE k == i - m + 1 + Len(q)
    <2>1. k \in 1..Len(prog') /\ k > Len(q) /\ k - Len(q) + m - 1 = i
      BY <1>1, <1>2, <1>3, <1>4
    <2> HIDE DEF k
    <2>2. prog'[k] = prog[i]
      BY <1>5, <2>1
    <2> QED BY <2>1, <2>2 DEF k
  <1> QED BY <1>1, <1>2, <1>3, <1>4, <1>5, <1>6 DEF Goes, n

(* The steps that create the missing database.                             *)
LEMMA CreationFits ==
  ASSUME driver \in Drivers, NEW s
  PROVE  /\ Creation(s) \in Seq(Steps) /\ NoLeaks(Creation(s)) /\ ClosesFirst(Creation(s))
         /\ \A k \in 1..Len(Creation(s)) :
              /\ Creation(s)[k].do \in Opens /\ StepOk(Creation(s)[k])
              /\ Creation(s)[k].err \in OfSchema => s.err \in OfSchema
         /\ driver \notin {"clickhouse", "sqlite"} =>
              \E k \in 1..Len(Creation(s)) : Creation(s)[k].do = "create"
PROOF
  <1> DEFINE c == D.conn.create
             a == AsSchema(c)
  <1>1. /\ Good(c, Opens) /\ NoLeaks(c) /\ ClosesFirst(c) /\ c \in Seq(Steps)
        /\ driver \notin {"clickhouse", "sqlite"} => \E k \in 1..Len(c) : c[k].do = "create"
    BY Programs DEF ProgramsOk, OpenOk, Good
  <1> HIDE DEF c
  <1>2. /\ Good(a, Opens \cup Reads) /\ Len(a) = Len(c) /\ NoLeaks(a)
        /\ \A k \in 1..Len(c) : a[k].do = c[k].do
    BY <1>1, AsSchemaKeeps
  <1> HIDE DEF a
  <1>3. ClosesFirst(a)
    <2> SUFFICES ASSUME NEW k \in 1..Len(a), a[k].do = "connect"
                 PROVE  /\ k >= 2
                        /\ \/ a[k - 1].do = "close"
                           \/ k >= 3 /\ a[k - 1].do = "replay_backup" /\ a[k - 2].do = "close"
      BY DEF ClosesFirst
    <2>1. k \in 1..Len(c) /\ c[k].do = "connect" /\ ~Leaks(c[k])
      BY <1>1, <1>2 DEF NoLeaks
    <2>2. /\ k >= 2
          /\ \/ c[k - 1].do = "close"
             \/ k >= 3 /\ c[k - 1].do = "replay_backup" /\ c[k - 2].do = "close"
      BY <1>1, <2>1 DEF ClosesFirst
    <2>3. Len(c) \in Nat /\ k - 1 \in 1..Len(c) /\ (k >= 3 => k - 2 \in 1..Len(c))
      BY <1>1, <2>1, <2>2
    <2> QED BY <1>2, <2>2, <2>3
  <1>4. CASE s.err \in {"schema", "schema_probe"}
    <2>1. Creation(s) = a
      BY <1>4 DEF Creation, a, c
    <2> QED BY <1>1, <1>2, <1>3, <1>4, <2>1 DEF Good, OfSchema
  <1>5. CASE s.err \notin {"schema", "schema_probe"}
    <2>1. Creation(s) = c
      BY <1>5 DEF Creation, c
    <2> QED BY <1>1, <2>1 DEF Good, Opens
  <1> QED BY <1>4, <1>5

(* The steps a file is unfolded into.                                      *)
LEMMA FilesFit ==
  ASSUME driver \in Drivers, NEW s \in Steps, StepOk(s), s.do \in {"replay_record", "replay_backup"},
         NEW f \in (Seq(Names \ {"none", "cached"}) \cup {None})
  PROVE  /\ process_dbrecord_into_sqls(s, f) \in Seq(Steps)
         /\ \A k \in 1..Len(process_dbrecord_into_sqls(s, f)) :
              /\ process_dbrecord_into_sqls(s, f)[k].do \in {"apply", "load"}
              /\ StepOk(process_dbrecord_into_sqls(s, f)[k])
              /\ process_dbrecord_into_sqls(s, f)[k].err = s.err
         /\ f # None => /\ Len(process_dbrecord_into_sqls(s, f)) = Len(f)
                        /\ \A k \in 1..Len(f) : process_dbrecord_into_sqls(s, f)[k].stmt = f[k]
PROOF
  <1> DEFINE how == IF conn = "none" \/ driver = "clickhouse" THEN "load" ELSE "apply"
             q == [i \in 1..Len(f) |-> Apply(how, s.err, f[i])]
  <1>1. CASE f = None
    BY <1>1 DEF process_dbrecord_into_sqls
  <1>2. CASE f # None
    <2>1. process_dbrecord_into_sqls(s, f) = q /\ f \in Seq(Names \ {"none", "cached"}) /\ Len(f) \in Nat
      BY <1>2 DEF process_dbrecord_into_sqls
    <2>2. how \in {"apply", "load"} /\ how \in Doings /\ s.err \in Errs
      BY Operations DEF Steps
    <2> HIDE DEF how
    <2>3. ASSUME NEW k \in 1..Len(f)
          PROVE  /\ Apply(how, s.err, f[k]) \in Steps
                 /\ Apply(how, s.err, f[k]).do = how /\ Apply(how, s.err, f[k]).err = s.err
                 /\ Apply(how, s.err, f[k]).stmt = f[k]
                 /\ f[k] \in Names \ {"none", "cached"}
      BY <2>1, <2>2 DEF Apply, Steps
    <2>4. ASSUME NEW k \in 1..Len(f) PROVE StepOk(Apply(how, s.err, f[k]))
      <3> DEFINE a == Apply(how, s.err, f[k])
      <3>1. a.do \in {"apply", "load"} /\ a.err = s.err /\ a.stmt \in Names \ {"none", "cached"}
        BY <2>2, <2>3
      <3> HIDE DEF a
      <3>2. s.err \notin {"probe", "schema_probe"} /\ (s.err = "ignored" => driver \in Forgiving)
        BY DEF StepOk, Sound
      <3>3. StepOk(a)
        BY <3>1, <3>2 DEF StepOk, Sound, Makes, Drops
      <3> QED BY <3>3 DEF a
    <2>5. q \in Seq(Steps) /\ Len(q) = Len(f) /\ \A k \in 1..Len(q) : q[k] = Apply(how, s.err, f[k])
      BY <2>1, <2>3
    <2> HIDE DEF q
    <2> QED BY <1>2, <2>1, <2>2, <2>3, <2>4, <2>5
  <1> QED BY <1>1, <1>2

(* A set of positions that is not empty has a least one.                   *)
LEMMA MinOfPositions ==
  ASSUME NEW n \in Nat, NEW s, s # {}, \A x \in s : x \in Nat /\ 1 <= x /\ x <= n
  PROVE  Min(s) \in s /\ \A j \in s : Min(s) <= j
PROOF
  <1> DEFINE Least == \E x \in s : \A y \in s : x <= y
             Ok == {k \in Nat : \A x \in s : x > k}
  <1>1. ASSUME ~Least PROVE FALSE
    <2>1. 0 \in Ok
      OBVIOUS
    <2>2. ASSUME NEW k \in Nat, k \in Ok PROVE k + 1 \in Ok
      <3>1. k + 1 \notin s
        <4> SUFFICES ASSUME k + 1 \in s PROVE FALSE
          OBVIOUS
        <4>1. \A y \in s : k + 1 <= y
          BY <2>2
        <4> QED BY <1>1, <4>1
      <3>2. ASSUME NEW x \in s PROVE x > k + 1
        <4>1. x > k /\ x \in Nat /\ x # k + 1
          BY <2>2, <3>1
        <4> QED BY <4>1
      <3> QED BY <3>2
    <2>3. n \in Ok
      <3> HIDE DEF Ok
      <3> QED BY <2>1, <2>2, NatClosed
    <2> QED BY <2>3
  <1> QED BY <1>1 DEF Min

(* The files hold statements that can be run.                              *)
LEMMA FileTypes ==
  ASSUME TypeInv
  PROVE  /\ record \in Seq(Names \ {"none", "cached"}) \cup {None}
         /\ backup \in Seq(Names \ {"none", "cached"}) \cup {None}
PROOF
  <1> DEFINE X == Names \ {"none", "cached"}
  <1>1. ToSet(Stmts) \cup {"noop"} \subseteq X /\ ToSet(Stmts) \cup {"w"} \subseteq X
    BY NamesAssumption DEF Names
  <1> HIDE DEF X
  <1>2. record \in Seq(ToSet(Stmts) \cup {"noop"}) \cup {None}
    BY DEF TypeInv, Records
  <1>3. backup \in Seq(ToSet(Stmts) \cup {"w"}) \cup Seq(ToSet(Stmts) \cup {"noop"}) \cup {None}
    BY DEF TypeInv, Databases, Records
  <1>4. Seq(ToSet(Stmts) \cup {"noop"}) \subseteq Seq(X) /\ Seq(ToSet(Stmts) \cup {"w"}) \subseteq Seq(X)
    BY <1>1
  <1> QED BY <1>2, <1>3, <1>4 DEF X

(* The catalogs are read, and not what connects.                            *)
LEMMA CatalogsRead ==
  ASSUME driver \in Drivers
  PROVE  CatalogsOf(driver) \subseteq Reads
PROOF
  <1>1. Good(D.schema, Reads)
    BY Programs DEF ProgramsOk, SchemaOk
  <1> QED BY <1>1 DEF Good, CatalogsOf, D

(* What is known of the step to come.                                      *)
LEMMA AtStep ==
  ASSUME ProgInv, prog # <<>>
  PROVE  /\ prog \in Seq(Steps) /\ Len(prog) \in Nat /\ Len(prog) >= 1
         /\ Head(prog) = prog[1] /\ prog[1] \in Steps /\ StepOk(prog[1])
         /\ Tail(prog) = SubSeq(prog, 2, Len(prog)) /\ Last(prog) = prog[Len(prog)]
         /\ exn = "none" /\ task = TaskOf(phase) /\ child = "running"
         /\ Len(prog) = 1 => prog[1].do = "return" /\ prog[1].err = "plain"
         /\ Len(prog) > 1 => /\ prog[1].do \in Ops(phase) /\ prog[1].do # "return"
                             /\ (prog[1].err \in OfSchema => "tables" \in Ops(phase))
         /\ \A m \in 1..Len(prog) : m < Len(prog) => prog[m].do # "return"
PROOF
  <1>1. prog \in Seq(Steps) /\ Len(prog) \in Nat /\ Len(prog) >= 1 /\ 1 \in 1..Len(prog)
    BY DEF ProgInv
  <1>2. Head(prog) = prog[1] /\ prog[1] \in Steps /\ Last(prog) = prog[Len(prog)]
        /\ Tail(prog) = SubSeq(prog, 2, Len(prog))
    BY <1>1 DEF Last
  <1>3. "return" \notin Ops(phase)
    BY DEF Ops, Resets, Restores, Opens, Drops, Reads
  <1>4. \A m \in 1..Len(prog) : m < Len(prog) => m \in 1..(Len(prog) - 1)
    BY <1>1
  <1>5. \A m \in 1..Len(prog) : m < Len(prog) => prog[m].do \in Ops(phase)
    BY <1>4 DEF ProgInv
  <1>6. StepOk(prog[1]) /\ exn = "none" /\ task = TaskOf(phase) /\ child = "running"
    BY <1>1 DEF ProgInv
  <1>7. Len(prog) = 1 => prog[1].do = "return" /\ prog[1].err = "plain"
    <2>1. Len(prog) = 1 => prog[1].do = "return"
      BY DEF ProgInv
    <2> QED BY <1>6, <2>1 DEF StepOk, Sound
  <1>8. Len(prog) > 1 => /\ prog[1].do \in Ops(phase)
                         /\ (prog[1].err \in OfSchema => "tables" \in Ops(phase))
    BY <1>1, <1>4 DEF ProgInv
  <1> QED BY <1>1, <1>2, <1>3, <1>5, <1>6, <1>7, <1>8

(* One step is done.                                                       *)
LEMMA GoesOne ==
  ASSUME ProgInv, Len(prog) > 1, prog' = Tail(prog)
  PROVE  Goes(<<>>, 2)
PROOF
  <1>1. /\ prog \in Seq(Steps) /\ Tail(prog) = SubSeq(prog, 2, Len(prog)) /\ Len(prog) \in Nat
    <2>1. prog # <<>>
      OBVIOUS
    <2> QED BY <2>1, AtStep
  <1>2. <<>> \in Seq(Steps) /\ 2 \in 2..Len(prog)
    BY <1>1
  <1>3. SubSeq(prog, 2, Len(prog)) \in Seq(Steps)
    BY <1>1
  <1>4. prog' = <<>> \o SubSeq(prog, 2, Len(prog))
    BY <1>1, <1>3
  <1>5. \A i \in 2..(2 - 1) : prog[i].do = "load"
    OBVIOUS
  <1> QED BY <1>1, <1>2, <1>4, <1>5, GoesOn

(* One step is replaced by others.                                         *)
LEMMA GoesIn ==
  ASSUME ProgInv, Len(prog) > 1, NEW q \in Seq(Steps), prog' = q \o Tail(prog)
  PROVE  Goes(q, 2)
PROOF
  <1>1. /\ prog \in Seq(Steps) /\ Tail(prog) = SubSeq(prog, 2, Len(prog)) /\ Len(prog) \in Nat
    <2>1. prog # <<>>
      OBVIOUS
    <2> QED BY <2>1, AtStep
  <1>2. 2 \in 2..Len(prog)
    BY <1>1
  <1>5. \A i \in 2..(2 - 1) : prog[i].do = "load"
    OBVIOUS
  <1>6. prog' = q \o SubSeq(prog, 2, Len(prog))
    BY <1>1
  <1> QED BY <1>1, <1>2, <1>5, <1>6, GoesOn

(* The client that loads a file has stopped: the steps behind it are left. *)
LEMMA GoesBehindLoad ==
  ASSUME ProgInv, Len(prog) > 1, prog[1].do = "load", prog' = BehindLoad
  PROVE  \E m \in 2..Len(prog) : Goes(<<>>, m) /\ prog[m].do # "load"
PROOF
  <1> DEFINE n == Len(prog)
             K == {k \in 1..n : prog[k].do # "load"}
             m == Min(K)
  <1>1. /\ prog \in Seq(Steps) /\ n \in Nat /\ n > 1
        /\ \A i \in 1..n : i < n => prog[i].do # "return"
    <2>1. prog # <<>>
      OBVIOUS
    <2> QED BY <2>1, AtStep
  <1>2. n \in K
    <2>1. prog # <<>> /\ n \in 1..n
      BY <1>1
    <2> QED BY <2>1 DEF ProgInv
  <1>3. m \in K /\ \A j \in K : m <= j
    <2>1. K # {} /\ \A x \in K : x \in Nat /\ 1 <= x /\ x <= n
      BY <1>1, <1>2
    <2> HIDE DEF K, n
    <2> QED BY <1>1, <2>1, MinOfPositions
  <1>4. prog' = SubSeq(prog, m, n)
    BY DEF BehindLoad
  <1> HIDE DEF m
  <1>5. m \in 2..n
    <2>1. 1 \notin K /\ m \in 1..n
      BY <1>3
    <2>2. m # 1
      BY <1>3, <2>1
    <2> HIDE DEF K
    <2> QED BY <1>1, <2>1, <2>2
  <1>6. \A i \in 2..(m - 1) : prog[i].do = "load"
    <2> SUFFICES ASSUME NEW i \in 2..(m - 1), prog[i].do # "load" PROVE FALSE
      OBVIOUS
    <2>1. i \in 1..n /\ i < m
      BY <1>1, <1>5
    <2>2. i \in K
      BY <2>1
    <2> HIDE DEF K
    <2> QED BY <1>1, <1>3, <1>5, <2>1, <2>2
  <1>7. <<>> \in Seq(Steps) /\ SubSeq(prog, m, n) \in Seq(Steps)
    BY <1>1, <1>5
  <1>8. prog' = <<>> \o SubSeq(prog, m, n)
    BY <1>4, <1>7
  <1>9. Goes(<<>>, m)
    BY <1>1, <1>5, <1>6, <1>7, <1>8, GoesOn DEF n
  <1>10. prog[m].do # "load"
    BY <1>3
  <1> QED BY <1>5, <1>9, <1>10

SucceedMoves == Returns \/ Cuts \/ Does \/ Creates \/ Unfolds
FailMoves == Stops \/ (\E m \in 2..Len(prog) : Passes(m)) \/ Creates
CountMoves == Stops \/ Counts

(* A call that succeeds moves on in one of five ways.                      *)
LEMMA SucceedsMoves ==
  ASSUME TypeInv, ProgInv, StepSucceeds PROVE SucceedMoves
PROOF
  <1> DEFINE s == prog[1]
             n == Len(prog)
  <1>1. prog # <<>>
    BY DEF StepSucceeds
  <1>2. /\ prog \in Seq(Steps) /\ n \in Nat /\ n >= 1
        /\ Head(prog) = s /\ s \in Steps /\ StepOk(s) /\ Last(prog) = prog[n]
        /\ exn = "none" /\ (n = 1 => s.do = "return") /\ (n > 1 => s.do # "return")
    BY <1>1, AtStep
  <1>2a. (s.do = "return" => n = 1) /\ (s.do # "return" => n > 1)
    <2> HIDE DEF s, n
    <2>1. n = 1 \/ n > 1
      BY <1>2
    <2> QED BY <1>2, <2>1
  <1>3. /\ Serves(s) /\ prog' = Rest(s) /\ db' = Database(s)
        /\ IF s.do = "connect" /\ db = Absent
             THEN UNCHANGED <<conn, leaked>>
             ELSE conn' = Connection(s) /\ leaked' = Leaked(s)
        /\ record' = IF s.do = "insert" THEN Append(Rec, s.stmt) ELSE record
        /\ backup' = (CASE s.do = "dump" -> db [] s.do = "copy_record" -> record [] OTHER -> backup)
        /\ task' = IF s.do = "return" THEN "none" ELSE task
        /\ cache' = Cache(s, TRUE) /\ seen' = Answered(s)
        /\ UNCHANGED <<driver, up, exn, faults>>
    <2>1. Head(prog) = s
      BY <1>2
    <2> HIDE DEF s
    <2> QED BY <2>1 DEF StepSucceeds, Rec, Answered
  <1>4. driver \in Drivers /\ faults \in 0..MaxFaults
    BY DEF TypeInv
  <1>5. s.stmt = "cached" => s.err = "schema"
    BY <1>2 DEF StepOk, Sound
  <1>6. s.do \in {"connect", "if_backup", "replay_record", "replay_backup", "return"} =>
          (s.stmt = "cached" => s.do \in CatalogsOf(driver))
    BY <1>2 DEF StepOk, Sound
  <1>7. CASE s.do = "return"
    <2>1. n = 1
      BY <1>2a, <1>7
    <2>2. prog' = Tail(prog)
      BY <1>3, <1>7 DEF Rest
    <2>3. Tail(prog) = <<>>
      <3>1. prog \in Seq(Steps) /\ Len(prog) = 1
        BY <1>2, <2>1
      <3>2. prog # <<>> /\ Tail(prog) \in Seq(Steps) /\ Len(Tail(prog)) = 0
        BY <1>1, <3>1, HeadTailProperties
      <3> QED BY <3>2, EmptySeq
    <2>4. s.stmt # "cached"
      BY <1>2, <1>7 DEF StepOk, Sound
    <2>5. UNCHANGED <<db, conn, leaked, record, backup, cache, seen>>
      BY <1>3, <1>7, <2>4 DEF Database, Connection, Leaked, Cache, Answered
    <2> QED BY <1>3, <1>7, <2>1, <2>2, <2>3, <2>5 DEF SucceedMoves, Returns
  <1>8. CASE s.do = "connect" /\ db = Absent
    <2>1. n > 1
      BY <1>2a, <1>8
    <2>2. prog' = Creation(s) \o Tail(prog)
      BY <1>3, <1>8 DEF Rest
    <2>3. Goes(Creation(s), 2)
      BY <1>4, <2>1, <2>2, CreationFits, GoesIn
    <2>4. cache' = cache
      <3>1. s.do \notin CatalogsOf(driver)
        BY <1>4, <1>8, CatalogsRead DEF Reads
      <3>2. s.stmt # "cached"
        BY <1>2, <3>1 DEF StepOk, Sound
      <3> QED BY <1>3, <3>2 DEF Cache
    <2>5. UNCHANGED <<driver, up, db, record, backup, exn, task>> /\ conn' = conn /\ leaked' = leaked
      BY <1>3, <1>8 DEF Database
    <2>6. faults' \in 0..MaxFaults /\ seen' = seen
      BY <1>3, <1>4, <1>8 DEF Answered
    <2> QED BY <1>8, <2>3, <2>4, <2>5, <2>6 DEF SucceedMoves, Creates
  <1>9. CASE s.do \in {"if_backup", "replay_record", "replay_backup"}
    <2>1. n > 1
      BY <1>2a, <1>9
    <2>2. cache' = cache
      <3>1. s.do \notin CatalogsOf(driver)
        BY <1>4, <1>9, CatalogsRead DEF Reads
      <3>2. s.stmt # "cached"
        BY <1>2, <3>1 DEF StepOk, Sound
      <3> QED BY <1>3, <3>2 DEF Cache
    <2>3. UNCHANGED <<driver, up, db, conn, leaked, record, backup, exn, task, faults, seen>>
      BY <1>3, <1>9 DEF Database, Connection, Leaked, Answered
    <2>4. CASE s.do = "if_backup" /\ backup = None
      <3>1. prog' = <<prog[n]>>
        BY <1>2, <1>3, <2>4 DEF Rest
      <3> QED BY <2>1, <2>2, <2>3, <2>4, <3>1 DEF SucceedMoves, Cuts
    <2>5. CASE s.do = "if_backup" /\ backup # None
      <3>1. prog' = Tail(prog)
        BY <1>3, <2>5 DEF Rest
      <3>2. Goes(<<>>, 2)
        BY <2>1, <3>1, GoesOne
      <3> QED BY <1>3, <2>5, <3>2 DEF SucceedMoves, Does
    <2>6. CASE s.do \in {"replay_record", "replay_backup"}
      <3>1. prog' = process_dbrecord_into_sqls(s, File(s)) \o Tail(prog)
        BY <1>3, <2>6 DEF Rest, File
      <3>2. process_dbrecord_into_sqls(s, File(s)) \in Seq(Steps)
        <4>1. File(s) \in Seq(Names \ {"none", "cached"}) \cup {None}
          BY FileTypes DEF File
        <4> QED BY <1>2, <1>4, <2>6, <4>1, FilesFit
      <3>3. Goes(process_dbrecord_into_sqls(s, File(s)), 2)
        BY <2>1, <3>1, <3>2, GoesIn
      <3> QED BY <2>2, <2>3, <2>6, <3>3 DEF SucceedMoves, Unfolds
    <2> QED BY <1>9, <2>4, <2>5, <2>6
  <1>10. CASE /\ s.do \notin {"return", "if_backup", "replay_record", "replay_backup"}
              /\ ~(s.do = "connect" /\ db = Absent)
    <2>1. n > 1
      BY <1>2a, <1>10
    <2>2. prog' = Tail(prog)
      BY <1>3, <1>10 DEF Rest
    <2>3. Goes(<<>>, 2)
      BY <2>1, <2>2, GoesOne
    <2> QED BY <1>3, <1>10, <2>3 DEF SucceedMoves, Does
  <1> QED BY <1>7, <1>8, <1>9, <1>10

(* A call that fails throws, passes on, or creates the database.           *)
LEMMA FailsMoves ==
  ASSUME TypeInv, ProgInv, StepFails PROVE FailMoves
PROOF
  <1> DEFINE s == prog[1]
             n == Len(prog)
  <1>1. prog # <<>>
    BY DEF StepFails
  <1>2. /\ prog \in Seq(Steps) /\ n \in Nat /\ n >= 1
        /\ Head(prog) = s /\ s \in Steps /\ StepOk(s)
        /\ exn = "none" /\ (n = 1 => s.do = "return")
    BY <1>1, AtStep
  <1>3. /\ \/ ~Serves(s) /\ UNCHANGED faults
           \/ Serves(s) /\ MayFail(s.do) /\ faults' = faults - 1
        /\ exn' \in Exception(s)
        /\ IF exn' = "none"
             THEN prog' = RestIgnoring(s) /\ UNCHANGED task
             ELSE prog' = <<>> /\ task' = "failed"
        /\ conn' = IF s.do \in {"connect", "connect_default"} THEN "dead" ELSE conn
        /\ leaked' = IF s.do = "connect" /\ conn = "test" /\ up THEN leaked + 1 ELSE leaked
        /\ backup' = IF s.do = "dump" THEN <<>> ELSE backup
        /\ cache' = Cache(s, FALSE) /\ seen' = Missed(s)
        /\ UNCHANGED <<driver, up, db, record>>
    <2>1. Head(prog) = s
      BY <1>2
    <2> HIDE DEF s
    <2> QED BY <2>1 DEF StepFails, Missed
  <1>4. driver \in Drivers /\ faults \in 0..MaxFaults /\ MaxFaults \in Nat
    BY DriversAssumption DEF TypeInv
  <1> HIDE DEF s, n
  <1>5. s.do # "return" /\ n > 1
    <2>1. s.do # "return"
      <3> SUFFICES ASSUME s.do = "return" PROVE FALSE
        OBVIOUS
      <3>1. Serves(s)
        BY DEF Serves, OfFiles, OfHandle, OwnConnection, Alive, Reachable
      <3>2. ~MayFail(s.do)
        BY DEF MayFail, OfFiles
      <3> QED BY <1>3, <3>1, <3>2
    <2>2. n # 1
      BY <1>2, <2>1
    <2> QED BY <1>2, <2>1, <2>2
  <1>5a. s.do # "close"
    <2> SUFFICES ASSUME s.do = "close" PROVE FALSE
      OBVIOUS
    <2>1. Serves(s)
      BY DEF Serves, OfFiles, OfHandle, OwnConnection, Alive, Reachable
    <2>2. ~MayFail(s.do)
      BY DEF MayFail
    <2> QED BY <1>3, <2>1, <2>2
  <1>6. faults' \in 0..MaxFaults
    <2>1. faults' = faults \/ (faults > 0 /\ faults' = faults - 1)
      BY <1>3 DEF MayFail
    <2> QED BY <1>4, <2>1
  <1>7. conn' = Fell(s) /\ Left(s) /\ cache' = cache
    BY <1>3 DEF Fell, Left, Cache
  <1>7a. faults' = faults => ~Serves(s)
    BY <1>3, <1>4 DEF MayFail
  <1>8. CASE exn' # "none"
    <2>1. s.err \notin {"ignored", "probe", "schema_probe"}
      BY <1>3, <1>8 DEF Exception
    <2>2. s.err \in Errs
      BY <1>2 DEF Steps
    <2>3. exn' \in {"plain", "fatal", "expected", "abort"} /\ (exn' = "expected" => s.err \in OfSchema)
      BY <1>3, <2>1, <2>2 DEF Exception, Errs, OfSchema
    <2>4. prog' = <<>> /\ task' = "failed"
      BY <1>3, <1>8
    <2> QED BY <1>3, <1>5, <1>6, <1>7, <2>1, <2>3, <2>4 DEF FailMoves, Stops, s, n
  <1>9. CASE exn' = "none"
    <2>1. s.err \in {"ignored", "probe", "schema_probe"}
      <3>1. s.err \in Errs
        BY <1>2 DEF Steps
      <3> QED BY <1>3, <1>9, <3>1 DEF Exception, Errs
    <2>2. prog' = RestIgnoring(s) /\ task' = task /\ exn' = exn
      BY <1>2, <1>3, <1>9
    <2>3. CASE s.err \in {"probe", "schema_probe"}
      <3>1. s.do = "connect"
        BY <1>2, <2>3 DEF StepOk, Sound
      <3>2. prog' = Creation(s) \o Tail(prog)
        BY <2>2, <2>3, <3>1 DEF RestIgnoring
      <3>3. Goes(Creation(s), 2)
        BY <1>4, <1>5, <3>2, CreationFits, GoesIn DEF n
      <3>4. conn' = "dead" /\ backup' = backup /\ seen' = seen
        BY <1>3, <3>1 DEF Missed
      <3> QED BY <1>3, <1>6, <1>7, <2>2, <2>3, <3>1, <3>3, <3>4 DEF FailMoves, Creates, s
    <2>4. CASE s.err = "ignored"
      <3>1. s.do # "dump"
        BY <1>2, <2>4 DEF StepOk, Sound
      <3>2. s.do \notin Drops
        <4>1. s.do \in Drops => driver = "sqlite" /\ s.do = "drop"
          BY <1>2, <2>4 DEF StepOk, Sound, Drops
        <4>2. driver = "sqlite" /\ s.do = "drop" => FALSE
          BY <1>3 DEF Serves, MayFail, OfFiles, OfHandle, OwnConnection, Alive
        <4> QED BY <4>1, <4>2
      <3>3. backup' = backup
        BY <1>3, <3>1
      <3>4. CASE s.do = "load"
        <4>1. prog' = BehindLoad
          BY <2>2, <2>4, <3>4 DEF RestIgnoring
        <4>2. PICK m \in 2..n : Goes(<<>>, m) /\ prog[m].do # "load"
          BY <1>5, <3>4, <4>1, GoesBehindLoad DEF s, n
        <4>3. Passes(m)
          BY <1>3, <1>6, <1>7, <1>7a, <2>2, <2>4, <3>2, <3>3, <3>4, <4>2, <1>5a DEF Passes, s
        <4> QED BY <4>2, <4>3 DEF FailMoves, n
      <3>5. CASE s.do # "load"
        <4>1. prog' = Tail(prog)
          BY <2>2, <2>4, <3>5 DEF RestIgnoring
        <4>2. Goes(<<>>, 2)
          BY <1>5, <4>1, GoesOne DEF n
        <4>3. Passes(2)
          BY <1>3, <1>6, <1>7, <1>7a, <2>2, <2>4, <3>2, <3>3, <3>5, <4>2, <1>5a DEF Passes, s
        <4>4. 2 \in 2..n
          BY <1>2, <1>5
        <4> QED BY <4>3, <4>4 DEF FailMoves, n
      <3> QED BY <3>4, <3>5
    <2> QED BY <2>1, <2>3, <2>4
  <1> QED BY <1>8, <1>9

(* A statement that affected no row throws or is recorded.                 *)
LEMMA AffectsNothingMoves ==
  ASSUME TypeInv, ProgInv, StepAffectsNothing PROVE CountMoves
PROOF
  <1> DEFINE s == prog[1]
             n == Len(prog)
  <1>1. prog # <<>>
    BY DEF StepAffectsNothing
  <1>2. /\ n \in Nat /\ n >= 1 /\ Head(prog) = s /\ StepOk(s)
        /\ exn = "none" /\ (n = 1 => s.do = "return")
    BY <1>1, AtStep
  <1>3. /\ s.do = "insert" /\ faults > 0 /\ faults' = faults - 1
        /\ IF D.test.counts
             THEN /\ exn' = "plain" /\ prog' = <<>> /\ task' = "failed" /\ UNCHANGED record
             ELSE /\ record' = Append(Rec, "noop")
                  /\ prog' = Tail(prog) /\ UNCHANGED <<exn, task>>
        /\ UNCHANGED <<driver, up, db, conn, leaked, backup, cache, seen>>
    <2>1. Head(prog) = s
      BY <1>2
    <2> HIDE DEF s
    <2> QED BY <2>1 DEF StepAffectsNothing, Rec
  <1>4. faults' \in 0..MaxFaults /\ faults' # faults
    <2>1. faults \in 0..MaxFaults /\ MaxFaults \in Nat
      BY DriversAssumption DEF TypeInv
    <2> QED BY <1>3, <2>1
  <1> HIDE DEF s, n
  <1>5. n > 1
    <2>1. n # 1
      BY <1>2, <1>3
    <2> QED BY <1>2, <2>1
  <1>6. CASE D.test.counts
    <2>1. s.err \in {"plain", "lost"}
      BY <1>2, <1>3 DEF StepOk, Sound
    <2>2. conn' = Fell(s) /\ Left(s) /\ backup' = IF s.do = "dump" THEN <<>> ELSE backup
      BY <1>3 DEF Fell, Left
    <2>3. /\ exn' \in {"plain", "fatal", "expected", "abort"} /\ exn' # "expected"
          /\ prog' = <<>> /\ task' = "failed" /\ UNCHANGED <<driver, up, db, record, cache>>
      BY <1>3, <1>6
    <2> QED BY <1>4, <1>5, <2>1, <2>2, <2>3 DEF CountMoves, Stops, s, n
  <1>7. CASE ~D.test.counts
    <2>1. prog' = Tail(prog)
      BY <1>3, <1>7
    <2>2. Goes(<<>>, 2)
      BY <1>5, <2>1, GoesOne DEF n
    <2> QED BY <1>3, <1>4, <1>7, <2>2 DEF CountMoves, Counts, s
  <1> QED BY <1>6, <1>7

(* The steps of the operation under way.                                    *)
LEMMA DbMoves ==
  ASSUME TypeInv, ProgInv, DbStep
  PROVE  \/ Stops \/ Returns \/ Cuts \/ (\E m \in 2..Len(prog) : Passes(m))
         \/ Does \/ Creates \/ Unfolds \/ Counts
PROOF
  <1>1. CASE StepSucceeds
    BY <1>1, SucceedsMoves DEF SucceedMoves
  <1>2. CASE StepFails
    BY <1>2, FailsMoves DEF FailMoves
  <1>3. CASE StepAffectsNothing
    BY <1>3, AffectsNothingMoves DEF CountMoves
  <1> QED BY <1>1, <1>2, <1>3 DEF DbStep

-----------------------------------------------------------------------------
(***************************************************************************)
(* A step of an operation keeps each part of the invariant.                *)
(***************************************************************************)

(* The operation under way stays one.                                       *)
LEMMA GoesProg ==
  ASSUME ProgInv, NEW q, NEW m, Goes(q, m), UNCHANGED <<driver, exn, task, phase, child>>,
         \A k \in 1..Len(q) : /\ q[k].do \in Ops(phase) /\ StepOk(q[k])
                              /\ (q[k].err \in OfSchema => "tables" \in Ops(phase))
  PROVE  ProgInv'
PROOF
  <1> DEFINE n == Len(prog)
             r == Len(prog')
  <1>1. /\ prog \in Seq(Steps) /\ prog' \in Seq(Steps) /\ n \in Nat /\ r \in Nat /\ Len(q) \in Nat
        /\ m \in 2..n /\ r = Len(q) + (n - m + 1) /\ r > 0
    BY DEF Goes
  <1>2. prog # <<>>
    BY <1>1
  <1>3. /\ task = TaskOf(phase) /\ exn = "none" /\ child = "running" /\ prog[n].do = "return"
        /\ \A k \in 1..(n - 1) : prog[k].do \in Ops(phase) /\ (prog[k].err \in OfSchema => "tables" \in Ops(phase))
        /\ \A k \in 1..n : StepOk(prog[k])
    BY <1>2 DEF ProgInv
  <1>4. prog'[r] = prog[n]
    <2>1. n \in m..n /\ n - m + 1 + Len(q) = r
      BY <1>1
    <2> HIDE DEF r
    <2> QED BY <2>1 DEF Goes, n
  <1>5. ASSUME NEW k \in 1..(r - 1)
        PROVE  /\ prog'[k].do \in Ops(phase)
               /\ (prog'[k].err \in OfSchema => "tables" \in Ops(phase))
    <2>1. CASE k <= Len(q)
      <3>1. k \in 1..Len(q)
        BY <1>1, <2>1
      <3> QED BY <3>1 DEF Goes
    <2>2. CASE k > Len(q)
      <3>1. k \in 1..r /\ k - Len(q) + m - 1 \in 1..(n - 1)
        BY <1>1, <2>2
      <3>2. prog'[k] = prog[k - Len(q) + m - 1]
        BY <2>2, <3>1 DEF Goes
      <3> QED BY <1>3, <3>1, <3>2
    <2> QED BY <1>1, <2>1, <2>2
  <1>6. ASSUME NEW k \in 1..r PROVE StepOk(prog'[k])
    <2>1. CASE k <= Len(q)
      <3>1. k \in 1..Len(q)
        BY <1>1, <2>1
      <3> QED BY <3>1 DEF Goes
    <2>2. CASE k > Len(q)
      <3>1. k - Len(q) + m - 1 \in 1..n
        BY <1>1, <2>2
      <3>2. prog'[k] = prog[k - Len(q) + m - 1]
        BY <2>2 DEF Goes
      <3> QED BY <1>3, <3>1, <3>2
    <2> QED BY <1>1, <2>1, <2>2
  <1>7. \A k \in 1..r : Sound(driver', prog'[k])
    BY <1>6 DEF StepOk
  <1>8. /\ task' = TaskOf(phase') /\ exn' = "none" /\ child' = "running" /\ prog'[r].do = "return"
        /\ \A k \in 1..(r - 1) : /\ prog'[k].do \in Ops(phase')
                                 /\ (prog'[k].err \in OfSchema => "tables" \in Ops(phase'))
    BY <1>3, <1>4, <1>5
  <1>9. prog' # <<>>
    BY <1>1
  <1> QED BY <1>1, <1>7, <1>8, <1>9 DEF ProgInv, StepOk

(* Each phase has its operations.                                          *)
LEMMA OpsOf ==
  /\ \A ph : "connect" \in Ops(ph) => Opens \subseteq Ops(ph)
  /\ \A ph : "replay_record" \in Ops(ph) \/ "replay_backup" \in Ops(ph) => ph = "restore"
  /\ {"apply", "load"} \subseteq Ops("restore")
PROOF BY DEF Ops, Opens, Restores, Resets, Drops, Reads

(* A step keeps ProgInv: what is left of an operation is well formed.      *)
LEMMA OperationProg ==
  ASSUME TypeInv, ProgInv, Operation PROVE ProgInv'
PROOF
  <1>0. DbStep /\ phase' = phase /\ child' = child /\ driver \in Drivers
    BY DEF Operation, TypeInv
  <1>1. CASE prog' = <<>> /\ task' \in {"none", "failed"}
    <2>1. prog' \in Seq(Steps)
      BY <1>1
    <2> QED BY <1>1, <2>1 DEF ProgInv
  <1>2. CASE Stops \/ Returns
    BY <1>1, <1>2 DEF Stops, Returns
  <1>3. CASE Cuts
    <2> DEFINE l == prog[Len(prog)]
    <2>1. prog # <<>> /\ Len(prog) \in 1..Len(prog) /\ prog \in Seq(Steps)
      BY <1>3 DEF Cuts, ProgInv
    <2>2. l \in Steps /\ l.do = "return" /\ StepOk(l)
      BY <2>1 DEF ProgInv
    <2>3. task = TaskOf(phase) /\ exn = "none" /\ child = "running"
      BY <2>1 DEF ProgInv
    <2> HIDE DEF l
    <2>4. prog' = <<l>> /\ UNCHANGED <<driver, exn, task>>
      BY <1>3 DEF Cuts, l
    <2>5. prog' \in Seq(Steps) /\ Len(prog') = 1 /\ prog'[1] = l
      BY <2>2, <2>4
    <2>6. Sound(driver', prog'[1])
      BY <2>2, <2>4, <2>5 DEF StepOk
    <2>7. 1..(Len(prog') - 1) = {}
      BY <2>5
    <2>8. \A k \in 1..Len(prog') : k = 1
      BY <2>5
    <2> QED BY <1>0, <2>2, <2>3, <2>4, <2>5, <2>6, <2>7, <2>8 DEF ProgInv, StepOk
  <1>4. CASE \E m \in 2..Len(prog) : Passes(m)
    <2> PICK m \in 2..Len(prog) : Passes(m)
      BY <1>4
    <2>1. Goes(<<>>, m) /\ UNCHANGED <<driver, exn, task, phase, child>>
      BY <1>0 DEF Passes
    <2>2. 1..Len(<<>>) = {}
      OBVIOUS
    <2> QED BY <2>1, <2>2, GoesProg
  <1>5. CASE Does \/ Counts
    <2>1. Goes(<<>>, 2) /\ UNCHANGED <<driver, exn, task, phase, child>>
      BY <1>0, <1>5 DEF Does, Counts
    <2>2. 1..Len(<<>>) = {}
      OBVIOUS
    <2> QED BY <2>1, <2>2, GoesProg
  <1>6. CASE Creates
    <2> DEFINE s == prog[1]
               q == Creation(s)
    <2>1. s.do = "connect" /\ Goes(q, 2) /\ UNCHANGED <<driver, exn, task, phase, child>>
      BY <1>0, <1>6 DEF Creates
    <2>2. s.do \in Ops(phase) /\ (s.err \in OfSchema => "tables" \in Ops(phase))
      <3>1. Len(prog) > 1 /\ prog # <<>>
        BY <2>1 DEF Goes
      <3> QED BY <3>1, AtStep
    <2> HIDE DEF s
    <2>3. \A k \in 1..Len(q) : /\ q[k].do \in Opens /\ StepOk(q[k])
                               /\ q[k].err \in OfSchema => s.err \in OfSchema
      BY <1>0, CreationFits
    <2> HIDE DEF q
    <2>4. Opens \subseteq Ops(phase)
      BY <2>1, <2>2, OpsOf
    <2>5. \A k \in 1..Len(q) : /\ q[k].do \in Ops(phase) /\ StepOk(q[k])
                               /\ (q[k].err \in OfSchema => "tables" \in Ops(phase))
      BY <2>2, <2>3, <2>4
    <2> QED BY <2>1, <2>5, GoesProg
  <1>7. CASE Unfolds
    <2> DEFINE s == prog[1]
               q == process_dbrecord_into_sqls(s, File(s))
    <2>1. /\ s.do \in {"replay_record", "replay_backup"} /\ Goes(q, 2)
          /\ UNCHANGED <<driver, exn, task, phase, child>>
      BY <1>0, <1>7 DEF Unfolds
    <2>2. s.do \in Ops(phase) /\ (s.err \in OfSchema => "tables" \in Ops(phase)) /\ s \in Steps /\ StepOk(s)
      <3>1. Len(prog) > 1 /\ prog # <<>>
        BY <2>1 DEF Goes
      <3> QED BY <3>1, AtStep
    <2> HIDE DEF s
    <2>3. File(s) \in Seq(Names \ {"none", "cached"}) \cup {None}
      BY FileTypes DEF File
    <2>4. \A k \in 1..Len(q) : q[k].do \in {"apply", "load"} /\ StepOk(q[k]) /\ q[k].err = s.err
      BY <1>0, <2>1, <2>2, <2>3, FilesFit
    <2> HIDE DEF q
    <2>5. phase = "restore"
      BY <2>1, <2>2, OpsOf
    <2>6. \A k \in 1..Len(q) : /\ q[k].do \in Ops(phase) /\ StepOk(q[k])
                               /\ (q[k].err \in OfSchema => "tables" \in Ops(phase))
      BY <2>2, <2>4, <2>5, OpsOf
    <2> QED BY <2>1, <2>6, GoesProg
  <1> QED BY <1>0, <1>2, <1>3, <1>4, <1>5, <1>6, <1>7, DbMoves

Marks == ToSet(Stmts) \cup {"w"}

(* The states of a database, told from what is none.                        *)
LEMMA DatabaseTypes ==
  /\ Databases = {Absent} \cup Seq(Marks)
  /\ Absent \notin Seq(Marks) /\ None \notin Seq(Marks) /\ None # Absent /\ None \notin Databases
  /\ None \notin Records /\ Absent \notin Records
  /\ <<>> \in Seq(Marks)
  /\ \A d \in Seq(Marks) : \A x \in Names \ {"none", "cached"} : After(d, x) \in Seq(Marks)
PROOF
  <1>1. Databases = {Absent} \cup Seq(Marks)
    BY DEF Databases, Marks
  <1>2. "absent" \notin Marks /\ "none" \notin Marks /\ Names \ {"none", "cached"} = Marks \cup {"noop"}
    BY NamesAssumption DEF Marks, Names
  <1>3. Len(Absent) = 1 /\ Absent[1] = "absent" /\ Len(None) = 1 /\ None[1] = "none"
    BY DEF Absent, None
  <1>4. \A S : \A d \in Seq(S) : Len(d) = 1 => d[1] \in S
    OBVIOUS
  <1>5. Absent \notin Seq(Marks) /\ None \notin Seq(Marks)
    BY <1>2, <1>3, <1>4
  <1>6. None # Absent
    BY <1>3
  <1>7. None \notin Records /\ Absent \notin Records
    <2>1. "none" \notin ToSet(Stmts) \cup {"noop"} /\ "absent" \notin ToSet(Stmts) \cup {"noop"}
      BY NamesAssumption
    <2> QED BY <1>3, <1>4, <2>1 DEF Records
  <1>8. ASSUME NEW d \in Seq(Marks), NEW x \in Names \ {"none", "cached"}
        PROVE  After(d, x) \in Seq(Marks)
    BY <1>2 DEF After
  <1> HIDE DEF Marks
  <1>9. <<>> \in Seq(Marks)
    OBVIOUS
  <1> QED BY <1>1, <1>5, <1>6, <1>7, <1>8, <1>9

(* Steps put in front keep the databases made that are dropped behind.     *)
LEMMA GoesMake ==
  ASSUME NEW q, NEW m, Goes(q, m), DropsMake(prog), DropsMake(q), driver' = driver
  PROVE  DropsMake(prog)'
PROOF
  <1> DEFINE n == Len(prog)
             r == Len(prog')
  <1>1. n \in Nat /\ r \in Nat /\ Len(q) \in Nat /\ m \in 2..n /\ r = Len(q) + (n - m + 1)
    BY DEF Goes
  <1>2. ASSUME NEW k \in 1..r, prog'[k].do \in Drops PROVE k < r /\ Maker(prog'[k + 1])
    <2>1. CASE k <= Len(q)
      <3>1. k \in 1..Len(q) /\ prog'[k] = q[k]
        BY <1>1, <2>1 DEF Goes
      <3>2. k < Len(q) /\ Maker(q[k + 1])
        BY <1>2, <3>1 DEF DropsMake
      <3>3. k + 1 \in 1..Len(q)
        BY <1>1, <3>1, <3>2
      <3>4. prog'[k + 1] = q[k + 1]
        BY <3>3 DEF Goes
      <3> QED BY <1>1, <3>1, <3>2, <3>4
    <2>2. CASE k > Len(q)
      <3> DEFINE i == k - Len(q) + m - 1
      <3>1. i \in m..n /\ prog'[k] = prog[i]
        BY <2>2 DEF Goes
      <3>2. i \in 1..n
        BY <1>1, <3>1
      <3> HIDE DEF i
      <3>3. i < n /\ Maker(prog[i + 1])
        BY <1>2, <3>1, <3>2 DEF DropsMake
      <3>4. i + 1 \in m..n /\ (i + 1) - m + 1 + Len(q) = k + 1
        BY <1>1, <3>1, <3>3 DEF i
      <3>5. k + 1 \in 1..r /\ prog'[k + 1] = prog[i + 1]
        BY <3>4 DEF Goes
      <3> QED BY <1>1, <3>3, <3>5
    <2> QED BY <1>1, <2>1, <2>2
  <1>3. \A k \in 1..r : prog'[k].do \in Drops => k < r /\ Makes(driver', prog'[k + 1])
    BY <1>2 DEF Maker
  <1> QED BY <1>3 DEF DropsMake, Maker

(* Where a database is made before it is needed it still is after steps    *)
(* put in front.                                                           *)
LEMMA GoesCovered ==
  ASSUME NEW q, NEW m, Goes(q, m), driver' = driver, NEW j \in m..Len(prog), Maker(prog[j]),
         \A i \in m..(j - 1) : prog[i].do \notin Needs,
         \A k \in 1..Len(q) : q[k].do \notin Needs
  PROVE  Covered(prog)'
PROOF
  <1> DEFINE n == Len(prog)
             r == Len(prog')
             g == j - m + 1 + Len(q)
  <1>1. n \in Nat /\ r \in Nat /\ Len(q) \in Nat /\ m \in 2..n /\ r = Len(q) + (n - m + 1)
    BY DEF Goes
  <1>2. g \in 1..r /\ prog'[g] = prog[j]
    BY DEF Goes
  <1>3. ASSUME NEW k \in 1..(g - 1) PROVE prog'[k].do \notin Needs
    <2>1. CASE k <= Len(q)
      <3>1. k \in 1..Len(q) /\ prog'[k] = q[k]
        BY <1>1, <2>1 DEF Goes
      <3> QED BY <3>1
    <2>2. CASE k > Len(q)
      <3>1. k \in 1..r /\ k - Len(q) + m - 1 \in m..(j - 1)
        <4> DEFINE l == Len(q)
        <4>1. /\ l \in Nat /\ r \in Nat /\ m \in Nat /\ j \in Nat /\ k \in Nat
              /\ 1 <= k /\ k <= j - m + l /\ k > l /\ j - m + 1 + l <= r
          BY <1>1, <1>2, <2>2
        <4> HIDE DEF l, r
        <4>2. k \in 1..r /\ k - l + m - 1 \in m..(j - 1)
          BY <4>1
        <4> QED BY <4>2 DEF l
      <3>2. prog'[k] = prog[k - Len(q) + m - 1]
        BY <2>2, <3>1 DEF Goes
      <3> QED BY <3>1, <3>2
    <2> QED BY <1>1, <2>1, <2>2
  <1>4. Makes(driver', prog'[g])
    BY <1>2 DEF Maker
  <1> HIDE DEF g
  <1> QED BY <1>2, <1>3, <1>4 DEF Covered, Maker

(* A step that needs a database has one.                                    *)
LEMMA NeedsDb ==
  ASSUME MakerInv, prog # <<>>, prog[1].do \in Needs
  PROVE  db # Absent
PROOF
  <1> SUFFICES ASSUME db = Absent PROVE FALSE
    OBVIOUS
  <1>1. PICK j \in 1..Len(prog) : Maker(prog[j]) /\ \A i \in 1..(j - 1) : prog[i].do \notin Needs
    BY DEF MakerInv, Covered
  <1>2. j # 1
    BY <1>1 DEF Maker, Makes, Needs
  <1>3. 1 \in 1..(j - 1)
    BY <1>1, <1>2
  <1> QED BY <1>1, <1>3

(* What a call that succeeds does to the database.                         *)
LEMMA DoesDb ==
  ASSUME TypeInv, ProgInv, MakerInv, Does
  PROVE  /\ db' \in Databases
         /\ db' = Absent => \/ prog[1].do \in Drops
                            \/ db = Absent /\ ~Maker(prog[1])
PROOF
  <1> DEFINE s == prog[1]
  <1>1. prog # <<>>
    BY DEF Does, Goes
  <1>2. s \in Steps /\ StepOk(s)
    BY <1>1, AtStep
  <1>3. s.do \in Needs => db # Absent
    BY <1>1, NeedsDb
  <1>4. db' = Database(s) /\ db \in Databases /\ ~(s.do = "connect" /\ db = Absent)
    BY DEF Does, TypeInv
  <1>5. backup = None \/ driver # "sqlite" \/ backup \in Seq(Marks)
    BY DatabaseTypes DEF TypeInv, Dumping
  <1> HIDE DEF s
  <1>6. CASE s.do \in {"drop", "drop_force"}
    BY <1>4, <1>6, DatabaseTypes DEF Database, Drops, s
  <1>7. CASE s.do \in {"create", "wipe"}
    BY <1>4, <1>7, DatabaseTypes DEF Database
  <1>8. CASE s.do \in {"create_missing", "open"}
    BY <1>4, <1>8, DatabaseTypes DEF Database, MissingIsCreated
  <1>9. CASE s.do = "copy_back"
    <2>1. driver = "sqlite"
      BY <1>2, <1>9 DEF StepOk, Sound
    <2>2. db' = IF backup = None THEN <<>> ELSE backup
      BY <1>4, <1>9 DEF Database
    <2> QED BY <1>5, <2>1, <2>2, DatabaseTypes
  <1>10. CASE s.do \in {"apply", "load", "insert", "write"}
    <2>1. s.stmt \in Names \ {"none", "cached"}
      BY <1>2, <1>10 DEF StepOk, Sound
    <2>2. db \in Seq(Marks)
      BY <1>3, <1>4, <1>10, DatabaseTypes DEF Needs
    <2>3. db' = After(db, s.stmt)
      BY <1>4, <1>10 DEF Database
    <2> QED BY <2>1, <2>2, <2>3, DatabaseTypes
  <1>11. CASE s.do \notin {"drop", "drop_force", "create", "wipe", "create_missing", "open", "copy_back",
                           "apply", "load", "insert", "write"}
    <2>1. db' = db
      BY <1>4, <1>11 DEF Database
    <2>2. db = Absent => ~Maker(s)
      BY <1>4, <1>11 DEF Maker, Makes
    <2> QED BY <1>4, <2>1, <2>2 DEF s
  <1> QED BY <1>6, <1>7, <1>8, <1>9, <1>10, <1>11

(* A step keeps MakerInv: a missing database is made before it is needed.  *)
LEMMA OperationMaker ==
  ASSUME TypeInv, ProgInv, MakerInv, Operation PROVE MakerInv'
PROOF
  <1> DEFINE s == prog[1]
             n == Len(prog)
  <1>0. /\ DbStep /\ phase' = phase /\ child' = child /\ driver' = driver /\ driver \in Drivers
        /\ DropsMake(prog) /\ (prog # <<>> /\ db = Absent => Covered(prog))
    BY DEF Operation, TypeInv, DbStep, StepSucceeds, StepFails, StepAffectsNothing, MakerInv
  <1>1. prog # <<>>
    BY <1>0 DEF DbStep, StepSucceeds, StepFails, StepAffectsNothing
  <1>2. /\ n \in Nat /\ n >= 1 /\ s \in Steps /\ StepOk(s) /\ task = TaskOf(phase)
        /\ n > 1 => s.do \in Ops(phase)
    BY <1>1, AtStep
  <1>3. TaskOf(phase) # "none"
    BY DEF TaskOf
  <1>4. s.do \in Needs => db # Absent
    BY <1>1, NeedsDb
  <1>5. phase \in Generating \cup {"m_feed", "m_backup"} =>
          db # Absent /\ Ops(phase) \cap Drops = {}
    BY DEF MakerInv, Generating, Ops, Opens, Reads, Drops
  <1>6. ASSUME DropsMake(prog)', prog' # <<>> /\ db' = Absent => Covered(prog)',
               task' # "none" \/ db' # Absent,
               db' = Absent => db = Absent \/ (n > 1 /\ s.do \in Drops)
        PROVE  MakerInv'
    <2>1. phase' \in Generating \cup {"m_feed", "m_backup"} => db' # Absent
      BY <1>0, <1>2, <1>5, <1>6
    <2> QED BY <1>6, <2>1 DEF MakerInv
  <1>7. \A j \in 1..n : Maker(prog[j]) /\ (\A i \in 1..(j - 1) : prog[i].do \notin Needs) =>
          j = 1 \/ (j \in 2..n /\ s.do \notin Needs)
    BY <1>2
  <1>8. ASSUME db = Absent, ~Maker(s)
        PROVE  /\ s.do \notin Needs
               /\ \E j \in 2..n : Maker(prog[j]) /\ \A i \in 2..(j - 1) : prog[i].do \notin Needs
    <2>1. PICK j \in 1..n : Maker(prog[j]) /\ \A i \in 1..(j - 1) : prog[i].do \notin Needs
      BY <1>0, <1>1, <1>8 DEF Covered
    <2>2. j # 1
      BY <1>8, <2>1
    <2>3. j \in 2..n /\ s.do \notin Needs
      BY <1>7, <2>1, <2>2
    <2>4. \A i \in 2..(j - 1) : prog[i].do \notin Needs
      BY <2>1
    <2> QED BY <2>1, <2>3, <2>4
  <1>9. ASSUME prog' = <<>> PROVE DropsMake(prog)'
    BY <1>9 DEF DropsMake
  <1>10. DropsMake(<<>>) /\ \A k \in 1..Len(<<>>) : FALSE
    BY DEF DropsMake
  <1> HIDE DEF s, n
  <1>11. CASE Stops
    <2>1. prog' = <<>> /\ task' = "failed" /\ db' = db
      BY <1>11 DEF Stops
    <2> QED BY <1>6, <1>9, <2>1
  <1>12. CASE Returns
    <2>1. prog' = <<>> /\ db' = db /\ s.do = "return"
      BY <1>12 DEF Returns, s
    <2>2. db # Absent
      BY <1>4, <2>1 DEF Needs
    <2> QED BY <1>6, <1>9, <2>1, <2>2
  <1>13. CASE Cuts
    <2>1. db' = db /\ s.do = "if_backup" /\ prog' = <<prog[n]>> /\ task' = task
      BY <1>13 DEF Cuts, s, n
    <2>2. db # Absent
      BY <1>4, <2>1 DEF Needs
    <2>3. prog[n].do = "return" /\ prog[n] \in Steps
      BY <1>1, <1>2 DEF ProgInv, n
    <2>4. Len(prog') = 1 /\ prog'[1] = prog[n]
      BY <2>1, <2>3
    <2>5. DropsMake(prog)'
      BY <2>3, <2>4 DEF DropsMake, Drops
    <2> QED BY <1>2, <1>3, <1>6, <2>1, <2>2, <2>5
  <1>14. CASE \E m \in 2..Len(prog) : Passes(m)
    <2> PICK m \in 2..Len(prog) : Passes(m)
      BY <1>14
    <2>1. /\ Goes(<<>>, m) /\ db' = db /\ task' = task /\ s.err = "ignored"
          /\ s.do # "load" => m = 2
      BY DEF Passes, s
    <2>2. DropsMake(prog)'
      BY <1>0, <1>10, <2>1, GoesMake
    <2>3. ~Maker(s)
      BY <1>2, <2>1 DEF StepOk, Sound, Maker
    <2>4. ASSUME db' = Absent PROVE Covered(prog)'
      <3>1. m = 2
        BY <1>8, <2>1, <2>3, <2>4 DEF Needs
      <3>2. PICK j \in 2..n : Maker(prog[j]) /\ \A i \in 2..(j - 1) : prog[i].do \notin Needs
        BY <1>8, <2>1, <2>3, <2>4
      <3> QED BY <1>0, <1>10, <2>1, <3>1, <3>2, GoesCovered DEF n
    <2> QED BY <1>2, <1>3, <1>6, <2>1, <2>2, <2>4
  <1>15. CASE Does
    <2>1. Goes(<<>>, 2) /\ task' = task
      BY <1>15 DEF Does
    <2>2. DropsMake(prog)'
      BY <1>0, <1>10, <2>1, GoesMake
    <2>3. db' = Absent => s.do \in Drops \/ (db = Absent /\ ~Maker(s))
      BY <1>15, DoesDb DEF s
    <2>4. n > 1
      BY <2>1 DEF Goes, n
    <2>5. ASSUME db' = Absent PROVE Covered(prog)'
      <3>1. CASE s.do \in Drops
        <4>1. Maker(prog[2]) /\ 2 \in 2..n
          BY <1>0, <1>2, <2>4, <3>1 DEF DropsMake, n, s
        <4>2. \A i \in 2..(2 - 1) : prog[i].do \notin Needs
          OBVIOUS
        <4> QED BY <1>0, <1>10, <2>1, <4>1, <4>2, GoesCovered DEF n
      <3>2. CASE db = Absent /\ ~Maker(s)
        <4>1. PICK j \in 2..n : Maker(prog[j]) /\ \A i \in 2..(j - 1) : prog[i].do \notin Needs
          BY <1>8, <3>2
        <4> QED BY <1>0, <1>10, <2>1, <4>1, GoesCovered DEF n
      <3> QED BY <2>3, <2>5, <3>1, <3>2
    <2> QED BY <1>2, <1>3, <1>6, <2>1, <2>2, <2>3, <2>4, <2>5
  <1>16. CASE Creates
    <2> DEFINE q == Creation(s)
    <2>1. s.do = "connect" /\ Goes(q, 2) /\ db' = db /\ task' = task
      BY <1>16 DEF Creates, s
    <2>2. /\ \A k \in 1..Len(q) : q[k].do \in Opens /\ StepOk(q[k])
          /\ driver \notin {"clickhouse", "sqlite"} => \E k \in 1..Len(q) : q[k].do = "create"
      BY <1>0, CreationFits
    <2> HIDE DEF q
    <2>3. /\ \A k \in 1..Len(q) : q[k].do \notin Drops /\ q[k].do \notin Needs
      BY <2>2 DEF Opens, Drops, Needs
    <2>4. DropsMake(prog)'
      <3>1. DropsMake(q)
        BY <2>3 DEF DropsMake
      <3> QED BY <1>0, <2>1, <3>1, GoesMake
    <2>5. ASSUME db' = Absent PROVE Covered(prog)'
      <3>1. CASE Maker(s)
        <4>1. driver \notin {"clickhouse", "sqlite"}
          BY <2>1, <3>1 DEF Maker, Makes
        <4>2. PICK k \in 1..Len(q) : q[k].do = "create"
          BY <2>2, <4>1
        <4>3. k \in 1..Len(prog') /\ prog'[k] = q[k] /\ \A i \in 1..(k - 1) : i \in 1..Len(q) /\ prog'[i] = q[i]
          <5>1. Len(q) \in Nat /\ Len(prog) \in Nat /\ Len(prog) >= 2 /\ Len(prog') = Len(q) + (Len(prog) - 2 + 1)
            BY <2>1 DEF Goes
          <5>2. k \in 1..Len(prog') /\ \A i \in 1..(k - 1) : i \in 1..Len(q)
            BY <5>1
          <5> QED BY <2>1, <5>2 DEF Goes
        <4>4. Makes(driver', prog'[k]) /\ \A i \in 1..(k - 1) : prog'[i].do \notin Needs
          BY <2>3, <4>2, <4>3 DEF Makes
        <4> QED BY <4>3, <4>4 DEF Covered, Maker
      <3>2. CASE ~Maker(s)
        <4>1. PICK j \in 2..n : Maker(prog[j]) /\ \A i \in 2..(j - 1) : prog[i].do \notin Needs
          BY <1>8, <2>1, <2>5, <3>2
        <4> QED BY <1>0, <2>1, <2>3, <4>1, GoesCovered DEF n
      <3> QED BY <3>1, <3>2
    <2> QED BY <1>2, <1>3, <1>6, <2>1, <2>4, <2>5
  <1>17. CASE Unfolds
    <2> DEFINE q == process_dbrecord_into_sqls(s, File(s))
    <2>1. /\ s.do \in {"replay_record", "replay_backup"} /\ Goes(q, 2) /\ db' = db /\ task' = task
      BY <1>17 DEF Unfolds, s
    <2>2. File(s) \in Seq(Names \ {"none", "cached"}) \cup {None}
      BY FileTypes DEF File
    <2>3. \A k \in 1..Len(q) : q[k].do \in {"apply", "load"}
      BY <1>0, <1>2, <2>1, <2>2, FilesFit
    <2> HIDE DEF q
    <2>4. DropsMake(prog)'
      <3>1. DropsMake(q)
        BY <2>3 DEF DropsMake, Drops
      <3> QED BY <1>0, <2>1, <3>1, GoesMake
    <2>5. db # Absent
      BY <1>4, <2>1 DEF Needs
    <2> QED BY <1>2, <1>3, <1>6, <2>1, <2>4, <2>5
  <1>18. CASE Counts
    <2>1. Goes(<<>>, 2) /\ db' = db /\ task' = task /\ s.do = "insert"
      BY <1>18 DEF Counts, s
    <2>2. DropsMake(prog)'
      BY <1>0, <1>10, <2>1, GoesMake
    <2>3. db # Absent
      BY <1>4, <2>1 DEF Needs
    <2> QED BY <1>2, <1>3, <1>6, <2>1, <2>2, <2>3
  <1> QED BY <1>0, <1>11, <1>12, <1>13, <1>14, <1>15, <1>16, <1>17, <1>18, DbMoves

(* What stays in the program keeps its distance to the end.                 *)
LEMMA GoesShift ==
  ASSUME NEW q, NEW m, Goes(q, m)
  PROVE  /\ Len(prog) \in Nat /\ Len(prog) > 1 /\ Len(prog') \in Nat /\ Len(q) \in Nat
         /\ \A k \in 1..Len(prog') :
              \/ k \in 1..Len(q) /\ prog'[k] = q[k]
              \/ \E i \in m..Len(prog) : prog'[k] = prog[i] /\ Len(prog') - k = Len(prog) - i
         /\ \A i \in 2..Len(prog) : prog[i].do # "load" =>
              \E k \in 1..Len(prog') : prog'[k] = prog[i] /\ Len(prog') - k = Len(prog) - i
PROOF
  <1> DEFINE n == Len(prog)
             r == Len(prog')
  <1>1. n \in Nat /\ r \in Nat /\ Len(q) \in Nat /\ m \in 2..n /\ r = Len(q) + (n - m + 1)
    BY DEF Goes
  <1>2. ASSUME NEW k \in 1..r
        PROVE  \/ k \in 1..Len(q) /\ prog'[k] = q[k]
               \/ \E i \in m..n : prog'[k] = prog[i] /\ r - k = n - i
    <2>1. CASE k <= Len(q)
      <3>1. k \in 1..Len(q)
        BY <1>1, <2>1
      <3> QED BY <3>1 DEF Goes
    <2>2. CASE k > Len(q)
      <3>1. k - Len(q) + m - 1 \in m..n /\ prog'[k] = prog[k - Len(q) + m - 1]
        BY <2>2 DEF Goes
      <3>2. r - k = n - (k - Len(q) + m - 1)
        BY <1>1
      <3> QED BY <3>1, <3>2
    <2> QED BY <1>1, <2>1, <2>2
  <1>3. ASSUME NEW i \in 2..n, prog[i].do # "load"
        PROVE  \E k \in 1..r : prog'[k] = prog[i] /\ r - k = n - i
    <2>1. i \in m..n
      <3>1. i \notin 2..(m - 1)
        BY <1>3 DEF Goes
      <3> QED BY <1>1, <3>1
    <2>2. i - m + 1 + Len(q) \in 1..r /\ prog'[i - m + 1 + Len(q)] = prog[i]
      BY <2>1 DEF Goes
    <2>3. r - (i - m + 1 + Len(q)) = n - i
      BY <1>1, <2>1
    <2> QED BY <2>2, <2>3
  <1> QED BY <1>1, <1>2, <1>3

(* What a step does, as far as the program is concerned.                    *)
Inserted(q) ==
  \/ q = <<>>
  \/ prog[1].do = "connect" /\ q = Creation(prog[1])
  \/ prog[1].do \in {"replay_record", "replay_backup"} /\ q = process_dbrecord_into_sqls(prog[1], File(prog[1]))

(* What is put into a program does not drop the database.                  *)
LEMMA InsertedIs ==
  ASSUME TypeInv, ProgInv, NEW q, Inserted(q), prog # <<>>
  PROVE  /\ \A k \in 1..Len(q) : q[k].do \in Opens \cup {"apply", "load"}
         /\ q # <<>> => prog[1].do \in {"connect", "replay_record", "replay_backup"}
         /\ prog[1].do \notin {"replay_record", "replay_backup"} => \A k \in 1..Len(q) : q[k].do \in Opens
PROOF
  <1> DEFINE s == prog[1]
  <1>1. s \in Steps /\ StepOk(s) /\ driver \in Drivers
    BY AtStep DEF TypeInv
  <1> HIDE DEF s
  <1>2. \A k \in 1..Len(Creation(s)) : Creation(s)[k].do \in Opens
    BY <1>1, CreationFits
  <1>3. s.do \in {"replay_record", "replay_backup"} =>
          \A k \in 1..Len(process_dbrecord_into_sqls(s, File(s))) :
            process_dbrecord_into_sqls(s, File(s))[k].do \in {"apply", "load"}
    <2>1. File(s) \in Seq(Names \ {"none", "cached"}) \cup {None}
      BY FileTypes DEF File
    <2> QED BY <1>1, <2>1, FilesFit
  <1>4. \A k \in 1..Len(<<>>) : FALSE
    OBVIOUS
  <1> QED BY <1>2, <1>3, <1>4 DEF Inserted, s

(* The ways a step moves on, by what is left of the program.               *)
LEMMA Moves ==
  ASSUME TypeInv, ProgInv, Operation
  PROVE  /\ prog # <<>> /\ driver' = driver /\ driver \in Drivers /\ phase' = phase /\ child' = child
         /\ \/ Stops
            \/ Returns
            \/ Cuts
            \/ \E q, m : /\ Goes(q, m) /\ Inserted(q) /\ task' = task /\ exn' = exn /\ m \in 2..Len(prog)
                         /\ \/ Does /\ q = <<>> /\ m = 2
                            \/ Counts /\ q = <<>> /\ m = 2
                            \/ Passes(m) /\ q = <<>>
                            \/ Creates /\ q = Creation(prog[1]) /\ m = 2
                            \/ Unfolds /\ q = process_dbrecord_into_sqls(prog[1], File(prog[1])) /\ m = 2
PROOF
  <1>1. /\ DbStep /\ phase' = phase /\ child' = child /\ driver' = driver /\ driver \in Drivers
        /\ prog # <<>>
    BY DEF Operation, TypeInv, DbStep, StepSucceeds, StepFails, StepAffectsNothing
  <1>2. CASE \E m \in 2..Len(prog) : Passes(m)
    <2> PICK m \in 2..Len(prog) : Passes(m)
      BY <1>2
    <2>1. Goes(<<>>, m) /\ Inserted(<<>>) /\ task' = task /\ exn' = exn
      BY DEF Passes, Inserted
    <2> QED BY <1>1, <2>1
  <1>3. CASE Does \/ Counts
    <2>1. Goes(<<>>, 2) /\ Inserted(<<>>) /\ task' = task /\ exn' = exn
      BY <1>3 DEF Does, Counts, Inserted
    <2>2. 2 \in 2..Len(prog)
      BY <2>1 DEF Goes
    <2> QED BY <1>1, <1>3, <2>1, <2>2
  <1>4. CASE Creates
    <2>1. Goes(Creation(prog[1]), 2) /\ Inserted(Creation(prog[1])) /\ task' = task /\ exn' = exn
      BY <1>4 DEF Creates, Inserted
    <2>2. 2 \in 2..Len(prog)
      BY <2>1 DEF Goes
    <2> QED BY <1>1, <1>4, <2>1, <2>2
  <1>5. CASE Unfolds
    <2> DEFINE q == process_dbrecord_into_sqls(prog[1], File(prog[1]))
    <2>1. Goes(q, 2) /\ Inserted(q) /\ task' = task /\ exn' = exn
      BY <1>5 DEF Unfolds, Inserted
    <2>2. 2 \in 2..Len(prog)
      BY <2>1 DEF Goes
    <2> QED BY <1>1, <1>5, <2>1, <2>2
  <1> QED BY <1>1, <1>2, <1>3, <1>4, <1>5, DbMoves

(* A step keeps FreshInv: what reset() leaves is empty.                    *)
LEMMA OperationFresh ==
  ASSUME TypeInv, ProgInv, MakerInv, FreshInv, Operation PROVE FreshInv'
PROOF
  <1> SUFFICES ASSUME driver' # "gaussdb", phase' = "reset"
               PROVE  /\ prog' # <<>> => \/ db' \in {Absent, <<>>}
                                         \/ \E k \in 1..Len(prog') : prog'[k].do \in Drops
                      /\ task' = "none" => db' = <<>>
    BY DEF FreshInv
  <1> DEFINE s == prog[1]
  <1>1. prog # <<>> /\ driver # "gaussdb" /\ phase = "reset"
    BY Moves
  <1>2. db \in {Absent, <<>>} \/ \E k \in 1..Len(prog) : prog[k].do \in Drops
    BY <1>1 DEF FreshInv
  <1>3. Len(prog) > 1 => s.do \in Resets
    BY <1>1, AtStep DEF Ops
  <1>3a. task # "none" /\ Len(prog) \in Nat
    BY <1>1, AtStep DEF TaskOf
  <1> HIDE DEF s
  <1>4. CASE Stops
    BY <1>4 DEF Stops
  <1>5. CASE Returns
    <2>1. Len(prog) = 1 /\ s.do = "return" /\ prog' = <<>> /\ db' = db
      BY <1>5 DEF Returns, s
    <2>2. db # Absent
      BY <1>1, <2>1, NeedsDb DEF Needs, s
    <2>3. \A k \in 1..Len(prog) : prog[k].do = "return"
      BY <2>1 DEF s
    <2> QED BY <1>2, <2>1, <2>2, <2>3 DEF Drops
  <1>6. CASE Cuts
    <2>1. s.do = "if_backup" /\ Len(prog) > 1
      BY <1>6 DEF Cuts, s
    <2> QED BY <1>3, <2>1 DEF Resets, Opens, Drops
  <1>7. ASSUME NEW q, NEW m, Goes(q, m), Inserted(q), task' = task,
               Does \/ Counts \/ Passes(m) \/ Creates \/ Unfolds
        PROVE  /\ prog' # <<>> => \/ db' \in {Absent, <<>>}
                                  \/ \E k \in 1..Len(prog') : prog'[k].do \in Drops
               /\ task' = "none" => db' = <<>>
    <2>1. Len(prog) > 1 /\ s.do \in Resets
      BY <1>3, <1>7, GoesShift
    <2>2. ASSUME NEW k \in 2..Len(prog), prog[k].do \in Drops
          PROVE  \E j \in 1..Len(prog') : prog'[j].do \in Drops
      <3>1. prog[k].do # "load"
        BY <2>2 DEF Drops
      <3>2. PICK j \in 1..Len(prog') : prog'[j] = prog[k]
        BY <1>7, <3>1, GoesShift
      <3> QED BY <2>2, <3>2
    <2>3. db \in {Absent, <<>>} \/ s.do \in Drops \/ \E k \in 2..Len(prog) : prog[k].do \in Drops
      <3>1. \A k \in 1..Len(prog) : k = 1 \/ k \in 2..Len(prog)
        BY <1>3a
      <3> QED BY <1>2, <3>1 DEF s
    <2>4. CASE Does
      <3>1. db' = Database(s)
        BY <2>4 DEF Does, s
      <3>2. s.do \in Drops => db' = Absent
        BY <3>1 DEF Database, Drops
      <3>3. db \in {Absent, <<>>} => db' \in {Absent, <<>>}
        BY <2>1, <3>1 DEF Database, Resets, Opens, Drops, MissingIsCreated
      <3> QED BY <1>3a, <1>7, <2>2, <2>3, <3>2, <3>3
    <2>5. CASE Passes(m) \/ Creates
      <3>1. db' = db /\ s.do \notin Drops
        BY <2>5 DEF Passes, Creates, Drops, s
      <3> QED BY <1>3a, <1>7, <2>2, <2>3, <3>1
    <2>6. CASE Unfolds \/ Counts
      <3>1. s.do \in {"replay_record", "replay_backup", "insert"}
        BY <2>6 DEF Unfolds, Counts, s
      <3> QED BY <2>1, <3>1 DEF Resets, Opens, Drops
    <2> QED BY <1>7, <2>4, <2>5, <2>6
  <1> QED BY <1>4, <1>5, <1>6, <1>7, Moves

(* A step keeps ExnInv: get_schema() throws only where it is called.       *)
LEMMA OperationExn ==
  ASSUME TypeInv, ProgInv, Operation PROVE ExnInv'
PROOF
  <1> SUFFICES ASSUME exn' = "expected" PROVE phase' \in {"ddl", "schema", "testing"}
    BY DEF ExnInv
  <1>1. prog # <<>> /\ phase' = phase /\ exn = "none"
    BY Moves, AtStep
  <1>2. Stops
    BY <1>1, Moves DEF Returns, Cuts
  <1>3. "tables" \in Ops(phase)
    BY <1>1, <1>2, AtStep DEF Stops
  <1> QED BY <1>1, <1>3 DEF Ops, Resets, Restores, Opens, Drops, Reads

(* Files and records, and what a statement adds to them.                    *)
LEMMA RecordTypes ==
  ASSUME TypeInv
  PROVE  /\ Rec \in Records /\ Made = Len(Rec) /\ Made \in Nat /\ <<>> \in Records
         /\ (Rec' = IF record' = None THEN <<>> ELSE record')
         /\ \A x \in ToSet(Stmts) \cup {"noop"} : \A r \in Records :
              /\ Append(r, x) \in Records /\ Append(r, x) # None
              /\ Len(Append(r, x)) = Len(r) + 1
              /\ Replay(Append(r, x)) = After(Replay(r), x)
PROOF
  <1>1. \A r \in Records : Len(r) \in Nat
    BY DEF Records
  <1>2. <<>> \in Records /\ Len(<<>>) = 0
    BY DEF Records
  <1>3. Rec \in Records
    BY <1>2 DEF TypeInv, Rec
  <1>4. Made = Len(Rec)
    BY <1>2 DEF Made, Rec
  <1>5. ASSUME NEW x \in ToSet(Stmts) \cup {"noop"}, NEW r \in Records
        PROVE  /\ Append(r, x) \in Records /\ Len(Append(r, x)) = Len(r) + 1
               /\ Replay(Append(r, x)) = After(Replay(r), x)
    BY ReplayAppend DEF Records
  <1>6. None \notin Records
    BY DatabaseTypes
  <1>7. Rec' = IF record' = None THEN <<>> ELSE record'
    BY DEF Rec, None
  <1> QED BY <1>1, <1>2, <1>3, <1>4, <1>5, <1>6, <1>7

(* Only the statements of generate_database() are recorded.                 *)
LEMMA RecordMoves ==
  ASSUME TypeInv, ProgInv, RecordInv, Operation
  PROVE  \/ record' = record
         \/ /\ phase \in {"ddl", "dml"} /\ Len(prog) = 2 /\ Len(prog') = 1 /\ task' = task
            /\ prog[1].do = "insert" /\ prog[1].stmt = Stmts[Made + 1] /\ Made < Len(Stmts)
            /\ \E x \in ToSet(Stmts) \cup {"noop"} :
                 /\ record' = Append(Rec, x)
                 /\ db' = After(db, x)
PROOF
  <1> DEFINE s == prog[1]
  <1>1. /\ prog # <<>> /\ Len(prog) \in Nat /\ Len(prog) >= 1
        /\ Len(prog) > 1 => s.do \in Ops(phase)
    BY Moves, AtStep
  <1> SUFFICES ASSUME record' # record
               PROVE  /\ phase \in {"ddl", "dml"} /\ Len(prog) = 2 /\ Len(prog') = 1 /\ task' = task
                      /\ prog[1].do = "insert" /\ prog[1].stmt = Stmts[Made + 1] /\ Made < Len(Stmts)
                      /\ \E x \in ToSet(Stmts) \cup {"noop"} :
                           /\ record' = Append(Rec, x)
                           /\ db' = After(db, x)
    OBVIOUS
  <1>2. /\ s.do = "insert" /\ Goes(<<>>, 2) /\ task' = task
        /\ \/ record' = Append(Rec, s.stmt) /\ db' = Database(s)
           \/ record' = Append(Rec, "noop") /\ db' = db
    <2>1. Does \/ Counts
      BY Moves DEF Stops, Returns, Cuts, Passes, Creates, Unfolds
    <2> QED BY <2>1 DEF Does, Counts
  <1>3. Len(prog) > 1 /\ Len(prog') = 0 + (Len(prog) - 2 + 1)
    <2>1. Len(<<>>) = 0
      OBVIOUS
    <2> QED BY <1>2, <2>1 DEF Goes
  <1> HIDE DEF s
  <1>4. phase \in {"ddl", "dml"}
    BY <1>1, <1>2, <1>3 DEF Ops, Resets, Restores, Opens, Drops, Reads
  <1>5. 1 = Len(prog) - 1 /\ s.stmt = Stmts[Made + 1] /\ Made < Len(Stmts)
    <2>1. 1 \in 1..Len(prog)
      BY <1>3
    <2> QED BY <1>2, <1>3, <1>4, <2>1 DEF RecordInv, s
  <1>6. s.stmt \in ToSet(Stmts)
    <2>1. Stmts \in Seq(ToSet(Stmts)) /\ Made \in Nat /\ Len(Stmts) \in Nat
      BY NamesAssumption, RecordTypes
    <2>2. Made + 1 \in 1..Len(Stmts)
      BY <1>5, <2>1
    <2> QED BY <1>5, <2>1, <2>2
  <1>7. Len(prog) = 2 /\ Len(prog') = 1
    <2> DEFINE n == Len(prog)
    <2>1. n \in Nat /\ 1 = n - 1 /\ Len(prog') = 0 + (n - 2 + 1)
      BY <1>1, <1>3, <1>5
    <2> HIDE DEF n
    <2>2. n = 2 /\ Len(prog') = 1
      BY <2>1
    <2> QED BY <2>2 DEF n
  <1>8. \E x \in ToSet(Stmts) \cup {"noop"} : record' = Append(Rec, x) /\ db' = After(db, x)
    <2>1. CASE record' = Append(Rec, s.stmt) /\ db' = Database(s)
      <3>1. Database(s) = After(db, s.stmt)
        BY <1>2 DEF Database
      <3> QED BY <1>6, <2>1, <3>1
    <2>2. CASE record' = Append(Rec, "noop") /\ db' = db
      <3>1. After(db, "noop") = db
        BY DEF After
      <3> QED BY <2>2, <3>1
    <2> QED BY <1>2, <2>1, <2>2
  <1> QED BY <1>2, <1>4, <1>5, <1>7, <1>8 DEF s

(* While the database is generated nothing but a statement changes it.      *)
LEMMA GeneratingKeepsDb ==
  ASSUME TypeInv, ProgInv, MakerInv, Operation, phase \in Generating \cup {"m_backup"},
         prog[1].do # "insert"
  PROVE  db' = db
PROOF
  <1> DEFINE s == prog[1]
  <1>1. db # Absent /\ prog # <<>> /\ (Len(prog) > 1 => s.do \in Ops(phase))
    BY Moves, AtStep DEF MakerInv
  <1> HIDE DEF s
  <1>2. CASE Does
    <2>1. s.do \in Ops(phase) /\ db' = Database(s) /\ Serves(s)
      BY <1>1, <1>2 DEF Does, Goes, s
    <2>2. s.do \in Opens \cup Reads \cup {"dump", "copy_record"}
      BY <2>1, <1>1 DEF Generating, Ops, s
    <2>3. s.do # "create"
      <3> SUFFICES ASSUME s.do = "create" PROVE FALSE
        OBVIOUS
      <3>1. ~Serves(s)
        BY <1>1 DEF Serves, OfFiles, OfHandle, OwnConnection
      <3> QED BY <2>1, <3>1
    <2> QED BY <1>1, <2>1, <2>2, <2>3 DEF Database, MissingIsCreated, Opens, Reads
  <1>3. CASE ~Does
    BY <1>3, Moves DEF Stops, Returns, Cuts, Passes, Creates, Unfolds, Counts
  <1> QED BY <1>2, <1>3

(* A step keeps RecordInv: what was done is recorded, no more and no less. *)
LEMMA OperationRecord ==
  ASSUME TypeInv, ProgInv, MakerInv, RecordInv, Operation PROVE RecordInv'
PROOF
  <1>1. /\ prog # <<>> /\ driver' = driver /\ driver \in Drivers /\ phase' = phase
        /\ task = TaskOf(phase)
    BY Moves, AtStep
  <1>2. CASE record' = record
    <2>1. Made' = Made /\ Rec' = Rec
      BY <1>2 DEF Made, Rec, None
    <2>2. phase = "reset" => record' = None
      BY <1>2 DEF RecordInv
    <2>3. ASSUME phase \in {"ddl", "dml"}, Len(prog') > 1 \/ task' = "failed"
          PROVE  Made < Len(Stmts)
      <3>1. Len(prog) > 1
        <4>1. CASE Stops
          BY <4>1 DEF Stops
        <4>2. CASE Returns
          <5>1. Len(prog') = 0 /\ task' = "none"
            BY <4>2 DEF Returns
          <5> QED BY <2>3, <5>1
        <4>3. CASE Cuts
          BY <4>3 DEF Cuts
        <4>4. CASE \E q, m : Goes(q, m)
          BY <4>4, GoesShift
        <4> QED BY <4>1, <4>2, <4>3, <4>4, Moves
      <3> QED BY <2>3, <3>1 DEF RecordInv
    <2>4. ASSUME phase \in {"ddl", "dml"}, NEW k \in 1..Len(prog'), prog'[k].do = "insert"
          PROVE  k = Len(prog') - 1 /\ prog'[k].stmt = Stmts[Made + 1]
      <3>1. prog' # <<>> /\ Len(prog') \in Nat
        <4>1. ProgInv'
          BY OperationProg
        <4> QED BY <2>4, <4>1 DEF ProgInv
      <3>2. CASE Cuts
        <4>1. prog[1].do = "if_backup" /\ prog[1].do \in Ops(phase)
          BY <1>1, <3>2, AtStep DEF Cuts
        <4> QED BY <2>4, <4>1 DEF Ops, Opens, Reads
      <3>3. CASE \E q, m : Goes(q, m) /\ Inserted(q) /\ m \in 2..Len(prog)
        <4> PICK q, m : Goes(q, m) /\ Inserted(q) /\ m \in 2..Len(prog)
          BY <3>3
        <4>1. \/ k \in 1..Len(q) /\ prog'[k] = q[k]
              \/ \E i \in m..Len(prog) : prog'[k] = prog[i] /\ Len(prog') - k = Len(prog) - i
          BY GoesShift
        <4>2. \A j \in 1..Len(q) : q[j].do # "insert"
          <5>1. \A j \in 1..Len(q) : q[j].do \in Opens \cup {"apply", "load"}
            BY <1>1, InsertedIs
          <5> QED BY <5>1 DEF Opens
        <4>3. PICK i \in m..Len(prog) : prog'[k] = prog[i] /\ Len(prog') - k = Len(prog) - i
          BY <2>4, <4>1, <4>2
        <4>4. i \in 1..Len(prog) /\ Len(prog) \in Nat
          BY <4>3, GoesShift
        <4>5. i = Len(prog) - 1 /\ prog[i].stmt = Stmts[Made + 1]
          BY <2>4, <4>3, <4>4 DEF RecordInv
        <4> QED BY <3>1, <4>3, <4>4, <4>5
      <3> QED BY <3>1, <3>2, <3>3, Moves DEF Stops, Returns
    <2>5. ASSUME phase \in Generating, driver # "gaussdb" PROVE db' = Replay(Rec)
      <3>1. CASE prog[1].do = "insert"
        <4>1. db' = db \/ (Does /\ prog[1].do = "insert")
          BY <3>1, Moves DEF Stops, Returns, Cuts, Passes, Creates, Unfolds, Counts
        <4>2. ~Does
          <5> SUFFICES ASSUME Does PROVE FALSE
            OBVIOUS
          <5>1. record' = Append(Rec, prog[1].stmt)
            BY <3>1 DEF Does
          <5>2. prog[1].stmt \in ToSet(Stmts)
            <6>1. Len(prog) > 1 /\ phase \in {"ddl", "dml"}
              <7>1. Len(prog) > 1
                BY DEF Does, Goes
              <7>2. "insert" \in Ops(phase)
                BY <1>1, <3>1, <7>1, AtStep
              <7> QED BY <2>5, <7>1, <7>2 DEF Generating, Ops, Opens, Reads
            <6>2. prog[1].stmt = Stmts[Made + 1] /\ Made < Len(Stmts)
              BY <3>1, <6>1 DEF RecordInv
            <6>3. Stmts \in Seq(ToSet(Stmts)) /\ Made \in Nat /\ Len(Stmts) \in Nat
              BY NamesAssumption, RecordTypes
            <6>4. Made + 1 \in 1..Len(Stmts)
              BY <6>2, <6>3
            <6> QED BY <6>2, <6>3, <6>4
          <5>3. record' # None /\ Len(record') = Len(Rec) + 1
            BY <5>1, <5>2, RecordTypes
          <5>4. Rec = record
            BY <1>2, <5>3 DEF Rec
          <5> QED BY <1>2, <5>3, <5>4, RecordTypes
        <4> QED BY <2>5, <4>1, <4>2 DEF RecordInv
      <3>2. CASE prog[1].do # "insert"
        BY <2>5, <3>2, GeneratingKeepsDb DEF RecordInv
      <3> QED BY <3>1, <3>2
    <2> QED BY <1>1, <1>2, <2>1, <2>2, <2>3, <2>4, <2>5 DEF RecordInv
  <1>3. CASE record' # record
    <2>1. /\ phase \in {"ddl", "dml"} /\ Len(prog') = 1 /\ task' = task /\ Made < Len(Stmts)
          /\ \E x \in ToSet(Stmts) \cup {"noop"} : record' = Append(Rec, x) /\ db' = After(db, x)
      BY <1>3, RecordMoves
    <2> PICK x \in ToSet(Stmts) \cup {"noop"} : record' = Append(Rec, x) /\ db' = After(db, x)
      BY <2>1
    <2>2. Rec' = record' /\ Made' = Made + 1 /\ Made \in Nat /\ Replay(record') = After(Replay(Rec), x)
      <3>1. Len(record') = Len(Rec) + 1 /\ record' # None /\ Replay(record') = After(Replay(Rec), x)
        BY RecordTypes
      <3>2. Made' = Len(record')
        BY <3>1 DEF Made, None
      <3> QED BY <3>1, <3>2, RecordTypes
    <2>3. phase \in Generating /\ driver # "gaussdb" => db' = Replay(record')
      BY <2>2 DEF RecordInv
    <2>4. Made' <= Len(Stmts)
      <3>1. Len(Stmts) \in Nat
        BY NamesAssumption
      <3> QED BY <2>1, <2>2, <3>1
    <2>5. task' # "failed" /\ ~(Len(prog') > 1)
      BY <1>1, <2>1 DEF TaskOf
    <2>6. \A k \in 1..Len(prog') : prog'[k].do # "insert"
      <3>1. ProgInv' /\ prog' # <<>>
        <4>1. Len(prog') = 1
          BY <2>1
        <4>2. prog' # <<>>
          BY <4>1
        <4> QED BY <4>2, OperationProg
      <3>2. prog'[1].do = "return"
        BY <2>1, <3>1 DEF ProgInv
      <3>3. \A k \in 1..Len(prog') : k = 1
        BY <2>1
      <3> QED BY <3>2, <3>3
    <2>7. phase' \notin {"reset", "schema", "backup"} \cup Saved
      BY <1>1, <2>1 DEF Saved
    <2> QED BY <1>1, <2>1, <2>2, <2>3, <2>4, <2>5, <2>6, <2>7 DEF RecordInv
  <1> QED BY <1>2, <1>3

(* What a step does to what the backup stands for.                          *)
LEMMA BaseMoves ==
  ASSUME TypeInv, ProgInv, MakerInv, Operation
  PROVE  /\ \/ base' = base
            \/ /\ Returns /\ task = "save" /\ db # Absent /\ base' = db
               /\ driver \in Dumping \/ base = None
            \/ Stops /\ task = "save" /\ driver \in Dumping /\ base' = None
         /\ task = "save" /\ Returns => base' # None /\ (driver \in Dumping => base' = db)
         /\ task = "save" /\ Stops /\ driver \in Dumping => base' = None
         /\ task' = "none" => Returns
         /\ task = "save" <=> phase \in {"backup", "m_backup"}
         /\ task' # task => Stops \/ Returns
         /\ removed' = removed /\ queue' = queue
PROOF
  <1>1. /\ prog # <<>> /\ task = TaskOf(phase) /\ exn = "none" /\ removed' = removed /\ queue' = queue
        /\ base' = IF prog' = <<>> /\ task = "save"
                     THEN CASE exn' # "none" -> IF driver \in Dumping THEN None ELSE base
                            [] exn' = "none" /\ (driver \in Dumping \/ base = None) -> db
                            [] OTHER -> base
                     ELSE base
    BY Moves, AtStep DEF Operation
  <1>2. task # "none" /\ (task = "save" <=> phase \in {"backup", "m_backup"})
    BY <1>1 DEF TaskOf
  <1>3. Returns => exn' = "none" /\ db # Absent /\ db # None /\ prog' = <<>>
    <2> SUFFICES ASSUME Returns PROVE exn' = "none" /\ db # Absent /\ db # None /\ prog' = <<>>
      OBVIOUS
    <2>1. db # Absent
      BY <1>1, NeedsDb DEF Returns, Needs
    <2> QED BY <1>1, <2>1, DatabaseTypes DEF Returns, TypeInv
  <1>4. Stops => exn' # "none" /\ prog' = <<>>
    BY DEF Stops
  <1>5. \/ Stops \/ Returns
        \/ prog' # <<>> /\ task' = task
    <2>1. CASE Cuts
      BY <2>1 DEF Cuts
    <2>2. CASE \E q, m : Goes(q, m) /\ task' = task
      <3> PICK q, m : Goes(q, m) /\ task' = task
        BY <2>2
      <3>1. Len(q) \in Nat /\ m \in 2..Len(prog) /\ Len(prog) \in Nat /\ Len(prog') = Len(q) + (Len(prog) - m + 1)
        BY DEF Goes
      <3>2. Len(prog') > 0
        BY <3>1
      <3> QED BY <3>2
    <2> QED BY <2>1, <2>2, Moves
  <1>6. ~(Stops /\ Returns)
    BY DEF Stops, Returns
  <1>7. Returns /\ task = "save" => base' = IF driver \in Dumping \/ base = None THEN db ELSE base
    BY <1>1, <1>3
  <1>8. Stops /\ task = "save" => base' = IF driver \in Dumping THEN None ELSE base
    BY <1>1, <1>4
  <1>9. ~(prog' = <<>> /\ task = "save") => base' = base
    BY <1>1
  <1>10. task' = "none" => Returns
    BY <1>2, <1>5 DEF Stops
  <1> QED BY <1>1, <1>2, <1>3, <1>5, <1>7, <1>8, <1>9, <1>10

(* A step keeps BaseInv: the record makes what backup() stands for.        *)
LEMMA OperationBase ==
  ASSUME TypeInv, ProgInv, MakerInv, RecordInv, BaseInv, Operation PROVE BaseInv'
PROOF
  <1>1. /\ driver' = driver /\ phase' = phase /\ child' = child /\ removed' = removed /\ queue' = queue
        /\ None # Absent /\ prog # <<>> /\ task = TaskOf(phase)
    BY Moves, BaseMoves, DatabaseTypes, AtStep
  <1>2. base' # Absent
    BY <1>1, BaseMoves DEF BaseInv
  <1>3. phase \in {"reset", "ddl", "dml", "schema"} => base' = None
    BY BaseMoves DEF BaseInv
  <1>4. phase = "backup" /\ task' # "none" => base' = None
    <2> SUFFICES ASSUME phase = "backup", task' # "none" PROVE base' = None
      OBVIOUS
    <2>1. base = None
      BY <1>1 DEF BaseInv, TaskOf
    <2>2. ~Returns
      BY DEF Returns
    <2> QED BY <2>1, <2>2, BaseMoves
  <1>5. phase \in {"backup", "m_backup"} /\ task' = "none" => base' # None
    BY BaseMoves
  <1>6. phase \in {"testing", "restore", "run"} => base' # None
    BY BaseMoves DEF BaseInv
  <1>7. phase \in Saved /\ driver \notin Dumping => base' # None
    BY <1>1, BaseMoves, DatabaseTypes DEF BaseInv, TypeInv
  <1>8. ASSUME phase \notin {"none", "boot"}, base' # None, driver # "gaussdb",
               removed = 0 \/ driver \notin Dumping
        PROVE  Replay(record') = base'
    <2>1. CASE base' = base
      <3>1. phase \notin {"ddl", "dml"}
        BY <1>8, <2>1 DEF BaseInv
      <3>2. record' = record
        BY <3>1, RecordMoves
      <3> QED BY <1>8, <2>1, <3>2 DEF BaseInv
    <2>2. CASE base' # base
      <3>1. Returns /\ phase \in {"backup", "m_backup"} /\ base' = db /\ (driver \in Dumping \/ base = None)
        BY <1>8, <2>2, BaseMoves
      <3>2. phase = "backup"
        <4> SUFFICES ASSUME phase = "m_backup" PROVE FALSE
          BY <3>1
        <4>1. removed > 0 /\ driver \notin Dumping
          BY <1>8 DEF BaseInv
        <4>2. base # None
          BY <4>1 DEF BaseInv, Saved
        <4> QED BY <3>1, <4>1, <4>2
      <3>3. db = Replay(Rec)
        BY <1>8, <3>2 DEF RecordInv, Generating
      <3>4. Made > 0
        BY <3>2 DEF RecordInv
      <3>5. Rec = record
        BY <3>4 DEF Made, Rec
      <3>6. record' = record
        BY <3>1 DEF Returns
      <3> QED BY <3>1, <3>3, <3>5, <3>6
    <2> QED BY <2>1, <2>2
  <1>9. /\ phase \in {"m_reset", "m_feed", "m_backup"} => removed > 0
        /\ phase \in {"boot", "reset", "testing"} \cup Generating => removed = 0
        /\ child = "running" => removed <= Len(queue)
    BY DEF BaseInv
  <1> QED BY <1>1, <1>2, <1>3, <1>4, <1>5, <1>6, <1>7, <1>8, <1>9 DEF BaseInv, None, Absent

(* A step stays where it was, told from the end.                            *)
LEMMA StaysPut ==
  ASSUME TypeInv, ProgInv, Operation, prog' # <<>>, ~Cuts
  PROVE  /\ Len(prog) \in Nat /\ Len(prog) > 1 /\ Len(prog') \in Nat /\ task' = task /\ exn' = exn
         /\ \A k \in 1..Len(prog') :
              \/ prog'[k].do \in Opens
              \/ prog'[k].do \in {"apply", "load"} /\ prog[1].do \in {"replay_record", "replay_backup"}
              \/ \E i \in 2..Len(prog) : prog'[k] = prog[i] /\ Len(prog') - k = Len(prog) - i
         /\ \A i \in 2..Len(prog) : prog[i].do # "load" =>
              \E k \in 1..Len(prog') : prog'[k] = prog[i] /\ Len(prog') - k = Len(prog) - i
PROOF
  <1>1. PICK q, m : Goes(q, m) /\ Inserted(q) /\ task' = task /\ exn' = exn /\ m \in 2..Len(prog)
    BY Moves DEF Stops, Returns
  <1>2. prog # <<>>
    BY Moves
  <1>3. /\ \A k \in 1..Len(q) : q[k].do \in Opens \cup {"apply", "load"}
        /\ prog[1].do \notin {"replay_record", "replay_backup"} => \A k \in 1..Len(q) : q[k].do \in Opens
    BY <1>1, <1>2, InsertedIs
  <1>4. /\ Len(prog) \in Nat /\ Len(prog) > 1 /\ Len(prog') \in Nat
        /\ \A k \in 1..Len(prog') :
             \/ k \in 1..Len(q) /\ prog'[k] = q[k]
             \/ \E i \in m..Len(prog) : prog'[k] = prog[i] /\ Len(prog') - k = Len(prog) - i
        /\ \A i \in 2..Len(prog) : prog[i].do # "load" =>
             \E k \in 1..Len(prog') : prog'[k] = prog[i] /\ Len(prog') - k = Len(prog) - i
    BY <1>1, GoesShift
  <1>5. \A i \in m..Len(prog) : i \in 2..Len(prog)
    BY <1>1, <1>4
  <1> QED BY <1>1, <1>3, <1>4, <1>5

(* A step keeps CopyInv: the backup file of sqlite.                        *)
LEMMA OperationCopy ==
  ASSUME TypeInv, ProgInv, MakerInv, BaseInv, CopyInv, Operation PROVE CopyInv'
PROOF
  <1> SUFFICES ASSUME driver = "sqlite"
               PROVE  /\ task' # "save" /\ base' # None => backup' = base'
                      /\ task' = "save" => backup' = db' \/ \E k \in 1..Len(prog') : prog'[k].do = "dump"
                      /\ phase = "restore" /\ prog' # <<>> =>
                           \/ Len(prog') = 1 /\ db' = base'
                           \/ \E k \in 1..Len(prog') : prog'[k].do = "copy_back"
                      /\ \A k \in 1..Len(prog') : prog'[k].do \in {"dump", "copy_back"} => k = Len(prog') - 1
    BY Moves DEF CopyInv, None
  <1> DEFINE s == prog[1]
  <1>1. /\ prog # <<>> /\ Len(prog) \in Nat /\ Len(prog) >= 1 /\ task = TaskOf(phase) /\ StepOk(s)
        /\ Len(prog) = 1 => s.do = "return"
        /\ Len(prog) > 1 => s.do \in Ops(phase)
    BY Moves, AtStep
  <1>2. driver \in Dumping /\ driver \notin Forgiving \cup Recorded
    BY DEF Dumping, Forgiving, Recorded
  <1>3. s.do # "if_backup" /\ s.do # "copy_record" /\ ~Cuts
    BY <1>1, <1>2 DEF StepOk, Sound, Cuts
  <1>4. s.do = "dump" => task = "save"
    BY <1>1 DEF Ops, Resets, Restores, Opens, Drops, Reads, TaskOf
  <1>5. s.do \in {"dump", "copy_back"} => s.err = "plain"
    BY <1>1 DEF StepOk, Sound
  <1>6. /\ s.do \notin {"dump", "copy_record"} => backup' = backup
        /\ prog' # <<>> /\ s.do = "dump" => backup' = db
        /\ prog' # <<>> /\ s.do = "copy_back" => db' = (IF backup = None THEN <<>> ELSE backup) /\ backup' = backup
    <2>1. s.do \notin {"dump", "copy_record"} => backup' = backup
      BY Moves DEF Stops, Returns, Cuts, Passes, Creates, Unfolds, Counts, Does
    <2>2. ASSUME prog' # <<>>, s.do \in {"dump", "copy_back"} PROVE Does
      BY <1>5, <2>2, Moves DEF Stops, Returns, Cuts, Passes, Creates, Unfolds, Counts
    <2>3. ASSUME s.do = "copy_back" PROVE Database(s) = IF backup = None THEN <<>> ELSE backup
      BY <2>3 DEF Database
    <2> QED BY <2>1, <2>2, <2>3 DEF Does
  <1>7. /\ task # "save" /\ base # None => backup = base
        /\ task = "save" => backup = db \/ \E k \in 1..Len(prog) : prog[k].do = "dump"
        /\ phase = "restore" /\ prog # <<>> =>
             \/ Len(prog) = 1 /\ db = base
             \/ \E k \in 1..Len(prog) : prog[k].do = "copy_back"
        /\ \A k \in 1..Len(prog) : prog[k].do \in {"dump", "copy_back"} => k = Len(prog) - 1
    BY DEF CopyInv
  <1> HIDE DEF s
  <1>8. ASSUME task' # "save", base' # None PROVE backup' = base'
    <2>1. CASE task = "save"
      <3>1. Returns
        BY <1>2, <1>8, <2>1, BaseMoves
      <3>2. base' = db /\ backup' = backup
        BY <1>2, <2>1, <3>1, BaseMoves DEF Returns
      <3>3. \A k \in 1..Len(prog) : prog[k].do # "dump"
        BY <3>1 DEF Returns
      <3> QED BY <1>7, <2>1, <3>2, <3>3
    <2>2. CASE task # "save"
      BY <1>3, <1>4, <1>6, <1>7, <1>8, <2>2, BaseMoves
    <2> QED BY <2>1, <2>2
  <1>9. ASSUME task' = "save"
        PROVE  backup' = db' \/ \E k \in 1..Len(prog') : prog'[k].do = "dump"
    <2>1. task = "save" /\ prog' # <<>> /\ phase \in {"backup", "m_backup"}
      <3>1. task = "save" /\ ~Stops /\ ~Returns
        BY <1>9, BaseMoves DEF Stops, Returns
      <3>2. prog' # <<>>
        <4>1. ProgInv'
          BY OperationProg
        <4> QED BY <1>9, <4>1 DEF ProgInv
      <3> QED BY <3>1, <3>2, BaseMoves
    <2>2. s.do # "insert"
      <3>1. Ops(phase) = Opens \cup {"dump", "copy_record"}
        BY <2>1 DEF Ops
      <3>2. "insert" \notin Opens \cup {"dump", "copy_record"}
        BY DEF Opens
      <3>3. Len(prog) = 1 \/ Len(prog) > 1
        BY <1>1
      <3>4. s.do = "return" \/ s.do \in Ops(phase)
        BY <1>1, <3>3
      <3> QED BY <3>1, <3>2, <3>4
    <2>3. db' = db
      BY <2>1, <2>2, GeneratingKeepsDb DEF Generating, s
    <2>4. CASE s.do = "dump"
      BY <1>6, <2>1, <2>3, <2>4
    <2>5. CASE s.do # "dump" /\ backup = db
      BY <1>3, <1>6, <2>3, <2>5
    <2>6. CASE s.do # "dump" /\ \E k \in 1..Len(prog) : prog[k].do = "dump"
      <3> PICK k \in 1..Len(prog) : prog[k].do = "dump"
        BY <2>6
      <3>1. k # 1
        BY <2>6 DEF s
      <3>2. k \in 2..Len(prog)
        BY <1>1, <3>1
      <3>3. \E j \in 1..Len(prog') : prog'[j] = prog[k]
        BY <1>3, <2>1, <3>2, StaysPut
      <3> QED BY <3>3
    <2> QED BY <1>7, <2>1, <2>4, <2>5, <2>6
  <1>10. ASSUME phase = "restore", prog' # <<>>
         PROVE  \/ Len(prog') = 1 /\ db' = base'
                \/ \E k \in 1..Len(prog') : prog'[k].do = "copy_back"
    <2>1. Len(prog) > 1
      BY <1>3, <1>10, StaysPut
    <2>2. PICK k \in 1..Len(prog) : prog[k].do = "copy_back"
      BY <1>1, <1>7, <1>10, <2>1
    <2>3. CASE k = 1
      <3>1. s.do = "copy_back" /\ 1 = Len(prog) - 1
        BY <1>7, <2>2, <2>3 DEF s
      <3>2. task # "save" /\ base # None /\ base' = base
        BY <1>1, <1>10, BaseMoves DEF BaseInv, TaskOf
      <3>3. db' = base'
        BY <1>6, <1>7, <1>10, <3>1, <3>2
      <3>4. Len(prog') = 1
        <4>1. Does
          BY <1>5, <1>10, <3>1, Moves DEF Stops, Returns, Cuts, Passes, Creates, Unfolds, Counts, s
        <4>2. Len(prog') = 0 + (Len(prog) - 2 + 1)
          <5>1. Len(<<>>) = 0
            OBVIOUS
          <5> QED BY <4>1, <5>1 DEF Does, Goes
        <4> DEFINE n == Len(prog)
        <4>3. n \in Nat /\ 1 = n - 1 /\ Len(prog') = 0 + (n - 2 + 1)
          BY <1>1, <3>1, <4>2
        <4> HIDE DEF n
        <4> QED BY <4>3
      <3> QED BY <3>3, <3>4
    <2>4. CASE k # 1
      <3>1. k \in 2..Len(prog)
        BY <1>1, <2>2, <2>4
      <3>2. \E j \in 1..Len(prog') : prog'[j] = prog[k]
        BY <1>3, <1>10, <2>2, <3>1, StaysPut
      <3> QED BY <2>2, <3>2
    <2> QED BY <2>3, <2>4
  <1>11. ASSUME NEW k \in 1..Len(prog'), prog'[k].do \in {"dump", "copy_back"}
         PROVE  k = Len(prog') - 1
    <2>1. prog' # <<>>
      OBVIOUS
    <2>2. PICK i \in 2..Len(prog) : prog'[k] = prog[i] /\ Len(prog') - k = Len(prog) - i
      BY <1>3, <1>11, <2>1, StaysPut DEF Opens
    <2>3. i \in 1..Len(prog)
      BY <1>1, <2>2
    <2>4. i = Len(prog) - 1
      BY <1>7, <1>11, <2>2, <2>3
    <2>5. Len(prog') \in Nat
      BY <1>3, <2>1, StaysPut
    <2> QED BY <1>1, <2>2, <2>4, <2>5
  <1> QED BY <1>8, <1>9, <1>10, <1>11

(* A step keeps CatalogInv: a catalog is flagged when its rows are there.  *)
LEMMA OperationCatalog ==
  ASSUME TypeInv, ProgInv, CatalogInv, Operation PROVE CatalogInv'
PROOF
  <1> DEFINE s == prog[1]
  <1>1. /\ prog # <<>> /\ Len(prog) \in Nat /\ Len(prog) >= 1 /\ StepOk(s)
        /\ Len(prog) > 1 => s.do \in Ops(phase)
        /\ phase' = phase /\ test' = test /\ driver' = driver /\ driver \in Drivers
    BY Moves, AtStep DEF Operation
  <1>2. Catalogs' = Catalogs /\ Catalogs \subseteq Reads
    BY <1>1, CatalogsRead DEF Catalogs
  <1>3. /\ cache.has = cache.read /\ cache.has \subseteq Catalogs
        /\ phase = "testing" =>
             \A c \in Catalogs : c \in cache.has \/ \E k \in 1..Len(prog) : prog[k].do = c /\ prog[k].stmt = "cached"
        /\ test.kind # "none" => Catalogs \subseteq cache.has
        /\ phase \in {"restore", "run", "m_reset", "m_feed", "m_backup"} => test.kind # "none"
    BY <1>1 DEF CatalogInv
  <1> HIDE DEF s
  <1>4. cache' = cache \/ (Does /\ cache' = Cache(s, TRUE))
    <2>1. Stops => cache' = cache
      BY DEF Stops
    <2>2. Returns => cache' = cache
      BY DEF Returns
    <2>3. Cuts => cache' = cache
      BY DEF Cuts
    <2>4. ASSUME NEW m, Passes(m) PROVE cache' = cache
      BY <2>4 DEF Passes
    <2>5. Creates => cache' = cache
      BY DEF Creates
    <2>6. Unfolds => cache' = cache
      BY DEF Unfolds
    <2>7. Counts => cache' = cache
      BY DEF Counts
    <2>8. Does => cache' = Cache(s, TRUE)
      BY DEF Does, s
    <2>9. Stops \/ Returns \/ Cuts \/ Does \/ Counts \/ Creates \/ Unfolds \/ \E m : Passes(m)
      BY Moves, Zenon
    <2> QED BY <2>1, <2>2, <2>3, <2>4, <2>5, <2>6, <2>7, <2>8, <2>9, Zenon
  <1>5. /\ cache'.has = cache'.read /\ cache'.has \subseteq Catalogs /\ cache.has \subseteq cache'.has
        /\ Does /\ s.stmt = "cached" => s.do \in cache'.has
    <2>1. CASE s.stmt = "cached"
      <3>1. s.do \in Catalogs
        BY <1>1, <2>1 DEF StepOk, Sound, Catalogs
      <3>2. cache' = cache \/ cache' = [has |-> cache.has \cup {s.do}, read |-> cache.read \cup {s.do}]
        BY <1>4, <2>1 DEF Cache
      <3>3. Does => cache' = [has |-> cache.has \cup {s.do}, read |-> cache.read \cup {s.do}]
        BY <2>1 DEF Does, Cache, s
      <3>4. CASE cache' = cache
        <4>1. Does => s.do \in cache'.has
          BY <3>3
        <4>2. cache'.has = cache.has /\ cache'.read = cache.read
          BY <3>4
        <4> QED BY <1>3, <4>1, <4>2
      <3>5. CASE cache' = [has |-> cache.has \cup {s.do}, read |-> cache.read \cup {s.do}]
        <4>1. cache'.has = cache.has \cup {s.do} /\ cache'.read = cache.read \cup {s.do}
          BY <3>5
        <4> QED BY <1>3, <3>1, <4>1
      <3> QED BY <3>2, <3>4, <3>5
    <2>2. CASE s.stmt # "cached"
      <3>1. cache' = cache
        BY <1>4, <2>2 DEF Cache
      <3> QED BY <1>3, <2>2, <3>1
    <2> QED BY <2>1, <2>2
  <1>6. ASSUME phase = "testing", prog' # <<>>, NEW c \in Catalogs, c \notin cache'.has
        PROVE  \E k \in 1..Len(prog') : prog'[k].do = c /\ prog'[k].stmt = "cached"
    <2>1. PICK k \in 1..Len(prog) : prog[k].do = c /\ prog[k].stmt = "cached"
      BY <1>3, <1>5, <1>6
    <2>2. ~Cuts
      <3>1. "if_backup" \notin Ops(phase)
        BY <1>6 DEF Ops, Opens, Reads
      <3> QED BY <1>1, <3>1 DEF Cuts, s
    <2>3. CASE k = 1
      <3>1. s.do = c /\ s.stmt = "cached" /\ s.err = "schema" /\ c \in Reads
        BY <1>1, <1>2, <2>1, <2>3 DEF StepOk, Sound, s
      <3>2. Does
        BY <1>6, <2>2, <3>1, Moves DEF Stops, Returns, Passes, Creates, Unfolds, Counts, Reads, s
      <3> QED BY <1>5, <1>6, <3>1, <3>2
    <2>4. CASE k # 1
      <3>1. k \in 2..Len(prog) /\ prog[k].do # "load"
        BY <1>1, <1>2, <2>1, <2>4 DEF Reads
      <3>2. \E j \in 1..Len(prog') : prog'[j] = prog[k]
        BY <1>6, <2>2, <3>1, StaysPut
      <3> QED BY <2>1, <3>2
    <2> QED BY <2>3, <2>4
  <1>7. ASSUME phase = "testing", prog' = <<>>, exn' = "none" PROVE Catalogs \subseteq cache'.has
    <2>1. Returns
      <3>1. ~Cuts /\ ~(\E q, m : Goes(q, m))
        <4>1. CASE Cuts
          BY <1>7, <4>1 DEF Cuts
        <4>2. ASSUME NEW q, NEW m, Goes(q, m) PROVE FALSE
          <5>1. Len(q) \in Nat /\ m \in 2..Len(prog) /\ Len(prog) \in Nat /\ Len(prog') = Len(q) + (Len(prog) - m + 1)
            BY <4>2 DEF Goes
          <5>2. Len(prog') > 0
            BY <5>1
          <5> QED BY <1>7, <5>2
        <4> QED BY <1>7, <4>2 DEF Cuts
      <3> QED BY <1>7, <3>1, Moves DEF Stops
    <2>2. \A k \in 1..Len(prog) : prog[k].do \notin Catalogs
      BY <1>2, <2>1 DEF Returns, Reads
    <2> QED BY <1>3, <1>5, <1>7, <2>2
  <1>8. test'.kind # "none" => Catalogs \subseteq cache'.has
    BY <1>1, <1>3, <1>5
  <1> QED BY <1>1, <1>2, <1>3, <1>5, <1>6, <1>7, <1>8 DEF CatalogInv

(* A step keeps the types of the variables.                                *)
LEMMA OperationType ==
  ASSUME TypeInv, ProgInv, MakerInv, RecordInv, Operation PROVE TypeInv'
PROOF
  <1> DEFINE s == prog[1]
  <1>1. /\ prog # <<>> /\ Len(prog) \in Nat /\ Len(prog) >= 1 /\ StepOk(s)
        /\ Len(prog) > 1 => s.do \in Ops(phase)
        /\ task = TaskOf(phase) /\ exn = "none"
    BY Moves, AtStep
  <1>2. UNCHANGED <<parent, child, pipe, phase, tests, removed, queue, try_time, leaked_tries, test, driver, up>>
    BY Moves DEF Operation, Stops, Returns, Cuts, Passes, Creates, Unfolds, Counts, Does
  <1>3. faults' \in 0..MaxFaults
    BY Moves DEF TypeInv, Stops, Returns, Cuts, Passes, Creates, Unfolds, Counts, Does
  <1>4. exn' \in {"none", "plain", "fatal", "expected", "abort"} /\ task' \in {"none", "run", "save", "restore", "failed"}
    <2>1. exn' = exn \/ exn' \in {"plain", "fatal", "expected", "abort"}
      BY Moves DEF Stops, Returns, Cuts
    <2>2. task' = task \/ task' \in {"none", "failed"}
      BY Moves DEF Stops, Returns, Cuts
    <2> QED BY <2>1, <2>2 DEF TypeInv
  <1>5. db' \in Databases
    <2>1. CASE Does
      BY <2>1, DoesDb
    <2>2. CASE ~Does
      BY <2>2, Moves DEF TypeInv, Stops, Returns, Cuts, Passes, Creates, Unfolds, Counts
    <2> QED BY <2>1, <2>2
  <1>6. conn' \in {"none", "default", "test", "dead"}
    <2>1. conn' = conn \/ conn' = "dead" \/ conn' = Connection(s)
      BY Moves DEF Stops, Returns, Cuts, Passes, Creates, Unfolds, Counts, Does, Fell
    <2>2. Connection(s) \in {conn, "none", "default", "test"}
      <3> HIDE DEF s
      <3> QED BY DEF Connection
    <2> QED BY <2>1, <2>2 DEF TypeInv
  <1>7. leaked' \in Nat
    <2>1. leaked' = leaked \/ leaked' = leaked + 1 \/ leaked' = Leaked(s)
      BY Moves DEF Stops, Returns, Cuts, Passes, Creates, Unfolds, Counts, Does, Left
    <2>2. Leaked(s) \in {leaked, leaked + 1, 0}
      <3> HIDE DEF s
      <3> QED BY DEF Leaked
    <2>3. leaked \in Nat
      BY DEF TypeInv
    <2> QED BY <2>1, <2>2, <2>3
  <1>8. record' \in Records \cup {None}
    <2>1. CASE record' = record
      BY <2>1 DEF TypeInv
    <2>2. CASE record' # record
      <3>1. \E x \in ToSet(Stmts) \cup {"noop"} : record' = Append(Rec, x)
        BY <2>2, RecordMoves
      <3> QED BY <3>1, RecordTypes
    <2> QED BY <2>1, <2>2
  <1>9. /\ backup' \in Databases \cup Records \cup {None} /\ backup' # Absent
        /\ driver \in Dumping => backup' \in Databases \cup {None}
    <2>1. \/ backup' = backup
          \/ s.do = "dump" /\ backup' \in {<<>>, db}
          \/ s.do = "copy_record" /\ backup' = record /\ Does
      <3>1. CASE Does
        <4>1. backup' = (CASE s.do = "dump" -> db [] s.do = "copy_record" -> record [] OTHER -> backup)
          BY <3>1 DEF Does
        <4> HIDE DEF s
        <4> QED BY <3>1, <4>1
      <3>2. CASE ~Does
        <4>1. backup' = backup \/ (s.do = "dump" /\ backup' = <<>>)
          BY <3>2, Moves DEF Stops, Returns, Cuts, Passes, Creates, Unfolds, Counts
        <4> QED BY <4>1
      <3> QED BY <3>1, <3>2
    <2>2. CASE backup' = backup
      BY <2>2 DEF TypeInv
    <2>3. CASE s.do = "dump" /\ backup' \in {<<>>, db}
      <3>1. phase \in {"backup", "m_backup"}
        <4>1. Len(prog) > 1
          <5>1. Len(prog) # 1
            BY <1>1, <2>3, AtStep
          <5> QED BY <1>1, <5>1
        <4>2. "dump" \in Ops(phase)
          BY <1>1, <2>3, <4>1
        <4> QED BY <4>2 DEF Ops, Resets, Restores, Opens, Drops, Reads
      <3>2. db # Absent /\ db \in Databases
        BY <3>1 DEF MakerInv, Generating, TypeInv
      <3>3. <<>> \in Databases /\ <<>> # Absent
        BY DatabaseTypes
      <3> QED BY <2>3, <3>2, <3>3
    <2>4. CASE s.do = "copy_record" /\ backup' = record
      <3>1. driver \notin Dumping
        BY <1>1, <2>4 DEF StepOk, Sound
      <3>2. record # Absent
        BY DatabaseTypes DEF TypeInv
      <3> QED BY <2>4, <3>1, <3>2 DEF TypeInv
    <2> QED BY <2>1, <2>2, <2>3, <2>4
  <1>10. base' \in Databases \cup {None}
    <2>1. base' \in {base, db, None}
      BY BaseMoves
    <2> QED BY <2>1 DEF TypeInv
  <1> HIDE DEF s
  <1>11. None' = None /\ Absent' = Absent /\ Databases' = Databases /\ Records' = Records
    BY DEF None, Absent, Databases, Records
  <1> QED BY <1>2, <1>3, <1>4, <1>5, <1>6, <1>7, <1>8, <1>9, <1>10, <1>11 DEF TypeInv

(* A driver that replays the record.                                        *)
LEMMA OperationReplay ==
  ASSUME TypeInv, ProgInv, MakerInv, RecordInv, ReplayInv, Operation PROVE ReplayInv'
PROOF
  <1> SUFFICES ASSUME driver \in Recorded, phase = "restore", prog' # <<>>
               PROVE  ReplayInv'
    BY Moves DEF ReplayInv
  <1> DEFINE s == prog[1]
  <1>1. /\ prog # <<>> /\ Len(prog) \in Nat /\ Len(prog) >= 1 /\ s \in Steps /\ StepOk(s)
        /\ Len(prog) > 1 => s.do \in Restores
        /\ prog \in Seq(Steps)
        /\ driver' = driver /\ driver \in Drivers /\ phase' = phase
    BY Moves, AtStep DEF Ops
  <1>2. driver \notin Forgiving /\ driver \notin {"sqlite", "gaussdb"}
    BY DEF Recorded, Forgiving
  <1>3. /\ s.do \notin {"if_backup", "replay_backup", "copy_back", "wipe", "dump", "copy_record"} \/ s.do = "copy_record"
        /\ s.do \in {"apply", "load", "replay_record"} => s.err # "ignored"
    BY <1>1, <1>2 DEF StepOk, Sound, Recorded, Dumping
  <1>4. ~Cuts /\ Len(prog) > 1
    <2>1. ~Cuts
      BY <1>3 DEF Cuts, s
    <2> QED BY <2>1, StaysPut
  <1>5. s.do \in Restores /\ s.do # "insert" /\ s.do # "copy_record" /\ s.do # "return"
    BY <1>1, <1>4 DEF Restores, Resets, Opens, Drops
  <1>6. record' = record
    BY RecordMoves
  <1>7. record # None /\ record \in Records
    <2>1. Made > 0
      BY DEF RecordInv, Saved
    <2> QED BY <2>1 DEF Made, TypeInv
  <1> HIDE DEF s
  <1>8. ASSUME Rebuilding PROVE Rebuilding'
    <2> PICK n \in 0..Len(record) :
          /\ db = Replay(SubSeq(record, 1, n))
          /\ Len(prog) = Len(record) - n + 1
          /\ \A i \in 1..(Len(record) - n) : prog[i].do \in {"apply", "load"} /\ prog[i].stmt = record[n + i]
      BY <1>8 DEF Rebuilding
    <2>1. Len(record) \in Nat /\ n \in 0..(Len(record) - 1) /\ 1 \in 1..(Len(record) - n)
      <3>1. Len(record) \in Nat
        BY <1>7 DEF Records
      <3> DEFINE L == Len(record)
                 P == Len(prog)
      <3>2. L \in Nat /\ n \in 0..L /\ P = L - n + 1 /\ P > 1
        BY <1>4, <3>1
      <3> HIDE DEF L, P
      <3>3. n \in 0..(L - 1) /\ 1 \in 1..(L - n)
        BY <3>2
      <3> QED BY <3>1, <3>3 DEF L
    <2>2. s.do \in {"apply", "load"} /\ s.stmt = record[n + 1]
      BY <2>1 DEF s
    <2>3. Does
      BY <1>3, <1>4, <2>2, Moves DEF Stops, Returns, Passes, Creates, Unfolds, Counts, s
    <2>4. /\ db' = After(db, record[n + 1]) /\ Goes(<<>>, 2)
      <3>1. Database(s) = After(db, s.stmt)
        BY <2>2 DEF Database
      <3> QED BY <2>2, <2>3, <3>1 DEF Does, s
    <2>5. db' = Replay(SubSeq(record, 1, n + 1))
      <3> DEFINE S == ToSet(Stmts) \cup {"noop"}
                 r == SubSeq(record, 1, n)
      <3>1. record \in Seq(S) /\ n + 1 \in 1..Len(record)
        BY <1>7, <2>1 DEF Records
      <3> HIDE DEF S
      <3>2. r \in Seq(S) /\ record[n + 1] \in S
        BY <2>1, <3>1
      <3>3. SubSeq(record, 1, n + 1) = Append(r, record[n + 1])
        BY <2>1, <3>1
      <3> HIDE DEF r
      <3>4. Replay(Append(r, record[n + 1])) = After(Replay(r), record[n + 1])
        BY <3>2, ReplayAppend
      <3> QED BY <2>4, <3>3, <3>4 DEF r
    <2>6. Len(prog') = Len(record) - (n + 1) + 1
      <3> DEFINE P == Len(prog)
                 L == Len(record)
      <3>1. Len(prog') = 0 + (P - 2 + 1)
        <4>1. Len(<<>>) = 0
          OBVIOUS
        <4> QED BY <2>4, <4>1 DEF Goes
      <3>2. P = L - n + 1 /\ L \in Nat
        BY <2>1
      <3> HIDE DEF P, L
      <3>3. Len(prog') = L - (n + 1) + 1
        BY <3>1, <3>2
      <3> QED BY <3>3 DEF L
    <2>7. ASSUME NEW i \in 1..(Len(record) - (n + 1))
          PROVE  prog'[i].do \in {"apply", "load"} /\ prog'[i].stmt = record[(n + 1) + i]
      <3>1. i + 1 \in 1..(Len(record) - n) /\ i + 1 \in 2..Len(prog) /\ n + (i + 1) = (n + 1) + i
        BY <2>1
      <3>2. prog'[(i + 1) - 2 + 1 + Len(<<>>)] = prog[i + 1]
        BY <2>4, <3>1 DEF Goes
      <3>3. (i + 1) - 2 + 1 + Len(<<>>) = i
        <4>1. Len(<<>>) = 0
          OBVIOUS
        <4>2. i \in Nat
          BY <2>1
        <4> QED BY <4>1, <4>2
      <3>4. prog'[i] = prog[i + 1]
        BY <3>2, <3>3
      <3>5. prog[i + 1].do \in {"apply", "load"} /\ prog[i + 1].stmt = record[n + (i + 1)]
        BY <3>1
      <3> QED BY <3>1, <3>4, <3>5
    <2>8. n + 1 \in 0..Len(record)
      BY <2>1
    <2> QED BY <1>6, <2>5, <2>6, <2>7, <2>8 DEF Rebuilding
  <1>9. ASSUME ~Rebuilding PROVE ReplayInv'
    <2>1. /\ Len(prog) > 1 /\ prog[Len(prog) - 1].do = "replay_record"
          /\ \A k \in 1..Len(prog) : prog[k].do \notin {"apply", "load"}
          /\ \A k \in 1..(Len(prog) - 2) : prog[k].do # "replay_record"
          /\ db \in {Absent, <<>>} \/ \E k \in 1..Len(prog) : prog[k].do \in Drops
      BY <1>1, <1>9 DEF ReplayInv
    <2>2. CASE Len(prog) = 2
      <3>1. s.do = "replay_record" /\ prog[2].do = "return"
        <4>1. prog[2].do = "return"
          BY <1>1, <2>2 DEF ProgInv
        <4> QED BY <2>1, <2>2, <4>1 DEF s
      <3>2. db = <<>>
        <4>1. db # Absent
          BY <1>1, <3>1, NeedsDb DEF Needs, s
        <4>2. \A k \in 1..Len(prog) : k = 1 \/ k = 2
          BY <2>2
        <4> QED BY <2>1, <3>1, <4>1, <4>2 DEF Drops, s
      <3>3. Unfolds
        BY <1>3, <1>4, <3>1, Moves DEF Stops, Returns, Passes, Creates, Does, Counts, s
      <3> DEFINE q == process_dbrecord_into_sqls(s, record)
      <3>4. Goes(q, 2) /\ db' = db
        BY <3>1, <3>3 DEF Unfolds, File, s
      <3>5. record \in Seq(Names \ {"none", "cached"}) \cup {None}
        BY FileTypes
      <3>6. /\ \A k \in 1..Len(q) : q[k].do \in {"apply", "load"}
            /\ Len(q) = Len(record) /\ \A k \in 1..Len(record) : q[k].stmt = record[k]
        BY <1>1, <1>7, <3>1, <3>5, FilesFit
      <3>7. Len(record) \in Nat /\ SubSeq(record, 1, 0) = <<>>
        BY <1>7 DEF Records
      <3> HIDE DEF q
      <3>8. Len(prog') = Len(record) - 0 + 1
        BY <2>2, <3>4, <3>6, <3>7 DEF Goes
      <3>9. db' = Replay(SubSeq(record, 1, 0))
        <4>1. Replay(<<>>) = <<>>
          <5>1. <<>> \in Seq({"noop"}) /\ "noop" \in {"noop"}
            OBVIOUS
          <5> QED BY <5>1, ReplayAppend
        <4> QED BY <3>2, <3>4, <3>7, <4>1
      <3>10. ASSUME NEW i \in 1..(Len(record) - 0)
             PROVE  prog'[i].do \in {"apply", "load"} /\ prog'[i].stmt = record[0 + i]
        <4>1. i \in 1..Len(record) /\ i \in 1..Len(q) /\ 0 + i = i
          BY <3>6, <3>7
        <4>2. prog'[i] = q[i]
          BY <3>4, <4>1 DEF Goes
        <4> QED BY <3>6, <4>1, <4>2
      <3>11. 0 \in 0..Len(record)
        BY <3>7
      <3>12. Rebuilding'
        BY <1>6, <3>8, <3>9, <3>10, <3>11 DEF Rebuilding
      <3> QED BY <3>12 DEF ReplayInv
    <2>3. CASE Len(prog) # 2
      <3>1. Len(prog) - 1 \in 2..Len(prog) /\ Len(prog) - 2 >= 1 /\ 1 \in 1..(Len(prog) - 2) /\ Len(prog) \in Nat
        <4> DEFINE P == Len(prog)
        <4>1. P \in Nat /\ P > 1 /\ P # 2
          BY <1>1, <1>4, <2>3
        <4> HIDE DEF P
        <4>2. P - 1 \in 2..P /\ P - 2 >= 1 /\ 1 \in 1..(P - 2) /\ P \in Nat
          BY <4>1
        <4> QED BY <4>2 DEF P
      <3>2. s.do \notin {"apply", "load", "replay_record", "replay_backup"}
        <4>1. 1 \in 1..Len(prog)
          BY <1>1
        <4> QED BY <1>3, <2>1, <3>1, <4>1 DEF s
      <3>3. /\ Len(prog') \in Nat
            /\ \A k \in 1..Len(prog') :
                 \/ prog'[k].do \in Opens
                 \/ \E i \in 2..Len(prog) : prog'[k] = prog[i] /\ Len(prog') - k = Len(prog) - i
            /\ \A i \in 2..Len(prog) : prog[i].do # "load" =>
                 \E k \in 1..Len(prog') : prog'[k] = prog[i] /\ Len(prog') - k = Len(prog) - i
        BY <1>4, <3>2, StaysPut DEF s
      <3>4. Len(prog') > 1 /\ prog'[Len(prog') - 1].do = "replay_record"
        <4>1. PICK k \in 1..Len(prog') :
                prog'[k] = prog[Len(prog) - 1] /\ Len(prog') - k = Len(prog) - (Len(prog) - 1)
          BY <2>1, <3>1, <3>3
        <4> DEFINE P == Len(prog)
                   R == Len(prog')
        <4>2. P \in Nat /\ R \in Nat /\ k \in 1..R /\ R - k = P - (P - 1)
          BY <3>1, <3>3, <4>1
        <4> HIDE DEF P, R
        <4>3. R > 1 /\ k = R - 1
          BY <4>2
        <4> QED BY <2>1, <4>1, <4>3 DEF R
      <3>5. \A k \in 1..Len(prog') : prog'[k].do \notin {"apply", "load"}
        <4>1. \A i \in 2..Len(prog) : i \in 1..Len(prog)
          BY <3>1
        <4>2. "apply" \notin Opens /\ "load" \notin Opens
          BY DEF Opens
        <4> QED BY <2>1, <3>3, <4>1, <4>2
      <3>6. ASSUME NEW k \in 1..(Len(prog') - 2), prog'[k].do = "replay_record" PROVE FALSE
        <4>1. k \in 1..Len(prog') /\ "replay_record" \notin Opens
          BY <3>3 DEF Opens
        <4>2. PICK i \in 2..Len(prog) : prog'[k] = prog[i] /\ Len(prog') - k = Len(prog) - i
          BY <3>3, <3>6, <4>1
        <4> DEFINE P == Len(prog)
                   R == Len(prog')
        <4>3. P \in Nat /\ R \in Nat /\ k \in 1..(R - 2) /\ i \in 2..P /\ R - k = P - i
          BY <3>1, <3>3, <4>2
        <4> HIDE DEF P, R
        <4>4. i \in 1..(P - 2)
          BY <4>3
        <4> QED BY <2>1, <3>6, <4>2, <4>4 DEF P
      <3>7. db' \in {Absent, <<>>} \/ \E k \in 1..Len(prog') : prog'[k].do \in Drops
        <4>1. ASSUME NEW k \in 2..Len(prog), prog[k].do \in Drops
              PROVE  \E j \in 1..Len(prog') : prog'[j].do \in Drops
          <5>1. prog[k].do # "load"
            BY <4>1 DEF Drops
          <5>2. PICK j \in 1..Len(prog') : prog'[j] = prog[k]
            BY <3>3, <5>1
          <5> QED BY <4>1, <5>2
        <4>2. db \in {Absent, <<>>} \/ s.do \in Drops \/ \E k \in 2..Len(prog) : prog[k].do \in Drops
          <5>1. \A k \in 1..Len(prog) : k = 1 \/ k \in 2..Len(prog)
            BY <1>1
          <5> QED BY <2>1, <5>1 DEF s
        <4>3. CASE Does
          <5>1. db' = Database(s)
            BY <4>3 DEF Does, s
          <5>2. s.do \in Drops => db' = Absent
            BY <5>1 DEF Database, Drops
          <5>3. db \in {Absent, <<>>} => db' \in {Absent, <<>>}
            <6>1. s.do \notin {"copy_back", "apply", "load", "insert", "write"}
              BY <1>3, <1>5, <3>2 DEF Restores, Resets, Opens, Drops
            <6>2. s.do \in {"drop", "drop_force", "create", "wipe", "create_missing", "open"} \/ db' = db
              BY <5>1, <6>1 DEF Database
            <6>3. s.do \in {"drop", "drop_force"} => db' = Absent
              BY <5>1 DEF Database
            <6>4. s.do \in {"create", "wipe"} => db' = <<>>
              BY <5>1 DEF Database
            <6>5. s.do \in {"create_missing", "open"} => db' = MissingIsCreated(db)
              BY <5>1 DEF Database
            <6> QED BY <6>2, <6>3, <6>4, <6>5 DEF MissingIsCreated
          <5> QED BY <4>1, <4>2, <5>2, <5>3
        <4>4. CASE ~Does
          <5>1. db' = db /\ s.do \notin Drops
            BY <1>4, <1>5, <3>2, <4>4, Moves DEF Stops, Returns, Passes, Creates, Unfolds, Counts, Drops, s
          <5> QED BY <4>1, <4>2, <5>1
        <4> QED BY <4>3, <4>4
      <3> QED BY <3>4, <3>5, <3>6, <3>7 DEF ReplayInv, Absent
    <2> QED BY <2>2, <2>3
  <1> QED BY <1>8, <1>9 DEF ReplayInv

(* Between two steps, the sessions of the second follow from the first.     *)
LEMMA GoesParted ==
  ASSUME NEW q, NEW m, Goes(q, m), \A k \in 1..Len(q) : q[k].do \in Opens \cup Quiet,
         prog[1].do \in Quiet => (\A k \in 1..Len(q) : q[k].do \in Quiet) /\ conn' = conn,
         prog[1].do = "close" => q = <<>> /\ m = 2 /\ conn' = "none",
         NEW i \in m..Len(prog), Parted(prog, i)
  PROVE  Parted(prog, i - m + 1 + Len(q))'
PROOF
  <1> DEFINE n == Len(prog)
             g == Len(q)
             k == i - m + 1 + g
  <1>1. n \in Nat /\ g \in Nat /\ m \in 2..n /\ i \in m..n /\ Len(prog') = g + (n - m + 1)
    BY DEF Goes
  <1>2. \A x \in m..n : prog'[x - m + 1 + g] = prog[x]
    BY DEF Goes
  <1>3. \A x \in 1..g : prog'[x] = q[x]
    BY DEF Goes
  <1>4. \A x \in 2..(m - 1) : prog[x].do = "load"
    BY DEF Goes
  <1>5. PICK j \in 0..(i - 1) :
          /\ IF j = 0 THEN conn # "test" ELSE prog[j].do = "close"
          /\ \A x \in (j + 1)..(i - 1) : prog[x].do \in Quiet
    BY DEF Parted
  <1> HIDE DEF n, g
  <1>6. k \in Nat /\ k >= 1
    BY <1>1
  \* What is between the j-th step and the i-th is between their new places.
  <1>7. ASSUME NEW h \in 1..(i - 1), \A x \in h..(i - 1) : prog[x].do \in Quiet,
               NEW y \in Nat, y > g, y >= h - m + 1 + g, y <= k - 1
        PROVE  prog'[y].do \in Quiet
    <2>1. y - g + m - 1 \in h..(i - 1) /\ y - g + m - 1 \in m..n
      BY <1>1, <1>7
    <2>2. (y - g + m - 1) - m + 1 + g = y
      BY <1>1, <1>7
    <2>3. prog'[y] = prog[y - g + m - 1]
      BY <1>2, <2>1, <2>2
    <2> QED BY <1>7, <2>1, <2>3
  <1>8. CASE j = 0
    <2>1. prog[1].do \in Quiet /\ conn # "test" /\ 1 \in 1..(i - 1)
      BY <1>1, <1>5, <1>8
    <2>2. conn' # "test" /\ \A x \in 1..g : q[x].do \in Quiet
      BY <2>1 DEF g
    <2>3. ASSUME NEW y \in 1..(k - 1) PROVE prog'[y].do \in Quiet
      <3>1. CASE y <= g
        <4>1. y \in 1..g
          BY <1>1, <3>1
        <4> QED BY <1>3, <2>2, <4>1
      <3>2. CASE y > g
        <4>1. y \in Nat /\ y >= 1 - m + 1 + g /\ y <= k - 1
          BY <1>1, <1>6, <3>2
        <4>2. \A x \in 1..(i - 1) : prog[x].do \in Quiet
          BY <1>1, <1>5, <1>8
        <4> QED BY <1>7, <2>1, <3>2, <4>1, <4>2
      <3> QED BY <1>1, <3>1, <3>2
    <2>4. 0 \in 0..(k - 1) /\ \A y \in (0 + 1)..(k - 1) : y \in 1..(k - 1)
      BY <1>6
    <2> HIDE DEF k
    <2>5. Parted(prog, k)'
      BY <2>2, <2>3, <2>4 DEF Parted
    <2> QED BY <2>5 DEF k, g
  <1>9. CASE j = 1
    <2>1. prog[1].do = "close"
      BY <1>5, <1>9
    <2>2. g = 0 /\ m = 2 /\ conn' = "none"
      <3>1. Len(<<>>) = 0
        OBVIOUS
      <3> QED BY <2>1, <3>1 DEF g
    <2>3. ASSUME NEW y \in 1..(k - 1) PROVE prog'[y].do \in Quiet
      <3>1. y \in Nat /\ y > g /\ y >= 2 - m + 1 + g /\ y <= k - 1 /\ 2 \in 1..(i - 1)
        BY <1>1, <1>6, <2>2
      <3>2. \A x \in 2..(i - 1) : prog[x].do \in Quiet
        BY <1>1, <1>5, <1>9
      <3> QED BY <1>7, <3>1, <3>2
    <2>4. 0 \in 0..(k - 1) /\ \A y \in (0 + 1)..(k - 1) : y \in 1..(k - 1)
      BY <1>6
    <2>5. conn' # "test"
      BY <2>2
    <2> HIDE DEF k
    <2>6. Parted(prog, k)'
      BY <2>3, <2>4, <2>5 DEF Parted
    <2> QED BY <2>6 DEF k, g
  <1>10. CASE j > 1
    <2> DEFINE l == j - m + 1 + g
    <2>1. prog[j].do = "close" /\ j \in Nat /\ j <= i - 1
      BY <1>1, <1>5, <1>10
    <2>2. j \in m..n
      <3>1. j \notin 2..(m - 1)
        BY <1>4, <2>1
      <3> QED BY <1>1, <1>10, <2>1, <3>1
    <2>3. l \in 0..(k - 1) /\ l # 0 /\ prog'[l] = prog[j]
      <3>1. l \in 0..(k - 1) /\ l # 0
        BY <1>1, <2>1, <2>2
      <3> QED BY <1>2, <2>2, <3>1
    <2>4. ASSUME NEW y \in (l + 1)..(k - 1) PROVE prog'[y].do \in Quiet
      <3>1. y \in Nat /\ y > g /\ y >= (j + 1) - m + 1 + g /\ y <= k - 1 /\ j + 1 \in 1..(i - 1)
        BY <1>1, <2>1, <2>2
      <3>2. \A x \in (j + 1)..(i - 1) : prog[x].do \in Quiet
        BY <1>5
      <3> QED BY <1>7, <3>1, <3>2
    <2> HIDE DEF k, l
    <2>5. Parted(prog, k)'
      BY <2>1, <2>3, <2>4 DEF Parted
    <2> QED BY <2>5 DEF k, g
  <1> QED BY <1>1, <1>5, <1>8, <1>9, <1>10

(* A step keeps SessionInv: a connection is closed before it is replaced.  *)
LEMMA OperationSession ==
  ASSUME TypeInv, ProgInv, SessionInv, Operation PROVE SessionInv'
PROOF
  <1> SUFFICES ASSUME driver # "gaussdb"
               PROVE  /\ leaked' <= 1
                      /\ \A k \in 1..Len(prog') :
                           /\ prog'[k].do = "connect" /\ ~Leaks(prog'[k]) => Parted(prog, k)'
                           /\ Leaks(prog'[k]) => leaked' = 0 \/ \E f \in 1..(k - 1) : prog'[f].do = "drop_force"
                      /\ \A j, k \in 1..Len(prog') : Leaks(prog'[j]) /\ Leaks(prog'[k]) => j = k
    BY Moves DEF SessionInv, Leaks
  <1> DEFINE s == prog[1]
  <1>1. /\ prog # <<>> /\ Len(prog) \in Nat /\ Len(prog) >= 1 /\ s \in Steps /\ StepOk(s)
        /\ driver \in Drivers /\ leaked \in Nat
    BY Moves, AtStep DEF TypeInv
  <1>2. /\ leaked <= 1
        /\ \A k \in 1..Len(prog) : prog[k].do = "connect" /\ ~Leaks(prog[k]) => Parted(prog, k)
        /\ \A k \in 1..Len(prog) : Leaks(prog[k]) => leaked = 0 \/ \E f \in 1..(k - 1) : prog[f].do = "drop_force"
        /\ \A j, k \in 1..Len(prog) : Leaks(prog[j]) /\ Leaks(prog[k]) => j = k
    BY DEF SessionInv
  \* A connection that replaces another is the one that leaks.
  <1>3. s.do = "connect" /\ conn = "test" => leaked = 0 /\ Leaks(s)
    <2> SUFFICES ASSUME s.do = "connect", conn = "test" PROVE leaked = 0 /\ Leaks(s)
      OBVIOUS
    <2>1. 1 \in 1..Len(prog)
      BY <1>1
    <2>2. ~Parted(prog, 1)
      BY DEF Parted
    <2>3. Leaks(s)
      BY <1>2, <2>1, <2>2
    <2> QED BY <1>2, <2>1, <2>3
  <1> HIDE DEF s
  <1>4. leaked' = leaked \/ leaked' = 0 \/ (s.do = "connect" /\ conn = "test" /\ leaked' = leaked + 1)
    <2>1. \/ leaked' = leaked \/ (s.do = "connect" /\ conn = "test" /\ leaked' = leaked + 1)
          \/ leaked' = Leaked(s)
      BY Moves DEF Stops, Returns, Cuts, Passes, Creates, Unfolds, Counts, Does, Left, s
    <2> QED BY <2>1 DEF Leaked
  <1>5. leaked' <= 1
    BY <1>1, <1>2, <1>3, <1>4
  <1>6. CASE prog' = <<>>
    <2>1. \A k \in 1..Len(prog') : FALSE
      BY <1>6
    <2> QED BY <1>5, <2>1
  <1>7. CASE Cuts
    <2>1. prog[Len(prog)].do = "return"
      BY <1>1 DEF ProgInv
    <2>2. \A k \in 1..Len(prog') : prog'[k].do = "return"
      <3>1. prog' = <<prog[Len(prog)]>>
        BY <1>7 DEF Cuts
      <3>2. Len(prog') = 1 /\ prog'[1] = prog[Len(prog)]
        BY <3>1
      <3> QED BY <2>1, <3>2
    <2> QED BY <1>5, <2>2 DEF Leaks, Leaky
  <1>8. ASSUME NEW q, NEW m, Goes(q, m), Inserted(q), m \in 2..Len(prog),
               \/ Does /\ q = <<>> /\ m = 2
               \/ Counts /\ q = <<>> /\ m = 2
               \/ Passes(m) /\ q = <<>>
               \/ Creates /\ q = Creation(prog[1]) /\ m = 2
               \/ Unfolds /\ q = process_dbrecord_into_sqls(prog[1], File(prog[1])) /\ m = 2
        PROVE  /\ \A k \in 1..Len(prog') :
                    /\ prog'[k].do = "connect" /\ ~Leaks(prog'[k]) => Parted(prog, k)'
                    /\ Leaks(prog'[k]) => leaked' = 0 \/ \E f \in 1..(k - 1) : prog'[f].do = "drop_force"
               /\ \A j, k \in 1..Len(prog') : Leaks(prog'[j]) /\ Leaks(prog'[k]) => j = k
    <2> DEFINE n == Len(prog)
               g == Len(q)
    <2>0. Len(<<>>) = 0
      OBVIOUS
    <2>1. /\ n \in Nat /\ n > 1 /\ g \in Nat /\ m \in 2..n /\ Len(prog') = g + (n - m + 1)
          /\ \A k \in 1..Len(prog') : k > g => k - g + m - 1 \in m..n /\ prog'[k] = prog[k - g + m - 1]
          /\ \A x \in m..n : x - m + 1 + g \in 1..Len(prog') /\ prog'[x - m + 1 + g] = prog[x]
          /\ \A x \in 1..g : prog'[x] = q[x]
          /\ \A x \in 2..(m - 1) : prog[x].do = "load"
      <3>1. Len(prog) > 1 /\ Len(prog) \in Nat /\ Len(q) \in Nat
        BY <1>8, GoesShift
      <3>2. Goes(q, m)
        BY <1>8
      <3> QED BY <3>1, <3>2 DEF Goes
    <2>2. NoLeaks(<<>>) /\ ClosesFirst(<<>>)
      BY <2>0 DEF NoLeaks, ClosesFirst
    <2>3. /\ s.do \in Quiet => (\A k \in 1..g : q[k].do \in Quiet) /\ conn' = conn
          /\ s.do = "close" => q = <<>> /\ m = 2 /\ conn' = "none"
          /\ s.do = "drop_force" => leaked' = 0
          /\ NoLeaks(q) /\ ClosesFirst(q) /\ \A k \in 1..g : q[k].do \in Opens \cup Quiet
      <3>1. CASE Does /\ q = <<>> /\ m = 2
        <4>1. conn' = Connection(s) /\ leaked' = Leaked(s)
          BY <3>1 DEF Does, s
        <4> QED BY <2>0, <2>2, <3>1, <4>1 DEF Connection, Leaked, Quiet
      <3>2. CASE Counts /\ q = <<>> /\ m = 2
        <4>1. s.do = "insert"
          BY <3>2 DEF Counts, s
        <4> QED BY <2>0, <2>2, <3>2, <4>1 DEF Quiet
      <3>3. CASE Passes(m) /\ q = <<>>
        <4>1. s.do \notin Drops /\ s.do # "close" /\ conn' = Fell(s)
          BY <3>3 DEF Passes, s
        <4> QED BY <2>0, <2>2, <3>3, <4>1 DEF Fell, Quiet, Drops
      <3>4. CASE Creates /\ q = Creation(prog[1]) /\ m = 2
        <4>1. s.do = "connect"
          BY <3>4 DEF Creates, s
        <4>2. q = Creation(s)
          BY <3>4 DEF s
        <4>3. NoLeaks(q) /\ ClosesFirst(q) /\ \A k \in 1..Len(q) : q[k].do \in Opens
          BY <1>1, <4>2, CreationFits
        <4> QED BY <4>1, <4>3 DEF Quiet
      <3>5. CASE Unfolds /\ q = process_dbrecord_into_sqls(prog[1], File(prog[1])) /\ m = 2
        <4>1. s.do \in {"replay_record", "replay_backup"} /\ conn' = conn
          BY <3>5 DEF Unfolds, s
        <4>2. q = process_dbrecord_into_sqls(s, File(s))
          BY <3>5 DEF s
        <4>3. File(s) \in Seq(Names \ {"none", "cached"}) \cup {None}
          BY FileTypes DEF File
        <4>4. \A k \in 1..Len(q) : q[k].do \in {"apply", "load"}
          BY <1>1, <4>1, <4>2, <4>3, FilesFit
        <4>5. NoLeaks(q) /\ ClosesFirst(q)
          BY <4>4 DEF NoLeaks, ClosesFirst, Leaks, Leaky
        <4> QED BY <4>1, <4>4, <4>5 DEF Quiet
      <3> QED BY <1>8, <3>1, <3>2, <3>3, <3>4, <3>5
    <2> HIDE DEF n, g
    <2>4. ASSUME NEW k \in 1..Len(prog'), k > g
          PROVE  \E i \in m..n : i \in 2..n /\ k = i - m + 1 + g /\ prog'[k] = prog[i]
      <3> DEFINE i == k - g + m - 1
      <3>1. i \in m..n /\ prog'[k] = prog[i]
        BY <2>1, <2>4
      <3>2. i \in 2..n /\ k = i - m + 1 + g
        BY <2>1, <2>4, <3>1
      <3> HIDE DEF i
      <3> QED BY <3>1, <3>2
    <2>5. ASSUME NEW k \in 1..Len(prog'), ~(k > g) PROVE k \in 1..g /\ prog'[k] = q[k]
      <3>1. k \in 1..g
        BY <2>1, <2>5
      <3> QED BY <2>1, <3>1
    <2>6. ASSUME NEW k \in 1..Len(prog'), prog'[k].do = "connect", ~Leaks(prog'[k])
          PROVE  Parted(prog, k)'
      <3>1. CASE k > g
        <4>1. PICK i \in m..n : i \in 2..n /\ k = i - m + 1 + g /\ prog'[k] = prog[i]
          BY <2>4, <3>1
        <4>2. i \in m..Len(prog) /\ i \in 1..Len(prog)
          BY <2>1 DEF n
        <4>3. Parted(prog, i)
          BY <1>2, <2>6, <4>1, <4>2
        <4>4. Parted(prog, i - m + 1 + Len(q))'
          BY <1>8, <2>3, <4>2, <4>3, GoesParted DEF g, s
        <4> QED BY <4>1, <4>4 DEF g
      <3>2. CASE ~(k > g)
        <4>1. k \in 1..g /\ prog'[k] = q[k]
          BY <2>5, <3>2
        <4>2. /\ k >= 2
              /\ q[k - 1].do = "close" \/ (k >= 3 /\ q[k - 1].do = "replay_backup" /\ q[k - 2].do = "close")
          BY <2>3, <2>6, <4>1 DEF ClosesFirst, g
        <4>3. CASE q[k - 1].do = "close"
          <5>1. k - 1 \in 1..g /\ k - 1 \in 0..(k - 1) /\ k - 1 # 0
                /\ \A y \in ((k - 1) + 1)..(k - 1) : FALSE
            BY <2>1, <4>1, <4>2
          <5>2. prog'[k - 1].do = "close"
            BY <2>1, <4>3, <5>1
          <5> QED BY <5>1, <5>2 DEF Parted
        <4>4. CASE k >= 3 /\ q[k - 1].do = "replay_backup" /\ q[k - 2].do = "close"
          <5>1. k - 2 \in 1..g /\ k - 1 \in 1..g /\ k - 2 \in 0..(k - 1) /\ k - 2 # 0
                /\ \A y \in ((k - 2) + 1)..(k - 1) : y = k - 1
            BY <2>1, <4>1, <4>4
          <5>2. prog'[k - 2].do = "close" /\ prog'[k - 1].do \in Quiet
            BY <2>1, <4>4, <5>1 DEF Quiet
          <5> QED BY <5>1, <5>2 DEF Parted
        <4> QED BY <4>2, <4>3, <4>4
      <3> QED BY <3>1, <3>2
    <2>7. ASSUME NEW k \in 1..Len(prog'), Leaks(prog'[k])
          PROVE  \E i \in m..n : i \in 2..n /\ k = i - m + 1 + g /\ prog'[k] = prog[i]
      <3>1. k > g
        <4> SUFFICES ASSUME ~(k > g) PROVE FALSE
          OBVIOUS
        <4>1. k \in 1..g /\ prog'[k] = q[k]
          BY <2>5
        <4> QED BY <2>3, <2>7, <4>1 DEF NoLeaks, g
      <3> QED BY <2>4, <3>1
    <2>8. ASSUME NEW k \in 1..Len(prog'), Leaks(prog'[k])
          PROVE  leaked' = 0 \/ \E f \in 1..(k - 1) : prog'[f].do = "drop_force"
      <3>1. PICK i \in m..n : i \in 2..n /\ k = i - m + 1 + g /\ prog'[k] = prog[i]
        BY <2>7, <2>8
      <3>2. i \in 1..Len(prog) /\ Leaks(prog[i]) /\ i # 1
        BY <2>1, <2>8, <3>1 DEF n
      <3>3. CASE leaked = 0
        <4>1. ~(s.do = "connect" /\ conn = "test")
          <5> SUFFICES ASSUME s.do = "connect", conn = "test" PROVE FALSE
            OBVIOUS
          <5>1. Leaks(prog[1]) /\ 1 \in 1..Len(prog)
            BY <1>1, <1>3 DEF s
          <5> QED BY <1>2, <3>2, <5>1
        <4> QED BY <1>4, <3>3, <4>1
      <3>4. ASSUME NEW f \in 1..(i - 1), prog[f].do = "drop_force"
            PROVE  leaked' = 0 \/ \E x \in 1..(k - 1) : prog'[x].do = "drop_force"
        <4>1. CASE f = 1
          BY <2>3, <3>4, <4>1 DEF s
        <4>2. CASE f # 1
          <5>1. f \in m..n
            <6>1. f \notin 2..(m - 1)
              BY <2>1, <3>4
            <6> QED BY <2>1, <4>2, <6>1
          <5>2. f - m + 1 + g \in 1..(k - 1)
            BY <2>1, <3>1, <5>1
          <5>3. prog'[f - m + 1 + g].do = "drop_force"
            BY <2>1, <3>4, <5>1
          <5> QED BY <5>2, <5>3
        <4> QED BY <4>1, <4>2
      <3> QED BY <1>2, <3>2, <3>3, <3>4
    <2>9. ASSUME NEW j \in 1..Len(prog'), NEW k \in 1..Len(prog'), Leaks(prog'[j]), Leaks(prog'[k])
          PROVE  j = k
      <3>1. PICK h \in m..n : h \in 2..n /\ j = h - m + 1 + g /\ prog'[j] = prog[h]
        BY <2>7, <2>9
      <3>2. PICK i \in m..n : i \in 2..n /\ k = i - m + 1 + g /\ prog'[k] = prog[i]
        BY <2>7, <2>9
      <3>3. h \in 1..Len(prog) /\ i \in 1..Len(prog) /\ Leaks(prog[h]) /\ Leaks(prog[i])
        BY <2>1, <2>9, <3>1, <3>2 DEF n
      <3>4. h = i
        BY <1>2, <3>3
      <3> QED BY <3>1, <3>2, <3>4
    <2> QED BY <2>6, <2>8, <2>9
  <1>9. prog' = <<>> \/ Cuts \/ \E q, m : /\ Goes(q, m) /\ Inserted(q) /\ m \in 2..Len(prog)
                         /\ \/ Does /\ q = <<>> /\ m = 2
                            \/ Counts /\ q = <<>> /\ m = 2
                            \/ Passes(m) /\ q = <<>>
                            \/ Creates /\ q = Creation(prog[1]) /\ m = 2
                            \/ Unfolds /\ q = process_dbrecord_into_sqls(prog[1], File(prog[1])) /\ m = 2
    BY Moves DEF Stops, Returns
  <1> QED BY <1>5, <1>6, <1>7, <1>8, <1>9

(***************************************************************************)
(* The child calls an operation.                                           *)
(***************************************************************************)
Started(q) ==
  /\ prog = <<>> /\ prog' = q \o <<Throws("return")>>
  /\ exn' = "none" /\ child = "running" /\ task' = TaskOf(phase')
  /\ UNCHANGED <<child, driver, up, db, leaked, backup, cache, faults>>
  /\ Fits(phase', q)
  /\ db # Absent \/ (Len(q) >= 1 /\ Maker(q[1]))
  /\ conn' = "none" \/ (conn' = conn /\ \A k \in 1..Len(q) : q[k].do # "connect")

(* The program of an operation that was just called.                       *)
LEMMA StartedShape ==
  ASSUME NEW q, Started(q), driver \in Drivers
  PROVE  /\ q \in Seq(Steps) /\ Len(q) \in Nat /\ prog' \in Seq(Steps) /\ prog' # <<>> /\ Len(prog') = Len(q) + 1
         /\ \A k \in 1..Len(q) : k \in 1..Len(prog') /\ prog'[k] = q[k]
         /\ prog'[Len(prog')].do = "return" /\ prog'[Len(prog')].stmt = "none"
         /\ StepOk(prog'[Len(prog')])
         /\ \A k \in 1..Len(prog') : k \in 1..Len(q) \/ k = Len(prog')
PROOF
  <1> DEFINE r == Throws("return")
  <1>1. q \in Seq(Steps) /\ Len(q) \in Nat
    BY DEF Started, Fits, Good
  <1>2. r \in Steps /\ r.do = "return" /\ r.err = "plain" /\ r.stmt = "none"
    BY StepTypes, StepKinds, Operations
  <1>3. prog' = q \o <<r>>
    BY DEF Started
  <1> HIDE DEF r
  <1>4. <<r>> \in Seq(Steps) /\ Len(<<r>>) = 1 /\ <<r>>[1] = r
    BY <1>2
  <1>5. /\ prog' \in Seq(Steps) /\ Len(prog') = Len(q) + 1
        /\ \A k \in 1..Len(q) : prog'[k] = q[k]
        /\ prog'[Len(q) + 1] = r
    <2>1. 1 \in 1..Len(<<r>>)
      BY <1>4
    <2> QED BY <1>1, <1>3, <1>4, <2>1, Glued
  <1>6. StepOk(r)
    BY <1>2 DEF StepOk, Sound, Makes, Drops
  <1>7. prog' # <<>>
    BY <1>1, <1>5
  <1>8. \A k \in 1..Len(prog') : k \in 1..Len(q) \/ k = Len(prog')
    BY <1>1, <1>5
  <1>9. \A k \in 1..Len(q) : k \in 1..Len(prog')
    BY <1>1, <1>5
  <1> QED BY <1>1, <1>2, <1>5, <1>6, <1>7, <1>8, <1>9

(* A call keeps the parts of the invariant about the program.              *)
LEMMA StartedProgram ==
  ASSUME TypeInv, NEW q, Started(q)
  PROVE  /\ ProgInv' /\ ExnInv' /\ FreshInv' /\ ReplayInv'
         /\ (phase' \in Generating \cup {"m_feed", "m_backup"} => db # Absent) => MakerInv'
PROOF
  <1>1. /\ driver \in Drivers /\ driver' = driver /\ db' = db /\ child' = "running"
        /\ exn' = "none" /\ task' = TaskOf(phase')
        /\ Fits(phase', q) /\ (db # Absent \/ (Len(q) >= 1 /\ Maker(q[1])))
    BY DEF TypeInv, Started
  <1>2. /\ q \in Seq(Steps) /\ Len(q) \in Nat /\ prog' \in Seq(Steps) /\ prog' # <<>> /\ Len(prog') = Len(q) + 1
        /\ \A k \in 1..Len(q) : k \in 1..Len(prog') /\ prog'[k] = q[k]
        /\ prog'[Len(prog')].do = "return" /\ prog'[Len(prog')].stmt = "none" /\ StepOk(prog'[Len(prog')])
        /\ \A k \in 1..Len(prog') : k \in 1..Len(q) \/ k = Len(prog')
    BY <1>1, StartedShape
  <1>3. task' # "none"
    BY <1>1 DEF TaskOf
  <1>4. ProgInv'
    <2>1. \A k \in 1..(Len(prog') - 1) : k \in 1..Len(q)
      BY <1>2
    <2>2. \A k \in 1..Len(q) : /\ q[k].do \in Ops(phase') /\ StepOk(q[k])
                               /\ (q[k].err \in OfSchema => "tables" \in Ops(phase'))
      BY <1>1 DEF Fits, Good
    <2>3. \A k \in 1..Len(prog') : StepOk(prog'[k])
      BY <1>2, <2>2
    <2>4. \A k \in 1..Len(prog') : Sound(driver', prog'[k])
      BY <1>1, <2>3 DEF StepOk
    <2> QED BY <1>1, <1>2, <2>1, <2>2, <2>4 DEF ProgInv, StepOk
  <1>5. ExnInv'
    BY <1>1 DEF ExnInv
  <1>6. FreshInv'
    <2>1. driver # "gaussdb" /\ phase' = "reset" => \E k \in 1..Len(q) : q[k].do \in Drops
      BY <1>1 DEF Fits, HasDrop
    <2> QED BY <1>1, <1>2, <1>3, <2>1 DEF FreshInv
  <1>7. ReplayInv'
    <2> SUFFICES ASSUME driver \in Recorded, phase' = "restore"
                 PROVE  /\ Len(prog') > 1 /\ prog'[Len(prog') - 1].do = "replay_record"
                        /\ \A k \in 1..Len(prog') : prog'[k].do \notin {"apply", "load"}
                        /\ \A k \in 1..(Len(prog') - 2) : prog'[k].do # "replay_record"
                        /\ \E k \in 1..Len(prog') : prog'[k].do \in Drops
      BY <1>1 DEF ReplayInv
    <2>1. /\ Len(q) >= 1 /\ q[Len(q)].do = "replay_record" /\ OnlyLast(q, {"replay_record"})
          /\ HasDrop(q) /\ \A k \in 1..Len(q) : q[k].do \notin {"apply", "load"}
      BY <1>1 DEF Fits
    <2>2. Len(prog') > 1 /\ Len(prog') - 1 = Len(q) /\ Len(q) \in 1..Len(q)
      BY <1>2, <2>1
    <2>3. prog'[Len(prog') - 1].do = "replay_record"
      BY <1>2, <2>1, <2>2
    <2>4. \A k \in 1..Len(prog') : prog'[k].do \notin {"apply", "load"}
      BY <1>2, <2>1
    <2>5. ASSUME NEW k \in 1..(Len(prog') - 2) PROVE prog'[k].do # "replay_record"
      <3> DEFINE L == Len(q)
                 P == Len(prog')
      <3>0. L \in Nat /\ P = L + 1 /\ k \in 1..(P - 2)
        BY <1>2
      <3> HIDE DEF L, P
      <3>1. k \in 1..L /\ k # L
        BY <3>0
      <3> QED BY <1>2, <2>1, <3>1 DEF OnlyLast, L
    <2>6. \E k \in 1..Len(prog') : prog'[k].do \in Drops
      BY <1>2, <2>1 DEF HasDrop
    <2> QED BY <2>2, <2>3, <2>4, <2>5, <2>6
  <1>8. ASSUME phase' \in Generating \cup {"m_feed", "m_backup"} => db # Absent
        PROVE  MakerInv'
    <2>1. ASSUME NEW k \in 1..Len(prog'), prog'[k].do \in Drops
          PROVE  k < Len(prog') /\ Makes(driver', prog'[k + 1])
      <3>1. k \in 1..Len(q) /\ prog'[k] = q[k]
        BY <1>2, <2>1 DEF Drops
      <3>2. k < Len(q) /\ Maker(q[k + 1])
        BY <1>1, <2>1, <3>1 DEF Fits, DropsMake
      <3>3. k + 1 \in 1..Len(q)
        BY <1>2, <3>1, <3>2
      <3>4. prog'[k + 1] = q[k + 1]
        BY <1>2, <3>3
      <3> QED BY <1>1, <1>2, <3>2, <3>4 DEF Maker
    <2>2. ASSUME db' = Absent
          PROVE  \E j \in 1..Len(prog') : Makes(driver', prog'[j]) /\ \A i \in 1..(j - 1) : prog'[i].do \notin Needs
      <3>1. Len(q) >= 1 /\ Maker(q[1]) /\ 1 \in 1..Len(q)
        BY <1>1, <1>2, <2>2
      <3>2. 1 \in 1..Len(prog') /\ Makes(driver', prog'[1]) /\ \A i \in 1..(1 - 1) : FALSE
        BY <1>1, <1>2, <3>1 DEF Maker
      <3> QED BY <3>2
    <2> QED BY <1>1, <1>3, <1>8, <2>1, <2>2 DEF MakerInv, DropsMake, Covered, Maker, Absent
  <1> QED BY <1>4, <1>5, <1>6, <1>7, <1>8

(* A call keeps SessionInv.                                                *)
LEMMA StartedSession ==
  ASSUME TypeInv, SessionInv, NEW q, Started(q) PROVE SessionInv'
PROOF
  <1>1. /\ driver \in Drivers /\ driver' = driver /\ leaked' = leaked /\ Fits(phase', q)
        /\ conn' = "none" \/ (conn' = conn /\ \A k \in 1..Len(q) : q[k].do # "connect")
    BY DEF TypeInv, Started
  <1>2. /\ Len(q) \in Nat /\ Len(prog') = Len(q) + 1
        /\ \A k \in 1..Len(q) : k \in 1..Len(prog') /\ prog'[k] = q[k]
        /\ prog'[Len(prog')].do = "return"
        /\ \A k \in 1..Len(prog') : k \in 1..Len(q) \/ k = Len(prog')
    BY <1>1, StartedShape
  <1> SUFFICES ASSUME driver # "gaussdb"
               PROVE  /\ leaked' <= 1
                      /\ \A k \in 1..Len(prog') :
                           /\ prog'[k].do = "connect" /\ ~Leaks(prog'[k]) => Parted(prog, k)'
                           /\ Leaks(prog'[k]) => leaked' = 0 \/ \E f \in 1..(k - 1) : prog'[f].do = "drop_force"
                      /\ \A j, k \in 1..Len(prog') : Leaks(prog'[j]) /\ Leaks(prog'[k]) => j = k
    BY <1>1 DEF SessionInv, Leaks
  <1>3. Sessions(q)
    BY <1>1 DEF Fits
  <1>4. \A k \in 1..Len(prog') : prog'[k].do = "connect" => k \in 1..Len(q) /\ prog'[k] = q[k]
    BY <1>2
  <1>5. \A k \in 1..Len(prog') : Leaks(prog'[k]) => prog'[k].do = "connect"
    BY DEF Leaks, Leaky
  <1>6. ASSUME NEW k \in 1..Len(prog'), prog'[k].do = "connect", ~Leaks(prog'[k])
        PROVE  Parted(prog, k)'
    <2>1. k \in 1..Len(q) /\ prog'[k] = q[k] /\ conn' = "none"
      BY <1>1, <1>4, <1>6
    <2>2. PICK j \in 0..(k - 1) :
            /\ j = 0 \/ q[j].do = "close"
            /\ \A i \in (j + 1)..(k - 1) : q[i].do \in Quiet
      BY <1>3, <1>6, <2>1 DEF Sessions, PartedIn
    <2>3. \A i \in (j + 1)..(k - 1) : i \in 1..Len(q)
      BY <1>2, <2>1, <2>2
    <2>4. j # 0 => j \in 1..Len(q)
      BY <1>2, <2>1, <2>2
    <2> QED BY <1>2, <2>1, <2>2, <2>3, <2>4 DEF Parted
  <1>7. ASSUME NEW k \in 1..Len(prog'), Leaks(prog'[k])
        PROVE  /\ \E f \in 1..(k - 1) : prog'[f].do = "drop_force"
               /\ \A j \in 1..Len(prog') : Leaks(prog'[j]) => j = k
    <2>1. k \in 1..Len(q) /\ Leaks(q[k])
      BY <1>4, <1>5, <1>7
    <2>2. PICK f \in 1..(k - 1) : q[f].do = "drop_force"
      BY <1>3, <2>1 DEF Sessions, LeaksOnce
    <2>3. f \in 1..Len(q)
      BY <1>2, <2>1
    <2>4. ASSUME NEW j \in 1..Len(prog'), Leaks(prog'[j]) PROVE j = k
      <3>1. j \in 1..Len(q) /\ Leaks(q[j])
        BY <1>4, <1>5, <2>4
      <3> QED BY <1>3, <2>1, <3>1 DEF Sessions, LeaksOnce
    <2> QED BY <1>2, <2>2, <2>3, <2>4
  <1>8. leaked' <= 1
    BY <1>1 DEF SessionInv
  <1> QED BY <1>6, <1>7, <1>8

(* A call keeps CopyInv.                                                   *)
LEMMA StartedCopy ==
  ASSUME TypeInv, ProgInv, CopyInv, NEW q, Started(q), base' \in {base, None} PROVE CopyInv'
PROOF
  <1>1. /\ driver \in Drivers /\ driver' = driver /\ backup' = backup /\ Fits(phase', q)
        /\ task' = TaskOf(phase') /\ prog = <<>>
    BY DEF TypeInv, Started
  <1>2. /\ Len(q) \in Nat /\ Len(prog') = Len(q) + 1
        /\ \A k \in 1..Len(q) : k \in 1..Len(prog') /\ prog'[k] = q[k]
        /\ prog'[Len(prog')].do = "return"
        /\ \A k \in 1..Len(prog') : k \in 1..Len(q) \/ k = Len(prog')
    BY <1>1, StartedShape
  <1> SUFFICES ASSUME driver = "sqlite"
               PROVE  /\ task' # "save" /\ base' # None => backup' = base'
                      /\ task' = "save" => \E k \in 1..Len(prog') : prog'[k].do = "dump"
                      /\ phase' = "restore" => \E k \in 1..Len(prog') : prog'[k].do = "copy_back"
                      /\ \A k \in 1..Len(prog') : prog'[k].do \in {"dump", "copy_back"} => k = Len(prog') - 1
    BY <1>1 DEF CopyInv, None
  <1>3. task \in {"none", "failed"}
    BY <1>1 DEF ProgInv
  <1>4. base' # None => backup' = base'
    BY <1>1, <1>3 DEF CopyInv
  <1>5. task' = "save" => phase' \in {"backup", "m_backup"}
    BY <1>1 DEF TaskOf
  <1>6. /\ OnlyLast(q, {"dump", "copy_back"})
        /\ phase' \in {"backup", "m_backup"} => \E k \in 1..Len(q) : q[k].do = "dump"
        /\ phase' = "restore" => \E k \in 1..Len(q) : q[k].do = "copy_back"
    BY <1>1 DEF Fits
  <1>7. ASSUME NEW k \in 1..Len(prog'), prog'[k].do \in {"dump", "copy_back"} PROVE k = Len(prog') - 1
    <2>1. k \in 1..Len(q) /\ q[k].do \in {"dump", "copy_back"}
      BY <1>2, <1>7
    <2>2. k = Len(q)
      BY <1>6, <2>1 DEF OnlyLast
    <2> QED BY <1>2, <2>2
  <1> QED BY <1>2, <1>4, <1>5, <1>6, <1>7

(* A call keeps CatalogInv.                                                *)
LEMMA StartedCatalog ==
  ASSUME TypeInv, CatalogInv, NEW q, Started(q),
         test'.kind # "none" => Catalogs \subseteq cache.has,
         phase' \in {"restore", "run", "m_reset", "m_feed", "m_backup"} => test'.kind # "none"
  PROVE  CatalogInv'
PROOF
  <1>1. /\ driver \in Drivers /\ driver' = driver /\ cache' = cache /\ Fits(phase', q)
    BY DEF TypeInv, Started
  <1>2. /\ \A k \in 1..Len(q) : k \in 1..Len(prog') /\ prog'[k] = q[k]
        /\ prog' # <<>>
    BY <1>1, StartedShape
  <1>3. Catalogs' = Catalogs
    BY <1>1 DEF Catalogs
  <1>4. phase' = "testing" =>
          \A c \in Catalogs : c \in cache.has \/ \E k \in 1..Len(q) : q[k].do = c /\ q[k].stmt = "cached"
    BY <1>1 DEF Fits
  <1>5. cache.has = cache.read /\ cache.has \subseteq Catalogs
    BY DEF CatalogInv
  <1> QED BY <1>1, <1>2, <1>3, <1>4, <1>5 DEF CatalogInv

(* A call keeps RecordInv.                                                 *)
LEMMA StartedRecord ==
  ASSUME TypeInv, NEW q, Started(q),
         IF phase' = "reset" THEN record' = None ELSE record' = record,
         phase' \in {"ddl", "dml"} => Made < Len(Stmts),
         phase' \in {"schema", "backup"} \cup Saved => Made > 0,
         phase' \in Generating \cup Saved => Made <= Len(Stmts),
         phase' \in Generating /\ driver # "gaussdb" => db = Replay(Rec)
  PROVE  RecordInv'
PROOF
  <1>1. /\ driver \in Drivers /\ driver' = driver /\ db' = db /\ Fits(phase', q) /\ task' = TaskOf(phase')
    BY DEF TypeInv, Started
  <1>2. /\ Len(q) \in Nat /\ Len(prog') = Len(q) + 1
        /\ \A k \in 1..Len(q) : k \in 1..Len(prog') /\ prog'[k] = q[k]
        /\ prog'[Len(prog')].do = "return"
        /\ \A k \in 1..Len(prog') : k \in 1..Len(q) \/ k = Len(prog')
    BY <1>1, StartedShape
  <1>3. phase' # "reset" => Made' = Made /\ Rec' = Rec
    BY DEF Made, Rec, None
  <1>4. phase' = "reset" => record' = None /\ Made' = 0 /\ 0 <= Len(Stmts)
    <2>1. Len(Stmts) \in Nat
      BY NamesAssumption
    <2> QED BY <2>1 DEF Made, None
  <1>5. ASSUME phase' \in {"ddl", "dml"}, NEW k \in 1..Len(prog'), prog'[k].do = "insert"
        PROVE  k = Len(prog') - 1 /\ prog'[k].stmt = Stmts[Made + 1]
    <2>1. k \in 1..Len(q) /\ q[k] = prog'[k]
      BY <1>2, <1>5
    <2>2. k = Len(q) /\ q[k].stmt = Stmts[Made + 1]
      BY <1>1, <1>5, <2>1 DEF Fits
    <2> QED BY <1>2, <2>1, <2>2
  <1>6. task' # "none" /\ task' # "failed"
    BY <1>1 DEF TaskOf
  <1> QED BY <1>1, <1>3, <1>4, <1>5, <1>6 DEF RecordInv, Generating, Saved, None

(* What holds of the rest of the state when an operation is called.        *)
Begins ==
  /\ parent' = parent /\ pipe' = pipe /\ tests' = tests
  /\ phase' \in Phases \ {"none", "boot"}
  /\ phase' # "reset" => phase \notin {"none", "boot"}
  /\ IF phase' = "reset" THEN record' = None /\ base' = None ELSE record' = record /\ base' = base
  /\ removed' \in 0..Len(Stmts) /\ queue' \in Records /\ removed' <= Len(queue')
  /\ removed' = 0 => removed = 0
  /\ phase' \in {"m_reset", "m_feed", "m_backup"} => removed' > 0
  /\ phase' \in {"reset", "testing"} \cup Generating => removed' = 0
  /\ phase' \in {"restore", "run"} /\ removed' = 0 => tests < TestNum
  /\ try_time' \in [Counters -> Nat] /\ leaked_tries' \in [Counters -> Nat]
  /\ "kind" \in DOMAIN test'
  /\ test'.kind # "none" => Catalogs \subseteq cache.has
  /\ phase' \in {"restore", "run", "m_reset", "m_feed", "m_backup"} => test'.kind # "none"
  /\ phase' \in Generating \cup {"m_feed", "m_backup"} => db # Absent
  /\ phase' \in {"ddl", "dml"} => Made < Len(Stmts)
  /\ phase' \in {"schema", "backup"} \cup Saved => Made > 0
  /\ phase' \in Generating \cup Saved => Made <= Len(Stmts)
  /\ phase' \in Generating /\ driver # "gaussdb" => db = Replay(Rec)
  /\ phase' \in {"ddl", "dml", "schema", "backup"} => base = None
  /\ phase' \in {"testing", "restore", "run"} => base # None
  /\ phase' \in Saved /\ driver \notin Dumping => base # None

(* A call keeps the types of the variables.                                *)
LEMMA StartedType ==
  ASSUME TypeInv, NEW q, Started(q), Begins PROVE TypeInv'
PROOF
  <1>1. /\ driver' = driver /\ up' = up /\ db' = db /\ leaked' = leaked /\ backup' = backup
        /\ child' = child /\ child' = "running" /\ exn' = "none" /\ task' = TaskOf(phase')
        /\ faults' = faults /\ conn' \in {"none", conn}
    BY DEF Started
  <1>2. /\ parent' = parent /\ pipe' = pipe /\ tests' = tests
        /\ phase' \in Phases /\ record' \in {record, None} /\ base' \in {base, None}
        /\ removed' \in 0..Len(Stmts) /\ queue' \in Records
        /\ phase' \in {"restore", "run"} /\ removed' = 0 => tests < TestNum
        /\ try_time' \in [Counters -> Nat] /\ leaked_tries' \in [Counters -> Nat]
        /\ "kind" \in DOMAIN test'
    BY DEF Begins
  <1>3. task' \in {"run", "save", "restore"}
    BY <1>1 DEF TaskOf
  <1>4. /\ driver \in Drivers /\ up \in BOOLEAN /\ db \in Databases
        /\ conn \in {"none", "default", "test", "dead"} /\ leaked \in Nat
        /\ record \in Records \cup {None}
        /\ backup \in Databases \cup Records \cup {None} /\ backup # Absent
        /\ driver \in Dumping => backup \in Databases \cup {None}
        /\ faults \in 0..MaxFaults
        /\ parent \in {"fork", "wait", "read", "aborted"}
        /\ pipe = (IF child = "success" THEN 1 ELSE 0)
        /\ parent = "fork" => child = "none"
        /\ tests \in 0..TestNum /\ base \in Databases \cup {None}
    BY DEF TypeInv
  <1>5. /\ driver' \in Drivers /\ up' \in BOOLEAN /\ db' \in Databases
        /\ conn' \in {"none", "default", "test", "dead"} /\ leaked' \in Nat
        /\ record' \in Records \cup {None}
        /\ backup' \in Databases \cup Records \cup {None} /\ backup' # Absent
        /\ driver' \in Dumping => backup' \in Databases \cup {None}
    BY <1>1, <1>2, <1>4
  <1>6. /\ exn' \in {"none", "plain", "fatal", "expected", "abort"}
        /\ task' \in {"none", "run", "save", "restore", "failed"}
        /\ faults' \in 0..MaxFaults
        /\ parent' \in {"fork", "wait", "read", "aborted"}
        /\ child' \in {"none", "running", "success", "failure", "signalled"}
        /\ pipe' = (IF child' = "success" THEN 1 ELSE 0)
        /\ parent' = "fork" => child' = "none"
        /\ tests' \in 0..TestNum /\ base' \in Databases \cup {None}
    BY <1>1, <1>2, <1>3, <1>4
  <1>7. None' = None /\ Absent' = Absent /\ Databases' = Databases /\ Records' = Records
    BY DEF None, Absent, Databases, Records
  <1>8. Counters' = Counters /\ Phases' = Phases /\ Dumping' = Dumping
    BY DEF Counters, Phases, Dumping
  <1> QED BY <1>2, <1>5, <1>6, <1>7, <1>8 DEF TypeInv

(* A call keeps BaseInv.                                                   *)
LEMMA StartedBase ==
  ASSUME TypeInv, BaseInv, NEW q, Started(q), Begins PROVE BaseInv'
PROOF
  <1>1. driver' = driver /\ child = "running" /\ task' = TaskOf(phase') /\ task' # "none"
    BY DEF Started, TaskOf
  <1>2. CASE phase' = "reset"
    <2>1. base' = None /\ removed' = 0 /\ removed' <= Len(queue') /\ None # Absent
      BY <1>2, DatabaseTypes DEF Begins
    <2> QED BY <1>1, <1>2, <2>1 DEF BaseInv, Generating, Saved, None, Absent
  <1>3. CASE phase' # "reset"
    <2>1. /\ record' = record /\ base' = base /\ phase \notin {"none", "boot"}
          /\ base # Absent /\ removed' <= Len(queue')
      BY <1>3 DEF Begins, BaseInv
    <2>2. /\ phase' \in {"ddl", "dml", "schema", "backup"} => base = None
          /\ phase' \in {"testing", "restore", "run"} => base # None
          /\ phase' \in {"m_reset", "m_feed", "m_backup"} => removed' > 0
          /\ phase' \in {"testing"} \cup Generating => removed' = 0
          /\ phase' \in Saved /\ driver \notin Dumping => base # None
          /\ phase' \notin {"none", "boot"}
      BY <1>3 DEF Begins
    <2>3. base # None /\ driver # "gaussdb" /\ (removed' = 0 \/ driver \notin Dumping)
            => Replay(record) = base
      BY <1>1, <2>1 DEF Begins, BaseInv
    <2>4. base # None /\ driver # "gaussdb" /\ (removed' = 0 \/ driver \notin Dumping)
            => Replay(record') = base
      BY <2>1, <2>3
    <2> QED BY <1>1, <1>3, <2>1, <2>2, <2>4 DEF BaseInv, None, Absent
  <1> QED BY <1>2, <1>3

(* A call keeps the invariant.                                             *)
LEMMA Begun ==
  ASSUME IInv, NEW q, Started(q), Begins PROVE IInv'
PROOF
  <1>1. /\ TypeInv /\ ProgInv /\ RecordInv /\ BaseInv /\ CopyInv /\ CatalogInv /\ SessionInv
    BY DEF IInv
  <1>2. TypeInv' /\ BaseInv'
    BY <1>1, StartedType, StartedBase
  <1>3. ProgInv' /\ ExnInv' /\ FreshInv' /\ ReplayInv' /\ MakerInv'
    BY <1>1, StartedProgram DEF Begins
  <1>4. SessionInv'
    BY <1>1, StartedSession
  <1>5. CopyInv'
    <2>1. base' \in {base, None}
      BY DEF Begins
    <2> QED BY <1>1, <2>1, StartedCopy
  <1>6. CatalogInv'
    BY <1>1, StartedCatalog DEF Begins
  <1>7. RecordInv'
    BY <1>1, StartedRecord DEF Begins
  <1> QED BY <1>2, <1>3, <1>4, <1>5, <1>6, <1>7 DEF IInv

(* A call on a new dut.                                                    *)
LEMMA NewDutStarts ==
  ASSUME NEW p, NEW t, NewDut(t, p), t = TaskOf(phase'), child = "running", child' = child,
         Fits(phase', D.conn.open \o p), Len(D.conn.open \o p) >= 1, Maker((D.conn.open \o p)[1])
  PROVE  Started(D.conn.open \o p)
PROOF
  BY DEF NewDut, Call, dbUntouched, Started

(* A call on the dut the child has.                                        *)
LEMMA SameDutStarts ==
  ASSUME NEW p, NEW t, SameDut(t, p), t = TaskOf(phase'), child = "running", child' = child,
         Fits(phase', p), db # Absent, \A k \in 1..Len(p) : p[k].do # "connect"
  PROVE  Started(p)
PROOF
  BY DEF SameDut, Call, dbUntouched, Started

(* A query is run: a SELECT as it stands, a change on the restored database.*)
LEMMA ExecuteStarts ==
  ASSUME driver \in Drivers, NEW kind, Execute(kind), child = "running", child' = child
  PROVE  (\E q : Started(q)) /\ phase' \in {"run", "restore"}
PROOF
  <1>1. CASE kind = "select"
    <2> DEFINE p == D.test.settings \o <<Statement("query", "none")>>
    <2>1. phase' = "run" /\ NewDut("run", p) /\ TaskOf(phase') = "run"
      BY <1>1 DEF Execute, TaskOf
    <2>2. Fits("run", D.conn.open \o p) /\ Len(D.conn.open \o p) >= 1 /\ Maker((D.conn.open \o p)[1])
      BY QueryFits
    <2> HIDE DEF p
    <2>3. Started(D.conn.open \o p)
      BY <2>1, <2>2, NewDutStarts
    <2> QED BY <2>1, <2>3
  <1>2. CASE kind # "select"
    <2> DEFINE p == D.life.restore
    <2>1. phase' = "restore" /\ NewDut("restore", p) /\ TaskOf(phase') = "restore"
      BY <1>2 DEF Execute, TaskOf
    <2>2. Fits("restore", D.conn.open \o p) /\ Len(D.conn.open \o p) >= 1 /\ Maker((D.conn.open \o p)[1])
      BY RestoreFits
    <2> HIDE DEF p
    <2>3. Started(D.conn.open \o p)
      BY <2>1, <2>2, NewDutStarts
    <2> QED BY <2>1, <2>3
  <1> QED BY <1>1, <1>2

(* reset() is called.                                                      *)
LEMMA ResetStarts ==
  ASSUME driver \in Drivers, NewDut("run", D.life.reset), phase' \in {"reset", "m_reset"},
         child = "running", child' = child
  PROVE  \E q : Started(q)
PROOF
  <1>1. /\ Fits(phase', D.conn.open \o D.life.reset) /\ Len(D.conn.open \o D.life.reset) >= 1
        /\ Maker((D.conn.open \o D.life.reset)[1])
    BY ResetFits
  <1>2. TaskOf(phase') = "run"
    BY DEF TaskOf
  <1> QED BY <1>1, <1>2, NewDutStarts

(* get_schema() is called.                                                 *)
LEMMA LoadStarts ==
  ASSUME driver \in Drivers, Call("run", LoadSchema), conn' = "none", dbUntouched,
         phase' \in {"schema", "testing"}, child = "running", child' = child
  PROVE  Started(LoadSchema)
PROOF
  <1>1. Fits(phase', LoadSchema) /\ Len(LoadSchema) >= 1 /\ Maker(LoadSchema[1])
    BY SchemaFits
  <1>2. TaskOf(phase') = "run"
    BY DEF TaskOf
  <1> QED BY <1>1, <1>2 DEF Call, dbUntouched, Started

(* backup() is called.                                                     *)
LEMMA BackupStarts ==
  ASSUME driver \in Drivers, child = "running", child' = child,
         \/ phase' = "backup" /\ NewDut("save", D.life.backup)
         \/ phase' = "m_backup" /\ SameDut("save", D.life.backup) /\ db # Absent
  PROVE  \E q : Started(q)
PROOF
  <1> DEFINE p == D.life.backup
  <1>1. TaskOf(phase') = "save"
    BY DEF TaskOf
  <1>2. /\ Fits("backup", D.conn.open \o p) /\ Len(D.conn.open \o p) >= 1 /\ Maker((D.conn.open \o p)[1])
        /\ Fits("m_backup", p) /\ \A k \in 1..Len(p) : p[k].do # "connect"
    BY BackupFits
  <1>3. CASE phase' = "backup" /\ NewDut("save", p)
    <2>1. Started(D.conn.open \o p)
      BY <1>1, <1>2, <1>3, NewDutStarts
    <2> QED BY <2>1
  <1>4. CASE phase' = "m_backup" /\ SameDut("save", p) /\ db # Absent
    <2>1. Started(p)
      BY <1>1, <1>2, <1>4, SameDutStarts
    <2> QED BY <2>1
  <1> QED BY <1>3, <1>4

(* interect_test() or normal_test() makes a statement.                     *)
LEMMA InsertStarts ==
  ASSUME TypeInv, Made < Len(Stmts), child = "running", child' = child,
         interect_test \/ normal_test
  PROVE  (\E q : Started(q)) /\ phase' \in {"ddl", "dml"} /\ record' = record
PROOF
  <1> DEFINE i == <<Statement("insert", Stmts[Made + 1])>>
  <1>1. driver \in Drivers /\ Made \in Nat
    BY RecordTypes DEF TypeInv
  <1>2. /\ Fits("dml", D.conn.open \o i) /\ Len(D.conn.open \o i) >= 1 /\ Maker((D.conn.open \o i)[1])
        /\ Fits("ddl", LoadSchema \o D.conn.open \o i) /\ Len(LoadSchema \o D.conn.open \o i) >= 1
        /\ Maker((LoadSchema \o D.conn.open \o i)[1])
    BY <1>1, InsertFits
  <1>3. CASE interect_test
    <2> DEFINE l == LoadSchema \o D.conn.open \o i
    <2>1. phase' = "ddl" /\ record' = record /\ Call("run", l) /\ conn' = "none" /\ dbUntouched
      BY <1>3 DEF interect_test
    <2>2. TaskOf(phase') = "run"
      BY <2>1 DEF TaskOf
    <2>3. Fits(phase', l) /\ Len(l) >= 1 /\ Maker(l[1])
      BY <1>2, <2>1
    <2> HIDE DEF l
    <2>4. Started(l)
      BY <2>1, <2>2, <2>3 DEF Call, dbUntouched, Started
    <2> QED BY <2>1, <2>4
  <1>4. CASE normal_test
    <2>1. phase' = "dml" /\ record' = record /\ NewDut("run", i)
      BY <1>4 DEF normal_test
    <2>2. TaskOf(phase') = "run"
      BY <2>1 DEF TaskOf
    <2> HIDE DEF i
    <2>3. Started(D.conn.open \o i)
      BY <1>2, <2>1, <2>2, NewDutStarts
    <2> QED BY <2>1, <2>3
  <1> QED BY <1>3, <1>4

(* From one phase behind backup() to another.                              *)
LEMMA SavedBegins ==
  ASSUME IInv, phase \in Saved, phase' \in Saved \ {"testing"},
         UNCHANGED <<parent, pipe, tests, record, base>>,
         try_time' \in [Counters -> Nat], leaked_tries' \in [Counters -> Nat],
         removed' \in 0..Len(Stmts), queue' \in Records, removed' <= Len(queue'),
         removed' = 0 => removed = 0,
         phase' \in {"m_reset", "m_feed", "m_backup"} => removed' > 0,
         phase' \in {"restore", "run"} =>
           base # None /\ (removed' = 0 => tests < TestNum),
         phase' \in {"m_feed", "m_backup"} => db # Absent,
         "kind" \in DOMAIN test', test'.kind # "none",
         test.kind # "none" \/ Catalogs \subseteq cache.has
  PROVE  Begins
PROOF
  <1>1. phase' \in Phases \ {"none", "boot"} /\ phase \notin {"none", "boot"} /\ phase' # "reset"
    BY DEF Saved, Phases
  <1>2. phase' \notin {"reset", "testing"} \cup Generating
    BY DEF Saved, Generating
  <1>3. Catalogs \subseteq cache.has
    BY DEF IInv, CatalogInv
  <1>4. Made > 0 /\ Made <= Len(Stmts)
    BY DEF IInv, RecordInv
  <1>5. driver \notin Dumping => base # None
    BY DEF IInv, BaseInv
  <1> QED BY <1>1, <1>2, <1>3, <1>4, <1>5 DEF Begins, Generating

(* What holds between two operations.                                      *)
LEMMA Between ==
  ASSUME IInv, child = "running", prog = <<>>
  PROVE  /\ driver \in Drivers /\ "kind" \in DOMAIN test /\ task \in {"none", "failed"}
         /\ removed \in 0..Len(Stmts) /\ queue \in Records /\ removed <= Len(queue)
         /\ try_time \in [Counters -> Nat] /\ leaked_tries \in [Counters -> Nat]
         /\ Made \in Nat /\ Len(Stmts) \in Nat /\ tests \in 0..TestNum
         /\ phase \in {"restore", "run"} => base # None /\ (removed = 0 => tests < TestNum)
         /\ phase \in {"restore", "run", "m_reset", "m_feed", "m_backup"} =>
              test.kind # "none" /\ phase \in Saved
         /\ phase \in {"m_reset", "m_feed", "m_backup"} => removed > 0
         /\ task = "none" /\ phase \notin {"none", "boot"} => db # Absent
         /\ phase \in {"m_feed", "m_backup"} => db # Absent
PROOF
  <1>1. Len(Stmts) \in Nat
    BY NamesAssumption
  <1>2. /\ driver \in Drivers /\ "kind" \in DOMAIN test /\ task \in {"none", "failed"}
        /\ removed \in 0..Len(Stmts) /\ queue \in Records /\ tests \in 0..TestNum
        /\ try_time \in [Counters -> Nat] /\ leaked_tries \in [Counters -> Nat]
        /\ phase \in {"restore", "run"} => (removed = 0 => tests < TestNum)
    BY DEF IInv, TypeInv, ProgInv
  <1>3. Made \in Nat
    BY RecordTypes DEF IInv
  <1>4. /\ removed <= Len(queue)
        /\ phase \in {"restore", "run"} => base # None
        /\ phase \in {"m_reset", "m_feed", "m_backup"} => removed > 0
    BY DEF IInv, BaseInv
  <1>5. /\ phase \in {"restore", "run", "m_reset", "m_feed", "m_backup"} =>
             test.kind # "none" /\ phase \in Saved
    BY DEF IInv, CatalogInv, Saved
  <1>6. /\ task = "none" /\ phase \notin {"none", "boot"} => db # Absent
        /\ phase \in {"m_feed", "m_backup"} => db # Absent
    BY DEF IInv, MakerInv
  <1> QED BY <1>1, <1>2, <1>3, <1>4, <1>5, <1>6

-----------------------------------------------------------------------------
(***************************************************************************)
(* The actions that call an operation.                                     *)
(***************************************************************************)

(* The fields of a test but its kind.                                      *)
LEMMA KindKept ==
  ASSUME NEW t, NEW f \in {"start", "run", "orig", "qit"}, NEW v, "kind" \in DOMAIN t
  PROVE  "kind" \in DOMAIN [t EXCEPT ![f] = v] /\ [t EXCEPT ![f] = v].kind = t.kind
PROOF
  OBVIOUS

(* What the actions change in a test leaves its kind alone.                *)
LEMMA TestKept ==
  ASSUME "kind" \in DOMAIN test
  PROVE  /\ "kind" \in DOMAIN [test EXCEPT !.start = db] /\ [test EXCEPT !.start = db].kind = test.kind
         /\ "kind" \in DOMAIN Measured /\ Measured.kind = test.kind
         /\ \A r : /\ "kind" \in DOMAIN [Measured EXCEPT !.run = r, !.start = db]
                   /\ [Measured EXCEPT !.run = r, !.start = db].kind = test.kind
         /\ \A k : /\ "kind" \in DOMAIN [NoTest EXCEPT !.kind = k, !.run = "orig", !.start = db]
                   /\ [NoTest EXCEPT !.kind = k, !.run = "orig", !.start = db].kind = k
PROOF
  <1>1. "kind" \in DOMAIN [test EXCEPT !.start = db] /\ [test EXCEPT !.start = db].kind = test.kind
    BY KindKept
  <1>2. "kind" \in DOMAIN Measured /\ Measured.kind = test.kind
    <2>1. Side(test.run) \in {"start", "run", "orig", "qit"}
      BY DEF Side
    <2> QED BY <2>1, KindKept DEF Measured
  <1>3. ASSUME NEW r
        PROVE  /\ "kind" \in DOMAIN [Measured EXCEPT !.run = r, !.start = db]
               /\ [Measured EXCEPT !.run = r, !.start = db].kind = test.kind
    <2> DEFINE m == [Measured EXCEPT !.run = r]
    <2>1. "kind" \in DOMAIN m /\ m.kind = test.kind
      BY <1>2, KindKept
    <2>2. [Measured EXCEPT !.run = r, !.start = db] = [m EXCEPT !.start = db]
      OBVIOUS
    <2> HIDE DEF m
    <2> QED BY <2>1, <2>2, KindKept
  <1>4. ASSUME NEW k
        PROVE  /\ "kind" \in DOMAIN [NoTest EXCEPT !.kind = k, !.run = "orig", !.start = db]
               /\ [NoTest EXCEPT !.kind = k, !.run = "orig", !.start = db].kind = k
    BY DEF NoTest
  <1> QED BY <1>1, <1>2, <1>3, <1>4

(* NextTest keeps the invariant: no tester gets a schema without a catalog.*)
LEMMA NextTestKeeps ==
  ASSUME IInv, NextTest PROVE IInv'
PROOF
  <1>1. /\ child = "running" /\ child' = child /\ prog = <<>> /\ phase = "testing" /\ exn = "none"
        /\ tests < TestNum
    BY DEF NextTest
  <1>2. PICK k \in Kinds : test' = [NoTest EXCEPT !.kind = k, !.run = "orig", !.start = db] /\ Execute(k)
    BY DEF NextTest
  <1>3. /\ driver \in Drivers /\ removed \in 0..Len(Stmts) /\ queue \in Records /\ removed <= Len(queue)
        /\ try_time \in [Counters -> Nat] /\ leaked_tries \in [Counters -> Nat]
    BY <1>1, Between
  <1>4. (\E q : Started(q)) /\ phase' \in {"run", "restore"}
    BY <1>1, <1>2, <1>3, ExecuteStarts
  <1>5. /\ phase \in Saved /\ phase' \in Saved \ {"testing"}
        /\ phase' \notin {"m_reset", "m_feed", "m_backup"}
    BY <1>1, <1>4 DEF Saved
  <1>6. base # None
    BY <1>1 DEF IInv, BaseInv
  <1>7. Catalogs \subseteq cache.has
    BY <1>1 DEF IInv, CatalogInv
  <1>8. "kind" \in DOMAIN test' /\ test'.kind # "none"
    <2>1. k # "none"
      BY DEF Kinds
    <2> QED BY <1>2, <2>1 DEF NoTest
  <1>9. /\ UNCHANGED <<parent, pipe, tests, record, base, removed, queue, leaked_tries>>
        /\ try_time' = [try_time EXCEPT !["schema"] = leaked_tries["schema"]]
    BY DEF NextTest
  <1>10. try_time' \in [Counters -> Nat] /\ leaked_tries' \in [Counters -> Nat]
    BY <1>3, <1>9 DEF Counters
  <1>11. Begins
    BY <1>1, <1>3, <1>5, <1>6, <1>7, <1>8, <1>9, <1>10, SavedBegins
  <1> QED BY <1>4, <1>11, Begun

(* ChangeRestored keeps the invariant.                                     *)
LEMMA ChangeRestoredKeeps ==
  ASSUME IInv, ChangeRestored PROVE IInv'
PROOF
  <1> DEFINE p == <<D.life.content>> \o D.test.settings \o <<Statement("write", "w"), D.life.content>>
  <1>1. /\ child = "running" /\ child' = child /\ prog = <<>> /\ phase = "restore" /\ task = "none"
        /\ test' = [test EXCEPT !.start = db] /\ phase' = "run" /\ SameDut("run", p)
        /\ UNCHANGED <<parent, pipe, tests, record, base, removed, queue, try_time, leaked_tries>>
    BY DEF ChangeRestored, Returned, testSame
  <1>2. /\ driver \in Drivers /\ removed \in 0..Len(Stmts) /\ queue \in Records /\ removed <= Len(queue)
        /\ try_time \in [Counters -> Nat] /\ leaked_tries \in [Counters -> Nat]
        /\ "kind" \in DOMAIN test /\ test.kind # "none" /\ base # None /\ (removed = 0 => tests < TestNum)
        /\ db # Absent
    BY <1>1, Between
  <1>3. Fits("run", p) /\ \A k \in 1..Len(p) : p[k].do # "connect"
    BY <1>2, ChangeFits
  <1> HIDE DEF p
  <1>4. Started(p)
    BY <1>1, <1>2, <1>3, SameDutStarts DEF TaskOf
  <1>5. "kind" \in DOMAIN test' /\ test'.kind # "none"
    BY <1>1, <1>2, TestKept
  <1>6. /\ phase \in Saved /\ phase' \in Saved \ {"testing"}
        /\ phase' \notin {"m_reset", "m_feed", "m_backup"}
    BY <1>1 DEF Saved
  <1>7. Begins
    BY <1>1, <1>2, <1>5, <1>6, SavedBegins
  <1> QED BY <1>4, <1>7, Begun

(* Another execution of the query under test.                              *)
LEMMA ExecuteKeeps ==
  ASSUME IInv, child = "running", child' = child, prog = <<>>, phase \in {"restore", "run", "m_backup"},
         phase = "m_backup" => task = "none",
         Execute(test.kind), "kind" \in DOMAIN test', test'.kind = test.kind,
         UNCHANGED <<parent, pipe, tests, record, base, removed, queue, try_time, leaked_tries>>
  PROVE  IInv'
PROOF
  <1>1. /\ driver \in Drivers /\ removed \in 0..Len(Stmts) /\ queue \in Records /\ removed <= Len(queue)
        /\ try_time \in [Counters -> Nat] /\ leaked_tries \in [Counters -> Nat]
        /\ test.kind # "none" /\ phase \in Saved /\ test'.kind # "none"
    BY Between
  <1>2. base # None /\ (removed = 0 => tests < TestNum)
    <2>1. CASE phase \in {"restore", "run"}
      BY <2>1, Between
    <2>2. CASE phase = "m_backup"
      BY <2>2 DEF IInv, BaseInv
    <2> QED BY <2>1, <2>2
  <1>3. (\E q : Started(q)) /\ phase' \in {"run", "restore"}
    BY <1>1, ExecuteStarts
  <1>4. /\ phase' \in Saved \ {"testing"}
        /\ phase' \notin {"m_reset", "m_feed", "m_backup"}
    BY <1>3 DEF Saved
  <1>5. Begins
    BY <1>1, <1>2, <1>3, <1>4, SavedBegins
  <1> QED BY <1>3, <1>5, Begun

(* The runs of a query and of its transformed form keep the invariant.     *)
LEMMA RunsKeep ==
  ASSUME IInv, NextRun \/ AnotherQuery \/ TestAgain PROVE IInv'
PROOF
  <1>1. "kind" \in DOMAIN test
    BY DEF IInv, TypeInv
  <1>2. CASE NextRun
    <2>1. /\ child = "running" /\ child' = child /\ prog = <<>> /\ phase = "run" /\ Execute(test.kind)
          /\ UNCHANGED <<parent, pipe, tests, record, base, removed, queue, try_time, leaked_tries>>
          /\ test' = [Measured EXCEPT !.run = Following(test.run), !.start = db]
      BY <1>2 DEF NextRun, Returned, testSame
    <2>2. "kind" \in DOMAIN test' /\ test'.kind = test.kind
      BY <1>1, <2>1, TestKept
    <2> QED BY <2>1, <2>2, ExecuteKeeps
  <1>3. CASE AnotherQuery
    <2>1. /\ child = "running" /\ child' = child /\ prog = <<>> /\ phase \in {"restore", "run"}
          /\ Execute(test.kind)
          /\ UNCHANGED <<parent, pipe, tests, record, base, removed, queue, try_time, leaked_tries>>
          /\ test' = [test EXCEPT !.start = db]
      BY <1>3 DEF AnotherQuery, Threw, testSame
    <2>2. "kind" \in DOMAIN test' /\ test'.kind = test.kind
      BY <1>1, <2>1, TestKept
    <2> QED BY <2>1, <2>2, ExecuteKeeps
  <1>4. CASE TestAgain
    <2>1. /\ child = "running" /\ child' = child /\ prog = <<>> /\ phase = "m_backup" /\ task = "none"
          /\ Execute(test.kind)
          /\ UNCHANGED <<parent, pipe, tests, record, base, removed, queue, try_time, leaked_tries>>
          /\ test' = [NoTest EXCEPT !.kind = test.kind, !.run = "orig", !.start = db]
      BY <1>4 DEF TestAgain, Returned, minSame
    <2>2. "kind" \in DOMAIN test' /\ test'.kind = test.kind
      BY <1>1, <2>1, TestKept
    <2> QED BY <2>1, <2>2, ExecuteKeeps
  <1> QED BY <1>2, <1>3, <1>4

(* What is left when a statement is removed.                               *)
LEMMA CandidateFits ==
  ASSUME queue \in Records, removed \in 1..Len(queue)
  PROVE  Candidate \in Records /\ Len(Candidate) = Len(queue) - 1
PROOF
  <1> DEFINE X == ToSet(Stmts) \cup {"noop"}
             n == Len(queue)
             a == SubSeq(queue, 1, removed - 1)
             b == SubSeq(queue, removed + 1, n)
  <1>1. queue \in Seq(X) /\ n \in Nat /\ removed \in 1..n
    BY DEF Records
  <1> HIDE DEF X
  <1>2. a \in Seq(X) /\ Len(a) = removed - 1
    BY <1>1
  <1>3. b \in Seq(X) /\ Len(b) = n - removed
    BY <1>1
  <1>4. Candidate = a \o b
    BY DEF Candidate, RemoveAt
  <1> HIDE DEF a, b, n
  <1>5. a \o b \in Seq(X) /\ Len(a \o b) = Len(a) + Len(b)
    BY <1>2, <1>3
  <1>6. Len(a \o b) = n - 1
    BY <1>1, <1>2, <1>3, <1>5
  <1> QED BY <1>4, <1>5, <1>6 DEF Records, X, n

(* LogicBug keeps the invariant: there is a record to reduce.              *)
LEMMA LogicBugKeeps ==
  ASSUME IInv, LogicBug PROVE IInv'
PROOF
  <1>1. /\ child = "running" /\ child' = child /\ prog = <<>> /\ phase = "run" /\ task = "none"
        /\ queue' = record /\ removed' = Len(record) /\ test' = Measured /\ phase' = "m_reset"
        /\ NewDut("run", D.life.reset)
        /\ UNCHANGED <<parent, pipe, tests, record, base, try_time, leaked_tries>>
    BY DEF LogicBug, BugSeen, Returned, minSame
  <1>2. /\ driver \in Drivers /\ try_time \in [Counters -> Nat] /\ leaked_tries \in [Counters -> Nat]
        /\ "kind" \in DOMAIN test /\ test.kind # "none" /\ Made \in Nat /\ Len(Stmts) \in Nat
    BY <1>1, Between
  <1>3. /\ phase \in Saved /\ phase' \in Saved \ {"testing"} /\ phase' \notin {"restore", "run", "m_feed", "m_backup"}
    BY <1>1 DEF Saved
  <1>4. Made > 0 /\ Made <= Len(Stmts)
    BY <1>3 DEF IInv, RecordInv
  <1>5. record # None /\ Made = Len(record)
    BY <1>4 DEF Made
  <1>6. record \in Records
    BY <1>5 DEF IInv, TypeInv
  <1>7. removed' \in 0..Len(Stmts) /\ removed' > 0 /\ removed' # 0 /\ removed' <= Len(queue') /\ queue' \in Records
    BY <1>1, <1>2, <1>4, <1>5, <1>6
  <1>8. "kind" \in DOMAIN test' /\ test'.kind # "none"
    BY <1>1, <1>2, TestKept
  <1>9. Begins
    BY <1>1, <1>2, <1>3, <1>7, <1>8, SavedBegins
  <1>10. \E q : Started(q)
    BY <1>1, <1>2, ResetStarts
  <1> QED BY <1>9, <1>10, Begun

\* An operation of minimize_qcn_database() but the test of the query.
LEMMA MinimizeKeeps ==
  ASSUME IInv, child = "running", child' = child, prog = <<>>,
         phase \in {"restore", "run", "m_reset", "m_feed", "m_backup"},
         phase' \in {"m_reset", "m_feed", "m_backup"},
         phase' # "m_reset" => db # Absent,
         NEW q, Started(q), removed' \in 0..Len(Stmts), removed' > 0,
         queue' \in Records, removed' <= Len(queue'),
         UNCHANGED <<parent, pipe, tests, test, record, base, try_time, leaked_tries>>
  PROVE  IInv'
PROOF
  <1>1. /\ try_time \in [Counters -> Nat] /\ leaked_tries \in [Counters -> Nat]
        /\ "kind" \in DOMAIN test /\ test.kind # "none" /\ phase \in Saved
    BY Between
  <1>2. phase' \in Saved \ {"testing"} /\ phase' \notin {"restore", "run"} /\ removed' # 0
    BY DEF Saved
  <1>3. Begins
    BY <1>1, <1>2, SavedBegins
  <1> QED BY <1>3, Begun

(* ResetAgain keeps the invariant.                                         *)
LEMMA ResetAgainKeeps ==
  ASSUME IInv, ResetAgain PROVE IInv'
PROOF
  <1>1. /\ child = "running" /\ child' = child /\ prog = <<>> /\ phase = "m_reset" /\ phase' = phase
        /\ NewDut("run", D.life.reset)
        /\ UNCHANGED <<parent, pipe, tests, test, record, base, try_time, leaked_tries, queue, removed>>
    BY DEF ResetAgain, Threw, minSame
  <1>2. /\ driver \in Drivers /\ removed \in 0..Len(Stmts) /\ removed > 0
        /\ queue \in Records /\ removed <= Len(queue)
    BY <1>1, Between
  <1>3. \E q : Started(q)
    BY <1>1, <1>2, ResetStarts
  <1> QED BY <1>1, <1>2, <1>3, MinimizeKeeps

(* Feed keeps the invariant.                                               *)
LEMMA FeedKeeps ==
  ASSUME IInv, Feed PROVE IInv'
PROOF
  <1> DEFINE p == [i \in 1..Len(Candidate) |-> Statement("apply", Candidate[i])]
  <1>1. /\ child = "running" /\ child' = child /\ prog = <<>> /\ phase = "m_reset" /\ phase' = "m_feed"
        /\ task = "none" /\ SameDut("run", p)
        /\ UNCHANGED <<parent, pipe, tests, test, record, base, try_time, leaked_tries, queue, removed>>
    BY DEF Feed, Returned, minSame
  <1>2. /\ driver \in Drivers /\ removed \in 0..Len(Stmts) /\ removed > 0
        /\ queue \in Records /\ removed <= Len(queue) /\ db # Absent
    BY <1>1, Between
  <1>3. removed \in 1..Len(queue)
    <2>1. Len(queue) \in Nat /\ removed \in Nat
      BY <1>2 DEF Records
    <2> QED BY <1>2, <2>1
  <1>4. Candidate \in Seq(ToSet(Stmts) \cup {"noop"})
    BY <1>2, <1>3, CandidateFits DEF Records
  <1>5. Fits("m_feed", p) /\ \A k \in 1..Len(p) : p[k].do # "connect"
    BY <1>2, <1>4, FeedFits
  <1> HIDE DEF p
  <1>6. Started(p)
    BY <1>1, <1>2, <1>5, SameDutStarts DEF TaskOf
  <1> QED BY <1>1, <1>2, <1>6, MinimizeKeeps

(* Save keeps the invariant.                                               *)
LEMMA SaveKeeps ==
  ASSUME IInv, Save PROVE IInv'
PROOF
  <1>1. /\ child = "running" /\ child' = child /\ prog = <<>> /\ phase \in {"m_feed", "m_backup"}
        /\ phase' = "m_backup" /\ SameDut("save", D.life.backup)
        /\ UNCHANGED <<parent, pipe, tests, test, record, base, try_time, leaked_tries, queue, removed>>
    BY DEF Save, Returned, Threw, minSame
  <1>2. /\ driver \in Drivers /\ removed \in 0..Len(Stmts) /\ removed > 0
        /\ queue \in Records /\ removed <= Len(queue) /\ db # Absent
    BY <1>1, Between
  <1>3. \E q : Started(q)
    BY <1>1, <1>2, BackupStarts
  <1> QED BY <1>1, <1>2, <1>3, MinimizeKeeps

(* Where the next statement is to be removed.                              *)
LEMMA NextRemovalStarts ==
  ASSUME IInv, child = "running", prog = <<>>, phase \in {"restore", "run", "m_feed"},
         removed > 1, NextRemoval(queue) \/ NextRemoval(Candidate)
  PROVE  IInv'
PROOF
  <1>1. PICK kept \in {queue, Candidate} :
          /\ queue' = kept /\ removed' = removed - 1 /\ phase' = "m_reset"
          /\ NewDut("run", D.life.reset) /\ child' = child
          /\ UNCHANGED <<parent, pipe, tests, test, record, base, try_time, leaked_tries>>
    BY DEF NextRemoval, minSame
  <1>2. /\ driver \in Drivers /\ removed \in 0..Len(Stmts) /\ Len(Stmts) \in Nat
        /\ queue \in Records /\ removed <= Len(queue)
    BY Between
  <1>3. removed \in Nat /\ Len(queue) \in Nat
    BY <1>2 DEF Records
  <1>4. removed \in 1..Len(queue)
    BY <1>2, <1>3
  <1>5. Candidate \in Records /\ Len(Candidate) = Len(queue) - 1
    BY <1>2, <1>4, CandidateFits
  <1>6. queue' \in Records /\ Len(queue') >= Len(queue) - 1 /\ Len(queue') \in Nat
    BY <1>1, <1>2, <1>3, <1>5
  <1>7. removed' \in 0..Len(Stmts) /\ removed' > 0 /\ removed' <= Len(queue')
    BY <1>1, <1>2, <1>3, <1>6
  <1>8. \E q : Started(q)
    BY <1>1, <1>2, ResetStarts
  <1> QED BY <1>1, <1>6, <1>7, <1>8, MinimizeKeeps

(* The empty record makes the empty database.                              *)
LEMMA ReplayEmpty == Replay(<<>>) = <<>>
PROOF
  <1>1. <<>> \in Seq({0}) /\ 0 \in {0}
    OBVIOUS
  <1> QED BY <1>1, ReplayAppend

(* Generate keeps the invariant: the database is made from nothing.        *)
LEMMA GenerateKeeps ==
  ASSUME IInv, Generate PROVE IInv'
PROOF
  <1>1. /\ child = "running" /\ child' = child /\ prog = <<>> /\ phase = "boot" /\ phase' = "reset"
        /\ record' = None /\ base' = None /\ NewDut("run", D.life.reset)
        /\ UNCHANGED <<parent, pipe, tests, test, try_time, leaked_tries, queue, removed>>
    BY DEF Generate, genSame
  <1>2. /\ driver \in Drivers /\ removed \in 0..Len(Stmts) /\ queue \in Records /\ removed <= Len(queue)
        /\ try_time \in [Counters -> Nat] /\ leaked_tries \in [Counters -> Nat]
        /\ "kind" \in DOMAIN test
    BY <1>1, Between
  <1>3. removed = 0
    BY <1>1 DEF IInv, BaseInv
  <1>4. test.kind # "none" => Catalogs \subseteq cache.has
    BY DEF IInv, CatalogInv
  <1>5. /\ phase' \in Phases \ {"none", "boot"}
        /\ phase' \notin Generating \cup Saved
        /\ phase' \notin {"m_reset", "m_feed", "m_backup"} /\ phase' \notin {"restore", "run"}
    BY <1>1 DEF Phases, Generating, Saved
  <1>6. Begins
    BY <1>1, <1>2, <1>3, <1>4, <1>5 DEF Begins, Generating, Saved
  <1>7. \E q : Started(q)
    BY <1>1, <1>2, ResetStarts
  <1> QED BY <1>6, <1>7, Begun

(* The next operation of generate_database().                              *)
LEMMA GeneratingKeeps ==
  ASSUME IInv, child = "running", child' = child, prog = <<>>,
         phase \in {"reset", "ddl", "dml", "schema"}, phase = "reset" => task = "none",
         phase' \in {"ddl", "dml", "schema", "backup"},
         phase' \in {"ddl", "dml"} => Made < Len(Stmts),
         phase' \in {"schema", "backup"} => Made > 0,
         UNCHANGED <<parent, pipe, tests, test, record, base, queue, removed>>,
         try_time' \in [Counters -> Nat], leaked_tries' \in [Counters -> Nat],
         NEW q, Started(q)
  PROVE  IInv'
PROOF
  <1>1. /\ driver \in Drivers /\ removed \in 0..Len(Stmts) /\ queue \in Records /\ removed <= Len(queue)
        /\ "kind" \in DOMAIN test
    BY Between
  <1>2. removed = 0 /\ base = None
    BY DEF IInv, BaseInv, Generating
  <1>3. test.kind # "none" => Catalogs \subseteq cache.has
    BY DEF IInv, CatalogInv
  <1>4. db # Absent
    <2>1. phase \in Generating \/ (task = "none" /\ phase \notin {"none", "boot"})
      BY DEF Generating
    <2> QED BY <2>1 DEF IInv, MakerInv
  <1>5. driver # "gaussdb" => db = Replay(Rec)
    <2>1. CASE phase = "reset"
      <3>1. driver # "gaussdb" => db = <<>>
        BY <2>1 DEF IInv, FreshInv
      <3>2. record = None
        BY <2>1 DEF IInv, RecordInv
      <3>3. Rec = <<>>
        BY <3>2 DEF Rec
      <3> QED BY <3>1, <3>3, ReplayEmpty
    <2>2. CASE phase # "reset"
      <3>1. phase \in Generating
        BY <2>2 DEF Generating
      <3> QED BY <3>1 DEF IInv, RecordInv
    <2> QED BY <2>1, <2>2
  <1>6. Made <= Len(Stmts)
    <2>1. phase \in {"reset"} \cup Generating
      BY DEF Generating
    <2> QED BY <2>1 DEF IInv, RecordInv
  <1>7. /\ phase' \in Phases \ {"none", "boot"} /\ phase' \notin Saved /\ phase' # "reset"
        /\ phase' \notin {"m_reset", "m_feed", "m_backup"} /\ phase' \notin {"restore", "run", "testing"}
        /\ phase \notin {"none", "boot"}
    BY DEF Phases, Saved
  <1>8. Begins
    BY <1>1, <1>2, <1>3, <1>4, <1>5, <1>6, <1>7 DEF Begins
  <1> QED BY <1>8, Begun

(* The schema for the testers.                                             *)
LEMMA TestingKeeps ==
  ASSUME IInv, child = "running", child' = child, prog = <<>>,
         phase = "testing" \/ (phase = "backup" /\ task = "none"),
         loadSchema("testing"),
         UNCHANGED <<parent, pipe, tests, test, base, queue, removed, leaked_tries>>,
         try_time' \in [Counters -> Nat]
  PROVE  IInv'
PROOF
  <1>1. /\ phase' = "testing" /\ record' = record
        /\ Call("run", LoadSchema) /\ conn' = "none" /\ dbUntouched
    BY DEF loadSchema
  <1>2. /\ driver \in Drivers /\ removed \in 0..Len(Stmts) /\ queue \in Records /\ removed <= Len(queue)
        /\ "kind" \in DOMAIN test /\ leaked_tries \in [Counters -> Nat]
    BY Between
  <1>3. removed = 0 /\ base # None
    BY DEF IInv, BaseInv, Generating
  <1>4. test.kind # "none" => Catalogs \subseteq cache.has
    BY DEF IInv, CatalogInv
  <1>5. Made > 0 /\ Made <= Len(Stmts)
    <2>1. phase \in Generating \cup Saved /\ phase \in {"schema", "backup"} \cup Saved
      BY DEF Generating, Saved
    <2> QED BY <2>1 DEF IInv, RecordInv
  <1>6. /\ phase' \in Phases \ {"none", "boot"} /\ phase' \notin Generating
        /\ phase \notin {"none", "boot"}
    BY <1>1 DEF Phases, Generating
  <1>7. Begins
    BY <1>1, <1>2, <1>3, <1>4, <1>5, <1>6 DEF Begins
  <1>8. Started(LoadSchema)
    BY <1>1, <1>2, LoadStarts
  <1> QED BY <1>7, <1>8, Begun

(* Generated keeps the invariant.                                          *)
LEMMA GeneratedKeeps ==
  ASSUME IInv, Generated PROVE IInv'
PROOF
  <1>1. /\ child = "running" /\ child' = child /\ prog = <<>> /\ phase = "backup" /\ task = "none"
        /\ loadSchema("testing")
        /\ UNCHANGED <<parent, pipe, tests, test, base, queue, removed, try_time, leaked_tries>>
    BY DEF Generated, Returned, genSame
  <1>2. try_time' \in [Counters -> Nat]
    BY <1>1, Between
  <1> QED BY <1>1, <1>2, TestingKeeps

(* NextStatement keeps the invariant.                                      *)
LEMMA NextStatementKeeps ==
  ASSUME IInv, NextStatement PROVE IInv'
PROOF
  <1>1. /\ child = "running" /\ child' = child /\ prog = <<>> /\ task = "none"
        /\ phase \in {"reset", "ddl", "schema", "dml"}
        /\ UNCHANGED <<parent, pipe, tests, test, base, queue, removed, leaked_tries>>
        /\ Unwound({"schema", phase} \cap Counters)
    BY DEF NextStatement, Returned, genSame, Unwound
  <1>2. /\ driver \in Drivers /\ try_time \in [Counters -> Nat] /\ leaked_tries \in [Counters -> Nat]
        /\ Made \in Nat /\ Len(Stmts) \in Nat
    BY <1>1, Between
  <1>3. try_time' \in [Counters -> Nat]
    BY <1>1, <1>2 DEF Unwound
  <1>4. Ddl \in 1..Len(Stmts)
    BY EetAssumption
  <1>5. TypeInv
    BY DEF IInv
  <1>6. \/ Made < Ddl /\ interect_test
        \/ Made >= Ddl /\ loadSchema("schema")
        \/ Made >= Ddl /\ Made < Len(Stmts) /\ normal_test
        \/ Made >= Ddl /\ dut_backup
    BY <1>2, <1>4 DEF NextStatement
  <1>7. CASE (Made < Ddl /\ interect_test) \/ (Made >= Ddl /\ Made < Len(Stmts) /\ normal_test)
    <2>1. Made < Len(Stmts)
      BY <1>2, <1>4, <1>7
    <2>2. (\E q : Started(q)) /\ phase' \in {"ddl", "dml"} /\ record' = record
      BY <1>1, <1>5, <1>7, <2>1, InsertStarts
    <2> QED BY <1>1, <1>2, <1>3, <2>1, <2>2, GeneratingKeeps
  <1>8. CASE Made >= Ddl /\ loadSchema("schema")
    <2>1. Made > 0
      BY <1>2, <1>4, <1>8
    <2>2. /\ phase' = "schema" /\ record' = record
          /\ Call("run", LoadSchema) /\ conn' = "none" /\ dbUntouched
      BY <1>8 DEF loadSchema
    <2>3. Started(LoadSchema)
      BY <1>1, <1>2, <2>2, LoadStarts
    <2> QED BY <1>1, <1>2, <1>3, <2>1, <2>2, <2>3, GeneratingKeeps
  <1>9. CASE Made >= Ddl /\ dut_backup
    <2>1. Made > 0
      BY <1>2, <1>4, <1>9
    <2>2. phase' = "backup" /\ record' = record /\ NewDut("save", D.life.backup)
      BY <1>9 DEF dut_backup
    <2>3. \E q : Started(q)
      BY <1>1, <1>2, <2>2, BackupStarts
    <2> QED BY <1>1, <1>2, <1>3, <2>1, <2>2, <2>3, GeneratingKeeps
  <1> QED BY <1>6, <1>7, <1>8, <1>9

(* Retry keeps the invariant.                                              *)
LEMMA RetryKeeps ==
  ASSUME IInv, Retry PROVE IInv'
PROOF
  <1> DEFINE c == IF exn = "expected" THEN "schema" ELSE phase
  <1>1. /\ child = "running" /\ child' = child /\ prog = <<>> /\ task = "failed"
        /\ exn \in {"expected", "plain"} /\ c \in Counters /\ try_time[c] < MaxTry
        /\ try_time' = [try_time EXCEPT ![c] = @ + 1]
        /\ UNCHANGED <<parent, pipe, tests, test, base, queue, removed, leaked_tries>>
    BY DEF Retry, Threw, genSame
  <1>2. /\ driver \in Drivers /\ try_time \in [Counters -> Nat] /\ leaked_tries \in [Counters -> Nat]
        /\ Made \in Nat /\ Len(Stmts) \in Nat
    BY <1>1, Between
  <1>3. try_time' \in [Counters -> Nat]
    BY <1>1, <1>2
  <1>4. phase \in {"ddl", "dml", "schema", "testing"}
    <2>1. CASE exn = "expected"
      <3>1. try_time["schema"] \in Nat /\ ~(try_time["schema"] >= MaxTry)
        BY <1>1, <1>2, <2>1, EetAssumption DEF Counters
      <3> QED BY <2>1, <3>1 DEF IInv, ExnInv
    <2>2. CASE exn # "expected"
      BY <1>1, <2>2 DEF Counters
    <2> QED BY <2>1, <2>2
  <1>5. \/ phase = "ddl" /\ interect_test
        \/ phase = "dml" /\ normal_test
        \/ phase = "schema" /\ loadSchema("schema")
        \/ phase = "testing" /\ loadSchema("testing")
    BY <1>4 DEF Retry
  <1>6. CASE (phase = "ddl" /\ interect_test) \/ (phase = "dml" /\ normal_test)
    <2>1. Made < Len(Stmts)
      BY <1>1, <1>6 DEF IInv, RecordInv
    <2>2. TypeInv
      BY DEF IInv
    <2>3. (\E q : Started(q)) /\ phase' \in {"ddl", "dml"} /\ record' = record
      BY <1>1, <1>6, <2>1, <2>2, InsertStarts
    <2> QED BY <1>1, <1>2, <1>3, <1>4, <1>6, <2>1, <2>3, GeneratingKeeps
  <1>7. CASE phase = "schema" /\ loadSchema("schema")
    <2>1. Made > 0
      BY <1>7 DEF IInv, RecordInv
    <2>2. /\ phase' = "schema" /\ record' = record
          /\ Call("run", LoadSchema) /\ conn' = "none" /\ dbUntouched
      BY <1>7 DEF loadSchema
    <2>3. Started(LoadSchema)
      BY <1>1, <1>2, <2>2, LoadStarts
    <2> QED BY <1>1, <1>2, <1>3, <1>7, <2>1, <2>2, <2>3, GeneratingKeeps
  <1>8. CASE phase = "testing" /\ loadSchema("testing")
    BY <1>1, <1>3, <1>8, TestingKeeps
  <1> QED BY <1>5, <1>6, <1>7, <1>8

(***************************************************************************)
(* The steps between two operations.                                       *)
(***************************************************************************)
Rests ==
  /\ prog = <<>> /\ prog' = <<>>
  /\ UNCHANGED <<driver, db, record, backup, task, base>>
  /\ leaked' <= leaked
  /\ exn' = "expected" =>
       /\ exn = "expected" /\ phase' \in {phase, "boot"}
       /\ phase' = "boot" => phase = "boot" \/ try_time["schema"] >= MaxTry
       /\ try_time' = try_time
  /\ \/ phase' = phase /\ removed' = removed /\ queue' = queue
     \/ phase' = "boot" /\ removed' = 0 /\ queue' \in Records
     \/ phase' = "testing" /\ phase \in {"restore", "run"} /\ removed = 0 /\ removed' = 0 /\ queue' = queue
  /\ (child' = "running" => child = "running") \/ phase' = "boot"
  /\ cache' \in {cache, NoCache}
  /\ phase' = "testing" /\ exn' = "none" => phase # "testing" \/ exn = "none" 
  /\ test' \in {test, NoTest} /\ (cache' # cache => test' = NoTest /\ phase' = "boot")
  /\ phase' \in {"restore", "run", "m_reset", "m_feed", "m_backup"} => test' = test

(* A step between two operations keeps the invariant.                      *)
LEMMA RestsKeep ==
  ASSUME IInv, TypeInv', Rests PROVE IInv'
PROOF
  <1>1. /\ TypeInv /\ ProgInv /\ ExnInv /\ MakerInv /\ FreshInv /\ RecordInv
        /\ BaseInv /\ CopyInv /\ ReplayInv /\ CatalogInv /\ SessionInv
    BY DEF IInv
  <1>2. /\ prog = <<>> /\ prog' = <<>> /\ Len(prog') = 0 /\ 1..Len(prog') = {}
        /\ driver' = driver /\ db' = db /\ record' = record /\ backup' = backup /\ task' = task /\ base' = base
        /\ leaked' <= leaked
        /\ \/ phase' = phase /\ removed' = removed /\ queue' = queue
           \/ phase' = "boot" /\ removed' = 0 /\ queue' \in Records
           \/ phase' = "testing" /\ phase \in {"restore", "run"} /\ removed = 0 /\ removed' = 0 /\ queue' = queue
        /\ (child' = "running" => child = "running") \/ phase' = "boot"
    BY DEF Rests
  <1>3. task \in {"none", "failed"}
    BY <1>1, <1>2 DEF ProgInv
  <1>4. ProgInv'
    BY <1>2, <1>3 DEF ProgInv
  <1>5. ExnInv'
    <2> SUFFICES ASSUME exn' = "expected"
                 PROVE  \/ phase' \in {"ddl", "schema", "testing"}
                        \/ phase' = "boot" /\ try_time'["schema"] >= MaxTry
      BY DEF ExnInv
    <2>1. /\ exn = "expected" /\ phase' \in {phase, "boot"} /\ try_time' = try_time
          /\ phase' = "boot" => phase = "boot" \/ try_time["schema"] >= MaxTry
      BY DEF Rests
    <2> QED BY <1>1, <2>1 DEF ExnInv
  <1>6. MakerInv'
    <2>1. task' = "none" /\ phase' \notin {"none", "boot"} => db' # Absent
      BY <1>1, <1>2 DEF MakerInv
    <2>2. phase' \in Generating \cup {"m_feed", "m_backup"} => db' # Absent
      BY <1>1, <1>2 DEF MakerInv, Generating
    <2> QED BY <1>2, <2>1, <2>2 DEF MakerInv, DropsMake, Absent
  <1>7. FreshInv'
    BY <1>1, <1>2 DEF FreshInv, Absent
  <1>8. RecordInv'
    <2>1. CASE phase' = phase
      BY <1>1, <1>2, <2>1 DEF RecordInv, Made, Rec, None
    <2>2. CASE phase' = "boot"
      BY <1>2, <2>2 DEF RecordInv, Generating, Saved
    <2>3. CASE phase' = "testing" /\ phase \in {"restore", "run"}
      <3>1. Made > 0 /\ Made <= Len(Stmts)
        BY <1>1, <2>3 DEF RecordInv, Saved
      <3>2. Made' = Made
        BY <1>2 DEF Made, None
      <3> QED BY <1>2, <2>3, <3>1, <3>2 DEF RecordInv, Generating, Saved
    <2> QED BY <1>2, <2>1, <2>2, <2>3
  <1>9. BaseInv'
    <2>1. CASE phase' = phase /\ removed' = removed /\ queue' = queue
      <3>1. phase = "boot" => removed <= 0
        BY <1>1 DEF BaseInv
      <3>2. child' = "running" => removed' <= Len(queue')
        <4>1. CASE child = "running"
          BY <1>1, <2>1, <4>1 DEF BaseInv
        <4>2. CASE child # "running"
          <5> SUFFICES ASSUME child' = "running" PROVE removed' <= Len(queue')
            OBVIOUS
          <5>1. removed' = 0 /\ queue' \in Records
            BY <1>1, <1>2, <2>1, <4>2 DEF BaseInv, TypeInv
          <5> QED BY <5>1 DEF Records
        <4> QED BY <4>1, <4>2
      <3> QED BY <1>1, <1>2, <2>1, <3>2 DEF BaseInv, None, Absent
    <2>2. CASE phase' = "boot" /\ removed' = 0 /\ queue' \in Records
      <3>1. removed' <= Len(queue')
        BY <2>2 DEF Records
      <3>2. base' # Absent
        BY <1>1, <1>2 DEF BaseInv
      <3> QED BY <1>2, <2>2, <3>1, <3>2 DEF BaseInv, None, Absent, Generating, Saved
    <2>3. CASE phase' = "testing" /\ phase \in {"restore", "run"} /\ removed = 0 /\ removed' = 0 /\ queue' = queue
      <3>1. /\ base # Absent /\ base # None
            /\ driver # "gaussdb" => Replay(record) = base
            /\ child' = "running" => removed' <= Len(queue')
        BY <1>1, <1>2, <2>3 DEF BaseInv
      <3> QED BY <1>2, <2>3, <3>1 DEF BaseInv, None, Absent, Generating, Saved
    <2> QED BY <1>2, <2>1, <2>2, <2>3
  <1>10. CopyInv'
    <2>1. driver = "sqlite" /\ base # None => backup = base
      BY <1>1, <1>3 DEF CopyInv
    <2> QED BY <1>2, <1>3, <2>1 DEF CopyInv, None
  <1>11. ReplayInv'
    BY <1>2 DEF ReplayInv
  <1>12. CatalogInv'
    <2>1. Catalogs' = Catalogs /\ cache.has = cache.read /\ cache.has \subseteq Catalogs
      BY <1>1, <1>2 DEF Catalogs, CatalogInv
    <2>2. cache'.has = cache'.read /\ cache'.has \subseteq Catalogs
      <3>1. cache' = cache \/ cache' = NoCache
        BY DEF Rests
      <3>2. NoCache.has = {} /\ NoCache.read = {}
        BY DEF NoCache
      <3> QED BY <2>1, <3>1, <3>2
    <2>3. test'.kind # "none" => Catalogs \subseteq cache'.has
      <3>1. NoTest.kind = "none"
        BY DEF NoTest
      <3> QED BY <1>1, <3>1 DEF CatalogInv, Rests
    <2>4. phase' = "testing" /\ exn' = "none" => Catalogs \subseteq cache'.has
      <3> SUFFICES ASSUME phase' = "testing", exn' = "none" PROVE Catalogs \subseteq cache'.has
        OBVIOUS
      <3>1. cache' = cache
        BY DEF Rests
      <3>2. CASE phase = "testing"
        <4>1. exn = "none"
          BY <3>2 DEF Rests
        <4> QED BY <1>1, <1>2, <3>1, <3>2, <4>1 DEF CatalogInv
      <3>3. CASE phase # "testing"
        <4>1. phase \in {"restore", "run"}
          BY <1>2, <3>3
        <4> QED BY <1>1, <3>1, <4>1 DEF CatalogInv
      <3> QED BY <3>2, <3>3
    <2>5. phase' \in {"restore", "run", "m_reset", "m_feed", "m_backup"} => test'.kind # "none"
      <3> SUFFICES ASSUME phase' \in {"restore", "run", "m_reset", "m_feed", "m_backup"}
                   PROVE  test'.kind # "none"
        OBVIOUS
      <3>1. test' = test /\ phase = phase'
        BY <1>2 DEF Rests
      <3> QED BY <1>1, <3>1 DEF CatalogInv
    <2> QED BY <1>2, <2>1, <2>2, <2>3, <2>4, <2>5 DEF CatalogInv
  <1>13. SessionInv'
    <2>1. driver # "gaussdb" => leaked' <= 1
      <3>1. leaked \in Nat
        BY <1>1 DEF TypeInv
      <3>2. leaked' \in Nat
        BY DEF TypeInv
      <3> QED BY <1>1, <1>2, <3>1, <3>2 DEF SessionInv
    <2> QED BY <1>2, <2>1 DEF SessionInv
  <1> QED BY <1>4, <1>5, <1>6, <1>7, <1>8, <1>9, <1>10, <1>11, <1>12, <1>13 DEF IInv

(* A step between two operations keeps the types.                          *)
LEMMA TypeKept ==
  ASSUME TypeInv, UNCHANGED <<driver, up, db, record, backup, task, faults, base>>,
         conn' \in {conn, "none"}, leaked' \in {leaked, 0}, exn' \in {exn, "none"},
         parent' \in {"fork", "wait", "read", "aborted"},
         child' \in {"none", "running", "success", "failure", "signalled"},
         pipe' = (IF child' = "success" THEN 1 ELSE 0),
         parent' = "fork" => child' = "none",
         phase' \in Phases, tests' \in 0..TestNum, removed' \in {removed, 0},
         phase' \in {"restore", "run"} /\ removed' = 0 => tests' < TestNum,
         test' \in {test, NoTest}, queue' \in Records,
         try_time' \in [Counters -> Nat], leaked_tries' \in [Counters -> Nat]
  PROVE  TypeInv'
PROOF
  <1>1. /\ driver \in Drivers /\ up \in BOOLEAN /\ db \in Databases
        /\ conn \in {"none", "default", "test", "dead"} /\ leaked \in Nat
        /\ record \in Records \cup {None}
        /\ backup \in Databases \cup Records \cup {None} /\ backup # Absent
        /\ driver \in Dumping => backup \in Databases \cup {None}
        /\ exn \in {"none", "plain", "fatal", "expected", "abort"}
        /\ task \in {"none", "run", "save", "restore", "failed"}
        /\ faults \in 0..MaxFaults /\ removed \in 0..Len(Stmts) /\ "kind" \in DOMAIN test
        /\ base \in Databases \cup {None}
    BY DEF TypeInv
  <1>2. None' = None /\ Absent' = Absent /\ Databases' = Databases /\ Records' = Records
    BY DEF None, Absent, Databases, Records
  <1>3. Counters' = Counters /\ Phases' = Phases /\ Dumping' = Dumping
    BY DEF Counters, Phases, Dumping
  <1>4. "kind" \in DOMAIN test'
    <2>1. "kind" \in DOMAIN NoTest
      BY DEF NoTest
    <2> QED BY <1>1, <2>1
  <1>5. removed' \in 0..Len(Stmts)
    <2>1. Len(Stmts) \in Nat
      BY NamesAssumption
    <2> QED BY <1>1, <2>1
  <1>6. conn' \in {"none", "default", "test", "dead"} /\ leaked' \in Nat
    BY <1>1
  <1>7. exn' \in {"none", "plain", "fatal", "expected", "abort"}
    BY <1>1
  <1> QED BY <1>1, <1>2, <1>3, <1>4, <1>5, <1>6, <1>7 DEF TypeInv

\* What the type invariant says of the processes.
LEMMA ProcessTypes ==
  ASSUME IInv
  PROVE  /\ TypeInv /\ leaked \in Nat /\ leaked <= leaked /\ 0 <= leaked /\ queue \in Records /\ <<>> \in Records
         /\ try_time \in [Counters -> Nat] /\ leaked_tries \in [Counters -> Nat]
         /\ parent \in {"fork", "wait", "read", "aborted"}
         /\ child \in {"none", "running", "success", "failure", "signalled"}
         /\ pipe = (IF child = "success" THEN 1 ELSE 0)
         /\ parent = "fork" => child = "none"
         /\ phase \in Phases /\ tests \in 0..TestNum
         /\ phase \in {"restore", "run"} /\ removed = 0 => tests < TestNum
         /\ child # "running" => prog = <<>>
         /\ 0 \in 0..TestNum
PROOF
  <1>1. TypeInv
    BY DEF IInv
  <1>2. child # "running" => prog = <<>>
    BY DEF IInv, ProgInv
  <1>3. <<>> \in Records
    BY DEF Records
  <1>4. leaked \in Nat /\ leaked <= leaked /\ 0 <= leaked
    BY <1>1 DEF TypeInv
  <1>5. 0 \in 0..TestNum
    BY EetAssumption
  <1> QED BY <1>1, <1>2, <1>3, <1>4, <1>5 DEF TypeInv

(* GiveUp and GenerateAgain keep the invariant.                            *)
LEMMA GiveUpKeeps ==
  ASSUME IInv, GiveUp \/ GenerateAgain PROVE IInv'
PROOF
  <1>1. /\ child = "running" /\ child' = child /\ prog = <<>> /\ phase' = "boot"
        /\ phase \in {"ddl", "schema", "dml", "reset", "backup"}
        /\ UNCHANGED <<parent, pipe, tests, test, queue, removed, try_time, base>> /\ UNCHANGED dbVars
        /\ exn = "expected" => try_time["schema"] >= MaxTry
    BY DEF GiveUp, GenerateAgain, Threw, genSame
  <1>2. /\ driver' = driver /\ up' = up /\ db' = db /\ conn' = conn /\ leaked' = leaked /\ record' = record
        /\ backup' = backup /\ prog' = prog /\ exn' = exn /\ task' = task /\ cache' = cache /\ faults' = faults
    BY <1>1 DEF dbVars
  <1>3. leaked_tries' \in [Counters -> Nat]
    <2>1. CASE GiveUp
      <3> DEFINE c == IF exn = "expected" THEN "schema" ELSE phase
      <3>1. leaked_tries' = [leaked_tries EXCEPT ![c] = try_time[c]] /\ c \in Counters
        BY <2>1 DEF GiveUp, Counters
      <3> QED BY <3>1, ProcessTypes
    <2>2. CASE GenerateAgain
      BY <2>2, ProcessTypes DEF GenerateAgain
    <2> QED BY <2>1, <2>2
  <1>4. removed = 0
    BY <1>1 DEF IInv, BaseInv, Generating
  <1>5. phase' \in Phases /\ phase' \notin {"restore", "run"}
    BY <1>1 DEF Phases
  <1>6. TypeInv'
    BY <1>1, <1>2, <1>3, <1>5, ProcessTypes, TypeKept
  <1>7. Rests
    BY <1>1, <1>2, <1>4, <1>5, ProcessTypes DEF Rests
  <1> QED BY <1>6, <1>7, RestsKeep

(* TestPassed keeps the invariant.                                         *)
LEMMA TestPassedKeeps ==
  ASSUME IInv, TestPassed PROVE IInv'
PROOF
  <1>1. /\ child = "running" /\ child' = child /\ prog = <<>> /\ prog' = prog /\ phase' = "testing"
        /\ phase \in {"restore", "run"} /\ removed = 0 /\ exn' = "none" /\ test' = NoTest
        /\ tests' = tests + 1
        /\ UNCHANGED <<parent, pipe, queue, removed, try_time, leaked_tries, base, record>>
        /\ UNCHANGED <<driver, up, db, conn, leaked, backup, task, cache, faults>>
    BY DEF TestPassed, NoBugSeen, Returned, Threw, testSame
  <1>2. phase' \in Phases /\ phase' \notin {"restore", "run"}
    BY <1>1 DEF Phases
  <1>3. tests' \in 0..TestNum
    <2>1. tests \in 0..TestNum /\ tests < TestNum
      BY <1>1, ProcessTypes
    <2> QED BY <1>1, <2>1, EetAssumption
  <1>4. TypeInv'
    BY <1>1, <1>2, <1>3, ProcessTypes, TypeKept
  <1>5. Rests
    BY <1>1, ProcessTypes DEF Rests
  <1> QED BY <1>4, <1>5, RestsKeep

(* A process ends.                                                         *)
LEMMA EndsKeep ==
  ASSUME IInv, child = "running", prog = <<>>, child' \in {"success", "failure", "signalled"},
         pipe' = (IF child' = "success" THEN 1 ELSE 0),
         UNCHANGED <<driver, up, db, conn, leaked, record, backup, prog, exn, task, cache, faults>>,
         UNCHANGED <<parent, phase, tests, test, removed, try_time, leaked_tries, base>>,
         queue' = queue
  PROVE  IInv'
PROOF
  <1>1. TypeInv'
    BY ProcessTypes, TypeKept
  <1>2. Rests
    BY ProcessTypes DEF Rests
  <1> QED BY <1>1, <1>2, RestsKeep

(* The steps of the parent keep the invariant.                             *)
LEMMA ParentKeeps ==
  ASSUME IInv, Wait \/ Read \/ Fork PROVE IInv'
PROOF
  <1>1. CASE Wait \/ Read
    <2>1. /\ prog = <<>> /\ child' \in {child, "none"} /\ child # "running"
          /\ parent' \in {"fork", "wait", "read", "aborted"} /\ (parent' = "fork" => child' = "none")
          /\ pipe' = (IF child' = "success" THEN 1 ELSE 0)
          /\ UNCHANGED dbVars /\ UNCHANGED ownVars
      BY <1>1, ProcessTypes DEF Wait, Read
    <2>2. UNCHANGED <<driver, up, db, conn, leaked, record, backup, prog, exn, task, cache, faults>>
      BY <2>1 DEF dbVars
    <2>3. UNCHANGED <<phase, tests, test, queue, removed, try_time, leaked_tries, base>>
      BY <2>1 DEF ownVars
    <2>4. child' \in {"none", "running", "success", "failure", "signalled"} /\ child' # "running"
      BY <2>1, ProcessTypes
    <2>5. TypeInv'
      BY <2>1, <2>2, <2>3, <2>4, ProcessTypes, TypeKept
    <2>6. Rests
      BY <2>1, <2>2, <2>3, <2>4, ProcessTypes DEF Rests
    <2> QED BY <2>5, <2>6, RestsKeep
  <1>2. CASE Fork
    <2>1. /\ parent = "fork" /\ parent' = "wait" /\ child' = "running" /\ phase' = "boot"
          /\ try_time' = [c \in Counters |-> 0] /\ leaked_tries' = [c \in Counters |-> 0]
          /\ tests' = 0 /\ test' = NoTest /\ queue' = <<>> /\ removed' = 0
          /\ conn' = "none" /\ leaked' = 0 /\ exn' = "none" /\ cache' = NoCache
          /\ UNCHANGED <<driver, up, db, record, backup, prog, task, faults, pipe, base>>
      BY <1>2 DEF Fork
    <2>2. child = "none" /\ prog = <<>> /\ pipe' = 0
      BY <2>1, ProcessTypes
    <2>3. phase' \in Phases /\ phase' \notin {"restore", "run", "testing"}
      BY <2>1 DEF Phases
    <2>4. try_time' \in [Counters -> Nat] /\ leaked_tries' \in [Counters -> Nat]
      BY <2>1
    <2>5. TypeInv'
      BY <2>1, <2>2, <2>3, <2>4, ProcessTypes, TypeKept
    <2>6. Rests
      BY <2>1, <2>2, <2>3, ProcessTypes DEF Rests
    <2> QED BY <2>5, <2>6, RestsKeep
  <1> QED BY <1>1, <1>2

(* The end of the child keeps the invariant.                               *)
LEMMA ChildEnds ==
  ASSUME IInv, Dies \/ Finishes PROVE IInv'
PROOF
  <1>1. pipe = (IF child = "success" THEN 1 ELSE 0)
    BY ProcessTypes
  <1>2. CASE Dies
    <2>1. /\ child = "running" /\ prog = <<>> /\ child' = "signalled" /\ UNCHANGED dbVars
          /\ UNCHANGED <<parent, pipe, phase, tests, test, queue, removed, try_time, leaked_tries, base>>
      BY <1>2 DEF Dies, Threw
    <2>2. UNCHANGED <<driver, up, db, conn, leaked, record, backup, prog, exn, task, cache, faults>>
      BY <2>1 DEF dbVars
    <2> QED BY <1>1, <2>1, <2>2, EndsKeep
  <1>3. CASE Finishes
    <2>1. /\ child = "running" /\ prog = <<>> /\ child' = "success" /\ pipe' = pipe + 1 /\ UNCHANGED dbVars
          /\ UNCHANGED ownVars /\ parent' = parent
      BY <1>3 DEF Finishes
    <2>2. UNCHANGED <<driver, up, db, conn, leaked, record, backup, prog, exn, task, cache, faults>>
      BY <2>1 DEF dbVars
    <2>3. UNCHANGED <<phase, tests, test, queue, removed, try_time, leaked_tries, base>>
      BY <2>1 DEF ownVars
    <2> QED BY <1>1, <2>1, <2>2, <2>3, EndsKeep
  <1> QED BY <1>2, <1>3

(* The end of the reduction: the file is written, the child exits.         *)
LEMMA NextRemovalEnds ==
  ASSUME IInv, child = "running", prog = <<>>, removed \in 1..Len(queue), ~(removed > 1),
         NextRemoval(queue) \/ NextRemoval(Candidate)
  PROVE  IInv'
PROOF
  <1>1. PICK kept \in {queue, Candidate} :
          /\ queue' = kept /\ child' = "failure"
          /\ UNCHANGED <<phase, removed, driver, up, db, conn, leaked, backup, prog, exn, task, cache, faults>>
          /\ UNCHANGED <<parent, pipe, try_time, leaked_tries, tests, record, test, base>>
    BY DEF NextRemoval, minSame
  <1>2. queue' \in Records
    BY <1>1, CandidateFits, ProcessTypes
  <1>3. pipe' = (IF child' = "success" THEN 1 ELSE 0)
    BY <1>1, ProcessTypes
  <1>4. TypeInv'
    BY <1>1, <1>2, <1>3, ProcessTypes, TypeKept
  <1>5. /\ TypeInv /\ ProgInv /\ ExnInv /\ MakerInv /\ FreshInv /\ RecordInv
        /\ BaseInv /\ CopyInv /\ ReplayInv /\ CatalogInv /\ SessionInv
    BY DEF IInv
  <1>6. /\ prog' = prog /\ Len(prog') = 0 /\ 1..Len(prog') = {} /\ task \in {"none", "failed"}
    BY <1>1, <1>5 DEF ProgInv
  <1>7. ProgInv' /\ ExnInv' /\ FreshInv' /\ ReplayInv'
    BY <1>1, <1>5, <1>6 DEF ProgInv, ExnInv, FreshInv, ReplayInv, Absent
  <1>8. MakerInv'
    BY <1>1, <1>5, <1>6 DEF MakerInv, DropsMake, Absent
  <1>9. RecordInv'
    BY <1>1, <1>5, <1>6 DEF RecordInv, Made, Rec, None
  <1>10. BaseInv'
    BY <1>1, <1>5 DEF BaseInv, None, Absent
  <1>11. CopyInv'
    BY <1>1, <1>5, <1>6 DEF CopyInv, None
  <1>12. CatalogInv'
    BY <1>1, <1>5, <1>6 DEF CatalogInv, Catalogs
  <1>13. SessionInv'
    BY <1>1, <1>5, <1>6 DEF SessionInv
  <1> QED BY <1>4, <1>7, <1>8, <1>9, <1>10, <1>11, <1>12, <1>13 DEF IInv

(* The end of the test of a removal keeps the invariant.                   *)
LEMMA RemovalsKeep ==
  ASSUME IInv, RemovalFails \/ StatementRemoved PROVE IInv'
PROOF
  <1>1. /\ child = "running" /\ prog = <<>> /\ removed > 0 /\ phase \in {"restore", "run", "m_feed"}
        /\ NextRemoval(queue) \/ NextRemoval(Candidate)
    BY DEF RemovalFails, StatementRemoved, NoBugSeen, BugSeen, Returned, Threw
  <1>2. removed \in 0..Len(Stmts) /\ removed <= Len(queue) /\ queue \in Records
    BY <1>1, Between
  <1>3. removed \in 1..Len(queue)
    <2>1. Len(queue) \in Nat
      BY <1>2 DEF Records
    <2> QED BY <1>1, <1>2, <2>1
  <1>4. CASE removed > 1
    BY <1>1, <1>4, NextRemovalStarts
  <1>5. CASE ~(removed > 1)
    BY <1>1, <1>3, <1>5, NextRemovalEnds
  <1> QED BY <1>4, <1>5

(* The server dies or comes back, whatever the process is at.              *)
LEMMA ServerKeeps ==
  ASSUME IInv, Server PROVE IInv'
PROOF
  <1>1. /\ UNCHANGED <<driver, db, record, backup, prog, exn, task, cache>>
        /\ up' \in BOOLEAN /\ faults' \in 0..MaxFaults /\ leaked' \in {leaked, 0}
        /\ conn' = conn \/ conn' \in {"none", "dead"}
        /\ UNCHANGED <<parent, child, pipe, phase, try_time, leaked_tries, tests, test, queue, removed, base>>
    <2>1. faults \in 0..MaxFaults
      BY DEF IInv, TypeInv
    <2>2. UNCHANGED eetVars
      BY DEF Server
    <2>3. CASE ServerDies
      <3>1. faults' \in 0..MaxFaults
        BY <2>1, <2>3, DriversAssumption DEF ServerDies
      <3> QED BY <2>2, <2>3, <3>1 DEF ServerDies, eetVars
    <2>4. CASE ServerReturns
      BY <2>1, <2>2, <2>4 DEF ServerReturns, eetVars
    <2> QED BY <2>3, <2>4 DEF Server
  <1>2. /\ TypeInv /\ ProgInv /\ ExnInv /\ MakerInv /\ FreshInv /\ RecordInv
        /\ BaseInv /\ CopyInv /\ ReplayInv /\ CatalogInv /\ SessionInv
    BY DEF IInv
  <1>3. driver \in Drivers /\ leaked \in Nat
    BY <1>2 DEF TypeInv
  <1>4. TypeInv'
    BY <1>1, <1>2 DEF TypeInv, None, Absent, Databases, Records, Counters, Phases, Dumping
  <1>5. ProgInv'
    BY <1>1, <1>2 DEF ProgInv, StepOk
  <1>6. ExnInv' /\ FreshInv' /\ CopyInv'
    BY <1>1, <1>2 DEF ExnInv, FreshInv, CopyInv, Absent, None
  <1>7. MakerInv'
    BY <1>1, <1>2 DEF MakerInv, DropsMake, Covered, Maker, Absent
  <1>8. RecordInv'
    BY <1>1, <1>2 DEF RecordInv, Made, Rec, None
  <1>9. BaseInv'
    BY <1>1, <1>2 DEF BaseInv, None, Absent
  <1>10. ReplayInv'
    BY <1>1, <1>2 DEF ReplayInv, Rebuilding, Absent
  <1>11. CatalogInv'
    BY <1>1, <1>2 DEF CatalogInv, Catalogs
  <1>12. SessionInv'
    <2>1. \A k : Parted(prog, k) => Parted(prog, k)'
      BY <1>1 DEF Parted
    <2>2. leaked <= 1 => leaked' <= 1
      BY <1>1, <1>3
    <2>3. leaked = 0 => leaked' = 0
      BY <1>1
    <2> QED BY <1>1, <1>2, <2>1, <2>2, <2>3 DEF SessionInv, Leaks
  <1> QED BY <1>4, <1>5, <1>6, <1>7, <1>8, <1>9, <1>10, <1>11, <1>12 DEF IInv

-----------------------------------------------------------------------------
(***************************************************************************)
(* The results.                                                            *)
(***************************************************************************)

(* The invariant holds before the first fork.                              *)
LEMMA InitInv == Init => IInv
PROOF
  <1> SUFFICES ASSUME Init PROVE IInv
    OBVIOUS
  <1>1. /\ driver \in Drivers /\ up = TRUE /\ db = Absent /\ conn = "none" /\ leaked = 0
        /\ record = None /\ backup = None /\ prog = <<>> /\ exn = "none" /\ task = "none"
        /\ cache = NoCache /\ faults = MaxFaults
        /\ parent = "fork" /\ child = "none" /\ pipe = 0 /\ phase = "none"
        /\ try_time = [c \in Counters |-> 0] /\ leaked_tries = [c \in Counters |-> 0]
        /\ tests = 0 /\ test = NoTest /\ queue = <<>> /\ removed = 0 /\ base = None
    BY DEF Init, dbInit
  <1>2. Len(prog) = 0 /\ 1..Len(prog) = {}
    BY <1>1
  <1>3. TypeInv
    <2>1. faults \in 0..MaxFaults
      BY <1>1, DriversAssumption
    <2>2. tests \in 0..TestNum
      BY <1>1, EetAssumption
    <2>3. removed \in 0..Len(Stmts)
      <3>1. Len(Stmts) \in Nat
        BY NamesAssumption
      <3> QED BY <1>1, <3>1
    <2>4. /\ queue \in Records /\ db \in Databases /\ backup # Absent
      BY <1>1, DatabaseTypes DEF Records
    <2>5. try_time \in [Counters -> Nat] /\ leaked_tries \in [Counters -> Nat]
      BY <1>1
    <2>6. "kind" \in DOMAIN test
      BY <1>1 DEF NoTest
    <2> QED BY <1>1, <2>1, <2>2, <2>3, <2>4, <2>5, <2>6 DEF TypeInv, Phases
  <1>4. ProgInv /\ ExnInv /\ FreshInv /\ ReplayInv
    BY <1>1, <1>2 DEF ProgInv, ExnInv, FreshInv, ReplayInv
  <1>5. MakerInv
    BY <1>1, <1>2 DEF MakerInv, DropsMake, Generating
  <1>6. RecordInv
    BY <1>1, <1>2 DEF RecordInv, Generating, Saved
  <1>7. BaseInv
    BY <1>1, DatabaseTypes DEF BaseInv, Generating, Saved
  <1>8. CopyInv
    BY <1>1, <1>2 DEF CopyInv
  <1>9. CatalogInv
    BY <1>1 DEF CatalogInv, NoCache, NoTest
  <1>10. SessionInv
    BY <1>1, <1>2 DEF SessionInv
  <1> QED BY <1>3, <1>4, <1>5, <1>6, <1>7, <1>8, <1>9, <1>10 DEF IInv

(* A step of an operation keeps the invariant.                             *)
LEMMA OperationKeeps == ASSUME IInv, Operation PROVE IInv'
PROOF
  <1>1. /\ TypeInv /\ ProgInv /\ ExnInv /\ MakerInv /\ FreshInv /\ RecordInv
        /\ BaseInv /\ CopyInv /\ ReplayInv /\ CatalogInv /\ SessionInv
    BY DEF IInv
  <1>2. TypeInv' /\ ProgInv' /\ ExnInv' /\ MakerInv' /\ FreshInv'
    BY <1>1, OperationType, OperationProg, OperationExn, OperationMaker, OperationFresh
  <1>3. RecordInv' /\ BaseInv' /\ CopyInv' /\ ReplayInv' /\ CatalogInv' /\ SessionInv'
    BY <1>1, OperationRecord, OperationBase, OperationCopy, OperationReplay, OperationCatalog,
       OperationSession
  <1> QED BY <1>2, <1>3 DEF IInv

(* Nothing happens.                                                        *)
LEMMA StutterKeeps == ASSUME IInv, UNCHANGED vars PROVE IInv'
PROOF
  <1>1. /\ TypeInv /\ ProgInv /\ ExnInv /\ MakerInv /\ FreshInv /\ RecordInv
        /\ BaseInv /\ CopyInv /\ ReplayInv /\ CatalogInv /\ SessionInv
    BY DEF IInv
  <1>2. /\ UNCHANGED <<driver, up, db, conn, leaked, record, backup, prog, exn, task, cache, faults>>
        /\ UNCHANGED <<parent, child, pipe, phase, try_time, leaked_tries, tests, test, queue, removed, base>>
    BY DEF vars, dbVars, eetVars
  <1>4. TypeInv'
    BY <1>1, <1>2 DEF TypeInv, None, Absent, Databases, Records, Counters, Phases, Dumping
  <1>5. ProgInv'
    BY <1>1, <1>2 DEF ProgInv, StepOk
  <1>6. ExnInv' /\ FreshInv' /\ CopyInv'
    BY <1>1, <1>2 DEF ExnInv, FreshInv, CopyInv, Absent, None
  <1>7. MakerInv'
    BY <1>1, <1>2 DEF MakerInv, DropsMake, Covered, Maker, Absent
  <1>8. RecordInv'
    BY <1>1, <1>2 DEF RecordInv, Made, Rec, None
  <1>9. BaseInv'
    BY <1>1, <1>2 DEF BaseInv, None, Absent
  <1>10. ReplayInv'
    BY <1>1, <1>2 DEF ReplayInv, Rebuilding, Absent
  <1>11. CatalogInv'
    BY <1>1, <1>2 DEF CatalogInv, Catalogs
  <1>12. SessionInv'
    BY <1>1, <1>2 DEF SessionInv, Leaks, Parted
  <1> QED BY <1>4, <1>5, <1>6, <1>7, <1>8, <1>9, <1>10, <1>11, <1>12 DEF IInv

(* The invariant is inductive.                                             *)
LEMMA NextInv == IInv /\ [Next]_vars => IInv'
PROOF
  <1> SUFFICES ASSUME IInv, [Next]_vars PROVE IInv'
    OBVIOUS
  <1>1. CASE Operation
    BY <1>1, OperationKeeps
  <1>2. CASE Generate \/ NextStatement \/ Retry \/ Generated
    BY <1>2, GenerateKeeps, NextStatementKeeps, RetryKeeps, GeneratedKeeps
  <1>3. CASE GiveUp \/ GenerateAgain
    BY <1>3, GiveUpKeeps
  <1>4. CASE NextTest \/ ChangeRestored \/ NextRun \/ AnotherQuery \/ TestAgain
    BY <1>4, NextTestKeeps, ChangeRestoredKeeps, RunsKeep
  <1>5. CASE TestPassed
    BY <1>5, TestPassedKeeps
  <1>6. CASE LogicBug \/ ResetAgain \/ Feed \/ Save
    BY <1>6, LogicBugKeeps, ResetAgainKeeps, FeedKeeps, SaveKeeps
  <1>7. CASE RemovalFails \/ StatementRemoved
    BY <1>7, RemovalsKeep
  <1>8. CASE Dies \/ Finishes
    BY <1>8, ChildEnds
  <1>9. CASE Wait \/ Read \/ Fork
    BY <1>9, ParentKeeps
  <1>10. CASE Server
    BY <1>10, ServerKeeps
  <1>11. CASE UNCHANGED vars
    BY <1>11, StutterKeeps
  <1> QED BY <1>1, <1>2, <1>3, <1>4, <1>5, <1>6, <1>7, <1>8, <1>9, <1>10, <1>11 DEF Next, Child, Parent

(* The inductive invariant holds, for every driver, any number of faults,  *)
(* statements, tries and tests.                                            *)
THEOREM Invariant == Spec => []IInv
PROOF
  BY InitInv, NextInv, PTL DEF Spec

(* Every variable has its type; in particular the pipe never holds more    *)
(* than one message, and no operation leaves a database of another kind.   *)
THEOREM TypeCorrect == Spec => []TypeOK
PROOF
  <1>1. IInv => TypeOK
    BY DEF IInv, TypeInv, TypeOK
  <1> QED BY <1>1, Invariant, PTL

(* While the testers run db_setup.sql makes the database backup() saved:   *)
(* generate_database() recorded each statement that was done, once and in  *)
(* order, and none that failed, whatever was tried again.                  *)
THEOREM RecordIsExact == Spec => []RecordMakesDatabase
PROOF
  <1>1. IInv => RecordMakesDatabase
    BY DEF IInv, BaseInv, RecordMakesDatabase
  <1> QED BY <1>1, Invariant, PTL

(* The catalogs flagged as read are the ones of the driver.                *)
LEMMA CatalogsOfInv == IInv => CatalogsComplete
PROOF
  <1>1. CatalogsComplete <=> (test.kind # "none" => cache.read = Catalogs)
    BY DEF CatalogsComplete, Catalogs, CatalogsOf, D
  <1> QED BY <1>1 DEF IInv, CatalogInv

(* Every tester has a schema with all its catalogs, although a process     *)
(* reads each of them once and any query of get_schema() may fail.         *)
THEOREM CatalogsAreRead == Spec => []CatalogsComplete
PROOF
  BY CatalogsOfInv, Invariant, PTL

(* A process holds at most one session it has no handle of, however often  *)
(* the database is restored and whatever fails (gaussdb excepted).         *)
THEOREM SessionsNeverPileUp == Spec => []SessionsBounded
PROOF
  <1>1. IInv => SessionsBounded
    BY DEF IInv, SessionInv, SessionsBounded
  <1> QED BY <1>1, Invariant, PTL

(***************************************************************************)
(* Backup.                                                                 *)
(***************************************************************************)
Shown == IF task = "none" /\ db # Absent THEN db ELSE None

(* A call begins an operation of Backup.                                   *)
LEMMA BeginsOperation ==
  ASSUME IInv, prog = <<>>, task' \in {"run", "save", "restore"}, base' \in {base, None}, driver' = driver
  PROVE  Promise!Begin
PROOF
  <1>1. task \in {"none", "failed"}
    BY DEF IInv, ProgInv
  <1> QED BY <1>1 DEF Promise!Begin, None

(* Where neither the operation nor the database changes Backup stutters.   *)
LEMMA NothingHappens ==
  ASSUME UNCHANGED <<task, db, base, driver>> PROVE UNCHANGED Promise!vars
PROOF
  BY DEF Promise!vars, Absent, None, Lenient, Dumping

(* At the end of reset_to_backup() the database is the one that was saved. *)
LEMMA RestoredIsSaved ==
  ASSUME IInv, prog # <<>>, Len(prog) = 1, prog[1].do = "return", phase = "restore", driver \notin Forgiving
  PROVE  db = base
PROOF
  <1>1. driver \in Drivers /\ BaseInv /\ CopyInv /\ ReplayInv
    BY DEF IInv, TypeInv
  <1>2. driver \in {"sqlite"} \cup Recorded
    <2>1. driver \in DBMSs /\ driver \notin Forgiving
      BY <1>1, DriversAssumption
    <2> QED BY <2>1, Setup DEF Forgiving, Recorded
  <1>3. CASE driver = "sqlite"
    <2>1. (Len(prog) = 1 /\ db = base) \/ \E k \in 1..Len(prog) : prog[k].do = "copy_back"
      BY <1>1, <1>3 DEF CopyInv
    <2>2. \A k \in 1..Len(prog) : k = 1
      OBVIOUS
    <2> QED BY <2>1, <2>2
  <1>4. CASE driver \in Recorded
    <2>1. Rebuilding
      BY <1>1, <1>4 DEF ReplayInv
    <2>2. PICK n \in 0..Len(record) :
            /\ db = Replay(SubSeq(record, 1, n))
            /\ 1 = Len(record) - n + 1
      BY <2>1 DEF Rebuilding
    <2>3. driver \notin Dumping /\ driver # "gaussdb" /\ base # None
      BY <1>1, <1>4 DEF Recorded, Dumping, BaseInv
    <2>4. Replay(record) = base
      BY <1>1, <2>3 DEF BaseInv
    <2>5. \E S : record \in Seq(S)
      <3>1. record \in Records \cup {None}
        BY DEF IInv, TypeInv
      <3>2. Made > 0
        BY DEF IInv, RecordInv, Saved
      <3>3. record # None
        BY <3>2 DEF Made
      <3> QED BY <3>1, <3>3 DEF Records
    <2>6. PICK S : record \in Seq(S)
      BY <2>5
    <2>7. Len(record) \in Nat /\ n = Len(record)
      BY <2>2, <2>6
    <2>8. SubSeq(record, 1, Len(record)) = record
      BY <2>6
    <2> QED BY <2>2, <2>4, <2>7, <2>8
  <1> QED BY <1>2, <1>3, <1>4

(* A step of an operation ends it as Backup says, or Backup stutters.      *)
LEMMA OperationKeepsPromise ==
  ASSUME IInv, Operation PROVE Promise!Next \/ UNCHANGED Promise!vars
PROOF
  <1>1. TypeInv /\ ProgInv /\ MakerInv
    BY DEF IInv
  <1>2. /\ prog # <<>> /\ driver' = driver /\ task = TaskOf(phase) /\ task \in {"run", "save", "restore"}
        /\ db' # None /\ db' \in Databases /\ None \notin Databases
    <2>1. prog # <<>> /\ driver' = driver
      BY <1>1, Moves
    <2>2. task = TaskOf(phase)
      BY <1>1, <2>1, AtStep
    <2>3. IInv'
      BY OperationKeeps
    <2>4. db' \in Databases
      BY <2>3 DEF IInv, TypeInv, Databases, Absent
    <2> QED BY <2>1, <2>2, <2>4, DatabaseTypes DEF TaskOf
  <1>3. /\ \/ base' = base
           \/ /\ Returns /\ task = "save" /\ db # Absent /\ base' = db
              /\ driver \in Dumping \/ base = None
           \/ Stops /\ task = "save" /\ driver \in Dumping /\ base' = None
        /\ task = "save" /\ Returns => base' # None /\ (driver \in Dumping => base' = db)
        /\ task' = "none" => Returns
        /\ task' # task => Stops \/ Returns
    BY <1>1, BaseMoves
  <1>4. (driver' \in Lenient <=> driver \in Lenient) /\ (driver' \notin Dumping <=> driver \notin Dumping)
    BY <1>2
  <1>5. CASE Stops
    <2>1. task' = "failed" /\ ~Returns
      BY <1>5 DEF Stops, Returns
    <2>2. base' = base \/ (task = "save" /\ base' = None)
      BY <1>3, <2>1
    <2>3. Promise!Fail
      BY <1>2, <1>4, <2>1, <2>2 DEF Promise!Fail, None, Lenient, Dumping
    <2> QED BY <2>3 DEF Promise!Next
  <1>6. CASE Returns
    <2>1. task' = "none" /\ db' = db /\ ~Stops /\ Len(prog) = 1 /\ prog[1].do = "return"
      BY <1>6 DEF Returns, Stops
    <2>2. db # Absent
      BY <1>1, <1>2, <2>1, NeedsDb DEF Needs
    <2>3. Shown' = db /\ db \in Databases /\ Shown = None
      BY <1>2, <2>1, <2>2 DEF Shown, Absent
    <2>4. Promise!Done
      BY <1>4, <2>1, <2>3 DEF Promise!Done, Shown, Databases, Absent, None, Lenient, Dumping
    <2>5. CASE task = "run"
      <3>1. base' = base
        BY <1>3, <2>5
      <3>2. Promise!Run
        BY <2>4, <2>5, <3>1 DEF Promise!Run
      <3> QED BY <3>2 DEF Promise!Next
    <2>6. CASE task = "save"
      <3>1. base' = db \/ (driver \notin Dumping /\ base # None /\ base' = base)
        BY <1>3, <1>6, <2>1, <2>6
      <3>2. Promise!Save
        BY <2>1, <2>3, <2>4, <2>6, <3>1 DEF Promise!Save, Shown, Absent, None
      <3> QED BY <3>2 DEF Promise!Next
    <2>7. CASE task = "restore"
      <3>1. base' = base
        BY <1>3, <2>7
      <3>2. phase = "restore"
        BY <1>2, <2>7 DEF TaskOf
      <3>3. db = base \/ driver \in Lenient
        BY <1>2, <2>1, <3>2, RestoredIsSaved, ForgivingIsLenient
      <3>4. Promise!Restore
        BY <2>3, <2>4, <2>7, <3>1, <3>3 DEF Promise!Restore, Shown, Absent, None
      <3> QED BY <3>4 DEF Promise!Next
    <2> QED BY <1>2, <2>5, <2>6, <2>7
  <1>7. CASE ~Stops /\ ~Returns
    <2>1. task' = task /\ base' = base
      BY <1>3, <1>7
    <2>2. UNCHANGED Promise!vars
      BY <1>2, <1>4, <2>1 DEF Promise!vars, None, Lenient, Dumping
    <2> QED BY <2>2
  <1> QED BY <1>5, <1>6, <1>7

(* The actions that call an operation.                                     *)
LEMMA CallsBegin ==
  ASSUME IInv,
         \/ Generate \/ NextStatement \/ Retry \/ Generated
         \/ NextTest \/ ChangeRestored \/ NextRun \/ AnotherQuery \/ TestAgain
         \/ LogicBug \/ ResetAgain \/ Feed \/ Save
  PROVE  Promise!Begin
PROOF
  <1> DEFINE Calls == /\ prog = <<>> /\ task' \in {"run", "save", "restore"}
                      /\ base' \in {base, None} /\ driver' = driver
  <1>1. \A kind : Execute(kind) => \E t \in {"run", "save", "restore"} : \E p : NewDut(t, p)
    BY DEF Execute
  <1>2. ASSUME NEW t \in {"run", "save", "restore"}, NEW p, NewDut(t, p) \/ SameDut(t, p)
        PROVE  prog = <<>> /\ task' \in {"run", "save", "restore"} /\ driver' = driver
    BY <1>2 DEF NewDut, SameDut, Call, dbUntouched
  <1>3. ASSUME NEW ph, loadSchema(ph)
        PROVE  prog = <<>> /\ task' \in {"run", "save", "restore"} /\ driver' = driver
    BY <1>3 DEF loadSchema, Call, dbUntouched
  <1>4. ASSUME interect_test \/ normal_test \/ dut_backup
        PROVE  prog = <<>> /\ task' \in {"run", "save", "restore"} /\ driver' = driver
    BY <1>2, <1>4 DEF interect_test, normal_test, dut_backup, Call, dbUntouched
  <1>5. CASE Generate \/ LogicBug \/ ResetAgain
    <2>1. NewDut("run", D.life.reset) /\ base' \in {base, None}
      BY <1>5 DEF Generate, LogicBug, ResetAgain
    <2> QED BY <1>2, <2>1, BeginsOperation
  <1>6. CASE NextStatement \/ Retry \/ Generated
    <2>1. /\ base' = base
          /\ interect_test \/ normal_test \/ dut_backup \/ \E ph : loadSchema(ph)
      BY <1>6 DEF NextStatement, Retry, Generated
    <2> QED BY <1>3, <1>4, <2>1, BeginsOperation
  <1>7. CASE NextTest \/ NextRun \/ AnotherQuery \/ TestAgain
    <2>1. base' = base /\ \E kind : Execute(kind)
      BY <1>7 DEF NextTest, NextRun, AnotherQuery, TestAgain, testSame
    <2> QED BY <1>1, <1>2, <2>1, BeginsOperation
  <1>8. CASE ChangeRestored \/ Feed \/ Save
    <2>1. base' = base /\ \E t \in {"run", "save", "restore"} : \E p : SameDut(t, p)
      BY <1>8 DEF ChangeRestored, Feed, Save, testSame
    <2> QED BY <1>2, <2>1, BeginsOperation
  <1> QED BY <1>5, <1>6, <1>7, <1>8

(* The actions that neither call an operation nor are a step of one.       *)
LEMMA OthersChangeNothing ==
  ASSUME \/ GiveUp \/ GenerateAgain \/ TestPassed \/ Dies \/ Finishes
         \/ Wait \/ Read \/ Fork \/ Server \/ UNCHANGED vars
  PROVE  UNCHANGED <<task, db, base, driver>>
PROOF
  BY DEF GiveUp, GenerateAgain, TestPassed, Dies, Finishes, Wait, Read, Fork, Server, ServerDies,
         ServerReturns, vars, dbVars, eetVars, ownVars, testSame

(* The end of the test of a removal.                                       *)
LEMMA RemovalsBegin ==
  ASSUME IInv, RemovalFails \/ StatementRemoved
  PROVE  Promise!Begin \/ UNCHANGED <<task, db, base, driver>>
PROOF
  <1>1. PICK kept : NextRemoval(kept)
    BY DEF RemovalFails, StatementRemoved
  <1>2. base' = base
    BY <1>1 DEF NextRemoval
  <1>3. CASE removed > 1
    <2>1. NewDut("run", D.life.reset)
      BY <1>1, <1>3 DEF NextRemoval
    <2> QED BY <1>2, <2>1, BeginsOperation DEF NewDut, Call, dbUntouched
  <1>4. CASE ~(removed > 1)
    BY <1>1, <1>2, <1>4 DEF NextRemoval
  <1> QED BY <1>3, <1>4

(* Every step is a step of Backup or a stutter.                            *)
LEMMA StepsKeepPromise ==
  IInv /\ [Next]_vars => [Promise!Next]_(Promise!vars)
PROOF
  <1> SUFFICES ASSUME IInv, [Next]_vars PROVE Promise!Next \/ UNCHANGED Promise!vars
    OBVIOUS
  <1>1. CASE Operation
    BY <1>1, OperationKeepsPromise
  <1>2. CASE \/ Generate \/ NextStatement \/ Retry \/ Generated
             \/ NextTest \/ ChangeRestored \/ NextRun \/ AnotherQuery \/ TestAgain
             \/ LogicBug \/ ResetAgain \/ Feed \/ Save
    BY <1>2, CallsBegin DEF Promise!Next
  <1>3. CASE RemovalFails \/ StatementRemoved
    BY <1>3, RemovalsBegin, NothingHappens DEF Promise!Next
  <1>4. CASE \/ GiveUp \/ GenerateAgain \/ TestPassed \/ Dies \/ Finishes
             \/ Wait \/ Read \/ Fork \/ Server \/ UNCHANGED vars
    BY <1>4, OthersChangeNothing, NothingHappens
  <1> QED BY <1>1, <1>2, <1>3, <1>4 DEF Next, Child, Parent

(* The initial states are initial states of Backup.                        *)
LEMMA InitKeepsPromise == Init => Promise!Init
PROOF
  <1> SUFFICES ASSUME Init PROVE Promise!Init
    OBVIOUS
  <1>1. task = "none" /\ db = Absent /\ base = None
    BY DEF Init, dbInit
  <1> QED BY <1>1 DEF Promise!Init

(* backup() and reset_to_backup() do what Backup promises: a restore that   *)
(* returns brings back the database that was saved (but for the drivers    *)
(* that pass over a failed statement), and what fails says so.             *)
THEOREM BackupIsKept == Spec => KeepsPromise
PROOF
  <1>1. Init => Promise!Init
    BY InitKeepsPromise
  <1>2. IInv /\ [Next]_vars => [Promise!Next]_(Promise!vars)
    BY StepsKeepPromise
  <1> QED BY <1>1, <1>2, Invariant, PTL DEF Spec, KeepsPromise, Promise!Spec
=============================================================================
