------------------------------ MODULE DbDrivers ------------------------------
(***************************************************************************)
(* What the drivers of src/schema do for the operations of dut_base        *)
(* (connecting, test(), reset(), backup(), reset_to_backup() and           *)
(* get_content()).  Each operation is a program: a sequence of steps, each *)
(* one call of the server, of a shell tool or of the file system, with     *)
(* what the driver makes of its failure.  TestDatabase runs the programs.  *)
(*                                                                         *)
(* The callers tell exceptions apart only by the words "BUG" and           *)
(* "CONNECTION FAIL" in the text: such an exception is fatal, every other  *)
(* one is plain.                                                           *)
(***************************************************************************)
EXTENDS Naturals, Sequences

Step(op, err) == [do |-> op, err |-> err, stmt |-> "none"]

Throws(op) == Step(op, "plain")     \* a plain runtime_error whatever happened
Fatal(op) == Step(op, "fatal")      \* the text says BUG!!! or CONNECTION FAIL
Tests(op) == Step(op, "lost")       \* fatal when the connection is lost, else plain
Ignores(op) == Step(op, "ignored")  \* the result is not looked at
Probes(op) == Step(op, "probe")     \* taken for a missing database
Loads(op) == Step(op, "schema")     \* get_schema() tells a timeout from the rest

\* A catalog of the DBMS: read once per process and kept.
Catalog(op) == [do |-> op, err |-> "schema", stmt |-> "cached"]

-----------------------------------------------------------------------------
(***************************************************************************)
(* The connections.  open connects to the test database, create is what    *)
(* follows when there is no such database, settings what the dut adds.     *)
(***************************************************************************)
mysql_connection ==
  [open |-> <<Fatal("connect")>>,
   create |-> <<Throws("connect_default"), Throws("create"), Throws("use")>>]

tidb_connection ==
  [open |-> <<Fatal("connect"), Throws("set")>>,
   create |-> <<Throws("connect_default"), Throws("create"), Throws("use")>>]

ob_connection ==
  [open |-> <<Fatal("connect")>>,
   create |-> <<Throws("connect_default"), Throws("create"), Throws("use")>>]

pgsql_connection ==
  [open |-> <<Probes("connect"), Tests("set"), Tests("set")>>,
   create |-> <<Fatal("connect_default"), Throws("create"), Throws("close"), Throws("connect")>>]

gaussdb_connection ==
  [open |-> <<Probes("connect"), Tests("set")>>,
   create |-> <<Fatal("connect_default"), Throws("create"), Throws("close"), Throws("connect")>>]

cockroach_connection ==
  [open |-> <<Fatal("connect")>>,
   create |-> <<Throws("connect_default"), Throws("create"), Throws("close"), Throws("connect")>>]

yugabyte_connection ==
  [open |-> <<Fatal("connect")>>,
   create |-> <<Throws("connect_default"), Throws("create"), Throws("close"), Throws("connect")>>]

\* Each statement is a client process of its own; only "CONNECTION ERROR" is said.
clickhouse_connection ==
  [open |-> <<Throws("create_missing")>>, create |-> <<>>]

\* No server: the file is created when it is missing.
sqlite_connection == [open |-> <<Throws("open")>>, create |-> <<>>]

-----------------------------------------------------------------------------
(***************************************************************************)
(* test(stmt): the settings a tester asks for, sent first; what a failing  *)
(* statement becomes; and whether the rows it affected are counted or      *)
(* always said to be one.  "Commands out of sync" only repeats the call.   *)
(***************************************************************************)
mysql_test == [settings |-> <<Tests("set")>>, stmt |-> "lost", counts |-> TRUE]
tidb_test == [settings |-> <<>>, stmt |-> "lost", counts |-> TRUE]
ob_test == [settings |-> <<Throws("set")>>, stmt |-> "lost", counts |-> TRUE]
pqxx_test == [settings |-> <<Throws("set")>>, stmt |-> "lost", counts |-> TRUE]
gaussdb_test == [settings |-> <<Throws("set")>>, stmt |-> "lost", counts |-> TRUE]
cockroach_test == [settings |-> <<Throws("set")>>, stmt |-> "lost", counts |-> TRUE]
yugabyte_test == [settings |-> <<Throws("set")>>, stmt |-> "lost", counts |-> TRUE]

\* The settings are in the file of the statement, and errors come back as text.
clickhouse_test == [settings |-> <<>>, stmt |-> "lost", counts |-> FALSE]

\* The shell's death without a message is taken for its timeout.
sqlite_test == [settings |-> <<>>, stmt |-> "plain", counts |-> FALSE]

-----------------------------------------------------------------------------
(***************************************************************************)
(* reset(), backup(), reset_to_backup() after its reset() (sqlite restores *)
(* without one), get_content().                                            *)
(***************************************************************************)
DropCreateUse == <<Throws("drop"), Throws("create"), Throws("use")>>

mysql_life ==
  [reset |-> DropCreateUse,
   backup |-> <<Throws("dump")>>,
   restore |-> DropCreateUse \o
               <<Throws("if_backup"), Throws("close"), Ignores("replay_backup"), Throws("connect")>>,
   content |-> Ignores("content")]

tidb_life ==
  [reset |-> DropCreateUse,
   backup |-> <<Throws("dump")>>,
   restore |-> DropCreateUse \o
               <<Throws("if_backup"), Throws("close"), Ignores("replay_backup"), Throws("connect")>>,
   content |-> Ignores("content")]

\* Mutant: the record is replayed without looking at the errors.
ob_life_unchecked ==
  [reset |-> DropCreateUse, backup |-> <<>>,
   restore |-> DropCreateUse \o <<Ignores("replay_record")>>,
   content |-> Ignores("content")]

ob_life ==
  [reset |-> DropCreateUse, backup |-> <<>>,
   restore |-> DropCreateUse \o <<Tests("replay_record")>>,
   content |-> Ignores("content")]

Recreate(drop) == drop \o <<Throws("create"), Throws("close"), Throws("connect")>>
DefaultFirst == <<Throws("close"), Throws("connect_default")>>

\* Mutant: the sessions of earlier restores are left open.
pqxx_reset_gently ==
  Recreate(DefaultFirst \o <<Throws("drop")>>) \o <<Ignores("set"), Ignores("set")>>

pqxx_reset ==
  Recreate(DefaultFirst \o <<Throws("drop_force")>>) \o <<Ignores("set"), Ignores("set")>>

\* The restored connection replaces the one of reset() without closing it.
pqxx_life ==
  [reset |-> pqxx_reset,
   backup |-> <<Throws("copy_record")>>,
   restore |-> pqxx_reset \o <<Throws("if_backup"), Fatal("connect"), Ignores("set"), Ignores("set"),
                               Ignores("replay_backup")>>,
   content |-> Ignores("content")]

cockroach_reset == Recreate(DefaultFirst \o <<Throws("cancel_jobs"), Throws("drop")>>)

cockroach_life ==
  [reset |-> cockroach_reset, backup |-> <<>>,
   restore |-> cockroach_reset \o <<Tests("replay_record")>>,
   content |-> Ignores("content")]

yugabyte_reset == Recreate(DefaultFirst \o <<Throws("drop_force")>>)

yugabyte_life ==
  [reset |-> yugabyte_reset, backup |-> <<>>,
   restore |-> yugabyte_reset \o <<Tests("replay_record")>>,
   content |-> Ignores("content")]

\* The database is kept; its tables, sequences and indexes are dropped.
gaussdb_reset ==
  <<Throws("close"), Throws("connect"), Ignores("wipe"), Ignores("tidy"), Ignores("tidy")>>

gaussdb_life ==
  [reset |-> gaussdb_reset,
   backup |-> <<Throws("copy_record")>>,
   restore |-> gaussdb_reset \o <<Throws("if_backup"), Fatal("connect"), Ignores("replay_backup")>>,
   content |-> Ignores("content")]

clickhouse_reset == <<Throws("drop"), Throws("create_missing")>>

clickhouse_life ==
  [reset |-> clickhouse_reset, backup |-> <<>>,
   restore |-> clickhouse_reset \o <<Throws("need_record"), Throws("replay_record")>>,
   content |-> Throws("content")]

sqlite_life ==
  [reset |-> <<Throws("close"), Ignores("drop"), Throws("open")>>,
   backup |-> <<Throws("dump")>>,
   restore |-> <<Throws("close"), Ignores("drop"), Throws("open"), Throws("copy_back")>>,
   content |-> Throws("content")]

-----------------------------------------------------------------------------
(***************************************************************************)
(* What the constructors of the schemas read, on a connection of their own.*)
(***************************************************************************)
schema_mysql == <<Loads("tables"), Loads("views"), Loads("indexes"), Loads("columns")>>
schema_tidb == <<Loads("tables"), Loads("views"), Loads("indexes"), Loads("columns")>>
schema_ob == <<Loads("tables"), Loads("views"), Loads("indexes"), Loads("columns")>>
schema_clickhouse == <<Loads("tables"), Loads("views"), Loads("columns")>>

\* A failure to read the columns always calls itself expected.
schema_sqlite == <<Loads("tables"), Loads("indexes"), Step("columns", "expected")>>

schema_pqxx_types == <<Loads("version"), Catalog("types")>>
schema_pqxx_tables == <<Loads("tables"), Loads("columns")>>
schema_pqxx_routines == <<Catalog("operators"), Catalog("routines"), Catalog("aggregates")>>
schema_pqxx == schema_pqxx_types \o schema_pqxx_tables \o schema_pqxx_routines

schema_cockroach_types == <<Loads("version"), Catalog("types")>>
schema_cockroach_tables == <<Loads("tables"), Loads("columns")>>
schema_cockroach_routines == <<Catalog("operators"), Catalog("routines"), Catalog("aggregates")>>
schema_cockroach == schema_cockroach_types \o schema_cockroach_tables \o schema_cockroach_routines

schema_yugabyte_types == <<Loads("version"), Catalog("types")>>
schema_yugabyte_tables == <<Loads("tables"), Loads("columns")>>
schema_yugabyte_routines == <<Catalog("operators"), Catalog("routines"), Catalog("aggregates")>>
schema_yugabyte == schema_yugabyte_types \o schema_yugabyte_tables \o schema_yugabyte_routines

schema_gaussdb_types == <<Loads("version"), Catalog("types")>>
schema_gaussdb_tables == <<Loads("tables"), Loads("columns")>>
schema_gaussdb_routines == <<Catalog("operators"), Catalog("routines"), Catalog("aggregates")>>
schema_gaussdb == schema_gaussdb_types \o schema_gaussdb_tables \o schema_gaussdb_routines

-----------------------------------------------------------------------------
\* dut_setup(): the driver a DBMS name stands for.
dut_setup ==
  [mysql |-> [conn |-> mysql_connection, test |-> mysql_test, life |-> mysql_life,
               schema |-> schema_mysql],
   tidb |-> [conn |-> tidb_connection, test |-> tidb_test, life |-> tidb_life,
               schema |-> schema_tidb],
   oceanbase |-> [conn |-> ob_connection, test |-> ob_test, life |-> ob_life,
               schema |-> schema_ob],
   postgres |-> [conn |-> pgsql_connection, test |-> pqxx_test, life |-> pqxx_life,
               schema |-> schema_pqxx],
   gaussdb |-> [conn |-> gaussdb_connection, test |-> gaussdb_test, life |-> gaussdb_life,
               schema |-> schema_gaussdb],
   cockroach |-> [conn |-> cockroach_connection, test |-> cockroach_test, life |-> cockroach_life,
               schema |-> schema_cockroach],
   yugabyte |-> [conn |-> yugabyte_connection, test |-> yugabyte_test, life |-> yugabyte_life,
               schema |-> schema_yugabyte],
   clickhouse |-> [conn |-> clickhouse_connection, test |-> clickhouse_test, life |-> clickhouse_life,
               schema |-> schema_clickhouse],
   sqlite |-> [conn |-> sqlite_connection, test |-> sqlite_test, life |-> sqlite_life,
               schema |-> schema_sqlite]]

DBMSs == DOMAIN dut_setup

\* The drivers whose backup() is a copy of the database itself; the others
\* rely on the record of the statements that made it.
Dumping == {"mysql", "tidb", "sqlite"}

\* The drivers whose reset_to_backup() goes on after a statement that failed.
Lenient == {d \in DBMSs : \E i \in 1..Len(dut_setup[d].life.restore) :
              LET s == dut_setup[d].life.restore[i] IN
                s.do \in {"replay_backup", "wipe"} /\ s.err = "ignored"}
=============================================================================
