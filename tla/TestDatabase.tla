---------------------------- MODULE TestDatabase -----------------------------
(***************************************************************************)
(* The database under test and the calls a test process makes of it: the   *)
(* server with its one test database, the process' connection, the record  *)
(* of the statements that made the database (db_setup.sql) and the backup  *)
(* file.  The process runs one program of DbDrivers at a time, step by     *)
(* step; the server may die and come back between any two steps, and any   *)
(* call of it may fail.                                                    *)
(*                                                                         *)
(* A database is the sequence of the statements that changed it.           *)
(***************************************************************************)
EXTENDS DbDrivers, SequencesExt

CONSTANTS Drivers,    \* the DBMSs whose drivers are looked at
          Tables,     \* the statements that create a table; the others need one
          MaxFaults   \* bound: how often the server dies or a call fails

ASSUME DriversAssumption == Drivers \subseteq DBMSs /\ MaxFaults \in Nat

VARIABLES
  driver,             \* the DBMS under test
  up, db,             \* external: the server and its test database
  conn,               \* the process' connection: none, default, test or dead
  leaked,             \* sessions the process holds no handle of any more
  record, backup,     \* the files
  prog, exn,          \* the steps left of the operation, the exception it threw
  task,               \* what the operation is: run, save, restore (none, failed)
  seen,               \* what the operation has read of the database
  cache,              \* the catalogs the process keeps: read, and flagged (has)
  faults              \* faults that may still happen

dbVars == <<driver, up, db, conn, leaked, record, backup, prog, exn, task, seen, cache, faults>>

Absent == <<"absent">>  \* there is no such database
None == <<"none">>      \* there is no such file

NoCache == [has |-> {}, read |-> {}]

D == dut_setup[driver]

dbInit ==
  /\ driver \in Drivers
  /\ up = TRUE /\ db = Absent
  /\ conn = "none" /\ leaked = 0
  /\ record = None /\ backup = None
  /\ prog = <<>> /\ exn = "none" /\ task = "none" /\ seen = <<>>
  /\ cache = NoCache
  /\ faults = MaxFaults

-----------------------------------------------------------------------------
\* A statement of the record, run by test() or by the client that loads a file.
Apply(how, err, s) == [do |-> how, err |-> err, stmt |-> s]
Statement(op, s) == [do |-> op, err |-> D.test.stmt, stmt |-> s]

\* The database after one more statement.
After(d, s) == IF s = "noop" THEN d ELSE Append(d, s)
Replay(stmts) == FoldLeft(After, <<>>, stmts)

\* process_dbrecord_into_sqls(), and the client that reads a file: the
\* statements of a file become steps of the operation.
process_dbrecord_into_sqls(step, file) ==
  LET how == IF conn = "none" \/ driver = "clickhouse" THEN "load" ELSE "apply" IN
    IF file = None THEN <<>> ELSE [i \in 1..Len(file) |-> Apply(how, step.err, file[i])]

\* The constructor of a schema, on a connection of its own: whatever fails in
\* it is for get_schema() to tell.
AsSchema(p) ==
  [i \in 1..Len(p) |-> [p[i] EXCEPT !.err = IF @ = "probe" THEN "schema_probe" ELSE "schema"]]

\* The catalogs that were read before are not read again.
Unread(p) ==
  FoldLeft(LAMBDA q, s : IF s.stmt = "none" \/ s.do \notin cache.has THEN Append(q, s) ELSE q, <<>>, p)

LoadSchema == AsSchema(D.conn.open) \o Unread(D.schema) \o <<Throws("close")>>

\* The process calls an operation of the driver, on a new dut or on its own.
Call(t, p) ==
  /\ prog = <<>>
  /\ prog' = p \o <<Throws("return")>> /\ task' = t /\ exn' = "none" /\ seen' = <<>>

-----------------------------------------------------------------------------
(***************************************************************************)
(* One step of the operation.                                              *)
(***************************************************************************)
OfFiles == {"if_backup", "need_record", "copy_record", "replay_record", "replay_backup", "return"}
OfHandle == {"open", "close"}
OwnConnection == {"connect", "connect_default", "dump", "copy_back"}

Reachable == up \/ driver = "sqlite"

Alive ==
  \/ driver = "sqlite"
  \/ up /\ driver = "clickhouse"
  \/ up /\ conn \in {"default", "test"}

\* The call can be answered.
Serves(s) ==
  CASE s.do \in OfFiles \cup OfHandle -> s.do \in {"need_record", "copy_record"} => record # None
    [] s.do \in {"apply", "load"} ->
         /\ IF s.do = "load" THEN Reachable ELSE Alive
         /\ IF s.stmt \in Tables THEN s.stmt \notin ToSet(db) ELSE ToSet(db) \cap Tables # {}
    [] s.do \in OwnConnection -> Reachable
    [] s.do = "create" -> Alive /\ db = Absent
    [] OTHER -> Alive

\* The call may fail although it could be answered.
MayFail(op) ==
  /\ faults > 0
  /\ op \notin OfFiles \cup {"close"}
  /\ ~(driver = "sqlite" /\ op = "drop")

MissingIsCreated(d) == IF d = Absent THEN <<>> ELSE d

Database(s) ==
  CASE s.do \in {"drop", "drop_force"} -> Absent
    [] s.do \in {"create", "wipe"} -> <<>>
    [] s.do \in {"create_missing", "open"} -> MissingIsCreated(db)
    [] s.do = "copy_back" -> IF backup = None THEN <<>> ELSE backup
    [] s.do \in {"apply", "load", "insert", "write"} -> After(db, s.stmt)
    [] OTHER -> db

Connection(s) ==
  CASE s.do \in {"connect", "use"} -> "test"
    [] s.do = "connect_default" -> "default"
    [] s.do = "close" -> "none"
    [] OTHER -> conn

Leaked(s) ==
  CASE s.do = "connect" /\ conn = "test" -> leaked + 1
    [] s.do = "drop_force" -> 0
    [] OTHER -> leaked

\* The database is missing, or thought to be: it is created.
Creation(s) == IF s.err \in {"schema", "schema_probe"} THEN AsSchema(D.conn.create) ELSE D.conn.create

\* Mutant: a catalog is flagged as read whether its query worked or not.
CacheAlways(s, works) ==
  IF s.stmt # "cached" THEN cache
  ELSE [has |-> cache.has \cup {s.do}, read |-> IF works THEN cache.read \cup {s.do} ELSE cache.read]

\* A catalog is flagged as read once its rows are there.
Cache(s, works) ==
  IF s.stmt = "cached" /\ works
    THEN [has |-> cache.has \cup {s.do}, read |-> cache.read \cup {s.do}] ELSE cache

Rest(s) ==
  LET rest == Tail(prog) IN
  CASE s.do = "connect" /\ db = Absent -> Creation(s) \o rest
    [] s.do = "if_backup" /\ backup = None -> <<Last(prog)>>
    [] s.do = "replay_record" -> process_dbrecord_into_sqls(s, record) \o rest
    [] s.do = "replay_backup" -> process_dbrecord_into_sqls(s, backup) \o rest
    [] OTHER -> rest

\* The call succeeds.  normal_test() and interect_test() record the statement
\* only then.
StepSucceeds ==
  LET s == Head(prog) IN
  /\ prog # <<>> /\ Serves(s)
  /\ prog' = Rest(s) /\ db' = Database(s)
  /\ IF s.do = "connect" /\ db = Absent
       THEN UNCHANGED <<conn, leaked>>
       ELSE conn' = Connection(s) /\ leaked' = Leaked(s)
  /\ record' = IF s.do = "insert" THEN Append(IF record = None THEN <<>> ELSE record, s.stmt) ELSE record
  /\ backup' = CASE s.do = "dump" -> db [] s.do = "copy_record" -> record [] OTHER -> backup
  /\ seen' = IF s.do \in {"content", "query"} THEN Append(seen, db) ELSE seen
  /\ task' = IF s.do = "return" THEN "none" ELSE task
  /\ cache' = Cache(s, TRUE)
  /\ UNCHANGED <<driver, up, exn, faults>>

\* A statement that was to affect rows affected none: an error where rows are
\* counted, recorded as any other where they are not.
StepAffectsNothing ==
  LET s == Head(prog) IN
  /\ prog # <<>> /\ s.do = "insert" /\ Alive /\ faults > 0 /\ faults' = faults - 1
  /\ IF D.test.counts
       THEN /\ exn' = "plain" /\ prog' = <<>> /\ task' = "failed" /\ UNCHANGED record
       ELSE /\ record' = Append(IF record = None THEN <<>> ELSE record, "noop")
            /\ prog' = Tail(prog) /\ UNCHANGED <<exn, task>>
  /\ UNCHANGED <<driver, up, db, conn, leaked, backup, seen, cache>>

\* What the driver makes of the failure.
Exception(s) ==
  CASE s.err \in {"ignored", "probe", "schema_probe"} -> {"none"}
    [] s.err = "lost" -> IF Alive THEN {"plain"} ELSE {"fatal"}
    [] s.err = "schema" -> IF Serves(s) THEN {"abort", "expected"} ELSE {"abort"}
    [] OTHER -> {s.err}

\* The steps behind those that load a file.
BehindLoad == SubSeq(prog, Min({k \in 1..Len(prog) : prog[k].do # "load"}), Len(prog))

\* The rest of the operation after a failure that throws nothing: the client
\* that loads a file stops at the first error.
RestIgnoring(s) ==
  CASE s.do = "load" -> BehindLoad
    [] s.err \in {"probe", "schema_probe"} -> Creation(s) \o Tail(prog)
    [] OTHER -> Tail(prog)

StepFails ==
  LET s == Head(prog) IN
  /\ prog # <<>>
  /\ \/ ~Serves(s) /\ UNCHANGED faults
     \/ Serves(s) /\ MayFail(s.do) /\ faults' = faults - 1
  /\ exn' \in Exception(s)
  /\ IF exn' = "none"
       THEN prog' = RestIgnoring(s) /\ UNCHANGED task
       ELSE prog' = <<>> /\ task' = "failed"
  /\ conn' = IF s.do \in {"connect", "connect_default"} THEN "dead" ELSE conn
  /\ leaked' = IF s.do = "connect" /\ conn = "test" /\ up THEN leaked + 1 ELSE leaked
  /\ backup' = IF s.do = "dump" THEN <<>> ELSE backup
  /\ seen' = IF s.do = "content" THEN Append(seen, Absent) ELSE seen
  /\ cache' = Cache(s, FALSE)
  /\ UNCHANGED <<driver, up, db, record>>

DbStep == StepSucceeds \/ StepAffectsNothing \/ StepFails

-----------------------------------------------------------------------------
\* External: the server dies with every session; what was committed survives.
ServerDies ==
  /\ driver # "sqlite" /\ up /\ faults > 0
  /\ up' = FALSE /\ faults' = faults - 1 /\ leaked' = 0
  /\ conn' = IF conn = "none" THEN "none" ELSE "dead"
  /\ UNCHANGED <<driver, db, record, backup, prog, exn, task, seen, cache>>

\* External: whoever runs the server brings it back.
ServerReturns ==
  /\ ~up /\ up' = TRUE
  /\ UNCHANGED <<driver, db, conn, leaked, record, backup, prog, exn, task, seen, cache, faults>>
=============================================================================
