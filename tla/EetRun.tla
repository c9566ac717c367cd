------------------------------- MODULE EetRun --------------------------------
(***************************************************************************)
(* The campaign of the EET mode (eet_run()): a parent process forks one    *)
(* child per round; the child generates a database (generate_database()),  *)
(* runs some testers on it and, when one of them finds a logic bug, saves  *)
(* the case and reduces the database before it exits with EXIT_FAILURE.    *)
(* Parent and child share a pipe.  What a tester does with its query is    *)
(* the module QcnTester; here a test is what it asks of the database.      *)
(***************************************************************************)
EXTENDS TestDatabase

CONSTANTS Stmts,      \* bound: the statements generate_database() makes, in order
          Ddl,        \* how many of them are made by interect_test()
          MaxTry,     \* bound: the retries of a statement (8 in the code)
          TestNum,    \* bound: the tests per database (50 by default)
          IgnoreCrash \* the values of the option ignore-crash looked at

ASSUME EetAssumption ==
  /\ Ddl \in 1..Len(Stmts) /\ MaxTry \in Nat /\ TestNum \in Nat \ {0}
  /\ IgnoreCrash \subseteq BOOLEAN
  /\ Tables = {Stmts[i] : i \in 1..Ddl}

\* No statement has the name of something that is none.
ASSUME NamesAssumption ==
  /\ Stmts \in Seq(ToSet(Stmts))
  /\ {"absent", "none", "noop", "cached", "w"} \cap ToSet(Stmts) = {}

VARIABLES
  parent, child,      \* the processes
  pipe,               \* the times written to the pipe and not read yet
  ignore_crash,       \* the option
  phase,              \* what the child is at: the operation it called last
  try_time, leaked_tries,  \* the static counters, and what a throw left in them
  tests,              \* tests done
  test,               \* the test under way
  queue, removed,     \* minimize_qcn_database(): the statements kept, the one tried
  minimized,          \* the reduced database file
  culprit,            \* external: the statement whose effect the DBMS gets wrong
  base                \* what the last backup() stands for

eetVars == <<parent, child, pipe, ignore_crash, phase, try_time, leaked_tries, tests, test,
             queue, removed, minimized, culprit, base>>
vars == <<dbVars, eetVars>>

Counters == {"schema", "ddl", "dml"}
NoTest == [kind |-> "none", run |-> "none", start |-> None, orig |-> <<>>, qit |-> <<>>]

Init ==
  /\ dbInit
  /\ parent = "fork" /\ child = "none" /\ pipe = 0
  /\ ignore_crash \in IgnoreCrash
  /\ phase = "none"
  /\ try_time = [c \in Counters |-> 0] /\ leaked_tries = [c \in Counters |-> 0]
  /\ tests = 0 /\ test = NoTest
  /\ queue = <<>> /\ removed = 0 /\ minimized = None
  /\ culprit \in {"none"} \cup ToSet(Stmts)
  /\ base = None

Shows(d) == culprit \in ToSet(d)

Returned == child = "running" /\ prog = <<>> /\ task = "none"
Threw == child = "running" /\ prog = <<>> /\ task = "failed"

dbUntouched == UNCHANGED <<driver, up, db, leaked, backup, cache, faults>>

\* The child calls an operation on a new dut, or on the dut it has.
NewDut(t, p) == Call(t, D.conn.open \o p) /\ conn' = "none" /\ dbUntouched
SameDut(t, p) == Call(t, p) /\ dbUntouched /\ UNCHANGED conn

-----------------------------------------------------------------------------
(***************************************************************************)
(* generate_database(), and get_schema(), interect_test(), normal_test()   *)
(* with their retries.                                                     *)
(***************************************************************************)
Made == IF record = None THEN 0 ELSE Len(record)

genSame == UNCHANGED <<parent, child, pipe, ignore_crash, tests, test, queue, removed, minimized, culprit>>

\* Mutant: the record of the database before is left.
GenerateOverOld ==
  /\ child = "running" /\ phase = "boot" /\ prog = <<>>
  /\ UNCHANGED record /\ base' = None /\ phase' = "reset"
  /\ NewDut("run", D.life.reset)
  /\ genSame /\ UNCHANGED <<try_time, leaked_tries>>

\* The record is removed, the database is reset.
Generate ==
  /\ child = "running" /\ phase = "boot" /\ prog = <<>>
  /\ record' = None /\ base' = None /\ phase' = "reset"
  /\ NewDut("run", D.life.reset)
  /\ genSame /\ UNCHANGED <<try_time, leaked_tries>>

\* interect_test() loads the schema for each statement, normal_test() does not.
interect_test ==
  /\ phase' = "ddl" /\ UNCHANGED record
  /\ Call("run", LoadSchema \o D.conn.open \o <<Statement("insert", Stmts[Made + 1])>>)
  /\ conn' = "none" /\ dbUntouched

normal_test ==
  /\ phase' = "dml" /\ UNCHANGED record
  /\ NewDut("run", <<Statement("insert", Stmts[Made + 1])>>)

loadSchema(p) == phase' = p /\ UNCHANGED record /\ Call("run", LoadSchema) /\ conn' = "none" /\ dbUntouched

dut_backup == phase' = "backup" /\ UNCHANGED record /\ NewDut("save", D.life.backup)

\* The statement is made: the recursion unwinds and gives its tries back.
Unwound(cs) ==
  /\ try_time' = [c \in Counters |-> IF c \in cs THEN leaked_tries[c] ELSE try_time[c]]
  /\ UNCHANGED leaked_tries

NextStatement ==
  /\ Returned /\ phase \in {"reset", "ddl", "schema", "dml"}
  /\ CASE Made < Ddl -> interect_test
       [] Made >= Ddl /\ phase = "ddl" -> loadSchema("schema")
       [] Made >= Ddl /\ phase # "ddl" /\ Made < Len(Stmts) -> normal_test
       [] OTHER -> dut_backup
  /\ Unwound({"schema", phase} \cap Counters)
  /\ genSame /\ UNCHANGED base

\* An expected error of get_schema(), a plain error of a statement: try again.
\* A fresh statement is generated for each try.
Retry ==
  LET c == IF exn = "expected" THEN "schema" ELSE phase IN
  /\ Threw /\ exn \in {"expected", "plain"} /\ c \in Counters /\ try_time[c] < MaxTry
  /\ try_time' = [try_time EXCEPT ![c] = @ + 1]
  /\ CASE phase = "ddl" -> interect_test
       [] phase = "dml" -> normal_test
       [] OTHER -> loadSchema(phase)
  /\ genSame /\ UNCHANGED <<leaked_tries, base>>

\* The last try throws through every call of the recursion: none of them gives
\* its try back.  eet_run() generates another database.
GiveUp ==
  LET c == IF exn = "expected" THEN "schema" ELSE phase IN
  /\ Threw /\ phase \in {"ddl", "schema", "dml"} /\ exn \in {"expected", "plain"}
  /\ try_time[c] >= MaxTry
  /\ leaked_tries' = [leaked_tries EXCEPT ![c] = try_time[c]]
  /\ phase' = "boot"
  /\ genSame /\ UNCHANGED <<dbVars, try_time, base>>

\* reset() or backup() failed: eet_run() generates another database.
GenerateAgain ==
  /\ Threw /\ phase \in {"reset", "backup"} /\ exn = "plain"
  /\ phase' = "boot" /\ genSame /\ UNCHANGED <<dbVars, try_time, leaked_tries, base>>

\* abort(), or an exception nobody catches: the child dies of a signal.
Dies ==
  /\ Threw
  /\ \/ exn = "abort"
     \/ exn = "expected" /\ phase = "testing" /\ try_time["schema"] >= MaxTry
     \/ exn = "fatal" /\ phase \in {"reset", "ddl", "dml", "backup"}
     \/ exn = "fatal" /\ phase \in {"restore", "run"} /\ removed = 0 /\ (~ignore_crash \/ test.run = "orig")
  /\ child' = "signalled"
  /\ UNCHANGED <<dbVars, parent, pipe, ignore_crash, phase, try_time, leaked_tries, tests, test,
                 queue, removed, minimized, culprit, base>>

\* The backup is made; the schema is loaded for the testers.
Generated ==
  /\ Returned /\ phase = "backup"
  /\ loadSchema("testing") /\ genSame /\ UNCHANGED <<try_time, leaked_tries, base>>

-----------------------------------------------------------------------------
(***************************************************************************)
(* The testers.  A SELECT or a CTE is run as it stands; an UPDATE or a     *)
(* DELETE on the restored database, and the table is read before and after *)
(* (execute_get_changed_results()).                                        *)
(***************************************************************************)
testSame == UNCHANGED <<parent, child, pipe, ignore_crash, try_time, leaked_tries, culprit, base, record>>

Execute(kind) ==
  IF kind = "select"
    THEN phase' = "run" /\ NewDut("run", D.test.settings \o <<Statement("query", "none")>>)
    ELSE phase' = "restore" /\ NewDut("restore", D.life.restore)

Kinds == IF driver = "clickhouse" THEN {"select"} ELSE {"select", "change"}

\* The constructor of the tester runs the original query.
NextTest ==
  /\ child = "running" /\ prog = <<>> /\ phase = "testing" /\ exn = "none" /\ tests < TestNum
  /\ \E k \in Kinds : test' = [NoTest EXCEPT !.kind = k, !.run = "orig", !.start = db] /\ Execute(k)
  /\ try_time' = [try_time EXCEPT !["schema"] = leaked_tries["schema"]]
  /\ UNCHANGED <<parent, child, pipe, ignore_crash, leaked_tries, culprit, base, record,
                 tests, queue, removed, minimized>>

ChangeRestored ==
  /\ Returned /\ phase = "restore"
  /\ test' = [test EXCEPT !.start = db] /\ phase' = "run"
  /\ SameDut("run", <<D.life.content>> \o D.test.settings \o <<Statement("write", "w"), D.life.content>>)
  /\ testSame /\ UNCHANGED <<tests, queue, removed, minimized>>

\* What a run yields: what was read, wrongly for one of the two queries when
\* the DBMS trips over this database.
Answer(side) == seen \o <<IF Shows(test.start) THEN <<side>> ELSE <<"right">>>>

Following(run) ==
  CASE run = "orig" -> "qit" [] run = "qit" -> "vorig" [] run = "vorig" -> "vqit"

Side(run) == IF run \in {"orig", "vorig"} THEN "orig" ELSE "qit"

Measured == [test EXCEPT ![Side(test.run)] = Answer(Side(test.run))]
Differs == Measured.orig # Measured.qit

\* The next of the runs: the transformed query, and both again to validate.
NextRun ==
  /\ Returned /\ phase = "run"
  /\ test.run \in {"orig", "vorig"} \/ (test.run = "qit" /\ Differs)
  /\ test' = [Measured EXCEPT !.run = Following(test.run), !.start = db]
  /\ Execute(test.kind)
  /\ testSame /\ UNCHANGED <<tests, queue, removed, minimized>>

\* The first execution of a new query failed: the constructor makes another
\* one.  The option ignore-crash is only given to the tester once it is made.
\* (So it does when there are too many rows, which no property is about.)
AnotherQuery ==
  /\ Threw /\ phase \in {"restore", "run"} /\ test.run = "orig" /\ removed = 0
  /\ exn = "plain"
  /\ test' = [test EXCEPT !.start = db]
  /\ Execute(test.kind)
  /\ testSame /\ UNCHANGED <<tests, queue, removed, minimized>>

\* qcn_test() is true: the results agree, or an execution failed.
NoBugSeen ==
  \/ Returned /\ phase = "run" /\ test.run \in {"qit", "vqit"} /\ ~Differs
  \/ /\ Threw /\ phase \in {"restore", "run"}
     /\ exn = "plain" \/ (exn = "fatal" /\ (ignore_crash \/ removed > 0))
     /\ test.run # "orig" \/ removed > 0

\* Mutant: a difference is believed at once.
BugSeenOnce == Returned /\ phase = "run" /\ test.run \in {"qit", "vqit"} /\ Differs

\* qcn_test() is false: the results differ twice.
BugSeen == Returned /\ phase = "run" /\ test.run = "vqit" /\ Differs

\* Mutant: a test that found nothing is not counted.
TestPassedUncounted ==
  /\ removed = 0 /\ NoBugSeen
  /\ test' = NoTest /\ phase' = "testing" /\ exn' = "none"
  /\ UNCHANGED <<driver, up, db, conn, leaked, backup, prog, task, seen, cache, faults>>
  /\ testSame /\ UNCHANGED <<tests, queue, removed, minimized>>

TestPassed ==
  /\ removed = 0 /\ NoBugSeen
  /\ tests' = tests + 1 /\ test' = NoTest /\ phase' = "testing" /\ exn' = "none"
  /\ UNCHANGED <<driver, up, db, conn, leaked, backup, prog, task, seen, cache, faults>>
  /\ testSame /\ UNCHANGED <<queue, removed, minimized>>

-----------------------------------------------------------------------------
(***************************************************************************)
(* minimize_qcn_database(): from the last statement of the record to the   *)
(* first, the database is made without it, saved, and tested again.        *)
(***************************************************************************)
minSame == UNCHANGED <<parent, pipe, ignore_crash, try_time, leaked_tries, tests, culprit, record>>

Candidate == RemoveAt(queue, removed)

\* The case is saved and the query reduced (QcnTester); the database comes next.
LogicBug ==
  /\ removed = 0 /\ BugSeen
  /\ queue' = record /\ removed' = Len(record) /\ test' = Measured
  /\ phase' = "m_reset" /\ NewDut("run", D.life.reset)
  /\ minSame /\ UNCHANGED <<child, minimized, base>>

\* Whatever fails in reset(), it is done again until it works.
ResetAgain ==
  /\ Threw /\ phase = "m_reset" /\ NewDut("run", D.life.reset)
  /\ minSame /\ UNCHANGED <<child, phase, test, queue, removed, minimized, base>>

\* Mutant: the statement to be removed is fed with the others.
FeedAll ==
  /\ Returned /\ phase = "m_reset" /\ phase' = "m_feed"
  /\ SameDut("run", [i \in 1..Len(queue) |-> Statement("apply", queue[i])])
  /\ minSame /\ UNCHANGED <<child, test, queue, removed, minimized, base>>

Feed ==
  /\ Returned /\ phase = "m_reset" /\ phase' = "m_feed"
  /\ SameDut("run", [i \in 1..Len(Candidate) |-> Statement("apply", Candidate[i])])
  /\ minSame /\ UNCHANGED <<child, test, queue, removed, minimized, base>>

Save ==
  /\ (Returned /\ phase = "m_feed") \/ (Threw /\ phase = "m_backup")
  /\ phase' = "m_backup" /\ SameDut("save", D.life.backup)
  /\ minSame /\ UNCHANGED <<child, test, queue, removed, minimized, base>>

\* "check whether the bug still exists"
TestAgain ==
  /\ Returned /\ phase = "m_backup"
  /\ test' = [NoTest EXCEPT !.kind = test.kind, !.run = "orig", !.start = db]
  /\ Execute(test.kind)
  /\ minSame /\ UNCHANGED <<child, queue, removed, minimized, base>>

\* The next statement, or the end: the file is written.
NextRemoval(kept) ==
  /\ queue' = kept
  /\ IF removed > 1
       THEN /\ removed' = removed - 1 /\ phase' = "m_reset" /\ NewDut("run", D.life.reset)
            /\ UNCHANGED <<child, minimized>>
       ELSE /\ minimized' = kept /\ child' = "failure"
            /\ UNCHANGED <<phase, removed, driver, up, db, conn, leaked, backup, prog, exn, task,
                            seen, cache, faults>>
  /\ minSame /\ UNCHANGED <<test, base>>

RemovalFails ==
  /\ removed > 0
  /\ (Threw /\ phase = "m_feed") \/ NoBugSeen
  /\ NextRemoval(queue)

StatementRemoved == removed > 0 /\ BugSeen /\ NextRemoval(Candidate)

-----------------------------------------------------------------------------
(***************************************************************************)
(* The end of the child, and the parent.                                   *)
(***************************************************************************)
ownVars == <<phase, try_time, leaked_tries, tests, test, queue, removed, minimized, culprit, base>>

\* All tests passed: the time spent goes into the pipe.
Finishes ==
  /\ child = "running" /\ prog = <<>> /\ phase = "testing" /\ exn = "none" /\ task # "run"
  /\ tests = TestNum
  /\ pipe' = pipe + 1 /\ child' = "success"
  /\ UNCHANGED <<dbVars, ownVars, parent, ignore_crash>>

\* A child starts with the counters of the parent, which never uses them, and
\* without the sessions of the child before.
Fork ==
  /\ parent = "fork" /\ parent' = "wait" /\ child' = "running" /\ phase' = "boot"
  /\ try_time' = [c \in Counters |-> 0] /\ leaked_tries' = [c \in Counters |-> 0]
  /\ tests' = 0 /\ test' = NoTest /\ queue' = <<>> /\ removed' = 0
  /\ conn' = "none" /\ leaked' = 0 /\ exn' = "none" /\ cache' = NoCache
  /\ UNCHANGED <<driver, up, db, record, backup, prog, task, seen, faults,
                 pipe, ignore_crash, minimized, culprit, base>>

\* waitpid(): a logic bug ends the campaign, and so does a crash unless it is
\* to be ignored.
Wait ==
  /\ parent = "wait" /\ child \in {"success", "failure", "signalled"}
  /\ parent' = IF child = "failure" \/ (child = "signalled" /\ ~ignore_crash)
                 THEN "aborted" ELSE "read"
  /\ UNCHANGED <<dbVars, ownVars, child, pipe, ignore_crash>>

\* read(): the parent has the write end open too, so an empty pipe blocks it.
Read ==
  /\ parent = "read" /\ pipe > 0
  /\ pipe' = pipe - 1 /\ parent' = "fork" /\ child' = "none"
  /\ UNCHANGED <<dbVars, ownVars, ignore_crash>>

\* A step of the operation the child called.  A backup() that returns stands
\* for the database it was called on; a driver that relies on the record keeps
\* standing for the one first recorded.
Operation ==
  /\ DbStep
  /\ base' = IF prog' = <<>> /\ task = "save"
               THEN CASE exn' # "none" -> IF driver \in Dumping THEN None ELSE base
                      [] exn' = "none" /\ (driver \in Dumping \/ base = None) -> db
                      [] OTHER -> base
               ELSE base
  /\ UNCHANGED <<parent, child, pipe, ignore_crash, phase, try_time, leaked_tries, tests, test,
                 queue, removed, minimized, culprit>>

Server == (ServerDies \/ ServerReturns) /\ UNCHANGED eetVars

Child ==
  \/ Operation
  \/ Generate \/ NextStatement \/ Retry \/ GiveUp \/ GenerateAgain \/ Generated
  \/ NextTest \/ ChangeRestored \/ NextRun \/ AnotherQuery \/ TestPassed
  \/ LogicBug \/ ResetAgain \/ Feed \/ Save \/ TestAgain \/ RemovalFails \/ StatementRemoved
  \/ Dies \/ Finishes

Parent == Fork \/ Wait \/ Read

Next == Child \/ Parent \/ Server

\* The scheduler runs the processes, and a server that died is brought back.
Fairness ==
  WF_vars(Child) /\ WF_vars(Parent) /\ WF_vars(ServerReturns /\ UNCHANGED eetVars)

Spec == Init /\ [][Next]_vars /\ Fairness

-----------------------------------------------------------------------------
\* What a database may be.
Databases == {Absent} \cup Seq(ToSet(Stmts) \cup {"w"})

\* The types of the variables.
TypeOK ==
  /\ up \in BOOLEAN /\ db \in Databases
  /\ conn \in {"none", "default", "test", "dead"} /\ leaked \in Nat
  /\ exn \in {"none", "plain", "fatal", "expected", "abort"}
  /\ task \in {"none", "run", "save", "restore", "failed"}
  /\ faults \in 0..MaxFaults
  /\ parent \in {"fork", "wait", "read", "aborted"}
  /\ child \in {"none", "running", "success", "failure", "signalled"}
  /\ pipe \in 0..1 /\ tests \in 0..TestNum /\ removed \in 0..Len(Stmts)
  /\ base \in Databases \cup {None}

(***************************************************************************)
(* What backup() and reset_to_backup() promise, and to what extent.        *)
(***************************************************************************)
Promise == INSTANCE Backup WITH
  Databases <- Databases, Unknown <- None,
  db <- IF task = "none" /\ db # Absent THEN db ELSE None,
  saved <- base,
  silent <- driver \in Lenient, keeps <- driver \notin Dumping

\* The drivers keep the promise of Backup: reset_to_backup() brings back the
\* database backup() was called on or throws, whatever fails in between.
KeepsPromise == Promise!Spec

\* One failure, of the server or of a call, never makes a logic bug of a DBMS
\* that answers right: a restore that fell short or a table that was not read
\* does not survive the validation.
ReportsAreReal ==
  MaxFaults =< 1 /\ removed > 0 => culprit # "none"

\* db_setup.sql makes the database the tests start from: what was recorded is
\* what was done, no statement more or less, in that order.
RecordMakesDatabase ==
  phase \in {"testing", "restore", "run"} /\ base # None /\ removed = 0 /\ driver # "gaussdb"
    => Replay(record) = base

\* No tester gets a schema without a catalog: a catalog whose query failed is
\* read again by the next try, although the process reads each only once.
CatalogsComplete ==
  test.kind # "none" =>
    cache.read = {D.schema[i].do : i \in {j \in 1..Len(D.schema) : D.schema[j].stmt = "cached"}}

\* Restoring again and again does not pile up sessions.
SessionsBounded == driver # "gaussdb" => leaked =< 1

\* "check whether the bug still exists": the reduced database shows the bug.
MinimizedShowsBug == child = "failure" => Shows(Replay(minimized))

\* So it does where backup() saves the database, unless two failures make a
\* difference of their own, and for queries that are not run on a restored one.
DumpedShowsBug ==
  (driver \in Dumping /\ MaxFaults =< 1) \/ (test.kind = "select" /\ driver # "gaussdb")
    => MinimizedShowsBug

\* Every round ends: the child stops one way or another.
RoundsEnd == child = "running" ~> child # "running"

\* "sleep over, restart testing": a crash that is to be ignored is followed
\* by another round.
CrashIsSkipped ==
  (parent = "wait" /\ child = "signalled" /\ ignore_crash) ~> parent = "fork"
=============================================================================
