# A verification project for DBFuzz MultiDB

DBFuzz MultiDB looks for logic bugs in database servers.  It generates random
databases and statements and compares the outputs of executions that ought to
agree.  This directory models the parts of the tester whose own correctness
decides whether a reported bug is one: which statements were really executed and
in which order, which outputs belong to which statement, which reference run is
compared with which test run, and that the tester comes back at all.

Sources are named relative to `src/src/` of the repository.  TLC configurations
and the map from definitions to source lines are listed in `PROJECT.json`.

## 1. Inventory

| Component | State | Operations | Interacts with | What is hard | What makes it correct |
|---|---|---|---|---|---|
| `txcheck/transaction_test`: execution | `stmt_queue`, `tid_queue`, `status_queue`, `real_*_queue`, per transaction `is_blocked`, `status`, outputs, connection | `trans_test`, `trans_test_unit`, `retry_block_stmt` | a driver per transaction | lock waits, retries that recurse, failed commits, statements that fail | the real schedule is an interleaving of the transactions; outputs match statements; nothing is lost; it ends |
| `txcheck/transaction_test`: rounds | `stmt_use`, `init_*`, `deleted_nodes`, `longest_stmt_path` | `multi_stmt_round_test`, `block_scheduling`, `instrument_txn_stmts`, `clean_instrument`, `refine_stmt_queue`, `infer_instrument_after_blocking`, `normal_stmt_test`, `check_normal_stmt_result` | execution, analyzer, instrumentor | positions and statement ids of different queues | ids keep their meaning; a path is compared with the run it comes from |
| `txcheck/dependency_analyzer` | the dependency graphs, row versions | builds WR, WW, RW, version-set, overwrite, start and instrument edges; checks G1a, G1b, G1c, G2-item, G-SI; `topological_sort_path` | called on every run | which edges, cycles, blocks | edges agree with the row versions; the sort respects them |
| `txcheck/instrumentor` | the queue it builds | puts before-, after- and version-set reads around statements | queue of a run | one-to-many positions | each block has its reads in order |
| `txcheck/txcheck_run` | server pid, child pid, timer, counters | fork a child per test, alarm, kill, restart the server | `fork_db_server`, signals | process death in any order | a test ends; only the own server is signalled; tables exist |
| `txcheck/tx_general_process` | a test case | reproduce, minimise | execution | a shrinking loop over random outcomes | what is left still shows the bug |
| `eet/eet_run`, `eet/eet_main` | child, pipe, timer | test in a child, read the verdict, minimise the database | `qcn_tester/*` | pipe, signals, exit codes | no wait for ever, no bug lost |
| `eet/qcn_tester/*` | original and transformed results | execute, transform, execute, compare, transform back, minimise | `expr/*` | failures in the middle, resets | comparison of results from the same database |
| `expr/*` transformations | expression trees | `equivalent_transform`, `back_transform`, `set_component_id` | grammar | NULLs | the same value in three-valued logic; back is the inverse |
| `cross/cross_tester` | results of the five runs, the last path, the shared statement trees | oracles, revalidation, minimisation | `expr/*`, execution, analyzer, one server | trees shared between runs, a run that fails between two others | a reported difference is a difference of the server |
| `smoke/smoke_run`, `core/impedance`, `core/known_errors`, `core/log` | counters of errors by production | query loop with reconnection, black list | random generation | rates at limits | never everything is black-listed |
| `schema/*` drivers | a connection, a statement on the wire | `test`, `reset`, `backup`, `fork_db_server`, schema loading | all testers | non-blocking calls, aborted transactions | at most one statement on the wire; the answer is that of the statement |
| `core/general_process` | retry counters | generate, interact, compare outputs | all testers | retries, tolerances | differences are found, order is not one |
| `grammar/*`, generation in `expr/*` | a random source | produce SQL text | all | none for a model checker | — |

TxCheck is one thread per child process; what is concurrent is the database.
Statements are sent one at a time, but with the MySQL and MariaDB drivers several
connections may have a statement waiting for a lock.  The hard part is therefore
what the tester does with answers that come late, fail, or never come, over
sequences of several dozen statements.  `PROJECT.json` lists each such place
under `hazards`, with the properties that cover it or the reason why none does.

## 2. What is modelled

Three groups of modules, one per mode of the tester; what two modes share is
modelled once.

* TxCheck: `DutDriver` – `TransTest`; `InstrumentedSets` – `TopoSort`; `RoundTest`,
  which composes the results of both; `DepAnalyzer` – `DepCheck`; `TxSupervisor`.
* EET: `Transform` – `QcnTester`; `DbDrivers` – `TestDatabase` – `EetRun`, with the
  abstract specification `Backup`.
* Cross: `CrossTester`, which takes an executed queue and a path as `TransTest` and
  `TopoSort` guarantee them.

### DutDriver: one connection

`Test(c, stmt)` is the set of answers of `dut_base::test()`: a record of the
exception's class and the connection afterwards.  The field `driver` of a connection
says which of three it is: `polls` (`dut_mysql` with `HAVE_MYSQL_NONBLOCK` and
without `NOT_TEST_TXN`, `dut_mariadb`), with `has_sent_sql`, `sent_sql` and
`txn_abort`; `unsure`, the same with a query for lock waits that may fail; and
`waits` (PostgreSQL, TiDB and the others).  The server is external; all its answers
are allowed.  Texts of statements are a kind and a position, enough to tell which
comparisons of texts succeed.  `PrintedKind` keeps the one conversion that matters:
transaction statements are printed without the semicolon that the driver compares
with.

### TransTest: executing a test case

State and code: `queue` is `tid_queue` with `stmt_queue`; `txn_status`,
`is_blocked`, `conn`, `outputs` are fields of `trans_arr[tid]`; `done` holds the
positions with status 1; `real` is `real_stmt_queue`, `skipped` the places of it
that hold a space holder; `stack` holds the activations of `retry_block_stmt()`.

| Action | Code (`txcheck/transaction_test.cc`) |
|---|---|
| `MainSkip`, `MainTry` | the loop of `trans_test()` |
| `FirstTry`, `FirstDone` | first loop of `retry_block_stmt()`: one statement of each blocked transaction |
| `SecondTry`, `Return` | its second loop, with the recursive call, and its return |
| `EnterFinal`, `FinalRound` | the loop that retries until nothing is missing or three rounds changed nothing, and the checks at the end |
| `TransTestUnit`, `Record` | `trans_test_unit()` and the bookkeeping at its three call sites |

### InstrumentedSets and TopoSort: sorting the dependency graph

`TopoSort` is `topological_sort_path()`, one action per turn of its loops:
`Output`, `Decycle`, `Sorted`, and `Erase`/`Erased` for the two loops that remove
ends of transactions and space holders.  Its input is any graph and any
`deleted_nodes`: parts of blocks, and (`absent`) ids that no statement of the queue has.
The code passes an excluded statement over, but puts it out with its block if another
statement of it is to be sorted, and counts it twice then; `Remaining`, `Emitted` and
`Unfinished` do the same.
`InstrumentedSets` defines `get_instrumented_stmt_set()` as the smallest closed
set, which is what its work list computes.

### RoundTest: the rounds of a test case

Composes the others: `trans_test()` is one step that gives a real queue of the
shape `TransTest` guarantees, and a path is one that `TopoSort` can give (`SortedPaths`):
whole blocks, excluded members included, up to where the loop ends.  The actions
follow `multi_stmt_round_test()`: `Prepare` (block scheduling, instrumenting),
`FirstRun`, `LastRun` (every return and every exception), `Round` (a path of
`init_da`), `RefineStmtQueue`, `Reschedule` (clean, schedule, infer, instrument),
`Run`/`RunFails`, and `Agrees`/`Differs` (reference run and comparison).  A space
holder, an instrumented read and a statement differ by their `stmt_usage`.  `Cases`
are the schedules with the faults looked at on them (lock waits, statements lost
after scheduling); `faults` is the case's.  `deleted_nodes` holds ids of `init_da`, also
when `tmp_da` is sorted with it, and an id of the path that `init_da` lacks becomes
`NoId`, the id that `stmt_id()` makes of the index -1.

### DepAnalyzer and DepCheck: the dependency graphs and the oracle

`DepAnalyzer` has an operator per function of the constructor of
`dependency_analyzer` and per check.  An execution is the record it is built from;
a row is its primary key and its version key, which every write renews, so equal
rows are those with equal hashes.  Graphs are sets of typed edges.  `DepCheck` makes
the executions: transactions against a database that keeps the promise of one of
three levels, each statement within the reads the instrumentor puts around it, and
at the end `analyze_txn_dependency()`.  What the checks say is compared with what
happened in the database, and the reductions of `check_G1c()` and `check_G2_item()`
with the definition of a cycle (an assumption of `MCDepCheck` that TLC evaluates
over all graphs of four nodes).

### TxSupervisor: the parent process

`random_test()`, `fork_for_transaction_test()`, the handler of SIGALRM,
`fork_if_server_closed()`, `try_to_kill_server()` and `fork_db_server()`, with the
processes they deal with: the test, the server that was there (`outer`) and the
servers that the tester forked (`own`, by process id).  A dead child is a zombie
until a `waitpid()` collects it, which decides what `kill(pid, 0)` says.  Crashes,
hangs and failures of forks and set-ups are *incidents*, bounded by
`MaxIncidents`.  Limits in seconds are choices.  `resume` is where a call of
`try_to_kill_server()` returns to, the main program or the interrupted `waitpid()`.
Process ids that were collected are taken not to be reused, and 0xabcde not to be
in use.

### Transform and QcnTester: a test of EET

A statement is a numbered tree of nodes; what the code changes is a *tree state*: which
nodes are NULL, which are marked as transformed, the equal expression each was given
for good, and what a printed copy (`printed_expr`) keeps.  `Turned` and `Unturned` are
`equivalent_transform()` and `back_transform()` of every class, `Ids` and `Found` the
component ids, `Value` the evaluation by the DBMS in three-valued logic.  All data are
truth values; rows are pairs of them.  `QcnTester` runs a test: the original and the
transformed statement, the validation, and the two loops of `minimize()`, for the
five kinds of testers.  They repeat the same code with small differences; the map
names the copy a definition was taken from.  The DBMS may have one of two faults, and
one execution may fail, crash the server or answer wrongly for once.

### DbDrivers, TestDatabase and EetRun: a campaign of EET

`DbDrivers` writes down, for each of nine drivers, what connecting, `reset()`,
`backup()`, `reset_to_backup()`, `get_content()`, `test()` and the loading of a schema
do: a sequence of steps, each with what the driver makes of its failure.
`TestDatabase` runs such programs one step at a time against a server that may die
and come back, with the files `db_setup.sql` and the backup, the sessions, and the
catalogs that a process reads once (`cache`).  A database is the sequence of
statements that changed it.  `EetRun` is `eet_run()`: the parent, its pipe and
signals; the child with `generate_database()`, its retries (static counters
included), the tests, and `minimize_qcn_database()`.

`Backup` is what the testers rely on: a database that is saved and restored, and a
caller who learns of every failure.  `EetRun` implements it (`Promise`,
`KeepsPromise`), with the database hidden while an operation runs and `base` for what
was saved.  Two weaknesses are part of the abstract specification and bound to the
drivers that have them: a restore of a *lenient* driver (MySQL and TiDB look only at
whether the shell could be started, PostgreSQL and GaussDB do not look at the
statements) may fall short silently, and where `backup()` copies no database the
record of the first one stays.

### CrossTester: a campaign of cross mode

`cross_test()` from the path on (`SetUp`), the runs without transactions in own and in
transformed form (`RunNormal`, `RunTransformed`), the four oracles (`Compare`),
`revalidate_bug()` (`Revalidate`), the report (`Written`), both loops of `minimize()`
(`RemoveFrom`/`RemovalTried`, `Revert`/`RevertTried`), exceptions, SIGSEGV, and the
parent.  `ast` is the set of statements whose tree is in transformed form: the runs
share the trees.  The DBMS (`Worlds`) is right, or gets one SELECT wrong when it is
transformed and a certain write was done, or one SELECT wrong in transactions, and it
may reject transforms.  `compare_content()` is as it is: the loop over the tables
starts at its end, so only their number is compared.

## 3. Runs

| Run | Question | Bounds |
|---|---|---|
| `trans` | order, outputs, completeness, the driver's protocol, the recursion, that it ends and that a driver that waits leaves nothing behind | three transactions with lock waits; two, one of them aborting, over the other drivers; five statements, every answer at every call |
| `trans_aborted` | *violated*: a rolled back transaction is recorded as aborted | two transactions |
| `topo_sort` | order, blocks, loss, progress, termination | every graph over four statements in blocks of one or two, with aborted, excluded and space-holder statements, parts of blocks excluded, up to two ids of no statement |
| `round_test` | ids, comparison and completeness where runs follow their schedule; that the rounds end, with lock waits and late failures too | two pairs of transactions in each of the ten ways to follow each other once begun and a third in one; two schedules with lock waits, one of UPDATEs with blocks of four; a short one with every failure |
| `dep_check` | no false alarm, nothing missed, snapshots and serializable orders recognised | two transactions, two tables, three rows, three statements beside the instrumentation, at most two per transaction, all three levels |
| `tx_supervisor` | servers are tracked, signalled and replaced; alarms hit tests only; the next test comes | both kinds of DBMS, five incidents at any step, two tests per database |
| `tx_stray` | *violated*: where the server is left to its user, no other process is signalled | as `tx_supervisor` |
| `qcn` | only a faulty DBMS is reported, the minimised case still shows the bug, marks stay consistent | statements with every class of expression and every part, five DBMSs, one execution that goes wrong |
| `qcn_not_in` | *violated*: only a faulty DBMS is reported | one NOT IN, a DBMS that is right |
| `eet` | the drivers keep the promise of `Backup`; reports, record, catalogs, sessions, reduction; rounds end | nine drivers, one table and one more statement, two tests, one fault at any step |
| `eet_crash` | *violated*: a crash to be ignored is followed by another round | MySQL, one fault |
| `cross` | confirmed bugs are real, the report is in original form, the reduced case still differs and is minimal; rounds end | eight statements on two paths, twelve DBMSs, two faults at any step, two tests |

What each run checks; the comment above each definition says what it means.

| Run | Module, configuration | Properties |
|---|---|---|
| `trans_aborted` | `MCTransTest`, `MCTransTestAborted.cfg` | `AbortedIsRecorded` |
| `topo_sort` | `MCTopoSort`, `MCTopoSort.cfg` | `PathRespectsDependencies`, `BlocksTogether`, `AcyclicKeepsAll`, `SomethingIsSorted`, `Termination` |
| `round_test` | `MCRoundTest`, `MCRoundTest.cfg` | `StmtIdsAligned`, `ComparesTheRun`, `PathCoversTheRun`, `Termination` |
| `tx_supervisor` | `TxSupervisor`, `TxSupervisor.cfg` | `NoOrphan`, `SignalsItsServerOnly`, `TimerOnlyInTest`, `KeepsTesting` |
| `tx_stray` | `TxSupervisor`, `TxSupervisorStray.cfg` | `NoStraySignal` |
| `dep_check` | `MCDepCheck`, `MCDepCheck.cfg` | `NoFalseAlarm`, `NothingMissed`, `SnapshotsFollowCommits`, `SerializableIsOrdered` |
| `qcn` | `MCQcnTester`, `MCQcnTester.cfg` | `BugsAreReal`, `MinimalShowsTheBug`, `MarksAgree` |
| `qcn_not_in` | `MCQcnTester`, `MCQcnNotIn.cfg` | `BugsAreReal` |
| `trans` | `MCTransTest`, `MCTransTest.cfg` | `TypeOK`, `ScheduleKeepsOrder`, `OutputsAligned`, `NothingForgotten`, `PendingIsNext`, `RecursionShrinks`, `WaitingDriverCompletes`, `Termination` |
| `eet` | `MCEetRun`, `MCEetRun.cfg` | `ReportsAreReal`, `RecordMakesDatabase`, `SessionsBounded`, `CatalogsComplete`, `DumpedShowsBug`, `KeepsPromise`, `RoundsEnd` |
| `eet_crash` | `MCEetRun`, `MCEetCrash.cfg` | `CrashIsSkipped` |
| `cross` | `MCCrossTester`, `MCCrossTester.cfg` | `ConfirmedIsReal`, `ReportShowsOriginals`, `MinimizedShowsBug`, `MinimizedIsMinimal`, `RoundsEnd` |

Why the bounds are enough.  `retry_block_stmt()` needs a commit that wakes a
transaction whose own commit wakes a third, nested: three transactions, two of
them with a commit that can wait.  `MCInit` takes the interleavings in which the lone
COMMIT has statements before and behind it, and the theorems below drop the bound.  A
sort needs a cycle through two blocks and statements outside it: four statements in
up to four blocks.  In `RoundTest` the alignment of ids depends on one statement
moving past another with a block of a different size, for which the kinds of statements
have blocks of two, three and four, but on where it moves too, so every schedule of two
pairs of transactions is taken (where they begin matters to nothing).  Its three
invariants are stated for runs that follow their schedule
(`RunsFollowTheirSchedule`): no lock wait and no statement lost after scheduling.
Statements that fail while scheduling and commits that fail are in every case of the
run.  Without the premise the invariants do not hold, see section 4, and the waiting and
the faulty cases are in the run for `Termination`, which spares the test cases that
compared a path with a statement unknown to `init_da` (none of the run does).  The
invariants and `Termination` were also checked, outside the run's time, on
b,I,I',e / b,D,S,e with the schedule 1,2,1,2,1,1,2,2.  Rounds after the second differ only in `deleted_nodes`.  Every phenomenon
that `DepCheck` looks for is one between two transactions on one row, or on a row and
a predicate over its table.  Five incidents in `TxSupervisor` allow a server to die,
its successor to die while the set-up fails twice, and a test to hang; two process
ids are one more than is ever in use.  A node of `Transform` is treated by its class
and its operands' values, which the statements of `MCQcnTester` give all
combinations.  One fault in `EetRun` is what the validation is for: a second one, in
the validation, can repeat the first, and the code promises nothing then.  Two in
`CrossTester` reach that case: `ConfirmedIsReal` says that a DBMS that is right is
blamed after two failures only, and with two it is.  The reduction loops restart
after each success: three statements that can go or stay reach every restart.

Fairness.  `TransTest`, `TopoSort` and `RoundTest` are weakly fair in the whole
next-state relation: the tester is a single thread that waits for nothing but the
server, and every call of a driver returns (the non-blocking ones ask for lock waits on
every poll, PostgreSQL has a statement timeout of six seconds).  No answer of the
server is assumed fair: `Termination` holds if the server reports a lock wait for ever.
`TxSupervisor` is weakly fair for the parent's steps, for a timer that runs, and for
the end of a server that got a SIGTERM; the test may hang.  `KeepsTesting` has a
premise, because the code cannot replace a server it did not start: the one it
found must not hang for ever, and where `fork_db_server()` does nothing it must come
back.  `EetRun` and `CrossTester` are weakly fair for the child and for the parent,
which the operating system schedules, and `EetRun` for the return of a server that
died: the tester waits a minute for whoever runs it and cannot go on without.

`CHECK_DEADLOCK` is off for `eet` and `cross`, whose parent stops at `abort()` when a
bug is found (and, in `eet_crash`, in a read that never returns).  Elsewhere it is on;
ended tests stutter explicitly.

## 4. What the runs found

* **A deadlock victim counts as committed** (`trans_aborted`).  `dut_mysql::test`
  and `dut_mariadb::test` compare with `"COMMIT;"` and `"ROLLBACK;"`, but the
  statements are printed without a semicolon.  For a transaction that the server
  rolled back, the COMMIT is "skipped" instead of refused; it stays `TXN_COMMIT`.
* **SIGTERM to every process** (`tx_stray`).  Where `fork_db_server()` does nothing it
  returns -1, which becomes the process id of the server; if the server stays
  unreachable for 20 seconds, `kill(-1, SIGTERM)` follows.
* **NOT IN becomes IN** (`qcn_not_in`).  The transformation of a membership builds the
  predicate anew and forgets the negation, so every such statement that matters is
  reported as a bug of the DBMS.
* **An ignored crash stops the campaign** (`eet_crash`).  The parent reads the pipe
  after a child that wrote nothing, and holds its write end open.

Met while modelling, and stated in the modules as properties that no run checks
because they do not hold:

* `RoundTest!QueueSizeKept` (with `Cases <- Waiting`), and `StmtIdsAligned` without its
  premise on more schedules: `infer_instrument_after_blocking()` and `refine_stmt_queue()` index the
  analyzer's blocks, which number the executed order, with positions of the planned
  one, and after a lock wait in an instrumented run the two differ.  The INSTRUMENT_ERR
  checks see such a run only if a read was separated from its statement.
* `RoundTest!PathCoversTheRun` without its premise, for b,I,I',e / b,D,S,e and the
  schedule 1,2,1,2,1,1,2,2 with a lock wait of the second transaction in the first run.
  In the second round D gets one space holder in place of three, the ids of S fall on
  `deleted_nodes`, and the path of `tmp_da` is empty.  For an empty path the code only
  counts (transaction_test.cc:1172-1187): it compares the run with no statement at all,
  although S was executed and committed.
* `RoundTest!ComparesTheRun` without its premise, and `Termination` without
  `NoId \in deleted`, both for b,S',S,U,I',e / b,I,e and the schedule 1,2,1,2,1,1,1,1,2 with
  a lock wait in the first run.  A block refined in part makes the first transaction longer
  than it is in `init_da`, and the path names ids that `init_da` lacks.
  `transfer_2_stmt_idx()` returns -1 for them and nobody looks: `stmt_id()` of -1 goes into
  `deleted_nodes`, so that the round excluded nothing new and may repeat without
  end.  The model chooses the path of each sort, and what a cycle costs, freely, so the
  test case shows what the ids allow; which graph of a server gives these very paths is
  not modelled.
* `RoundTest!SkippedIsNotCompared`: the break on a high error rate leaves the
  refinement loop, not the round.
* `DepCheck!IntermediateReadIsCommitted` (dirty level): `check_G1b()` does not look at
  whether the reader commits.  `DepCheck!PredicateEdgesOrder`: a row that is inserted
  and deleted within the execution puts predicate edges both ways, which is why
  `SerializableIsOrdered` excludes it.
* `QcnTester!MinimalIsEquivalent`: a printed copy keeps operands that the minimiser has
  since replaced by NULL, so the minimised pair need not be equivalent.
* `CrossTester!DifferencesAreConfirmed`: what the four oracles find is found again and
  reported, if nothing fails.  The user guide has four oracles whose differences are reported
  (docs/user-guide.md:312-328), and cross_tester.cc:9 "Three-way comparison with
  re-validation", "Re-validation — re-execute both paths to confirm" (347).  But
  `revalidate_bug()` repeats the two runs without transactions only (350): a difference
  that no transform shows, one that only the two TxCheck oracles find
  (307-310), is printed as found and then always dropped.  TLC shows it over `MCCrossTester` with the
  DBMS `"txn"`, which gets one SELECT wrong in transactions.
* `EetRun!MinimizedShowsBug` (with `Drivers = {"postgres"}`): the database that is tested
  during the reduction is restored from what `backup()` left, which for these drivers is
  a copy of the record or the record itself, so every statement seems dispensable.
  `DumpedShowsBug` is what holds: where `backup()` dumps the tables and one failure
  happens at most, and for a SELECT, which needs no restore, whatever fails.  (With two
  failures, one in the first runs of a query and one in those that validate it, a removal
  is kept although the bug is gone: the run finds it with `MaxFaults = 2`.)

## 5. Proofs

Seven modules hold the theorems, one per component and two for `EetRun`;
`FoldLemmas` holds lemmas they rest on.

| Module | Proved, for every value of the constants |
|---|---|
| `TransTestProofs` | every safety property of `trans`, its type correctness, `RealIsDone`, `NeverChanged` |
| `TopoSortProofs` | every safety property of `topo_sort`, its type correctness, `EachOnce` |
| `TxSupervisorProofs` | every safety property of `tx_supervisor`, its type correctness |
| `EetRunProofs` | `RecordMakesDatabase`, `SessionsBounded`, `CatalogsComplete` and the refinement `KeepsPromise` of `eet`, its type correctness |
| `EetReportProofs` | `ReportsAreReal` and `DumpedShowsBug` of `eet`, and `RInv`, what a test that no fault hits reads and answers |
| `CrossTesterProofs` | every safety property of `cross` |
| `DepCheckProofs` | `NothingMissed`, `NoFalseAlarm` and `SnapshotsFollowCommits` of `dep_check`, its type correctness |

**TransTest.** The properties are not inductive: that a retry picks the next
statement of a transaction needs to know that what is before it is done.  `IInv`
adds `DoneIsPrefix` (done statements of a transaction are a prefix of it),
`RealRange` and `OutputsRange` (what the two logs hold is what is done),
`Frontier` (a transaction that the running loop may still serve is done up
to that loop's position), `Linked` (each activation of `retry_block_stmt()` covers
what is before the end of a transaction that its caller just executed, so `cur`
decreases) and
`Counters`.  `RecordCase` shows once that the shared bookkeeping keeps the facts
about the test case; each action then has one lemma.  `PendingStaysNext` and
`DriverNeverChanged` need a second invariant, `PendingInv`, on top of `IInv`.  They
say nothing of an `unsure` driver: if the query for lock waits may fail, a statement
on the wire is recorded as executed.  `WaitingDriverCompletes` rests on a third,
`WaitsInv`: over drivers that wait, a blocked transaction has only the ROLLBACK after
its failed COMMIT to do (`BlockedInv`), and a round of the last loop has ended a
statement or is yet to do such a ROLLBACK (`RoundInv`), so the loop is never left
by its test for progress.

**TopoSort.** For every graph and whatever the caller excludes.  `Removed` are the
statements whose edges are gone: those of aborted transactions and of blocks given up for
a cycle.  `IInv` adds `BlockInv` (blocks partition the positions; from the
definition of the smallest closed set), `SetInv` (`outputted` consists of whole blocks, none of it
removed and each with a statement that the caller did not exclude), `EdgeInv` (which edges are left), `Grounded` (what is put out
had all it depends on put out or removed), `PathInv` and `TrimInv` (the path before and
while it is trimmed), `DeletedInv` (without a cycle nothing is given up) and `KeptInv` (a
sortable statement is left).  That the loop ends only when all is put out or given up
(`AllGone`, the one place where cardinalities enter) needs `WholeBlocks`: otherwise what
is counted twice, or is no statement of the queue, ends it early.  So `AcyclicKeepsAll` and
`SomethingIsSorted` have it as a premise; order, blocks and `EachOnce` have none.

**TxSupervisor.** `IInv` adds `CleanRestart` (no forked server is left when
`fork_db_server()` is called), `TriesBound`, `KnownServer` (-1 is only known where
nothing is forked) and `TimerHasChild` (while the timer runs there is a child, so a
failing `waitpid()` finds the timer stopped).

**EetRun.** For any of the drivers, any record of statements, any number of tests, tries
and faults.  What an operation leaves behind is the work of many steps, each of which
may fail and end it, so nothing about a database is inductive without saying what the
rest of the program will do.  `EetInv` does: `ProgInv` and `ExnInv` (the steps left
belong to the operation the child called, and throw what it catches there), `MakerInv`
(a step makes the database before the first step that needs one, and every drop is
followed by such a step), `FreshInv` (`reset()` still has its drop before it or has left
nothing), `RecordInv` (how many statements are recorded, and that they make the
database), `BaseInv` (the record still makes what `backup()` saved), `CopyInv` (sqlite's
copy is the saved database until the next dump), `ReplayInv` (a driver that replays its
own record has replayed a prefix of it, and the rest of the program is the rest of
the record), `CatalogInv` (a catalog not read yet is still to be read) and `SessionInv`
(a connection is made after a close, but the one of PostgreSQL after a forced drop).
The first part of `EetRunProofs` shows once that the programs of `DbDrivers` are as these parts need them
(`ProgramsOk`), and that what each action starts fits its phase (`Fits`); a step of any
program is one of the moves that `EetRunProofs` lists (`Goes`, `Stops`, `Does`
and so on), along which each part is followed.  The refinement follows: the
database at the end of a restore is `base`, unless the driver is lenient.  GaussDB is
excepted where the properties except it.

Why a report is real needs to know what each test has read, which `EetReports` adds in a
second invariant, `RInv`.  `Restored` is the database a restore brings back when nothing
fails: `base`, or for a driver whose restore passes over what fails the database that
loading the backup file makes, statement by statement (`Reloads`).  `Calm` says that no
fault hits the test and that the DBMS is right on that database.  Then a restore has
still to look for the file, or has loaded a prefix of it, or has lost its connection for
good (`LenientInv`), what it returns is `Restored` (`RestoredInv`), a change reads it,
changes it and reads it again (`ChangeInv`), and all runs of a query answer the same
(`RunsInv`, `SelectInv` for the queries that need no restore).  One fault may spoil the
first two runs or the two that validate them, never both: if the first two differ although
the DBMS is right, the fault has happened (`RunsInv`), so the validation is calm and
its answers agree.  `UpInv` is the link to the server: a session is on one that runs.

Why the reduced database shows the bug rests on both and on a third invariant, `SInv`:
the database under test is made of statements of the case that is tried (`SourceInv`), so
is what its backup file holds (`FileInv`), because `reset()` has emptied the database
before the statements were fed (`EmptyInv`).  A bug that is still seen is then due to one
of these statements, and it stays in the queue (`BugInv`).

**CrossTester.** For any queues and paths, any DBMS and any number of faults.  A run is a
fold over the statements.  `RunSteps` turns it into the sequence of its intermediate
results; by induction over them two runs of a case leave the same database, which
holds what was written (`SameDatabases`, `WritesDone`), and the rows are those of the
SELECTs, each on the database it met (`RowsShown`).  So the two runs of a pair differ
just if the case shows the difference (`ShowsIfDiffers`), a property of its statements.
The invariant adds that the results compared are those of such runs while nothing has
failed (`FormInv`, `ResultInv`), that on a DBMS that is right a second look needs a
failure in the first (`BugInv`), and that in the first loop of `minimize()` every
statement before the present one has to stay (`ReduceInv`).  The proof shows more than
the run: the second loop never reverts a SELECT unless a statement fails, because its
two runs are in the same forms (`RevertTriedKeeps`).

**DepCheck.** For any number of transactions, statements, rows and tables, whatever the
queries, and with the bounds of the executions as parameters.  `IInv` says of every
version in the store, in a snapshot, in a pending write or in an output where it came
from: it is an initial row's, or one statement wrote it (`VersionInv`: version keys are
handed out once) and its transaction has not replaced it (`Lasting`).  Where the level
promises it, that transaction has committed, and under snapshot isolation it ended before
the other one read or wrote (`StoreInv`, `SnapInv`, `PendingInv`).  `ReadInv` keeps that of
each read as it was at the read (`CameFrom`, `Promised`), and is the reason for the rest;
`InstrumentInv` says that the instrumentor's reads are where
`build_stmt_instrument_dependency()` looks for them.  A step adds a block of statements
that fit (`Adds`, `Fits`), and each part has one lemma for that.
From `IInv` on the proofs are about the analyzer.  `OneWriteSeen`: a read finds exactly
one write of its version in the list of its row, so nothing is missed and `EdgeIsRead`
gives each write-read and write-write edge its reader and its source.  `NothingMissed`
follows because such an edge is what `check_G1a()` looks for, and a replacement after
the read is before the writer's end, where `check_G1b()` looks.  For `NoFalseAlarm` the
end of a transaction is a rank that every edge between committed transactions raises;
`ReducesAll` shows that `reduce_graph_indegree()` then takes one node away per round until
none is left, so `check_G1c()` finds no cycle.  `NothingMissed` is proved for the dirty
level too, where nothing is promised.

**FoldLemmas.** The induction theorems of the library take an operator as a parameter,
which the installed provers cannot instantiate.  `NatClosed` is induction for a *set* of
numbers, from the cardinalities of intervals; `FoldPrefixes` derives from it that a
fold over a sequence passes through its prefixes one by one, `Iterates` that a step can be
taken n times (the loop of a reduction), `LeastOf` that sets have minima.  Each proof that needs a
fold links its `FoldLeft` to these by hand.

Changes the proofs asked for.  A CASE of a driver's program had overlapping arms, which
TLC resolves by order and the prover leaves open; the arms are disjoint now.
`ConfirmedIsReal` used to speak of a campaign with one fault, and says now how many it
takes.  `ReduceIn` was a fold over the set of nodes, which the prover cannot unfold; it
is a function of the number of rounds now, with `TakeAway` as the round.
`DumpedShowsBug` used to be silent about the number of failures, which two refute.

Assumptions: those the modules state about constants.  `NamesAssumption` keeps the
markers of `EetRun` (no statement is called "none", nor like the row that a test writes), `CrossAssumption` says that a path
is a sequence, `DepAssumption` that rows are numbered from 1 (so that initial rows have
version keys of their own, below those of the writes) and that a SELECT reads one table
and at least one row of it.  `InstrumentAssumption` says that instrument edges
stay in one transaction, which `build_stmt_instrument_dependency()` ensures.

`WholeBlocks` of `TopoSort` is a premise and no assumption.  It holds for the calls on
`init_da`, whose blocks `DeletedNodes` collects, as long as no compared path named an id
that `init_da` lacks, and for those on `tmp_da` in runs that follow their schedule.  It does not hold for
`tmp_da` once a lock wait has shifted ids (transaction_test.cc:1168, 1199-1203): there
`deleted_nodes` names parts of blocks or nothing.

Only model-checked: every liveness property, because fairness is out of the prover's
reach; `SerializableIsOrdered` of `DepCheck`, because `AllTopoSortPaths` is defined by recursion
over sets of statements and the property is an induction over that data; and all of
`RoundTest` and `QcnTester`.  The ids of `RoundTest` are counts over queues that `FlattenSeq`
and `SelectSeq` build, and that they agree is an induction over these.  `Transform` and `QcnTester` evaluate trees by
RECURSIVE operators, which the prover does not take.

## 6. Abstractions and what is not modelled

* The content of rows, SQL texts and outputs.  Outputs are named by the statement
  they belong to; in `Transform` data are truth values.
* `block_scheduling()` is one step of `RoundTest` with every result it can have.
  Its loop has no bound in the code, and whether it ends depends on the server's locks.
* The comparison of two runs is a free choice of `Agrees` and `Differs` in `RoundTest`;
  the tolerance of `compare_output()` is left out.  `SortedPaths` has any set of blocks
  that a sort can put out, whatever their order, and any blocks given up where a
  cycle is possible.  Of the ids that `stmt_id()` may make of the index -1 there is one,
  `NoId`: it reads in front of the queue, which is undefined.
* In `CrossTester` a SIGSEGV, which the child catches (cross_main.cc:77), may come anywhere, a
  signal that ends the child only while it generates.  What a partial report holds is
  not tracked, only that there is one.
* `DbDrivers` has one class of error per step.  The lists of messages that a driver
  ignores are one choice; MonetDB and MariaDB, whose files repeat others, are left out
  of it.  The second file of a backup and the copy for a report are not in it.
* The static retry counters are in `EetRun` (`leaked_tries`); no property says how
  often must be tried.  Sessions leak in GaussDB, which `SessionsBounded` excludes.
* `ignore_crash` is given to a tester only after its constructor ran the statement
  once, as in the code: a crash there ends the child whatever the option says.
* Minimisation and reproduction of TxCheck's saved cases (`tx_general_process`) loop over
  the same rounds on a parsed file.  `smoke_run` is a sequential loop over random
  queries whose only state is a connection and counters.  Saving, logging and the
  command line are I/O.
* The generation of SQL text (`grammar`, the constructors in `expr`) is random and
  keeps no state between statements beyond the schema.  Catalogues of types, operators
  and functions in `schema/*` are data; the order in which they are read is modelled.

## 7. Plan

What is left, in the order of what matters most for false alarms and missed bugs:

1. That the graph of a serializable execution of `DepCheck` has no cycle, stated of the
   graph itself instead of `AllTopoSortPaths`, and `StmtIdsAligned` with queues that are
   functions on ids.
2. **BlockScheduling**: `block_scheduling()` with a lock-table server, to state when
   its loop ends, and what a driver that waits does under it.
3. **CompareOutput**: `compare_output()` with its tolerance.
4. **Smoke**: the query loop with reconnection, the black list of productions.
