----------------------------- MODULE CrossTester ------------------------------
(***************************************************************************)
(* The cross mode (src/src/cross): a child runs a test case of             *)
(* transactions, takes the topological path of its dependencies, runs the  *)
(* data statements of the path without transactions, and once more with    *)
(* its SELECTs transformed; differences are validated by running both      *)
(* again, and a confirmed case is saved and reduced.  The parent forks a   *)
(* child per round (cross_run()).                                          *)
(*                                                                         *)
(* The rounds of transactions and the path are the modules TransTest,      *)
(* DepAnalyzer and TopoSort; here a case is an executed queue and a path   *)
(* of it.  How a SELECT is transformed is the module Transform; here a     *)
(* statement is in its own form or in the transformed one, and the form is *)
(* the same each time it is transformed.                                   *)
(***************************************************************************)
EXTENDS Naturals, FiniteSets, SequencesExt

CONSTANTS Cases,       \* bound: the executed queues with a path of each
          Worlds,      \* external: what the DBMS gets wrong
          MaxFaults,   \* bound: statements that fail by themselves, exceptions, crashes
          DbTestTime,  \* the tests per database (10 by default)
          IgnoreCrash  \* the values of the option ignore-crash looked at

ASSUME CrossAssumption ==
  /\ MaxFaults \in Nat /\ DbTestTime \in Nat \ {0} /\ IgnoreCrash \subseteq BOOLEAN
  /\ \A x \in Cases : x.path \in Seq(ToSet(x.path))

VARIABLES
  parent, child,       \* the processes
  ignore_crash, tests,
  goal,                \* what the next pair of runs is for
  stage,               \* normal, transformed, decide: where the pair is
  cur,                 \* the statements of the pair and their usages
  i,                   \* the statement minimize() tries
  ast,                 \* the statements in transformed form
  tx, normal, transformed,  \* the results compared
  last, confirmed,     \* last_path_stmts and last_path_usages, last_bug_confirmed
  report, minimized, partial,  \* the directories written
  world, faults        \* external: the DBMS, the faults that may still happen

procVars == <<parent, child, ignore_crash, tests>>
pairVars == <<goal, stage, cur, i, ast, normal, transformed>>
bugVars == <<tx, last, confirmed, report, minimized, partial>>
vars == <<procVars, pairVars, bugVars, world, faults>>

NoCase == [stmts |-> <<>>, usages |-> <<>>]
NoResult == [rows |-> {}, content |-> [t \in {} |-> <<>>]]

Init ==
  /\ parent = "fork" /\ child = "none" /\ ignore_crash \in IgnoreCrash /\ tests = 0
  /\ goal = "none" /\ stage = "none" /\ cur = NoCase /\ i = 0 /\ ast = {}
  /\ tx = NoResult /\ normal = NoResult /\ transformed = NoResult
  /\ last = NoCase /\ confirmed = FALSE
  /\ report = <<>> /\ minimized = NoCase /\ partial = FALSE
  /\ world \in Worlds /\ faults = MaxFaults

-----------------------------------------------------------------------------
(***************************************************************************)
(* The DBMS: a database is the writes done to it; an empty one shows no    *)
(* rows.  A row is the statement, what it saw and whether that is right.   *)
(* forms are the statements in transformed form.                           *)
(***************************************************************************)
Rows(w, forms, s, db) ==
  IF db = <<>> \/ s \in forms \cap w.rejects THEN {}
  ELSE {<<s, db, ~(s \in forms /\ w.kind = "eet" /\ s = w.select /\ w.write \in ToSet(db))>>}

is_select_like_usage(u) == u = "select"

\* One statement of a run.
Test(w, forms, c, acc, k) ==
  CASE is_select_like_usage(c.usages[k]) ->
         [acc EXCEPT !.rows = @ \cup Rows(w, forms, c.stmts[k], acc.content["t"])]
    [] c.usages[k] = "write" -> [acc EXCEPT !.content["t"] = Append(@, c.stmts[k])]
    [] OTHER -> acc

NoRows == [rows |-> {}, content |-> [t \in {"t"} |-> <<>>]]

\* execute_normal_path(), the statement at lost (none: 0) failing by itself:
\* a statement that fails is passed over.
execute_normal_path(w, forms, c, lost) ==
  FoldLeft(LAMBDA acc, k : IF k = lost THEN acc ELSE Test(w, forms, c, acc, k),
           NoRows, [k \in 1..Len(c.stmts) |-> k])

\* One statement of a run may fail by itself.
MayLose(c, lost) ==
  \/ lost = 0 /\ UNCHANGED faults
  \/ lost \in 1..Len(c.stmts) /\ faults > 0 /\ faults' = faults - 1

\* compare_content(): the tables are counted, their rows are never compared.
compare_content(a, b) == Cardinality(DOMAIN a) = Cardinality(DOMAIN b)

Differs(a, b) == a.rows # b.rows \/ ~compare_content(a.content, b.content)

-----------------------------------------------------------------------------
(***************************************************************************)
(* The case: the data statements of the path.                              *)
(***************************************************************************)
PosInTxn(q, k) == Cardinality({j \in 1..k : q[j].tid = q[k].tid})

QueueIdx(q, sid) == CHOOSE k \in 1..Len(q) : q[k].tid = sid[1] /\ PosInTxn(q, k) = sid[2]

\* Instrumented and control statements are skipped.
Extract(q, path) ==
  LET idx == FoldLeft(LAMBDA ks, sid : LET k == QueueIdx(q, sid) IN
                        IF q[k].use \in {"instrument", "control"} THEN ks ELSE Append(ks, k),
                      <<>>, path)
  IN  [stmts |-> [k \in 1..Len(idx) |-> q[idx[k]].stmt],
       usages |-> [k \in 1..Len(idx) |-> q[idx[k]].use]]

\* What the run with transactions gave: what the path gives, unless the DBMS
\* gets the interleaving wrong.
TxResult(c) ==
  LET r == execute_normal_path(world, ast, c, 0) IN
    IF world.kind = "txn" THEN [r EXCEPT !.rows = {x \in @ : x[1] # world.select}] ELSE r

Selects(c) == {c.stmts[k] : k \in {j \in 1..Len(c.stmts) : is_select_like_usage(c.usages[j])}}

Pair(g, c) == goal' = g /\ stage' = "normal" /\ cur' = c

-----------------------------------------------------------------------------
(***************************************************************************)
(* The child.                                                              *)
(***************************************************************************)
Running(g, s) == child = "running" /\ goal = g /\ stage = s

NewTest ==
  /\ goal' = "test" /\ stage' = "setup"
  /\ ast' = {} /\ cur' = NoCase /\ i' = 0 /\ confirmed' = FALSE /\ last' = NoCase
  /\ tx' = NoResult /\ normal' = NoResult /\ transformed' = NoResult

Exits(code) == child' = code /\ UNCHANGED <<parent, ignore_crash, tests>>

\* generate_database() (EetRun): it works in the end, or the server is lost.
Generate ==
  /\ Running("none", "none")
  /\ \/ NewTest /\ UNCHANGED <<procVars, faults>>
     \/ /\ faults > 0 /\ faults' = faults - 1 /\ Exits("signalled")
        /\ UNCHANGED <<pairVars, tx, last, confirmed>>
  /\ UNCHANGED <<report, minimized, partial, world>>

\* cross_test() is false.
NoBug ==
  /\ tests' = tests + 1 /\ UNCHANGED <<parent, child, ignore_crash>>
  /\ NewTest

\* The run with transactions: it fails, the analysis finds an anomaly, or there
\* is a path; a path without data statements tests nothing.
SetUp ==
  /\ Running("test", "setup") /\ tests < DbTestTime
  /\ \/ NoBug
     \/ /\ world.kind = "txn" /\ Exits("failure") /\ UNCHANGED <<pairVars, tx, last, confirmed>>
     \/ \E x \in Cases :
          LET c == Extract(x.queue, x.path) IN
          /\ c.stmts # <<>>
          /\ Pair("test", c) /\ tx' = TxResult(c)
          /\ UNCHANGED <<procVars, i, ast, normal, transformed, last, confirmed>>
  /\ UNCHANGED <<report, minimized, partial, world, faults>>

\* The first run of a pair, on the restored database.
RunNormal ==
  /\ child = "running" /\ stage = "normal" /\ goal # "revert"
  /\ \E lost \in 0..Len(cur.stmts) : MayLose(cur, lost) /\ normal' = execute_normal_path(world, ast, cur, lost)
  /\ ast' = ast \cup Selects(cur)
  /\ stage' = "transformed"
  /\ UNCHANGED <<procVars, bugVars, goal, cur, i, transformed, world>>

\* Mutant: the statements stay in the transformed form.
RunTransformedKept ==
  /\ child = "running" /\ stage = "transformed"
  /\ \E lost \in 0..Len(cur.stmts) : MayLose(cur, lost) /\ transformed' = execute_normal_path(world, ast, cur, lost)
  /\ stage' = "decide"
  /\ UNCHANGED <<procVars, bugVars, goal, cur, i, ast, normal, world>>

\* The second run; the SELECTs get their own form back.
RunTransformed ==
  /\ child = "running" /\ stage = "transformed"
  /\ \E lost \in 0..Len(cur.stmts) : MayLose(cur, lost) /\ transformed' = execute_normal_path(world, ast, cur, lost)
  /\ ast' = ast \ Selects(cur)
  /\ stage' = "decide"
  /\ UNCHANGED <<procVars, bugVars, goal, cur, i, normal, world>>

\* A transformed run without rows is taken for transforms the DBMS rejects.
TransformFailure == transformed.rows = {} /\ normal.rows # {}

EetOk == TransformFailure \/ ~Differs(normal, transformed)
TxCheckOk == ~Differs(tx, normal)

\* The four oracles.
Compare ==
  /\ Running("test", "decide")
  /\ IF EetOk /\ TxCheckOk
       THEN NoBug
       ELSE /\ Pair("revalidate", cur)
            /\ UNCHANGED <<procVars, i, ast, tx, normal, transformed, last, confirmed>>
  /\ UNCHANGED <<report, minimized, partial, world, faults>>

\* normal_stmts.sql: each statement in the form it has.
Written(c) == [k \in 1..Len(c.stmts) |-> <<c.stmts[k], c.stmts[k] \in ast>>]

-----------------------------------------------------------------------------
(***************************************************************************)
(* minimize().                                                             *)
(***************************************************************************)
Without(c, k) == [stmts |-> RemoveAt(c.stmts, k), usages |-> RemoveAt(c.usages, k)]

Saves(c) ==
  /\ minimized' = c /\ last' = c /\ Exits("failure") /\ UNCHANGED pairVars

\* The second loop, from statement k: each SELECT that is left transformed.
Revert(c, k) ==
  LET ks == {j \in k..Len(c.stmts) : is_select_like_usage(c.usages[j])} IN
    IF ks = {} THEN Saves(c)
    ELSE LET j == CHOOSE j \in ks : \A l \in ks : j =< l IN
         /\ Pair("revert", c) /\ i' = j /\ last' = c
         /\ UNCHANGED <<procVars, ast, normal, transformed, minimized>>

\* The first loop, from statement k: each statement that is no SELECT.
RemoveFrom(c, k) ==
  LET ks == {j \in k..Len(c.stmts) : ~is_select_like_usage(c.usages[j])} IN
    IF ks = {} \/ Len(c.stmts) = 1 THEN Revert(c, 1)
    ELSE LET j == CHOOSE j \in ks : \A l \in ks : j =< l IN
         /\ Pair("remove", Without(c, j)) /\ i' = j /\ last' = c
         /\ UNCHANGED <<procVars, ast, normal, transformed, minimized>>

\* Mutant: a difference is a bug, validated or not.
RevalidateNothing ==
  /\ Running("revalidate", "decide")
  /\ confirmed' = TRUE /\ report' = Written(cur) /\ RemoveFrom(cur, 1) /\ UNCHANGED tx
  /\ UNCHANGED <<partial, world, faults>>

\* revalidate_bug(): only the two runs without transactions are compared, and
\* rejected transforms are no longer told apart.
Revalidate ==
  /\ Running("revalidate", "decide")
  /\ IF Differs(normal, transformed)
       THEN confirmed' = TRUE /\ report' = Written(cur) /\ RemoveFrom(cur, 1) /\ UNCHANGED tx
       ELSE NoBug /\ UNCHANGED <<report, minimized>>
  /\ UNCHANGED <<partial, world, faults>>

\* Mutant: the loop goes on with the statement behind the removed one.
RemovalTriedOnwards ==
  /\ Running("remove", "decide")
  /\ IF Differs(normal, transformed) THEN RemoveFrom(cur, i + 1) ELSE RemoveFrom(last, i + 1)
  /\ UNCHANGED <<tx, confirmed, report, partial, world, faults>>

\* Mutant: the statement goes whether the difference is left or not.
RemovalAlways ==
  /\ Running("remove", "decide") /\ RemoveFrom(cur, 1)
  /\ UNCHANGED <<tx, confirmed, report, partial, world, faults>>

\* Mutant: a statement that has to stay is tried again.
RemovalRetried ==
  /\ Running("remove", "decide")
  /\ IF Differs(normal, transformed) THEN RemoveFrom(cur, 1) ELSE RemoveFrom(last, i)
  /\ UNCHANGED <<tx, confirmed, report, partial, world, faults>>

\* A removed statement starts the loop again.
RemovalTried ==
  /\ Running("remove", "decide")
  /\ IF Differs(normal, transformed) THEN RemoveFrom(cur, 1) ELSE RemoveFrom(last, i + 1)
  /\ UNCHANGED <<tx, confirmed, report, partial, world, faults>>

\* The two lists share their statements, so all but one are transformed before
\* either run.
RevertRuns ==
  /\ Running("revert", "normal")
  /\ ast' = (ast \cup Selects(cur)) \ {cur.stmts[i]}
  /\ stage' = "again" /\ UNCHANGED <<procVars, bugVars, goal, cur, i, normal, transformed, world, faults>>

RevertRunsNormal ==
  /\ Running("revert", "again")
  /\ \E lost \in 0..Len(cur.stmts) : MayLose(cur, lost) /\ normal' = execute_normal_path(world, ast, cur, lost)
  /\ stage' = "transformed"
  /\ UNCHANGED <<procVars, bugVars, goal, cur, i, ast, transformed, world>>

\* A reverted SELECT is marked as something else.
RevertTried ==
  /\ Running("revert", "decide")
  /\ IF Differs(normal, transformed)
       THEN Revert([last EXCEPT !.usages[i] = "none"], i + 1)
       ELSE Revert(last, i + 1)
  /\ UNCHANGED <<tx, confirmed, report, partial, world, faults>>

-----------------------------------------------------------------------------
\* An exception out of a restore or out of reading the tables: the next test,
\* EXIT_FAILURE when the text says BUG, or the end of minimize().
Throws ==
  /\ child = "running" /\ stage \in {"setup", "normal", "again", "transformed"} /\ faults > 0
  /\ faults' = faults - 1
  /\ IF goal \in {"remove", "revert"}
       THEN partial' = TRUE /\ Exits("failure") /\ UNCHANGED <<pairVars, tx, last, confirmed>>
       ELSE /\ UNCHANGED partial
            /\ \/ tests < DbTestTime /\ NoBug
               \/ Exits("failure") /\ UNCHANGED <<pairVars, tx, last, confirmed>>
  /\ UNCHANGED <<report, minimized, world>>

\* SIGSEGV, wherever it happens.
Crashes ==
  /\ child = "running" /\ faults > 0 /\ faults' = faults - 1
  /\ Exits("two") /\ UNCHANGED <<pairVars, bugVars, world>>

Finishes ==
  /\ Running("test", "setup") /\ tests = DbTestTime
  /\ Exits("success") /\ UNCHANGED <<pairVars, bugVars, world, faults>>

Child ==
  \/ Generate \/ SetUp \/ RunNormal \/ RunTransformed \/ Compare \/ Revalidate
  \/ RemovalTried \/ RevertRuns \/ RevertRunsNormal \/ RevertTried
  \/ Throws \/ Crashes \/ Finishes

-----------------------------------------------------------------------------
\* cross_run(): the parent.
Fork ==
  /\ parent = "fork" /\ parent' = "wait" /\ child' = "running" /\ tests' = 0
  /\ goal' = "none" /\ stage' = "none" /\ cur' = NoCase /\ i' = 0 /\ ast' = {}
  /\ tx' = NoResult /\ normal' = NoResult /\ transformed' = NoResult
  /\ last' = NoCase /\ confirmed' = FALSE
  /\ UNCHANGED <<ignore_crash, report, minimized, partial, world, faults>>

\* A bug or a crash that counts ends the campaign.
Wait ==
  /\ parent = "wait" /\ child \notin {"none", "running"}
  /\ parent' = IF child = "failure" \/ (child = "signalled" /\ ~ignore_crash) THEN "aborted" ELSE "fork"
  /\ child' = IF parent' = "fork" THEN "none" ELSE child
  /\ UNCHANGED <<ignore_crash, tests, pairVars, bugVars, world, faults>>

Parent == Fork \/ Wait

Next == Child \/ Parent

\* The scheduler runs both processes.
Spec == Init /\ [][Next]_vars /\ WF_vars(Child) /\ WF_vars(Parent)

-----------------------------------------------------------------------------
AllStmts == UNION {{x.queue[k].stmt : k \in 1..Len(x.queue)} : x \in Cases}

\* The types of the variables.
TypeOK ==
  /\ parent \in {"fork", "wait", "aborted"}
  /\ child \in {"none", "running", "success", "failure", "signalled", "two"}
  /\ tests \in 0..DbTestTime /\ faults \in 0..MaxFaults
  /\ goal \in {"none", "test", "revalidate", "remove", "revert"}
  /\ stage \in {"none", "setup", "normal", "again", "transformed", "decide"}
  /\ Len(cur.stmts) = Len(cur.usages) /\ i \in 0..Len(last.stmts)
  /\ ast \subseteq AllStmts

\* It takes two failures to make a confirmed bug of a DBMS that is right and takes
\* every transform, one in the test and one when it is validated.
ConfirmedIsReal ==
  confirmed => world.kind # "right" \/ world.rejects # {} \/ faults + 2 =< MaxFaults

\* A difference the four oracles find is found again and reported, if nothing fails:
\* "Three-way comparison with re-validation" (cross_tester.cc:9).  revalidate_bug()
\* does not repeat the run with transactions, so one that only TxCheck finds is dropped.
DifferencesAreConfirmed == [][Revalidate /\ faults = MaxFaults => confirmed']_vars

\* What is reported as the original statements is in the original form.
ReportShowsOriginals ==
  goal \in {"remove", "revert"} => \A k \in 1..Len(report) : ~report[k][2]

\* On a DBMS that fails nothing by itself, a case gives another answer with its
\* SELECTs transformed: one of them reads a written table, and in the other form
\* it is rejected, or answered wrong because of a write.
Shows(w, c) ==
  \E k \in 1..Len(c.stmts) : \E j \in 1..(k - 1) :
    /\ is_select_like_usage(c.usages[k]) /\ c.usages[j] = "write"
    /\ \/ c.stmts[k] \in w.rejects
       \/ w.kind = "eet" /\ c.stmts[k] = w.select /\ c.stmts[j] = w.write

Reduced == child = "failure" /\ confirmed /\ ~partial /\ faults = MaxFaults

\* The minimized case still shows the difference.
MinimizedShowsBug == Reduced => Shows(world, minimized)

\* No statement of it that is no SELECT can be left out: minimize() stops only
\* where every single removal was tried on the case it saves.
MinimizedIsMinimal ==
  Reduced =>
    \A k \in 1..Len(minimized.stmts) :
      ~is_select_like_usage(minimized.usages[k]) => ~Shows(world, Without(minimized, k))

\* Every round ends, whatever minimize() meets.
RoundsEnd == child = "running" ~> child # "running"
=============================================================================
