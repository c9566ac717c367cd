----------------------------- MODULE QcnTester -----------------------------
(***************************************************************************)
(* A QCN test of EET mode (eet/qcn_tester/): generate a statement, run it  *)
(* and its equivalent transformation, call differing results a logic bug   *)
(* when they differ twice, and minimise the test case: first components of *)
(* the statement become NULL one by one while the bug remains, then        *)
(* transformations are taken back one by one.                              *)
(*                                                                         *)
(* The DBMS (external) evaluates texts by Transform's Value, with a fault  *)
(* or without; Mishaps times an execution may fail, crash the server, or   *)
(* answer wrongly for once.                                                *)
(***************************************************************************)
EXTENDS Transform

CONSTANTS Statements,  \* the statements the grammar may generate, a sequence
          Table,       \* the rows of the table they are about, a sequence of <<a, b>>
          Databases,   \* the DBMSs: [ch: clickhouse, fault, inner: rows of the subqueries' table]
          IgnoreCrash, \* the option ignore-crash
          Mishaps      \* bound on executions that go wrong for once

VARIABLES dbms,    \* the DBMS under test
          stmt,    \* the statement, an index of Statements
          tree,    \* the state of its expressions
          orig,    \* original_query, as the tree it was printed from
          qit,     \* qit_query, as the tree it was printed from
          result,  \* original_query_result and qit_query_result
          skip,    \* skip_one_original_execution
          mishaps, \* executions that may still go wrong
          phase,   \* what the test is for
          pc,      \* the next step of the test
          id       \* the component id of the minimiser's loops

vars == <<dbms, stmt, tree, orig, qit, result, skip, mishaps, phase, pc, id>>

(***************************************************************************)
(* Statements.  A query is [list, from, where, having]; from is empty for  *)
(* a table, or the queries of a table_subquery or of a join's two sides;   *)
(* having is 0 without a group.  A statement is [kind, node, query, with]. *)
(***************************************************************************)
\* The expressions of a query_spec that take part, in the order of their
\* ids: select list, from clause, where, having.
RECURSIVE SelectRoots(_, _)
SelectRoots(q, ch) ==
  (IF ch \/ q.having # 0 THEN <<>> ELSE q.list)
  \o FlattenSeq([i \in 1..Len(q.from) |-> SelectRoots(q.from[i], ch)])
  \o <<q.where>>
  \o (IF q.having # 0 THEN <<q.having>> ELSE <<>>)

\* A CTE's query comes before its with_queries.
CteRoots(s, ch) == SelectRoots(s.query, ch) \o FlattenSeq([i \in 1..Len(s.with) |-> SelectRoots(s.with[i], ch)])
UpdateRoots(s) == s.query.list \o <<s.query.where>>
DeleteRoots(s) == <<s.query.where>>
InsertSelectRoots(s, ch) == SelectRoots(s.query, ch)

Roots(s, ch) ==
  CASE s.kind = "select" -> SelectRoots(s.query, ch)
    [] s.kind = "cte" -> CteRoots(s, ch)
    [] s.kind = "update" -> UpdateRoots(s)
    [] s.kind = "delete" -> DeleteRoots(s)
    [] s.kind = "insert_select" -> InsertSelectRoots(s, ch)

(***************************************************************************)
(* Results of a printed statement.                                         *)
(***************************************************************************)
Row(r) == [a |-> r[1], b |-> r[2], c |-> "n", d |-> "n"]
TableRows == {[src |-> i, out |-> Table[i]] : i \in 1..Len(Table)}
Out(e, list, row) ==
  [i \in 1..2 |-> IF i <= Len(list) THEN Value(e, list[i], row) ELSE "n"]

Holds(e, n, out) == Value(e, n, Row(out)) = "t"
Groups(rows) == {[src |-> x.out[1], out |-> <<x.out[1], "n">>] : x \in rows}

\* The rows of a query over a base table, with where they come from.
RECURSIVE QueryRows(_, _, _)
QueryRows(e, q, base) ==
  LET from == CASE Len(q.from) = 0 -> base
                [] Len(q.from) = 1 -> QueryRows(e, q.from[1], base)
                [] Len(q.from) = 2 ->
                     {[src |-> <<x.src, y.src>>, out |-> <<x.out[1], y.out[2]>>] :
                        x \in QueryRows(e, q.from[1], base), y \in QueryRows(e, q.from[2], base)}
      grouped(kept) ==
        IF q.having = 0 THEN kept ELSE {g \in Groups(kept) : Holds(e, q.having, g.out)}
  IN  {[src |-> x.src, out |-> Out(e, q.list, Row(x.out))] :
         x \in grouped({x \in from : Holds(e, q.where, x.out)})}

Multiset(rows) ==
  [v \in {x.out : x \in rows} |-> Cardinality({x \in rows : x.out = v})]

\* The rows that the queries of a statement produce.
OutputRows(s, e) ==
  QueryRows(e, s.query, IF s.kind = "cte" THEN QueryRows(e, s.with[1], TableRows) ELSE TableRows)

\* execute_get_changed_results(): rows of one content that the other lacks,
\* the table having been reset before the statement.
Changed(s, e, hit, output) ==
  LET old == ToSet(Table) IN
  CASE s.kind = "update" -> {<<Value(e, s.query.list[1], Row(row)), row[2]>> : row \in hit} \ old
    [] s.kind = "delete" -> hit
    [] s.kind = "insert_select" -> {x.out : x \in output} \ old

ResultOf(s, e, output) ==
  IF s.kind \in {"select", "cte"} THEN [rows |-> Multiset(output)]
  ELSE [changed |-> Changed(s, e, {row \in ToSet(Table) : Holds(e, s.query.where, row)}, output)]

\* What the DBMS answers to a printed statement.
Result(s, e) == ResultOf(s, e, OutputRows(s, e))
Odd == [odd |-> TRUE]

Stmt == Statements[stmt]
FreshTree(s, db) ==
  [node |-> s.node, ch |-> db.ch, fault |-> db.fault, inner |-> db.inner,
   null |-> {}, marked |-> {}, eq |-> [n \in 1..Len(s.node) |-> "none"],
   copy |-> [n \in 1..Len(s.node) |-> {}]]
AllTurned(e) == UNION {Turned(e, r) : r \in ToSet(Roots(Stmt, e.ch))}
AllUnturned(e) == UNION {Unturned(e, r) : r \in ToSet(Roots(Stmt, e.ch))}
AllFound(e) == IF e.node = <<>> THEN {} ELSE UNION {Found(e, r) : r \in ToSet(Roots(Stmt, e.ch))}
Components(e) ==
  LET roots == Roots(Stmt, e.ch) IN FlattenSeq([i \in 1..Len(roots) |-> Ids(e, roots[i])])
Component == Components(FreshTree(Stmt, dbms))[id]

NoTree == FreshTree([node |-> <<>>], [ch |-> FALSE, fault |-> "none", inner |-> {}])
NoResult == [original |-> Odd, qit |-> Odd]

Init ==
  /\ dbms \in Databases
  /\ stmt = 1 /\ tree = NoTree /\ orig = NoTree /\ qit = NoTree
  /\ result = NoResult /\ skip = FALSE /\ mishaps = Mishaps
  /\ phase = "generate" /\ pc = "generate" /\ id = 0

(***************************************************************************)
(* Executions: the answer, one that is wrong for once, an error, or a      *)
(* crash, which ends the process unless it is to be ignored.               *)
(***************************************************************************)
Mishap == mishaps > 0 /\ mishaps' = mishaps - 1

Answer(which, e) ==
  /\ UNCHANGED phase
  /\ \/ result' = [result EXCEPT ![which] = Result(Stmt, e)] /\ UNCHANGED mishaps
     \/ result' = [result EXCEPT ![which] = Odd] /\ Mishap

Crash == phase' = "aborted" /\ pc' = "ended" /\ Mishap /\ UNCHANGED result

\* An error while the test runs means no bug; that of an INSERT SELECT
\* escapes from the validation.
Fails(escapes) ==
  \/ ~escapes /\ pc' = "no_bug" /\ Mishap /\ UNCHANGED <<result, phase>>
  \/ escapes /\ phase' = "thrown" /\ pc' = "ended" /\ Mishap /\ UNCHANGED result
  \/ ~IgnoreCrash /\ Crash

\* The constructors: statements are generated until one executes.  A crash
\* here aborts whatever the option says, which is set after construction.
Generate ==
  /\ pc = "generate"
  /\ \E s \in 1..Len(Statements) :
       /\ dbms.ch => Statements[s].kind \in {"select", "cte"}
       /\ stmt' = s
       /\ tree' = FreshTree(Statements[s], dbms)
       /\ \/ /\ result' = [result EXCEPT !.original = Result(Statements[s], tree')]
             /\ UNCHANGED mishaps
          \/ result' = NoResult /\ Mishap
  /\ skip' = TRUE /\ phase' = "test" /\ pc' = "initial"
  /\ UNCHANGED <<dbms, orig, qit, id>>

GenerateCrashes == pc = "generate" /\ Crash /\ UNCHANGED <<dbms, stmt, tree, orig, qit, skip, id>>

\* initial_origin_and_qit_query(): print, transform, print, transform back.
InitialOriginAndQit ==
  /\ pc = "initial"
  /\ orig' = tree
  /\ qit' \in Transform(tree, AllTurned(tree))
  /\ tree' = BackTransform(qit', AllUnturned(qit'))
  /\ pc' = "original"
  /\ UNCHANGED <<dbms, stmt, result, skip, mishaps, phase, id>>

\* qcn_test_without_initialization().
Same == result'.original = result'.qit

ExecuteOriginal ==
  /\ pc = "original" /\ skip' = FALSE
  /\ \/ skip /\ pc' = "qit" /\ UNCHANGED <<result, mishaps, phase>>
     \/ ~skip /\ Answer("original", orig) /\ pc' = "qit"
     \/ ~skip /\ Fails(FALSE)
  /\ UNCHANGED <<dbms, stmt, tree, orig, qit, id>>

ExecuteQit ==
  /\ pc = "qit"
  /\ \/ Answer("qit", qit) /\ pc' = IF Same THEN "no_bug" ELSE "validate_original"
     \/ Fails(FALSE)
  /\ UNCHANGED <<dbms, stmt, tree, orig, qit, skip, id>>

ValidateOriginal ==
  /\ pc = "validate_original"
  /\ \/ Answer("original", orig) /\ pc' = "validate_qit"
     \/ Fails(Stmt.kind = "insert_select")
  /\ UNCHANGED <<dbms, stmt, tree, orig, qit, skip, id>>

ValidateQit ==
  /\ pc = "validate_qit"
  /\ \/ Answer("qit", qit) /\ pc' = IF Same THEN "no_bug" ELSE "bug"
     \/ Fails(Stmt.kind = "insert_select")
  /\ UNCHANGED <<dbms, stmt, tree, orig, qit, skip, id>>

(***************************************************************************)
(* The verdict on the generated statement, and minimize_testcase().        *)
(***************************************************************************)
NoBug ==
  /\ phase = "test" /\ pc = "no_bug"
  /\ phase' = "passed" /\ pc' = "ended"
  /\ UNCHANGED <<dbms, stmt, tree, orig, qit, result, skip, mishaps, id>>

\* The minimiser of INSERT SELECT does nothing.
LogicBug ==
  /\ phase = "test" /\ pc = "bug"
  /\ IF Stmt.kind = "insert_select"
     THEN phase' = "minimal" /\ pc' = "ended" /\ UNCHANGED id
     ELSE phase' = "reduce" /\ pc' = "pick" /\ id' = 1
  /\ UNCHANGED <<dbms, stmt, tree, orig, qit, result, skip, mishaps>>

\* The next component that can be found becomes NULL.
Reduce ==
  /\ phase = "reduce" /\ pc = "pick" /\ id <= Len(Components(FreshTree(Stmt, dbms)))
  /\ IF Component \in AllFound(tree)
     THEN tree' = [tree EXCEPT !.null = @ \cup {Component}] /\ pc' = "initial" /\ UNCHANGED id
     ELSE id' = id + 1 /\ UNCHANGED <<tree, pc>>
  /\ UNCHANGED <<dbms, stmt, orig, qit, result, skip, mishaps, phase>>

\* Mutant of Reduced: the component stays NULL.
ReducedKept ==
  /\ phase = "reduce" /\ pc \in {"bug", "no_bug"}
  /\ id' = id + 1 /\ pc' = "pick"
  /\ UNCHANGED <<dbms, stmt, tree, orig, qit, result, skip, mishaps, phase>>

\* A component without which the bug is gone is put back.
Reduced ==
  /\ phase = "reduce" /\ pc \in {"bug", "no_bug"}
  /\ tree' = IF pc = "bug" THEN tree ELSE [tree EXCEPT !.null = @ \ {Component}]
  /\ id' = id + 1 /\ pc' = "pick"
  /\ UNCHANGED <<dbms, stmt, orig, qit, result, skip, mishaps, phase>>

\* Print the original and transform the statement as a whole.
StartRestoring ==
  /\ phase = "reduce" /\ pc = "pick" /\ id > Len(Components(FreshTree(Stmt, dbms)))
  /\ orig' = tree
  /\ tree' \in Transform(tree, AllTurned(tree))
  /\ phase' = "restore" /\ id' = 1
  /\ UNCHANGED <<dbms, stmt, qit, result, skip, mishaps, pc>>

Restore ==
  /\ phase = "restore" /\ pc = "pick" /\ id <= Len(Components(FreshTree(Stmt, dbms)))
  /\ IF Component \in AllFound(tree) /\ Component \in tree.marked
     THEN /\ tree' = BackTransform(tree, Unturned(tree, Component))
          /\ qit' = tree' /\ pc' = "original" /\ UNCHANGED id
     ELSE id' = id + 1 /\ UNCHANGED <<tree, qit, pc>>
  /\ UNCHANGED <<dbms, stmt, orig, result, skip, mishaps, phase>>

\* A transformation without which the bug is gone is made again.
Restored ==
  /\ phase = "restore" /\ pc \in {"bug", "no_bug"}
  /\ IF pc = "bug" THEN UNCHANGED tree ELSE tree' \in Transform(tree, Turned(tree, Component))
  /\ id' = id + 1 /\ pc' = "pick"
  /\ UNCHANGED <<dbms, stmt, orig, qit, result, skip, mishaps, phase>>

Minimal ==
  /\ phase = "restore" /\ pc = "pick" /\ id > Len(Components(FreshTree(Stmt, dbms)))
  /\ qit' = tree
  /\ phase' = "minimal" /\ pc' = "ended"
  /\ UNCHANGED <<dbms, stmt, tree, orig, result, skip, mishaps, id>>

Ended == pc = "ended" /\ UNCHANGED vars

Next ==
  \/ Generate \/ GenerateCrashes \/ InitialOriginAndQit
  \/ ExecuteOriginal \/ ExecuteQit \/ ValidateOriginal \/ ValidateQit
  \/ NoBug \/ LogicBug \/ Reduce \/ Reduced \/ StartRestoring \/ Restore \/ Restored \/ Minimal
  \/ Ended

Spec == Init /\ [][Next]_vars
-----------------------------------------------------------------------------
(***************************************************************************)
(* Properties.                                                             *)
(***************************************************************************)
\* Over a DBMS that evaluates SQL rightly no statement is called a logic bug
\* (eet_run prints "LOGIC BUG!!! DBMS produces incorrect results"), whatever
\* was transformed and even if one answer was wrong or missing: the
\* transformations are equivalences of three-valued logic, and a difference
\* is validated by a second run.
BugsAreReal == dbms.fault = "none" => phase \notin {"reduce", "restore", "minimal"}

\* The test case that minimize_testcase() leaves still shows the bug: the
\* saved pair of statements has different results on this DBMS.
MinimalShowsTheBug ==
  phase = "minimal" => Result(Stmt, orig) # Result(Stmt, qit)

\* The assertions of mark_transformed() and unmark_transformed(): a component
\* that is not transformed has no transformed one below it, and one that the
\* minimiser may still transform back has all it transformed itself, so that
\* neither direction meets a component in the wrong state.
MarksAgree ==
  /\ \A n \in AllFound(tree) \ tree.marked : Turned(tree, n) \cap tree.marked = {}
  /\ phase = "restore" /\ pc = "pick" =>
       \A i \in id..Len(Components(FreshTree(Stmt, dbms))) :
         LET n == Components(FreshTree(Stmt, dbms))[i] IN
         n \in AllFound(tree) \cap tree.marked => Unturned(tree, n) \subseteq tree.marked

\* What the minimiser leaves is a test case of equivalent statements: a DBMS
\* that evaluates SQL rightly has the same result for both.
MinimalIsEquivalent ==
  phase = "minimal" =>
    Result(Stmt, [orig EXCEPT !.fault = "none"]) = Result(Stmt, [qit EXCEPT !.fault = "none"])
=============================================================================
