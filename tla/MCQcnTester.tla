---------------------------- MODULE MCQcnTester ----------------------------
(***************************************************************************)
(* Small instances of QcnTester: statements that between them have every   *)
(* class of expression, every kind of tester and every part of a query.    *)
(***************************************************************************)
EXTENDS QcnTester

Node(class, kids, arg) == [class |-> class, kids |-> kids, arg |-> arg, set |-> "spec"]
SetNode(class, kids, arg, set) == [class |-> class, kids |-> kids, arg |-> arg, set |-> set]
Leaf(class, arg) == Node(class, <<>>, arg)
Col(x) == Leaf("column_reference", x)
Const(v) == Leaf("const_expr", v)
True == Leaf("const_bool", "t")
Eq(l, r) == Node("comparison_op", [lhs |-> l, rhs |-> r], "=")
Like(l) == Node("like_op", [lhs |-> l], "")
Null(x) == Node("null_predicate", [expr |-> x], "")
Not(b) == Node("not_expr", [inner_expr |-> b], "")

Query(list, from, where, having) ==
  [list |-> list, from |-> from, where |-> where, having |-> having]
Statement(kind, node, query, with) ==
  [kind |-> kind, node |-> node, query |-> query, with |-> with]

\* Node 1 is the predicate of a DELETE, or of a SELECT of a column.
Delete(node) == Statement("delete", node, Query(<<>>, <<>>, 1, 0), <<>>)
Select(node) ==
  Statement("select", Append(node, Col("b")), Query(<<Len(node) + 1>>, <<>>, 1, 0), <<>>)

\* Every class of expression, as a predicate or below one.
ClassStatements ==
  << Delete(<<Like(2), Node("binop_expr", [lhs |-> 3, rhs |-> 4], ""), Col("a"), Const("t")>>),
     Delete(<<Like(2), Node("case_expr", [condition |-> 3, true_expr |-> 4, false_expr |-> 5], ""),
              True, Col("a"), Const("t")>>),
     Delete(<<Like(2), Node("cast_expr", [inner_expr |-> 3], ""), Node("funcall", [parm1 |-> 4], ""), Col("a")>>),
     Select(<<Null(2), Node("mysql_json_op", [lhs |-> 3], ""), Node("win_funcall", [parm1 |-> 4], ""),
              Leaf("window_function", "a")>>),
     Delete(<<Eq(2, 3), Node("coalesce", [parm1 |-> 4, parm2 |-> 5], ""), Leaf("atomic_subselect", "f"),
              Col("a"), Col("b")>>),
     Delete(<<Not(2), Like(3), Node("interval_expr", [date_expr |-> 4, amount |-> 5], ""), Col("a"), Const("f")>>),
     Delete(<<Node("bool_term", [lhs |-> 2, rhs |-> 3], "or"), Not(4), Leaf("regexp_expr", ""), Like(5), Col("a")>>),
     Delete(<<Node("bool_term", [lhs |-> 2, rhs |-> 4], "and"), Null(3), Col("b"), Leaf("const_bool", "f")>>),
     Delete(<<Node("between_op", [lhs |-> 2, mhs |-> 3, rhs |-> 4], ""), Col("a"), Col("b"), Const("t")>>),
     Delete(<<Node("distinct_pred", [lhs |-> 2, rhs |-> 3], ""), Col("a"), Col("b")>>) >>

\* Subqueries.
SubqueryStatements ==
  << Delete(<<Node("in_query", [lhs |-> 2, search |-> 3, list |-> 5], "in"),
              Col("a"), Null(4), Col("b"), Col("c")>>),
     Select(<<Node("exists_predicate", [search |-> 2, list |-> 5], ""), Eq(3, 4), Col("a"), Col("c"), Const("t")>>),
     Delete(<<Node("exists_predicate", [search |-> 2, list |-> 3], "group"), True, Col("c")>>),
     Select(<<Node("comp_subquery", [lhs |-> 2, search |-> 3, list |-> 5], "="), Col("a"), Null(4), Col("b"), Col("c")>>),
     Delete(<<SetNode("in_query", [lhs |-> 2, search |-> 3, list |-> 4, search2 |-> 5, list2 |-> 6], "in", "except"),
              Col("a"), True, Col("c"), True, Const("f")>>),
     Delete(<<SetNode("exists_predicate", [search |-> 2, list |-> 3, search2 |-> 4, list2 |-> 5], "", "intersect"),
              True, Col("a"), True, Col("d")>>),
     Select(<<SetNode("in_query", [lhs |-> 2, search |-> 3, list |-> 4, search2 |-> 5, list2 |-> 6], "in", "union"),
              Col("a"), True, Col("c"), True, Col("d")>>) >>

\* Parts of statements: set lists, from clauses, groups, CTEs.
PartStatements ==
  << Statement("update", <<Node("coalesce", [parm1 |-> 2, parm2 |-> 3], ""), Col("a"), Col("b"), True>>,
               Query(<<1>>, <<>>, 4, 0), <<>>),
     Statement("select", <<Col("a"), Node("cast_expr", [inner_expr |-> 3], ""), Col("b"), True, True>>,
               Query(<<1>>, <<Query(<<2>>, <<>>, 4, 0)>>, 5, 0), <<>>),
     Statement("select", <<Col("b"), True, Col("a"), True, Col("a"), True, True>>,
               Query(<<1>>, <<Query(<<3>>, <<>>, 2, 0), Query(<<6, 5>>, <<>>, 4, 0)>>, 7, 0), <<>>),
     Statement("select", <<Col("a"), True, Like(4), Col("a")>>, Query(<<1>>, <<>>, 2, 3), <<>>),
     Statement("cte", <<Col("a"), True, Like(4), Col("a"), Col("b")>>,
               Query(<<1>>, <<>>, 3, 0), <<Query(<<5>>, <<>>, 2, 0)>>),
     Statement("insert_select", <<Col("b"), Col("a"), True>>, Query(<<1, 2>>, <<>>, 3, 0), <<>>) >>

MCStatements == ClassStatements \o SubqueryStatements \o PartStatements
MCTable == <<<<"t", "t">>, <<"f", "n">>, <<"n", "t">>>>

Database(ch, fault, inner) == [ch |-> ch, fault |-> fault, inner |-> inner]
MCDatabases ==
  {Database(FALSE, "none", {"t", "n"}), Database(FALSE, "none", {"f"}),
   Database(FALSE, "case", {"t", "n"}), Database(TRUE, "none", {"t", "n"}),
   Database(TRUE, "or", {"f"})}

\* A NOT IN, and one database.
NotInStatements ==
  << Delete(<<Node("in_query", [lhs |-> 2, search |-> 3, list |-> 4], "not_in"),
              Col("a"), Leaf("const_bool", "t"), Col("c")>>) >>
RightDatabases == {Database(FALSE, "none", {"t"})}
=============================================================================
