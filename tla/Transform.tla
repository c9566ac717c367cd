----------------------------- MODULE Transform -----------------------------
(***************************************************************************)
(* Expressions of the generated queries, and what expr/ does to them for   *)
(* the QCN testers: equivalent_transform(), back_transform() and the       *)
(* component ids of the minimiser.                                         *)
(*                                                                         *)
(* A statement's expressions are a numbered set of nodes; a node has a     *)
(* class, its operands by role and an argument.  What changes is a tree    *)
(* state e:                                                                *)
(*   e.null    nodes the minimiser has replaced by const_bool(-1);         *)
(*   e.marked  nodes whose is_transformed is set;                          *)
(*   e.eq      the equal expression a node has been given, kept for good;  *)
(*   e.copy    what e.null was when a printed_expr of the node was made.   *)
(* A printed query is a tree state: printing it and having a DBMS evaluate *)
(* the text is Value.  All data is abstracted to the three truth values.   *)
(***************************************************************************)
EXTENDS Naturals, Sequences, FiniteSets, SequencesExt

(***************************************************************************)
(* SQL's three-valued logic, as the DBMS evaluates it (external).  A fault *)
(* names the construct that the DBMS under test evaluates wrongly.         *)
(***************************************************************************)
Truth(b) == IF b THEN "t" ELSE "f"
Not3(v) == CASE v = "t" -> "f" [] v = "f" -> "t" [] OTHER -> "n"
And3(v, w) == IF "f" \in {v, w} THEN "f" ELSE IF "n" \in {v, w} THEN "n" ELSE "t"
Or3(fault, v, w) ==
  IF fault = "or" /\ {v, w} = {"t", "n"} THEN "n" ELSE Not3(And3(Not3(v), Not3(w)))
Case3(fault, cond, v, w) ==
  IF cond = "t" \/ (fault = "case" /\ cond = "n") THEN v ELSE w
IsNull(v) == Truth(v = "n")
Equal(v, w) == IF "n" \in {v, w} THEN "n" ELSE Truth(v = w)
AtMost(v, w) == IF "n" \in {v, w} THEN "n" ELSE Truth(v = "f" \/ w = "t")
In3(v, S) ==
  IF \E w \in S : Equal(v, w) = "t" THEN "t"
  ELSE IF \E w \in S : Equal(v, w) = "n" THEN "n" ELSE "f"

\* A NULL operand makes a strict operator NULL.
Strict(S) == IF "n" \in S THEN "n" ELSE Truth(Cardinality(S) = 1)
FirstKnown(s) == IF s[1] # "n" THEN s[1] ELSE s[2]

(***************************************************************************)
(* The expression classes: the operands that get component ids, in order,  *)
(* those that are transformed with the node, and where a transformation of *)
(* the node itself comes from.                                             *)
(***************************************************************************)
ValueClass(roles) == [ids |-> roles, turns |-> ToSet(roles), own |-> "value"]
BoolClass(roles) == [ids |-> roles, turns |-> ToSet(roles), own |-> "bool"]

ColumnReference == ValueClass(<<>>)
ConstExpr == ValueClass(<<>>)
AtomicSubselect == ValueClass(<<>>)
WindowFunction == ValueClass(<<>>)
BinopExpr == ValueClass(<<"lhs", "rhs">>)
CaseExpr == ValueClass(<<"condition", "true_expr", "false_expr">>)
CastExpr == ValueClass(<<"inner_expr">>)
Coalesce == ValueClass(<<"parm1", "parm2">>)
IntervalExpr == ValueClass(<<"date_expr", "amount">>)
MysqlJsonOp == ValueClass(<<"lhs">>)

\* The parameters of a call are not transformed for ClickHouse.
Funcall(ch) ==
  [ids |-> <<"parm1", "parm2">>, turns |-> IF ch THEN {} ELSE {"parm1", "parm2"},
   own |-> "value"]
WinFuncall(ch) ==
  [ids |-> <<"parm1", "parm2">>, turns |-> IF ch THEN {} ELSE {"parm1", "parm2"},
   own |-> "value"]

NotExpr == BoolClass(<<"inner_expr">>)
NullPredicate == BoolClass(<<"expr">>)
LikeOp == BoolClass(<<"lhs">>)
BoolBinop == BoolClass(<<"lhs", "rhs">>)
BetweenOp == BoolClass(<<"lhs", "mhs", "rhs">>)
CompSubquery == BoolClass(<<"lhs", "search">>)

\* const_bool has an equal expression of its own.
ConstBool == [ids |-> <<>>, turns |-> {}, own |-> "const"]

\* regexp_expr and quantified_comparison are marked, and print as before.
RegexpExpr == [ids |-> <<>>, turns |-> {}, own |-> "none"]

\* Select lists of subqueries are transformed, except for ClickHouse, and
\* have no ids.
InQuery(ch) ==
  [ids |-> <<"lhs", "search", "search2">>,
   turns |-> {"lhs", "search", "search2"} \cup (IF ch THEN {} ELSE {"list", "list2"}),
   own |-> "bool"]
ExistsPredicate(ch) ==
  [ids |-> <<"search", "search2">>,
   turns |-> {"search", "search2"} \cup (IF ch THEN {} ELSE {"list", "list2"}),
   own |-> "bool"]

Class(ch) ==
  [column_reference |-> ColumnReference, const_expr |-> ConstExpr,
   atomic_subselect |-> AtomicSubselect, window_function |-> WindowFunction,
   binop_expr |-> BinopExpr, case_expr |-> CaseExpr, cast_expr |-> CastExpr,
   coalesce |-> Coalesce, interval_expr |-> IntervalExpr, mysql_json_op |-> MysqlJsonOp,
   funcall |-> Funcall(ch), win_funcall |-> WinFuncall(ch), not_expr |-> NotExpr,
   null_predicate |-> NullPredicate, like_op |-> LikeOp, comparison_op |-> BoolBinop,
   distinct_pred |-> BoolBinop, bool_term |-> BoolBinop, between_op |-> BetweenOp,
   comp_subquery |-> CompSubquery, const_bool |-> ConstBool, regexp_expr |-> RegexpExpr,
   in_query |-> InQuery(ch), exists_predicate |-> ExistsPredicate(ch)]

ClassOf(e, n) == Class(e.ch)[e.node[n].class]
Operands(e, n) == DOMAIN e.node[n].kids

(***************************************************************************)
(* What a node's text evaluates to in a row.                               *)
(***************************************************************************)
RECURSIVE Value(_, _, _), Own(_, _, _)

\* The printed_expr of a node: its text of the time it was made, when no
\* operand was transformed.
PrintedExpr(e, n, row) ==
  Own([e EXCEPT !.null = e.copy[n], !.marked = {}], n, row)

\* A CASE with the printed node on one side and the node on the other.
CaseOfCopy(e, n, r, printed, own) ==
  IF e.eq[n] = "copy_then" THEN Case3(e.fault, r, printed, own)
  ELSE Case3(e.fault, r, own, printed)

\* value_expr::equivalent_transform(): r and rand stand for the random
\* expressions, own for the node itself.
EqValueExpr(e, n, row, own) ==
  LET r == row.a
      rand == row.b
      true_value == Or3(e.fault, Or3(e.fault, r, Not3(r)), IsNull(r))
      false_value == And3(And3(r, Not3(r)), Not3(IsNull(r)))
  IN  CASE e.eq[n] = "when_true" -> Case3(e.fault, true_value, own, rand)
        [] e.eq[n] = "when_false" -> Case3(e.fault, false_value, rand, own)
        [] OTHER -> CaseOfCopy(e, n, r, PrintedExpr(e, n, row), own)

\* bool_expr::equivalent_transform().
EqBoolExpr(e, n, row, own) ==
  LET r == row.a
      true_value == Or3(e.fault, Or3(e.fault, r, Not3(r)), IsNull(r))
      false_value == And3(And3(r, Not3(r)), Not3(IsNull(r)))
  IN  IF e.eq[n] = "and_true" THEN And3(true_value, own) ELSE Or3(e.fault, false_value, own)

Equivalent(e, n, row, own) ==
  CASE n \notin e.marked -> own
    [] n \in e.marked /\ ClassOf(e, n).own = "value" -> EqValueExpr(e, n, row, own)
    [] n \in e.marked /\ ClassOf(e, n).own = "bool" -> EqBoolExpr(e, n, row, own)
    [] OTHER -> own

Value(e, n, row) ==
  IF n \in e.null THEN "n" ELSE Equivalent(e, n, row, Own(e, n, row))

\* const_bool::out(): once transformed, NULL, r and false, or r or true.
ConstBoolOut(e, n, row) ==
  LET lit == e.node[n].arg IN
  IF n \notin e.marked \/ lit = "n" THEN lit
  ELSE IF lit = "f" THEN And3(row.a, "f") ELSE Or3(e.fault, row.a, "t")

\* A transformed BETWEEN is two comparisons.
BetweenOpOut(e, n, l, m, h) ==
  IF n \in e.marked THEN And3(AtMost(l, m), AtMost(m, h))
  ELSE IF "f" \in {AtMost(l, m), AtMost(m, h)} THEN "f"
  ELSE IF "n" \in {l, m, h} THEN "n" ELSE "t"

\* A transformed AND or OR is the negation of its dual on the negated
\* operands, swapped.
BoolTermOut(e, n, l, r) ==
  CASE e.node[n].arg = "or" /\ n \notin e.marked -> Or3(e.fault, l, r)
    [] e.node[n].arg = "and" /\ n \notin e.marked -> And3(l, r)
    [] e.node[n].arg = "or" /\ n \in e.marked -> Not3(And3(Not3(r), Not3(l)))
    [] e.node[n].arg = "and" /\ n \in e.marked -> Not3(Or3(e.fault, Not3(r), Not3(l)))

\* The operand of a role, in the row extended by the rows of the subqueries.
Operand(e, n, role, row) == Value(e, e.node[n].kids[role], row)
InLhs(row, v) == [row EXCEPT !.c = v]
InRhs(row, v) == [row EXCEPT !.d = v]

\* The predicate of a subquery; an IN that became EXISTS compares first.
Predicate(e, n, role, sel, row, with) ==
  And3(IF with = "any" THEN "t" ELSE Equal(with, Operand(e, n, sel, row)),
       Operand(e, n, role, row))

SpecRows(e, n, row, with) ==
  {Operand(e, n, "list", InLhs(row, v)) :
     v \in {w \in e.inner : Predicate(e, n, "search", "list", InLhs(row, w), with) = "t"}}
RhsRows(e, n, row, with) ==
  {Operand(e, n, "list2", InRhs(row, v)) :
     v \in {w \in e.inner : Predicate(e, n, "search2", "list2", InRhs(row, w), with) = "t"}}

SetOperation(set, L, R) ==
  CASE set = "union" -> L \cup R [] set = "intersect" -> L \cap R [] set = "except" -> L \ R

\* unioned_query::out().
UnionedRows(e, n, row, with) ==
  SetOperation(e.node[n].set, SpecRows(e, n, row, with), RhsRows(e, n, row, with))

\* The condition that the left query of an INTERSECT or EXCEPT gets.
Chosen(set, exists_rhs) == IF set = "intersect" THEN exists_rhs ELSE Not3(exists_rhs)

\* Mutant of EqUnionedRows: the rows are compared with = alone.
EqUnionedRowsEqual(e, n, row, with) ==
  LET sel(v) == Operand(e, n, "list", InLhs(row, v))
      exists_rhs(v) ==
        Truth(\E w \in e.inner :
          LET r == InRhs(InLhs(row, v), w) IN
          And3(Equal(sel(v), Operand(e, n, "list2", r)),
               Predicate(e, n, "search2", "list2", r, with)) = "t")
      chosen(v) == Chosen(e.node[n].set, exists_rhs(v))
  IN  IF e.node[n].set = "union" THEN UnionedRows(e, n, row, with)
      ELSE {sel(v) : v \in {w \in e.inner :
              And3(chosen(w), Predicate(e, n, "search", "list", InLhs(row, w), with)) = "t"}}

\* unioned_query::equivalent_transform(): INTERSECT and EXCEPT become an
\* EXISTS and a NOT EXISTS in the left query; UNION stays.
EqUnionedRows(e, n, row, with) ==
  LET sel(v) == Operand(e, n, "list", InLhs(row, v))
      same(v, w) == Or3(e.fault, Equal(v, w), And3(IsNull(v), IsNull(w)))
      exists_rhs(v) ==
        Truth(\E w \in e.inner :
          LET r == InRhs(InLhs(row, v), w) IN
          And3(same(sel(v), Operand(e, n, "list2", r)),
               Predicate(e, n, "search2", "list2", r, with)) = "t")
      chosen(v) == Chosen(e.node[n].set, exists_rhs(v))
  IN  IF e.node[n].set = "union" THEN UnionedRows(e, n, row, with)
      ELSE {sel(v) : v \in {w \in e.inner :
              And3(chosen(w), Predicate(e, n, "search", "list", InLhs(row, w), with)) = "t"}}

SubqueryRows(e, n, row) ==
  IF e.node[n].set = "spec" THEN SpecRows(e, n, row, "any") ELSE UnionedRows(e, n, row, "any")

\* x IN q becomes CASE WHEN (x IN q) IS NOT NULL THEN EXISTS (q with x =
\* the selected value) ELSE NULL, whether it was IN or NOT IN.
InQueryOut(e, n, row) ==
  LET x == Operand(e, n, "lhs", row)
      found == IF e.node[n].set = "spec" THEN SpecRows(e, n, row, x)
               ELSE EqUnionedRows(e, n, row, x)
      rewritten(old_in_query) == Case3(e.fault, Not3(IsNull(old_in_query)), Truth(found # {}), "n")
      plain(old_in_query) == IF e.node[n].arg = "not_in" THEN Not3(old_in_query) ELSE old_in_query
      shown(old_in_query) ==
        IF n \in e.marked /\ ~e.ch THEN rewritten(old_in_query) ELSE plain(old_in_query)
  IN  shown(In3(x, SubqueryRows(e, n, row)))

\* EXISTS over a query without groups becomes true IN (its predicate, NULL
\* as false, of every row); other ones keep their form.
ExistsPredicateOut(e, n, row) ==
  LET p(v) == Operand(e, n, "search", InLhs(row, v)) IN
  CASE n \in e.marked /\ e.node[n].set = "spec" /\ e.node[n].arg # "group" ->
         In3("t", {Case3(e.fault, IsNull(p(v)), "f", p(v)) : v \in e.inner})
    [] n \in e.marked /\ e.node[n].set # "spec" /\ ~e.ch ->
         Truth(EqUnionedRows(e, n, row, "any") # {})
    [] OTHER -> Truth(SubqueryRows(e, n, row) # {})

\* The subquery is ordered and limited to one row.
CompSubqueryOut(e, n, row) ==
  LET found == SpecRows(e, n, row, "any")
      first == CASE found = {} -> "n" [] "f" \in found -> "f"
                 [] found = {"n"} -> "n" [] OTHER -> "t"
  IN  Equal(Operand(e, n, "lhs", row), first)

\* out() of the node itself, its operands printed as they are now.
Own(e, n, row) ==
  LET c == e.node[n].class
      k(role) == Operand(e, n, role, row)
  IN  CASE c \in {"column_reference", "window_function"} -> row[e.node[n].arg]
        [] c \in {"const_expr", "atomic_subselect"} -> e.node[n].arg
        [] c \in {"binop_expr", "comparison_op"} -> Equal(k("lhs"), k("rhs"))
        [] c = "case_expr" -> Case3(e.fault, k("condition"), k("true_expr"), k("false_expr"))
        [] c = "cast_expr" -> k("inner_expr")
        [] c = "coalesce" -> FirstKnown(<<k("parm1"), k("parm2")>>)
        [] c \in {"funcall", "win_funcall", "interval_expr"} ->
             Strict({k(role) : role \in Operands(e, n)})
        [] c \in {"mysql_json_op", "like_op"} -> k("lhs")
        [] c = "not_expr" -> Not3(k("inner_expr"))
        [] c = "null_predicate" -> IsNull(k("expr"))
        [] c = "distinct_pred" -> Truth(k("lhs") # k("rhs"))
        [] c = "regexp_expr" -> row.b
        [] c = "const_bool" -> ConstBoolOut(e, n, row)
        [] c = "bool_term" -> BoolTermOut(e, n, k("lhs"), k("rhs"))
        [] c = "between_op" -> BetweenOpOut(e, n, k("lhs"), k("mhs"), k("rhs"))
        [] c = "in_query" -> InQueryOut(e, n, row)
        [] c = "exists_predicate" -> ExistsPredicateOut(e, n, row)
        [] c = "comp_subquery" -> CompSubqueryOut(e, n, row)

(***************************************************************************)
(* Transformation, back-transformation and component ids.                  *)
(***************************************************************************)
\* The nodes that equivalent_transform() of a node marks.
RECURSIVE Turned(_, _)
Turned(e, n) ==
  {n} \cup IF n \in e.null THEN {}
           ELSE UNION {Turned(e, e.node[n].kids[r]) : r \in ClassOf(e, n).turns \cap Operands(e, n)}

\* Mutant of Unturned: back_transform() does not go on to the operands.
UnturnedItself(e, n) == {n}

\* The nodes that back_transform() of a node unmarks.
Unturned(e, n) == Turned(e, n)

\* set_component_id(): the nodes in the order of their ids.
RECURSIVE Ids(_, _)
Ids(e, n) ==
  LET roles == SelectSeq(ClassOf(e, n).ids, LAMBDA r : r \in Operands(e, n))
  IN  <<n>> \o FlattenSeq([i \in 1..Len(roles) |-> Ids(e, e.node[n].kids[roles[i]])])

\* A transformed EXISTS has `true' as its predicate: the components of the
\* old one are not to be found.
Hides(e, n) ==
  /\ e.node[n].class = "exists_predicate" /\ n \in e.marked
  /\ e.node[n].set = "spec" /\ e.node[n].arg # "group"

\* get_component_from_id(): the components a search from n finds.
RECURSIVE Found(_, _)
Found(e, n) ==
  {n} \cup IF n \in e.null \/ Hides(e, n) THEN {}
           ELSE UNION {Found(e, e.node[n].kids[r]) : r \in ToSet(ClassOf(e, n).ids) \cap Operands(e, n)}

EqChoices(own) ==
  CASE own = "value" -> {"when_true", "when_false", "copy_then", "copy_else"}
    [] own = "bool" -> {"and_true", "or_false"}
    [] OTHER -> {"kept"}

\* equivalent_transform() of the nodes S: those that have no equal
\* expression get one.
Transform(e, S) ==
  LET fresh == {n \in S \ e.null : e.eq[n] = "none"}
      made == {c \in [fresh -> UNION {EqChoices(ClassOf(e, n).own) : n \in fresh}] :
                 \A n \in fresh : c[n] \in EqChoices(ClassOf(e, n).own)}
  IN  {[e EXCEPT !.marked = @ \cup S,
                 !.eq = [n \in DOMAIN @ |-> IF n \in fresh THEN c[n] ELSE @[n]],
                 !.copy = [n \in DOMAIN @ |-> IF n \in fresh THEN e.null ELSE @[n]]] : c \in made}

BackTransform(e, S) == [e EXCEPT !.marked = @ \ S]
=============================================================================
