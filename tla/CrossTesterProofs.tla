--------------------------- MODULE CrossTesterProofs --------------------------
(***************************************************************************)
(* For every set of cases, every DBMS and any number of faults: what       *)
(* revalidate_bug() confirms is a bug of the DBMS, what is reported is in  *)
(* its own form, and what minimize() saves shows the difference and has no *)
(* statement too many.                                                     *)
(*                                                                         *)
(* The invariant relates the results a run left to what a run of the case  *)
(* gives (ResultInv), which is true while no statement has failed by       *)
(* itself, and the loop of minimize() to the statements it has tried       *)
(* (ReduceInv). A run is a fold over the statements; the first part says   *)
(* what a run gives, statement by statement, up to the fact that the two   *)
(* runs of a case differ just if the case shows the difference, which is a *)
(* matter of its writes and SELECTs alone (ShowsIfDiffers).                *)
(***************************************************************************)
EXTENDS CrossTester, FoldLemmas

-----------------------------------------------------------------------------
(***************************************************************************)
(* The inductive invariant.                                                *)
(***************************************************************************)

\* A case: as many usages as statements.
IsCase(c) ==
  /\ c.stmts \in Seq(ToSet(c.stmts)) /\ c.usages \in Seq(ToSet(c.usages))
  /\ Len(c.stmts) = Len(c.usages)

Plain == {"test", "revalidate", "remove"}
RightDbms == world.kind = "right" /\ world.rejects = {}

\* The pair of runs and its goal.
PairInv ==
  /\ MaxFaults \in Nat /\ faults \in 0..MaxFaults /\ tests \in Nat
  /\ goal \in {"none", "test", "revalidate", "remove", "revert"}
  /\ stage \in {"none", "setup", "normal", "again", "transformed", "decide"}
  /\ goal = "none" <=> stage = "none"
  /\ stage = "setup" => goal = "test"
  /\ stage = "again" => goal = "revert"
  /\ goal \in Plain /\ stage # "setup" => IsCase(cur)
  /\ goal = "remove" => IsCase(last) /\ i \in Nat
  /\ child = "failure" => parent # "fork"
  /\ parent = "fork" => child = "none"

\* Statements are in transformed form between the runs of a pair only.
FormInv ==
  goal \in Plain => ast = IF stage = "transformed" THEN Selects(cur) ELSE {}

\* A run with the SELECTs in their own form, and one with them transformed.
Plainly(w, c) == execute_normal_path(w, {}, c, 0)
Changed(w, c) == execute_normal_path(w, Selects(c), c, 0)

\* What the runs gave when no statement failed by itself.
Undisturbed ==
  faults = MaxFaults \/ (goal = "revalidate" /\ RightDbms /\ faults + 1 = MaxFaults)

ResultInv ==
  Undisturbed =>
    /\ goal \in Plain /\ stage \in {"transformed", "decide"} => normal = Plainly(world, cur)
    /\ goal \in Plain /\ stage = "decide" => transformed = Changed(world, cur)
    /\ goal = "revert" /\ stage = "transformed" => normal = execute_normal_path(world, ast, cur, 0)
    /\ goal = "revert" /\ stage = "decide" => normal = transformed
    /\ goal = "test" /\ stage # "setup" /\ world.kind # "txn" => tx = Plainly(world, cur)

\* A bug is confirmed in revalidate_bug() only, and a second look needs a first.
BugInv ==
  /\ child = "running" /\ goal \in {"none", "test", "revalidate"} => ~confirmed
  /\ goal = "revalidate" /\ RightDbms => faults < MaxFaults

\* No statement before the k-th that is no SELECT can be left out.
Tried(w, c, k) ==
  \A j \in 1..Len(c.stmts) : j < k /\ ~is_select_like_usage(c.usages[j]) => ~Shows(w, Without(c, j))

Minimal(w, c) == Shows(w, c) /\ Tried(w, c, Len(c.stmts) + 1)

ReduceInv ==
  child = "running" /\ faults = MaxFaults =>
    /\ goal = "remove" =>
         /\ IsCase(last) /\ Shows(world, last) /\ Tried(world, last, i)
         /\ i \in 1..Len(last.stmts) /\ ~is_select_like_usage(last.usages[i])
         /\ cur = Without(last, i)
    /\ goal = "revert" => IsCase(last) /\ Minimal(world, last)

SavedInv == Reduced => Minimal(world, minimized)

IInv ==
  /\ PairInv /\ FormInv /\ ResultInv /\ BugInv /\ ConfirmedIsReal /\ ReportShowsOriginals
  /\ ReduceInv /\ SavedInv

-----------------------------------------------------------------------------
(***************************************************************************)
(* A run, statement by statement.                                          *)
(***************************************************************************)

Results(c) ==
  [rows : SUBSET (ToSet(c.stmts) \X Seq(ToSet(c.stmts)) \X BOOLEAN),
   content : [{"t"} -> Seq(ToSet(c.stmts))]]

\* One step of a run.
Goes(w, forms, c, lost, acc, k) == IF k = lost THEN acc ELSE Test(w, forms, c, acc, k)

(* What the results of a case are stays so with each statement.            *)
LEMMA TestType ==
  ASSUME NEW w, NEW forms, NEW c, IsCase(c), NEW k \in 1..Len(c.stmts), NEW acc \in Results(c)
  PROVE  Test(w, forms, c, acc, k) \in Results(c)
PROOF
  <1> DEFINE S == ToSet(c.stmts)
             db == acc.content["t"]
  <1>1. c.stmts[k] \in S /\ db \in Seq(S) /\ acc.rows \subseteq S \X Seq(S) \X BOOLEAN
    BY DEF IsCase, Results
  <1>2. Rows(w, forms, c.stmts[k], db) \subseteq S \X Seq(S) \X BOOLEAN
    <2> DEFINE x == c.stmts[k]
               T == Seq(S)
               ok == ~(x \in forms /\ w.kind = "eet" /\ x = w.select /\ w.write \in ToSet(db))
    <2>1. x \in S /\ db \in T /\ ok \in BOOLEAN
      BY <1>1
    <2>2. Rows(w, forms, x, db) = IF db = <<>> \/ x \in forms \cap w.rejects THEN {} ELSE {<<x, db, ok>>}
      BY DEF Rows
    <2> HIDE DEF x, ok, db, T, S
    <2>3. Rows(w, forms, x, db) \subseteq S \X T \X BOOLEAN
      BY <2>1, <2>2
    <2> QED BY <2>3 DEF x, T
  <1>3. Append(db, c.stmts[k]) \in Seq(S)
    <2> HIDE DEF S, db
    <2> QED BY <1>1
  <1>4. [acc EXCEPT !.rows = @ \cup Rows(w, forms, c.stmts[k], db)] \in Results(c)
    <2> DEFINE R == acc.rows \cup Rows(w, forms, c.stmts[k], db)
    <2>1. R \subseteq S \X Seq(S) \X BOOLEAN
      BY <1>1, <1>2
    <2>2. [acc EXCEPT !.rows = R] \in Results(c)
      <3> HIDE DEF R
      <3> QED BY <2>1 DEF Results
    <2> QED BY <2>2
  <1>5. [acc EXCEPT !.content["t"] = Append(@, c.stmts[k])] \in Results(c)
    BY <1>1, <1>3 DEF Results
  <1> QED BY <1>4, <1>5 DEF Test, is_select_like_usage

\* The results of a run after each of its statements end in r.
EndsIn(r, w, forms, c, lost) ==
  \E f \in [0..Len(c.stmts) -> Results(c)] :
    /\ f[0] = NoRows /\ f[Len(c.stmts)] = r
    /\ \A k \in 0..(Len(c.stmts) - 1) : f[k + 1] = Goes(w, forms, c, lost, f[k], k + 1)

(* A run is its statements one after the other: execute_normal_path(), a   *)
(* fold, ends in the result after the last.                                *)
LEMMA RunSteps ==
  ASSUME NEW w, NEW forms, NEW c, IsCase(c), NEW lost
  PROVE  EndsIn(execute_normal_path(w, forms, c, lost), w, forms, c, lost)
PROOF
  <1> DEFINE n == Len(c.stmts)
             X == Results(c)
             p == [k \in 1..n |-> k]
             F == [k \in 1..n |-> [x \in X |-> Goes(w, forms, c, lost, x, k)]]
             E(g) == g = [s \in SUBSET (DOMAIN p) |->
                           IF s = {} THEN NoRows ELSE Goes(w, forms, c, lost, g[s \ {Max(s)}], p[Max(s)])]
             it == CHOOSE g : E(g)
  <1>1. n \in Nat /\ DOMAIN p = 1..n /\ NoRows \in X
    BY DEF IsCase, NoRows, Results
  <1>2. ASSUME NEW j \in 1..n, NEW q \in X PROVE Goes(w, forms, c, lost, q, j) \in X
    BY <1>2, TestType DEF Goes
  <1>3. F \in [1..n -> [X -> X]]
    <2> HIDE DEF X, n
    <2> QED BY <1>2
  <1>4. PICK h \in [SUBSET (1..n) -> X] : IsFold(n, NoRows, F, h)
    <2> HIDE DEF F, n, X
    <2> QED BY <1>1, <1>3, FoldExists
  <1>5. ASSUME NEW s \in SUBSET (1..n), s # {}, NEW x \in X
        PROVE  F[Max(s)][x] = Goes(w, forms, c, lost, x, p[Max(s)])
    <2>1. Max(s) \in 1..n
      <3> HIDE DEF n
      <3> QED BY <1>1, <1>5, PositionsBelow
    <2> HIDE DEF n, X
    <2> QED BY <2>1
  <1>6. E(h)
    <2>1. ASSUME NEW s \in SUBSET (1..n)
          PROVE  h[s] = IF s = {} THEN NoRows ELSE Goes(w, forms, c, lost, h[s \ {Max(s)}], p[Max(s)])
      <3>1. s # {} => h[s \ {Max(s)}] \in X
        <4> HIDE DEF n, X
        <4> QED BY <1>1, <1>4, PositionsBelow
      <3> HIDE DEF n, F, X, p
      <3> QED BY <1>4, <1>5, <3>1 DEF IsFold
    <2> HIDE DEF n, p, X
    <2> QED BY <1>1, <1>4, <2>1
  <1>7. E(it)
    <2> HIDE DEF E
    <2> QED BY <1>6
  <1>8. execute_normal_path(w, forms, c, lost) = it[1..n]
    <2>1. execute_normal_path(w, forms, c, lost) = it[DOMAIN p]
      BY DEF execute_normal_path, FoldLeft, MapThenFoldSet, Goes
    <2> QED BY <1>1, <2>1
  <1>9. /\ it[{}] = NoRows
        /\ \A s \in SUBSET (1..n) : s # {} => it[s] = Goes(w, forms, c, lost, it[s \ {Max(s)}], p[Max(s)])
    <2> HIDE DEF it, n, p
    <2> QED BY <1>1, <1>7
  <1>10. PICK f \in [0..n -> X] :
           /\ f[0] = NoRows /\ f[n] = it[1..n]
           /\ \A k \in 0..(n - 1) : f[k + 1] = F[k + 1][f[k]]
    <2>1. ASSUME NEW s \in SUBSET (1..n), s # {}, it[s \ {Max(s)}] \in X
          PROVE  it[s] = F[Max(s)][it[s \ {Max(s)}]]
      <3> HIDE DEF n, F, X, it, p
      <3> QED BY <1>5, <1>9, <2>1
    <2> HIDE DEF n, F, X, it, p
    <2>2. FoldsOn(n, X, NoRows, F, it)
      BY <1>9, <2>1 DEF FoldsOn
    <2> QED BY <1>1, <1>3, <2>2, FoldPrefixes
  <1>11. \A k \in 0..(n - 1) : f[k + 1] = Goes(w, forms, c, lost, f[k], k + 1)
    <2> TAKE k \in 0..(n - 1)
    <2>1. k + 1 \in 1..n /\ f[k] \in X
      <3> HIDE DEF n, X, F
      <3>1. k + 1 \in 1..n
        BY <1>1
      <3>2. k \in 0..n
        BY <1>1
      <3> QED BY <1>10, <3>1, <3>2
    <2>2. F[k + 1][f[k]] = Goes(w, forms, c, lost, f[k], k + 1)
      <3> HIDE DEF n, X
      <3> QED BY <2>1
    <2> HIDE DEF F
    <2> QED BY <1>10, <2>2
  <1> HIDE DEF F, it
  <1> QED BY <1>8, <1>10, <1>11 DEF EndsIn

\* f holds the results of a run after each of its statements.
IsRun(f, w, forms, c, lost) ==
  /\ f \in [0..Len(c.stmts) -> Results(c)] /\ f[0] = NoRows
  /\ f[Len(c.stmts)] = execute_normal_path(w, forms, c, lost)
  /\ \A k \in 0..(Len(c.stmts) - 1) : f[k + 1] = Goes(w, forms, c, lost, f[k], k + 1)

\* The rows and the tables after a statement.
RowsAfter(w, forms, c, acc, k) ==
  IF is_select_like_usage(c.usages[k])
    THEN acc.rows \cup Rows(w, forms, c.stmts[k], acc.content["t"]) ELSE acc.rows
TablesAfter(c, acc, k) ==
  IF c.usages[k] = "write" THEN [acc.content EXCEPT !["t"] = Append(@, c.stmts[k])] ELSE acc.content

(* What one statement adds to the rows, and to the tables.                 *)
LEMMA TestParts ==
  ASSUME NEW w, NEW forms, NEW c, NEW k, NEW acc \in Results(c)
  PROVE  /\ Test(w, forms, c, acc, k).rows = RowsAfter(w, forms, c, acc, k)
         /\ Test(w, forms, c, acc, k).content = TablesAfter(c, acc, k)
PROOF
  <1>1. CASE is_select_like_usage(c.usages[k])
    BY <1>1 DEF Test, is_select_like_usage, Results, RowsAfter, TablesAfter
  <1>2. CASE c.usages[k] = "write"
    BY <1>2 DEF Test, is_select_like_usage, Results, RowsAfter, TablesAfter
  <1>3. CASE ~is_select_like_usage(c.usages[k]) /\ c.usages[k] # "write"
    BY <1>3 DEF Test, is_select_like_usage, RowsAfter, TablesAfter
  <1> QED BY <1>1, <1>2, <1>3

(* One statement further in a run in which nothing is lost.                *)
LEMMA RunStep ==
  ASSUME NEW w, NEW f, NEW forms, NEW c, IsCase(c), IsRun(f, w, forms, c, 0), NEW k \in 0..(Len(c.stmts) - 1)
  PROVE  /\ k \in Nat /\ k + 1 \in 1..Len(c.stmts) /\ f[k] \in Results(c) /\ f[k + 1] \in Results(c)
         /\ f[k + 1].rows = RowsAfter(w, forms, c, f[k], k + 1)
         /\ f[k + 1].content = TablesAfter(c, f[k], k + 1)
PROOF
  <1>1. Len(c.stmts) \in Nat
    BY DEF IsCase
  <1>2. k \in Nat /\ k + 1 \in 1..Len(c.stmts) /\ k \in 0..Len(c.stmts) /\ k + 1 \in 0..Len(c.stmts) /\ k + 1 # 0
    BY <1>1
  <1>3. f[k] \in Results(c) /\ f[k + 1] \in Results(c)
    BY <1>2 DEF IsRun
  <1>4. f[k + 1] = Test(w, forms, c, f[k], k + 1)
    BY <1>2 DEF IsRun, Goes
  <1> QED BY <1>2, <1>3, <1>4, TestParts

(* Two runs of a case leave the same database, whatever the forms.         *)
LEMMA SameDatabases ==
  ASSUME NEW w, NEW f, NEW g, NEW a, NEW b, NEW c, IsCase(c), IsRun(f, w, a, c, 0), IsRun(g, w, b, c, 0)
  PROVE  \A k \in 0..Len(c.stmts) : f[k].content = g[k].content
PROOF
  <1> DEFINE n == Len(c.stmts)
             Ok == {k \in Nat : k <= n => f[k].content = g[k].content}
  <1>1. n \in Nat
    BY DEF IsCase
  <1>2. 0 \in Ok
    BY DEF IsRun
  <1>3. ASSUME NEW k \in Nat, k \in Ok PROVE k + 1 \in Ok
    <2> SUFFICES ASSUME k + 1 <= n PROVE f[k + 1].content = g[k + 1].content
      OBVIOUS
    <2>1. k \in 0..(n - 1) /\ f[k].content = g[k].content
      BY <1>1, <1>3
    <2> HIDE DEF n
    <2>2. f[k + 1].content = TablesAfter(c, f[k], k + 1)
      BY <2>1, RunStep DEF n
    <2>3. g[k + 1].content = TablesAfter(c, g[k], k + 1)
      BY <2>1, RunStep DEF n
    <2>4. TablesAfter(c, f[k], k + 1) = TablesAfter(c, g[k], k + 1)
      BY <2>1 DEF TablesAfter
    <2> QED BY <2>2, <2>3, <2>4
  <1>4. \A k \in Nat : k \in Ok
    <2> HIDE DEF Ok
    <2> QED BY <1>2, <1>3, NatClosed
  <1> QED BY <1>1, <1>4

\* d holds what the first k statements of c have written.
Holds(d, c, k) ==
  /\ d \in Seq(ToSet(c.stmts))
  /\ \A x : x \in ToSet(d) <=> \E j \in 1..k : c.usages[j] = "write" /\ c.stmts[j] = x

(* The database holds what was written.                                    *)
LEMMA WritesDone ==
  ASSUME NEW w, NEW f, NEW forms, NEW c, IsCase(c), IsRun(f, w, forms, c, 0)
  PROVE  \A k \in 0..Len(c.stmts) : Holds(f[k].content["t"], c, k)
PROOF
  <1> DEFINE n == Len(c.stmts)
             S == ToSet(c.stmts)
             db(k) == f[k].content["t"]
             Done(k) == \A x : x \in ToSet(db(k)) <=>
                                 \E j \in 1..k : c.usages[j] = "write" /\ c.stmts[j] = x
             Ok == {k \in Nat : k <= n => Done(k)}
  <1>1. n \in Nat
    BY DEF IsCase
  <1>2. \A k \in 0..n : db(k) \in Seq(S) /\ f[k].content \in [{"t"} -> Seq(S)]
    BY DEF IsRun, Results
  <1>3. 0 \in Ok
    <2>1. ToSet(db(0)) = {}
      BY DEF IsRun, NoRows, ToSet
    <2> QED BY <2>1
  <1>4. ASSUME NEW k \in Nat, k \in Ok PROVE k + 1 \in Ok
    <2> SUFFICES ASSUME k + 1 <= n PROVE Done(k + 1)
      OBVIOUS
    <2>1. k \in 0..(n - 1) /\ k \in 0..n /\ Done(k) /\ k + 1 \in 1..n
      BY <1>1, <1>4
    <2>2. /\ c.usages[k + 1] = "write" => db(k + 1) = Append(db(k), c.stmts[k + 1])
          /\ c.usages[k + 1] # "write" => db(k + 1) = db(k)
      <3> DEFINE T == Seq(S)
                 r == f[k].content
                 q == f[k + 1].content
      <3>1. q = IF c.usages[k + 1] = "write" THEN [r EXCEPT !["t"] = Append(@, c.stmts[k + 1])] ELSE r
        <4>1. q = TablesAfter(c, f[k], k + 1)
          <5> HIDE DEF Done
          <5> QED BY <2>1, RunStep
        <4> HIDE DEF q
        <4> QED BY <4>1 DEF TablesAfter
      <3>2. r \in [{"t"} -> T]
        BY <1>2, <2>1
      <3> HIDE DEF T, r, q
      <3>3. /\ c.usages[k + 1] = "write" => q["t"] = Append(r["t"], c.stmts[k + 1])
            /\ c.usages[k + 1] # "write" => q["t"] = r["t"]
        BY <3>1, <3>2
      <3> QED BY <3>3 DEF r, q
    <2>3. \A j : j \in 1..(k + 1) <=> j \in 1..k \/ j = k + 1
      BY <2>1
    <2>4. CASE c.usages[k + 1] = "write"
      <3> DEFINE d == db(k)
                 e == db(k + 1)
                 s == c.stmts[k + 1]
      <3>1. d \in Seq(S) /\ s \in S /\ e = Append(d, s)
        BY <1>2, <2>1, <2>2, <2>4 DEF IsCase
      <3>2. \A x : x \in ToSet(e) <=> x \in ToSet(d) \/ x = s
        <4> HIDE DEF d, e, s, S
        <4>1. Len(e) = Len(d) + 1 /\ Len(d) \in Nat /\ e[Len(d) + 1] = s /\ DOMAIN e = 1..Len(e)
              /\ DOMAIN d = 1..Len(d) /\ \A m \in 1..Len(d) : e[m] = d[m]
          BY <3>1
        <4>2. \A m : m \in 1..Len(e) <=> m \in 1..Len(d) \/ m = Len(d) + 1
          BY <4>1
        <4> QED BY <4>1, <4>2 DEF ToSet
      <3> HIDE DEF d, e
      <3>3. \A x : x \in ToSet(d) <=> \E j \in 1..k : c.usages[j] = "write" /\ c.stmts[j] = x
        BY <2>1 DEF d
      <3>4. \A x : x \in ToSet(e) <=> \E j \in 1..(k + 1) : c.usages[j] = "write" /\ c.stmts[j] = x
        BY <2>3, <2>4, <3>2, <3>3
      <3> QED BY <3>4 DEF e
    <2>5. CASE c.usages[k + 1] # "write"
      <3>1. db(k + 1) = db(k)
        BY <2>2, <2>5
      <3> HIDE DEF db
      <3> QED BY <2>1, <2>3, <2>5, <3>1
    <2> QED BY <2>4, <2>5
  <1>5. \A k \in Nat : k \in Ok
    <2> HIDE DEF Ok
    <2> QED BY <1>3, <1>4, NatClosed
  <1>6. ASSUME NEW k \in 0..n PROVE Done(k)
    <2> HIDE DEF Done
    <2> QED BY <1>1, <1>5
  <1> QED BY <1>2, <1>6 DEF Holds

(* The rows are those of the SELECTs, each on the database it met.         *)
LEMMA RowsShown ==
  ASSUME NEW w, NEW f, NEW forms, NEW c, IsCase(c), IsRun(f, w, forms, c, 0)
  PROVE  \A x : x \in execute_normal_path(w, forms, c, 0).rows <=>
           \E j \in 1..Len(c.stmts) :
             /\ is_select_like_usage(c.usages[j])
             /\ x \in Rows(w, forms, c.stmts[j], f[j - 1].content["t"])
PROOF
  <1> DEFINE n == Len(c.stmts)
             Shown(x, k) == \E j \in 1..k : /\ is_select_like_usage(c.usages[j])
                                            /\ x \in Rows(w, forms, c.stmts[j], f[j - 1].content["t"])
             Ok == {k \in Nat : k <= n => \A x : x \in f[k].rows <=> Shown(x, k)}
  <1>1. n \in Nat
    BY DEF IsCase
  <1>2. 0 \in Ok
    BY DEF IsRun, NoRows
  <1>3. ASSUME NEW k \in Nat, k \in Ok PROVE k + 1 \in Ok
    <2> SUFFICES ASSUME k + 1 <= n PROVE \A x : x \in f[k + 1].rows <=> Shown(x, k + 1)
      <3> HIDE DEF Shown
      <3> QED OBVIOUS
    <2> TAKE x
    <2>1. k \in 0..(n - 1) /\ (x \in f[k].rows <=> Shown(x, k)) /\ (k + 1) - 1 = k
      BY <1>1, <1>3
    <2>2. \A j : j \in 1..(k + 1) <=> j \in 1..k \/ j = k + 1
      BY <2>1
    <2>3. f[k + 1].rows = RowsAfter(w, forms, c, f[k], k + 1)
      BY <2>1, RunStep
    <2>4. Shown(x, k + 1) <=> \/ Shown(x, k)
                              \/ /\ is_select_like_usage(c.usages[k + 1])
                                 /\ x \in Rows(w, forms, c.stmts[k + 1], f[k].content["t"])
      BY <2>1, <2>2
    <2> HIDE DEF Shown
    <2> QED BY <2>1, <2>3, <2>4 DEF RowsAfter
  <1>4. \A k \in Nat : k \in Ok
    <2> HIDE DEF Ok
    <2> QED BY <1>2, <1>3, NatClosed
  <1>5. \A x : x \in f[n].rows <=> Shown(x, n)
    BY <1>1, <1>4
  <1> QED BY <1>5 DEF IsRun

(* Every run has such results.                                             *)
LEMMA RunExists ==
  ASSUME NEW w, NEW forms, NEW c, IsCase(c), NEW lost PROVE \E f : IsRun(f, w, forms, c, lost)
PROOF
  <1>1. EndsIn(execute_normal_path(w, forms, c, lost), w, forms, c, lost)
    BY RunSteps
  <1> QED BY <1>1 DEF EndsIn, IsRun

(* The runs of a case, and what each SELECT meets.                         *)
LEMMA TwoRuns ==
  ASSUME NEW w, NEW c, IsCase(c)
  PROVE  \E db :
    /\ \A k \in 1..Len(c.stmts) :
         /\ db[k] = <<>> <=> \A j \in 1..(k - 1) : c.usages[j] # "write"
         /\ \A x : x \in ToSet(db[k]) <=> \E j \in 1..(k - 1) : c.usages[j] = "write" /\ c.stmts[j] = x
    /\ \A x : x \in Plainly(w, c).rows <=>
         \E k \in 1..Len(c.stmts) : is_select_like_usage(c.usages[k]) /\ x \in Rows(w, {}, c.stmts[k], db[k])
    /\ \A x : x \in Changed(w, c).rows <=>
         \E k \in 1..Len(c.stmts) :
           is_select_like_usage(c.usages[k]) /\ x \in Rows(w, Selects(c), c.stmts[k], db[k])
    /\ DOMAIN Plainly(w, c).content = DOMAIN Changed(w, c).content
PROOF
  <1> DEFINE n == Len(c.stmts)
  <1>1. PICK f : IsRun(f, w, {}, c, 0)
    BY RunExists
  <1>2. PICK g : IsRun(g, w, Selects(c), c, 0)
    BY RunExists
  <1> DEFINE db == [k \in 1..n |-> f[k - 1].content["t"]]
  <1>3. n \in Nat
    BY DEF IsCase
  <1>4. \A k \in 1..n : k - 1 \in 0..n /\ db[k] = f[k - 1].content["t"] /\ db[k] = g[k - 1].content["t"]
    BY <1>1, <1>2, <1>3, SameDatabases
  <1> HIDE DEF db
  <1>5. ASSUME NEW k \in 1..n
        PROVE  /\ db[k] \in Seq(ToSet(c.stmts))
               /\ \A x : x \in ToSet(db[k]) <=> \E j \in 1..(k - 1) : c.usages[j] = "write" /\ c.stmts[j] = x
    <2> DEFINE m == k - 1
    <2>1. m \in 0..n /\ db[k] = f[m].content["t"]
      BY <1>4
    <2> HIDE DEF m
    <2> HIDE DEF n
    <2>2. Holds(f[m].content["t"], c, m)
      BY <1>1, <2>1, WritesDone DEF n
    <2> QED BY <2>1, <2>2 DEF m, Holds
  <1>6. ASSUME NEW k \in 1..n
        PROVE  db[k] = <<>> <=> \A j \in 1..(k - 1) : c.usages[j] # "write"
    <2>1. db[k] \in Seq(ToSet(c.stmts))
      BY <1>5
    <2>2. db[k] = <<>> <=> ToSet(db[k]) = {}
      <3> DEFINE d == db[k]
                 S == ToSet(c.stmts)
      <3>1. d \in Seq(S)
        BY <2>1
      <3> HIDE DEF d, S
      <3>2. d = <<>> <=> ToSet(d) = {}
        <4>1. DOMAIN d = 1..Len(d) /\ Len(d) \in Nat
          BY <3>1
        <4>2. CASE d = <<>>
          BY <4>2 DEF ToSet
        <4>3. CASE d # <<>>
          <5>1. 1 \in DOMAIN d
            BY <3>1, <4>1, <4>3
          <5> QED BY <5>1, <4>3 DEF ToSet
        <4> QED BY <4>2, <4>3
      <3> QED BY <3>2 DEF d
    <2> DEFINE d == ToSet(db[k])
    <2>3. \A x : x \in d <=> \E j \in 1..(k - 1) : c.usages[j] = "write" /\ c.stmts[j] = x
      BY <1>5
    <2>4. d = {} <=> \A j \in 1..(k - 1) : c.usages[j] # "write"
      <3> HIDE DEF d
      <3>1. ASSUME d = {}, NEW j \in 1..(k - 1), c.usages[j] = "write" PROVE FALSE
        BY <2>3, <3>1
      <3>2. ASSUME \A j \in 1..(k - 1) : c.usages[j] # "write" PROVE d = {}
        BY <2>3, <3>2
      <3> QED BY <3>1, <3>2
    <2> QED BY <2>2, <2>4
  <1>7. \A x : x \in Plainly(w, c).rows <=>
         \E k \in 1..n : is_select_like_usage(c.usages[k]) /\ x \in Rows(w, {}, c.stmts[k], db[k])
    <2>1. \A x : x \in Plainly(w, c).rows <=>
            \E j \in 1..n : /\ is_select_like_usage(c.usages[j])
                            /\ x \in Rows(w, {}, c.stmts[j], f[j - 1].content["t"])
      BY <1>1, RowsShown DEF Plainly
    <2>2. \A k \in 1..n : db[k] = f[k - 1].content["t"]
      BY <1>4
    <2> HIDE DEF n
    <2> QED BY <2>1, <2>2
  <1>8. \A x : x \in Changed(w, c).rows <=>
         \E k \in 1..n : is_select_like_usage(c.usages[k]) /\ x \in Rows(w, Selects(c), c.stmts[k], db[k])
    <2>1. \A x : x \in Changed(w, c).rows <=>
            \E j \in 1..n : /\ is_select_like_usage(c.usages[j])
                            /\ x \in Rows(w, Selects(c), c.stmts[j], g[j - 1].content["t"])
      BY <1>2, RowsShown DEF Changed
    <2>2. \A k \in 1..n : db[k] = g[k - 1].content["t"]
      BY <1>4
    <2> HIDE DEF n
    <2> QED BY <2>1, <2>2
  <1>9. DOMAIN Plainly(w, c).content = DOMAIN Changed(w, c).content
    <2>1. n \in 0..n
      BY <1>3
    <2>2. Plainly(w, c) \in Results(c) /\ Changed(w, c) \in Results(c)
      <3>1. n \in 0..Len(c.stmts)
        BY <2>1
      <3>2. f \in [0..Len(c.stmts) -> Results(c)] /\ f[n] = Plainly(w, c)
        BY <1>1 DEF IsRun, Plainly
      <3>3. g \in [0..Len(c.stmts) -> Results(c)] /\ g[n] = Changed(w, c)
        BY <1>2 DEF IsRun, Changed
      <3> HIDE DEF n
      <3> QED BY <3>1, <3>2, <3>3
    <2> QED BY <2>2 DEF Results
  <1> HIDE DEF n
  <1>10. \A k \in 1..n :
         /\ db[k] = <<>> <=> \A j \in 1..(k - 1) : c.usages[j] # "write"
         /\ \A x : x \in ToSet(db[k]) <=> \E j \in 1..(k - 1) : c.usages[j] = "write" /\ c.stmts[j] = x
    BY <1>5, <1>6
  <1> QED BY <1>7, <1>8, <1>9, <1>10 DEF n

(* Two runs, one with the SELECTs in their own form, one with them         *)
(* transformed, differ just if the case shows the difference.              *)
LEMMA ShowsIfDiffers ==
  ASSUME NEW w, NEW c, IsCase(c)
  PROVE  Differs(Plainly(w, c), Changed(w, c)) <=> Shows(w, c)
PROOF
  <1> DEFINE n == Len(c.stmts)
             T(k) == is_select_like_usage(c.usages[k])
             P(k, db) == Rows(w, {}, c.stmts[k], db[k])
             Q(k, db) == Rows(w, Selects(c), c.stmts[k], db[k])
  <1>1. PICK db :
    /\ \A k \in 1..n :
         /\ db[k] = <<>> <=> \A j \in 1..(k - 1) : c.usages[j] # "write"
         /\ \A x : x \in ToSet(db[k]) <=> \E j \in 1..(k - 1) : c.usages[j] = "write" /\ c.stmts[j] = x
    /\ \A x : x \in Plainly(w, c).rows <=> \E k \in 1..n : T(k) /\ x \in P(k, db)
    /\ \A x : x \in Changed(w, c).rows <=> \E k \in 1..n : T(k) /\ x \in Q(k, db)
    /\ DOMAIN Plainly(w, c).content = DOMAIN Changed(w, c).content
    BY TwoRuns
  <1>2. Differs(Plainly(w, c), Changed(w, c)) <=> Plainly(w, c).rows # Changed(w, c).rows
    BY <1>1 DEF Differs, compare_content
  <1>3. \A k \in 1..n : T(k) => c.stmts[k] \in Selects(c)
    BY DEF Selects
  <1>4. ASSUME ~Shows(w, c) PROVE Plainly(w, c).rows = Changed(w, c).rows
    <2>1. ASSUME NEW k \in 1..n, T(k) PROVE P(k, db) = Q(k, db)
      <3>1. CASE db[k] = <<>>
        BY <3>1 DEF Rows
      <3>2. CASE db[k] # <<>>
        <4>1. PICK j \in 1..(k - 1) : c.usages[j] = "write"
          BY <1>1, <3>2
        <4>2. c.stmts[k] \notin w.rejects
          BY <1>4, <2>1, <4>1 DEF Shows
        <4>3. ~(w.kind = "eet" /\ c.stmts[k] = w.select /\ w.write \in ToSet(db[k]))
          <5> SUFFICES ASSUME w.kind = "eet", c.stmts[k] = w.select, w.write \in ToSet(db[k])
                       PROVE  FALSE
            OBVIOUS
          <5>1. PICK m \in 1..(k - 1) : c.usages[m] = "write" /\ c.stmts[m] = w.write
            <6> HIDE DEF T, P, Q
            <6> QED BY <1>1
          <5>2. Shows(w, c)
            BY <2>1, <5>1 DEF Shows
          <5> QED BY <1>4, <5>2
        <4> QED BY <4>2, <4>3 DEF Rows
      <3> QED BY <3>1, <3>2
    <2> HIDE DEF P, Q, T
    <2>2. \A x : x \in Plainly(w, c).rows <=> x \in Changed(w, c).rows
      BY <1>1, <2>1
    <2>3. \E f, g : IsRun(f, w, {}, c, 0) /\ IsRun(g, w, Selects(c), c, 0)
      BY RunExists
    <2>4. \E S : Plainly(w, c).rows \in SUBSET S /\ Changed(w, c).rows \in SUBSET S
      <3>1. Len(c.stmts) \in 0..Len(c.stmts)
        BY DEF IsCase
      <3> QED BY <2>3, <3>1 DEF IsRun, Results, Plainly, Changed
    <2> QED BY <2>2, <2>4
  <1>5. ASSUME Shows(w, c) PROVE Plainly(w, c).rows # Changed(w, c).rows
    <2>1. PICK k \in 1..n : \E j \in 1..(k - 1) :
            /\ T(k) /\ c.usages[j] = "write"
            /\ \/ c.stmts[k] \in w.rejects
               \/ w.kind = "eet" /\ c.stmts[k] = w.select /\ c.stmts[j] = w.write
      BY <1>5 DEF Shows
    <2>0. PICK j \in 1..(k - 1) :
            /\ T(k) /\ c.usages[j] = "write"
            /\ \/ c.stmts[k] \in w.rejects
               \/ w.kind = "eet" /\ c.stmts[k] = w.select /\ c.stmts[j] = w.write
      BY <2>1
    <2> DEFINE s == c.stmts[k]
               d == db[k]
    <2>2. d # <<>> /\ c.stmts[j] \in ToSet(d) /\ s \in Selects(c)
      BY <1>1, <1>3, <2>0
    <2>3. CASE s \in w.rejects
      <3>1. <<s, d, TRUE>> \in P(k, db)
        BY <2>2 DEF Rows
      <3>2. <<s, d, TRUE>> \in Plainly(w, c).rows
        BY <1>1, <2>0, <3>1
      <3>3. ASSUME NEW l \in 1..n, <<s, d, TRUE>> \in Q(l, db) PROVE FALSE
        <4>1. Q(l, db) # {} /\ c.stmts[l] = s
          BY <3>3 DEF Rows
        <4> QED BY <2>2, <2>3, <4>1 DEF Rows
      <3>4. <<s, d, TRUE>> \notin Changed(w, c).rows
        BY <1>1, <3>3
      <3> QED BY <3>2, <3>4
    <2>4. CASE s \notin w.rejects
      <3>1. w.kind = "eet" /\ s = w.select /\ w.write \in ToSet(d)
        BY <2>0, <2>2, <2>4
      <3>2. <<s, d, FALSE>> \in Q(k, db)
        BY <2>2, <2>4, <3>1 DEF Rows
      <3>3. <<s, d, FALSE>> \in Changed(w, c).rows
        BY <1>1, <2>0, <3>2
      <3>4. ASSUME NEW l \in 1..n, <<s, d, FALSE>> \in P(l, db) PROVE FALSE
        BY <3>4 DEF Rows
      <3>5. <<s, d, FALSE>> \notin Plainly(w, c).rows
        BY <1>1, <3>4
      <3> QED BY <3>3, <3>5
    <2> QED BY <2>3, <2>4
  <1> QED BY <1>2, <1>4, <1>5

(* A function on the first positions is a sequence.                        *)
LEMMA FunctionIsSeq ==
  ASSUME NEW m \in Nat, NEW S, NEW f \in [1..m -> S] PROVE f \in Seq(S) /\ Len(f) = m
PROOF
  OBVIOUS

(* The data statements of a path make a case.                              *)
LEMMA ExtractIsCase ==
  ASSUME NEW q, NEW path, path \in Seq(ToSet(path)) PROVE IsCase(Extract(q, path))
PROOF
  <1> DEFINE n == Len(path)
             U == {QueueIdx(q, sid) : sid \in ToSet(path)}
             X == Seq(U)
             Keep(ks, sid) == LET k == QueueIdx(q, sid) IN
                                IF q[k].use \in {"instrument", "control"} THEN ks ELSE Append(ks, k)
             F == [j \in 1..n |-> [x \in X |-> Keep(x, path[j])]]
             E(g) == g = [s \in SUBSET (DOMAIN path) |->
                           IF s = {} THEN <<>> ELSE Keep(g[s \ {Max(s)}], path[Max(s)])]
             it == CHOOSE g : E(g)
             idx == FoldLeft(LAMBDA ks, sid : LET k == QueueIdx(q, sid) IN
                        IF q[k].use \in {"instrument", "control"} THEN ks ELSE Append(ks, k),
                      <<>>, path)
  <1>1. n \in Nat /\ DOMAIN path = 1..n /\ <<>> \in X
    OBVIOUS
  <1>2. ASSUME NEW j \in 1..n, NEW x \in X PROVE Keep(x, path[j]) \in X
    <2>1. QueueIdx(q, path[j]) \in U
      BY <1>1 DEF ToSet
    <2> HIDE DEF U
    <2> QED BY <2>1
  <1>3. F \in [1..n -> [X -> X]]
    <2> HIDE DEF Keep, X, n
    <2> QED BY <1>2
  <1>4. PICK h \in [SUBSET (1..n) -> X] : IsFold(n, <<>>, F, h)
    <2> HIDE DEF F, n, X
    <2> QED BY <1>1, <1>3, FoldExists
  <1>5. ASSUME NEW s \in SUBSET (1..n), s # {}, NEW x \in X
        PROVE  F[Max(s)][x] = Keep(x, path[Max(s)])
    <2>1. Max(s) \in 1..n
      <3> HIDE DEF n
      <3> QED BY <1>1, <1>5, PositionsBelow
    <2> HIDE DEF Keep, n, X
    <2> QED BY <2>1
  <1>6. E(h)
    <2>1. ASSUME NEW s \in SUBSET (1..n)
          PROVE  h[s] = IF s = {} THEN <<>> ELSE Keep(h[s \ {Max(s)}], path[Max(s)])
      <3>1. s # {} => h[s \ {Max(s)}] \in X
        <4> HIDE DEF n, X
        <4> QED BY <1>1, <1>4, PositionsBelow
      <3> HIDE DEF n, F, X, Keep
      <3> QED BY <1>4, <1>5, <3>1 DEF IsFold
    <2> HIDE DEF Keep, n, X
    <2> QED BY <1>1, <1>4, <2>1
  <1>7. E(it)
    <2> HIDE DEF E
    <2> QED BY <1>6
  <1>8. idx = it[1..n]
    <2>1. idx = it[DOMAIN path]
      BY DEF FoldLeft, MapThenFoldSet
    <2> QED BY <1>1, <2>1
  <1>9. /\ it[{}] = <<>>
        /\ \A s \in SUBSET (1..n) : s # {} => it[s] = Keep(it[s \ {Max(s)}], path[Max(s)])
    <2> HIDE DEF it, Keep, n
    <2> QED BY <1>1, <1>7
  <1>10. PICK f \in [0..n -> X] : f[n] = it[1..n]
    <2>1. ASSUME NEW s \in SUBSET (1..n), s # {}, it[s \ {Max(s)}] \in X
          PROVE  it[s] = F[Max(s)][it[s \ {Max(s)}]]
      <3> HIDE DEF n, F, X, it, Keep
      <3> QED BY <1>5, <1>9, <2>1
    <2> HIDE DEF n, F, X, it, Keep
    <2>2. FoldsOn(n, X, <<>>, F, it)
      BY <1>9, <2>1 DEF FoldsOn
    <2> QED BY <1>1, <1>3, <2>2, FoldPrefixes
  <1>11. idx \in Seq(U)
    <2>1. n \in 0..n
      BY <1>1
    <2> HIDE DEF idx, it, F, U, n
    <2> QED BY <1>8, <1>10, <2>1
  <1>12. Extract(q, path) = [stmts |-> [k \in 1..Len(idx) |-> q[idx[k]].stmt],
                             usages |-> [k \in 1..Len(idx) |-> q[idx[k]].use]]
    BY DEF Extract
  <1> HIDE DEF idx, U
  <1>13. Len(idx) \in Nat
    BY <1>11
  <1> DEFINE m == Len(idx)
             a == [k \in 1..m |-> q[idx[k]].stmt]
             b == [k \in 1..m |-> q[idx[k]].use]
  <1>14. a \in Seq(ToSet(a)) /\ b \in Seq(ToSet(b)) /\ Len(a) = m /\ Len(b) = m
    <2>1. a \in [1..m -> ToSet(a)] /\ b \in [1..m -> ToSet(b)]
      BY DEF ToSet
    <2> HIDE DEF a, b, m
    <2> QED BY <1>13, <2>1, FunctionIsSeq DEF m
  <1>15. Extract(q, path).stmts = a /\ Extract(q, path).usages = b
    BY <1>12
  <1> HIDE DEF a, b
  <1> QED BY <1>14, <1>15 DEF IsCase

(* A sequence without one of its elements.                                 *)
LEMMA Removed ==
  ASSUME NEW s, s \in Seq(ToSet(s)), NEW k \in 1..Len(s)
  PROVE  RemoveAt(s, k) \in Seq(ToSet(RemoveAt(s, k))) /\ Len(RemoveAt(s, k)) = Len(s) - 1
PROOF
  <1> DEFINE n == Len(s)
             S == ToSet(s)
             r == RemoveAt(s, k)
  <1>1. n \in Nat /\ k \in 1..n
    OBVIOUS
  <1>2. /\ SubSeq(s, 1, k - 1) \in Seq(S) /\ Len(SubSeq(s, 1, k - 1)) = k - 1
        /\ SubSeq(s, k + 1, n) \in Seq(S) /\ Len(SubSeq(s, k + 1, n)) = n - k
    <2>1. \A j \in 1..(k - 1) : s[j] \in S
      OBVIOUS
    <2>2. \A j \in (k + 1)..n : s[j] \in S
      OBVIOUS
    <2>3. 1 \in 1..(n + 1) /\ k - 1 \in 0..n /\ k + 1 \in 1..(n + 1) /\ n \in 0..n
      OBVIOUS
    <2> QED BY <2>1, <2>2, <2>3, SubSeqProperties
  <1>3. r \in Seq(S) /\ Len(r) = (k - 1) + (n - k)
    <2> DEFINE u == SubSeq(s, 1, k - 1)
               v == SubSeq(s, k + 1, n)
    <2>1. r = u \o v
      BY DEF RemoveAt
    <2> HIDE DEF n, S, u, v, r
    <2> QED BY <1>2, <2>1 DEF u, v
  <1>4. r \in Seq(ToSet(r))
    <2>1. r \in [1..Len(r) -> ToSet(r)] /\ Len(r) \in Nat
      <3> HIDE DEF r, S
      <3> QED BY <1>3 DEF ToSet
    <2> HIDE DEF r
    <2> QED BY <2>1, FunctionIsSeq
  <1> HIDE DEF r
  <1> QED BY <1>1, <1>3, <1>4 DEF r

(* A case without a statement is a case.                                   *)
LEMMA WithoutIsCase ==
  ASSUME NEW c, IsCase(c), NEW k \in 1..Len(c.stmts)
  PROVE  IsCase(Without(c, k)) /\ Len(Without(c, k).stmts) = Len(c.stmts) - 1
PROOF
  <1>1. /\ RemoveAt(c.stmts, k) \in Seq(ToSet(RemoveAt(c.stmts, k)))
        /\ Len(RemoveAt(c.stmts, k)) = Len(c.stmts) - 1
    BY Removed DEF IsCase
  <1>2. /\ RemoveAt(c.usages, k) \in Seq(ToSet(RemoveAt(c.usages, k)))
        /\ Len(RemoveAt(c.usages, k)) = Len(c.usages) - 1
    BY Removed DEF IsCase
  <1> QED BY <1>1, <1>2 DEF IsCase, Without

-----------------------------------------------------------------------------
(***************************************************************************)
(* The moves several actions make.                                         *)
(***************************************************************************)

(* The first of a set of positions.                                        *)
LEMMA FirstOf ==
  ASSUME NEW S, S # {}, \A x \in S : x \in Nat
  PROVE  LET j == CHOOSE j \in S : \A l \in S : j =< l IN j \in S /\ \A l \in S : j =< l
PROOF
  <1> SUFFICES \E j \in S : \A l \in S : j =< l
    OBVIOUS
  <1> SUFFICES ASSUME \A j \in S : \E l \in S : ~(j =< l) PROVE FALSE
    OBVIOUS
  <1> DEFINE Ok == {n \in Nat : \A m \in S : n =< m}
  <1>1. 0 \in Ok
    OBVIOUS
  <1>2. ASSUME NEW n \in Nat, n \in Ok PROVE n + 1 \in Ok
    <2>1. n \notin S
      BY <1>2
    <2>2. \A m \in S : n =< m /\ n # m
      BY <1>2, <2>1
    <2> QED BY <2>2
  <1>3. \A n \in Nat : n \in Ok
    <2> HIDE DEF Ok
    <2> QED BY <1>1, <1>2, NatClosed
  <1>4. PICK m \in S : TRUE
    OBVIOUS
  <1> QED BY <1>3, <1>4

(* A process that has started nothing, or a test.                          *)
LEMMA Fresh ==
  ASSUME MaxFaults \in Nat, faults' \in 0..MaxFaults, tests' \in Nat,
         (goal' = "test" /\ stage' = "setup") \/ (goal' = "none" /\ stage' = "none"),
         ast' = {}, confirmed' = FALSE,
         child' # "failure", parent' # "fork"
  PROVE  IInv'
PROOF
  <1>1. PairInv'
    BY DEF PairInv, Plain
  <1>2. FormInv'
    BY DEF FormInv
  <1>3. ResultInv'
    BY DEF ResultInv, Plain
  <1>4. BugInv' /\ ConfirmedIsReal'
    BY DEF BugInv, ConfirmedIsReal
  <1>5. ReportShowsOriginals' /\ ReduceInv' /\ SavedInv'
    BY DEF ReportShowsOriginals, ReduceInv, SavedInv, Reduced
  <1> QED BY <1>1, <1>2, <1>3, <1>4, <1>5 DEF IInv

(* Fewer faults are left, or as many.                                      *)
LEMMA FewerFaults ==
  ASSUME NEW m \in Nat, NEW f \in Nat, NEW g \in Nat, f =< m, g =< f
  PROVE  /\ g = m => f = m
         /\ f < m /\ g + 1 = m => f + 1 = m
         /\ f + 2 =< m => g + 2 =< m
PROOF
  OBVIOUS

(* The child ends, with a fault or without a confirmed bug.                *)
LEMMA Stops ==
  ASSUME IInv, child = "running", UNCHANGED <<pairVars, tx, last, confirmed, report, minimized, world>>,
         UNCHANGED <<parent, tests>>, child' # "running", child' # "none",
         faults' \in 0..MaxFaults, faults' =< faults,
         faults' = faults => child' # "failure" \/ ~confirmed
  PROVE  IInv'
PROOF
  <1> USE DEF pairVars
  <1>0. /\ PairInv /\ FormInv /\ ResultInv /\ BugInv /\ ConfirmedIsReal /\ ReportShowsOriginals
        /\ ReduceInv /\ SavedInv
    BY DEF IInv
  <1>10. MaxFaults \in Nat /\ faults \in Nat /\ faults' \in Nat /\ faults =< MaxFaults /\ faults' =< faults
    BY <1>0 DEF PairInv
  <1>1. PairInv'
    <2>1. parent # "fork"
      BY <1>0 DEF PairInv
    <2> QED BY <1>0, <2>1 DEF PairInv
  <1>2. FormInv'
    BY <1>0 DEF FormInv
  <1>3. Undisturbed' => Undisturbed
    <2>1. goal = "revalidate" /\ RightDbms => faults < MaxFaults
      BY <1>0 DEF BugInv
    <2>2. faults' = MaxFaults => faults = MaxFaults
      BY <1>10, FewerFaults
    <2>3. faults < MaxFaults /\ faults' + 1 = MaxFaults => faults + 1 = MaxFaults
      BY <1>10, FewerFaults
    <2>4. RightDbms' = RightDbms
      BY DEF RightDbms
    <2> QED BY <2>1, <2>2, <2>3, <2>4 DEF Undisturbed
  <1>4. ResultInv'
    BY <1>0, <1>3 DEF ResultInv
  <1>5. BugInv'
    BY <1>0, <1>10 DEF BugInv, RightDbms
  <1>6. ConfirmedIsReal'
    <2>1. faults' = MaxFaults => faults = MaxFaults
      BY <1>10, FewerFaults
    <2>2. faults + 2 =< MaxFaults => faults' + 2 =< MaxFaults
      BY <1>10, FewerFaults
    <2>3. confirmed' = confirmed /\ world' = world
      OBVIOUS
    <2> QED BY <1>0, <2>1, <2>2, <2>3 DEF ConfirmedIsReal
  <1>7. ReportShowsOriginals'
    BY <1>0 DEF ReportShowsOriginals
  <1>8. ReduceInv'
    BY <1>0 DEF ReduceInv
  <1>9. SavedInv'
    <2> SUFFICES ASSUME Reduced' PROVE FALSE
      BY DEF SavedInv
    <2> QED BY <1>10 DEF Reduced
  <1> QED BY <1>1, <1>2, <1>4, <1>5, <1>6, <1>7, <1>8, <1>9 DEF IInv

(* minimize() saves a case that cannot be reduced, after a pair of runs.   *)
LEMMA SavesKeeps ==
  ASSUME IInv, child = "running", stage = "decide", goal \in {"revalidate", "remove", "revert"},
         NEW c, Saves(c), UNCHANGED <<world, faults>>,
         goal # "revert" => IsCase(c),
         faults = MaxFaults => Minimal(world, c),
         ConfirmedIsReal',
         \A k \in 1..Len(report') : ~report'[k][2]
  PROVE  IInv'
PROOF
  <1> USE DEF Saves, Exits, pairVars
  <1>1. PairInv'
    <2>1. parent # "fork" /\ PairInv
      BY DEF PairInv, IInv
    <2> QED BY <2>1 DEF PairInv
  <1>2. FormInv'
    BY DEF FormInv, IInv
  <1>3. ResultInv'
    <2>1. Undisturbed' = Undisturbed /\ ResultInv
      BY DEF Undisturbed, RightDbms, IInv
    <2>2. goal # "test"
      OBVIOUS
    <2> QED BY <2>1, <2>2 DEF ResultInv
  <1>4. BugInv'
    BY DEF BugInv, RightDbms, IInv
  <1>5. ReportShowsOriginals'
    BY DEF ReportShowsOriginals
  <1>6. ReduceInv'
    BY DEF ReduceInv
  <1>7. SavedInv'
    BY DEF SavedInv, Reduced
  <1> QED BY <1>1, <1>2, <1>3, <1>4, <1>5, <1>6, <1>7 DEF IInv

(* The second loop goes on or saves.                                       *)
LEMMA RevertKeeps ==
  ASSUME IInv, child = "running", stage = "decide", goal \in {"revalidate", "remove", "revert"},
         NEW c, NEW k, Revert(c, k), UNCHANGED <<world, faults>>,
         goal # "revert" => IsCase(c),
         faults = MaxFaults => IsCase(c) /\ Minimal(world, c),
         ConfirmedIsReal',
         \A m \in 1..Len(report') : ~report'[m][2]
  PROVE  IInv'
PROOF
  <1>1. CASE Saves(c)
    BY <1>1, SavesKeeps
  <1>2. CASE /\ Pair("revert", c) /\ last' = c
             /\ UNCHANGED <<procVars, ast, normal, transformed, minimized>>
    <2> USE <1>2 DEF Pair, procVars
    <2>1. PairInv'
      <3>1. PairInv
        BY DEF IInv
      <3> QED BY <3>1 DEF PairInv, Plain
    <2>2. FormInv'
      BY DEF FormInv, Plain
    <2>3. ResultInv'
      BY DEF ResultInv, Plain
    <2>4. BugInv'
      BY DEF BugInv
    <2>5. ReportShowsOriginals'
      BY DEF ReportShowsOriginals
    <2>6. ReduceInv'
      BY DEF ReduceInv
    <2>7. SavedInv'
      BY DEF SavedInv, Reduced
    <2> QED BY <2>1, <2>2, <2>3, <2>4, <2>5, <2>6, <2>7 DEF IInv
  <1> QED BY <1>1, <1>2 DEF Revert

(* The first loop goes on, or the second starts.                           *)
LEMMA RemoveFromKeeps ==
  ASSUME IInv, child = "running", stage = "decide", goal \in {"revalidate", "remove"},
         NEW c, NEW k \in Nat, RemoveFrom(c, k), UNCHANGED <<world, faults>>, IsCase(c), k # 0,
         faults = MaxFaults => Shows(world, c) /\ Tried(world, c, k),
         ConfirmedIsReal',
         \A m \in 1..Len(report') : ~report'[m][2]
  PROVE  IInv'
PROOF
  <1> DEFINE n == Len(c.stmts)
             ks == {j \in k..n : ~is_select_like_usage(c.usages[j])}
             j == CHOOSE j \in ks : \A l \in ks : j =< l
  <1>1. n \in Nat
    BY DEF IsCase
  <1>2. CASE ks = {}
    <2>1. Revert(c, 1)
      BY <1>2 DEF RemoveFrom
    <2>2. ASSUME Tried(world, c, k), Shows(world, c) PROVE Minimal(world, c)
      <3>1. ASSUME NEW m \in 1..n, ~is_select_like_usage(c.usages[m]) PROVE m < k
        BY <1>1, <1>2, <3>1
      <3> QED BY <2>2, <3>1 DEF Minimal, Tried
    <2> QED BY <2>1, <2>2, RevertKeeps
  <1>3. CASE n = 1
    <2>1. Revert(c, 1)
      BY <1>3 DEF RemoveFrom
    <2>2. ASSUME NEW m \in 1..n PROVE ~Shows(world, Without(c, m))
      <3>1. Len(Without(c, m).stmts) = n - 1
        BY WithoutIsCase
      <3> QED BY <1>3, <3>1 DEF Shows
    <2>3. ASSUME Shows(world, c) PROVE Minimal(world, c)
      BY <2>2, <2>3 DEF Minimal, Tried
    <2> QED BY <2>1, <2>3, RevertKeeps
  <1>4. CASE ks # {} /\ n # 1
    <2>1. j \in ks /\ \A l \in ks : j =< l
      <3>1. \A x \in ks : x \in Nat
        BY <1>1
      <3> HIDE DEF ks
      <3> QED BY <1>4, <3>1, FirstOf
    <2>2. /\ Pair("remove", Without(c, j)) /\ i' = j /\ last' = c
          /\ UNCHANGED <<procVars, ast, normal, transformed, minimized>>
      BY <1>4 DEF RemoveFrom
    <2> HIDE DEF j
    <2>3. j \in 1..n /\ ~is_select_like_usage(c.usages[j])
      BY <1>1, <2>1
    <2>4. ASSUME Tried(world, c, k) PROVE Tried(world, c, j)
      <3>1. ASSUME NEW m \in 1..n, ~is_select_like_usage(c.usages[m]), m < j PROVE m < k
        BY <1>1, <2>1, <2>3, <3>1
      <3> QED BY <2>4, <3>1 DEF Tried
    <2> USE <2>2 DEF Pair, procVars
    <2>5. PairInv'
      <3>1. PairInv /\ IsCase(Without(c, j))
        BY <2>3, WithoutIsCase DEF IInv
      <3>2. j \in Nat
        BY <1>1, <2>3
      <3> HIDE DEF n, ks
      <3> QED BY <3>1, <3>2 DEF PairInv, Plain
    <2>6. FormInv'
      BY DEF FormInv, Plain, IInv
    <2>7. ResultInv'
      BY DEF ResultInv, Plain
    <2>8. BugInv'
      BY DEF BugInv
    <2>9. ReportShowsOriginals'
      BY DEF ReportShowsOriginals
    <2>10. ReduceInv'
      <3> HIDE DEF ks
      <3> QED BY <2>3, <2>4 DEF ReduceInv
    <2>11. SavedInv'
      BY DEF SavedInv, Reduced
    <2> QED BY <2>5, <2>6, <2>7, <2>8, <2>9, <2>10, <2>11 DEF IInv
  <1> QED BY <1>2, <1>3, <1>4

-----------------------------------------------------------------------------
(***************************************************************************)
(* The actions.                                                            *)
(***************************************************************************)

(* What a run cannot lose when no statement has failed.                    *)
LEMMA NothingLost ==
  ASSUME IInv, NEW c, NEW lost, MayLose(c, lost), goal' = goal, world' = world, Undisturbed'
  PROVE  lost = 0 /\ faults' = faults /\ Undisturbed
PROOF
  <1>1. MaxFaults \in Nat /\ faults \in Nat /\ faults =< MaxFaults
    BY DEF IInv, PairInv
  <1>2. goal = "revalidate" /\ RightDbms => faults < MaxFaults
    BY DEF IInv, BugInv
  <1>3. RightDbms' = RightDbms
    BY DEF RightDbms
  <1>4. CASE lost = 0 /\ UNCHANGED faults
    BY <1>3, <1>4 DEF Undisturbed
  <1>5. CASE faults > 0 /\ faults' = faults - 1
    <2>1. faults' # MaxFaults
      BY <1>1, <1>5
    <2>2. faults < MaxFaults => faults' + 1 # MaxFaults
      BY <1>1, <1>5
    <2> QED BY <1>2, <1>3, <2>1, <2>2 DEF Undisturbed
  <1> QED BY <1>4, <1>5 DEF MayLose

(* The faults after a run.                                                 *)
LEMMA FaultsAfter ==
  ASSUME IInv, NEW c, NEW lost, MayLose(c, lost)
  PROVE  /\ MaxFaults \in Nat /\ faults \in Nat /\ faults' \in Nat
         /\ faults =< MaxFaults /\ faults' =< faults
PROOF
  <1>1. MaxFaults \in Nat /\ faults \in Nat /\ faults =< MaxFaults
    BY DEF IInv, PairInv
  <1>2. CASE lost = 0 /\ UNCHANGED faults
    BY <1>1, <1>2
  <1>3. CASE faults > 0 /\ faults' = faults - 1
    BY <1>1, <1>3
  <1> QED BY <1>1, <1>2, <1>3 DEF MayLose

(* A step within a pair of runs: the forms and the results are to be       *)
(* shown.                                                                  *)
LEMMA PairStep ==
  ASSUME IInv, UNCHANGED <<procVars, bugVars, goal, cur, i, world>>, child = "running",
         goal \in Plain \cup {"revert"}, stage # "setup",
         stage' \in {"again", "transformed", "decide"}, stage' = "again" => goal = "revert",
         faults' \in Nat, faults =< MaxFaults, faults' =< faults, faults \in Nat,
         FormInv', ResultInv'
  PROVE  IInv'
PROOF
  <1> USE DEF procVars, bugVars
  <1>0. /\ PairInv /\ BugInv /\ ConfirmedIsReal /\ ReportShowsOriginals /\ ReduceInv /\ SavedInv
        /\ MaxFaults \in Nat
    BY DEF IInv, PairInv
  <1>1. PairInv'
    <2>1. faults' \in 0..MaxFaults
      BY <1>0
    <2>2. goal # "none" /\ stage' # "none"
      BY DEF Plain
    <2>3. IsCase(cur) \/ goal = "revert"
      BY <1>0 DEF PairInv
    <2> QED BY <1>0, <2>1, <2>2, <2>3 DEF PairInv, Plain
  <1>2. BugInv'
    <2>1. RightDbms' = RightDbms
      BY DEF RightDbms
    <2>2. faults < MaxFaults => faults' < MaxFaults
      BY <1>0
    <2> QED BY <1>0, <2>1, <2>2 DEF BugInv
  <1>3. faults' = MaxFaults => faults = MaxFaults
    BY <1>0, FewerFaults
  <1>4. ConfirmedIsReal'
    <2>1. faults + 2 =< MaxFaults => faults' + 2 =< MaxFaults
      BY <1>0, FewerFaults
    <2> QED BY <1>0, <1>3, <2>1 DEF ConfirmedIsReal
  <1>5. ReportShowsOriginals'
    BY <1>0 DEF ReportShowsOriginals
  <1>6. ReduceInv'
    BY <1>0, <1>3 DEF ReduceInv
  <1>7. SavedInv'
    BY DEF SavedInv, Reduced
  <1> QED BY <1>1, <1>2, <1>4, <1>5, <1>6, <1>7 DEF IInv

(* The first run of a pair: the SELECTs are in their own form, and         *)
(* transformed afterwards.                                                 *)
LEMMA RunNormalKeeps == ASSUME IInv, RunNormal PROVE IInv'
PROOF
  <1> USE DEF RunNormal
  <1>1. PICK lost \in 0..Len(cur.stmts) :
          MayLose(cur, lost) /\ normal' = execute_normal_path(world, ast, cur, lost)
    OBVIOUS
  <1>2. goal \in Plain
    BY DEF IInv, PairInv, Plain
  <1>3. FormInv'
    BY DEF IInv, FormInv, Plain, Selects
  <1>4. ResultInv'
    <2> SUFFICES ASSUME Undisturbed'
                 PROVE  /\ normal' = Plainly(world, cur)
                        /\ goal = "test" /\ world.kind # "txn" => tx = Plainly(world, cur)
      BY <1>2 DEF ResultInv, Plain, procVars, bugVars
    <2>1. lost = 0 /\ Undisturbed
      BY <1>1, NothingLost
    <2>2. ast = {}
      BY <1>2 DEF IInv, FormInv
    <2>3. normal' = Plainly(world, cur)
      BY <1>1, <2>1, <2>2 DEF Plainly
    <2>4. goal = "test" /\ world.kind # "txn" => tx = Plainly(world, cur)
      BY <2>1 DEF IInv, ResultInv
    <2> QED BY <2>3, <2>4
  <1> QED BY <1>1, <1>2, <1>3, <1>4, FaultsAfter, PairStep

(* The second run: the SELECTs are transformed, and get their own form     *)
(* back. In the second loop of minimize() the two runs are in the same     *)
(* forms.                                                                  *)
LEMMA RunTransformedKeeps == ASSUME IInv, RunTransformed PROVE IInv'
PROOF
  <1> USE DEF RunTransformed
  <1>1. PICK lost \in 0..Len(cur.stmts) :
          MayLose(cur, lost) /\ transformed' = execute_normal_path(world, ast, cur, lost)
    OBVIOUS
  <1>2. goal \in Plain \cup {"revert"}
    BY DEF IInv, PairInv, Plain
  <1>3. goal \in Plain => ast = Selects(cur)
    BY DEF IInv, FormInv
  <1>4. FormInv'
    BY <1>3 DEF FormInv
  <1>5. ResultInv'
    <2> SUFFICES ASSUME Undisturbed'
                 PROVE  /\ goal \in Plain => normal = Plainly(world, cur) /\ transformed' = Changed(world, cur)
                        /\ goal = "revert" => normal = transformed'
                        /\ goal = "test" /\ world.kind # "txn" => tx = Plainly(world, cur)
      BY <1>2 DEF ResultInv, Plain, procVars, bugVars
    <2>1. lost = 0 /\ Undisturbed
      BY <1>1, NothingLost
    <2>2. /\ goal \in Plain => normal = Plainly(world, cur)
          /\ goal = "revert" => normal = execute_normal_path(world, ast, cur, 0)
          /\ goal = "test" /\ world.kind # "txn" => tx = Plainly(world, cur)
      BY <2>1 DEF IInv, ResultInv
    <2>3. goal \in Plain => transformed' = Changed(world, cur)
      BY <1>1, <1>3, <2>1 DEF Changed
    <2> QED BY <1>1, <2>1, <2>2, <2>3
  <1> QED BY <1>1, <1>2, <1>4, <1>5, FaultsAfter, PairStep

(* The second loop of minimize() puts the forms before its first run.      *)
LEMMA RevertRunsKeeps == ASSUME IInv, RevertRuns PROVE IInv'
PROOF
  <1> USE DEF RevertRuns, Running
  <1>1. FormInv' /\ ResultInv'
    BY DEF FormInv, ResultInv, Plain, procVars, bugVars
  <1>2. MaxFaults \in Nat /\ faults \in Nat /\ faults =< MaxFaults
    BY DEF IInv, PairInv
  <1> QED BY <1>1, <1>2, PairStep

(* The first run of the second loop.                                       *)
LEMMA RevertRunsNormalKeeps == ASSUME IInv, RevertRunsNormal PROVE IInv'
PROOF
  <1> USE DEF RevertRunsNormal, Running
  <1>1. PICK lost \in 0..Len(cur.stmts) :
          MayLose(cur, lost) /\ normal' = execute_normal_path(world, ast, cur, lost)
    OBVIOUS
  <1>2. FormInv'
    BY DEF FormInv, Plain
  <1>3. ResultInv'
    <2> SUFFICES ASSUME Undisturbed' PROVE normal' = execute_normal_path(world, ast, cur, 0)
      BY DEF ResultInv, Plain
    <2>1. lost = 0
      BY <1>1, NothingLost
    <2> QED BY <1>1, <2>1
  <1> QED BY <1>1, <1>2, <1>3, FaultsAfter, PairStep

(* A new test, after a step of the child that confirmed nothing.           *)
LEMMA NoBugKeeps ==
  ASSUME IInv, child = "running", NoBug, faults' \in 0..MaxFaults PROVE IInv'
PROOF
  <1>1. MaxFaults \in Nat /\ tests \in Nat /\ parent # "fork"
    BY DEF IInv, PairInv
  <1>2. tests' \in Nat
    BY <1>1 DEF NoBug
  <1> QED BY <1>1, <1>2, Fresh DEF NoBug, NewTest

(* generate_database() leaves a test to start, or the server is lost.      *)
LEMMA GenerateKeeps == ASSUME IInv, Generate PROVE IInv'
PROOF
  <1> USE DEF Generate, Running
  <1>1. MaxFaults \in Nat /\ tests \in Nat /\ parent # "fork" /\ faults \in 0..MaxFaults
    BY DEF IInv, PairInv
  <1>2. CASE NewTest /\ UNCHANGED <<procVars, faults>>
    BY <1>1, <1>2, Fresh DEF NewTest, procVars
  <1>3. CASE /\ faults > 0 /\ faults' = faults - 1 /\ Exits("signalled")
             /\ UNCHANGED <<pairVars, tx, last, confirmed>>
    <2>1. faults' \in 0..MaxFaults /\ faults' =< faults
      BY <1>1, <1>3
    <2> QED BY <1>3, <2>1, Stops DEF Exits
  <1> QED BY <1>2, <1>3

(* Every path of the bound is one.                                         *)
LEMMA SetUpKeeps == ASSUME IInv, SetUp PROVE IInv'
PROOF
  <1> USE DEF SetUp, Running
  <1>1. MaxFaults \in Nat /\ parent # "fork" /\ faults \in 0..MaxFaults /\ tests \in Nat
        /\ ~confirmed /\ ast = {}
    BY DEF IInv, PairInv, BugInv, FormInv, Plain
  <1>2. CASE NoBug
    BY <1>1, <1>2, NoBugKeeps
  <1>3. CASE Exits("failure") /\ UNCHANGED <<pairVars, tx, last, confirmed>>
    BY <1>1, <1>3, Stops DEF Exits
  <1>4. ASSUME NEW x \in Cases, LET c == Extract(x.queue, x.path) IN
                 /\ c.stmts # <<>>
                 /\ Pair("test", c) /\ tx' = TxResult(c)
                 /\ UNCHANGED <<procVars, i, ast, normal, transformed, last, confirmed>>
        PROVE  IInv'
    <2> DEFINE c == Extract(x.queue, x.path)
    <2>1. IsCase(c)
      BY ExtractIsCase, CrossAssumption
    <2>2. tx' = TxResult(c)
      BY <1>4
    <2>3. /\ goal' = "test" /\ stage' = "normal" /\ cur' = c
          /\ UNCHANGED <<procVars, i, ast, normal, transformed, last, confirmed, report, minimized, partial, world, faults>>
      BY <1>4 DEF Pair
    <2> HIDE DEF c, SetUp
    <2> USE <2>3 DEF procVars
    <2>4. PairInv'
      BY <2>1 DEF IInv, PairInv, Plain
    <2>5. FormInv'
      BY <1>1 DEF FormInv
    <2>6. ResultInv'
      <3>1. world.kind # "txn" => tx' = Plainly(world, c)
        BY <1>1, <2>2 DEF TxResult, Plainly
      <3> QED BY <3>1 DEF ResultInv
    <2>7. BugInv' /\ ConfirmedIsReal' /\ SavedInv' /\ ReportShowsOriginals' /\ ReduceInv'
      BY <1>1 DEF BugInv, ConfirmedIsReal, SavedInv, Reduced, ReportShowsOriginals, ReduceInv
    <2> QED BY <2>4, <2>5, <2>6, <2>7 DEF IInv
  <1> QED BY <1>2, <1>3, <1>4

(* Two equal results do not differ.                                        *)
LEMMA SameResults == ASSUME NEW a PROVE ~Differs(a, a)
PROOF
  BY DEF Differs, compare_content

(* What a difference shows on a DBMS that fails nothing by itself.         *)
LEMMA ShowsReal ==
  ASSUME NEW w, NEW c, Shows(w, c) PROVE w.kind = "eet" \/ w.rejects # {}
PROOF
  BY DEF Shows

(* The oracles send on to revalidate_bug() what differs; on a DBMS that is *)
(* right and has failed nothing, nothing does.                             *)
LEMMA CompareKeeps == ASSUME IInv, Compare PROVE IInv'
PROOF
  <1> USE DEF Running
  <1>1. /\ child = "running" /\ goal = "test" /\ stage = "decide"
        /\ UNCHANGED <<report, minimized, partial, world, faults>>
    BY DEF Compare
  <1>2. /\ MaxFaults \in Nat /\ parent # "fork" /\ faults \in 0..MaxFaults
        /\ ~confirmed /\ ast = {} /\ IsCase(cur)
    BY <1>1 DEF IInv, PairInv, BugInv, FormInv, Plain
  <1>3. CASE NoBug
    BY <1>1, <1>2, <1>3, NoBugKeeps
  <1>4. CASE /\ ~(EetOk /\ TxCheckOk) /\ Pair("revalidate", cur)
             /\ UNCHANGED <<procVars, i, ast, tx, normal, transformed, last, confirmed>>
    <2> USE <1>1, <1>2, <1>4 DEF Pair, procVars
    <2>1. RightDbms => faults < MaxFaults
      <3> SUFFICES ASSUME RightDbms, faults = MaxFaults PROVE FALSE
        OBVIOUS
      <3>1. /\ normal = Plainly(world, cur) /\ transformed = Changed(world, cur)
            /\ tx = Plainly(world, cur)
        BY DEF IInv, ResultInv, Undisturbed, Plain, RightDbms
      <3>2. ~Shows(world, cur)
        BY ShowsReal DEF RightDbms
      <3>3. ~Differs(normal, transformed)
        BY <3>1, <3>2, ShowsIfDiffers
      <3>4. ~Differs(tx, normal)
        BY <3>1, SameResults
      <3> QED BY <3>3, <3>4 DEF EetOk, TxCheckOk
    <2>2. PairInv'
      BY DEF IInv, PairInv, Plain
    <2>3. FormInv'
      BY DEF FormInv
    <2>4. ResultInv'
      BY DEF ResultInv
    <2>5. BugInv'
      BY <2>1 DEF BugInv, RightDbms
    <2>6. ConfirmedIsReal' /\ SavedInv' /\ ReportShowsOriginals' /\ ReduceInv'
      BY DEF ConfirmedIsReal, SavedInv, Reduced, ReportShowsOriginals, ReduceInv
    <2> QED BY <2>2, <2>3, <2>4, <2>5, <2>6 DEF IInv
  <1> QED BY <1>3, <1>4 DEF Compare

(* revalidate_bug(): without a failure of its own the two runs differ only *)
(* when the case shows the difference; that is what is reported and        *)
(* reduced.                                                                *)
LEMMA RevalidateKeeps == ASSUME IInv, Revalidate PROVE IInv'
PROOF
  <1>1. /\ child = "running" /\ goal = "revalidate" /\ stage = "decide"
        /\ UNCHANGED <<partial, world, faults>>
    BY DEF Revalidate, Running
  <1>2. /\ MaxFaults \in Nat /\ parent # "fork" /\ faults \in 0..MaxFaults
        /\ ast = {} /\ IsCase(cur)
    BY <1>1 DEF IInv, PairInv, FormInv, Plain
  <1>3. CASE NoBug
    BY <1>1, <1>2, <1>3, NoBugKeeps
  <1>4. CASE /\ Differs(normal, transformed)
             /\ confirmed' = TRUE /\ report' = Written(cur) /\ RemoveFrom(cur, 1) /\ UNCHANGED tx
    <2>1. Undisturbed => Shows(world, cur)
      <3> SUFFICES ASSUME Undisturbed PROVE Shows(world, cur)
        OBVIOUS
      <3>1. normal = Plainly(world, cur) /\ transformed = Changed(world, cur)
        BY <1>1 DEF IInv, ResultInv, Plain
      <3> QED BY <1>2, <1>4, <3>1, ShowsIfDiffers
    <2>2. faults = MaxFaults => Shows(world, cur)
      BY <2>1 DEF Undisturbed
    <2>3. RightDbms => faults + 2 =< MaxFaults
      <3> SUFFICES ASSUME RightDbms PROVE faults + 2 =< MaxFaults
        OBVIOUS
      <3>1. ~Shows(world, cur)
        BY ShowsReal DEF RightDbms
      <3>2. faults < MaxFaults /\ faults + 1 # MaxFaults
        BY <1>1, <2>1, <3>1 DEF IInv, BugInv, Undisturbed
      <3> QED BY <1>2, <3>2
    <2>4. ConfirmedIsReal'
      BY <1>1, <2>2, <2>3, ShowsReal DEF ConfirmedIsReal, RightDbms
    <2>5. \A m \in 1..Len(report') : ~report'[m][2]
      <3> DEFINE n == Len(cur.stmts)
                 r == [k \in 1..n |-> <<cur.stmts[k], cur.stmts[k] \in ast>>]
      <3>1. n \in Nat
        BY <1>2 DEF IsCase
      <3>2. report' = r
        BY <1>4 DEF Written
      <3>3. Len(r) = n
        <4> HIDE DEF n
        <4> QED BY <3>1
      <3>4. \A m \in 1..n : ~r[m][2]
        <4> TAKE m \in 1..n
        <4>1. r[m][2] = (cur.stmts[m] \in ast)
          OBVIOUS
        <4> QED BY <1>2, <4>1
      <3> HIDE DEF r, n
      <3> QED BY <3>2, <3>3, <3>4
    <2>6. Tried(world, cur, 1)
      BY DEF Tried
    <2> QED BY <1>1, <1>2, <1>4, <2>2, <2>4, <2>5, <2>6, RemoveFromKeeps
  <1> QED BY <1>3, <1>4 DEF Revalidate

(* A removal that leaves the difference is kept and the loop starts again; *)
(* one that does not is one more statement that has to stay.               *)
LEMMA RemovalTriedKeeps == ASSUME IInv, RemovalTried PROVE IInv'
PROOF
  <1>1. /\ child = "running" /\ goal = "remove" /\ stage = "decide"
        /\ UNCHANGED <<tx, confirmed, report, partial, world, faults>>
    BY DEF RemovalTried, Running
  <1>2. /\ IsCase(cur) /\ IsCase(last) /\ i \in Nat
        /\ \A m \in 1..Len(report') : ~report'[m][2]
    BY <1>1 DEF IInv, PairInv, Plain, ReportShowsOriginals
  <1>3. ConfirmedIsReal'
    BY <1>1 DEF IInv, ConfirmedIsReal
  <1>4. faults = MaxFaults =>
          /\ normal = Plainly(world, cur) /\ transformed = Changed(world, cur)
          /\ Shows(world, last) /\ Tried(world, last, i)
          /\ i \in 1..Len(last.stmts) /\ ~is_select_like_usage(last.usages[i])
          /\ cur = Without(last, i)
    BY <1>1 DEF IInv, ResultInv, Undisturbed, ReduceInv, Plain
  <1>5. CASE Differs(normal, transformed) /\ RemoveFrom(cur, 1)
    <2>1. faults = MaxFaults => Shows(world, cur)
      BY <1>2, <1>4, <1>5, ShowsIfDiffers
    <2>2. Tried(world, cur, 1)
      BY DEF Tried
    <2> QED BY <1>1, <1>2, <1>3, <1>5, <2>1, <2>2, RemoveFromKeeps
  <1>6. CASE ~Differs(normal, transformed) /\ RemoveFrom(last, i + 1)
    <2>1. faults = MaxFaults => ~Shows(world, Without(last, i))
      BY <1>2, <1>4, <1>6, ShowsIfDiffers
    <2>2. faults = MaxFaults => Tried(world, last, i + 1)
      <3> SUFFICES ASSUME faults = MaxFaults, NEW j \in 1..Len(last.stmts), j < i + 1,
                          ~is_select_like_usage(last.usages[j])
                   PROVE  ~Shows(world, Without(last, j))
        BY DEF Tried
      <3>1. j < i \/ j = i
        BY <1>4
      <3> QED BY <1>4, <2>1, <3>1 DEF Tried
    <2>3. i + 1 \in Nat /\ i + 1 # 0
      BY <1>2
    <2> QED BY <1>1, <1>2, <1>3, <1>4, <1>6, <2>2, <2>3, RemoveFromKeeps
  <1> QED BY <1>5, <1>6 DEF RemovalTried

(* The second loop never reverts a SELECT unless a statement fails: both   *)
(* of its runs are in the same forms.                                      *)
LEMMA RevertTriedKeeps == ASSUME IInv, RevertTried PROVE IInv'
PROOF
  <1>1. /\ child = "running" /\ goal = "revert" /\ stage = "decide"
        /\ UNCHANGED <<tx, confirmed, report, partial, world, faults>>
    BY DEF RevertTried, Running
  <1>2. \A m \in 1..Len(report') : ~report'[m][2]
    BY <1>1 DEF IInv, ReportShowsOriginals
  <1>3. ConfirmedIsReal'
    BY <1>1 DEF IInv, ConfirmedIsReal
  <1>4. faults = MaxFaults => normal = transformed /\ IsCase(last) /\ Minimal(world, last)
    BY <1>1 DEF IInv, ResultInv, Undisturbed, ReduceInv, Plain
  <1>5. CASE Differs(normal, transformed) /\ Revert([last EXCEPT !.usages[i] = "none"], i + 1)
    <2>1. faults # MaxFaults
      BY <1>4, <1>5, SameResults
    <2> QED BY <1>1, <1>2, <1>3, <1>5, <2>1, RevertKeeps
  <1>6. CASE Revert(last, i + 1)
    BY <1>1, <1>2, <1>3, <1>4, <1>6, RevertKeeps
  <1> QED BY <1>5, <1>6 DEF RevertTried

(* An exception, a crash, the last test.                                   *)
LEMMA EndsKeep == ASSUME IInv, Throws \/ Crashes \/ Finishes PROVE IInv'
PROOF
  <1>1. MaxFaults \in Nat /\ faults \in 0..MaxFaults
    BY DEF IInv, PairInv
  <1>2. ASSUME faults > 0, faults' = faults - 1
        PROVE  faults' \in 0..MaxFaults /\ faults' =< faults /\ faults' # faults
    BY <1>1, <1>2
  <1>3. CASE Throws
    <2> USE <1>3 DEF Throws
    <2>1. CASE Exits("failure") /\ UNCHANGED <<pairVars, tx, last, confirmed>>
      BY <1>2, <2>1, Stops DEF Exits
    <2>2. CASE NoBug
      BY <1>2, <2>2, NoBugKeeps
    <2> QED BY <2>1, <2>2
  <1>4. CASE Crashes
    BY <1>2, <1>4, Stops DEF Crashes, Exits, bugVars
  <1>5. CASE Finishes
    BY <1>1, <1>5, Stops DEF Finishes, Running, Exits, bugVars
  <1> QED BY <1>3, <1>4, <1>5

(* The next child knows nothing of the last.                               *)
LEMMA ForkKeeps == ASSUME IInv, Fork PROVE IInv'
PROOF
  <1>1. MaxFaults \in Nat /\ faults \in 0..MaxFaults
    BY DEF IInv, PairInv
  <1> QED BY <1>1, Fresh DEF Fork

(* Nothing but the processes and the count of tests changes, and no child  *)
(* runs.                                                                   *)
LEMMA WaitKeeps == ASSUME IInv, Wait PROVE IInv'
PROOF
  <1> USE DEF Wait, pairVars, bugVars
  <1>1. /\ PairInv /\ FormInv /\ ResultInv /\ BugInv /\ ConfirmedIsReal /\ ReportShowsOriginals
        /\ SavedInv
    BY DEF IInv
  <1>2. PairInv'
    BY <1>1 DEF PairInv
  <1>3. FormInv'
    BY <1>1 DEF FormInv
  <1>4. ResultInv'
    BY <1>1 DEF ResultInv, Undisturbed, RightDbms
  <1>5. child' # "running" /\ (child' = "failure" => child = "failure")
    OBVIOUS
  <1>6. BugInv'
    BY <1>1, <1>5 DEF BugInv, RightDbms
  <1>7. ConfirmedIsReal' /\ ReportShowsOriginals'
    BY <1>1 DEF ConfirmedIsReal, ReportShowsOriginals
  <1>8. ReduceInv'
    BY <1>5 DEF ReduceInv
  <1>9. SavedInv'
    BY <1>1, <1>5 DEF SavedInv, Reduced
  <1> QED BY <1>2, <1>3, <1>4, <1>6, <1>7, <1>8, <1>9 DEF IInv

(* A step of nothing.                                                      *)
LEMMA StutterKeeps == ASSUME IInv, UNCHANGED vars PROVE IInv'
PROOF
  <1> USE DEF vars, procVars, pairVars, bugVars
  <1>1. /\ PairInv /\ FormInv /\ ResultInv /\ BugInv /\ ConfirmedIsReal /\ ReportShowsOriginals
        /\ ReduceInv /\ SavedInv
    BY DEF IInv
  <1>2. PairInv' /\ FormInv'
    BY <1>1 DEF PairInv, FormInv
  <1>3. ResultInv'
    BY <1>1 DEF ResultInv, Undisturbed, RightDbms
  <1>4. BugInv' /\ ConfirmedIsReal' /\ ReportShowsOriginals'
    BY <1>1 DEF BugInv, RightDbms, ConfirmedIsReal, ReportShowsOriginals
  <1>5. ReduceInv' /\ SavedInv'
    BY <1>1 DEF ReduceInv, SavedInv, Reduced
  <1> QED BY <1>2, <1>3, <1>4, <1>5 DEF IInv

(* The campaign starts with no pair, no bug and no report.                 *)
LEMMA InitIInv == ASSUME Init PROVE IInv
PROOF
  <1> USE DEF Init
  <1>1. PairInv /\ FormInv
    BY CrossAssumption DEF PairInv, FormInv, Plain
  <1>2. ResultInv /\ BugInv /\ ConfirmedIsReal
    BY DEF ResultInv, Plain, BugInv, ConfirmedIsReal
  <1>3. ReportShowsOriginals /\ ReduceInv /\ SavedInv
    BY DEF ReportShowsOriginals, ReduceInv, SavedInv, Reduced
  <1> QED BY <1>1, <1>2, <1>3 DEF IInv

(* Every state the campaign reaches satisfies the invariant, whatever the  *)
(* cases, the DBMS and the number of faults.                               *)
THEOREM Inductive == Spec => []IInv
PROOF
  <1>1. ASSUME IInv, [Next]_vars PROVE IInv'
    BY <1>1, GenerateKeeps, SetUpKeeps, RunNormalKeeps, RunTransformedKeeps, CompareKeeps,
       RevalidateKeeps, RemovalTriedKeeps, RevertRunsKeeps, RevertRunsNormalKeeps,
       RevertTriedKeeps, EndsKeep, ForkKeeps, WaitKeeps, StutterKeeps
    DEF Next, Child, Parent
  <1> QED BY <1>1, InitIInv, PTL DEF Spec

(* A confirmed bug is one of the DBMS: revalidate_bug() confirms nothing   *)
(* of a DBMS that is right and takes every transform unless two statements *)
(* have failed by themselves.                                              *)
THEOREM ConfirmedBugsAreReal == Spec => []ConfirmedIsReal
PROOF
  <1>1. IInv => ConfirmedIsReal
    BY DEF IInv
  <1> QED BY <1>1, Inductive, PTL

(* normal_stmts.sql has every statement in its own form, however often the *)
(* statements were transformed before it was written.                      *)
THEOREM ReportsShowOriginals == Spec => []ReportShowsOriginals
PROOF
  <1>1. IInv => ReportShowsOriginals
    BY DEF IInv
  <1> QED BY <1>1, Inductive, PTL

(* What minimize() saves still shows the difference that was confirmed,    *)
(* when no statement fails by itself.                                      *)
THEOREM MinimizedCasesShowBug == Spec => []MinimizedShowsBug
PROOF
  <1>1. IInv => MinimizedShowsBug
    BY DEF IInv, SavedInv, Minimal, MinimizedShowsBug
  <1> QED BY <1>1, Inductive, PTL

(* minimize() saves a case that no further single removal would leave with *)
(* the difference, although it goes on behind a statement that has to stay *)
(* and never looks at it again.                                            *)
THEOREM MinimizedCasesAreMinimal == Spec => []MinimizedIsMinimal
PROOF
  <1>1. IInv => MinimizedIsMinimal
    <2> SUFFICES ASSUME IInv, Reduced, NEW k \in 1..Len(minimized.stmts),
                        ~is_select_like_usage(minimized.usages[k])
                 PROVE  ~Shows(world, Without(minimized, k))
      BY DEF MinimizedIsMinimal
    <2>1. Tried(world, minimized, Len(minimized.stmts) + 1)
      BY DEF IInv, SavedInv, Minimal
    <2>2. k < Len(minimized.stmts) + 1
      OBVIOUS
    <2> QED BY <2>1, <2>2 DEF Tried
  <1> QED BY <1>1, Inductive, PTL
===============================================================================
