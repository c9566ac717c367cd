---------------------------- MODULE MCDepCheck -----------------------------
(***************************************************************************)
(* DepCheck for TLC: two transactions on two tables, of which the first    *)
(* holds row 1 and may get row 2, the second may get row 3.                *)
(***************************************************************************)
EXTENDS DepCheck

MCTableOf == <<"t_a", "t_a", "t_b">>

MCQueries == {{1}, {1, 2}}

(* The reductions of check_G1c() and check_G2_item() against what a cycle  *)
(* is: a set of nodes each of which is entered from one of them.           *)
Cyclic(e) == \E S \in SUBSET (1 .. 4) : S # {} /\ \A n \in S : \E m \in S : <<m, n>> \in e

ASSUME CycleAssumption ==
    \A e \in SUBSET {p \in (1 .. 4) \X (1 .. 4) : p[1] # p[2]} :
        HasCycle([num |-> 3], e) <=> Cyclic(e)
=============================================================================
