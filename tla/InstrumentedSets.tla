------------------------- MODULE InstrumentedSets --------------------------
(***************************************************************************)
(* dependency_analyzer::get_instrumented_stmt_set(): the statements that   *)
(* instrument edges join to a statement, which form its block.  A          *)
(* statement is named by its position in the analyzed queue, from 1.       *)
(***************************************************************************)
EXTENDS Naturals

Ends(e) == {p[1] : p \in e} \union {p[2] : p \in e}

(* The work list looks for an edge from the earlier to the later statement *)
(* and follows it both ways.                                               *)
Closed(e, S) == \A p \in e : p[1] < p[2] => (p[1] \in S <=> p[2] \in S)

(* The work list ends with the smallest closed set.                        *)
InstrumentedSet(e, i) ==
    LET near == Ends(e) \union {i}
    IN  {j \in near : \A S \in SUBSET near : i \in S /\ Closed(e, S) => j \in S}
=============================================================================
