---------------------------- MODULE MCRoundTest ----------------------------
(* Two transactions over statements of each kind.                          *)
EXTENDS RoundTest

MCShape ==
    [b \in {"insert", "insert2", "update", "update2", "delete", "select"} |->
        CASE b \in {"insert", "insert2"} -> <<"insert", "after">>
          [] b \in {"update", "update2"} -> <<"version", "before", "update", "after">>
          [] b = "delete" -> <<"version", "before", "delete">>
          [] b = "select" -> <<"version", "select">>]

(* The t-th transaction's statements at the positions that s gives to t.   *)
Interleaved(txns, s) ==
    [i \in DOMAIN s |-> [tid |-> s[i], stmt |-> txns[s[i]][Id([k \in DOMAIN s |-> [tid |-> s[k]]], i)[2]],
                         use |-> "init"]]

InsertDelete == <<<<"begin", "insert", "end">>, <<"begin", "delete", "select", "end">>>>

UpdateInsert == <<<<"begin", "update", "end">>, <<"begin", "insert", "select", "end">>>>

InsertsUpdate == <<<<"begin", "insert", "insert2", "end">>, <<"begin", "update", "end">>>>

TwoUpdates == <<<<"begin", "update", "end">>, <<"begin", "update2", "end">>>>

InsertSelect == <<<<"begin", "insert", "end">>, <<"begin", "select", "end">>>>

(* Every way in which statements can follow each other, three of the one   *)
(* transaction and four of the other, once both have begun.                *)
MCSchedules ==
    {s \in [1..7 -> 1..2] :
        s[1] = 1 /\ s[2] = 2 /\ Cardinality({i \in 1..7 : s[i] = 1}) = 3}

Calm ==
    {[queue |-> Interleaved(x, s), waits |-> FALSE, late |-> FALSE] :
        x \in {InsertDelete, UpdateInsert}, s \in MCSchedules}
    \union
    {[queue |-> Interleaved(InsertsUpdate, <<1, 2, 1, 2, 1, 1, 2>>), waits |-> FALSE, late |-> FALSE]}

(* Overlaps in which the lock of either transaction may be waited for.     *)
Waiting ==
    {[queue |-> q, waits |-> TRUE, late |-> FALSE] :
        q \in {Interleaved(InsertDelete, <<1, 2, 2, 1, 1, 2, 2>>),
               Interleaved(TwoUpdates, <<1, 2, 1, 2, 1, 2>>)}}

Faulty ==
    {[queue |-> Interleaved(InsertSelect, <<1, 2, 1, 2, 1, 2>>), waits |-> FALSE, late |-> TRUE]}

MCCases == Calm \union Waiting \union Faulty

(* What RoundTest takes for the blocks is what get_instrumented_stmt_set() *)
(* computes from the edges.                                                *)
ASSUME BlocksAreInstrumentedSets ==
    \A x \in {InsertDelete, UpdateInsert} : \A s \in MCSchedules :
        LET q == Instrument(Interleaved(x, s))
        IN  Blocks(q) = [i \in DOMAIN q |-> InstrumentedSet(Pairs(q), i)]
=============================================================================
