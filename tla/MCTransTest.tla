---------------------------- MODULE MCTransTest ----------------------------
(* All interleavings of a few small transactions.                          *)
EXTENDS TransTest

CONSTANT Programs   \* test cases: of each transaction the kinds of its statements

(* The place of the i-th statement of the queue in its transaction.        *)
Rank(tids, i) == Cardinality({j \in 1..i : tids[j] = tids[i]})

(* Transactions with the same program are interchangeable: of two, the one *)
(* with the smaller id starts first.                                       *)
Canonical(program, tids) ==
    \A i, j \in Positions :
        /\ Rank(tids, i) = 1 /\ Rank(tids, j) = 1
        /\ program[tids[i]] = program[tids[j]]
        /\ tids[i] < tids[j]
        => i < j

Interleavings(program) ==
    {tids \in [Positions -> DOMAIN program] :
        /\ \A t \in DOMAIN program :
              Cardinality({i \in Positions : tids[i] = t}) = Len(program[t])
        /\ Canonical(program, tids)}

QueuesOf(program) ==
    {[i \in Positions |-> [tid |-> tids[i], kind |-> program[tids[i]][Rank(tids, i)]]]
        : tids \in Interleavings(program)}

MCQueues == UNION {QueuesOf(program) : program \in Programs}

TwoPrograms == <<<<"BEGIN", "STMT", "COMMIT">>, <<"BEGIN", "ABORT">>>>

ThreePrograms == <<<<"COMMIT">>, <<"BEGIN", "COMMIT">>, <<"BEGIN", "COMMIT">>>>

(* Three transactions, for the retries inside retries: over the driver that *)
(* reports lock waits, and with the lone COMMIT behind other statements, so *)
(* that two may wait for it, and before one.  Two over the other drivers,  *)
(* the one whose query may fail with the first transaction starting.       *)
MCInit ==
    /\ Init
    /\ LET three == queue \in QueuesOf(ThreePrograms) IN
          /\ three => queue[4].tid = 1
          /\ \A t \in Tids : /\ three <=> conn[t].driver = "polls"
                             /\ conn[t].driver = "unsure" => queue[1].tid = 1

MCFairSpec == MCInit /\ [][Next]_vars /\ WF_vars(Next)

Ending == {TwoPrograms}
Both == {TwoPrograms, ThreePrograms}
=============================================================================
