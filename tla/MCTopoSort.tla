---------------------------- MODULE MCTopoSort -----------------------------
(* Two transactions of four statements each, the two in the middle of each *)
(* with every graph of dependencies between them.                          *)
EXTENDS TopoSort

MCTid == <<1, 1, 1, 2, 2, 2, 1, 2>>

Data == {2, 3, 5, 6}

(* Either middle pair may be a statement with its instrumented read.       *)
MCInstruments == SUBSET {<<2, 3>>, <<5, 6>>}

DataEdges == {e \in Data \X Data : e[1] # e[2]}

Graph(c, h, e, f, d, n) ==
    [tid |-> MCTid, committed |-> c, init |-> (Positions \ Data) \union h,
     instr |-> e, edges |-> f \union e, deleted |-> d, absent |-> n]

(* Graphs whose excluded statements are parts of blocks or of another      *)
(* queue; every graph; graphs without the third statement, which is a      *)
(* space holder; and graphs of which the second transaction was rolled     *)
(* back, or its statements were excluded by the caller.                    *)
MCGraphs ==
    {Graph({1, 2}, {}, {<<2, 3>>, <<5, 6>>}, f, d, n) :
        f \in SUBSET {g \in DataEdges : (g[1] < 4) # (g[2] < 4) /\ {g[1], g[2]} # {2, 6}},
        d \in {{3}, {2, 6}, {4, 5}, {2, 3, 5}}, n \in 0..2}
    \union
    {Graph({1, 2}, {}, e, f, {}, 0) : e \in MCInstruments, f \in SUBSET DataEdges}
    \union
    {Graph({1, 2}, {3}, e, f, {}, 0) : e \in {{}, {<<5, 6>>}},
                                   f \in SUBSET {g \in DataEdges : 3 \notin {g[1], g[2]}}}
    \union
    {Graph(c, {}, e, f, d, 0) : c \in {{1, 2}, {1}}, d \in {{}, {5, 6}},
                             e \in {{}, {<<2, 3>>, <<5, 6>>}},
                             f \in SUBSET {g \in DataEdges : g[1] < g[2]}}
=============================================================================
