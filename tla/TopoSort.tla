----------------------------- MODULE TopoSort ------------------------------
(***************************************************************************)
(* dependency_analyzer::topological_sort_path(): the order in which the    *)
(* statements of the committed transactions are executed once more without *)
(* transactions.  Statements are put out in blocks, a statement together   *)
(* with the reads that the instrumentor put around it; where the           *)
(* dependencies form a cycle a whole block is given up.                    *)
(*                                                                         *)
(* A step is one turn of the while loop.  The dependency graph of the      *)
(* statements keeps, of the kinds of an edge, whether it is an instrument  *)
(* edge; begin and inner dependencies are erased before the loop starts    *)
(* and are left out.  Positions of the queue start at 1 and stand for the  *)
(* stmt_ids, which name the same statements.                               *)
(***************************************************************************)
EXTENDS InstrumentedSets, Naturals, Sequences, FiniteSets

CONSTANTS StmtNum,      \* stmt_num
          Tids,         \* the transactions' ids
          Graphs        \* what the analyzer is called with, see Inputs

Positions == 1..StmtNum

Edges == Positions \X Positions

(* f_txn_id_queue, the transactions with TXN_COMMIT, the statements with   *)
(* f_stmt_usage INIT_TYPE, the INSTRUMENT_DEPEND edges, all edges, and the *)
(* argument deleted_nodes: those that are statements of the queue, and the *)
(* number of those that are not, which the loop counts as well.            *)
Inputs == [tid : [Positions -> Tids], committed : SUBSET Tids, init : SUBSET Positions,
           instr : SUBSET Edges, edges : SUBSET Edges, deleted : SUBSET Positions,
           absent : Nat]

ASSUME StmtNumAssumption == StmtNum \in Nat

ASSUME GraphsAssumption == Graphs \subseteq Inputs

(* build_stmt_instrument_dependency() joins statements of one transaction  *)
(* only.                                                                   *)
ASSUME InstrumentAssumption == \A g \in Graphs : \A p \in g.instr : g.tid[p[1]] = g.tid[p[2]]

VARIABLES graph,        \* the input
          block,        \* get_instrumented_stmt_set() of every position
          edges,        \* tmp_stmt_dependency_graph
          outputted,    \* outputted_node
          deleted,      \* deleted_nodes
          path,
          delete_flag,
          pc            \* the loop, the two that erase, and the return

vars == <<graph, block, edges, outputted, deleted, path, delete_flag, pc>>

(* Every variable has its type.                                            *)
TypeOK ==
    /\ graph \in Inputs
    /\ block \in [Positions -> SUBSET Positions]
    /\ edges \in SUBSET Edges
    /\ outputted \in SUBSET Positions
    /\ deleted \in SUBSET Positions
    /\ path \in Seq(Positions)
    /\ delete_flag \in BOOLEAN
    /\ pc \in {"sorting", "ends", "holders", "returned"}

Without(es, S) == {e \in es : e[1] \notin S /\ e[2] \notin S}

Aborted(g) == {i \in Positions : g.tid[i] \notin g.committed}

(* The statements of aborted transactions go, with their edges; those of   *)
(* the argument keep their edges.                                          *)
Init ==
    /\ graph \in Graphs
    /\ block = [i \in Positions |-> InstrumentedSet(graph.instr, i)]
    /\ edges = Without(graph.edges, Aborted(graph))
    /\ outputted = {}
    /\ deleted = graph.deleted \union Aborted(graph)
    /\ path = <<>>
    /\ delete_flag = FALSE
    /\ pc = "sorting"

Unfinished == Cardinality(outputted) + Cardinality(deleted) + graph.absent < StmtNum

Remaining == Positions \ (outputted \union deleted)

(* Mutant: only the statement itself is looked at, not its block.          *)
HasIndegreeSingle(i) == \E b \in Positions \ block[i] : <<b, i>> \in edges

(* Mutant: edges inside the block count.                                   *)
HasIndegreeInner(i) == \E a \in block[i], b \in Positions : <<b, a>> \in edges

HasIndegree(i) == \E a \in block[i], b \in Positions \ block[i] : <<b, a>> \in edges

(* Mutant: a statement leaves its block behind.                            *)
EmittedSingle(i) == {i}

Emitted(i) == block[i]

(* set<int, less<int>> is walked in increasing order.                      *)
Ascending(S) ==
    {s \in [1..Cardinality(S) -> S] :
        /\ \A i \in S : \E k \in DOMAIN s : s[k] = i
        /\ \A k, l \in DOMAIN s : k < l => s[k] < s[l]}

(* The last statement of the queue whose block depends on no other.        *)
Output ==
    /\ pc = "sorting" /\ Unfinished
    /\ \E i \in Remaining :
          /\ ~HasIndegree(i)
          /\ \A j \in Remaining : j > i => HasIndegree(j)
          /\ \E s \in Ascending(Emitted(i)) : path' = path \o s
          /\ outputted' = outputted \union Emitted(i)
          /\ edges' = Without(edges, Emitted(i))
    /\ UNCHANGED <<graph, block, deleted, delete_flag, pc>>

EdgeNum(i) ==
    Cardinality({e \in edges : e[1] \in block[i] /\ e[2] \notin block[i]})
    + Cardinality({e \in edges : e[1] \notin block[i] /\ e[2] \in block[i]})

(* The blocks' first statements, where edges are counted.                  *)
Targets == {i \in Remaining : \A j \in Remaining \intersect block[i] : i <= j}

(* Mutant: the set of a statement does not hold the statement itself.      *)
GivenUpOthers(i) == block[i] \ {i}

(* Mutant: all statements of the cycle are given up.                       *)
GivenUpAll(i) == Remaining

GivenUp(i) == block[i]

(* There is a cycle: the block with the most edges is given up, of several *)
(* the one that starts last.                                               *)
Decycle ==
    /\ pc = "sorting" /\ Unfinished
    /\ \A i \in Remaining : HasIndegree(i)
    /\ \E i \in Targets :
          /\ \A j \in Targets : EdgeNum(j) <= EdgeNum(i) /\ (EdgeNum(j) = EdgeNum(i) => j <= i)
          /\ deleted' = deleted \union GivenUp(i)
          /\ edges' = Without(edges, GivenUp(i))
    /\ delete_flag' = TRUE
    /\ UNCHANGED <<graph, block, outputted, path, pc>>

First(i) == \A j \in Positions : j < i => graph.tid[j] # graph.tid[i]

Last(i) == \A j \in Positions : j > i => graph.tid[j] # graph.tid[i]

(* What the two loops after the sorting erase from the path: the begin and *)
(* the end of a transaction, then what was replaced by a space holder.     *)
IsEnd(i) == First(i) \/ Last(i)

IsHolder(i) == i \in graph.init

Erasable(i) == IF pc = "ends" THEN IsEnd(i) ELSE IsHolder(i)

Sorted ==
    /\ pc = "sorting" /\ ~Unfinished
    /\ pc' = "ends"
    /\ UNCHANGED <<graph, block, edges, outputted, deleted, path, delete_flag>>

(* path.erase(path.begin() + i)                                            *)
RemoveAt(k) == [l \in 1..(Len(path) - 1) |-> IF l < k THEN path[l] ELSE path[l + 1]]

Erase ==
    /\ pc \in {"ends", "holders"}
    /\ \E k \in 1..Len(path) :
          /\ Erasable(path[k])
          /\ \A l \in 1..(k - 1) : ~Erasable(path[l])
          /\ path' = RemoveAt(k)
    /\ UNCHANGED <<graph, block, edges, outputted, deleted, delete_flag, pc>>

Erased ==
    /\ pc \in {"ends", "holders"}
    /\ \A k \in 1..Len(path) : ~Erasable(path[k])
    /\ pc' = IF pc = "ends" THEN "holders" ELSE "returned"
    /\ UNCHANGED <<graph, block, edges, outputted, deleted, path, delete_flag>>

Terminated == pc = "returned" /\ UNCHANGED vars

Next == Output \/ Decycle \/ Sorted \/ Erase \/ Erased \/ Terminated

Spec == Init /\ [][Next]_vars

(* A loop of one thread that waits for nothing.                            *)
FairSpec == Spec /\ WF_vars(Next)

-----------------------------------------------------------------------------
(* A statement that depends on another one comes after it, so the run      *)
(* without transactions sees every row version that the transactions saw.  *)
PathRespectsDependencies ==
    \A k, l \in 1..Len(path) :
        /\ <<path[k], path[l]>> \in graph.edges
        /\ path[l] \notin block[path[k]]
        => k < l

(* The reads around a statement stay next to it and in their order,        *)
(* otherwise they would see the effects of other statements.               *)
BlocksTogether ==
    \A k, l \in 1..Len(path) :
        k < l /\ path[l] \in block[path[k]] =>
            path[k] < path[l] /\ \A m \in k..l : path[m] \in block[path[k]]

(* No statement is put out twice, and none of a rolled back transaction or *)
(* of a block that was given up.  A statement that the caller excluded is  *)
(* put out only together with one of its block that was not.               *)
EachOnce ==
    \A k \in 1..Len(path) :
        /\ path[k] \notin Aborted(graph)
        /\ block[path[k]] \intersect deleted \subseteq graph.deleted
        /\ ~(block[path[k]] \subseteq graph.deleted)
        /\ \A l \in 1..Len(path) : path[k] = path[l] => k = l

(* deleted_nodes is made of whole blocks of this queue.  It is where it is *)
(* of the queue that it was collected from, and after a lock wait has      *)
(* moved the statements of another queue it need not be, see RoundTest.    *)
WholeBlocks == graph.absent = 0 /\ \A i \in graph.deleted : block[i] \subseteq graph.deleted

(* In every set of statements there is one whose block depends on none of  *)
(* the set's other blocks.                                                 *)
Acyclic(g, S) ==
    \A T \in SUBSET S :
        T # {} => \E i \in T : \A a \in block[i], b \in T \ block[i] : <<b, a>> \notin g.edges

(* Nothing is given up without need: if whole blocks were excluded and the *)
(* dependencies of the statements to sort have no cycle (and none comes    *)
(* from an excluded statement), the path has all of them but begins, ends  *)
(* and space holders.                                                      *)
AcyclicKeepsAll ==
    LET sorted == Positions \ (graph.deleted \union Aborted(graph))
    IN  /\ pc = "returned"
        /\ WholeBlocks
        /\ Acyclic(graph, sorted)
        /\ \A e \in graph.edges : e[1] \in graph.deleted => e[2] \notin sorted
        => {path[k] : k \in 1..Len(path)} =
              {i \in sorted : ~First(i) /\ ~Last(i) /\ i \notin graph.init}

Sortable(g) ==
    {i \in Positions \ (g.deleted \union Aborted(g)) : ~IsEnd(i) /\ ~IsHolder(i)}

(* Cycles never cost everything: if whole blocks were excluded, there is a *)
(* statement to sort, and no statement depends on a begin, an end, a space *)
(* holder or an excluded statement, the path is not empty.  The rounds of  *)
(* multi_stmt_round_test() make progress because of it.                    *)
SomethingIsSorted ==
    /\ pc = "returned"
    /\ WholeBlocks
    /\ Sortable(graph) # {}
    /\ \A e \in Without(graph.edges, Aborted(graph)) : e[1] \in Sortable(graph)
    => path # <<>>

(* The loop ends, cycles or not.                                           *)
Termination == <>(pc = "returned")
=============================================================================
