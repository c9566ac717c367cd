---------------------------- MODULE DepAnalyzer ----------------------------
(***************************************************************************)
(* dependency_analyzer: the constructor, which builds the dependency       *)
(* graphs of the transactions and of the statements from the outputs of an *)
(* instrumented execution, and the checks for Adya's phenomena on them.    *)
(*                                                                         *)
(* An execution H is a record of what the constructor is given:            *)
(*   H.stmts    the executed statements (f_txn_id_queue, f_stmt_usage and  *)
(*              f_stmt_output), each [tid, use, table, out],               *)
(*   H.init     the rows of the initial tables,                            *)
(*   H.status   f_txn_status, for the transactions 1 .. H.num.             *)
(* An output is a set of rows [row |-> primary key, ver |-> version key]:  *)
(* the version key is written anew by every statement, so rows with equal  *)
(* keys are equal and stand for their hashes.  Statements are named by     *)
(* their positions, which start at 1; position 0 stands for the code's -1. *)
(* A graph is a set of edges <<from, to, dependency_type>>.                *)
(***************************************************************************)
EXTENDS Naturals, Sequences, FiniteSets, FiniteSetsExt

Stmts(H) == DOMAIN H.stmts

(* The transaction the initial rows are said to be written by.             *)
InitTxn(H) == H.num + 1

AllTxns(H) == 1 .. InitTxn(H)

Tid(H, i) == H.stmts[i].tid

Use(H, i) == H.stmts[i].use

Committed(H) == {t \in 1 .. H.num : H.status[t] = "TXN_COMMIT"} \union {InitTxn(H)}

-----------------------------------------------------------------------------
(* Mutant: the initial rows are not put into the history.                  *)
MutInitOps(H, r) == {}

(* The operations on one row, in execution order by idx: what              *)
(* h.change_history holds for it, an op_list.                              *)
InitOps(H, r) ==
    {[use |-> "AFTER_WRITE_READ", ver |-> x.ver, tid |-> InitTxn(H), idx |-> 0] :
         x \in {y \in H.init : y.row = r}}

StmtOps(H, r) ==
    UNION {{[use |-> Use(H, i), ver |-> x.ver, tid |-> Tid(H, i), idx |-> i] :
                x \in {y \in H.stmts[i].out : y.row = r}} : i \in Stmts(H)}

Ops(H, r) == InitOps(H, r) \union StmtOps(H, r)

RowIds(H) == {x.row : x \in H.init} \union UNION {{x.row : x \in H.stmts[i].out} : i \in Stmts(H)}

(* The reads that get a write-read edge: every operation but the writes'   *)
(* own and the initial ones.                                               *)
Reads(l) == {o \in l : o.idx > 0 /\ o.use # "AFTER_WRITE_READ"}

(* The writes before o that left the version o has seen, and the nearest.  *)
WritesSeen(l, o) ==
    {w \in l : w.use = "AFTER_WRITE_READ" /\ w.ver = o.ver /\ w.idx < o.idx}

NearestWrite(l, o) == {w \in WritesSeen(l, o) : \A v \in WritesSeen(l, o) : v.idx <= w.idx}

Overwrites(l) == {o \in l : o.idx > 0 /\ o.use = "BEFORE_WRITE_READ"}

(* build_WR_dependency(): from the nearest write of the version to a read. *)
WROps(l) == UNION {{<<w, o, "WRITE_READ">> : w \in NearestWrite(l, o)} : o \in Reads(l)}

(* build_WW_dependency(): from the nearest write of the version that a     *)
(* write replaces.                                                         *)
WWOps(l) == UNION {{<<w, o, "WRITE_WRITE">> : w \in NearestWrite(l, o)} : o \in Overwrites(l)}

(* build_RW_dependency(): from every read of the version that a write      *)
(* replaces, wherever it is in the list.                                   *)
RWOps(l) ==
    UNION {{<<w, o, "READ_WRITE">> :
               w \in {v \in l : /\ v.use \in {"SELECT_READ", "AFTER_WRITE_READ"}
                                /\ v.ver = o.ver}} : o \in Overwrites(l)}

ItemOps(H) ==
    UNION {LET l == Ops(H, r) IN WROps(l) \union WWOps(l) \union RWOps(l) : r \in RowIds(H)}

(* "BUG: Cannot find the corresponding write": a read saw a version that   *)
(* no earlier write left.                                                  *)
MissedWrite(H) ==
    \E r \in RowIds(H) : LET l == Ops(H, r) IN \E o \in Reads(l) : WritesSeen(l, o) = {}

-----------------------------------------------------------------------------
(* The predicate dependencies, from the reads of whole tables.             *)
Original == {"SELECT_READ", "UPDATE_WRITE", "INSERT_WRITE", "DELETE_WRITE"}

VersionSetReads(H) == {i \in Stmts(H) : Use(H, i) = "VERSION_SET_READ"}

Keys(out) == {x.row : x \in out}

(* build_VS_dependency(): a version set that holds a version of an update  *)
(* or an insertion, or that shares no row with those a deletion removed    *)
(* from its table, comes after the write.                                  *)
VersionSet(H) ==
    {p \in Stmts(H) \X VersionSetReads(H) :
        LET j == p[1]
            i == p[2]
        IN  \/ /\ Use(H, j) \in {"UPDATE_WRITE", "INSERT_WRITE"}
               /\ H.stmts[i].out \intersect H.stmts[j + 1].out # {}
            \/ /\ Use(H, j) = "DELETE_WRITE"
               /\ H.stmts[j - 1].table = H.stmts[i].table
               /\ H.stmts[j - 1].out # {}
               /\ Keys(H.stmts[i].out) \intersect Keys(H.stmts[j - 1].out) = {}}

(* The statement a version set was read for, or the read behind it.        *)
NextOriginal(H, i) == Min({k \in i + 1 .. Len(H.stmts) : Use(H, k) \in Original})

OriginalIndex(H, i) ==
    LET k == NextOriginal(H, i)
    IN  IF Use(H, k) \in {"UPDATE_WRITE", "INSERT_WRITE"} THEN k + 1 ELSE k

(* Mutant: insertions are looked at without regard to their table.         *)
MutOverwritten(H) ==
    {p \in VersionSetReads(H) \X Stmts(H) :
        LET i == p[1]
            j == p[2]
        IN  \/ /\ Use(H, j) \in {"UPDATE_WRITE", "DELETE_WRITE"}
               /\ H.stmts[i].out \intersect H.stmts[j - 1].out # {}
            \/ /\ Use(H, j) = "INSERT_WRITE"
               /\ H.stmts[j + 1].out # {}
               /\ Keys(H.stmts[i].out) \intersect Keys(H.stmts[j + 1].out) = {}}

(* build_OW_dependency(): a version set that holds a version that an       *)
(* update or a deletion replaces, or that shares no row with those an      *)
(* insertion added to its table, comes before the write.                   *)
Overwritten(H) ==
    {p \in VersionSetReads(H) \X Stmts(H) :
        LET i == p[1]
            j == p[2]
        IN  \/ /\ Use(H, j) \in {"UPDATE_WRITE", "DELETE_WRITE"}
               /\ H.stmts[i].out \intersect H.stmts[j - 1].out # {}
            \/ /\ Use(H, j) = "INSERT_WRITE"
               /\ H.stmts[j + 1].table = H.stmts[i].table
               /\ H.stmts[j + 1].out # {}
               /\ Keys(H.stmts[i].out) \intersect Keys(H.stmts[j + 1].out) = {}}

-----------------------------------------------------------------------------
(* build_start_dependency(): a transaction starts with its second          *)
(* statement, or strictly with its first, and ends with its last.          *)
Of(H, t) == {i \in Stmts(H) : Tid(H, i) = t}

StrictBegin(H, t) == IF Of(H, t) = {} THEN 0 ELSE Min(Of(H, t))

Inner(H, t) == Of(H, t) \ {StrictBegin(H, t)}

(* Mutant: the first statement counts as the begin.                        *)
MutBegin(H, t) == StrictBegin(H, t)

Begin(H, t) == IF Inner(H, t) = {} THEN 0 ELSE Min(Inner(H, t))

End(H, t) == IF Inner(H, t) = {} THEN 0 ELSE Max(Inner(H, t))

Begins(H) == [t \in AllTxns(H) |-> Begin(H, t)]

StrictBegins(H) == [t \in AllTxns(H) |-> StrictBegin(H, t)]

StartPairs(H, begin) ==
    LET end == [t \in AllTxns(H) |-> End(H, t)]
    IN  {p \in AllTxns(H) \X AllTxns(H) : p[1] # p[2] /\ end[p[1]] < begin[p[2]]}

(* The dependency graph of the transactions.                               *)
DependencyGraph(H) ==
    LET txn(i) == Tid(H, i)
        item   == {<<e[1].tid, e[2].tid, e[3]>> : e \in ItemOps(H)}
        vs     == {<<txn(p[1]), txn(p[2]), "VERSION_SET_DEPEND">> : p \in VersionSet(H)}
        ow     == {<<txn(p[1]), txn(p[2]), "OVERWRITE_DEPEND">> : p \in Overwritten(H)}
        start  == {<<p[1], p[2], "START_DEPEND">> : p \in StartPairs(H, Begins(H))}
        strict == {<<p[1], p[2], "STRICT_START_DEPEND">> : p \in StartPairs(H, StrictBegins(H))}
    IN  {e \in item \union vs \union ow \union start \union strict : e[1] # e[2]}

-----------------------------------------------------------------------------
(* build_stmt_instrument_dependency(): the partner of an instrumented      *)
(* read, and the queues it refuses.                                        *)
InstrumentPairs(H) ==
    {<<i, i + 1>> : i \in {i \in Stmts(H) : Use(H, i) = "BEFORE_WRITE_READ"}}
    \union {<<i - 1, i>> : i \in {i \in Stmts(H) : Use(H, i) = "AFTER_WRITE_READ"}}
    \union {<<i, NextOriginal(H, i)>> : i \in VersionSetReads(H)}

InstrumentErr(H) ==
    \E i \in Stmts(H) :
        \/ /\ Use(H, i) = "BEFORE_WRITE_READ"
           /\ \/ i = Len(H.stmts)
              \/ Tid(H, i + 1) # Tid(H, i)
              \/ Use(H, i + 1) \notin {"UPDATE_WRITE", "DELETE_WRITE"}
        \/ /\ Use(H, i) = "AFTER_WRITE_READ"
           /\ \/ i = 1
              \/ Tid(H, i - 1) # Tid(H, i)
              \/ Use(H, i - 1) \notin {"UPDATE_WRITE", "INSERT_WRITE"}
        \/ /\ Use(H, i) = "VERSION_SET_READ"
           /\ \/ \A k \in i + 1 .. Len(H.stmts) : Use(H, k) \notin Original
              \/ \E m \in i + 1 .. NextOriginal(H, i) : Tid(H, m) # Tid(H, i)

(* build_stmt_inner_dependency(), build_stmt_start_dependency().           *)
InnerPairs(H) == {p \in Stmts(H) \X Stmts(H) : p[1] < p[2] /\ Tid(H, p[1]) = Tid(H, p[2])}

StmtStartPairs(H, begin) ==
    LET start == StartPairs(H, begin)
    IN  {p \in Stmts(H) \X Stmts(H) : p[1] < p[2] /\ <<Tid(H, p[1]), Tid(H, p[2])>> \in start}

(* The dependency graph of the statements.  An overwrite is ordered after  *)
(* the statement the version set was read for, and before the read in      *)
(* front of an update or a deletion; a version set comes after the read    *)
(* behind an update or an insertion.                                       *)
StmtDependencyGraph(H) ==
    LET item == {<<e[1].idx, e[2].idx, e[3]>> : e \in {f \in ItemOps(H) : f[1].idx > 0}}
        vs   == {<<IF Use(H, p[1]) = "DELETE_WRITE" THEN p[1] ELSE p[1] + 1, p[2],
                   "VERSION_SET_DEPEND">> : p \in VersionSet(H)}
        ow   == {<<OriginalIndex(H, p[1]),
                   IF Use(H, p[2]) = "INSERT_WRITE" THEN p[2] ELSE p[2] - 1,
                   "OVERWRITE_DEPEND">> : p \in Overwritten(H)}
        of(S, dt) == {<<p[1], p[2], dt>> : p \in S}
    IN  item \union vs \union ow
        \union of(InstrumentPairs(H), "INSTRUMENT_DEPEND")
        \union of(InnerPairs(H), "INNER_DEPEND")
        \union of(StmtStartPairs(H, Begins(H)), "START_DEPEND")
        \union of(StmtStartPairs(H, StrictBegins(H)), "STRICT_START_DEPEND")

-----------------------------------------------------------------------------
(* The checks.  A reduced graph is a set of pairs.                         *)
EdgesOf(g, types) == {<<e[1], e[2]>> : e \in {f \in g : f[3] \in types}}

Within(e, S) == {p \in e : p[1] \in S /\ p[2] \in S}

(* reduce_graph_indegree(): takes away, over and over, a node without an   *)
(* incoming edge, together with its outgoing edges.  The answer is whether *)
(* a node is left; the argument is left with the edges that are.           *)
Indegree0(e, left) == {n \in left : \A p \in e : p[2] # n}

TakeAway(x) ==
    LET zero == Indegree0(x.edges, x.left)
        z    == Min(zero)
    IN  IF zero = {} THEN x
        ELSE [left |-> x.left \ {z}, edges |-> {p \in x.edges : p[1] # z}]

ReduceIn(nodes, e) ==
    LET after[k \in 0 .. Cardinality(nodes)] ==
            IF k = 0 THEN [left |-> nodes, edges |-> e] ELSE TakeAway(after[k - 1])
    IN  after[Cardinality(nodes)]

(* reduce_graph_outdegree(), the same with nodes without outgoing edges.   *)
Flip(e) == {<<p[2], p[1]>> : p \in e}

ReduceOut(nodes, e) ==
    LET x == ReduceIn(nodes, Flip(e)) IN [left |-> x.left, edges |-> Flip(x.edges)]

(* Mutant: aborted transactions that have read committed writes.           *)
MutCheckG1a(H, g) ==
    \E t \in 1 .. H.num : \E u \in Committed(H) :
        H.status[t] = "TXN_ABORT" /\ <<u, t, "WRITE_READ">> \in g

(* Aborted reads.                                                          *)
CheckG1a(H, g) ==
    \E t \in 1 .. H.num : \E u \in Committed(H) :
        H.status[t] = "TXN_ABORT" /\ <<t, u, "WRITE_READ">> \in g

(* Intermediate reads: before transaction tid ends, another one sees the   *)
(* version it wrote, and it writes the row once more.                      *)
CheckG1b(H) ==
    \E r \in RowIds(H) : LET l == Ops(H, r) IN \E w \in l :
        LET later == {o \in l : w.idx < o.idx /\ o.idx <= End(H, w.tid)}
        IN  /\ w.use = "AFTER_WRITE_READ"
            /\ \E o \in later : o.tid # w.tid /\ o.ver = w.ver
            /\ \E o \in later : o.tid = w.tid /\ o.use = "BEFORE_WRITE_READ"

CommittedEdges(H, g, types) == Within(EdgesOf(g, types), Committed(H))

HasCycle(H, e) == ReduceOut(AllTxns(H), ReduceIn(AllTxns(H), e).edges).left # {}

(* Circular information flow.                                              *)
CheckG1c(H, g) == HasCycle(H, CommittedEdges(H, g, {"WRITE_WRITE", "WRITE_READ"}))

(* Item anti-dependency cycles.                                            *)
CheckG2item(H, g) ==
    HasCycle(H, CommittedEdges(H, g, {"WRITE_WRITE", "WRITE_READ", "READ_WRITE"}))

(* Interference.                                                           *)
CheckGSIa(H, g) ==
    \E p \in EdgesOf(g, {"WRITE_WRITE", "WRITE_READ"}) : <<p[1], p[2], "START_DEPEND">> \notin g

(* Missed effects: the anti-dependency edges are put back one at a time,   *)
(* always into the graph as the reductions before have left it.            *)
Types(g, p) == {e[3] : e \in {f \in g : f[1] = p[1] /\ f[2] = p[2]}}

Lesser(p, q) == p[1] < q[1] \/ (p[1] = q[1] /\ p[2] < q[2])

CheckGSIb(H, g) ==
    LET all   == CommittedEdges(H, g, {"WRITE_WRITE", "WRITE_READ", "READ_WRITE",
                                       "STRICT_START_DEPEND"})
        in    == ReduceIn(AllTxns(H), all)
        out   == ReduceOut(AllTxns(H), in.edges)
        rw    == {p \in out.edges : Types(g, p) = {"READ_WRITE"}}
        tried == FoldSet(LAMBDA q, x :
                     IF x.found \/ x.todo = {} THEN x
                     ELSE LET p == CHOOSE p \in x.todo : \A o \in x.todo : o = p \/ Lesser(p, o)
                              y == ReduceIn(AllTxns(H), x.edges \union {p})
                          IN  [found |-> y.left # {},
                               todo  |-> x.todo \ {p},
                               edges |-> IF y.left # {} THEN y.edges ELSE y.edges \ {p}],
                     [found |-> FALSE, todo |-> rw, edges |-> out.edges \ rw], rw)
    IN  in.left # {} /\ out.left # {} /\ tried.found

(* check_txn_graph_cycle(): the committed transactions in an order that    *)
(* the graph allows, and those that are left when a cycle stops it.        *)
SortedTxns(H, g) ==
    LET e == EdgesOf(g, {"WRITE_READ", "WRITE_WRITE", "READ_WRITE", "VERSION_SET_DEPEND",
                         "OVERWRITE_DEPEND"})
        txns == {t \in 1 .. H.num : H.status[t] # "TXN_ABORT"}
    IN  FoldSet(LAMBDA n, x :
                    LET zero == Indegree0(Within(e, x.left), x.left)
                    IN  IF zero = {} THEN x
                        ELSE LET z == Min(zero)
                             IN  [left |-> x.left \ {z}, sorted |-> Append(x.sorted, z)],
                [left |-> txns, sorted |-> <<>>], txns)

-----------------------------------------------------------------------------
(* The statement that a read was put around; a statement and its reads are *)
(* what get_instrumented_stmt_set() gathers.                               *)
Around(H, i) ==
    CASE Use(H, i) = "AFTER_WRITE_READ" -> i - 1
      [] Use(H, i) \in {"VERSION_SET_READ", "BEFORE_WRITE_READ"} -> NextOriginal(H, i)
      [] OTHER -> i

Block(H, i) == {j \in Stmts(H) : Around(H, j) = Around(H, i)}

(* get_all_topo_sort_path(): what may be executed once more.  Statements   *)
(* of transactions that did not commit and those without a use are left    *)
(* out, as are the statements that topological_sort_path() gives up (see   *)
(* TopoSort) and the start and inner edges.                                *)
Sortable(H) ==
    {i \in Stmts(H) : Use(H, i) # "INIT_TYPE" /\ Tid(H, i) \in Committed(H)}

InOrder(H, S) == SelectSeq([i \in Stmts(H) |-> i], LAMBDA i : i \in S)

(* recur_topo_sort(): every order of the kept statements, block by block,  *)
(* in which no block comes before one it depends on.                       *)
AllTopoSortPaths(H, g, kept) ==
    LET edges == EdgesOf(g, {"WRITE_READ", "WRITE_WRITE", "READ_WRITE", "VERSION_SET_DEPEND",
                             "OVERWRITE_DEPEND", "INSTRUMENT_DEPEND"})
        ready(S) == {b \in {Block(H, i) : i \in S} :
                        \A p \in edges : p[2] \in b => p[1] \notin S \ b}
        paths[S \in SUBSET kept] ==
            IF ready(S) = {} THEN {<<>>}
            ELSE UNION {{InOrder(H, b) \o p : p \in paths[S \ b]} : b \in ready(S)}
    IN  paths[kept]
=============================================================================
