----------------------------- MODULE DepCheck ------------------------------
(***************************************************************************)
(* An instrumented execution against a database and its analysis:          *)
(* transactions run statement by statement, each statement within the      *)
(* reads the instrumentor puts around it, and                              *)
(* transaction_test::analyze_txn_dependency() builds a dependency_analyzer *)
(* on what they returned and asks it for anomalies.                        *)
(*                                                                         *)
(* The database is external.  It keeps the promise of one of three levels: *)
(* "serializable" locks whole tables, "snapshot" reads from a snapshot and *)
(* lets the first updater of a row win, "dirty" reads what is uncommitted. *)
(* A transaction that the level lets wait or fail takes another step here: *)
(* waiting and failing is the subject of TransTest.                        *)
(***************************************************************************)
EXTENDS DepAnalyzer

LOCAL INSTANCE Functions

CONSTANTS TxnNum,       \* trans_num
          Levels,       \* the levels of isolation looked at
          TableOf,      \* table of a row id, initial rows first
          InitRows,     \* the row ids that the tables hold at first
          Queries,      \* sets of rows of a table, a SELECT returns those there
          Changed,      \* the rows that UPDATE and DELETE look for
          BlockNum,     \* bound: statements of all transactions together
          OwnNum        \* bound: statements of one transaction

Txns == 1 .. TxnNum

RowPool == DOMAIN TableOf

Gone == 0               \* the version of a row that is not there

ASSUME DepAssumption ==
    /\ TxnNum \in Nat \ {0} /\ BlockNum \in Nat /\ OwnNum \in Nat
    /\ Levels \subseteq {"serializable", "snapshot", "dirty"}
    /\ InitRows \union Changed \subseteq RowPool
    /\ RowPool = 1 .. Cardinality(RowPool) /\ Cardinality(RowPool) \in Nat
    /\ \A rs \in Queries : /\ rs \subseteq RowPool
                           /\ \E r \in rs : \A q \in rs : TableOf[q] = TableOf[r]

VARIABLES level,        \* what the database promises
          store,        \* version of every row, as committed
          snap,         \* the transactions' snapshots
          pending,      \* what a transaction wrote: row to version
          status,       \* "none", "active", TXN_COMMIT or TXN_ABORT
          stmts,        \* real_tid_queue, real_stmt_usage, real_output_queue
          write_op_id,  \* version key of the last write
          row_id,       \* rows handed out by the INSERT statements
          blocks,       \* statements a transaction ran, without the instrumentation
          da            \* the analysis, once it is made

vars == <<level, store, snap, pending, status, stmts, write_op_id, row_id, blocks, da>>

NoWrites == [r \in {} |-> Gone]

Overlay(f, g) == [r \in DOMAIN f |-> IF r \in DOMAIN g THEN g[r] ELSE f[r]]

Init ==
    /\ level \in Levels
    /\ store = [r \in RowPool |-> IF r \in InitRows THEN r ELSE Gone]
    /\ snap = [t \in Txns |-> store]
    /\ pending = [t \in Txns |-> NoWrites]
    /\ status = [t \in Txns |-> "none"]
    /\ stmts = <<>>
    /\ write_op_id = Cardinality(RowPool)
    /\ row_id = InitRows
    /\ blocks = [t \in Txns |-> 0]
    /\ da = [phase |-> "running"]

Active == {t \in Txns : status[t] = "active"}

Others(t) == Active \ {t}

Touched(t) == {TableOf[r] : r \in DOMAIN pending[t]}

ReadTables(t) == {stmts[i].table : i \in {i \in DOMAIN stmts : stmts[i].tid = t}}

(* A database takes the snapshot when the transaction first reads or       *)
(* writes.                                                                 *)
Idle(t) == Cardinality({i \in DOMAIN stmts : stmts[i].tid = t}) = 1

Snapshot(t) == IF level = "snapshot" /\ Idle(t) THEN store ELSE snap[t]

(* What transaction t sees.                                                *)
Visible(t) ==
    LET dirty == [r \in UNION {DOMAIN pending[u] : u \in Active} |->
                      pending[CHOOSE u \in Active : r \in DOMAIN pending[u]][r]]
    IN  CASE level = "serializable" -> Overlay(store, pending[t])
          [] level = "snapshot"     -> Overlay(Snapshot(t), pending[t])
          [] level = "dirty"        -> Overlay(store, dirty)

(* Whether the level lets t read the tables tabs, or write the rows rs.    *)
MayRead(t, tabs) ==
    level = "serializable" => \A u \in Others(t) : Touched(u) \intersect tabs = {}

MayWrite(t, rs) ==
    /\ \A u \in Others(t) : DOMAIN pending[u] \intersect rs = {}
    /\ level = "serializable" =>
          \A u \in Others(t) : ReadTables(u) \intersect {TableOf[r] : r \in rs} = {}
    /\ level = "snapshot" => \A r \in rs : store[r] = Snapshot(t)[r]

RowsOf(view, rs) == {[row |-> r, ver |-> view[r]] : r \in {q \in rs : view[q] # Gone}}

InTable(tab) == {r \in RowPool : TableOf[r] = tab}

Stmt(t, use, tab, out) == [tid |-> t, use |-> use, table |-> tab, out |-> out]

VersionSetRead(t, tab) ==
    Stmt(t, "VERSION_SET_READ", tab, RowsOf(Visible(t), InTable(tab)))

-----------------------------------------------------------------------------
(* The transactions are numbered as they begin: the analyzer treats their  *)
(* numbers alike.                                                          *)
Start(t) ==
    /\ status[t] = "none" /\ \A u \in 1 .. t - 1 : status[u] # "none"
    /\ da.phase = "running"
    /\ status' = [status EXCEPT ![t] = "active"]
    /\ stmts' = Append(stmts, Stmt(t, "INIT_TYPE", "", {}))
    /\ UNCHANGED <<level, store, snap, pending, write_op_id, row_id, blocks, da>>

MayRun(t) ==
    /\ t \in Active
    /\ blocks[t] < OwnNum /\ FoldFunction(+, 0, blocks) < BlockNum

Run(t, block) ==
    /\ stmts' = stmts \o block
    /\ blocks' = [blocks EXCEPT ![t] = @ + 1]
    /\ snap' = [snap EXCEPT ![t] = Snapshot(t)]
    /\ UNCHANGED <<level, store, status, da>>

Write(t, new) ==
    /\ pending' = [pending EXCEPT ![t] = [r \in DOMAIN @ \union DOMAIN new |->
                                              IF r \in DOMAIN new THEN new[r] ELSE @[r]]]

Select(t, rs) ==
    LET tab == TableOf[CHOOSE r \in rs : TRUE]
        out == RowsOf(Visible(t), rs)
    IN  /\ MayRun(t)
        /\ MayRead(t, {tab})
        /\ Run(t, <<VersionSetRead(t, tab), Stmt(t, "SELECT_READ", tab, out)>>)
        /\ UNCHANGED <<pending, write_op_id, row_id>>

(* UPDATE: the rows before it, the rows it left with its version key.      *)
Update(t, r) ==
    LET tab == TableOf[r]
        old == RowsOf(Visible(t), {r})
        new == {[row |-> r, ver |-> write_op_id + 1]}
    IN  /\ MayRun(t)
        /\ MayRead(t, {tab})
        /\ old # {} /\ MayWrite(t, {r})
        /\ write_op_id' = write_op_id + 1
        /\ Write(t, [q \in {r} |-> write_op_id + 1])
        /\ Run(t, <<VersionSetRead(t, tab), Stmt(t, "BEFORE_WRITE_READ", tab, old),
                    Stmt(t, "UPDATE_WRITE", tab, {}), Stmt(t, "AFTER_WRITE_READ", tab, new)>>)
        /\ UNCHANGED row_id

(* DELETE: the rows before it.                                             *)
Delete(t, r) ==
    LET tab == TableOf[r]
        old == RowsOf(Visible(t), {r})
    IN  /\ MayRun(t)
        /\ MayRead(t, {tab})
        /\ old # {} /\ MayWrite(t, {r})
        /\ Write(t, [q \in {r} |-> Gone])
        /\ Run(t, <<VersionSetRead(t, tab), Stmt(t, "BEFORE_WRITE_READ", tab, old),
                    Stmt(t, "DELETE_WRITE", tab, {})>>)
        /\ UNCHANGED <<write_op_id, row_id>>

(* INSERT: the row it left; its own table is no table it reads.            *)
Insert(t, r) ==
    LET tab == TableOf[r]
    IN  /\ MayRun(t)
        /\ MayRead(t, {tab})
        /\ r \notin row_id /\ MayWrite(t, {r})
        /\ row_id' = row_id \union {r}
        /\ write_op_id' = write_op_id + 1
        /\ Write(t, [q \in {r} |-> write_op_id + 1])
        /\ Run(t, <<Stmt(t, "INSERT_WRITE", tab, {}),
                    Stmt(t, "AFTER_WRITE_READ", tab, {[row |-> r, ver |-> write_op_id + 1]})>>)

Finish(t, st) ==
    /\ t \in Active
    /\ status' = [status EXCEPT ![t] = st]
    /\ store' = IF st = "TXN_COMMIT" THEN Overlay(store, pending[t]) ELSE store
    /\ pending' = [pending EXCEPT ![t] = NoWrites]
    /\ stmts' = Append(stmts, Stmt(t, "INIT_TYPE", "", {}))
    /\ UNCHANGED <<level, snap, write_op_id, row_id, blocks, da>>

(* The constructor of the dependency_analyzer and the checks that          *)
(* analyze_txn_dependency() makes; the constructor may throw.              *)
History == [stmts |-> stmts, num |-> TxnNum, status |-> status,
            init  |-> {[row |-> r, ver |-> r] : r \in InitRows}]

Analysis(H) ==
    LET g == DependencyGraph(H)
        sorted == SortedTxns(H, g)
        g1a == CheckG1a(H, g)
        g1b == CheckG1b(H)
    IN  IF InstrumentErr(H) THEN [phase |-> "INSTRUMENT_ERR"]
        ELSE IF MissedWrite(H) THEN [phase |-> "missed write"]
        ELSE [phase  |-> "analyzed",
              graph  |-> g,
              bug    |-> CASE g1a -> "G1a"
                           [] ~g1a /\ g1b -> "G1b"
                           [] ~g1a /\ ~g1b /\ CheckG1c(H, g) -> "G1c"
                           [] OTHER -> "none",
              sorted |-> sorted.sorted,
              cycle  |-> sorted.left]

Analyze ==
    /\ da.phase = "running"
    /\ \A t \in Txns : status[t] \in {"TXN_COMMIT", "TXN_ABORT"}
    /\ da' = Analysis(History)
    /\ UNCHANGED <<level, store, snap, pending, status, stmts, write_op_id, row_id, blocks>>

Done == da.phase # "running" /\ UNCHANGED vars

Next ==
    \/ \E t \in Txns :
        \/ Start(t)
        \/ \E rs \in Queries : Select(t, rs)
        \/ \E r \in Changed : Update(t, r) \/ Delete(t, r)
        \/ \E r \in RowPool : Insert(t, r)
        \/ \E st \in {"TXN_COMMIT", "TXN_ABORT"} : Finish(t, st)
    \/ Analyze
    \/ Done

Spec == Init /\ [][Next]_vars
-----------------------------------------------------------------------------
Analyzed == da.phase = "analyzed"

(* The oracle raises no false alarm: of an execution at a level that       *)
(* forbids the anomalies the constructor throws nothing ("BUG: Cannot find *)
(* the corresponding write") and none of the three checks of               *)
(* analyze_txn_dependency() reports one.                                   *)
NoFalseAlarm ==
    level # "dirty" => /\ da.phase \in {"running", "analyzed"}
                       /\ Analyzed => da.bug = "none"

(* The versions that a transaction saw and another one wrote.              *)
Seen(t) ==
    {x \in UNION {stmts[i].out : i \in Of(History, t)} :
        \E j \in Stmts(History) : stmts[j].tid # t /\ stmts[j].use = "AFTER_WRITE_READ"
                                  /\ x \in stmts[j].out}

WriteOf(x) == CHOOSE j \in DOMAIN stmts : stmts[j].use = "AFTER_WRITE_READ" /\ x \in stmts[j].out

Intermediate(x) ==
    \E k \in DOMAIN stmts : /\ k > WriteOf(x) /\ stmts[k].tid = stmts[WriteOf(x)].tid
                            /\ stmts[k].use = "BEFORE_WRITE_READ" /\ x \in stmts[k].out

(* The oracle misses nothing it looks for: when no check reports           *)
(* anything, no committed transaction saw a row as an aborted transaction  *)
(* or as an unfinished one left it, whatever the database allows.          *)
NothingMissed ==
    Analyzed /\ da.bug = "none" =>
        \A t \in Committed(History) \intersect Txns : \A x \in Seen(t) :
            /\ status[stmts[WriteOf(x)].tid] = "TXN_COMMIT"
            /\ ~Intermediate(x)

(* Snapshot isolation as check_GSIa() judges it (the check is written and  *)
(* not called): a transaction that reads or replaces what another one      *)
(* wrote started after the other's end, counting from its first read or    *)
(* write.                                                                  *)
SnapshotsFollowCommits ==
    Analyzed /\ level = "snapshot" => ~CheckGSIa(History, da.graph)

(* Rows that an execution both inserts and deletes.                        *)
ComeAndGo ==
    {r \in RowPool \ InitRows :
        \E i \in DOMAIN stmts : stmts[i].use = "DELETE_WRITE" /\ r \in Keys(stmts[i - 1].out)}

(* The graph orders a serializable execution: check_txn_graph_cycle()      *)
(* finds no cycle, and the order in which the committed statements were    *)
(* executed is one of those get_all_topo_sort_path() gives, so that they   *)
(* can all be executed once more -- as long as no row comes and goes.      *)
SerializableIsOrdered ==
    Analyzed /\ level = "serializable" /\ ComeAndGo = {} =>
        /\ da.cycle = {}
        /\ InOrder(History, Sortable(History)) \in
               AllTopoSortPaths(History, StmtDependencyGraph(History), Sortable(History))

(* "if it is emtpy, the row is deleted", "if it is emtpy, the row is not   *)
(* inserted yet": a version set without the rows of a deletion is read     *)
(* after it, and one without the rows of an insertion before it, so the    *)
(* predicate edges of a serializable execution form no cycle.              *)
PredicateEdgesOrder == Analyzed /\ level = "serializable" => da.cycle = {}

(* "A history H exhibits phenomenon G1b if it contains a committed         *)
(* transaction Tj that has read a version of object x [...]".              *)
IntermediateReadIsCommitted ==
    Analyzed /\ da.bug = "G1b" =>
        \E t \in Committed(History) \intersect Txns : \E x \in Seen(t) : Intermediate(x)
=============================================================================
