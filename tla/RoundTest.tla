----------------------------- MODULE RoundTest -----------------------------
(***************************************************************************)
(* transaction_test::multi_stmt_round_test(): the rounds of one TxCheck    *)
(* test case.  Each round takes a path through the dependency graph of the *)
(* first run, turns every other statement into a space holder, schedules   *)
(* and instruments the rest anew until the path of the new run has all of  *)
(* it, and compares the transactions with a run of the path without        *)
(* transactions.                                                           *)
(*                                                                         *)
(* A queue entry is what stmt_queue, tid_queue and stmt_use hold at one    *)
(* index; positions start at 1.  An instrumented read carries the name of  *)
(* the statement it was made for.  trans_test() is one step here: its real *)
(* schedule keeps the order of each transaction (TransTest), and a path    *)
(* of topological_sort_path() has whole blocks, each once (TopoSort).      *)
(***************************************************************************)
EXTENDS InstrumentedSets, Sequences, SequencesExt, FiniteSets

CONSTANTS Tids,
          Basics,       \* the generated statements
          Shape,        \* the stmt_usages that the instrumentor puts for each
          Cases         \* the schedules that assign_txn_id() may choose, each with what
                        \* may happen in its runs: lock waits, which reorder, and
                        \* statements that are skipped in an instrumented run

Reads == {"before", "after", "version"}

Writes == {"select", "update", "insert", "delete"}

ASSUME ShapeAssumption ==
    \A b \in Basics : /\ Shape[b] \in Seq(Reads \union Writes)
                      /\ \E i \in DOMAIN Shape[b] : Shape[b][i] \in Writes

Entries == [tid : Tids, stmt : Basics \union {"begin", "end", "holder"},
            use : Reads \union Writes \union {"init"}]

ASSUME CasesAssumption ==
    Cases \subseteq [queue : Seq(Entries), waits : BOOLEAN, late : BOOLEAN]

Holder(t) == [tid |-> t, stmt |-> "holder", use |-> "init"]

IsHolder(e) == e.stmt = "holder"

(* stmt_id(tid_queue, i)                                                   *)
Id(q, i) == <<q[i].tid, Cardinality({j \in 1..i : q[j].tid = q[i].tid})>>

(* instrumentor::instrumentor()                                            *)
Instrument(q) ==
    FlattenSeq([i \in DOMAIN q |->
        IF q[i].stmt \in Basics
        THEN [k \in DOMAIN Shape[q[i].stmt] |-> [q[i] EXCEPT !.use = Shape[q[i].stmt][k]]]
        ELSE <<[q[i] EXCEPT !.use = "init"]>>])

(* clean_instrument()                                                      *)
Clean(q) == SelectSeq(q, LAMBDA e : e.use \notin Reads)

(* build_stmt_instrument_dependency(): the statement that a read belongs   *)
(* to, 0 where it is an INSTRUMENT_ERR.                                    *)
Partner(q, i) ==
    LET near(j, uses) ==
            IF j \in DOMAIN q /\ q[j].tid = q[i].tid /\ q[j].use \in uses THEN j ELSE 0
        normal == SelectInSubSeq(q, i + 1, Len(q), LAMBDA e : e.use \in Writes \/ e.tid # q[i].tid)
    IN  CASE q[i].use = "before" -> near(i + 1, {"update", "delete"})
          [] q[i].use = "after" -> near(i - 1, {"update", "insert"})
          [] q[i].use = "version" -> near(normal, Writes)

ReadPositions(q) == {i \in DOMAIN q : q[i].use \in Reads}

InstrumentErr(q) == \E i \in ReadPositions(q) : Partner(q, i) = 0

(* The INSTRUMENT_DEPEND edges, and get_instrumented_stmt_set() of them,   *)
(* that is InstrumentedSet(Pairs(q), i), the statement with all its reads. *)
Pairs(q) ==
    {IF q[i].use = "after" THEN <<Partner(q, i), i>> ELSE <<i, Partner(q, i)>> : i \in ReadPositions(q)}

Blocks(q) ==
    LET basic == [i \in DOMAIN q |-> IF q[i].use \in Reads THEN Partner(q, i) ELSE i]
    IN  [i \in DOMAIN q |-> {j \in DOMAIN q : basic[j] = basic[i]}]

VARIABLE faults         \* what may happen in the runs of the test case

(* A lock wait: the transaction of position p is blocked there by one that *)
(* has executed a statement, and goes on after the end of that one, at     *)
(* position r.  A run has at most one.                                     *)
Delayed(q, p, r) ==
    LET waits(e) == e.tid = q[p].tid
    IN  SubSeq(q, 1, p - 1)
        \o SelectSeq(SubSeq(q, p, r), LAMBDA e : ~waits(e))
        \o SelectSeq(SubSeq(q, p, r), waits)
        \o SubSeq(q, r + 1, Len(q))

Delays(q) ==
    {q} \union
    {Delayed(q, w[1], w[2]) : w \in
        {w \in (DOMAIN q) \X (DOMAIN q) :
            /\ faults.waits
            /\ w[1] < w[2] /\ q[w[1]].tid # q[w[2]].tid
            /\ q[w[1]].stmt \in Basics /\ q[w[2]].stmt = "end"
            /\ \E j \in 1..(w[1] - 1) : q[j].tid = q[w[2]].tid /\ q[j].stmt \in Basics}}

Skipped(q, S) == [i \in DOMAIN q |-> IF i \in S THEN Holder(q[i].tid) ELSE q[i]]

Data(q) == {i \in DOMAIN q : q[i].stmt \in Basics}

(* The real queues of trans_test(), and where block_scheduling() ends: it  *)
(* repeats trans_test() with the real queue until nothing changes.         *)
Scheduled(q) == UNION {{Skipped(d, S) : S \in SUBSET Data(d)} : d \in Delays(q)}

Runs(q) == IF faults.late THEN Scheduled(q) ELSE Delays(q)

(* 1.0 * fail_count / real_stmt_queue.size() > 0.5                         *)
TooManyHolders(q) == 2 * Cardinality({i \in DOMAIN q : IsHolder(q[i])}) > Len(q)

VARIABLES queue,        \* stmt_queue, tid_queue, stmt_use
          status,       \* trans_arr[].status
          real,         \* the last trans_test(): the real queue and the status
          init,         \* init_da, init_stmt_queue, init_txn_status
          da,           \* tmp_da: the run that it analyzed, and its blocks
          path,         \* the stmt_ids of longest_stmt_path
          ideal,        \* those that init_da gives for deleted_nodes
          deleted,      \* deleted_nodes
          empties,      \* stmt_path_empty_time
          skipping,     \* the refinement loop ended by its error rate
          pc

vars == <<faults, queue, status, real, init, da, path, ideal, deleted, empties, skipping, pc>>

Statuses == [Tids -> {"commit", "abort"}]

(* No run: clear_execution_status() drops what the last one left.          *)
None == [queue |-> <<>>, status |-> [t \in Tids |-> "abort"]]

Analyzer(r) == [run |-> r, block |-> Blocks(r.queue)]

Init ==
    /\ \E c \in Cases : queue = c.queue /\ faults = [waits |-> c.waits, late |-> c.late]
    /\ status = [t \in Tids |-> "commit"]
    /\ real = None
    /\ da = Analyzer(None)
    /\ init = [queue |-> <<>>, da |-> Analyzer(None)]
    /\ path = {}
    /\ ideal = {}
    /\ deleted = {}
    /\ empties = 0
    /\ skipping = FALSE
    /\ pc = "schedule"

(* The statuses after a trans_test() in which some commits fail.           *)
AfterCommits(st) ==
    {[t \in Tids |-> IF t \in S THEN "abort" ELSE st[t]] : S \in SUBSET Tids}

Prepare ==
    /\ pc = "schedule"
    /\ \E q \in {SelectSeq(s, LAMBDA e : ~IsHolder(e)) : s \in Scheduled(queue)} :
          queue' = Instrument(q)
    /\ status' \in AfterCommits(status)
    /\ pc' = "first"
    /\ UNCHANGED <<faults, real, init, da, path, ideal, deleted, empties, skipping>>

TransTest ==
    /\ status' \in AfterCommits(status)
    /\ \E q \in Runs(queue) : real' = [queue |-> q, status |-> status']

FirstRun ==
    /\ pc = "first"
    /\ TransTest
    /\ ~TooManyHolders(real'.queue) /\ ~InstrumentErr(real'.queue)
    /\ init' = [queue |-> queue, da |-> Analyzer(real')]
    /\ pc' = "round"
    /\ UNCHANGED <<faults, queue, da, path, ideal, deleted, empties, skipping>>

(* Where a run ends the test case: its error rate, an INSTRUMENT_ERR, a    *)
(* statement that is still not executed; or an anomaly, which is a bug.    *)
LastRun ==
    /\ pc \in {"first", "run"}
    /\ TransTest
    /\ \/ /\ \/ pc = "first" /\ TooManyHolders(real'.queue)
             \/ ~TooManyHolders(real'.queue) /\ InstrumentErr(real'.queue)
             \/ faults.waits
          /\ pc' = "returned"
       \/ ~TooManyHolders(real'.queue) /\ ~InstrumentErr(real'.queue) /\ pc' = "reported"
    /\ UNCHANGED <<faults, queue, init, da, path, ideal, deleted, empties, skipping>>

(* topological_sort_path(), which stops when as many statements as stmt_num *)
(* are put out or in deleted_nodes.  A statement that is in it, or of an    *)
(* aborted transaction, is passed over, but its block is put out whole if   *)
(* another of its statements is not: its ids are then counted twice.  Ids   *)
(* in deleted_nodes of no statement of the queue are counted, too.  The     *)
(* begins, the ends and the space holders depend on nothing; a block is     *)
(* given up when everything left depends on something.  The last block      *)
(* left depends on nothing, unless excluded statements kept their edges.    *)
Inner(q, i) == \E j, k \in DOMAIN q : j < i /\ i < k /\ q[j].tid = q[i].tid /\ q[k].tid = q[i].tid

Excluded(d) ==
    {i \in DOMAIN d.run.queue :
        Id(d.run.queue, i) \in deleted \/ d.run.status[d.run.queue[i].tid] # "commit"}

SortedPaths(d, edgesKept) ==
    LET q == d.run.queue
        excluded == Excluded(d)
        open == {d.block[i] : i \in DOMAIN q \ excluded}
        plain == {b \in open : \A i \in b : q[i].use = "init"}
        data == open \ plain
        absent == Cardinality(deleted \ {Id(q, i) : i \in DOMAIN q})
        unfinished(out, m, up) ==
            Cardinality(UNION out) + m + Cardinality(excluded \union UNION up) + absent < Len(q)
        ends(out, m, up) ==
            /\ ~unfinished(out, m, up)
            /\ \/ out \union up = {} /\ m = 0
               \/ m > 0 /\ up = {} /\ unfinished(out, m - 1, up)
               \/ \E b \in out : unfinished(out \ {b}, m, up)
               \/ \E b \in up : unfinished(out, m, up \ {b})
        givesUp(out, up) ==
            \/ up # data
            \/ edgesKept /\ \E i \in excluded \ UNION open :
                                q[i].use # "init" /\ d.run.status[q[i].tid] = "commit"
        sorted(out) ==
            \E up \in SUBSET (data \ out) :
                IF up = {} THEN \E m \in 0..Cardinality(plain) : ends(out, m, {})
                           ELSE givesUp(out, up) /\ ends(out, Cardinality(plain), up)
    IN  {{Id(q, i) : i \in {i \in UNION out : Inner(q, i)}} : out \in {out \in SUBSET data : sorted(out)}}

(* While deleted_nodes stays the same init_da gives the same path.         *)
Round ==
    /\ pc = "round"
    /\ path' \in IF ideal # {} THEN {ideal} ELSE SortedPaths(init.da, FALSE)
    /\ ideal' = path'
    /\ da' = init.da
    /\ skipping' = FALSE
    /\ pc' = IF path' = {} THEN "returned" ELSE "refine"
    /\ UNCHANGED <<faults, queue, status, real, init, deleted, empties>>

PathTids == {id[1] : id \in path}

(* Mutant: selects stay, because they change nothing.                      *)
MissingWrites ==
    {i \in DOMAIN queue :
        /\ queue[i].tid \in PathTids
        /\ Id(queue, i) \notin path
        /\ queue[i].use \notin Reads \union {"init", "select"}}

(* The basic statements that refine_stmt_queue() finds missing in the path.*)
Missing ==
    {i \in DOMAIN queue :
        /\ queue[i].tid \in PathTids
        /\ Id(queue, i) \notin path
        /\ queue[i].use \notin Reads \union {"init"}}

(* da numbers the statements of its run, which the code takes for          *)
(* positions of stmt_queue.                                                *)
ChangeSet(i) == IF i \in DOMAIN da.block THEN da.block[i] ELSE {i}

Refined ==
    LET changed == UNION {ChangeSet(i) : i \in Missing}
    IN  [j \in DOMAIN queue |-> IF j \in changed THEN Holder(queue[j].tid) ELSE queue[j]]

(* Mutant: transactions that are not in the path commit.                   *)
RefinedStatusKept == status

RefinedStatus == [t \in Tids |-> IF t \in PathTids THEN status[t] ELSE "abort"]

RefineStmtQueue ==
    /\ pc = "refine"
    /\ queue' = Refined
    /\ status' = RefinedStatus
    /\ IF queue' = queue /\ status' = status
       THEN real' = real /\ pc' = "check"
       ELSE real' = None /\ pc' = "reschedule"
    /\ UNCHANGED <<faults, init, da, path, ideal, deleted, empties, skipping>>

(* infer_instrument_after_blocking(): a statement that became a space      *)
(* holder by scheduling gets as many of them as its block had statements.  *)
BasicPosition(q, t, n) ==
    CHOOSE j \in DOMAIN q :
        /\ q[j].tid = t /\ q[j].use \notin Reads
        /\ n = Cardinality({k \in 1..j : q[k].tid = t /\ q[k].use \notin Reads})

(* Mutant: a space holder stands for the block.                            *)
CopiesOne(q, after, i) == 1

Copies(q, after, i) ==
    LET j == BasicPosition(q, after[i].tid, Id(after, i)[2])
    IN  IF after[i].use # "init" \/ q[j].use = "init" THEN 1
        ELSE IF j \in DOMAIN init.da.block THEN Cardinality(init.da.block[j]) ELSE 1

Infer(q, after) ==
    FlattenSeq([i \in DOMAIN after |-> [k \in 1..Copies(q, after, i) |-> after[i]]])

Reschedule ==
    /\ pc = "reschedule"
    /\ \E q \in {Infer(queue, after) : after \in Scheduled(Clean(queue))} :
          queue' = Instrument(q)
    /\ status' \in AfterCommits(status)
    /\ pc' = "run"
    /\ UNCHANGED <<faults, real, init, da, path, ideal, deleted, empties, skipping>>

(* trans_test() and topological_sort_path() in the refinement loop.        *)
Run ==
    /\ pc = "run"
    /\ TransTest
    /\ ~TooManyHolders(real'.queue) /\ ~InstrumentErr(real'.queue)
    /\ da' = Analyzer(real')
    /\ path' \in SortedPaths(da', TRUE)
    /\ empties' = IF path' = {} THEN empties + 1 ELSE empties
    /\ pc' = IF path' # {} THEN "refine" ELSE IF empties' >= 3 THEN "returned" ELSE "check"
    /\ UNCHANGED <<faults, queue, init, ideal, deleted, skipping>>

(* "error rate too high in refinement loop, skipping"                      *)
RunFails ==
    /\ pc = "run"
    /\ TransTest
    /\ TooManyHolders(real'.queue)
    /\ skipping' = TRUE
    /\ pc' = "check"
    /\ UNCHANGED <<faults, queue, init, da, path, ideal, deleted, empties>>

(* normal_stmt_test() and check_normal_stmt_result() find a difference.    *)
Differs ==
    /\ pc = "check"
    /\ pc' = "reported"
    /\ UNCHANGED <<faults, queue, status, real, init, da, path, ideal, deleted, empties, skipping>>

(* Mutant: what was tested is not excluded.                                *)
DeletedNodesNone == {}

(* The id that stmt_id() makes of the index -1, which stands for an id of  *)
(* the path that init_da does not have; the others count from 1.           *)
NoId == <<CHOOSE t \in Tids : TRUE, 0>>

DeletedNodes ==
    LET q == init.da.run.queue
        tested == {i \in DOMAIN q : Id(q, i) \in path}
    IN  {Id(q, j) : j \in UNION {init.da.block[i] : i \in tested}}
        \union (IF path \subseteq {Id(q, i) : i \in DOMAIN q} THEN {} ELSE {NoId})

(* They agree: the path is not tested again, and the next round starts     *)
(* from the first one's queue.                                             *)
Agrees ==
    /\ pc = "check"
    /\ deleted' = deleted \union DeletedNodes
    /\ ideal' = IF deleted' = deleted THEN ideal ELSE {}
    /\ queue' = init.queue
    /\ status' = init.da.run.status
    /\ pc' = "round"
    /\ UNCHANGED <<faults, real, init, da, path, empties, skipping>>

Ended == pc \in {"returned", "reported"} /\ UNCHANGED vars

Next ==
    \/ Prepare \/ FirstRun \/ LastRun \/ Round \/ RefineStmtQueue \/ Reschedule
    \/ Run \/ RunFails \/ Differs \/ Agrees \/ Ended

Spec == Init /\ [][Next]_vars

(* One thread; a run ends because trans_test() does (TransTest).           *)
FairSpec == Spec /\ WF_vars(Next)

-----------------------------------------------------------------------------
(* Every variable has its type.                                            *)
TypeOK ==
    /\ faults \in [waits : BOOLEAN, late : BOOLEAN]
    /\ queue \in Seq(Entries)
    /\ status \in Statuses
    /\ real.queue \in Seq(Entries) /\ real.status \in Statuses
    /\ da.run.queue \in Seq(Entries) /\ init.queue \in Seq(Entries)
    /\ path \union deleted \subseteq Tids \X Nat
    /\ empties \in 0..3 /\ skipping \in BOOLEAN
    /\ pc \in {"schedule", "first", "round", "refine", "reschedule", "run", "check",
               "returned", "reported"}

(* The runs execute what was scheduled.  refine_stmt_queue() and           *)
(* infer_instrument_after_blocking() take the numbers that an analyzer has *)
(* for the statements of its run for positions of stmt_queue, and after a  *)
(* lock wait or a skipped statement they are not.                          *)
RunsFollowTheirSchedule == ~faults.waits /\ ~faults.late

(* A stmt_id names the same statement in every queue of the test case,     *)
(* unless that has become a space holder: deleted_nodes and the paths of   *)
(* all analyzers are compared by stmt_id.                                  *)
StmtIdsAligned ==
    RunsFollowTheirSchedule /\ pc \in {"refine", "run", "check"} =>
        \A i \in DOMAIN queue : \E j \in DOMAIN init.queue :
            /\ Id(init.queue, j) = Id(queue, i)
            /\ queue[i].use # "init" => queue[i] = init.queue[j]

(* "put it set_size times to make the queue size same": every run of a     *)
(* test case has as many statements as the first.                          *)
QueueSizeKept == pc = "run" => Len(queue) = Len(init.queue)

(* What normal_stmt_test() is compared with is the run whose dependencies  *)
(* gave the path, not one of an earlier round.                             *)
ComparesTheRun ==
    RunsFollowTheirSchedule /\ pc = "check" /\ ~skipping => real = da.run

(* The path holds every statement of a committed transaction that was      *)
(* executed, so that both runs must end with the same database, with the   *)
(* same exception.                                                         *)
PathCoversTheRun ==
    RunsFollowTheirSchedule /\ pc = "check" /\ ~skipping =>
        \A i \in DOMAIN real.queue :
            /\ real.queue[i].use \in Writes
            /\ real.status[real.queue[i].tid] = "commit"
            => Id(real.queue, i) \in path

(* A test case that is skipped for its error rate is not compared.         *)
SkippedIsNotCompared == ~(pc = "check" /\ skipping)

(* The rounds of a test case end, unless one compares a path that names a  *)
(* statement which init_da does not have, as a lock wait in the first run  *)
(* can lead to: such a name excludes nothing.                              *)
Termination == <>(pc \in {"returned", "reported"} \/ NoId \in deleted)
=============================================================================
