----------------------------- MODULE TransTest -----------------------------
(***************************************************************************)
(* One execution of a transaction test case: trans_test() sends the        *)
(* statements of stmt_queue over one connection per transaction, puts a    *)
(* transaction aside while a statement of it waits for a lock, and after   *)
(* every commit or abort lets retry_block_stmt() catch up with what the    *)
(* waiting transactions missed.  retry_block_stmt() calls itself, so its   *)
(* activations are a stack of frames.                                      *)
(*                                                                         *)
(* The loops' `continue's are not steps: a step takes the next statement   *)
(* that the loop does not pass over.  Positions start at 1.                *)
(***************************************************************************)
EXTENDS DutDriver, Sequences, FiniteSets

CONSTANTS Drivers,      \* the drivers that a test case may run over
          StmtNum,      \* stmt_num, the length of the queue
          Tids,         \* the transactions' ids
          Queues        \* the test cases: tid_queue and stmt_queue together

Positions == 1..StmtNum

ASSUME DriversAssumption == Drivers \subseteq AllDrivers

ASSUME StmtNumAssumption == StmtNum \in Nat

ASSUME QueuesAssumption == Queues \subseteq [Positions -> [tid : Tids, kind : Kinds]]

VARIABLES queue,        \* tid_queue and stmt_queue
          txn_status,   \* trans_arr[tid].status
          is_blocked,   \* trans_arr[tid].is_blocked
          conn,         \* trans_arr[tid].dut
          outputs,      \* trans_arr[tid].stmt_outputs: whose outputs they are
          done,         \* the positions whose status_queue entry is 1
          real,         \* real_stmt_queue: the positions in the order they ended
          skipped,      \* the ones real_stmt_queue holds a space holder for
          stmt_index,   \* the loop of trans_test
          stack,        \* the activations of retry_block_stmt, the running one last
          executed, no_change,
          pc            \* "main", "final", or how trans_test ended

vars == <<queue, txn_status, is_blocked, conn, outputs, done, real, skipped,
          stmt_index, stack, executed, no_change, pc>>

caseVars == <<queue, txn_status, is_blocked, conn, outputs, done, real, skipped>>

(* retry_block_stmt(cur): "first" tries the first missed statement of each *)
(* blocked transaction, those in tried had their turn; "second" goes over  *)
(* what the transactions that wait no more have missed.                    *)
Frames == [cur : 0..StmtNum, phase : {"first", "second"},
           pos : 1..(StmtNum + 1), tried : SUBSET Tids]

(* Mutant: the inner retry goes over the whole queue.                      *)
NewFrameWhole(cur) == [cur |-> StmtNum, phase |-> "first", pos |-> 1, tried |-> {}]

(* Mutant: the loop starts one position early.                             *)
NewFrameEarly(cur) == [cur |-> cur, phase |-> "first", pos |-> 0, tried |-> {}]

NewFrame(cur) == [cur |-> cur, phase |-> "first", pos |-> 1, tried |-> {}]

Top == stack[Len(stack)]

Pop == SubSeq(stack, 1, Len(stack) - 1)

Replace(f) == Append(Pop, f)

CaseTypeOK ==
    /\ queue \in [Positions -> [tid : Tids, kind : Kinds]]
    /\ txn_status \in [Tids -> {"TXN_COMMIT", "TXN_ABORT"}]
    /\ is_blocked \in [Tids -> BOOLEAN]
    /\ conn \in [Tids -> Connections]
    /\ outputs \in [Tids -> Seq(Positions)]
    /\ done \in SUBSET Positions
    /\ real \in Seq(Positions)
    /\ skipped \in SUBSET Positions

ControlTypeOK ==
    /\ stmt_index \in 1..(StmtNum + 1)
    /\ stack \in Seq(Frames)
    /\ executed \in Nat
    /\ no_change \in 0..3
    /\ pc \in {"main", "final", "ok", "not_executed", "size_mismatch", "threw", "exited"}

(* Every variable has its type.                                            *)
TypeOK == CaseTypeOK /\ ControlTypeOK

-----------------------------------------------------------------------------
(* trans_test_unit(pos): what it returns or how it leaves, the connection  *)
(* afterwards, and whether a failed COMMIT made the transaction an aborted *)
(* one.                                                                    *)
Unit(ret, c, demoted) == [ret |-> ret, conn |-> c, demoted |-> demoted]

(* "if commit fail, just abort": an error of the ROLLBACK, a lost          *)
(* connection included, counts as a lock wait.                             *)
RollbackUnit(c, pos) ==
    {Unit(IF a.err = "none" THEN "executed" ELSE "blocked", a.conn, TRUE)
        : a \in Test(c, [pos |-> pos, kind |-> "ABORT"])}

UnitOf(a, pos) ==
    CASE a.err = "none"    -> {Unit("executed", a.conn, FALSE)}
      [] a.err = "lost"    -> {Unit("threw", a.conn, FALSE)}
      [] a.err = "blocked" -> {Unit("blocked", a.conn, FALSE)}
      [] a.err = "skipped" -> {Unit("skipped", a.conn, FALSE)}
      [] a.err = "changed" -> {Unit("exited", a.conn, FALSE)}
      [] a.err = "failed" /\ queue[pos].kind # "COMMIT" -> {Unit("executed", a.conn, FALSE)}
      [] a.err = "failed" /\ queue[pos].kind = "COMMIT" -> RollbackUnit(a.conn, pos)

TransTestUnit(pos) ==
    UNION {UnitOf(a, pos) : a \in Test(conn[queue[pos].tid],
                                       [pos |-> pos, kind |-> queue[pos].kind])}

(* is_commit || is_abort of the statement just executed.                   *)
EndsTxn(pos, u) == u.ret = "executed" /\ (u.demoted \/ queue[pos].kind \in EndKinds)

(* trans_test_unit pushes an output, and its callers the statement or its  *)
(* space holder, unless the statement waits.                               *)
Pushes(u) == u.ret \in {"executed", "skipped"}

(* Mutant: a skipped statement leaves no output.                           *)
PushesOutputExecuted(u) == u.ret = "executed"

PushesOutput(u) == u.ret \in {"executed", "skipped"}

(* The bookkeeping after trans_test_unit(pos) came back with u, the same   *)
(* at its three call sites.                                                *)
Record(pos, u) ==
    LET t == queue[pos].tid
    IN  /\ conn' = [conn EXCEPT ![t] = u.conn]
        /\ queue' = IF u.demoted THEN [queue EXCEPT ![pos].kind = "ABORT"] ELSE queue
        /\ txn_status' = IF u.demoted THEN [txn_status EXCEPT ![t] = "TXN_ABORT"] ELSE txn_status
        /\ is_blocked' = IF u.ret \in {"threw", "exited"} THEN is_blocked
                         ELSE [is_blocked EXCEPT ![t] = (u.ret = "blocked")]
        /\ outputs' = IF PushesOutput(u) THEN [outputs EXCEPT ![t] = Append(@, pos)] ELSE outputs
        /\ done' = IF Pushes(u) THEN done \union {pos} ELSE done
        /\ real' = IF Pushes(u) THEN Append(real, pos) ELSE real
        /\ skipped' = IF u.ret = "skipped" THEN skipped \union {pos} ELSE skipped
        /\ pc' = IF u.ret \in {"threw", "exited"} THEN u.ret ELSE pc

-----------------------------------------------------------------------------
(* A test case starts with clear_execution_status() and, in trans_test(),  *)
(* with a new connection per transaction and an empty status_queue.        *)
Init ==
    /\ queue \in Queues
    /\ txn_status = [t \in Tids |->
                        IF \E i \in Positions : queue[i] = [tid |-> t, kind |-> "ABORT"]
                        THEN "TXN_ABORT" ELSE "TXN_COMMIT"]
    /\ is_blocked = [t \in Tids |-> FALSE]
    /\ \E d \in Drivers : conn = [t \in Tids |-> NewConnection(d)]
    /\ outputs = [t \in Tids |-> <<>>]
    /\ done = {}
    /\ real = <<>>
    /\ skipped = {}
    /\ stmt_index = 1
    /\ stack = <<>>
    /\ executed = 0
    /\ no_change = 0
    /\ pc = "main"

(* The loop of trans_test: the statement of a blocked transaction is left  *)
(* for a retry.                                                            *)
MainSkip ==
    /\ pc = "main" /\ stack = <<>>
    /\ stmt_index <= StmtNum
    /\ is_blocked[queue[stmt_index].tid]
    /\ stmt_index' = stmt_index + 1
    /\ UNCHANGED <<caseVars, stack, executed, no_change, pc>>

(* ... any other is sent, and the end of a transaction starts a retry of   *)
(* the statements before it.                                               *)
MainTry ==
    /\ pc = "main" /\ stack = <<>>
    /\ stmt_index <= StmtNum
    /\ ~is_blocked[queue[stmt_index].tid]
    /\ \E u \in TransTestUnit(stmt_index) :
          /\ Record(stmt_index, u)
          /\ stack' = IF EndsTxn(stmt_index, u) THEN <<NewFrame(stmt_index - 1)>> ELSE <<>>
    /\ stmt_index' = stmt_index + 1
    /\ UNCHANGED <<executed, no_change>>

(* The statements that the two loops of retry_block_stmt do not pass over. *)
(* Mutant: the first loop ends one position early.                         *)
FirstEligibleShort(f) ==
    {i \in Positions : /\ f.pos <= i /\ i < f.cur
                       /\ i \notin done
                       /\ is_blocked[queue[i].tid]
                       /\ queue[i].tid \notin f.tried}

FirstEligible(f) ==
    {i \in Positions : /\ f.pos <= i /\ i <= f.cur
                       /\ i \notin done
                       /\ is_blocked[queue[i].tid]
                       /\ queue[i].tid \notin f.tried}

(* Mutant: the second loop does not look at status_queue.                  *)
SecondEligibleDone(f) ==
    {i \in Positions : /\ f.pos <= i /\ i <= f.cur
                       /\ ~is_blocked[queue[i].tid]}

(* Mutant: the second loop ends one position early.                        *)
SecondEligibleShort(f) ==
    {i \in Positions : /\ f.pos <= i /\ i < f.cur
                       /\ ~is_blocked[queue[i].tid]
                       /\ i \notin done}

SecondEligible(f) ==
    {i \in Positions : /\ f.pos <= i /\ i <= f.cur
                       /\ ~is_blocked[queue[i].tid]
                       /\ i \notin done}

FirstTry ==
    /\ pc \in {"main", "final"} /\ stack # <<>>
    /\ Top.phase = "first"
    /\ \E i \in FirstEligible(Top) :
          /\ \A j \in FirstEligible(Top) : i <= j
          /\ \E u \in TransTestUnit(i) : Record(i, u)
          /\ stack' = Replace([Top EXCEPT !.pos = i + 1, !.tried = @ \union {queue[i].tid}])
    /\ UNCHANGED <<stmt_index, executed, no_change>>

FirstDone ==
    /\ pc \in {"main", "final"} /\ stack # <<>>
    /\ Top.phase = "first"
    /\ FirstEligible(Top) = {}
    /\ stack' = Replace([Top EXCEPT !.phase = "second", !.pos = 1, !.tried = {}])
    /\ UNCHANGED <<caseVars, stmt_index, executed, no_change, pc>>

SecondTry ==
    /\ pc \in {"main", "final"} /\ stack # <<>>
    /\ Top.phase = "second"
    /\ \E i \in SecondEligible(Top) :
          /\ \A j \in SecondEligible(Top) : i <= j
          /\ \E u \in TransTestUnit(i) :
                /\ Record(i, u)
                /\ LET rest == Replace([Top EXCEPT !.pos = i + 1])
                   IN  stack' = IF EndsTxn(i, u) THEN Append(rest, NewFrame(i - 1)) ELSE rest
    /\ UNCHANGED <<stmt_index, executed, no_change>>

Return ==
    /\ pc \in {"main", "final"} /\ stack # <<>>
    /\ Top.phase = "second"
    /\ SecondEligible(Top) = {}
    /\ stack' = Pop
    /\ UNCHANGED <<caseVars, stmt_index, executed, no_change, pc>>

(* The checks at the end of trans_test.                                    *)
Verdict ==
    IF done # Positions THEN "not_executed"
    ELSE IF Len(real) # StmtNum THEN "size_mismatch" ELSE "ok"

(* After the loop: statements that are still missing are retried, ...      *)
EnterFinal ==
    /\ pc = "main" /\ stack = <<>>
    /\ stmt_index = StmtNum + 1
    /\ executed' = Cardinality(done)
    /\ IF Cardinality(done) < StmtNum
       THEN pc' = "final" /\ stack' = <<NewFrame(StmtNum)>>
       ELSE pc' = Verdict /\ UNCHANGED stack
    /\ UNCHANGED <<caseVars, stmt_index, no_change>>

(* Mutant: a round that changed nothing is not counted.                    *)
NoChangeUncounted(stuck) == no_change

NoChange(stuck) == IF stuck THEN no_change + 1 ELSE no_change

(* ... until none is missing or the third retry that changed nothing       *)
(* (no_change is never set back).                                          *)
FinalRound ==
    /\ pc = "final" /\ stack = <<>>
    /\ LET complete == Cardinality(done) = StmtNum
           stuck == ~complete /\ executed = Cardinality(done)
           leave == complete \/ (stuck /\ NoChange(stuck) > 2)
       IN  /\ no_change' = NoChange(stuck)
           /\ executed' = IF leave THEN executed ELSE Cardinality(done)
           /\ IF leave
              THEN pc' = Verdict /\ UNCHANGED stack
              ELSE stack' = <<NewFrame(StmtNum)>> /\ UNCHANGED pc
    /\ UNCHANGED <<caseVars, stmt_index>>

Ended == pc \notin {"main", "final"}

Terminated == Ended /\ UNCHANGED vars

Next == \/ MainSkip \/ MainTry \/ FirstTry \/ FirstDone \/ SecondTry \/ Return
        \/ EnterFinal \/ FinalRound \/ Terminated

Spec == Init /\ [][Next]_vars

(* The tester is one thread that only waits for the server, and the server *)
(* answers or reports a lock wait.                                         *)
FairSpec == Spec /\ WF_vars(Next)

-----------------------------------------------------------------------------
(* The statements of a transaction are executed in the order in which the  *)
(* transaction has them, whatever waits and retries happen in between: the *)
(* real schedule, from which the dependency analyzer numbers statements,   *)
(* is an interleaving of the transactions and has no statement twice.      *)
ScheduleKeepsOrder ==
    \A a, b \in 1..Len(real) :
        a < b /\ queue[real[a]].tid = queue[real[b]].tid => real[a] < real[b]

(* trans_arr[tid].stmt_outputs[k] is the output of the k-th statement of   *)
(* the transaction, as check_normal_stmt_result() takes for granted when   *)
(* it indexes it with stmt_idx_in_txn.                                     *)
OutputsAligned ==
    \A t \in Tids :
        /\ \A k, l \in 1..Len(outputs[t]) : k < l => outputs[t][k] < outputs[t][l]
        /\ \A k \in 1..Len(outputs[t]) :
              /\ queue[outputs[t][k]].tid = t
              /\ \A i \in 1..(outputs[t][k] - 1) :
                    queue[i].tid = t => \E l \in 1..k : outputs[t][l] = i

(* Nothing that was executed or skipped is missing from the real schedule  *)
(* and nothing else is in it, so the size check at the end of trans_test   *)
(* never fails.                                                            *)
RealIsDone == {real[a] : a \in 1..Len(real)} = done /\ pc # "size_mismatch"

(* A transaction that does not wait has nothing left behind: when no retry *)
(* is running, every statement that trans_test has gone past is done or    *)
(* belongs to a blocked transaction, up to and including the moment it     *)
(* gives up with "some stmt is still not executed".                        *)
NothingForgotten ==
    stack = <<>> /\ pc \notin {"threw", "exited"} =>
        \A i \in Positions : i < stmt_index /\ ~is_blocked[queue[i].tid] => i \in done

(* The statement a connection still has on the wire is the next one of its *)
(* transaction, unchanged, and the transaction is marked as blocked, as    *)
(* long as the query for lock waits does not fail.                         *)
PendingIsNext ==
    \A t \in Tids :
        conn[t].has_sent_sql /\ conn[t].driver # "unsure" /\ pc # "exited" =>
            LET p == conn[t].sent_sql.pos
            IN  /\ is_blocked[t]
                /\ p \in Positions \ done
                /\ queue[p] = [tid |-> t, kind |-> conn[t].sent_sql.kind]
                /\ \A i \in 1..(p - 1) : queue[i].tid = t => i \in done

(* No driver ever sees another statement than the one it sent, so the      *)
(* exit(-1) of trans_test_unit is never taken, as long as the query for    *)
(* lock waits does not fail.                                               *)
NeverChanged == pc = "exited" => \E t \in Tids : conn[t].driver = "unsure"

(* An inner activation of retry_block_stmt covers strictly fewer           *)
(* statements than the one that called it, so the recursion ends.          *)
RecursionShrinks ==
    \A k \in 1..(Len(stack) - 1) : stack[k + 1].cur < stack[k].cur

(* With a driver that waits for the answers a transaction can only be      *)
(* blocked by the ROLLBACK after a failed COMMIT, and the retries get that *)
(* done: trans_test never gives up with "some stmt is still not executed". *)
WaitingDriverCompletes ==
    pc = "not_executed" => \E t \in Tids : conn[t].driver # "waits"

(* trans_test comes back, with all statements ended or with an error,      *)
(* whatever the database answers.                                          *)
Termination == <>Ended

(* What the drivers' "txn aborted, can only rollback" and trans_test_unit's *)
(* "if commit fail, just abort" say of a transaction the server rolled      *)
(* back because of a deadlock: it ends up recorded as aborted.              *)
AbortedIsRecorded ==
    pc = "ok" => \A t \in Tids : conn[t].txn_abort => txn_status[t] = "TXN_ABORT"
=============================================================================
