-------------------------- MODULE TransTestProofs --------------------------
(***************************************************************************)
(* For every queue, every number of transactions and both driver families: *)
(* trans_test keeps the order of each transaction's statements and leaves  *)
(* nothing behind.                                                         *)
(***************************************************************************)
EXTENDS TransTest, TLAPS, SequenceTheorems, FiniteSetTheorems

Rets == {"executed", "blocked", "skipped", "threw", "exited"}

Units == [ret : Rets, conn : Connections, demoted : BOOLEAN]

(* The statements of t before position p are done.                         *)
BehindDone(t, p) == \A i \in Positions : i < p /\ queue[i].tid = t => i \in done

-----------------------------------------------------------------------------
(* The part of the invariant that only speaks of the test case.            *)

DoneIsPrefix ==
    \A i, j \in Positions : queue[i].tid = queue[j].tid /\ i < j /\ j \in done => i \in done

RealRange ==
    /\ \A a \in 1..Len(real) : real[a] \in done
    /\ \A i \in done : \E a \in 1..Len(real) : real[a] = i
    /\ Cardinality(done) = Len(real)

OutputsRange ==
    \A t \in Tids :
        /\ \A k \in 1..Len(outputs[t]) : outputs[t][k] \in done /\ queue[outputs[t][k]].tid = t
        /\ \A i \in done : queue[i].tid = t => \E k \in 1..Len(outputs[t]) : outputs[t][k] = i
        /\ \A k, l \in 1..Len(outputs[t]) : k < l => outputs[t][k] < outputs[t][l]

CaseInv == CaseTypeOK /\ DoneIsPrefix /\ ScheduleKeepsOrder /\ RealRange /\ OutputsRange

-----------------------------------------------------------------------------
(* The part that ties the loops to the test case.                          *)

Frontier ==
    pc \in {"main", "final"} =>
        IF stack = <<>>
        THEN \A t \in Tids : ~is_blocked[t] => BehindDone(t, stmt_index)
        ELSE IF Top.phase = "second"
             THEN \A t \in Tids : ~is_blocked[t] => BehindDone(t, Top.pos)
             ELSE \A t \in Tids : is_blocked[t] /\ t \notin Top.tried => BehindDone(t, Top.pos)

Linked ==
    /\ \A k \in 1..Len(stack) : stack[k].cur < stmt_index /\ stack[k].pos <= stack[k].cur + 1
    /\ \A k \in 1..(Len(stack) - 1) :
          /\ stack[k].phase = "second"
          /\ stack[k].pos = stack[k + 1].cur + 2
          /\ stack[k + 1].cur + 1 \in done
    /\ stack # <<>> /\ pc = "main" =>
          stmt_index = stack[1].cur + 2 /\ stack[1].cur + 1 \in done
    /\ stack # <<>> /\ pc = "final" => stack[1].cur = StmtNum
    /\ pc = "final" => stmt_index = StmtNum + 1

Counters ==
    /\ \A i \in done : i < stmt_index
    /\ pc \in {"main", "final"} => no_change <= 2
    /\ pc # "size_mismatch"

ControlInv == ControlTypeOK /\ Frontier /\ Linked /\ Counters

IInv == CaseInv /\ ControlInv

-----------------------------------------------------------------------------
(* What trans_test_unit comes back with, for every answer of the driver.   *)
LEMMA ConnectionTypes ==
    /\ \A d \in AllDrivers : NewConnection(d) \in Connections
    /\ \A c \in Connections, s \in Stmts :
          \A a \in Test(c, s) :
              a.err \in Errs /\ a.conn \in Connections /\ a.conn.driver = c.driver
<1>1. NoSql \in Stmts
  BY DEF NoSql, Stmts, Kinds
<1>2. \A d \in AllDrivers : NewConnection(d) \in Connections
  BY <1>1 DEF NewConnection, Connections
<1>3. ASSUME NEW c \in Connections, NEW s \in Stmts, NEW a \in Test(c, s)
      PROVE  a.err \in Errs /\ a.conn \in Connections /\ a.conn.driver = c.driver
  <2> DEFINE SameDriver(x) == x \in Connections /\ x.driver = c.driver
  <2>1. SameDriver(Idle(c)) /\ SameDriver([Idle(c) EXCEPT !.txn_abort = TRUE])
    BY <1>1 DEF Idle, Connections
  <2>2. SameDriver(OnTheWire(c, s))
    BY DEF OnTheWire, Connections
  <2>3. CASE c.driver # "waits"
    <3>1. CASE c.txn_abort
      <4> DEFINE e == CASE PrintedKind(s) = "COMMIT;"   -> "failed"
                        [] PrintedKind(s) = "ROLLBACK;" -> "none"
                        [] OTHER                        -> "skipped"
      <4>1. e \in {"failed", "none", "skipped"}
        <5>1. CASE PrintedKind(s) = "COMMIT;"
          BY <5>1
        <5>2. CASE PrintedKind(s) # "COMMIT;" /\ PrintedKind(s) = "ROLLBACK;"
          BY <5>2
        <5>3. CASE PrintedKind(s) # "COMMIT;" /\ PrintedKind(s) # "ROLLBACK;"
          BY <5>3
        <5> QED BY <5>1, <5>2, <5>3
      <4>2. a = Answer(e, c)
        BY <2>3, <3>1 DEF Test, NonBlockingTest, AbortedTest
      <4> QED BY <4>1, <4>2 DEF Answer, Errs
    <3>2. CASE ~c.txn_abort /\ a \in PollTest(c, s)
      <4> DEFINE i == Idle(c)
                 ia == [Idle(c) EXCEPT !.txn_abort = TRUE]
                 w == OnTheWire(c, s)
      <4>1. \/ a = Answer("none", i) \/ a = Answer("skipped", i) \/ a = Answer("skipped", ia)
            \/ a = Answer("lost", i) \/ a = Answer("blocked", w) \/ a = Answer("failed", w)
            \/ a = Answer("skipped", w) \/ a = Answer("lost", w)
        BY <3>2 DEF PollTest
      <4>2. SameDriver(i) /\ SameDriver(ia) /\ SameDriver(w)
        BY <2>1, <2>2
      <4> HIDE DEF i, ia, w
      <4> QED BY <4>1, <4>2 DEF Answer, Errs
    <3>3. CASE ~c.txn_abort /\ a \notin PollTest(c, s)
      BY <2>3, <3>3 DEF Test, NonBlockingTest, Answer, Errs
    <3> QED BY <3>1, <3>2, <3>3
  <2>4. CASE c.driver = "waits"
    BY <2>4 DEF Test, BlockingTest, Answer, Errs
  <2> QED BY <2>3, <2>4
<1> QED BY <1>2, <1>3

(* trans_test_unit returns one of its codes, and only a COMMIT is demoted. *)
LEMMA UnitTypes ==
    ASSUME CaseTypeOK, NEW p \in Positions, NEW u \in TransTestUnit(p)
    PROVE  /\ u \in Units
           /\ u.demoted => queue[p].kind = "COMMIT" /\ u.ret \in {"executed", "blocked"}
           /\ u.conn.driver = conn[queue[p].tid].driver
<1> DEFINE s == [pos |-> p, kind |-> queue[p].kind]
           t == queue[p].tid
<1>1. s \in Stmts /\ t \in Tids /\ conn[t] \in Connections /\ p \in Nat
  BY StmtNumAssumption DEF CaseTypeOK, Stmts, Positions
<1>2. PICK a \in Test(conn[t], s) : u \in UnitOf(a, p)
  BY DEF TransTestUnit
<1>3. a.err \in Errs /\ a.conn \in Connections /\ a.conn.driver = conn[t].driver
  BY <1>1, <1>2, ConnectionTypes
<1>4. CASE a.err = "failed" /\ queue[p].kind = "COMMIT"
  <2>1. u \in RollbackUnit(a.conn, p)
    BY <1>2, <1>4 DEF UnitOf
  <2>2. [pos |-> p, kind |-> "ABORT"] \in Stmts
    BY <1>1 DEF Stmts, Kinds
  <2>3. PICK b \in Test(a.conn, [pos |-> p, kind |-> "ABORT"]) :
            u = Unit(IF b.err = "none" THEN "executed" ELSE "blocked", b.conn, TRUE)
    BY <2>1 DEF RollbackUnit
  <2>4. b.conn \in Connections /\ b.conn.driver = conn[t].driver
    BY <2>2, <2>3, <1>3, ConnectionTypes
  <2> QED BY <2>3, <2>4, <1>4 DEF Unit, Units, Rets
<1>5. CASE ~(a.err = "failed" /\ queue[p].kind = "COMMIT")
  <2>1. \E r \in Rets : u = Unit(r, a.conn, FALSE)
    <3>1. CASE a.err = "none"
      BY <1>2, <3>1 DEF UnitOf, Rets
    <3>2. CASE a.err = "lost"
      BY <1>2, <3>2 DEF UnitOf, Rets
    <3>3. CASE a.err = "blocked"
      BY <1>2, <3>3 DEF UnitOf, Rets
    <3>4. CASE a.err = "skipped"
      BY <1>2, <3>4 DEF UnitOf, Rets
    <3>5. CASE a.err = "changed"
      BY <1>2, <3>5 DEF UnitOf, Rets
    <3>6. CASE a.err = "failed"
      BY <1>2, <1>5, <3>6 DEF UnitOf, Rets
    <3> QED BY <1>3, <3>1, <3>2, <3>3, <3>4, <3>5, <3>6 DEF Errs
  <2> QED BY <2>1, <1>3 DEF Unit, Units
<1> QED BY <1>4, <1>5

-----------------------------------------------------------------------------
(* What the bookkeeping after trans_test_unit changes.                     *)
LEMMA RecordEffect ==
    ASSUME CaseTypeOK, NEW p \in Positions, NEW u \in TransTestUnit(p), Record(p, u)
    PROVE  /\ CaseTypeOK'
           /\ \A i \in Positions : queue'[i].tid = queue[i].tid
           /\ pc' = IF u.ret \in {"threw", "exited"} THEN u.ret ELSE pc
           /\ Pushes(u) => /\ done' = done \union {p}
                           /\ real' = Append(real, p)
                           /\ outputs' = [outputs EXCEPT ![queue[p].tid] = Append(@, p)]
                           /\ is_blocked' = [is_blocked EXCEPT ![queue[p].tid] = FALSE]
                           /\ pc' = pc
           /\ ~Pushes(u) => done' = done /\ real' = real /\ outputs' = outputs
           /\ ~Pushes(u) /\ pc' \in {"main", "final"} =>
                 is_blocked' = [is_blocked EXCEPT ![queue[p].tid] = TRUE]
<1> DEFINE t == queue[p].tid
<1>1. u \in Units /\ (u.demoted => queue[p].kind = "COMMIT" /\ u.ret \in {"executed", "blocked"})
  BY UnitTypes
<1>2. t \in Tids
  BY DEF CaseTypeOK
<1>3. queue' \in [Positions -> [tid : Tids, kind : Kinds]]
      /\ \A i \in Positions : queue'[i].tid = queue[i].tid
  <2>1. CASE u.demoted
    <3>1. queue' = [queue EXCEPT ![p].kind = "ABORT"]
      BY <2>1 DEF Record
    <3>2. "ABORT" \in Kinds
      BY DEF Kinds
    <3> QED BY <3>1, <3>2 DEF CaseTypeOK
  <2>2. CASE ~u.demoted
    BY <2>2 DEF Record, CaseTypeOK
  <2> QED BY <2>1, <2>2
<1>4. conn' \in [Tids -> Connections] /\ txn_status' \in [Tids -> {"TXN_COMMIT", "TXN_ABORT"}]
  BY <1>1, <1>2 DEF Record, CaseTypeOK, Units
<1>5. is_blocked' \in [Tids -> BOOLEAN]
  BY <1>2, Zenon DEF Record, CaseTypeOK
<1>6. outputs' \in [Tids -> Seq(Positions)] /\ real' \in Seq(Positions)
  BY <1>2 DEF Record, CaseTypeOK
<1>7. done' \in SUBSET Positions /\ skipped' \in SUBSET Positions
  BY DEF Record, CaseTypeOK
<1>8. CaseTypeOK'
  BY <1>3, <1>4, <1>5, <1>6, <1>7 DEF CaseTypeOK
<1>9. pc' = IF u.ret \in {"threw", "exited"} THEN u.ret ELSE pc
  BY DEF Record
<1>10. ASSUME Pushes(u)
       PROVE  /\ done' = done \union {p}
              /\ real' = Append(real, p)
              /\ outputs' = [outputs EXCEPT ![t] = Append(@, p)]
              /\ is_blocked' = [is_blocked EXCEPT ![t] = FALSE]
              /\ pc' = pc
  <2>1. u.ret \in {"executed", "skipped"} /\ PushesOutput(u)
    BY <1>10 DEF Pushes, PushesOutput
  <2>2. (u.ret = "blocked") = FALSE /\ u.ret \notin {"threw", "exited"}
    BY <2>1
  <2> QED BY <1>10, <2>1, <2>2 DEF Record
<1>11. ASSUME ~Pushes(u)
       PROVE  done' = done /\ real' = real /\ outputs' = outputs
  BY <1>11 DEF Record, Pushes, PushesOutput
<1>12. ASSUME ~Pushes(u), pc' \in {"main", "final"}
       PROVE  is_blocked' = [is_blocked EXCEPT ![t] = TRUE]
  <2>1. u.ret \notin {"threw", "exited"}
    BY <1>9, <1>12
  <2>2. (u.ret = "blocked") = TRUE
    BY <2>1, <1>1, <1>12 DEF Units, Rets, Pushes
  <2> QED BY <2>1, <2>2 DEF Record
<1> QED BY <1>3, <1>8, <1>9, <1>10, <1>11, <1>12

(* A statement whose predecessors are done may end: the real schedule and  *)
(* the outputs stay in order.                                              *)
LEMMA RecordCase ==
    ASSUME CaseInv, NEW p \in Positions, p \notin done, BehindDone(queue[p].tid, p),
           NEW u \in TransTestUnit(p), Record(p, u)
    PROVE  CaseInv'
<1> DEFINE t == queue[p].tid
<1>0. CaseTypeOK /\ p \in Nat /\ t \in Tids /\ Positions \subseteq Nat
  BY StmtNumAssumption DEF CaseInv, CaseTypeOK, Positions
<1>1. CaseTypeOK' /\ \A i \in Positions : queue'[i].tid = queue[i].tid
  BY <1>0, RecordEffect
<1>2. CASE ~Pushes(u)
  <2>1. done' = done /\ real' = real /\ outputs' = outputs
    BY <1>0, <1>2, RecordEffect
  <2>2. DoneIsPrefix'
    BY <1>1, <2>1 DEF CaseInv, DoneIsPrefix
  <2>3. \A a \in 1..Len(real) : real[a] \in Positions
    BY DEF CaseInv, CaseTypeOK
  <2>4. ScheduleKeepsOrder'
    BY <1>1, <2>1, <2>3 DEF CaseInv, ScheduleKeepsOrder
  <2>5. RealRange'
    BY <2>1 DEF CaseInv, RealRange
  <2>6. OutputsRange'
    <3> SUFFICES ASSUME NEW r \in Tids
                 PROVE  /\ \A k \in 1..Len(outputs[r]) :
                              outputs[r][k] \in done /\ queue'[outputs[r][k]].tid = r
                        /\ \A i \in done : queue'[i].tid = r =>
                              \E k \in 1..Len(outputs[r]) : outputs[r][k] = i
                        /\ \A k, l \in 1..Len(outputs[r]) : k < l => outputs[r][k] < outputs[r][l]
      BY <2>1 DEF OutputsRange
    <3>1. done \subseteq Positions
      BY <1>0 DEF CaseTypeOK
    <3> QED BY <3>1, <1>1 DEF CaseInv, OutputsRange
  <2> QED BY <1>1, <2>2, <2>4, <2>5, <2>6 DEF CaseInv
<1>3. CASE Pushes(u)
  <2>1. /\ done' = done \union {p} /\ real' = Append(real, p)
        /\ outputs' = [outputs EXCEPT ![t] = Append(@, p)]
    BY <1>0, <1>3, RecordEffect
  <2>2. DoneIsPrefix'
    BY <1>0, <1>1, <2>1 DEF CaseInv, DoneIsPrefix, BehindDone
  <2>3. \A i \in done : i \in Nat /\ (queue[i].tid = t => i < p)
    BY <1>0 DEF CaseInv, DoneIsPrefix, CaseTypeOK
  <2>4. /\ Len(real') = Len(real) + 1
        /\ real'[Len(real) + 1] = p
        /\ \A a \in 1..Len(real) : real'[a] = real[a]
        /\ Len(real) \in Nat
    BY <2>1, <1>0 DEF CaseTypeOK
  <2>5. RealRange'
    <3>1. Cardinality(done') = Cardinality(done) + 1
      <4>1. IsFiniteSet(Positions)
        BY FS_Interval, StmtNumAssumption DEF Positions
      <4>2. IsFiniteSet(done)
        BY <4>1, <1>0, FS_Subset DEF CaseTypeOK
      <4> QED BY <4>2, <2>1, FS_AddElement
    <3>2. \A a \in 1..Len(real') : real'[a] \in done'
      BY <2>1, <2>4 DEF CaseInv, RealRange
    <3>3. \A i \in done' : \E a \in 1..Len(real') : real'[a] = i
      BY <2>1, <2>4 DEF CaseInv, RealRange
    <3> QED BY <3>1, <3>2, <3>3, <2>4 DEF CaseInv, RealRange
  <2>6. ScheduleKeepsOrder'
    <3> SUFFICES ASSUME NEW a \in 1..Len(real'), NEW b \in 1..Len(real'),
                        a < b, queue'[real'[a]].tid = queue'[real'[b]].tid
                 PROVE  real'[a] < real'[b]
      BY DEF ScheduleKeepsOrder
    <3>1. a \in 1..Len(real) /\ real'[a] = real[a] /\ real[a] \in done /\ real[a] \in Positions
      BY <2>4, <1>0 DEF CaseInv, RealRange, CaseTypeOK
    <3>2. CASE b = Len(real) + 1
      BY <3>1, <3>2, <2>3, <2>4, <1>1
    <3>3. CASE b # Len(real) + 1
      <4>0. b \in 1..Len(real)
        BY <3>3, <2>4
      <4>1. real'[b] = real[b] /\ real[b] \in Positions
        BY <4>0, <2>4, <1>0 DEF CaseTypeOK
      <4> QED BY <4>0, <4>1, <3>1, <1>1 DEF CaseInv, ScheduleKeepsOrder
    <3> QED BY <3>2, <3>3
  <2>7. OutputsRange'
    <3> SUFFICES ASSUME NEW r \in Tids
                 PROVE  /\ \A k \in 1..Len(outputs'[r]) :
                              outputs'[r][k] \in done' /\ queue'[outputs'[r][k]].tid = r
                        /\ \A i \in done' : queue'[i].tid = r =>
                              \E k \in 1..Len(outputs'[r]) : outputs'[r][k] = i
                        /\ \A k, l \in 1..Len(outputs'[r]) : k < l => outputs'[r][k] < outputs'[r][l]
      BY DEF OutputsRange
    <3>1. outputs[r] \in Seq(Positions) /\ done \subseteq Positions
      BY <1>0 DEF CaseTypeOK
    <3>2. CASE r # t
      <4>1. outputs'[r] = outputs[r]
        BY <3>2, <2>1, <1>0 DEF CaseTypeOK
      <4>2. /\ \A k \in 1..Len(outputs[r]) : outputs[r][k] \in done /\ queue[outputs[r][k]].tid = r
            /\ \A i \in done : queue[i].tid = r => \E k \in 1..Len(outputs[r]) : outputs[r][k] = i
            /\ \A k, l \in 1..Len(outputs[r]) : k < l => outputs[r][k] < outputs[r][l]
        BY DEF CaseInv, OutputsRange
      <4>3. \A i \in done' : queue'[i].tid = r => i \in done /\ queue[i].tid = r
        BY <3>1, <3>2, <2>1, <1>1
      <4>4. \A i \in done : i \in done' /\ queue'[i].tid = queue[i].tid
        BY <3>1, <2>1, <1>1
      <4> QED BY <4>1, <4>2, <4>3, <4>4
    <3>3. CASE r = t
      <4>1. outputs'[r] = Append(outputs[r], p)
        BY <3>3, <2>1, <1>0 DEF CaseTypeOK
      <4>2. /\ Len(outputs'[r]) = Len(outputs[r]) + 1
            /\ outputs'[r][Len(outputs[r]) + 1] = p
            /\ \A k \in 1..Len(outputs[r]) : outputs'[r][k] = outputs[r][k]
            /\ Len(outputs[r]) \in Nat
        BY <4>1, <3>1
      <4>3. \A k \in 1..Len(outputs[r]) : outputs[r][k] \in done /\ outputs[r][k] < p
        <5> TAKE k \in 1..Len(outputs[r])
        <5>1. outputs[r][k] \in done /\ queue[outputs[r][k]].tid = r
          BY DEF CaseInv, OutputsRange
        <5> QED BY <5>1, <2>3, <3>3
      <4>4. \A k \in 1..Len(outputs'[r]) : outputs'[r][k] \in done' /\ queue'[outputs'[r][k]].tid = r
        <5> TAKE k \in 1..Len(outputs'[r])
        <5>1. CASE k = Len(outputs[r]) + 1
          BY <5>1, <4>2, <3>3, <2>1, <1>1
        <5>2. CASE k # Len(outputs[r]) + 1
          <6>1. k \in 1..Len(outputs[r])
            BY <5>2, <4>2
          <6>2. outputs'[r][k] = outputs[r][k] /\ outputs[r][k] \in done /\ queue[outputs[r][k]].tid = r
            BY <6>1, <4>2 DEF CaseInv, OutputsRange
          <6> QED BY <6>2, <3>1, <2>1, <1>1
        <5> QED BY <5>1, <5>2
      <4>5. \A i \in done' : queue'[i].tid = r => \E k \in 1..Len(outputs'[r]) : outputs'[r][k] = i
        <5> SUFFICES ASSUME NEW i \in done', queue'[i].tid = r
                     PROVE  \E k \in 1..Len(outputs'[r]) : outputs'[r][k] = i
          OBVIOUS
        <5>1. CASE i = p
          BY <5>1, <4>2
        <5>2. CASE i # p
          <6>1. i \in done /\ queue[i].tid = r
            BY <5>2, <3>1, <2>1, <1>1
          <6>2. PICK k \in 1..Len(outputs[r]) : outputs[r][k] = i
            BY <6>1 DEF CaseInv, OutputsRange
          <6> QED BY <6>2, <4>2
        <5> QED BY <5>1, <5>2
      <4>6. \A k, l \in 1..Len(outputs'[r]) : k < l => outputs'[r][k] < outputs'[r][l]
        <5> SUFFICES ASSUME NEW k \in 1..Len(outputs'[r]), NEW l \in 1..Len(outputs'[r]), k < l
                     PROVE  outputs'[r][k] < outputs'[r][l]
          OBVIOUS
        <5>1. k \in 1..Len(outputs[r])
          BY <4>2
        <5>2. CASE l = Len(outputs[r]) + 1
          BY <5>1, <5>2, <4>2, <4>3
        <5>3. CASE l # Len(outputs[r]) + 1
          BY <5>1, <5>3, <4>2 DEF CaseInv, OutputsRange
        <5> QED BY <5>2, <5>3
      <4> QED BY <4>4, <4>5, <4>6
    <3> QED BY <3>2, <3>3
  <2> QED BY <1>1, <2>2, <2>5, <2>6, <2>7 DEF CaseInv
<1> QED BY <1>2, <1>3

-----------------------------------------------------------------------------
(* The stack of activations.                                               *)
LEMMA StackFacts ==
    ASSUME stack \in Seq(Frames), stack # <<>>
    PROVE  /\ Len(stack) \in Nat /\ Len(stack) >= 1
           /\ Top \in Frames
           /\ Pop \in Seq(Frames)
           /\ Len(Pop) = Len(stack) - 1
           /\ \A k \in 1..(Len(stack) - 1) : Pop[k] = stack[k]
<1>1. Len(stack) \in Nat /\ Len(stack) >= 1
  <2>1. Len(stack) \in Nat
    OBVIOUS
  <2>2. Len(stack) # 0
    BY EmptySeq
  <2> QED BY <2>1, <2>2
<1>2. Top \in Frames
  BY <1>1 DEF Top
<1>3. \A i \in 1..(Len(stack) - 1) : stack[i] \in Frames
  BY <1>1
<1>4. /\ Pop \in Seq(Frames)
      /\ Len(Pop) = IF 1 <= Len(stack) - 1 THEN Len(stack) - 1 - 1 + 1 ELSE 0
      /\ \A k \in 1..(Len(stack) - 1 - 1 + 1) : Pop[k] = stack[1 + k - 1]
  BY <1>1, <1>3, SubSeqProperties DEF Pop
<1>5. Len(Pop) = Len(stack) - 1
  <2> DEFINE n == Len(stack)
             m == Len(Pop)
  <2>1. m = IF 1 <= n - 1 THEN n - 1 - 1 + 1 ELSE 0
    BY <1>4
  <2>2. n \in Nat /\ n >= 1
    BY <1>1
  <2> HIDE DEF n, m
  <2>3. m = n - 1
    BY <2>1, <2>2
  <2> QED BY <2>3 DEF n, m
<1>6. \A k \in 1..(Len(stack) - 1) : Pop[k] = stack[k]
  <2> TAKE k \in 1..(Len(stack) - 1)
  <2>1. k \in 1..(Len(stack) - 1 - 1 + 1) /\ 1 + k - 1 = k
    BY <1>1
  <2>2. Pop[k] = stack[1 + k - 1]
    BY <2>1, <1>4
  <2> QED BY <2>1, <2>2
<1> QED BY <1>1, <1>2, <1>4, <1>5, <1>6

(* Replacing the running activation leaves its callers alone.              *)
LEMMA ReplaceFacts ==
    ASSUME stack \in Seq(Frames), stack # <<>>, NEW f \in Frames
    PROVE  /\ Replace(f) \in Seq(Frames)
           /\ Replace(f) # <<>>
           /\ Len(Replace(f)) = Len(stack)
           /\ \A k \in 1..(Len(stack) - 1) : Replace(f)[k] = stack[k]
           /\ Replace(f)[Len(stack)] = f
  BY StackFacts, AppendProperties DEF Replace

(* A new activation of retry_block_stmt is a frame.                        *)
LEMMA NewFrameType == \A cur \in 0..StmtNum : NewFrame(cur) \in Frames
  BY StmtNumAssumption DEF NewFrame, Frames

(* The loop bounds of an activation are numbers within the queue.          *)
LEMMA FrameTypes ==
    ASSUME NEW g \in Frames
    PROVE  g.cur \in Nat /\ g.pos \in Nat /\ g.cur <= StmtNum
  BY StmtNumAssumption DEF Frames

(* Moving the loop index of an activation changes nothing else of it.      *)
LEMMA FrameSecond ==
    ASSUME NEW g \in Frames, NEW q \in 1..(StmtNum + 1),
           NEW f, f = [g EXCEPT !.pos = q]
    PROVE  f \in Frames /\ f.cur = g.cur /\ f.pos = q /\ f.phase = g.phase
<1>1. f \in Frames
  BY StmtNumAssumption DEF Frames
<1>2. f.cur = g.cur /\ f.pos = q /\ f.phase = g.phase
  BY DEF Frames
<1> QED BY <1>1, <1>2

(* The second loop of retry_block_stmt starts over at the first statement. *)
LEMMA FrameRestart ==
    ASSUME NEW g \in Frames,
           NEW f, f = [g EXCEPT !.phase = "second", !.pos = 1, !.tried = {}]
    PROVE  f \in Frames /\ f.cur = g.cur /\ f.pos = 1 /\ f.phase = "second"
<1>1. 1 \in 1..(StmtNum + 1) /\ {} \in SUBSET Tids
  BY StmtNumAssumption
<1>2. f \in Frames
  BY <1>1 DEF Frames
<1>3. f.cur = g.cur /\ f.pos = 1 /\ f.phase = "second"
  BY DEF Frames
<1> QED BY <1>2, <1>3

(* Moving the running activation on keeps the stack linked.                *)
LEMMA LinkedReplace ==
    ASSUME ControlTypeOK, Linked, stack # <<>>,
           NEW f \in Frames, f.cur = Top.cur, f.pos <= f.cur + 1,
           stack' = Replace(f), stmt_index' = stmt_index, done \subseteq done',
           pc' \in {"main", "final"} => pc' = pc
    PROVE  /\ Linked'
           /\ stack' \in Seq(Frames) /\ stack' # <<>> /\ Top' = f
           /\ Len(stack') = Len(stack)
<1> DEFINE n == Len(stack)
<1>1. stack \in Seq(Frames) /\ n \in Nat /\ n >= 1 /\ Top = stack[n]
  BY StackFacts DEF ControlTypeOK, Top
<1>2. /\ stack' \in Seq(Frames) /\ stack' # <<>> /\ Len(stack') = n
      /\ \A k \in 1..(n - 1) : stack'[k] = stack[k]
      /\ stack'[n] = f
  BY <1>1, ReplaceFacts
<1>3. Top' = f
  BY <1>2 DEF Top
<1>4. \A k \in 1..n : stack'[k].cur = stack[k].cur
  BY <1>1, <1>2
<1>5. \A k \in 1..n : stack'[k].cur < stmt_index' /\ stack'[k].pos <= stack'[k].cur + 1
  <2> TAKE k \in 1..n
  <2>1. CASE k = n
    BY <2>1, <1>2, <1>4 DEF Linked
  <2>2. CASE k # n
    BY <2>2, <1>1, <1>2 DEF Linked
  <2> QED BY <2>1, <2>2
<1>6. \A k \in 1..(n - 1) : /\ stack'[k].phase = "second"
                            /\ stack'[k].pos = stack'[k + 1].cur + 2
                            /\ stack'[k + 1].cur + 1 \in done'
  <2> TAKE k \in 1..(n - 1)
  <2>1. k \in 1..n /\ k + 1 \in 1..n
    BY <1>1
  <2> QED BY <2>1, <1>2, <1>4 DEF Linked
<1>7. stack'[1].cur = stack[1].cur
  BY <1>1, <1>4
<1> QED BY <1>2, <1>3, <1>5, <1>6, <1>7 DEF Linked

(* ... and so does an inner call for the statements before i.              *)
LEMMA LinkedPush ==
    ASSUME ControlTypeOK, Linked, stack # <<>>,
           NEW f \in Frames, f.cur = Top.cur, f.phase = "second", f.pos <= f.cur + 1,
           NEW i \in Positions, f.pos = i + 1, i \in done',
           stack' = Append(Replace(f), NewFrame(i - 1)),
           stmt_index' = stmt_index, done \subseteq done',
           pc' \in {"main", "final"} => pc' = pc
    PROVE  /\ Linked'
           /\ stack' \in Seq(Frames) /\ stack' # <<>> /\ Top' = NewFrame(i - 1)
<1> DEFINE n == Len(stack)
           g == NewFrame(i - 1)
<1>0. i \in Nat /\ 1 <= i /\ i <= StmtNum /\ StmtNum \in Nat
  BY StmtNumAssumption DEF Positions
<1>1. stack \in Seq(Frames) /\ n \in Nat /\ n >= 1 /\ Top = stack[n]
  BY StackFacts DEF ControlTypeOK, Top
<1>2. g \in Frames /\ g.cur = i - 1 /\ g.pos = 1
  BY <1>0, NewFrameType DEF NewFrame
<1>3. /\ stack' \in Seq(Frames) /\ stack' # <<>> /\ Len(stack') = n + 1
      /\ \A k \in 1..(n - 1) : stack'[k] = stack[k]
      /\ stack'[n] = f
      /\ stack'[n + 1] = g
  <2> DEFINE r == Replace(f)
  <2>1. /\ r \in Seq(Frames) /\ Len(r) = n
        /\ \A k \in 1..(n - 1) : r[k] = stack[k]
        /\ r[n] = f
    BY <1>1, ReplaceFacts
  <2>2. stack' = Append(r, g)
    OBVIOUS
  <2> HIDE DEF r, g
  <2>3. /\ stack' \in Seq(Frames) /\ stack' # <<>> /\ Len(stack') = Len(r) + 1
        /\ \A k \in 1..Len(r) : stack'[k] = r[k]
        /\ stack'[Len(r) + 1] = g
    <3>1. r \in Seq(Frames) /\ g \in Frames
      BY <1>2, <2>1
    <3>2. /\ Append(r, g) \in Seq(Frames) /\ Append(r, g) # <<>>
          /\ Len(Append(r, g)) = Len(r) + 1
          /\ \A k \in 1..Len(r) : Append(r, g)[k] = r[k]
          /\ Append(r, g)[Len(r) + 1] = g
      BY <3>1, AppendProperties
    <3> QED BY <3>2, <2>2
  <2> QED BY <1>1, <2>1, <2>3
<1> HIDE DEF g
<1>4. Top' = g
  BY <1>3 DEF Top
<1>5. \A k \in 1..n : stack'[k].cur = stack[k].cur
  BY <1>1, <1>3
<1>6. f.cur < stmt_index /\ f.cur \in Nat /\ i <= f.cur
  <2>1. f.cur \in Nat
    BY <1>0 DEF Frames
  <2>2. stack[n].cur < stmt_index
    BY <1>1 DEF Linked
  <2> QED BY <1>0, <1>1, <2>1, <2>2
<1>7. \A k \in 1..(n + 1) : stack'[k].cur < stmt_index' /\ stack'[k].pos <= stack'[k].cur + 1
  <2> TAKE k \in 1..(n + 1)
  <2>1. CASE k = n + 1
    BY <2>1, <1>0, <1>2, <1>3, <1>6 DEF ControlTypeOK
  <2>2. CASE k = n
    BY <2>2, <1>3, <1>6
  <2>3. CASE k # n /\ k # n + 1
    <3>1. k \in 1..(n - 1) /\ k \in 1..n
      BY <2>3, <1>1
    <3> QED BY <3>1, <1>3 DEF Linked
  <2> QED BY <2>1, <2>2, <2>3
<1>8. \A k \in 1..n : /\ stack'[k].phase = "second"
                      /\ stack'[k].pos = stack'[k + 1].cur + 2
                      /\ stack'[k + 1].cur + 1 \in done'
  <2> TAKE k \in 1..n
  <2>1. CASE k = n
    BY <2>1, <1>0, <1>2, <1>3
  <2>2. CASE k # n
    <3>1. k \in 1..(n - 1) /\ k + 1 \in 1..n
      BY <2>2, <1>1
    <3> QED BY <3>1, <1>3, <1>5 DEF Linked
  <2> QED BY <2>1, <2>2
<1>9. stack'[1].cur = stack[1].cur
  BY <1>1, <1>5
<1> QED BY <1>3, <1>4, <1>7, <1>8, <1>9 DEF Linked

-----------------------------------------------------------------------------
(* The effect of a step that sends statement p, on what lies behind a      *)
(* position: nothing that was done becomes undone.                         *)
LEMMA RecordBehind ==
    ASSUME CaseTypeOK, NEW p \in Positions, NEW u \in TransTestUnit(p), Record(p, u)
    PROVE  /\ done \subseteq done'
           /\ \A r \in Tids, q \in Nat : BehindDone(r, q) => BehindDone(r, q)'
           /\ \A r \in Tids : r # queue[p].tid => is_blocked'[r] = is_blocked[r]
           /\ pc' \in {"main", "final"} => pc' = pc
<1>1. done \subseteq done'
  BY RecordEffect
<1>2. \A i \in Positions : queue'[i].tid = queue[i].tid
  BY RecordEffect
<1>3. \A r \in Tids, q \in Nat : BehindDone(r, q) => BehindDone(r, q)'
  BY <1>1, <1>2 DEF BehindDone
<1>4. \A r \in Tids : r # queue[p].tid => is_blocked'[r] = is_blocked[r]
  BY DEF Record, CaseTypeOK
<1>5. pc' \in {"main", "final"} => pc' = pc
  <2>1. pc' = IF u.ret \in {"threw", "exited"} THEN u.ret ELSE pc
    BY RecordEffect
  <2> QED BY <2>1
<1> QED BY <1>1, <1>3, <1>4, <1>5

(* If p was the next statement behind q for an unblocked transaction, then *)
(* afterwards every unblocked transaction is done up to and including p.   *)
LEMMA RecordUnblocked ==
    ASSUME CaseTypeOK, NEW p \in Positions, NEW u \in TransTestUnit(p), Record(p, u),
           \A r \in Tids : ~is_blocked[r] => BehindDone(r, p),
           ~is_blocked[queue[p].tid], pc' \in {"main", "final"},
           NEW r \in Tids, ~is_blocked'[r]
    PROVE  BehindDone(r, p + 1)'
<1> DEFINE t == queue[p].tid
<1>0. p \in Nat /\ t \in Tids /\ Positions \subseteq Nat
  BY StmtNumAssumption DEF Positions, CaseTypeOK
<1>1. \A i \in Positions : queue'[i].tid = queue[i].tid
  BY RecordEffect
<1> SUFFICES ASSUME NEW i \in Positions, i < p + 1, queue'[i].tid = r
             PROVE  i \in done'
  BY DEF BehindDone
<1>a. i \in Nat /\ (i < p \/ i = p) /\ queue[i].tid = r
  <2>1. queue[i].tid = r
    BY <1>1
  <2>2. i \in Nat /\ p \in Nat
    BY <1>0
  <2>3. i < p \/ i = p
    BY <2>2
  <2> QED BY <2>1, <2>2, <2>3
<1>2. CASE r = t
  <2>1. Pushes(u)
    <3> SUFFICES ASSUME ~Pushes(u) PROVE FALSE
      OBVIOUS
    <3>1. is_blocked' = [is_blocked EXCEPT ![t] = TRUE]
      BY RecordEffect
    <3> QED BY <3>1, <1>0, <1>2 DEF CaseTypeOK
  <2>2. done' = done \union {p}
    BY <2>1, RecordEffect
  <2>3. BehindDone(r, p)
    BY <1>2, <1>0
  <2> QED BY <2>2, <2>3, <1>a DEF BehindDone
<1>3. CASE r # t
  <2>1. BehindDone(r, p) /\ done \subseteq done'
    BY <1>3, RecordBehind
  <2>2. i # p
    BY <1>a, <1>3
  <2> QED BY <2>1, <2>2, <1>a DEF BehindDone
<1> QED BY <1>2, <1>3

(* A statement sent by the loop of trans_test keeps the invariant.         *)
LEMMA MainTryInv ==
    ASSUME IInv, MainTry
    PROVE  IInv'
<1> PICK p : p = stmt_index
  OBVIOUS
<1> DEFINE t == queue[p].tid
<1>0. CaseInv /\ CaseTypeOK /\ ControlTypeOK /\ Frontier /\ Linked /\ Counters
  BY DEF IInv, ControlInv, CaseInv
<1>1. p \in Positions /\ StmtNum \in Nat /\ Positions \subseteq Nat
  BY <1>0, StmtNumAssumption DEF MainTry, ControlTypeOK, Positions
<1>2. t \in Tids /\ ~is_blocked[t] /\ pc = "main" /\ stack = <<>> /\ stmt_index' = p + 1
  BY <1>0, <1>1 DEF MainTry, CaseTypeOK
<1>3. p \notin done
  BY <1>0, <1>1 DEF Counters
<1>4. \A r \in Tids : ~is_blocked[r] => BehindDone(r, p)
  BY <1>0, <1>2 DEF Frontier
<1>5. PICK u \in TransTestUnit(p) :
          /\ Record(p, u)
          /\ stack' = IF EndsTxn(p, u) THEN <<NewFrame(p - 1)>> ELSE <<>>
  BY DEF MainTry
<1>6. CaseInv'
  BY <1>0, <1>1, <1>2, <1>3, <1>4, <1>5, RecordCase
<1>7. /\ NewFrame(p - 1) \in Frames /\ NewFrame(p - 1).cur = p - 1 /\ NewFrame(p - 1).pos = 1
      /\ NewFrame(p - 1).phase = "first"
  BY <1>1, NewFrameType DEF NewFrame, Positions
<1>8. /\ pc' = IF u.ret \in {"threw", "exited"} THEN u.ret ELSE pc
      /\ done' \subseteq done \union {p}
      /\ EndsTxn(p, u) => p \in done'
  BY <1>0, <1>1, <1>5, RecordEffect DEF EndsTxn, Pushes
<1>9. ControlTypeOK'
  <2>1. stack' \in Seq(Frames)
    BY <1>5, <1>7
  <2>2. executed' = executed /\ no_change' = no_change
    BY DEF MainTry
  <2>3. pc' \in {"main", "final", "ok", "not_executed", "size_mismatch", "threw", "exited"}
    BY <1>8, <1>2
  <2> QED BY <2>1, <2>2, <2>3, <1>0, <1>1, <1>2 DEF ControlTypeOK, Positions
<1>10. Frontier'
  <2> SUFFICES ASSUME pc' \in {"main", "final"}
               PROVE  IF stack' = <<>>
                      THEN \A r \in Tids : ~is_blocked'[r] => BehindDone(r, p + 1)'
                      ELSE IF Top'.phase = "second"
                           THEN \A r \in Tids : ~is_blocked'[r] => BehindDone(r, Top.pos)'
                           ELSE \A r \in Tids : is_blocked'[r] /\ r \notin Top'.tried =>
                                    BehindDone(r, Top.pos)'
    BY <1>2 DEF Frontier, BehindDone
  <2>1. CASE EndsTxn(p, u)
    <3>1. stack' = <<NewFrame(p - 1)>>
      BY <2>1, <1>5
    <3>2. stack' # <<>> /\ Top' = NewFrame(p - 1)
      BY <3>1 DEF Top
    <3>3. Top'.pos = 1 /\ Top'.phase = "first"
      BY <3>2, <1>7
    <3>4. \A r \in Tids : BehindDone(r, Top.pos)'
      BY <3>3, <1>1 DEF BehindDone, Positions
    <3> QED BY <3>2, <3>3, <3>4
  <2>2. CASE ~EndsTxn(p, u)
    <3>1. stack' = <<>>
      BY <2>2, <1>5
    <3>2. \A r \in Tids : ~is_blocked'[r] => BehindDone(r, p + 1)'
      BY <1>0, <1>1, <1>2, <1>4, <1>5, RecordUnblocked
    <3> QED BY <3>1, <3>2
  <2> QED BY <2>1, <2>2
<1>11. Linked'
  <2>1. pc' # "final"
    BY <1>8, <1>2
  <2>2. CASE EndsTxn(p, u)
    <3>1. stack' = <<NewFrame(p - 1)>> /\ p \in done'
      BY <2>2, <1>5, <1>8
    <3>2. Len(stack') = 1 /\ stack'[1] = NewFrame(p - 1)
      BY <3>1
    <3>3. stack'[1].cur = p - 1 /\ stack'[1].pos = 1 /\ 1 <= p
      BY <3>2, <1>1, <1>7 DEF Positions
    <3>4. \A k \in 1..Len(stack') : stack'[k].cur < stmt_index' /\ stack'[k].pos <= stack'[k].cur + 1
      BY <3>2, <3>3, <1>1, <1>2
    <3>5. stmt_index' = stack'[1].cur + 2 /\ stack'[1].cur + 1 \in done'
      <4>1. p - 1 + 1 = p /\ p - 1 + 2 = p + 1
        BY <1>1
      <4> QED BY <4>1, <3>1, <3>3, <1>2
    <3>6. 1..(Len(stack') - 1) = {}
      BY <3>2
    <3> QED BY <3>4, <3>5, <3>6, <2>1 DEF Linked
  <2>3. CASE ~EndsTxn(p, u)
    <3>1. stack' = <<>> /\ Len(stack') = 0
      BY <2>3, <1>5
    <3> QED BY <3>1, <2>1 DEF Linked
  <2> QED BY <2>2, <2>3
<1>12. Counters'
  <2>1. \A i \in done' : i < stmt_index'
    BY <1>0, <1>1, <1>2, <1>8 DEF Counters, CaseTypeOK
  <2>2. no_change' = no_change
    BY DEF MainTry
  <2> QED BY <2>1, <2>2, <1>0, <1>2, <1>8 DEF Counters
<1> QED BY <1>6, <1>9, <1>10, <1>11, <1>12 DEF IInv, ControlInv

(* Passing over a blocked transaction in trans_test keeps the invariant.   *)
LEMMA MainSkipInv ==
    ASSUME IInv, MainSkip
    PROVE  IInv'
<1>0. CaseInv /\ CaseTypeOK /\ ControlTypeOK /\ Frontier /\ Linked /\ Counters
  BY DEF IInv, ControlInv, CaseInv
<1>1. PICK p \in Positions : p = stmt_index
  BY <1>0, StmtNumAssumption DEF MainSkip, ControlTypeOK, Positions
<1>2. /\ is_blocked[queue[p].tid] /\ pc = "main" /\ stack = <<>> /\ stmt_index' = p + 1
      /\ p \in Nat /\ Positions \subseteq Nat /\ p <= StmtNum
  BY <1>1, StmtNumAssumption DEF MainSkip, Positions
<1>3. /\ queue' = queue /\ txn_status' = txn_status /\ is_blocked' = is_blocked /\ conn' = conn
      /\ outputs' = outputs /\ done' = done /\ real' = real /\ skipped' = skipped
      /\ stack' = stack /\ executed' = executed /\ no_change' = no_change /\ pc' = pc
  BY DEF MainSkip, caseVars
<1>4. CaseInv'
  BY <1>0, <1>3 DEF CaseInv, CaseTypeOK, DoneIsPrefix, ScheduleKeepsOrder, RealRange, OutputsRange
<1>5. ControlTypeOK'
  BY <1>0, <1>1, <1>2, <1>3, StmtNumAssumption DEF ControlTypeOK
<1>6. Frontier'
  <2>1. \A r \in Tids : ~is_blocked[r] => BehindDone(r, p)
    BY <1>0, <1>1, <1>2 DEF Frontier
  <2>2. \A r \in Tids : ~is_blocked'[r] => BehindDone(r, p + 1)'
    <3> SUFFICES ASSUME NEW r \in Tids, ~is_blocked[r], NEW i \in Positions, i < p + 1, queue[i].tid = r
                 PROVE  i \in done
      BY <1>3 DEF BehindDone
    <3>1. i # p
      BY <1>2
    <3>2. i < p
      BY <3>1, <1>2
    <3> QED BY <2>1, <3>2 DEF BehindDone
  <2> QED BY <2>2, <1>2, <1>3 DEF Frontier, BehindDone
<1>7. Linked' /\ Counters'
  <2>1. \A i \in done' : i < stmt_index'
    BY <1>0, <1>1, <1>2, <1>3 DEF Counters, CaseTypeOK
  <2>2. Len(stack') = 0
    BY <1>2, <1>3
  <2> QED BY <2>1, <2>2, <1>0, <1>2, <1>3 DEF Linked, Counters
<1> QED BY <1>4, <1>5, <1>6, <1>7 DEF IInv, ControlInv

(* Every statement before i that the first loop passed over is done, if    *)
(* its transaction waits and had no turn yet.                              *)
LEMMA FirstBehind ==
    ASSUME IInv, pc \in {"main", "final"}, stack # <<>>, Top.phase = "first",
           NEW i \in FirstEligible(Top), \A j \in FirstEligible(Top) : i <= j
    PROVE  \A r \in Tids : is_blocked[r] /\ r \notin Top.tried => BehindDone(r, i)
<1>0. ControlTypeOK /\ Frontier
  BY DEF IInv, ControlInv
<1> SUFFICES ASSUME NEW r \in Tids, is_blocked[r], r \notin Top.tried,
                    NEW j \in Positions, j < i, queue[j].tid = r
             PROVE  j \in done
  BY DEF BehindDone
<1>1. BehindDone(r, Top.pos)
  BY <1>0 DEF Frontier
<1>2. PICK g \in Frames : g = Top
  BY <1>0, StackFacts DEF ControlTypeOK
<1>3. g.cur \in Nat /\ g.pos \in Nat /\ j \in Nat /\ i \in Nat /\ i <= g.cur
  BY <1>2, FrameTypes, StmtNumAssumption DEF Positions, FirstEligible
<1>4. CASE j < Top.pos
  BY <1>1, <1>4 DEF BehindDone
<1>5. CASE ~(j < Top.pos)
  <2>1. Top.pos <= j /\ j <= Top.cur
    BY <1>2, <1>3, <1>5
  <2>2. j \notin FirstEligible(Top)
    BY <1>3
  <2> QED BY <2>1, <2>2 DEF FirstEligible
<1> QED BY <1>4, <1>5

(* The first loop of retry_block_stmt keeps the invariant.                 *)
LEMMA FirstTryInv ==
    ASSUME IInv, FirstTry
    PROVE  IInv'
<1>0. CaseInv /\ CaseTypeOK /\ ControlTypeOK /\ Frontier /\ Linked /\ Counters
  BY DEF IInv, ControlInv, CaseInv
<1>1. /\ pc \in {"main", "final"} /\ stack # <<>> /\ Top.phase = "first"
      /\ stmt_index' = stmt_index /\ executed' = executed /\ no_change' = no_change
  BY DEF FirstTry
<1>2. PICK i \in FirstEligible(Top) :
          /\ \A j \in FirstEligible(Top) : i <= j
          /\ \E u \in TransTestUnit(i) : Record(i, u)
          /\ stack' = Replace([Top EXCEPT !.pos = i + 1, !.tried = @ \union {queue[i].tid}])
  BY DEF FirstTry
<1>3. PICK u \in TransTestUnit(i) : Record(i, u)
  BY <1>2
<1> DEFINE t == queue[i].tid
<1>f. PICK f : f = [Top EXCEPT !.pos = i + 1, !.tried = @ \union {t}]
  OBVIOUS
<1>4. /\ i \in Positions /\ Top.pos <= i /\ i <= Top.cur /\ i \notin done
      /\ is_blocked[t] /\ t \notin Top.tried /\ t \in Tids
      /\ StmtNum \in Nat /\ Positions \subseteq Nat /\ i <= StmtNum
  BY <1>0, <1>2, StmtNumAssumption DEF FirstEligible, CaseTypeOK, Positions
<1>5. Top \in Frames /\ Top.cur \in Nat /\ Top.pos \in Nat /\ Top.cur < stmt_index /\ stmt_index \in Nat
  <2>1. Top \in Frames /\ Len(stack) \in 1..Len(stack)
    BY <1>0, <1>1, StackFacts DEF ControlTypeOK
  <2> QED BY <2>1, <1>0, <1>4 DEF Linked, Top, Frames, ControlTypeOK
<1>6. f \in Frames /\ f.cur = Top.cur /\ f.pos = i + 1 /\ f.phase = "first" /\ f.tried = Top.tried \union {t}
  <2>1. i + 1 \in 1..(StmtNum + 1)
    BY <1>4
  <2>2. PICK g \in Frames : g = Top
    BY <1>5
  <2>3. PICK r \in Tids : r = t
    BY <1>4
  <2>4. f = [g EXCEPT !.pos = i + 1, !.tried = @ \union {r}]
    BY <2>2, <2>3, <1>f
  <2>5. f \in Frames
    BY <2>1, <2>4, StmtNumAssumption DEF Frames
  <2>6. f.cur = g.cur /\ f.pos = i + 1 /\ f.phase = g.phase /\ f.tried = g.tried \union {r}
    BY <2>4 DEF Frames
  <2> QED BY <2>2, <2>3, <2>5, <2>6, <1>1
<1>7. \A r \in Tids : is_blocked[r] /\ r \notin Top.tried => BehindDone(r, i)
  BY <1>1, <1>2, <1>4, FirstBehind
<1>8. CaseInv'
  BY <1>0, <1>3, <1>4, <1>7, RecordCase
<1>9. /\ done \subseteq done' /\ done' \subseteq done \union {i}
      /\ pc' = IF u.ret \in {"threw", "exited"} THEN u.ret ELSE pc
      /\ \A j \in Positions : queue'[j].tid = queue[j].tid
      /\ \A r \in Tids : r # t => is_blocked'[r] = is_blocked[r]
  BY <1>0, <1>3, <1>4, RecordEffect, RecordBehind
<1>10. Linked' /\ stack' \in Seq(Frames) /\ stack' # <<>> /\ Top' = f
  <2>1. f.pos <= f.cur + 1
    BY <1>4, <1>5, <1>6
  <2>2. stack' = Replace(f)
    BY <1>2, <1>f
  <2>3. pc' \in {"main", "final"} => pc' = pc
    BY <1>9
  <2> QED BY <1>0, <1>1, <1>6, <1>9, <2>1, <2>2, <2>3, LinkedReplace
<1>11. ControlTypeOK'
  BY <1>0, <1>1, <1>9, <1>10 DEF ControlTypeOK
<1>12. Frontier'
  <2> SUFFICES ASSUME NEW r \in Tids, is_blocked'[r], r \notin f.tried
               PROVE  BehindDone(r, f.pos)'
    BY <1>6, <1>10 DEF Frontier, BehindDone
  <2>1. r # t /\ is_blocked[r] /\ r \notin Top.tried
    BY <1>6, <1>9
  <2>2. BehindDone(r, i)
    BY <2>1, <1>7
  <2> SUFFICES ASSUME NEW j \in Positions, j < i + 1, queue[j].tid = r
               PROVE  j \in done'
    BY <1>6, <1>9 DEF BehindDone
  <2>3. j # i /\ j < i
    BY <2>1, <1>4
  <2> QED BY <2>2, <2>3, <1>9 DEF BehindDone
<1>13. Counters'
  <2>1. \A j \in done' : j < stmt_index'
    BY <1>0, <1>1, <1>4, <1>5, <1>9 DEF Counters
  <2> QED BY <2>1, <1>0, <1>1, <1>9 DEF Counters
<1> QED BY <1>8, <1>10, <1>11, <1>12, <1>13 DEF IInv, ControlInv

(* The change from the first to the second loop keeps the invariant.       *)
LEMMA FirstDoneInv ==
    ASSUME IInv, FirstDone
    PROVE  IInv'
<1>0. CaseInv /\ CaseTypeOK /\ ControlTypeOK /\ Frontier /\ Linked /\ Counters
  BY DEF IInv, ControlInv, CaseInv
<1>1. /\ queue' = queue /\ txn_status' = txn_status /\ is_blocked' = is_blocked /\ conn' = conn
      /\ outputs' = outputs /\ done' = done /\ real' = real /\ skipped' = skipped
      /\ stmt_index' = stmt_index /\ executed' = executed /\ no_change' = no_change /\ pc' = pc
      /\ pc \in {"main", "final"} /\ stack # <<>>
      /\ stack' = Replace([Top EXCEPT !.phase = "second", !.pos = 1, !.tried = {}])
  BY DEF FirstDone, caseVars
<1>2. CaseInv'
  BY <1>0, <1>1 DEF CaseInv, CaseTypeOK, DoneIsPrefix, ScheduleKeepsOrder, RealRange, OutputsRange
<1>f. PICK f : f = [Top EXCEPT !.phase = "second", !.pos = 1, !.tried = {}]
  OBVIOUS
<1>3. Top \in Frames
  BY <1>0, <1>1, StackFacts DEF ControlTypeOK
<1>4. f \in Frames /\ f.cur = Top.cur /\ f.pos = 1 /\ f.phase = "second" /\ f.pos <= f.cur + 1
  <2>1. PICK g \in Frames : g = Top
    BY <1>3
  <2>2. f = [g EXCEPT !.phase = "second", !.pos = 1, !.tried = {}]
    BY <2>1, <1>f
  <2>3. f \in Frames /\ f.cur = g.cur /\ f.pos = 1 /\ f.phase = "second"
    BY <2>2, FrameRestart
  <2>4. f.cur \in Nat
    BY <2>3, FrameTypes
  <2> QED BY <2>1, <2>3, <2>4
<1>5. Linked' /\ stack' \in Seq(Frames) /\ stack' # <<>> /\ Top' = f
  <2>1. stack' = Replace(f)
    BY <1>1, <1>f
  <2> QED BY <2>1, <1>0, <1>1, <1>4, LinkedReplace
<1>6. ControlTypeOK' /\ Counters'
  BY <1>0, <1>1, <1>5 DEF ControlTypeOK, Counters
<1>7. Frontier'
  <2>1. \A r \in Tids : BehindDone(r, Top.pos)'
    BY <1>4, <1>5, StmtNumAssumption DEF BehindDone, Positions
  <2> QED BY <2>1, <1>4, <1>5 DEF Frontier
<1> QED BY <1>2, <1>5, <1>6, <1>7 DEF IInv, ControlInv

(* Every statement before i that the second loop passed over belongs to a  *)
(* blocked transaction or is done.                                         *)
LEMMA SecondBehind ==
    ASSUME IInv, pc \in {"main", "final"}, stack # <<>>, Top.phase = "second",
           NEW i \in Nat, i <= Top.cur + 1,
           \A j \in SecondEligible(Top) : i <= j
    PROVE  \A r \in Tids : ~is_blocked[r] => BehindDone(r, i)
<1>0. ControlTypeOK /\ Frontier
  BY DEF IInv, ControlInv
<1> SUFFICES ASSUME NEW r \in Tids, ~is_blocked[r], NEW j \in Positions, j < i, queue[j].tid = r
             PROVE  j \in done
  BY DEF BehindDone
<1>1. BehindDone(r, Top.pos)
  BY <1>0 DEF Frontier
<1>2. PICK g \in Frames : g = Top
  BY <1>0, StackFacts DEF ControlTypeOK
<1>3. g.cur \in Nat /\ g.pos \in Nat /\ j \in Nat
  BY FrameTypes, StmtNumAssumption DEF Positions
<1>4. CASE j < Top.pos
  BY <1>1, <1>4 DEF BehindDone
<1>5. CASE ~(j < Top.pos)
  <2>1. Top.pos <= j /\ j <= Top.cur
    BY <1>2, <1>3, <1>5
  <2>2. j \notin SecondEligible(Top)
    BY <1>3
  <2> QED BY <2>1, <2>2 DEF SecondEligible
<1> QED BY <1>4, <1>5

(* The second loop, with its recursive call, keeps the invariant.          *)
LEMMA SecondTryInv ==
    ASSUME IInv, SecondTry
    PROVE  IInv'
<1>0. CaseInv /\ CaseTypeOK /\ ControlTypeOK /\ Frontier /\ Linked /\ Counters
  BY DEF IInv, ControlInv, CaseInv
<1>1. /\ pc \in {"main", "final"} /\ stack # <<>> /\ Top.phase = "second"
      /\ stmt_index' = stmt_index /\ executed' = executed /\ no_change' = no_change
  BY DEF SecondTry
<1>2. PICK i \in SecondEligible(Top) :
          /\ \A j \in SecondEligible(Top) : i <= j
          /\ \E u \in TransTestUnit(i) :
                /\ Record(i, u)
                /\ stack' = IF EndsTxn(i, u)
                            THEN Append(Replace([Top EXCEPT !.pos = i + 1]), NewFrame(i - 1))
                            ELSE Replace([Top EXCEPT !.pos = i + 1])
  BY DEF SecondTry
<1>f. PICK f : f = [Top EXCEPT !.pos = i + 1]
  OBVIOUS
<1>3. PICK u \in TransTestUnit(i) :
          /\ Record(i, u)
          /\ stack' = IF EndsTxn(i, u) THEN Append(Replace(f), NewFrame(i - 1)) ELSE Replace(f)
  BY <1>2, <1>f
<1> DEFINE t == queue[i].tid
<1>4. /\ i \in Positions /\ Top.pos <= i /\ i <= Top.cur /\ i \notin done
      /\ ~is_blocked[t] /\ t \in Tids /\ i \in Nat
      /\ StmtNum \in Nat /\ Positions \subseteq Nat /\ 1 <= i /\ i <= StmtNum
  BY <1>0, <1>2, StmtNumAssumption DEF SecondEligible, CaseTypeOK, Positions
<1>5. Top \in Frames /\ Top.cur \in Nat /\ Top.pos \in Nat /\ Top.cur < stmt_index /\ stmt_index \in Nat
  <2>1. Top \in Frames /\ Len(stack) \in 1..Len(stack)
    BY <1>0, <1>1, StackFacts DEF ControlTypeOK
  <2> QED BY <2>1, <1>0, <1>4 DEF Linked, Top, Frames, ControlTypeOK
<1>6. f \in Frames /\ f.cur = Top.cur /\ f.pos = i + 1 /\ f.phase = "second" /\ f.pos <= f.cur + 1
  <2>1. i + 1 \in 1..(StmtNum + 1)
    BY <1>4
  <2>2. PICK g \in Frames : g = Top
    BY <1>5
  <2>3. f = [g EXCEPT !.pos = i + 1]
    BY <2>2, <1>f
  <2>4. f \in Frames /\ f.cur = g.cur /\ f.pos = i + 1 /\ f.phase = g.phase
    BY <2>1, <2>3, FrameSecond
  <2> QED BY <2>2, <2>4, <1>1, <1>4, <1>5
<1>7. \A r \in Tids : ~is_blocked[r] => BehindDone(r, i)
  BY <1>1, <1>2, <1>4, <1>5, SecondBehind
<1>8. CaseInv'
  BY <1>0, <1>3, <1>4, <1>7, RecordCase
<1>9. /\ done \subseteq done' /\ done' \subseteq done \union {i}
      /\ pc' = IF u.ret \in {"threw", "exited"} THEN u.ret ELSE pc
      /\ EndsTxn(i, u) => i \in done'
  BY <1>0, <1>3, <1>4, RecordEffect, RecordBehind DEF EndsTxn, Pushes
<1>10. pc' \in {"main", "final"} => pc' = pc
  BY <1>9
<1>11. Linked' /\ stack' \in Seq(Frames) /\ Frontier'
  <2>1. CASE EndsTxn(i, u)
    <3>1. stack' = Append(Replace(f), NewFrame(i - 1)) /\ i \in done'
      BY <2>1, <1>3, <1>9
    <3>2. Linked' /\ stack' \in Seq(Frames) /\ stack' # <<>> /\ Top' = NewFrame(i - 1)
      BY <3>1, <1>0, <1>1, <1>4, <1>6, <1>9, <1>10, LinkedPush
    <3>3. Top'.pos = 1 /\ Top'.phase = "first"
      BY <3>2 DEF NewFrame
    <3>4. \A r \in Tids : BehindDone(r, Top.pos)'
      BY <3>3, StmtNumAssumption DEF BehindDone, Positions
    <3> QED BY <3>2, <3>3, <3>4 DEF Frontier
  <2>2. CASE ~EndsTxn(i, u)
    <3>1. stack' = Replace(f)
      BY <2>2, <1>3
    <3>2. Linked' /\ stack' \in Seq(Frames) /\ stack' # <<>> /\ Top' = f
      BY <3>1, <1>0, <1>1, <1>6, <1>9, <1>10, LinkedReplace
    <3>3. ASSUME pc' \in {"main", "final"}, NEW r \in Tids, ~is_blocked'[r]
          PROVE  BehindDone(r, i + 1)'
      BY <3>3, <1>0, <1>3, <1>4, <1>7, RecordUnblocked
    <3>4. pc' \in {"main", "final"} => \A r \in Tids : ~is_blocked'[r] => BehindDone(r, f.pos)'
      BY <3>3, <1>6
    <3> QED BY <3>2, <3>4, <1>6 DEF Frontier, BehindDone
  <2> QED BY <2>1, <2>2
<1>12. ControlTypeOK'
  BY <1>0, <1>1, <1>9, <1>11 DEF ControlTypeOK
<1>13. Counters'
  <2>1. \A j \in done' : j < stmt_index'
    BY <1>0, <1>1, <1>4, <1>5, <1>9 DEF Counters
  <2> QED BY <2>1, <1>0, <1>1, <1>9 DEF Counters
<1> QED BY <1>8, <1>11, <1>12, <1>13 DEF IInv, ControlInv

(* The return of an activation hands its caller what the invariant asks.   *)
LEMMA ReturnInv ==
    ASSUME IInv, Return
    PROVE  IInv'
<1>0. CaseInv /\ CaseTypeOK /\ ControlTypeOK /\ Frontier /\ Linked /\ Counters
  BY DEF IInv, ControlInv, CaseInv
<1>1. /\ queue' = queue /\ txn_status' = txn_status /\ is_blocked' = is_blocked /\ conn' = conn
      /\ outputs' = outputs /\ done' = done /\ real' = real /\ skipped' = skipped
      /\ stmt_index' = stmt_index /\ executed' = executed /\ no_change' = no_change /\ pc' = pc
      /\ pc \in {"main", "final"} /\ stack # <<>> /\ Top.phase = "second"
      /\ SecondEligible(Top) = {} /\ stack' = Pop
  BY DEF Return, caseVars
<1>2. CaseInv'
  BY <1>0, <1>1 DEF CaseInv, CaseTypeOK, DoneIsPrefix, ScheduleKeepsOrder, RealRange, OutputsRange
<1>3. PICK n \in Nat : n = Len(stack) /\ n >= 1
  BY <1>0, <1>1, StackFacts DEF ControlTypeOK
<1>4. /\ stack' \in Seq(Frames) /\ Len(stack') = n - 1
      /\ \A k \in 1..(n - 1) : stack'[k] = stack[k]
      /\ Top \in Frames /\ Top = stack[n]
  BY <1>0, <1>1, <1>3, StackFacts DEF ControlTypeOK, Top
<1>5. PICK c \in Nat : c = Top.cur /\ c <= StmtNum
  BY <1>4, FrameTypes
<1>6. \A r \in Tids : ~is_blocked[r] => BehindDone(r, c + 1)
  BY <1>1, <1>5, SecondBehind
<1>7. c + 1 \in done => \A r \in Tids : ~is_blocked[r] => BehindDone(r, c + 2)
  <2> SUFFICES ASSUME c + 1 \in done, NEW r \in Tids, ~is_blocked[r],
                      NEW j \in Positions, j < c + 2, queue[j].tid = r
               PROVE  j \in done
    BY DEF BehindDone
  <2>1. j \in Nat
    BY StmtNumAssumption DEF Positions
  <2>2. j = c + 1 \/ j < c + 1
    BY <2>1
  <2> QED BY <2>2, <1>6 DEF BehindDone
<1>8. Linked'
  <2>1. \A k \in 1..(n - 1) : stack'[k].cur < stmt_index /\ stack'[k].pos <= stack'[k].cur + 1
    BY <1>0, <1>3, <1>4 DEF Linked
  <2>2. \A k \in 1..(n - 1 - 1) : /\ stack'[k].phase = "second"
                                  /\ stack'[k].pos = stack'[k + 1].cur + 2
                                  /\ stack'[k + 1].cur + 1 \in done
    <3> TAKE k \in 1..(n - 1 - 1)
    <3>1. k \in 1..(n - 1) /\ k + 1 \in 1..(n - 1)
      BY <1>3
    <3> QED BY <3>1, <1>0, <1>3, <1>4 DEF Linked
  <2>3. stack' # <<>> => stack'[1] = stack[1]
    <3> SUFFICES ASSUME stack' # <<>> PROVE stack'[1] = stack[1]
      OBVIOUS
    <3>1. n - 1 >= 1
      BY <1>3, <1>4, EmptySeq
    <3> QED BY <3>1, <1>3, <1>4
  <2> QED BY <2>1, <2>2, <2>3, <1>0, <1>1, <1>4 DEF Linked
<1>9. Frontier'
  <2>1. CASE n = 1
    <3>1. stack' = <<>>
      BY <2>1, <1>4, EmptySeq
    <3>2. stack[1].cur = c
      BY <2>1, <1>4, <1>5
    <3>3. CASE pc = "main"
      <4>1. stmt_index = c + 2 /\ c + 1 \in done
        BY <3>2, <3>3, <1>0, <1>1 DEF Linked
      <4>2. \A r \in Tids : ~is_blocked[r] => BehindDone(r, stmt_index)
        BY <4>1, <1>7
      <4> QED BY <3>1, <4>2, <1>1 DEF Frontier, BehindDone
    <3>4. CASE pc = "final"
      <4>1. stmt_index = c + 1
        BY <3>2, <3>4, <1>0, <1>1 DEF Linked
      <4>2. \A r \in Tids : ~is_blocked[r] => BehindDone(r, stmt_index)
        BY <4>1, <1>6
      <4> QED BY <3>1, <4>2, <1>1 DEF Frontier, BehindDone
    <3> QED BY <3>3, <3>4, <1>1
  <2>2. CASE n # 1
    <3>1. PICK m \in 1..(n - 1) : m = n - 1
      BY <2>2, <1>3
    <3>2. stack' # <<>> /\ Top' = stack[m]
      BY <3>1, <1>3, <1>4 DEF Top
    <3>3. stack[m].phase = "second" /\ stack[m].pos = stack[m + 1].cur + 2 /\ stack[m + 1].cur + 1 \in done
      BY <3>1, <1>0, <1>3 DEF Linked
    <3>4. m + 1 = n
      BY <3>1
    <3>5. Top'.phase = "second" /\ Top'.pos = c + 2 /\ c + 1 \in done
      BY <3>2, <3>3, <3>4, <1>4, <1>5
    <3>6. \A r \in Tids : ~is_blocked'[r] => BehindDone(r, Top.pos)'
      BY <3>5, <1>1, <1>7 DEF BehindDone
    <3> QED BY <3>2, <3>5, <3>6 DEF Frontier
  <2> QED BY <2>1, <2>2
<1>10. ControlTypeOK' /\ Counters'
  BY <1>0, <1>1, <1>4 DEF ControlTypeOK, Counters
<1> QED BY <1>2, <1>8, <1>9, <1>10 DEF IInv, ControlInv

-----------------------------------------------------------------------------
(* The end of trans_test: its two checks agree.                            *)
LEMMA VerdictFacts ==
    ASSUME CaseInv
    PROVE  /\ Verdict \in {"ok", "not_executed"}
           /\ Cardinality(done) \in Nat
<1>1. IsFiniteSet(Positions) /\ Cardinality(Positions) = StmtNum
  BY FS_Interval, StmtNumAssumption DEF Positions
<1>2. Cardinality(done) = Len(real) /\ Len(real) \in Nat
  BY DEF CaseInv, RealRange, CaseTypeOK
<1> QED BY <1>1, <1>2 DEF Verdict

(* The loop after the schedule, and its verdict, keep the invariant.       *)
LEMMA FinalInv ==
    ASSUME IInv, EnterFinal \/ FinalRound
    PROVE  IInv'
<1>0. CaseInv /\ CaseTypeOK /\ ControlTypeOK /\ Frontier /\ Linked /\ Counters
  BY DEF IInv, ControlInv, CaseInv
<1>1. /\ queue' = queue /\ txn_status' = txn_status /\ is_blocked' = is_blocked /\ conn' = conn
      /\ outputs' = outputs /\ done' = done /\ real' = real /\ skipped' = skipped
      /\ stmt_index' = stmt_index /\ stack = <<>>
  BY DEF EnterFinal, FinalRound, caseVars
<1>2. CaseInv'
  BY <1>0, <1>1 DEF CaseInv, CaseTypeOK, DoneIsPrefix, ScheduleKeepsOrder, RealRange, OutputsRange
<1>3. Verdict \in {"ok", "not_executed"} /\ Cardinality(done) \in Nat
  BY <1>0, VerdictFacts
<1>4. stmt_index = StmtNum + 1
  BY <1>0 DEF EnterFinal, FinalRound, Linked
<1>5. executed' \in Nat /\ no_change' \in 0..3
      /\ (pc' \in {"main", "final"} => no_change' <= 2)
  <2>1. CASE EnterFinal
    BY <2>1, <1>0, <1>3 DEF EnterFinal, ControlTypeOK, Counters
  <2>2. CASE FinalRound
    <3>1. no_change \in 0..2 /\ executed \in Nat
      BY <2>2, <1>0 DEF FinalRound, ControlTypeOK, Counters
    <3>2. executed' \in Nat
      BY <3>1, <2>2, <1>3 DEF FinalRound
    <3>3. no_change' \in {no_change, no_change + 1}
      BY <2>2 DEF FinalRound, NoChange
    <3>4. pc' \in {"main", "final"} => no_change' <= 2
      BY <3>1, <2>2, <1>3 DEF FinalRound, NoChange
    <3> QED BY <3>1, <3>2, <3>3, <3>4
  <2> QED BY <2>1, <2>2
<1>6. \/ stack' = <<NewFrame(StmtNum)>> /\ pc' = "final"
      \/ stack' = <<>> /\ pc' \in {"ok", "not_executed"}
  BY <1>1, <1>3 DEF EnterFinal, FinalRound
<1>7. CASE stack' = <<NewFrame(StmtNum)>> /\ pc' = "final"
  <2>1. PICK g \in Frames : g = NewFrame(StmtNum)
    BY NewFrameType, StmtNumAssumption
  <2>2. g.cur = StmtNum /\ g.pos = 1 /\ g.phase = "first"
    BY <2>1 DEF NewFrame
  <2>3. stack' = <<g>> /\ stack' # <<>> /\ Len(stack') = 1 /\ stack'[1] = g
    BY <1>7, <2>1
  <2>4. Top' = g
    BY <2>3 DEF Top
  <2>5. Linked'
    <3>1. \A k \in 1..Len(stack') : stack'[k].cur < stmt_index' /\ stack'[k].pos <= stack'[k].cur + 1
      BY <2>2, <2>3, <1>1, <1>4, StmtNumAssumption
    <3>2. 1..(Len(stack') - 1) = {}
      BY <2>3
    <3> QED BY <3>1, <3>2, <2>2, <2>3, <1>1, <1>4, <1>7 DEF Linked
  <2>6. Frontier'
    <3>1. \A r \in Tids : BehindDone(r, Top.pos)'
      BY <2>2, <2>4, StmtNumAssumption DEF BehindDone, Positions
    <3> QED BY <3>1, <2>2, <2>3, <2>4 DEF Frontier
  <2>7. ControlTypeOK' /\ Counters'
    BY <2>3, <1>0, <1>1, <1>5, <1>7 DEF ControlTypeOK, Counters
  <2> QED BY <2>5, <2>6, <2>7, <1>2 DEF IInv, ControlInv
<1>8. CASE stack' = <<>> /\ pc' \in {"ok", "not_executed"}
  <2>1. Len(stack') = 0
    BY <1>8
  <2>2. Linked'
    BY <2>1, <1>8 DEF Linked
  <2>3. Frontier'
    BY <1>8 DEF Frontier
  <2>4. ControlTypeOK' /\ Counters'
    BY <1>0, <1>1, <1>5, <1>8 DEF ControlTypeOK, Counters
  <2> QED BY <2>2, <2>3, <2>4, <1>2 DEF IInv, ControlInv
<1> QED BY <1>6, <1>7, <1>8

(* clear_execution_status and the set-up of trans_test establish it.       *)
LEMMA InitInv == Init => IInv
<1> SUFFICES ASSUME Init PROVE IInv
  OBVIOUS
<1>1. queue \in [Positions -> [tid : Tids, kind : Kinds]]
  BY QueuesAssumption DEF Init
<1>2. CaseTypeOK
  <2>1. conn \in [Tids -> Connections]
    <3>1. PICK d \in AllDrivers : conn = [t \in Tids |-> NewConnection(d)]
      BY DriversAssumption DEF Init
    <3> QED BY <3>1, ConnectionTypes
  <2> QED BY <1>1, <2>1 DEF Init, CaseTypeOK
<1>3. Cardinality(done) = 0 /\ Len(real) = 0
  BY FS_EmptySet DEF Init
<1>4. DoneIsPrefix /\ ScheduleKeepsOrder /\ RealRange
  BY <1>3 DEF Init, DoneIsPrefix, ScheduleKeepsOrder, RealRange
<1>5. OutputsRange
  <2> SUFFICES ASSUME NEW t \in Tids PROVE Len(outputs[t]) = 0 /\ done = {}
    BY DEF OutputsRange
  <2> QED BY DEF Init
<1>6. ControlTypeOK /\ Counters
  BY StmtNumAssumption DEF Init, ControlTypeOK, Counters
<1>7. Frontier
  BY StmtNumAssumption DEF Init, Frontier, BehindDone, Positions
<1>8. Linked
  <2>1. Len(stack) = 0 /\ stack = <<>> /\ pc = "main"
    BY DEF Init
  <2> QED BY <2>1 DEF Linked
<1> QED BY <1>2, <1>4, <1>5, <1>6, <1>7, <1>8 DEF IInv, CaseInv, ControlInv

(* A step that changes nothing keeps the invariant.                        *)
LEMMA StutterInv ==
    ASSUME IInv, UNCHANGED vars
    PROVE  IInv'
<1>1. /\ queue' = queue /\ txn_status' = txn_status /\ is_blocked' = is_blocked /\ conn' = conn
      /\ outputs' = outputs /\ done' = done /\ real' = real /\ skipped' = skipped
      /\ stmt_index' = stmt_index /\ stack' = stack /\ executed' = executed
      /\ no_change' = no_change /\ pc' = pc
  BY DEF vars
<1>2. CaseInv'
  BY <1>1 DEF IInv, CaseInv, CaseTypeOK, DoneIsPrefix, ScheduleKeepsOrder, RealRange, OutputsRange
<1>3. ControlInv'
  BY <1>1 DEF IInv, ControlInv, ControlTypeOK, Frontier, BehindDone, Top, Linked, Counters
<1> QED BY <1>2, <1>3 DEF IInv

(* The invariant behind all the results: in every state of trans_test the  *)
(* case part and the control part hold together.                           *)
THEOREM Invariance == Spec => []IInv
<1>1. Init => IInv
  BY InitInv
<1>2. IInv /\ [Next]_vars => IInv'
  BY MainSkipInv, MainTryInv, FirstTryInv, FirstDoneInv, SecondTryInv, ReturnInv, FinalInv,
     StutterInv DEF Next, Terminated
<1> QED BY <1>1, <1>2, PTL DEF Spec

(* The state of trans_test is always well typed.                           *)
THEOREM TypeCorrect == Spec => []TypeOK
<1>1. IInv => TypeOK
  BY DEF IInv, CaseInv, ControlInv, TypeOK
<1> QED BY <1>1, Invariance, PTL

(* Whatever waits, retries and nested retries happen, the real schedule    *)
(* keeps every transaction's own order and repeats no statement.           *)
THEOREM OrderKept == Spec => []ScheduleKeepsOrder
<1>1. IInv => ScheduleKeepsOrder
  BY DEF IInv, CaseInv
<1> QED BY <1>1, Invariance, PTL

(* The k-th output of a transaction is the output of its k-th statement.   *)
THEOREM OutputsStayAligned == Spec => []OutputsAligned
<1>1. IInv => OutputsAligned
  <2> SUFFICES ASSUME IInv, NEW t \in Tids, NEW k \in 1..Len(outputs[t]),
                      NEW i \in 1..(outputs[t][k] - 1), queue[i].tid = t
               PROVE  \E l \in 1..k : outputs[t][l] = i
    BY DEF OutputsAligned, IInv, CaseInv, OutputsRange
  <2>1. OutputsRange /\ DoneIsPrefix /\ CaseTypeOK
    BY DEF IInv, CaseInv
  <2>2. outputs[t][k] \in done /\ queue[outputs[t][k]].tid = t
    BY <2>1 DEF OutputsRange
  <2>a. outputs[t][k] \in Positions
    BY <2>1, <2>2 DEF CaseTypeOK
  <2>3. outputs[t][k] \in Positions /\ i \in Positions /\ i < outputs[t][k]
    BY <2>a, StmtNumAssumption DEF Positions
  <2>4. i \in done
    BY <2>1, <2>2, <2>3 DEF DoneIsPrefix
  <2>5. PICK l \in 1..Len(outputs[t]) : outputs[t][l] = i
    BY <2>1, <2>4 DEF OutputsRange
  <2>6. Len(outputs[t]) \in Nat
    BY <2>1 DEF CaseTypeOK
  <2>7. ~(k < l)
    <3> SUFFICES ASSUME k < l PROVE FALSE
      OBVIOUS
    <3>1. outputs[t][k] < outputs[t][l]
      BY <2>1 DEF OutputsRange
    <3> QED BY <3>1, <2>3, <2>5, StmtNumAssumption DEF Positions
  <2>8. l \in 1..k
    BY <2>5, <2>6, <2>7
  <2> QED BY <2>5, <2>8
<1> QED BY <1>1, Invariance, PTL

(* The real schedule is exactly what was executed or skipped, and the size *)
(* check of trans_test never fails.                                        *)
THEOREM RealComplete == Spec => []RealIsDone
<1>1. IInv => RealIsDone
  BY DEF IInv, CaseInv, ControlInv, RealRange, Counters, RealIsDone
<1> QED BY <1>1, Invariance, PTL

(* The recursion of retry_block_stmt ends: an inner call covers fewer      *)
(* statements than its caller.                                             *)
THEOREM RecursionEnds == Spec => []RecursionShrinks
<1>1. IInv => RecursionShrinks
  <2> SUFFICES ASSUME IInv, NEW k \in 1..(Len(stack) - 1)
               PROVE  stack[k + 1].cur < stack[k].cur
    BY DEF RecursionShrinks
  <2>1. ControlTypeOK /\ Linked
    BY DEF IInv, ControlInv
  <2>2. k \in 1..Len(stack) /\ k + 1 \in 1..Len(stack)
    BY <2>1 DEF ControlTypeOK
  <2>3. PICK f \in Frames, g \in Frames : f = stack[k] /\ g = stack[k + 1]
    BY <2>1, <2>2 DEF ControlTypeOK
  <2>4. f.pos = g.cur + 2 /\ f.pos <= f.cur + 1
    BY <2>1, <2>2, <2>3 DEF Linked
  <2>5. f.pos \in Nat /\ f.cur \in Nat /\ g.cur \in Nat
    BY FrameTypes
  <2> QED BY <2>3, <2>4, <2>5
<1> QED BY <1>1, Invariance, PTL

(* When trans_test gives up, or goes on to the next statement, whatever is *)
(* still missing belongs to a transaction that waits.                      *)
THEOREM NothingIsForgotten == Spec => []NothingForgotten
<1>1. ASSUME IInv, stack = <<>>, pc \in {"main", "final"}
      PROVE  \A i \in Positions : i < stmt_index /\ ~is_blocked[queue[i].tid] => i \in done
  <2>1. \A t \in Tids : ~is_blocked[t] => BehindDone(t, stmt_index)
    BY <1>1 DEF IInv, ControlInv, Frontier
  <2>2. \A i \in Positions : queue[i].tid \in Tids
    BY <1>1 DEF IInv, CaseInv, CaseTypeOK
  <2> QED BY <2>1, <2>2 DEF BehindDone
<1>2. Init => NothingForgotten
  BY InitInv, <1>1 DEF Init, NothingForgotten
<1>3. ASSUME IInv, IInv', NothingForgotten, [Next]_vars
      PROVE  NothingForgotten'
  <2> SUFFICES ASSUME stack' = <<>>, pc' \notin {"threw", "exited"}
               PROVE  (\A i \in Positions : i < stmt_index /\ ~is_blocked[queue[i].tid] => i \in done)'
    BY DEF NothingForgotten
  <2>1. CASE pc' \in {"main", "final"}
    <3>1. (\A t \in Tids : ~is_blocked[t] => BehindDone(t, stmt_index))'
      BY <2>1, <1>3 DEF IInv, ControlInv, Frontier
    <3>2. \A i \in Positions : queue'[i].tid \in Tids
      BY <1>3 DEF IInv, CaseInv, CaseTypeOK
    <3> QED BY <3>1, <3>2 DEF BehindDone
  <2>2. CASE UNCHANGED vars
    BY <2>2, <1>3 DEF vars, NothingForgotten
  <2>3. CASE (EnterFinal \/ FinalRound) /\ pc' \notin {"main", "final"}
    <3>1. stack = <<>> /\ pc \in {"main", "final"}
      BY <2>3 DEF EnterFinal, FinalRound
    <3>2. \A i \in Positions : i < stmt_index /\ ~is_blocked[queue[i].tid] => i \in done
      BY <3>1, <1>1, <1>3
    <3>3. queue' = queue /\ is_blocked' = is_blocked /\ done' = done /\ stmt_index' = stmt_index
      BY <2>3 DEF EnterFinal, FinalRound, caseVars
    <3> QED BY <3>2, <3>3
  <2>4. CASE ~(EnterFinal \/ FinalRound) /\ ~(UNCHANGED vars)
    <3>1. pc \in {"main", "final"} /\ (pc' = pc \/ pc' \in {"threw", "exited"})
      <4>1. CASE MainSkip \/ FirstDone \/ Return
        BY <4>1 DEF MainSkip, FirstDone, Return
      <4>2. CASE MainTry \/ FirstTry \/ SecondTry
        BY <4>2 DEF MainTry, FirstTry, SecondTry, Record
      <4> QED BY <4>1, <4>2, <2>4, <1>3 DEF Next, Terminated
    <3> QED BY <3>1, <2>1
  <2> QED BY <2>2, <2>1, <2>3, <2>4
<1> QED BY <1>2, <1>3, Invariance, PTL DEF Spec

-----------------------------------------------------------------------------
(* Statements on the wire.                                                 *)
Quiet(c) == c.txn_abort \/ c.driver = "waits" => ~c.has_sent_sql

PendingInv ==
    /\ PendingIsNext
    /\ NeverChanged
    /\ \A t \in Tids : conn[t].driver # "unsure" => Quiet(conn[t])

(* What trans_test_unit comes back with if a pending statement can only be *)
(* the one that is sent.                                                   *)
LEMMA UnitPending ==
    ASSUME CaseTypeOK, NEW p \in Positions, NEW u \in TransTestUnit(p),
           NEW c \in Connections, c = conn[queue[p].tid], c.driver # "unsure",
           c.has_sent_sql => SameText(c.sent_sql, [pos |-> p, kind |-> queue[p].kind]),
           Quiet(c)
    PROVE  /\ u.ret # "exited"
           /\ \/ ~u.conn.has_sent_sql
              \/ /\ u.conn.driver # "waits" /\ u.ret = "blocked" /\ ~u.demoted /\ ~u.conn.txn_abort
                 /\ u.conn.sent_sql = [pos |-> p, kind |-> queue[p].kind]
<1> DEFINE s == [pos |-> p, kind |-> queue[p].kind]
<1>1. PICK a \in Test(c, s) : u \in UnitOf(a, p)
  BY DEF TransTestUnit
<1>2. CASE c.driver = "waits"
  <2>1. \A x \in Stmts : \A b \in Test(c, x) :
            b.conn = c /\ b.err \in {"none", "failed", "lost"}
    BY <1>2 DEF Test, BlockingTest, Answer
  <2>2. s \in Stmts /\ [pos |-> p, kind |-> "ABORT"] \in Stmts
    BY StmtNumAssumption DEF CaseTypeOK, Stmts, Positions, Kinds
  <2>3. a.conn = c /\ a.err \in {"none", "failed", "lost"}
    BY <2>1, <2>2, <1>1
  <2>4. CASE a.err = "failed" /\ queue[p].kind = "COMMIT"
    <3>1. PICK b \in Test(c, [pos |-> p, kind |-> "ABORT"]) :
              u = Unit(IF b.err = "none" THEN "executed" ELSE "blocked", b.conn, TRUE)
      BY <2>3, <2>4, <1>1 DEF UnitOf, RollbackUnit
    <3>2. b.conn = c
      BY <2>1, <2>2, <3>1
    <3> QED BY <3>1, <3>2, <1>2 DEF Unit, Quiet
  <2>5. CASE ~(a.err = "failed" /\ queue[p].kind = "COMMIT")
    <3>1. u = Unit("executed", c, FALSE) \/ u = Unit("threw", c, FALSE)
      <4>1. CASE a.err = "none"
        BY <4>1, <2>3, <1>1 DEF UnitOf
      <4>2. CASE a.err = "lost"
        BY <4>2, <2>3, <1>1 DEF UnitOf
      <4>3. CASE a.err = "failed"
        BY <4>3, <2>3, <2>5, <1>1 DEF UnitOf
      <4> QED BY <4>1, <4>2, <4>3, <2>3
    <3> QED BY <3>1, <1>2 DEF Unit, Quiet
  <2> QED BY <2>4, <2>5
<1>3. CASE c.driver # "waits" /\ c.txn_abort
  <2>1. PrintedKind(s) # "COMMIT;" /\ PrintedKind(s) # "ROLLBACK;"
    BY DEF PrintedKind
  <2>2. a = Answer("skipped", c)
    BY <2>1, <1>1, <1>3 DEF Test, NonBlockingTest, AbortedTest
  <2>3. u = Unit("skipped", c, FALSE)
    BY <2>2, <1>1 DEF UnitOf, Answer
  <2> QED BY <2>3, <1>3 DEF Unit, Quiet
<1>4. CASE c.driver # "waits" /\ ~c.txn_abort
  <2> DEFINE i == Idle(c)
             ia == [Idle(c) EXCEPT !.txn_abort = TRUE]
             w == OnTheWire(c, s)
  <2>1. \/ a = Answer("none", i) \/ a = Answer("skipped", i) \/ a = Answer("skipped", ia)
        \/ a = Answer("lost", i) \/ a = Answer("blocked", w)
    BY <1>1, <1>4 DEF Test, NonBlockingTest, PollTest
  <2>2. /\ ~i.has_sent_sql /\ ~ia.has_sent_sql /\ w.sent_sql = s /\ ~w.txn_abort
        /\ w.driver # "waits"
    BY <1>4 DEF Idle, OnTheWire, Connections
  <2> HIDE DEF i, ia, w
  <2>3. \/ u = Unit("executed", i, FALSE) \/ u = Unit("skipped", i, FALSE)
        \/ u = Unit("skipped", ia, FALSE) \/ u = Unit("threw", i, FALSE)
        \/ u = Unit("blocked", w, FALSE)
    <3>1. CASE a = Answer("none", i)
      BY <3>1, <1>1 DEF UnitOf, Answer
    <3>2. CASE a = Answer("skipped", i)
      BY <3>2, <1>1 DEF UnitOf, Answer
    <3>3. CASE a = Answer("skipped", ia)
      BY <3>3, <1>1 DEF UnitOf, Answer
    <3>4. CASE a = Answer("lost", i)
      BY <3>4, <1>1 DEF UnitOf, Answer
    <3>5. CASE a = Answer("blocked", w)
      BY <3>5, <1>1 DEF UnitOf, Answer
    <3> QED BY <2>1, <3>1, <3>2, <3>3, <3>4, <3>5
  <2> QED BY <2>2, <2>3, <1>4 DEF Unit
<1> QED BY <1>2, <1>3, <1>4

(* Sending the next statement of a transaction keeps PendingInv.           *)
LEMMA RecordPending ==
    ASSUME CaseInv, PendingInv, pc # "exited",
           NEW p \in Positions, p \notin done, BehindDone(queue[p].tid, p),
           NEW u \in TransTestUnit(p), Record(p, u)
    PROVE  PendingInv'
<1>0. CaseTypeOK /\ StmtNum \in Nat /\ Positions = 1..StmtNum
  BY StmtNumAssumption DEF CaseInv, Positions
<1>1. PICK t \in Tids : t = queue[p].tid
  BY <1>0 DEF CaseTypeOK
<1>2. PICK c \in Connections : c = conn[t]
  BY <1>0 DEF CaseTypeOK
<1> DEFINE s == [pos |-> p, kind |-> queue[p].kind]
<1>3. c.driver # "unsure" => Quiet(c)
  BY <1>2 DEF PendingInv
<1>4. ASSUME c.has_sent_sql, c.driver # "unsure"
      PROVE  SameText(c.sent_sql, s)
  <2>1. PICK q \in Positions : q = c.sent_sql.pos
    BY <1>2, <1>4 DEF PendingInv, PendingIsNext
  <2>2. /\ q \notin done /\ queue[q] = [tid |-> t, kind |-> c.sent_sql.kind]
        /\ \A i \in 1..(q - 1) : queue[i].tid = t => i \in done
    BY <2>1, <1>2, <1>4 DEF PendingInv, PendingIsNext
  <2>3. ~(p < q)
    BY <2>2, <1>0, <1>1
  <2>4. ~(q < p)
    BY <2>2, <1>0, <1>1 DEF BehindDone
  <2>5. p = q
    BY <2>3, <2>4, <1>0
  <2> QED BY <2>1, <2>2, <2>5 DEF SameText
<1>5. ASSUME c.driver # "unsure"
      PROVE  /\ u.ret # "exited"
             /\ \/ ~u.conn.has_sent_sql
                \/ /\ u.conn.driver # "waits" /\ u.ret = "blocked" /\ ~u.demoted
                   /\ ~u.conn.txn_abort /\ u.conn.sent_sql = s
  BY <1>0, <1>1, <1>2, <1>3, <1>4, <1>5, UnitPending
<1>u. u.conn.driver = c.driver
  BY <1>0, <1>1, <1>2, UnitTypes
<1>6. /\ conn' = [conn EXCEPT ![t] = u.conn]
      /\ \A i \in Positions : i # p => queue'[i] = queue[i]
      /\ ~u.demoted => queue' = queue
      /\ done' = IF Pushes(u) THEN done \union {p} ELSE done
      /\ \A r \in Tids : r # t => is_blocked'[r] = is_blocked[r]
      /\ u.ret = "blocked" => is_blocked'[t]
      /\ pc' = IF u.ret \in {"threw", "exited"} THEN u.ret ELSE pc
  BY <1>0, <1>1 DEF Record, CaseTypeOK
<1>7. conn'[t] = u.conn /\ \A r \in Tids : r # t => conn'[r] = conn[r]
  BY <1>0, <1>6 DEF CaseTypeOK
<1>8. \A i \in Positions : queue'[i].tid = queue[i].tid
  BY <1>0, RecordEffect
<1>9. NeverChanged'
  BY <1>1, <1>5, <1>6, <1>7, <1>u DEF NeverChanged
<1>10. \A r \in Tids : conn'[r].driver # "unsure" => Quiet(conn'[r])
  <2> TAKE r \in Tids
  <2>1. CASE r = t
    BY <2>1, <1>5, <1>7, <1>u DEF Quiet
  <2>2. CASE r # t
    BY <2>2, <1>7 DEF PendingInv
  <2> QED BY <2>1, <2>2
<1>11. PendingIsNext'
  <2> SUFFICES ASSUME NEW r \in Tids, conn'[r].has_sent_sql, conn'[r].driver # "unsure"
               PROVE  /\ is_blocked'[r]
                      /\ conn'[r].sent_sql.pos \in Positions \ done'
                      /\ queue'[conn'[r].sent_sql.pos] = [tid |-> r, kind |-> conn'[r].sent_sql.kind]
                      /\ \A i \in 1..(conn'[r].sent_sql.pos - 1) : queue'[i].tid = r => i \in done'
    BY DEF PendingIsNext
  <2>1. CASE r = t
    <3>1. u.ret = "blocked" /\ ~u.demoted /\ conn'[r].sent_sql = s /\ ~Pushes(u)
      BY <2>1, <1>5, <1>7, <1>u DEF Pushes
    <3>2. done' = done /\ queue' = queue /\ is_blocked'[r]
      BY <3>1, <2>1, <1>6
    <3>3. queue[p] = [tid |-> t, kind |-> queue[p].kind]
      BY <1>0, <1>1 DEF CaseTypeOK
    <3>4. \A i \in 1..(p - 1) : queue[i].tid = t => i \in done
      BY <1>0, <1>1 DEF BehindDone
    <3> QED BY <3>1, <3>2, <3>3, <3>4, <2>1
  <2>2. CASE r # t
    <3>1. conn'[r] = conn[r] /\ is_blocked'[r] = is_blocked[r]
      BY <2>2, <1>6, <1>7
    <3>2. PICK q \in Positions : q = conn[r].sent_sql.pos
      BY <3>1 DEF PendingInv, PendingIsNext
    <3>3. /\ is_blocked[r] /\ q \notin done /\ queue[q] = [tid |-> r, kind |-> conn[r].sent_sql.kind]
          /\ \A i \in 1..(q - 1) : queue[i].tid = r => i \in done
      BY <3>1, <3>2 DEF PendingInv, PendingIsNext
    <3>4. q # p
      BY <3>3, <2>2, <1>1
    <3>5. queue'[q] = queue[q] /\ q \notin done' /\ done \subseteq done'
      BY <3>3, <3>4, <1>6
    <3>6. \A i \in 1..(q - 1) : i \in Positions
      BY <3>2, <1>0
    <3>7. \A i \in 1..(q - 1) : queue'[i].tid = r => i \in done'
      BY <3>3, <3>5, <3>6, <1>8
    <3> QED BY <3>1, <3>2, <3>3, <3>5, <3>7
  <2> QED BY <2>1, <2>2
<1> QED BY <1>9, <1>10, <1>11 DEF PendingInv

(* A step that sends a statement sends the next one of its transaction.    *)
LEMMA SendsNext ==
    ASSUME IInv, MainTry \/ FirstTry \/ SecondTry
    PROVE  /\ pc # "exited"
           /\ \E p \in Positions : /\ p \notin done
                                   /\ BehindDone(queue[p].tid, p)
                                   /\ \E u \in TransTestUnit(p) : Record(p, u)
<1>0. CaseTypeOK /\ ControlTypeOK /\ Frontier /\ Counters
  BY DEF IInv, CaseInv, ControlInv
<1>1. CASE MainTry
  <2>1. PICK p \in Positions : p = stmt_index
    BY <1>0, <1>1, StmtNumAssumption DEF MainTry, ControlTypeOK, Positions
  <2>2. p \notin done
    BY <2>1, <1>0, StmtNumAssumption DEF Counters, Positions
  <2>3. queue[p].tid \in Tids
    BY <1>0 DEF CaseTypeOK
  <2>4. BehindDone(queue[p].tid, p)
    BY <2>1, <2>3, <1>0, <1>1 DEF MainTry, Frontier
  <2> QED BY <2>1, <2>2, <2>4, <1>1 DEF MainTry
<1>2. CASE FirstTry
  <2>1. pc \in {"main", "final"} /\ stack # <<>> /\ Top.phase = "first"
    BY <1>2 DEF FirstTry
  <2>2. PICK i \in FirstEligible(Top) : /\ \A j \in FirstEligible(Top) : i <= j
                                        /\ \E u \in TransTestUnit(i) : Record(i, u)
    BY <1>2 DEF FirstTry
  <2>3. i \in Positions /\ i \notin done /\ is_blocked[queue[i].tid] /\ queue[i].tid \notin Top.tried
    BY DEF FirstEligible
  <2>4. queue[i].tid \in Tids
    BY <2>3, <1>0 DEF CaseTypeOK
  <2>5. BehindDone(queue[i].tid, i)
    BY <2>1, <2>2, <2>3, <2>4, FirstBehind
  <2> QED BY <2>1, <2>2, <2>3, <2>5
<1>3. CASE SecondTry
  <2>1. pc \in {"main", "final"} /\ stack # <<>> /\ Top.phase = "second"
    BY <1>3 DEF SecondTry
  <2>2. PICK i \in SecondEligible(Top) : /\ \A j \in SecondEligible(Top) : i <= j
                                         /\ \E u \in TransTestUnit(i) : Record(i, u)
    BY <1>3 DEF SecondTry
  <2>3. i \in Positions /\ i \notin done /\ ~is_blocked[queue[i].tid] /\ i <= Top.cur /\ i \in Nat
    BY StmtNumAssumption DEF SecondEligible, Positions
  <2>4. queue[i].tid \in Tids
    BY <2>3, <1>0 DEF CaseTypeOK
  <2>5. PICK g \in Frames : g = Top
    BY <2>1, <1>0, StackFacts DEF ControlTypeOK
  <2>6. i <= Top.cur + 1
    BY <2>3, <2>5, FrameTypes
  <2>7. BehindDone(queue[i].tid, i)
    BY <2>1, <2>2, <2>3, <2>4, <2>6, SecondBehind
  <2> QED BY <2>1, <2>2, <2>3, <2>7
<1> QED BY <1>1, <1>2, <1>3

(* PendingInv is an invariant.                                             *)
LEMMA PendingInvariance == Spec => []PendingInv
<1>1. ASSUME Init PROVE PendingInv
  <2>1. \A t \in Tids : ~conn[t].has_sent_sql
    BY <1>1 DEF Init, NewConnection
  <2> QED BY <2>1, <1>1 DEF Init, PendingInv, PendingIsNext, NeverChanged, Quiet
<1>2. ASSUME IInv, PendingInv, [Next]_vars
      PROVE  PendingInv'
  <2>1. CASE MainTry \/ FirstTry \/ SecondTry
    <3>1. PICK p \in Positions : /\ pc # "exited" /\ p \notin done
                                 /\ BehindDone(queue[p].tid, p)
                                 /\ \E u \in TransTestUnit(p) : Record(p, u)
      BY <2>1, <1>2, SendsNext
    <3> QED BY <3>1, <1>2, RecordPending DEF IInv
  <2>2. CASE ~(MainTry \/ FirstTry \/ SecondTry)
    <3>1. queue' = queue /\ is_blocked' = is_blocked /\ conn' = conn /\ done' = done
          /\ (pc' = "exited" <=> pc = "exited")
      <4>1. CASE MainSkip \/ FirstDone \/ Return \/ UNCHANGED vars
        BY <4>1 DEF MainSkip, FirstDone, Return, caseVars, vars
      <4>2. CASE EnterFinal \/ FinalRound
        <5>1. Verdict \in {"ok", "not_executed"}
          BY <1>2, VerdictFacts DEF IInv
        <5> QED BY <4>2, <5>1 DEF EnterFinal, FinalRound, caseVars
      <4> QED BY <4>1, <4>2, <2>2, <1>2 DEF Next, Terminated
    <3> QED BY <3>1, <1>2 DEF PendingInv, PendingIsNext, NeverChanged, Quiet
  <2> QED BY <2>1, <2>2
<1> QED BY <1>1, <1>2, Invariance, PTL DEF Spec

(* A statement that stays on the wire is the next one of a transaction     *)
(* that is marked as blocked.                                              *)
THEOREM PendingStaysNext == Spec => []PendingIsNext
<1>1. PendingInv => PendingIsNext
  BY DEF PendingInv
<1> QED BY <1>1, PendingInvariance, PTL

(* The driver is never given another statement than the one it has sent:   *)
(* the exit(-1) of trans_test_unit is not taken.                           *)
THEOREM DriverNeverChanged == Spec => []NeverChanged
<1>1. PendingInv => NeverChanged
  BY DEF PendingInv
<1> QED BY <1>1, PendingInvariance, PTL

-----------------------------------------------------------------------------
(* Drivers that wait for the answers.                                      *)
Waits == \A t \in Tids : conn[t].driver = "waits"

(* A transaction that waits has only to roll back: its COMMIT at p failed. *)
ToRollBack(t, p) ==
    p \notin done /\ queue[p] = [tid |-> t, kind |-> "ABORT"] /\ BehindDone(t, p)

BlockedInv == \A t \in Tids : is_blocked[t] => \E p \in Positions : ToRollBack(t, p)

(* A round of the last loop has ended a statement, or is yet to roll back. *)
RoundInv ==
    pc = "final" =>
        \/ executed < Cardinality(done)
        \/ /\ executed <= Cardinality(done)
           /\ Len(stack) = 1 /\ Top.phase = "first" /\ Top.tried = {}
           /\ \E t \in Tids : is_blocked[t]

WaitsInv ==
    Waits => /\ pc # "not_executed"
             /\ pc \in {"main", "final"} => BlockedInv /\ RoundInv

(* What trans_test_unit comes back with: a statement waits only when it is *)
(* the ROLLBACK after a failed COMMIT.                                     *)
LEMMA UnitWaits ==
    ASSUME CaseTypeOK, NEW p \in Positions, NEW u \in TransTestUnit(p),
           conn[queue[p].tid].driver = "waits"
    PROVE  \/ u.ret = "executed"
           \/ u.ret = "threw" /\ ~u.demoted
           \/ u.ret = "blocked" /\ u.demoted /\ queue[p].kind = "COMMIT"
<1> DEFINE s == [pos |-> p, kind |-> queue[p].kind]
           c == conn[queue[p].tid]
<1>1. PICK a \in Test(c, s) : u \in UnitOf(a, p)
  BY DEF TransTestUnit
<1>2. a.conn = c /\ a.err \in {"none", "failed", "lost"}
  BY <1>1 DEF Test, BlockingTest, Answer
<1>3. CASE a.err = "failed" /\ queue[p].kind = "COMMIT"
  <2>1. PICK b \in Test(c, [pos |-> p, kind |-> "ABORT"]) :
            u = Unit(IF b.err = "none" THEN "executed" ELSE "blocked", b.conn, TRUE)
    BY <1>1, <1>2, <1>3 DEF UnitOf, RollbackUnit
  <2> QED BY <2>1, <1>3 DEF Unit
<1>4. CASE ~(a.err = "failed" /\ queue[p].kind = "COMMIT")
  <2>1. CASE a.err = "none"
    BY <2>1, <1>1 DEF UnitOf, Unit
  <2>2. CASE a.err = "lost"
    BY <2>2, <1>1 DEF UnitOf, Unit
  <2>3. CASE a.err = "failed"
    BY <2>3, <1>1, <1>4 DEF UnitOf, Unit
  <2> QED BY <1>2, <2>1, <2>2, <2>3
<1> QED BY <1>3, <1>4

(* Sending the next statement of a transaction leaves it unblocked, or     *)
(* with its ROLLBACK to do; what ends is one statement more.               *)
LEMMA RecordWaits ==
    ASSUME CaseInv, Waits, BlockedInv, NEW p \in Positions, p \notin done,
           BehindDone(queue[p].tid, p), NEW u \in TransTestUnit(p), Record(p, u),
           pc \in {"main", "final"}
    PROVE  /\ pc' = pc \/ pc' = "threw"
           /\ pc' = pc => BlockedInv'
           /\ Cardinality(done) \in Nat /\ Cardinality(done') \in Nat
           /\ Cardinality(done) <= Cardinality(done')
           /\ pc' = pc /\ queue[p].kind # "COMMIT" => Cardinality(done) < Cardinality(done')
<1>0. CaseTypeOK /\ CaseInv' /\ Positions = 1..StmtNum /\ StmtNum \in Nat
  BY RecordCase, StmtNumAssumption DEF CaseInv, Positions
<1>1. PICK t \in Tids : t = queue[p].tid
  BY <1>0 DEF CaseTypeOK
<1>2. \/ u.ret = "executed"
      \/ u.ret = "threw" /\ ~u.demoted
      \/ u.ret = "blocked" /\ u.demoted /\ queue[p].kind = "COMMIT"
  BY <1>0, <1>1, UnitWaits DEF Waits
<1>3. pc' = IF u.ret = "threw" THEN "threw" ELSE pc
  BY <1>2 DEF Record
<1>4. /\ Pushes(u) => done' = done \union {p} /\ real' = Append(real, p)
                      /\ is_blocked' = [is_blocked EXCEPT ![t] = FALSE]
      /\ ~Pushes(u) => done' = done /\ real' = real
  BY <1>0, <1>1, RecordEffect
<1>5. /\ Cardinality(done) = Len(real) /\ Len(real) \in Nat
      /\ Cardinality(done') = Len(real') /\ Len(real') \in Nat
  BY <1>0 DEF CaseInv, RealRange, CaseTypeOK
<1>6. real \in Seq(Positions)
  BY <1>0 DEF CaseTypeOK
<1>7. Pushes(u) => Len(real') = Len(real) + 1
  BY <1>4, <1>6
<1>8. Cardinality(done) <= Cardinality(done') /\ (Pushes(u) => Cardinality(done) < Cardinality(done'))
  BY <1>4, <1>5, <1>7
<1>9. pc' = pc /\ queue[p].kind # "COMMIT" => Pushes(u)
  BY <1>2, <1>3 DEF Pushes
<1>10. ASSUME pc' = pc PROVE BlockedInv'
  <2>1. u.ret = "executed" \/ (u.ret = "blocked" /\ u.demoted)
    BY <1>2, <1>3, <1>10
  <2>2. \A i \in Positions : i # p => queue'[i] = queue[i]
    BY <1>0 DEF Record, CaseTypeOK
  <2>3. done \subseteq done' /\ \A r \in Tids, q \in Nat : BehindDone(r, q) => BehindDone(r, q)'
    BY <1>0, RecordBehind
  <2>4. \A r \in Tids : r # t => is_blocked'[r] = is_blocked[r]
    BY <1>0, <1>1, RecordBehind
  <2>5. \A i \in done' : i \in done \/ i = p
    BY <1>4
  <2> SUFFICES ASSUME NEW r \in Tids, is_blocked'[r]
               PROVE  \E q \in Positions : ToRollBack(r, q)'
    BY DEF BlockedInv
  <2>6. CASE r # t
    <3>1. PICK q \in Positions : ToRollBack(r, q)
      BY <2>4, <2>6 DEF BlockedInv
    <3>2. q # p /\ q \in Nat
      BY <1>0, <1>1, <2>6, <3>1 DEF ToRollBack
    <3>3. queue'[q] = queue[q] /\ q \notin done' /\ BehindDone(r, q)'
      BY <2>2, <2>3, <2>5, <3>1, <3>2 DEF ToRollBack
    <3>4. ToRollBack(r, q)'
      BY <3>1, <3>3 DEF ToRollBack
    <3> QED BY <3>4
  <2>7. CASE r = t
    <3>1. ~Pushes(u)
      <4> SUFFICES ASSUME Pushes(u) PROVE FALSE
        OBVIOUS
      <4>1. is_blocked' = [is_blocked EXCEPT ![t] = FALSE]
        BY <1>4
      <4> QED BY <1>0, <2>7, <4>1 DEF CaseTypeOK
    <3>2. u.ret = "blocked" /\ u.demoted /\ done' = done
      BY <1>4, <2>1, <3>1 DEF Pushes
    <3>3. queue' = [queue EXCEPT ![p].kind = "ABORT"]
      BY <3>2 DEF Record
    <3>4. queue'[p] = [tid |-> t, kind |-> "ABORT"]
      BY <1>0, <1>1, <3>3 DEF CaseTypeOK
    <3>5. BehindDone(t, p)'
      BY <1>0, <1>1, <2>3
    <3>6. ToRollBack(r, p)'
      BY <2>7, <3>2, <3>4, <3>5 DEF ToRollBack
    <3> QED BY <3>6
  <2> QED BY <2>6, <2>7
<1> QED BY <1>3, <1>5, <1>8, <1>9, <1>10

(* The statement that the first loop tries is the one to roll back.        *)
LEMMA FirstRollsBack ==
    ASSUME IInv, BlockedInv, pc \in {"main", "final"}, stack # <<>>, Top.phase = "first",
           NEW i \in FirstEligible(Top), \A j \in FirstEligible(Top) : i <= j
    PROVE  queue[i].kind = "ABORT"
<1>0. CaseTypeOK /\ ControlTypeOK /\ Frontier /\ Linked /\ Positions = 1..StmtNum /\ StmtNum \in Nat
  BY StmtNumAssumption DEF IInv, ControlInv, CaseInv, Positions
<1>1. PICK t \in Tids : t = queue[i].tid
  BY <1>0 DEF CaseTypeOK, FirstEligible
<1>2. i \in Positions /\ i \notin done /\ is_blocked[t] /\ t \notin Top.tried /\ Top.pos <= i /\ i <= Top.cur
  BY <1>1 DEF FirstEligible
<1>3. PICK q \in Positions : ToRollBack(t, q)
  BY <1>2 DEF BlockedInv
<1>4. q \notin done /\ queue[q] = [tid |-> t, kind |-> "ABORT"] /\ BehindDone(t, q)
  BY <1>3 DEF ToRollBack
<1>5. q \in Nat /\ i \in Nat
  BY <1>0, <1>2
<1>6. ~(i < q)
  BY <1>1, <1>2, <1>4 DEF BehindDone
<1>7. BehindDone(t, i)
  BY <1>2, FirstBehind
<1>8. ~(q < i)
  BY <1>4, <1>7 DEF BehindDone
<1>9. i = q
  BY <1>5, <1>6, <1>8
<1> QED BY <1>4, <1>9

(* A new round finds a transaction to roll back, if something is missing.  *)
LEMMA SomeBlocked ==
    ASSUME IInv, pc \in {"main", "final"}, stack = <<>>, stmt_index = StmtNum + 1, done # Positions
    PROVE  \E t \in Tids : is_blocked[t]
<1> SUFFICES ASSUME \A t \in Tids : ~is_blocked[t] PROVE done = Positions
  OBVIOUS
<1>1. CaseTypeOK /\ \A t \in Tids : BehindDone(t, StmtNum + 1)
  BY DEF IInv, CaseInv, ControlInv, Frontier
<1>2. \A i \in Positions : i < StmtNum + 1 /\ queue[i].tid \in Tids
  BY <1>1, StmtNumAssumption DEF Positions, CaseTypeOK
<1>3. \A i \in Positions : i \in done
  BY <1>1, <1>2 DEF BehindDone
<1> QED BY <1>1, <1>3 DEF CaseTypeOK

(* All is done when as many statements are done as there are.              *)
LEMMA AllDone ==
    ASSUME CaseInv
    PROVE  /\ Cardinality(done) \in Nat /\ Cardinality(done) <= StmtNum
           /\ Cardinality(done) = StmtNum <=> done = Positions
<1>1. IsFiniteSet(Positions) /\ Cardinality(Positions) = StmtNum
  BY FS_Interval, StmtNumAssumption DEF Positions
<1>2. done \subseteq Positions
  BY DEF CaseInv, CaseTypeOK
<1>3. Cardinality(done) <= Cardinality(Positions) /\ (Cardinality(done) = Cardinality(Positions) => done = Positions)
  BY <1>1, <1>2, FS_Subset
<1>4. Cardinality(done) \in Nat
  BY VerdictFacts
<1> QED BY <1>1, <1>3, <1>4

(* Where the drivers wait no run ends with a statement undone, and every   *)
(* round of the last loop has one to end.                                  *)
LEMMA WaitsInvariance == Spec => []WaitsInv
<1>1. ASSUME Init PROVE WaitsInv
  <2>1. pc = "main" /\ BlockedInv
    BY <1>1 DEF Init, BlockedInv
  <2> QED BY <2>1 DEF WaitsInv, RoundInv
<1>2. ASSUME IInv, WaitsInv, [Next]_vars PROVE WaitsInv'
  <2>0. CaseInv /\ CaseTypeOK /\ ControlTypeOK /\ Frontier /\ Linked
    BY <1>2 DEF IInv, CaseInv, ControlInv
  <2>1. CASE MainTry \/ FirstTry \/ SecondTry
    <3>1. PICK p \in Positions : /\ p \notin done
                                 /\ BehindDone(queue[p].tid, p)
                                 /\ \E u \in TransTestUnit(p) : Record(p, u)
      BY <2>1, <1>2, SendsNext
    <3>2. PICK u \in TransTestUnit(p) : Record(p, u)
      BY <3>1
    <3> SUFFICES ASSUME Waits'
                 PROVE  pc' # "not_executed" /\ (pc' \in {"main", "final"} => BlockedInv' /\ RoundInv')
      BY DEF WaitsInv
    <3>3. Waits
      <4>1. u.conn.driver = conn[queue[p].tid].driver /\ conn' = [conn EXCEPT ![queue[p].tid] = u.conn]
        BY <2>0, <3>2, UnitTypes DEF Record
      <4> QED BY <2>0, <4>1 DEF Waits, CaseTypeOK
    <3>4. pc \in {"main", "final"} /\ executed' = executed
      BY <2>1 DEF MainTry, FirstTry, SecondTry
    <3>5. BlockedInv /\ RoundInv
      BY <1>2, <3>3, <3>4 DEF WaitsInv
    <3>6. /\ pc' = pc \/ pc' = "threw"
          /\ pc' = pc => BlockedInv'
          /\ Cardinality(done) \in Nat /\ Cardinality(done') \in Nat
          /\ Cardinality(done) <= Cardinality(done')
      BY <2>0, <3>1, <3>2, <3>3, <3>4, <3>5, RecordWaits
    <3>7. ASSUME pc' = "final" PROVE executed < Cardinality(done')
      <4>1. pc = "final" /\ executed \in Nat
        BY <2>0, <3>4, <3>6, <3>7 DEF ControlTypeOK
      <4>2. CASE executed < Cardinality(done)
        BY <3>6, <4>1, <4>2
      <4>3. CASE executed <= Cardinality(done) /\ Top.phase = "first"
        <5>1. FirstTry
          BY <2>1, <4>1, <4>3 DEF MainTry, SecondTry
        <5>2. PICK i \in FirstEligible(Top) : /\ \A j \in FirstEligible(Top) : i <= j
                                              /\ \E v \in TransTestUnit(i) : Record(i, v)
          BY <5>1 DEF FirstTry
        <5>3. i \in Positions /\ i \notin done /\ is_blocked[queue[i].tid] /\ queue[i].tid \notin Top.tried
          BY DEF FirstEligible
        <5>4. queue[i].tid \in Tids
          BY <2>0, <5>3 DEF CaseTypeOK
        <5>5. BehindDone(queue[i].tid, i)
          BY <1>2, <3>4, <5>1, <5>2, <5>3, <5>4, FirstBehind DEF FirstTry
        <5>6. queue[i].kind # "COMMIT"
          BY <1>2, <3>4, <3>5, <5>1, <5>2, FirstRollsBack DEF FirstTry
        <5>7. Cardinality(done) < Cardinality(done')
          BY <2>0, <3>3, <3>4, <3>5, <3>7, <4>1, <5>2, <5>3, <5>5, <5>6, RecordWaits
        <5> QED BY <3>6, <4>1, <4>3, <5>7
      <4> QED BY <3>5, <4>1, <4>2, <4>3 DEF RoundInv
    <3>8. RoundInv'
      BY <3>4, <3>7 DEF RoundInv
    <3> QED BY <3>4, <3>6, <3>8
  <2>2. CASE MainSkip \/ FirstDone \/ Return
    <3>1. UNCHANGED <<caseVars, executed, pc>> /\ pc \in {"main", "final"}
      BY <2>2 DEF MainSkip, FirstDone, Return
    <3> SUFFICES ASSUME Waits PROVE BlockedInv' /\ RoundInv'
      BY <3>1 DEF WaitsInv, Waits, caseVars
    <3>2. BlockedInv /\ RoundInv
      BY <1>2, <3>1 DEF WaitsInv
    <3>3. BlockedInv'
      BY <3>1, <3>2 DEF BlockedInv, ToRollBack, BehindDone, caseVars
    <3>4. ASSUME pc = "final" PROVE executed < Cardinality(done)
      <4> SUFFICES ASSUME Len(stack) = 1, Top.phase = "first", Top.tried = {},
                          NEW t \in Tids, is_blocked[t]
                   PROVE  FALSE
        BY <3>2, <3>4 DEF RoundInv
      <4>1. FirstDone
        BY <2>2, <3>4 DEF MainSkip, Return
      <4>2. FirstEligible(Top) = {} /\ stack # <<>>
        BY <4>1 DEF FirstDone
      <4>3. PICK q \in Positions : ToRollBack(t, q)
        BY <3>2 DEF BlockedInv
      <4>4. BehindDone(t, Top.pos)
        BY <2>0, <3>4, <4>2 DEF Frontier
      <4>5. Top.cur = StmtNum
        BY <2>0, <3>4, <4>2 DEF Linked, Top
      <4>6. PICK g \in Frames : g = Top
        BY <2>0, <4>2, StackFacts DEF ControlTypeOK
      <4>7. g.pos \in Nat /\ q \in Nat /\ q <= StmtNum
        BY FrameTypes, StmtNumAssumption DEF Positions
      <4>8. ~(q < Top.pos)
        BY <4>3, <4>4 DEF ToRollBack, BehindDone
      <4>9. Top.pos <= q /\ q <= Top.cur
        BY <4>5, <4>6, <4>7, <4>8
      <4>10. q \in FirstEligible(Top)
        BY <4>3, <4>9 DEF FirstEligible, ToRollBack
      <4> QED BY <4>2, <4>10
    <3>5. RoundInv'
      BY <3>1, <3>4 DEF RoundInv, caseVars
    <3> QED BY <3>3, <3>5
  <2>3. CASE EnterFinal \/ FinalRound
    <3>1. UNCHANGED caseVars /\ pc \in {"main", "final"} /\ stack = <<>> /\ stmt_index = StmtNum + 1
      BY <2>0, <2>3 DEF EnterFinal, FinalRound, Linked
    <3> SUFFICES ASSUME Waits PROVE pc' # "not_executed" /\ BlockedInv' /\ RoundInv'
      BY <3>1 DEF WaitsInv, Waits, caseVars
    <3>2. BlockedInv /\ RoundInv
      BY <1>2, <3>1 DEF WaitsInv
    <3>3. BlockedInv'
      BY <3>1, <3>2 DEF BlockedInv, ToRollBack, BehindDone, caseVars
    <3>4. /\ Cardinality(done) \in Nat /\ Cardinality(done) <= StmtNum
          /\ Cardinality(done) = StmtNum <=> done = Positions
      BY <2>0, AllDone
    <3>5. done = Positions => Verdict # "not_executed"
      BY DEF Verdict
    <3>6. CASE pc' = "final" /\ executed' = Cardinality(done) /\ stack' = <<NewFrame(StmtNum)>> /\ done # Positions
      <4>1. \E t \in Tids : is_blocked'[t]
        BY <1>2, <3>1, <3>6, SomeBlocked DEF caseVars
      <4>2. Len(stack') = 1 /\ Top' = NewFrame(StmtNum)
        BY <3>6 DEF Top
      <4>3. done' = done
        BY <3>1 DEF caseVars
      <4>4. RoundInv'
        BY <3>4, <3>6, <4>1, <4>2, <4>3 DEF RoundInv, NewFrame
      <4> QED BY <3>3, <3>6, <4>4
    <3>7. CASE pc' = Verdict /\ done = Positions
      <4>1. pc' # "not_executed" /\ pc' # "final"
        BY <3>7 DEF Verdict
      <4> QED BY <3>3, <4>1 DEF RoundInv
    <3>8. CASE EnterFinal
      BY <3>4, <3>6, <3>7, <3>8, StmtNumAssumption DEF EnterFinal
    <3>9. CASE FinalRound
      <4>1. executed < Cardinality(done)
        <5>1. Len(stack) = 0
          BY <3>1
        <5> QED BY <3>2, <3>9, <5>1 DEF FinalRound, RoundInv
      <4>2. executed # Cardinality(done)
        BY <2>0, <3>4, <4>1 DEF ControlTypeOK
      <4>3. CASE Cardinality(done) = StmtNum
        BY <3>4, <3>7, <3>9, <4>3 DEF FinalRound
      <4>4. CASE Cardinality(done) # StmtNum
        BY <3>4, <3>6, <3>9, <4>2, <4>4 DEF FinalRound
      <4> QED BY <4>3, <4>4
    <3> QED BY <2>3, <3>8, <3>9
  <2>4. CASE UNCHANGED vars
    BY <1>2, <2>4 DEF vars, WaitsInv, Waits, BlockedInv, ToRollBack, BehindDone, RoundInv, Top
  <2> QED BY <1>2, <2>1, <2>2, <2>3, <2>4 DEF Next, Terminated
<1> QED BY <1>1, <1>2, Invariance, PTL DEF Spec

(* With a driver that waits every statement ends: the ROLLBACK after a     *)
(* failed COMMIT is done by a retry, and no round of the last loop is      *)
(* without one.                                                            *)
THEOREM WaitingDriversComplete == Spec => []WaitingDriverCompletes
<1>1. WaitsInv => WaitingDriverCompletes
  BY DEF WaitsInv, Waits, WaitingDriverCompletes
<1> QED BY <1>1, WaitsInvariance, PTL
=============================================================================
