----------------------------- MODULE DutDriver -----------------------------
(***************************************************************************)
(* One connection to the database under test, as the drivers of schema/    *)
(* present it: dut_base::test(stmt) returns or throws, and the callers     *)
(* only look at which words the message of the exception holds.  The       *)
(* database is external: what it may answer is a set of answers.           *)
(*                                                                         *)
(* Two families of drivers exist.  The non-blocking one (dut_mysql without *)
(* NOT_TEST_TXN, dut_mariadb) sends a statement once, polls for its end    *)
(* and gives up with "blocked" when the server reports a lock wait; the    *)
(* statement stays on the wire, and the next call must be for the same     *)
(* statement.  The blocking one (dut_libpq, dut_tidb, dut_mysql with       *)
(* NOT_TEST_TXN, ...) waits for the answer.                                *)
(***************************************************************************)
EXTENDS Naturals

(* The blocking family; the non-blocking one; and the non-blocking one     *)
(* over a server on which the query of check_whether_block may fail.       *)
AllDrivers == {"waits", "polls", "unsure"}

(* HOLDER is SPACE_HOLDER_STMT, a select that returns no row.              *)
Kinds == {"BEGIN", "STMT", "HOLDER", "COMMIT", "ABORT"}

(* The end of a transaction, as is_commit || is_abort recognises it.       *)
EndKinds == {"COMMIT", "ABORT"}

(* A statement: its place in the queue tells the texts of STMTs apart.     *)
Stmts == [pos : Nat, kind : Kinds]

(* What print_stmt_to_string makes of a statement: txn_string_stmt::out    *)
(* puts no semicolon after begin_stmt(), commit_stmt() or abort_stmt().    *)
PrintedKind(stmt) ==
    CASE stmt.kind = "BEGIN"  -> "START TRANSACTION"
      [] stmt.kind = "COMMIT" -> "COMMIT"
      [] stmt.kind = "ABORT"  -> "ROLLBACK"
      [] OTHER                -> "SELECT ..."

(* sent_sql != stmt, a comparison of texts.                                *)
SameText(s1, s2) == s1.kind = s2.kind /\ (s1.kind = "STMT" => s1.pos = s2.pos)

(* sent_sql = "" of an idle connection.                                    *)
NoSql == [pos |-> 0, kind |-> "HOLDER"]

Connections == [driver : AllDrivers, has_sent_sql : BOOLEAN, sent_sql : Stmts,
                txn_abort : BOOLEAN]

NewConnection(d) ==
    [driver |-> d, has_sent_sql |-> FALSE, sent_sql |-> NoSql, txn_abort |-> FALSE]

(* What a call of test() comes back with: "none" is a normal return, the   *)
(* others are exceptions, by the word of their message that callers test.  *)
(* "failed" holds none of the words.                                       *)
Errs == {"none", "blocked", "skipped", "changed", "failed", "lost"}

Answer(err, c) == [err |-> err, conn |-> c]

(* Mutant: has_sent_sql is not reset.                                      *)
IdleKept(c) == c

(* has_sent_sql = false; sent_sql = "".                                    *)
Idle(c) == [c EXCEPT !.has_sent_sql = FALSE, !.sent_sql = NoSql]

OnTheWire(c, stmt) == [c EXCEPT !.has_sent_sql = TRUE, !.sent_sql = stmt]

(* The branch for a transaction that the server rolled back: meant to      *)
(* refuse COMMIT, to let ROLLBACK through and to skip everything else.     *)
AbortedTest(c, stmt) ==
    {Answer(CASE PrintedKind(stmt) = "COMMIT;"   -> "failed"
              [] PrintedKind(stmt) = "ROLLBACK;" -> "none"
              [] OTHER                           -> "skipped", c)}

(* A statement that is on the wire: it ends well, ends in an error (every  *)
(* server error is a "skipped"; a deadlock rolled the transaction back),   *)
(* the connection is lost, or it waits for a lock.  An error of the query  *)
(* that looks for lock waits leaves test() as an error of the statement.   *)
PollTest(c, stmt) ==
    {Answer("none", Idle(c)),
     Answer("skipped", Idle(c)),
     Answer("skipped", [Idle(c) EXCEPT !.txn_abort = TRUE]),
     Answer("lost", Idle(c)),
     Answer("blocked", OnTheWire(c, stmt))}
    \union (IF c.driver = "unsure"
            THEN {Answer(err, OnTheWire(c, stmt)) : err \in {"failed", "skipped", "lost"}}
            ELSE {})

(* dut_mysql::test and dut_mariadb::test.                                  *)
NonBlockingTest(c, stmt) ==
    IF c.txn_abort THEN AbortedTest(c, stmt)
    ELSE IF c.has_sent_sql /\ ~SameText(c.sent_sql, stmt)
         THEN {Answer("changed", c)}
         ELSE PollTest(c, stmt)

(* dut_libpq::test, dut_tidb::test and the other drivers that wait: no     *)
(* connection state, and every error is either a crash or a plain failure. *)
BlockingTest(c, stmt) == {Answer(err, c) : err \in {"none", "failed", "lost"}}

Test(c, stmt) ==
    IF c.driver = "waits" THEN BlockingTest(c, stmt) ELSE NonBlockingTest(c, stmt)
=============================================================================
