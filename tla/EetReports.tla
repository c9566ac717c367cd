------------------------------ MODULE EetReports ------------------------------
(***************************************************************************)
(* The inductive invariants behind the theorems of EetReportProofs.  The   *)
(* first part says why a report of a logic bug is real, the second why the *)
(* reduced database shows it.  A test goes well when no fault hits         *)
(* it; then a restore brings back what the backup file holds (Restored),   *)
(* also with the drivers that pass over what fails (LenientInv), the table *)
(* is read before and after the change (ChangeInv), and every run yields   *)
(* the same (RunsInv).  With one fault the runs that validate go well.     *)
(***************************************************************************)
EXTENDS EetInv

\* The statements of the backup file.
Backed == IF backup = None THEN <<>> ELSE backup

\* A statement of the file works on a database.
Accepts(d, s) == IF s \in Tables THEN s \notin ToSet(d) ELSE ToSet(d) \cap Tables # {}

\* The database while the file is loaded: a client that loads it stops at the
\* first error, a driver that runs the statements goes on.
Reload(acc, s) ==
  IF acc.on /\ Accepts(acc.d, s)
    THEN [d |-> After(acc.d, s), on |-> TRUE]
    ELSE [d |-> acc.d, on |-> driver \notin Dumping]

Reloads[n \in 0..Len(Backed)] ==
  IF n = 0 THEN [d |-> <<>>, on |-> TRUE] ELSE Reload(Reloads[n - 1], Backed[n])

\* What a restore that goes well brings back.
Restored == IF driver \in Forgiving THEN Reloads[Len(Backed)].d ELSE base

\* No fault hits the test: none has happened when it begins, none is left when
\* it is validated; and the DBMS answers right.
Validating == test.run \in {"vorig", "vqit"}
Calm == MaxFaults =< 1 /\ ~Shows(Restored) /\ faults = (IF Validating THEN 0 ELSE MaxFaults)

\* A session is on a server that runs.
UpInv ==
  /\ conn \in {"default", "test"} => up \/ driver = "sqlite"
  /\ phase = "restore" => test.kind # "select"
  /\ test.kind \notin {"none", "select"} => driver # "clickhouse"
  /\ DOMAIN test = DOMAIN NoTest

\* The database is empty when the file is looked for, or will be.
Emptied(b) ==
  \/ db \in {Absent, <<>>} /\ up
  \/ \E k \in 1..(b - 1) : prog[k].do \in Drops
  \/ \E k \in 1..(b - 1) : prog[k].do = "wipe" /\ (IF k = 1 THEN Alive ELSE prog[k - 1].do = "connect")

\* The steps around it.
Reconnects(s) == s.do = "connect" /\ s.err # "probe"
Connects(s) == s.do \in {"close", "set"} \/ Reconnects(s)

\* The r-th step takes the statements from the file.
Reloader(r) ==
  /\ prog[r].do = "replay_backup" /\ prog[r].err = "ignored"
  /\ IF driver \in Dumping
       THEN /\ Len(prog) = r + 2 /\ Reconnects(prog[r + 1])
            /\ IF r = 1 THEN conn = "none" ELSE prog[r - 1].do = "close"
       ELSE Len(prog) = r + 1

ToReload ==
  \E r \in 1..Len(prog) :
    /\ Reloader(r)
    /\ \/ \E b \in 1..(r - 1) :
            /\ prog[b].do = "if_backup" /\ Emptied(b)
            /\ \A k \in 1..(b - 1) : prog[k].do \in Resets
            /\ \A k \in (b + 1)..(r - 1) : Connects(prog[k])
       \/ db = <<>> /\ up /\ \A k \in 1..(r - 1) : Connects(prog[k])

Reloading ==
  \E n \in 0..Len(Backed) :
    /\ db = Reloads[n].d
    /\ \A i \in 1..(Len(Backed) - n) :
         /\ prog[i].stmt = Backed[n + i] /\ prog[i].err = "ignored"
         /\ prog[i].do = (IF driver \in Dumping THEN "load" ELSE "apply")
    /\ IF driver \in Dumping
         THEN /\ up /\ Reloads[n].on /\ Len(prog) = Len(Backed) - n + 2
              /\ Reconnects(prog[Len(prog) - 1])
         ELSE Len(prog) = Len(Backed) - n + 1

Reloaded ==
  /\ driver \in Dumping /\ db = Restored
  /\ \A k \in 1..(Len(prog) - 1) : Reconnects(prog[k])
CutOff ==
  driver \notin Dumping /\ ~Alive /\ \A k \in 1..(Len(prog) - 1) : prog[k].do \in {"apply", "load"}

LenientInv ==
  driver \in Forgiving /\ phase = "restore" /\ prog # <<>> /\ Calm =>
    ToReload \/ Reloading \/ Reloaded \/ CutOff

RestoredInv ==
  phase = "restore" /\ prog = <<>> /\ task = "none" /\ Calm /\ Alive => db = Restored

\* The table is read, changed and read again.
Changed == Append(Restored, "w")
AsRestored(s) == Alive => db = Restored /\ test.start = Restored /\ seen = s

ToRead ==
  LET n == Len(prog) IN
  /\ n > 3 /\ prog[1].do = "content" /\ prog[n - 2].do = "write" /\ prog[n - 2].stmt = "w"
  /\ prog[n - 1].do = "content" /\ \A k \in 2..(n - 3) : prog[k].do = "set"
  /\ AsRestored(<<>>)

ToChange ==
  LET n == Len(prog) IN
  /\ n > 2 /\ prog[n - 2].do = "write" /\ prog[n - 2].stmt = "w"
  /\ prog[n - 1].do = "content" /\ \A k \in 1..(n - 3) : prog[k].do = "set"
  /\ AsRestored(<<Restored>>)

ToReadAgain ==
  /\ Len(prog) = 2 /\ prog[1].do = "content" /\ Alive
  /\ db = Changed /\ test.start = Restored /\ seen = <<Restored>>

ReadTwice == test.start = Restored /\ seen = <<Restored, Changed>>

ChangeInv ==
  phase = "run" /\ test.kind # "select" /\ Calm =>
    /\ prog # <<>> => ToRead \/ ToChange \/ ToReadAgain \/ (Len(prog) = 1 /\ ReadTwice)
    /\ prog = <<>> /\ task = "none" => ReadTwice

Clean == <<Restored, Changed, <<"right">>>>

RunsInv ==
  phase \in {"restore", "run"} /\ test.kind # "select" /\ MaxFaults =< 1 /\ ~Shows(Restored) =>
    /\ test.run = "qit" /\ faults = MaxFaults => test.orig = Clean
    /\ Validating => faults = 0
    /\ test.run = "vqit" => test.orig = Clean

SelectInv ==
  phase = "run" /\ test.kind = "select" =>
    /\ prog # <<>> =>
         \/ Len(prog) = 1 /\ seen = <<db>>
         \/ /\ Len(prog) > 1 /\ seen = <<>>
            /\ prog[Len(prog) - 1].do = "query" /\ prog[Len(prog) - 1].err # "ignored"
            /\ \A k \in 1..(Len(prog) - 2) : prog[k].do \in Opens
    /\ prog = <<>> /\ task = "none" => seen = <<db>>
    /\ IF test.run = "orig" THEN test.start \in {db, Absent} ELSE test.start = db /\ db # Absent
    /\ test.run = "vqit" /\ ~Shows(db) => test.orig = <<db, <<"right">>>>

RInv ==
  /\ UpInv /\ LenientInv /\ RestoredInv /\ ChangeInv /\ RunsInv /\ SelectInv /\ ReportsAreReal

-----------------------------------------------------------------------------
(***************************************************************************)
(* The second part: why the reduced database shows the bug.  What is tested*)
(* is made of statements of the database that is tried (SourceInv), and so *)
(* is what its backup holds (FileInv), for the reset before it has emptied *)
(* the database (EmptyInv); a bug it still shows is then due to one of     *)
(* these statements (BugInv).                                              *)
(***************************************************************************)

\* The statements the database under test is made of.
Source == IF removed = 0 THEN Rec ELSE Candidate
Marked == ToSet(Source) \cup {"absent", "noop", "w"}
OfSource(d) == ToSet(d) \subseteq Marked

\* A test runs on a database made of these: of a backup that was made of it, or
\* of the one at hand.
Follows ==
  /\ child = "running" /\ driver # "gaussdb"
  /\ driver \in Dumping \/ removed = 0 \/ test.kind = "select"

Writes == {"apply", "load", "insert", "write"}

SourceInv ==
  Follows /\ phase \in {"testing", "restore", "run", "m_feed", "m_backup"} =>
    OfSource(db) /\ \A k \in 1..Len(prog) : prog[k].do \in Writes => prog[k].stmt \in Marked

\* The drivers whose backup is a file that is read.
Filing == {"mysql", "tidb", "sqlite", "postgres"}
Files == {"dump", "copy_record"}

FileInv ==
  child = "running" /\ driver \in Filing /\ (driver \in Dumping \/ removed = 0) =>
    /\ phase \in {"testing", "restore", "run"} => OfSource(Backed)
    /\ phase \in {"backup", "m_backup"} =>
         task = "failed" \/ OfSource(Backed) \/ \E k \in 1..Len(prog) : prog[k].do \in Files

EmptyInv ==
  child = "running" /\ driver # "gaussdb" /\ phase = "m_reset" =>
    task = "failed" \/ db \in {Absent, <<>>} \/ \E k \in 1..Len(prog) : prog[k].do \in Drops

\* The statement the DBMS trips over is one of those that may be removed.
BugInv ==
  /\ culprit \in {"none"} \cup ToSet(Stmts)
  /\ child = "failure" => removed > 0 /\ minimized = queue
  /\ removed > 0 /\ driver # "gaussdb" /\ (test.kind = "select" \/ (driver \in Dumping /\ MaxFaults =< 1)) =>
       culprit \in ToSet(queue)

SInv == SourceInv /\ FileInv /\ EmptyInv /\ BugInv
=============================================================================
