------------------------------- MODULE EetInv -------------------------------
(***************************************************************************)
(* The inductive invariant behind the theorems of EetRunProofs about       *)
(* eet_run.  The properties of EetRun say little of a single step of a     *)
(* driver's program; the invariant says, at each of them, which operation  *)
(* is under way (ProgInv), that a database is there when one is needed     *)
(* (MakerInv, FreshInv), how far the record and the database have come     *)
(* (RecordInv), what backup() stands for and how a restore gets back to it *)
(* (BaseInv, CopyInv, ReplayInv), which catalogs the program has still to  *)
(* read (CatalogInv) and which sessions it opens (SessionInv).             *)
(*                                                                         *)
(* The second part says what the programs are like that the operations     *)
(* start with: what a driver's own programs promise (ProgramsOk), and what *)
(* every program promises that is called in a phase of the child (Fits).   *)
(* EetRunProofs proves both and follows a program step by step.            *)
(***************************************************************************)
EXTENDS EetRun

\* The drivers whose restore passes over what fails, and those that keep their
\* own record of the statements.
Forgiving == {"mysql", "tidb", "postgres", "gaussdb"}
Recorded == {"oceanbase", "cockroach", "yugabyte", "clickhouse"}

\* What a step may do and what becomes of its failure.
Errs == {"plain", "fatal", "lost", "ignored", "probe", "schema", "schema_probe", "expected"}
Names == {"none", "cached", "noop", "w"} \cup ToSet(Stmts)
CatalogsOf(d) ==
  {dut_setup[d].schema[i].do : i \in {j \in 1..Len(dut_setup[d].schema) : dut_setup[d].schema[j].stmt = "cached"}}
Catalogs == CatalogsOf(driver)
OfSchema == {"schema", "schema_probe", "expected"}

Drops == {"drop", "drop_force"}
Opens == {"connect", "connect_default", "set", "create", "create_missing", "open", "use", "close"}
Reads == {"tables", "views", "indexes", "columns", "version", "types", "operators", "routines",
          "aggregates"}
Resets == Opens \cup Drops \cup {"cancel_jobs", "wipe", "tidy"}
Restores == Resets \cup {"if_backup", "need_record", "replay_backup", "replay_record", "copy_back",
                         "apply", "load"}

Doings == Restores \cup Reads \cup {"return", "insert", "query", "content", "write", "dump", "copy_record"}
Steps == [do : Doings, err : Errs, stmt : Names]

Phases == {"none", "boot", "reset", "ddl", "dml", "schema", "backup", "testing", "restore", "run",
           "m_reset", "m_feed", "m_backup"}

Generating == {"ddl", "dml", "schema", "backup"}
Saved == {"testing", "restore", "run", "m_reset", "m_feed", "m_backup"}

\* What is done in a phase, and the task it is done for.
Ops(ph) ==
  CASE ph \in {"reset", "m_reset"} -> Resets
    [] ph = "ddl" -> Opens \cup Reads \cup {"insert"}
    [] ph = "dml" -> Opens \cup {"insert"}
    [] ph \in {"schema", "testing"} -> Opens \cup Reads
    [] ph \in {"backup", "m_backup"} -> Opens \cup {"dump", "copy_record"}
    [] ph = "restore" -> Restores
    [] ph = "run" -> Opens \cup {"query", "content", "write"}
    [] ph = "m_feed" -> {"apply"}
    [] OTHER -> {}

TaskOf(ph) ==
  CASE ph \in {"backup", "m_backup"} -> "save" [] ph = "restore" -> "restore" [] OTHER -> "run"

\* The steps after which there is a database, or that put such a step in.
Makes(d, s) ==
  \/ s.do \in {"create", "create_missing", "open"}
  \/ s.do = "connect" /\ d \notin {"clickhouse", "sqlite"}
Maker(s) == Makes(driver, s)

\* What the steps of a driver are like.
Sound(d, s) ==
  /\ s.stmt = "cached" => s.err = "schema" /\ s.do \in CatalogsOf(d)
  /\ s.do \in {"apply", "load", "insert", "write"} => s.stmt \in Names \ {"none", "cached"}
  /\ Makes(d, s) => s.err # "ignored"
  /\ s.err \in {"probe", "schema_probe"} => s.do = "connect" /\ d \notin {"clickhouse", "sqlite"}
  /\ s.do \in Drops => s.err = "plain" \/ (s.err = "ignored" /\ d = "sqlite")
  /\ s.do = "drop_force" => d # "sqlite"
  /\ s.do \in {"return", "dump", "copy_back", "copy_record"} => s.err = "plain"
  /\ s.do \in {"insert", "write"} => s.err \in {"plain", "lost"}
  /\ s.do = "dump" => d \in Dumping
  /\ s.do = "copy_record" => d \notin Dumping
  /\ s.do = "copy_back" => d = "sqlite"
  /\ s.do = "wipe" => d = "gaussdb"
  /\ s.do \in {"replay_record", "need_record"} => d \in Recorded /\ s.err \in {"plain", "lost"}
  /\ s.do \in {"replay_backup", "if_backup"} => d \in Forgiving
  /\ s.do \in {"apply", "load"} /\ s.err = "ignored" => d \in Forgiving
StepOk(s) == Sound(driver, s)

Rec == IF record = None THEN <<>> ELSE record
Records == Seq(ToSet(Stmts) \cup {"noop"})

\* The types, finer than TypeOK where a later part depends on it.
TypeInv ==
  /\ driver \in Drivers /\ up \in BOOLEAN /\ db \in Databases
  /\ conn \in {"none", "default", "test", "dead"} /\ leaked \in Nat
  /\ record \in Records \cup {None}
  /\ backup \in Databases \cup Records \cup {None} /\ backup # Absent
  /\ driver \in Dumping => backup \in Databases \cup {None}
  /\ exn \in {"none", "plain", "fatal", "expected", "abort"}
  /\ task \in {"none", "run", "save", "restore", "failed"}
  /\ faults \in 0..MaxFaults
  /\ parent \in {"fork", "wait", "read", "aborted"}
  /\ child \in {"none", "running", "success", "failure", "signalled"}
  /\ pipe = (IF child = "success" THEN 1 ELSE 0)
  /\ parent = "fork" => child = "none"
  /\ phase \in Phases
  /\ tests \in 0..TestNum /\ removed \in 0..Len(Stmts)
  /\ phase \in {"restore", "run"} /\ removed = 0 => tests < TestNum
  /\ "kind" \in DOMAIN test
  /\ base \in Databases \cup {None}
  /\ queue \in Records
  /\ try_time \in [Counters -> Nat] /\ leaked_tries \in [Counters -> Nat]

\* The operation under way: what it is made of fits the phase of the child.
ProgInv ==
  /\ prog \in Seq(Steps)
  /\ prog = <<>> => task \in {"none", "failed"}
  /\ prog # <<>> =>
       /\ task = TaskOf(phase) /\ exn = "none" /\ child = "running"
       /\ prog[Len(prog)].do = "return"
       /\ \A k \in 1..(Len(prog) - 1) :
            prog[k].do \in Ops(phase) /\ (prog[k].err \in OfSchema => "tables" \in Ops(phase))
       /\ \A k \in 1..Len(prog) : StepOk(prog[k])

\* An exception of get_schema() is thrown where there is one.
ExnInv ==
  exn = "expected" =>
    \/ phase \in {"ddl", "schema", "testing"}
    \/ phase = "boot" /\ try_time["schema"] >= MaxTry

\* Where a step needs a database, a step before it makes one.
Needs == {"return", "if_backup", "replay_record", "replay_backup", "apply", "load", "insert", "write"}

\* A drop is followed by a step that makes the database again.
DropsMake(p) == \A k \in 1..Len(p) : p[k].do \in Drops => k < Len(p) /\ Maker(p[k + 1])

\* A step makes the database before the first that needs one.
Covered(p) == \E j \in 1..Len(p) : Maker(p[j]) /\ \A i \in 1..(j - 1) : p[i].do \notin Needs

MakerInv ==
  /\ DropsMake(prog) /\ (prog # <<>> /\ db = Absent => Covered(prog))
  /\ task = "none" /\ phase \notin {"none", "boot"} => db # Absent
  /\ phase \in Generating \cup {"m_feed", "m_backup"} => db # Absent

\* What reset() leaves is empty.
FreshInv ==
  driver # "gaussdb" /\ phase = "reset" =>
    /\ prog # <<>> => db \in {Absent, <<>>} \/ \E k \in 1..Len(prog) : prog[k].do \in Drops
    /\ task = "none" => db = <<>>

\* The record while the database is generated, and what backup() stands for.
RecordInv ==
  /\ phase = "reset" => record = None
  /\ phase \in {"ddl", "dml"} =>
       /\ Len(prog) > 1 \/ task = "failed" => Made < Len(Stmts)
       /\ \A k \in 1..Len(prog) : prog[k].do = "insert" => k = Len(prog) - 1 /\ prog[k].stmt = Stmts[Made + 1]
  /\ phase \in {"schema", "backup"} \cup Saved => Made > 0
  /\ phase \in {"reset"} \cup Generating \cup Saved => Made <= Len(Stmts)
  /\ phase \in Generating /\ driver # "gaussdb" => db = Replay(Rec)

\* backup() stands for the database the record makes: base, from the end of
\* backup() on.
BaseInv ==
  /\ base # Absent
  /\ phase \in {"reset", "ddl", "dml", "schema"} => base = None
  /\ phase = "backup" /\ task # "none" => base = None
  /\ phase = "backup" /\ task = "none" => base # None
  /\ phase \in {"testing", "restore", "run"} => base # None
  /\ phase \in {"m_reset", "m_feed", "m_backup"} => removed > 0
  /\ phase \in {"boot", "reset", "testing"} \cup Generating => removed = 0
  /\ phase \in Saved /\ driver \notin Dumping => base # None
  /\ phase = "m_backup" /\ task = "none" => base # None
  /\ phase \notin {"none", "boot"} /\ base # None /\ driver # "gaussdb"
       /\ (removed = 0 \/ driver \notin Dumping) => Replay(record) = base
  /\ child = "running" => removed <= Len(queue)

\* sqlite copies the file: the copy is the database until the dump, or still to
\* be copied back.
CopyInv ==
  driver = "sqlite" =>
    /\ task # "save" /\ base # None => backup = base
    /\ task = "save" => backup = db \/ \E k \in 1..Len(prog) : prog[k].do = "dump"
    /\ phase = "restore" /\ prog # <<>> =>
         (Len(prog) = 1 /\ db = base) \/ \E k \in 1..Len(prog) : prog[k].do = "copy_back"
    /\ \A k \in 1..Len(prog) : prog[k].do \in {"dump", "copy_back"} => k = Len(prog) - 1

\* The drivers that replay the record have replayed a prefix of it, or are still
\* to begin.
Rebuilding ==
  \E n \in 0..Len(record) :
    /\ db = Replay(SubSeq(record, 1, n))
    /\ Len(prog) = Len(record) - n + 1
    /\ \A i \in 1..(Len(record) - n) : prog[i].do \in {"apply", "load"} /\ prog[i].stmt = record[n + i]

ReplayInv ==
  driver \in Recorded /\ phase = "restore" /\ prog # <<>> =>
    \/ Rebuilding
    \/ /\ Len(prog) > 1 /\ prog[Len(prog) - 1].do = "replay_record"
       /\ \A k \in 1..Len(prog) : prog[k].do \notin {"apply", "load"}
       /\ \A k \in 1..(Len(prog) - 2) : prog[k].do # "replay_record"
       /\ db \in {Absent, <<>>} \/ \E k \in 1..Len(prog) : prog[k].do \in Drops

\* The catalogs that are not read yet are still to be read when a test begins.
CatalogInv ==
  /\ cache.has = cache.read /\ cache.has \subseteq Catalogs
  /\ phase = "testing" /\ prog # <<>> =>
       \A c \in Catalogs : c \in cache.has \/ \E k \in 1..Len(prog) : prog[k].do = c /\ prog[k].stmt = "cached"
  /\ phase = "testing" /\ prog = <<>> /\ exn = "none" => Catalogs \subseteq cache.has
  /\ test.kind # "none" => Catalogs \subseteq cache.has
  /\ phase \in {"restore", "run", "m_reset", "m_feed", "m_backup"} => test.kind # "none"

\* The connection of postgres that replaces the one a forced drop has cut off is
\* the only one that is made while another may be open.
Leaky(d, s) == s.do = "connect" /\ s.err = "fatal" /\ d = "postgres"
Leaks(s) == Leaky(driver, s)
Quiet == {"replay_backup", "apply", "load"}

\* Before the k-th step there is no session, the last step that is not quiet
\* having closed it, or there being none now.
Parted(p, k) ==
  \E j \in 0..(k - 1) :
    /\ IF j = 0 THEN conn # "test" ELSE p[j].do = "close"
    /\ \A i \in (j + 1)..(k - 1) : p[i].do \in Quiet

SessionInv ==
  driver # "gaussdb" =>
    /\ leaked <= 1
    /\ \A k \in 1..Len(prog) : prog[k].do = "connect" /\ ~Leaks(prog[k]) => Parted(prog, k)
    /\ \A k \in 1..Len(prog) : Leaks(prog[k]) => leaked = 0 \/ \E f \in 1..(k - 1) : prog[f].do = "drop_force"
    /\ \A j, k \in 1..Len(prog) : Leaks(prog[j]) /\ Leaks(prog[k]) => j = k

IInv ==
  /\ TypeInv /\ ProgInv /\ ExnInv /\ MakerInv /\ FreshInv /\ RecordInv
  /\ BaseInv /\ CopyInv /\ ReplayInv /\ CatalogInv /\ SessionInv

-----------------------------------------------------------------------------
\* A program of steps of S.
Good(p, S) ==
  /\ p \in Seq(Steps)
  /\ \A k \in 1..Len(p) : p[k].do \in S /\ StepOk(p[k]) /\ (p[k].err \in OfSchema => "tables" \in S)
NoLeaks(p) == \A k \in 1..Len(p) : ~Leaks(p[k])
HasDrop(p) == \E k \in 1..Len(p) : p[k].do \in Drops
ClosesFirst(p) ==
  \A k \in 1..Len(p) : p[k].do = "connect" /\ ~Leaks(p[k]) =>
    /\ k >= 2
    /\ \/ p[k - 1].do = "close"
       \/ k >= 3 /\ p[k - 1].do = "replay_backup" /\ p[k - 2].do = "close"

\* A connection is made where there is none: the last step before it that is
\* not quiet closed it, or there is no such step.
PartedIn(p, k) ==
  \E j \in 0..(k - 1) :
    /\ j = 0 \/ p[j].do = "close"
    /\ \A i \in (j + 1)..(k - 1) : p[i].do \in Quiet

\* At most one connection replaces another, and the sessions were cut before.
LeaksOnce(p) ==
  \A k \in 1..Len(p) : Leaks(p[k]) =>
    /\ \E f \in 1..(k - 1) : p[f].do = "drop_force"
    /\ \A j \in 1..Len(p) : Leaks(p[j]) => j = k

Sessions(p) ==
  /\ \A k \in 1..Len(p) : p[k].do = "connect" /\ ~Leaks(p[k]) => PartedIn(p, k)
  /\ LeaksOnce(p)

OnlyLast(p, ops) == \A k \in 1..Len(p) : p[k].do \in ops => k = Len(p)

\* The programs of a driver: to connect, to empty the database, to save it, to
\* bring it back, to run a statement, to read the schema.
OpenOk ==
  /\ Good(D.conn.open, Opens) /\ Len(D.conn.open) >= 1
  /\ Maker(D.conn.open[1]) /\ D.conn.open[1].do \in {"connect", "create_missing", "open"}
  /\ \A k \in 2..Len(D.conn.open) : D.conn.open[k].do = "set"
  /\ NoLeaks(D.conn.open)
  /\ Good(D.conn.create, Opens)
  /\ driver \notin {"clickhouse", "sqlite"} => \E k \in 1..Len(D.conn.create) : D.conn.create[k].do = "create"
  /\ ClosesFirst(D.conn.create) /\ NoLeaks(D.conn.create)

ResetOk ==
  /\ Good(D.life.reset, Resets) /\ DropsMake(D.life.reset)
  /\ driver # "gaussdb" =>
       HasDrop(D.life.reset) /\ ClosesFirst(D.life.reset) /\ NoLeaks(D.life.reset)

BackupOk ==
  /\ Good(D.life.backup, {"dump", "copy_record"}) /\ Len(D.life.backup) <= 1
  /\ driver = "sqlite" => Len(D.life.backup) = 1 /\ D.life.backup[1].do = "dump"

RestoreOk ==
  /\ Good(D.life.restore, Restores \ {"apply", "load"}) /\ DropsMake(D.life.restore)
  /\ driver \in Recorded =>
       /\ Len(D.life.restore) >= 1 /\ D.life.restore[Len(D.life.restore)].do = "replay_record"
       /\ OnlyLast(D.life.restore, {"replay_record"}) /\ HasDrop(D.life.restore)
  /\ driver = "sqlite" =>
       /\ Len(D.life.restore) >= 1 /\ D.life.restore[Len(D.life.restore)].do = "copy_back"
       /\ OnlyLast(D.life.restore, {"copy_back"})
  /\ driver # "gaussdb" =>
       ClosesFirst(D.life.restore) /\ LeaksOnce(D.life.restore)

CallOk ==
  /\ Good(D.test.settings, {"set"})
  /\ D.life.content \in Steps /\ D.life.content.do = "content" /\ StepOk(D.life.content)
  /\ D.life.content.err \notin OfSchema
  /\ D.test.stmt \in {"lost", "plain"}

SchemaOk == Good(D.schema, Reads)

ProgramsOk == OpenOk /\ ResetOk /\ BackupOk /\ RestoreOk /\ CallOk /\ SchemaOk

\* What every program is like that is called in a phase.
Fits(ph, q) ==
  /\ Good(q, Ops(ph)) /\ DropsMake(q)
  /\ driver # "gaussdb" => Sessions(q) /\ (ph = "reset" => HasDrop(q))
  /\ ph \in {"ddl", "dml"} =>
       \A k \in 1..Len(q) : q[k].do = "insert" => k = Len(q) /\ q[k].stmt = Stmts[Made + 1]
  /\ ph = "testing" =>
       \A c \in Catalogs : c \in cache.has \/ \E k \in 1..Len(q) : q[k].do = c /\ q[k].stmt = "cached"
  /\ driver = "sqlite" =>
       /\ OnlyLast(q, {"dump", "copy_back"})
       /\ ph \in {"backup", "m_backup"} => \E k \in 1..Len(q) : q[k].do = "dump"
       /\ ph = "restore" => \E k \in 1..Len(q) : q[k].do = "copy_back"
  /\ driver \in Recorded /\ ph = "restore" =>
       /\ Len(q) >= 1 /\ q[Len(q)].do = "replay_record" /\ OnlyLast(q, {"replay_record"})
       /\ HasDrop(q) /\ \A k \in 1..Len(q) : q[k].do \notin {"apply", "load"}
=============================================================================
