--------------------------- MODULE EetReportProofs ---------------------------
(***************************************************************************)
(* For every driver and record: one failure, of the server or of a call,   *)
(* never makes a logic bug of a DBMS that answers right, and the database  *)
(* that a reduction leaves shows the bug.  EetReports has the inductive    *)
(* invariants, EetRunProofs the moves of a program and the invariant they  *)
(* build on.                                                               *)
(***************************************************************************)
EXTENDS EetRunProofs, EetReports

-----------------------------------------------------------------------------
(***************************************************************************)
(* Sequences.                                                              *)
(***************************************************************************)

(* What was read, and what is read next.                                   *)
LEMMA PairIs ==
  ASSUME NEW x, NEW y PROVE Append(<<x>>, y) = <<x, y>> /\ <<x>> \o <<y>> = <<x, y>>
PROOF
  <1> DEFINE S == {x, y}
             a == Append(<<x>>, y)
             b == <<x>> \o <<y>>
             c == <<x, y>>
  <1>1. <<x>> \in Seq(S) /\ y \in S /\ <<y>> \in Seq(S) /\ c \in Seq(S) /\ Len(c) = 2 /\ c[1] = x /\ c[2] = y
    OBVIOUS
  <1>2. a \in Seq(S) /\ Len(a) = 2 /\ a[1] = x /\ a[2] = y
    BY <1>1
  <1>3. b \in Seq(S) /\ Len(b) = 2 /\ b[1] = x /\ b[2] = y
    BY <1>1
  <1> HIDE DEF S, a, b, c
  <1>4. \A i \in 1..2 : a[i] = c[i] /\ b[i] = c[i]
    BY <1>1, <1>2, <1>3
  <1>5. a = c
    BY <1>1, <1>2, <1>4, SeqEqual
  <1>6. b = c
    BY <1>1, <1>3, <1>4, SeqEqual
  <1> QED BY <1>5, <1>6 DEF a, b, c

(* What was read before and after a change, and the answer.                *)
LEMMA TripleIs ==
  ASSUME NEW x, NEW y, NEW z PROVE <<x, y>> \o <<z>> = <<x, y, z>>
PROOF
  <1> DEFINE S == {x, y, z}
             b == <<x, y>> \o <<z>>
             c == <<x, y, z>>
  <1>1. <<x, y>> \in Seq(S) /\ <<z>> \in Seq(S) /\ c \in Seq(S) /\ Len(c) = 3 /\ c[1] = x /\ c[2] = y /\ c[3] = z
    OBVIOUS
  <1>3. b \in Seq(S) /\ Len(b) = 3 /\ b[1] = x /\ b[2] = y /\ b[3] = z
    BY <1>1
  <1> HIDE DEF S, b, c
  <1>4. \A i \in 1..3 : b[i] = c[i]
    BY <1>1, <1>3
  <1>6. b = c
    BY <1>1, <1>3, <1>4, SeqEqual
  <1> QED BY <1>6 DEF b, c

-----------------------------------------------------------------------------
(***************************************************************************)
(* What a restore brings back.                                             *)
(***************************************************************************)
Loads0 == [d |-> <<>>, on |-> TRUE]
LoadStates == [d : Seq(Marks), on : BOOLEAN]

(* A statement keeps a database that is loaded one.                        *)
LEMMA ReloadTypes ==
  ASSUME NEW acc \in LoadStates, NEW x \in Names \ {"none", "cached"}
  PROVE  /\ Reload(acc, x) \in LoadStates
         /\ acc.on /\ Accepts(acc.d, x) => Reload(acc, x).d = After(acc.d, x) /\ Reload(acc, x).on
         /\ ~(acc.on /\ Accepts(acc.d, x)) =>
              Reload(acc, x).d = acc.d /\ Reload(acc, x).on = (driver \notin Dumping)
PROOF
  <1>1. acc.d \in Seq(Marks) /\ After(acc.d, x) \in Seq(Marks)
    BY DatabaseTypes DEF LoadStates
  <1> HIDE DEF Marks
  <1>2. CASE acc.on /\ Accepts(acc.d, x)
    BY <1>1, <1>2 DEF Reload, LoadStates
  <1>3. CASE ~(acc.on /\ Accepts(acc.d, x))
    BY <1>1, <1>3 DEF Reload, LoadStates
  <1> QED BY <1>2, <1>3

(* The database, statement by statement of the backup file.                *)
LEMMA ReloadsAre ==
  ASSUME TypeInv
  PROVE  /\ Len(Backed) \in Nat /\ Backed \in Seq(Names \ {"none", "cached"})
         /\ \A n \in 0..Len(Backed) : Reloads[n] \in LoadStates
         /\ Reloads[0] = Loads0
         /\ \A n \in 0..(Len(Backed) - 1) : Reloads[n + 1] = Reload(Reloads[n], Backed[n + 1])
PROOF
  <1> DEFINE N == Len(Backed)
             X == Names \ {"none", "cached"}
             E(g) == g = [n \in 0..N |-> IF n = 0 THEN Loads0 ELSE Reload(g[n - 1], Backed[n])]
             G == [k \in 1..N |-> [y \in LoadStates |-> Reload(y, Backed[k])]]
  <1>1. Backed \in Seq(X) /\ N \in Nat
    <2>1. <<>> \in Seq(X)
      OBVIOUS
    <2>2. Backed \in Seq(X)
      BY <2>1, FileTypes DEF Backed
    <2> QED BY <2>2
  <1>2. ASSUME NEW k \in 1..N, NEW y \in LoadStates PROVE Reload(y, Backed[k]) \in LoadStates
    <2>1. Backed[k] \in X
      BY <1>1
    <2> QED BY <2>1, ReloadTypes
  <1>3. Loads0 \in LoadStates
    BY DatabaseTypes DEF Loads0, LoadStates
  <1>4. G \in [1..N -> [LoadStates -> LoadStates]]
    BY <1>2
  <1> HIDE DEF X
  <1>5. PICK h : IsStepping(N, LoadStates, Loads0, G, h)
    <2> HIDE DEF G, N
    <2> QED BY <1>1, <1>3, <1>4, SteppingExists
  <1>6. /\ h \in [0..N -> LoadStates] /\ h[0] = Loads0
        /\ \A k \in 0..(N - 1) : h[k + 1] = Reload(h[k], Backed[k + 1])
    <2>1. h \in [0..N -> LoadStates] /\ h[0] = Loads0 /\ \A k \in 0..(N - 1) : h[k + 1] = G[k + 1][h[k]]
      BY <1>5 DEF IsStepping
    <2>2. ASSUME NEW k \in 0..(N - 1) PROVE h[k + 1] = Reload(h[k], Backed[k + 1])
      <3>1. k + 1 \in 1..N /\ k \in 0..N
        BY <1>1
      <3>2. h[k] \in LoadStates
        BY <2>1, <3>1
      <3>3. G[k + 1][h[k]] = Reload(h[k], Backed[k + 1])
        BY <3>1, <3>2
      <3> QED BY <2>1, <3>3
    <2> QED BY <2>1, <2>2
  <1> HIDE DEF G
  <1>7. E(h)
    <2>1. ASSUME NEW n \in 0..N
          PROVE  h[n] = IF n = 0 THEN Loads0 ELSE Reload(h[n - 1], Backed[n])
      <3>1. CASE n = 0
        BY <1>6, <3>1
      <3>2. CASE n # 0
        <4>1. n - 1 \in 0..(N - 1) /\ (n - 1) + 1 = n
          BY <1>1, <3>2
        <4>2. h[(n - 1) + 1] = Reload(h[n - 1], Backed[(n - 1) + 1])
          BY <1>6, <4>1
        <4> QED BY <3>2, <4>1, <4>2
      <3> QED BY <3>1, <3>2
    <2>2. h = [n \in 0..N |-> h[n]]
      BY <1>6
    <2> HIDE DEF N
    <2> QED BY <2>1, <2>2
  <1>8. E(Reloads)
    <2>1. Reloads = CHOOSE g : E(g)
      BY DEF Reloads, Loads0
    <2> HIDE DEF E
    <2> QED BY <1>7, <2>1
  <1>9. /\ Reloads[0] = Loads0
        /\ \A n \in 0..(N - 1) : Reloads[n + 1] = Reload(Reloads[n], Backed[n + 1])
    <2>1. \A n \in 0..N : Reloads[n] = IF n = 0 THEN Loads0 ELSE Reload(Reloads[n - 1], Backed[n])
      <3> HIDE DEF N, Loads0
      <3> QED BY <1>8
    <2>2. ASSUME NEW n \in 0..(N - 1) PROVE Reloads[n + 1] = Reload(Reloads[n], Backed[n + 1])
      <3>1. n + 1 \in 0..N /\ n + 1 # 0 /\ (n + 1) - 1 = n
        BY <1>1
      <3> HIDE DEF N, E
      <3> QED BY <2>1, <3>1
    <2>3. 0 \in 0..N
      BY <1>1
    <2> QED BY <2>1, <2>2, <2>3
  <1>10. \A n \in 0..N : Reloads[n] \in LoadStates
    <2> DEFINE Ok == {n \in Nat : n <= N => Reloads[n] \in LoadStates}
    <2>1. 0 \in Ok
      BY <1>3, <1>9
    <2>2. ASSUME NEW n \in Nat, n \in Ok PROVE n + 1 \in Ok
      <3>1. n + 1 <= N => n \in 0..(N - 1) /\ n + 1 \in 1..N /\ n <= N
        BY <1>1
      <3> QED BY <1>2, <1>9, <2>2, <3>1
    <2>3. \A n \in Nat : n \in Ok
      <3> HIDE DEF Ok
      <3> QED BY <2>1, <2>2, NatClosed
    <2> QED BY <1>1, <2>3
  <1> QED BY <1>1, <1>9, <1>10 DEF X

(* A client that has stopped reads no further.                             *)
LEMMA ReloadsStop ==
  ASSUME TypeInv, driver \in Dumping, NEW n \in 0..Len(Backed), ~Reloads[n].on
  PROVE  Reloads[Len(Backed)].d = Reloads[n].d
PROOF
  <1> DEFINE N == Len(Backed)
             Ok == {k \in Nat : n + k <= N => Reloads[n + k].d = Reloads[n].d /\ ~Reloads[n + k].on}
  <1>1. N \in Nat /\ n \in 0..N /\ \A i \in 0..N : Reloads[i] \in LoadStates
    BY ReloadsAre
  <1>2. 0 \in Ok
    BY <1>1
  <1>3. ASSUME NEW k \in Nat, k \in Ok PROVE k + 1 \in Ok
    <2> SUFFICES ASSUME n + (k + 1) <= N
                 PROVE  Reloads[n + (k + 1)].d = Reloads[n].d /\ ~Reloads[n + (k + 1)].on
      OBVIOUS
    <2>1. n + k \in 0..(N - 1) /\ n + k \in 0..N /\ (n + k) + 1 = n + (k + 1) /\ n + k + 1 \in 1..N
      BY <1>1
    <2>2. Reloads[n + k].d = Reloads[n].d /\ ~Reloads[n + k].on /\ Reloads[n + k] \in LoadStates
      BY <1>1, <1>3, <2>1
    <2>3. Reloads[n + (k + 1)] = Reload(Reloads[n + k], Backed[(n + k) + 1])
      BY <2>1, ReloadsAre
    <2>4. Backed[(n + k) + 1] \in Names \ {"none", "cached"}
      BY <2>1, ReloadsAre
    <2> DEFINE acc == Reloads[n + k]
               x == Backed[(n + k) + 1]
    <2> HIDE DEF Ok, N, acc, x
    <2>5. Reload(acc, x).d = acc.d /\ Reload(acc, x).on = (driver \notin Dumping)
      BY <2>2, <2>4, ReloadTypes DEF acc, x
    <2> QED BY <2>2, <2>3, <2>5 DEF acc, x
  <1>4. \A k \in Nat : k \in Ok
    <2> HIDE DEF Ok
    <2> QED BY <1>2, <1>3, NatClosed
  <1>5. N - n \in Nat /\ n + (N - n) = N
    BY <1>1
  <1>6. Reloads[n + (N - n)].d = Reloads[n].d
    BY <1>1, <1>4, <1>5
  <1> QED BY <1>5, <1>6

(* What a restore brings back is a database.                               *)
LEMMA RestoredTypes ==
  ASSUME TypeInv, BaseInv, base # None
  PROVE  Restored \in Seq(Marks)
PROOF
  <1>1. CASE driver \in Forgiving
    <2>1. Len(Backed) \in 0..Len(Backed)
      BY ReloadsAre
    <2>2. Reloads[Len(Backed)] \in LoadStates
      BY <2>1, ReloadsAre
    <2> QED BY <1>1, <2>2 DEF LoadStates, Restored
  <1>2. CASE driver \notin Forgiving
    BY <1>2, DatabaseTypes DEF Restored, TypeInv, BaseInv
  <1> QED BY <1>1, <1>2

(* It stays the same while the files do.                                   *)
LEMMA RestoredKept ==
  ASSUME UNCHANGED <<driver, backup, base>>
  PROVE  Restored' = Restored /\ Reloads' = Reloads /\ Backed' = Backed
PROOF
  <1>1. Backed' = Backed
    BY DEF Backed, None
  <1>2. Reloads' = Reloads
    BY <1>1 DEF Reloads, Reload, Accepts, After, Dumping
  <1> QED BY <1>1, <1>2 DEF Restored, Forgiving

(* The statement the DBMS trips over is one.                               *)
LEMMA ShownIsReal ==
  ASSUME NEW d \in Seq(Marks), Shows(d) PROVE culprit # "none"
PROOF
  <1>1. ToSet(d) \subseteq Marks
    BY DEF ToSet
  <1> QED BY <1>1, NamesAssumption DEF Shows, Marks

(* Where the steps go when c steps take the place of the first one.        *)
LEMMA ShiftedPlaces ==
  ASSUME NEW l \in Nat, NEW r \in 2..l, NEW b \in 2..(r - 1), NEW c \in Nat, NEW e, e = b - 1 + c, NEW t, t = r - 1 + c
  PROVE  /\ e \in 1..(t - 1) /\ e \in Nat /\ t \in Nat /\ b \in 2..l
         /\ \A k \in 1..(e - 1) : k <= c => k \in 1..c
         /\ \A k \in 1..(e - 1) : k > c =>
              k - c + 1 \in 1..(b - 1) /\ k - c + 1 \in 2..l /\ (k - c + 1) - 1 + c = k
         /\ \A k \in (e + 1)..(t - 1) :
              k - c + 1 \in (b + 1)..(r - 1) /\ k - c + 1 \in 2..l /\ (k - c + 1) - 1 + c = k
         /\ \A k \in 2..(b - 1) : k - 1 + c \in 1..(e - 1) /\ k - 1 + c \in Nat /\ k \in 2..l
PROOF
  <1>1. b \in Nat /\ r \in Nat /\ 2 <= b /\ b <= r - 1 /\ r <= l
    OBVIOUS
  <1>2. e \in 1..(t - 1) /\ e \in Nat /\ t \in Nat /\ b \in 2..l
    BY <1>1
  <1>3. ASSUME NEW k \in 1..(e - 1), k > c
        PROVE  k - c + 1 \in 1..(b - 1) /\ k - c + 1 \in 2..l /\ (k - c + 1) - 1 + c = k
    BY <1>1, <1>3
  <1>4. ASSUME NEW k \in (e + 1)..(t - 1)
        PROVE  k - c + 1 \in (b + 1)..(r - 1) /\ k - c + 1 \in 2..l /\ (k - c + 1) - 1 + c = k
    BY <1>1
  <1>5. ASSUME NEW k \in 2..(b - 1) PROVE k - 1 + c \in 1..(e - 1) /\ k - 1 + c \in Nat /\ k \in 2..l
    BY <1>1
  <1>6. ASSUME NEW k \in 1..(e - 1), k <= c PROVE k \in 1..c
    BY <1>6
  <1> QED BY <1>2, <1>3, <1>4, <1>5, <1>6

-----------------------------------------------------------------------------
(***************************************************************************)
(* A step of an operation of a test.                                       *)
(***************************************************************************)

(* What is left when the steps before the m-th are gone.                   *)
LEMMA TailIs ==
  ASSUME NEW m, Goes(<<>>, m)
  PROVE  /\ Len(prog) \in Nat /\ m \in 2..Len(prog) /\ Len(prog') \in Nat /\ Len(prog') = Len(prog) - m + 1
         /\ \A k \in 1..Len(prog') : k + m - 1 \in m..Len(prog) /\ prog'[k] = prog[k + m - 1]
PROOF
  <1>1. Len(<<>>) = 0 /\ Len(prog) \in Nat /\ m \in 2..Len(prog) /\ Len(prog') \in Nat
    BY DEF Goes
  <1>2. ASSUME NEW k \in 1..Len(prog')
        PROVE  k + m - 1 \in m..Len(prog) /\ prog'[k] = prog[k + m - 1]
    <2>1. k - 0 + m - 1 \in m..Len(prog) /\ prog'[k] = prog[k - 0 + m - 1]
      BY <1>1 DEF Goes
    <2>2. k - 0 + m - 1 = k + m - 1
      BY <1>1
    <2> QED BY <2>1, <2>2
  <1>3. Len(prog') = Len(prog) - m + 1
    BY <1>1 DEF Goes
  <1> QED BY <1>1, <1>2, <1>3

(* What is left when steps take the place of the first.                    *)
LEMMA RestIs ==
  ASSUME NEW q, Goes(q, 2)
  PROVE  /\ Len(prog) \in Nat /\ Len(prog) > 1 /\ Len(q) \in Nat /\ Len(prog') \in Nat
         /\ Len(prog') = Len(q) + Len(prog) - 1
         /\ \A k \in 1..Len(q) : k \in 1..Len(prog') /\ prog'[k] = q[k]
         /\ \A i \in 2..Len(prog) : i - 1 + Len(q) \in 1..Len(prog') /\ prog'[i - 1 + Len(q)] = prog[i]
PROOF
  <1>1. /\ Len(q) \in Nat /\ Len(prog) \in Nat /\ 2 \in 2..Len(prog) /\ Len(prog') \in Nat
        /\ Len(prog') = Len(q) + (Len(prog) - 2 + 1)
        /\ \A k \in 1..Len(q) : prog'[k] = q[k]
    BY DEF Goes
  <1>2. ASSUME NEW i \in 2..Len(prog)
        PROVE  i - 1 + Len(q) \in 1..Len(prog') /\ prog'[i - 1 + Len(q)] = prog[i]
    <2>1. i - 2 + 1 + Len(q) \in 1..Len(prog') /\ prog'[i - 2 + 1 + Len(q)] = prog[i]
      BY DEF Goes
    <2>2. i - 2 + 1 + Len(q) = i - 1 + Len(q)
      BY <1>1
    <2> QED BY <2>1, <2>2
  <1>3. Len(prog') = Len(q) + Len(prog) - 1 /\ Len(prog) > 1
    BY <1>1
  <1> QED BY <1>1, <1>2, <1>3

(* A step of a test leaves the files and the test alone; a fault is used   *)
(* up or not.                                                              *)
LEMMA TestStep ==
  ASSUME IInv, Operation, phase \in {"restore", "run"}
  PROVE  /\ UNCHANGED <<driver, backup, base, test, culprit, phase, child, removed, record, up>>
         /\ Restored' = Restored /\ Reloads' = Reloads /\ Backed' = Backed
         /\ faults' = faults \/ (faults > 0 /\ faults' = faults - 1)
PROOF
  <1>1. /\ TypeInv /\ ProgInv /\ prog # <<>>
        /\ UNCHANGED <<driver, test, culprit, phase, child, removed, up>>
        /\ faults' = faults \/ (faults > 0 /\ faults' = faults - 1)
    <2>1. TypeInv /\ ProgInv /\ DbStep /\ UNCHANGED <<test, culprit, phase, child, removed>>
      BY DEF Operation, IInv
    <2>2. CASE StepSucceeds
      BY <2>1, <2>2 DEF StepSucceeds
    <2>3. CASE StepFails
      BY <2>1, <2>3 DEF StepFails, MayFail
    <2>4. CASE StepAffectsNothing
      BY <2>1, <2>4 DEF StepAffectsNothing
    <2> QED BY <2>1, <2>2, <2>3, <2>4 DEF DbStep
  <1>2. Head(prog) = prog[1] /\ (prog[1].do = "return" \/ prog[1].do \in Ops(phase)) /\ task = TaskOf(phase)
    <2>1. ProgInv /\ prog # <<>>
      BY <1>1
    <2>2. Len(prog) \in Nat /\ Len(prog) >= 1
      BY <2>1, AtStep
    <2>3. Len(prog) = 1 \/ Len(prog) > 1
      <3> DEFINE n == Len(prog)
      <3>1. n \in Nat /\ n >= 1
        BY <2>2
      <3> HIDE DEF n
      <3>2. n = 1 \/ n > 1
        BY <3>1
      <3> QED BY <3>2 DEF n
    <2>4. Head(prog) = prog[1] /\ task = TaskOf(phase)
      BY <2>1, AtStep
    <2>5. (Len(prog) = 1 => prog[1].do = "return") /\ (Len(prog) > 1 => prog[1].do \in Ops(phase))
      BY <2>1, AtStep
    <2> QED BY <2>3, <2>4, <2>5
  <1>3. prog[1].do \notin {"dump", "copy_record", "insert"}
    BY <1>2 DEF Ops, Restores, Resets, Opens, Drops
  <1>4. backup' = backup /\ record' = record
    <2> DEFINE s == prog[1]
    <2>1. Head(prog) = s /\ s.do \notin {"dump", "copy_record", "insert"}
      BY <1>2, <1>3
    <2> HIDE DEF s
    <2>2. CASE StepSucceeds
      BY <2>1, <2>2 DEF StepSucceeds
    <2>3. CASE StepFails
      BY <2>1, <2>3 DEF StepFails
    <2>4. CASE StepAffectsNothing
      BY <2>1, <2>4 DEF StepAffectsNothing
    <2> QED BY <2>2, <2>3, <2>4 DEF Operation, DbStep
  <1>5. base' = base
    <2>1. task # "save"
      BY <1>2 DEF TaskOf
    <2> QED BY <2>1 DEF Operation
  <1> QED BY <1>1, <1>4, <1>5, RestoredKept

(* No fault hits a test that goes well to its end.                         *)
LEMMA StaysCalm ==
  ASSUME IInv, RunsInv, phase \in {"restore", "run"}, test.kind # "select", Calm',
         UNCHANGED <<test, culprit>>, Restored' = Restored,
         faults' = faults \/ (faults > 0 /\ faults' = faults - 1)
  PROVE  Calm /\ faults' = faults
PROOF
  <1>1. faults \in 0..MaxFaults /\ MaxFaults \in Nat
    BY DriversAssumption DEF IInv, TypeInv
  <1>2. Validating' = Validating /\ Shows(Restored)' = Shows(Restored)
    BY DEF Validating, Shows
  <1>3. MaxFaults =< 1 /\ ~Shows(Restored) /\ faults' = (IF Validating THEN 0 ELSE MaxFaults)
    BY <1>2 DEF Calm
  <1>4. Validating => faults = 0
    BY <1>3 DEF RunsInv
  <1>5. faults' = faults
    BY <1>1, <1>3, <1>4
  <1> QED BY <1>3, <1>5 DEF Calm

(* A call that fails without a fault cannot be answered.                   *)
LEMMA CalmMoves ==
  ASSUME IInv, Operation, phase \in {"restore", "run"}, faults' = faults, prog' # <<>>
  PROVE  \/ Cuts
         \/ Does
         \/ \E m \in 2..Len(prog) : Passes(m) /\ ~Serves(prog[1])
         \/ Creates /\ (db = Absent \/ prog[1].err = "probe")
         \/ Unfolds
PROOF
  <1>1. TypeInv /\ ProgInv
    BY DEF IInv
  <1>2. \/ Cuts \/ Does \/ Unfolds \/ Creates \/ \E m \in 2..Len(prog) : Passes(m)
    BY <1>1, Moves DEF Stops, Returns, Counts
  <1>3. Creates => db = Absent \/ prog[1].err = "probe"
    <2> SUFFICES ASSUME Creates PROVE db = Absent \/ prog[1].err = "probe"
      OBVIOUS
    <2>1. prog # <<>> /\ Len(prog) > 1
      BY DEF Creates, Goes
    <2>2. prog[1].err \notin OfSchema
      BY <1>1, <2>1, AtStep DEF Ops, Restores, Resets, Opens, Drops
    <2> QED BY <2>2 DEF Creates, OfSchema
  <1>4. ASSUME NEW m \in 2..Len(prog), Passes(m) PROVE ~Serves(prog[1])
    BY <1>4 DEF Passes
  <1> QED BY <1>2, <1>3, <1>4

-----------------------------------------------------------------------------
(***************************************************************************)
(* A restore that passes over what fails.                                  *)
(***************************************************************************)
Restoring ==
  /\ IInv /\ Operation /\ phase = "restore" /\ driver \in Forgiving
  /\ faults' = faults /\ prog' # <<>>

(* The step to come and how it may move on.                                *)
LEMMA RestoringMoves ==
  ASSUME Restoring
  PROVE  /\ Len(prog) \in Nat /\ Len(prog) > 1
         /\ driver \in {"mysql", "tidb", "postgres", "gaussdb"} /\ driver' = driver /\ up' = up
         /\ Restored' = Restored /\ Reloads' = Reloads /\ Backed' = Backed
         /\ prog[1].do \in Restores /\ prog[1].err \notin OfSchema
         /\ prog[1].do = "connect" => prog[1].err # "ignored"
         /\ prog[1].do = "wipe" => driver = "gaussdb"
         /\ Alive <=> up /\ conn \in {"default", "test"}
         /\ Reachable <=> up
         /\ db \in {Absent} \cup Seq(Marks)
         /\ \/ Cuts
            \/ Does
            \/ \E m \in 2..Len(prog) : Passes(m) /\ ~Serves(prog[1])
            \/ Creates /\ (db = Absent \/ prog[1].err = "probe")
            \/ Unfolds
PROOF
  <1> DEFINE n == Len(prog)
             s == prog[1]
  <1>1. IInv /\ TypeInv /\ ProgInv /\ Operation /\ phase = "restore" /\ driver \in Forgiving
        /\ faults' = faults /\ prog' # <<>>
    BY DEF Restoring, IInv
  <1>2. prog # <<>>
    BY <1>1, Moves
  <1>3. n \in Nat /\ n >= 1
    BY <1>1, <1>2, AtStep
  <1>4. n # 1
    <2> SUFFICES ASSUME n = 1 PROVE FALSE
      OBVIOUS
    <2>1. \/ Cuts \/ Does \/ (\E m \in 2..Len(prog) : Passes(m)) \/ Creates \/ Unfolds
      BY <1>1, CalmMoves
    <2>2. \A q, m : Goes(q, m) => m \in 2..n
      BY DEF Goes
    <2>3. \A m : m \notin 2..n
      <3> HIDE DEF n
      <3> QED OBVIOUS
    <2>4. ~Cuts
      <3> SUFFICES ASSUME Cuts PROVE FALSE
        OBVIOUS
      <3>1. n > 1
        BY DEF Cuts
      <3> HIDE DEF n
      <3> QED BY <3>1
    <2>5. Cuts \/ \E q, m : Goes(q, m)
      BY <2>1 DEF Does, Passes, Creates, Unfolds
    <2> QED BY <2>2, <2>3, <2>4, <2>5
  <1>5. n > 1
    <2> HIDE DEF n
    <2> QED BY <1>3, <1>4
  <1>6. s.do \in Restores /\ (s.err \in OfSchema => "tables" \in Restores) /\ s \in Steps /\ StepOk(s)
    BY <1>1, <1>2, <1>5, AtStep DEF Ops
  <1>7. driver \in {"mysql", "tidb", "postgres", "gaussdb"}
    BY <1>1 DEF Forgiving
  <1>8. "tables" \notin Restores
    BY DEF Restores, Resets, Opens, Drops
  <1> HIDE DEF s
  <1>9. /\ s.do = "connect" => s.err # "ignored"
        /\ s.do = "wipe" => driver = "gaussdb"
    BY <1>6, <1>7 DEF StepOk, Sound, Makes
  <1>10. (Alive <=> up /\ conn \in {"default", "test"}) /\ (Reachable <=> up)
    BY <1>7 DEF Alive, Reachable
  <1>11. db \in {Absent} \cup Seq(Marks)
    BY <1>1, DatabaseTypes DEF TypeInv
  <1>12. driver' = driver /\ up' = up /\ Restored' = Restored /\ Reloads' = Reloads /\ Backed' = Backed
    BY <1>1, TestStep
  <1>13. \/ Cuts
         \/ Does
         \/ \E m \in 2..Len(prog) : Passes(m) /\ ~Serves(prog[1])
         \/ Creates /\ (db = Absent \/ prog[1].err = "probe")
         \/ Unfolds
    BY <1>1, CalmMoves
  <1> QED BY <1>3, <1>5, <1>6, <1>7, <1>8, <1>9, <1>10, <1>11, <1>12, <1>13 DEF s

(* A step that connects, or sets or closes a connection, leaves the        *)
(* database alone and is gone afterwards.                                  *)
LEMMA ConnectsGoes ==
  ASSUME Restoring, Connects(prog[1]), db # Absent
  PROVE  /\ Goes(<<>>, 2) /\ db' = db
         /\ prog[1].do = "close" => conn' = "none"
PROOF
  <1> DEFINE s == prog[1]
  <1>1. s.do \in {"close", "set", "connect"} /\ (s.do = "connect" => s.err # "probe")
    BY DEF Connects, Reconnects
  <1>2. \/ Cuts
        \/ Does
        \/ \E m \in 2..Len(prog) : Passes(m)
        \/ Creates /\ s.err = "probe"
        \/ Unfolds
    BY RestoringMoves
  <1>3. ~Cuts /\ ~Unfolds /\ (Creates => s.do = "connect")
    BY <1>1 DEF Cuts, Unfolds, Creates
  <1>4. CASE Does
    <2>1. Goes(<<>>, 2) /\ db' = Database(s) /\ conn' = Connection(s)
      BY <1>4 DEF Does
    <2> HIDE DEF s
    <2>2. Database(s) = db /\ (s.do = "close" => Connection(s) = "none")
      BY <1>1 DEF Database, Connection
    <2> QED BY <2>1, <2>2 DEF s
  <1>5. ASSUME NEW m \in 2..Len(prog), Passes(m)
        PROVE  Goes(<<>>, 2) /\ db' = db /\ s.do # "close"
    BY <1>1, <1>5 DEF Passes
  <1> QED BY <1>1, <1>2, <1>3, <1>4, <1>5

(* The client of a driver that dumps is through: the connection is left.   *)
LEMMA ReloadedGoes ==
  ASSUME Restoring, Reloaded, Restored \in Seq(Marks)
  PROVE  Reloaded'
PROOF
  <1> DEFINE n == Len(prog)
             r == Len(prog')
  <1>1. n \in Nat /\ n > 1 /\ driver' = driver /\ Restored' = Restored
    BY RestoringMoves
  <1>2. driver \in Dumping /\ db = Restored /\ \A k \in 1..(n - 1) : Reconnects(prog[k])
    BY DEF Reloaded
  <1>3. 1 \in 1..(n - 1)
    <2> HIDE DEF n
    <2> QED BY <1>1
  <1>4. Connects(prog[1]) /\ db # Absent
    BY <1>2, <1>3, DatabaseTypes DEF Connects
  <1>5. Goes(<<>>, 2) /\ db' = db
    BY <1>4, ConnectsGoes
  <1>6. r \in Nat /\ r = n - 2 + 1 /\ \A k \in 1..r : prog'[k] = prog[k + 2 - 1]
    BY <1>5, TailIs
  <1> HIDE DEF n, r
  <1>7. ASSUME NEW k \in 1..(r - 1) PROVE Reconnects(prog[k])'
    <2>1. k \in 1..r /\ k + 2 - 1 \in 1..(n - 1)
      BY <1>1, <1>6
    <2>2. prog'[k] = prog[k + 2 - 1]
      BY <1>6, <2>1
    <2> QED BY <1>2, <2>1, <2>2 DEF Reconnects
  <1> QED BY <1>1, <1>2, <1>5, <1>7 DEF Reloaded, Dumping, r

(* The session that was to load the statements is gone for good.           *)
LEMMA CutOffGoes ==
  ASSUME Restoring, CutOff
  PROVE  CutOff'
PROOF
  <1> DEFINE n == Len(prog)
             r == Len(prog')
             s == prog[1]
  <1>1. n \in Nat /\ n > 1 /\ driver' = driver /\ up' = up
    BY RestoringMoves
  <1>2. driver \notin Dumping /\ ~Alive /\ \A k \in 1..(n - 1) : prog[k].do \in {"apply", "load"}
    BY DEF CutOff
  <1>3. 1 \in 1..(n - 1)
    <2> HIDE DEF n
    <2> QED BY <1>1
  <1>4. s.do \in {"apply", "load"}
    BY <1>2, <1>3
  <1>5. Does \/ \E m \in 2..n : Passes(m)
    BY <1>4, RestoringMoves DEF Cuts, Creates, Unfolds
  <1>6. PICK m \in 2..n : Goes(<<>>, m) /\ conn' = conn
    <2>1. CASE Does
      <3>1. Goes(<<>>, 2) /\ conn' = Connection(s)
        BY <2>1 DEF Does
      <3>2. 2 \in 2..n
        BY <3>1 DEF Goes
      <3> HIDE DEF s
      <3>3. Connection(s) = conn
        BY <1>4 DEF Connection
      <3> QED BY <3>1, <3>2, <3>3
    <2>2. ASSUME NEW m \in 2..n, Passes(m) PROVE Goes(<<>>, m) /\ conn' = conn
      <3>1. Goes(<<>>, m) /\ conn' = Fell(s)
        BY <2>2 DEF Passes
      <3> HIDE DEF s
      <3>2. Fell(s) = conn
        BY <1>4 DEF Fell
      <3> QED BY <3>1, <3>2
    <2> QED BY <1>5, <2>1, <2>2
  <1>7. /\ r \in Nat /\ r = n - m + 1
        /\ \A k \in 1..r : prog'[k] = prog[k + m - 1]
    BY <1>6, TailIs
  <1> HIDE DEF n, r
  <1>8. ASSUME NEW k \in 1..(r - 1) PROVE prog'[k].do \in {"apply", "load"}
    <2>1. k \in 1..r /\ k + m - 1 \in 1..(n - 1)
      BY <1>1, <1>6, <1>7
    <2> QED BY <1>2, <1>7, <2>1
  <1>9. ~Alive'
    BY <1>1, <1>2, <1>6 DEF Alive
  <1> QED BY <1>1, <1>2, <1>8, <1>9 DEF CutOff, Dumping, r

(* A driver that runs the statements itself goes on.                       *)
LEMMA ReloadsOn ==
  ASSUME TypeInv, NEW n \in 0..Len(Backed), driver \notin Dumping
  PROVE  Reloads[n].on
PROOF
  <1> DEFINE N == Len(Backed)
  <1>1. N \in Nat /\ n \in 0..N
    BY ReloadsAre
  <1> HIDE DEF N
  <1>2. CASE n = 0
    BY <1>2, ReloadsAre DEF Loads0
  <1>3. CASE n # 0
    <2> DEFINE acc == Reloads[n - 1]
               x == Backed[(n - 1) + 1]
    <2>1. n - 1 \in 0..(N - 1) /\ n - 1 \in 0..N /\ (n - 1) + 1 \in 1..N /\ (n - 1) + 1 = n
      BY <1>1, <1>3
    <2>2. Reloads[(n - 1) + 1] = Reload(acc, x)
      BY <2>1, ReloadsAre DEF N
    <2>3. acc \in LoadStates /\ x \in Names \ {"none", "cached"}
      BY <2>1, ReloadsAre DEF N
    <2> HIDE DEF acc, x
    <2>4. Reload(acc, x).on
      BY <2>3, ReloadTypes
    <2> QED BY <2>1, <2>2, <2>4
  <1> QED BY <1>2, <1>3

(* One statement of the file, that worked or did not.                      *)
LEMMA ReloadsNext ==
  ASSUME TypeInv, NEW n \in 0..(Len(Backed) - 1), Reloads[n].on
  PROVE  /\ Len(Backed) \in Nat /\ n \in 0..Len(Backed) /\ n + 1 \in 0..Len(Backed) /\ n + 1 \in 1..Len(Backed)
         /\ Accepts(Reloads[n].d, Backed[n + 1]) =>
              Reloads[n + 1].d = After(Reloads[n].d, Backed[n + 1]) /\ Reloads[n + 1].on
         /\ ~Accepts(Reloads[n].d, Backed[n + 1]) =>
              Reloads[n + 1].d = Reloads[n].d /\ Reloads[n + 1].on = (driver \notin Dumping)
PROOF
  <1> DEFINE N == Len(Backed)
             acc == Reloads[n]
             x == Backed[n + 1]
  <1>1. N \in Nat /\ n \in 0..N /\ n + 1 \in 0..N /\ n + 1 \in 1..N
    <2>1. N \in Nat /\ n \in 0..(N - 1)
      BY ReloadsAre
    <2> HIDE DEF N
    <2> QED BY <2>1
  <1>2. Reloads[n + 1] = Reload(acc, x) /\ acc \in LoadStates /\ x \in Names \ {"none", "cached"}
    BY <1>1, ReloadsAre
  <1>3. acc.on
    OBVIOUS
  <1> HIDE DEF acc, x
  <1>4. /\ Accepts(acc.d, x) => Reload(acc, x).d = After(acc.d, x) /\ Reload(acc, x).on
        /\ ~Accepts(acc.d, x) => Reload(acc, x).d = acc.d /\ Reload(acc, x).on = (driver \notin Dumping)
    BY <1>2, <1>3, ReloadTypes
  <1> QED BY <1>1, <1>2, <1>4 DEF acc, x

(* When a statement of a file works.                                       *)
LEMMA ServesLoad ==
  ASSUME NEW s, s.do \in {"apply", "load"}
  PROVE  Serves(s) <=> (IF s.do = "load" THEN Reachable ELSE Alive) /\ Accepts(db, s.stmt)
PROOF
  <1>1. Serves(s) => (IF s.do = "load" THEN Reachable ELSE Alive) /\ Accepts(db, s.stmt)
    BY DEF Serves, OfFiles, OfHandle, OwnConnection, Accepts
  <1>2. (IF s.do = "load" THEN Reachable ELSE Alive) /\ Accepts(db, s.stmt) => Serves(s)
    BY DEF Serves, OfFiles, OfHandle, OwnConnection, Accepts
  <1> QED BY <1>1, <1>2

(* A statement of the file is run, or the client stops, or there is no     *)
(* session to run it on.                                                   *)
LEMMA ReloadingGoes ==
  ASSUME Restoring, Reloading
  PROVE  Reloading' \/ Reloaded' \/ CutOff'
PROOF
  <1> DEFINE N == Len(Backed)
             l == Len(prog)
             r == Len(prog')
             s == prog[1]
             how == IF driver \in Dumping THEN "load" ELSE "apply"
  <1>1. PICK n \in 0..N :
          /\ db = Reloads[n].d
          /\ \A i \in 1..(N - n) :
               /\ prog[i].stmt = Backed[n + i] /\ prog[i].err = "ignored"
               /\ prog[i].do = how
          /\ IF driver \in Dumping
               THEN up /\ Reloads[n].on /\ l = N - n + 2 /\ Reconnects(prog[l - 1])
               ELSE l = N - n + 1
    BY DEF Reloading
  <1>2. /\ TypeInv /\ N \in Nat /\ l \in Nat /\ l > 1 /\ driver' = driver /\ up' = up
        /\ Reloads' = Reloads /\ Backed' = Backed /\ Restored' = Restored /\ driver \in Forgiving
    BY ReloadsAre, RestoringMoves DEF Restoring, IInv
  <1> HIDE DEF N, l, r, s, how
  <1>3. Reloads[n].on
    BY <1>1, <1>2, ReloadsOn DEF N
  <1>4. CASE n = N
    <2>1. driver \in Dumping /\ l = 2 /\ Reconnects(prog[1])
      BY <1>1, <1>2, <1>4
    <2>2. db = Restored
      BY <1>1, <1>2, <1>4 DEF Restored, N
    <2>3. Reloaded
      <3>1. \A k \in 1..(l - 1) : k = 1
        BY <2>1
      <3> QED BY <2>1, <2>2, <3>1 DEF Reloaded, l
    <2>4. Restored \in Seq(Marks)
      BY RestoredTypes DEF Restoring, IInv, BaseInv
    <2> QED BY <2>3, <2>4, ReloadedGoes
  <1>5. CASE n # N
    <2> DEFINE d == Reloads[n].d
               x == Backed[n + 1]
    <2>1. n \in 0..(N - 1) /\ 1 \in 1..(N - n)
      BY <1>2, <1>5
    <2>2. s.stmt = x /\ s.err = "ignored" /\ s.do = how
      BY <1>1, <2>1 DEF s
    <2>3. s.do \in {"apply", "load"} /\ (s.do = "load" <=> driver \in Dumping)
      BY <2>2 DEF how
    <2>4. /\ n + 1 \in 0..N /\ n + 1 \in 1..N
          /\ Accepts(d, x) => Reloads[n + 1].d = After(d, x) /\ Reloads[n + 1].on
          /\ ~Accepts(d, x) => Reloads[n + 1].d = d /\ Reloads[n + 1].on = (driver \notin Dumping)
      BY <1>2, <1>3, <2>1, ReloadsNext DEF N
    <2>5. Serves(s) <=> (IF s.do = "load" THEN Reachable ELSE Alive) /\ Accepts(d, x)
      <3>1. db = d
        BY <1>1
      <3> HIDE DEF d, x
      <3>2. Serves(s) <=> (IF s.do = "load" THEN Reachable ELSE Alive) /\ Accepts(db, s.stmt)
        BY <2>3, ServesLoad
      <3> QED BY <2>2, <3>1, <3>2
    <2>6. Does \/ \E m \in 2..Len(prog) : Passes(m) /\ ~Serves(s)
      BY <2>3, RestoringMoves DEF Cuts, Creates, Unfolds, s
    <2> HIDE DEF d, x
    <2>7. ASSUME Goes(<<>>, 2), db' = Reloads[n + 1].d, Reloads[n + 1].on \/ driver \notin Dumping
          PROVE  Reloading'
      <3>1. r \in Nat /\ r = l - 2 + 1 /\ \A k \in 1..r : prog'[k] = prog[k + 2 - 1]
        BY <2>7, TailIs DEF l, r
      <3>2. ASSUME NEW i \in 1..(N - (n + 1))
            PROVE  prog'[i].stmt = Backed[n + 1 + i] /\ prog'[i].err = "ignored" /\ prog'[i].do = how
        <4>1. i \in 1..r /\ i + 2 - 1 \in 1..(N - n) /\ n + (i + 2 - 1) = n + 1 + i
          BY <1>1, <1>2, <2>4, <3>1
        <4> QED BY <1>1, <3>1, <4>1
      <3>3. driver \in Dumping =>
              /\ up /\ Reloads[n + 1].on /\ r = N - (n + 1) + 2 /\ Reconnects(prog'[r - 1])
        <4> SUFFICES ASSUME driver \in Dumping
                     PROVE  up /\ Reloads[n + 1].on /\ r = N - (n + 1) + 2 /\ Reconnects(prog'[r - 1])
          OBVIOUS
        <4>1. r = N - (n + 1) + 2 /\ r - 1 \in 1..r /\ (r - 1) + 2 - 1 = l - 1
          BY <1>1, <1>2, <2>4, <3>1
        <4> QED BY <1>1, <2>7, <3>1, <4>1
      <3>4. driver \notin Dumping => r = N - (n + 1) + 1
        BY <1>1, <1>2, <2>4, <3>1
      <3>5. /\ db' = Reloads[n + 1].d
            /\ \A i \in 1..(N - (n + 1)) :
                 prog'[i].stmt = Backed[n + 1 + i] /\ prog'[i].err = "ignored" /\ prog'[i].do = how
            /\ IF driver \in Dumping
                 THEN up /\ Reloads[n + 1].on /\ r = N - (n + 1) + 2 /\ Reconnects(prog'[r - 1])
                 ELSE r = N - (n + 1) + 1
        BY <2>7, <3>2, <3>3, <3>4
      <3> QED BY <1>2, <2>4, <3>5 DEF Reloading, Reconnects, Dumping, N, r, how
    <2>8. CASE Does
      <3>1. Goes(<<>>, 2) /\ db' = Database(s) /\ Serves(s)
        BY <2>8 DEF Does, s
      <3>2. Database(s) = After(db, s.stmt)
        BY <2>3 DEF Database
      <3>3. db' = Reloads[n + 1].d /\ Reloads[n + 1].on
        BY <1>1, <2>2, <2>4, <2>5, <3>1, <3>2 DEF d
      <3> QED BY <2>7, <3>1, <3>3
    <2>9. ASSUME NEW m \in 2..Len(prog), Passes(m), ~Serves(s) PROVE Reloading' \/ Reloaded' \/ CutOff'
      <3>1. /\ Goes(<<>>, m) /\ db' = db /\ conn' = Fell(s) /\ (s.do # "load" => m = 2)
            /\ (s.do = "load" => prog[m].do # "load")
        BY <2>9 DEF Passes, s
      <3>2. conn' = conn
        BY <2>3, <3>1 DEF Fell
      <3>3. r \in Nat /\ r = l - m + 1 /\ m \in 2..l /\ \A k \in 1..r : prog'[k] = prog[k + m - 1]
        BY <3>1, TailIs DEF l, r
      <3>4. CASE driver \in Dumping
        <4>1. ~Accepts(d, x)
          BY <1>1, <2>3, <2>5, <2>9, <3>4 DEF Reachable
        <4>2. Reloads[n + 1].d = d /\ ~Reloads[n + 1].on
          BY <2>4, <3>4, <4>1
        <4>3. Reloads[N].d = Reloads[n + 1].d
          BY <1>2, <2>4, <3>4, <4>2, ReloadsStop DEF N
        <4>4. db' = Restored
          BY <1>1, <1>2, <3>1, <4>2, <4>3 DEF Restored, N, d
        <4>5. l = N - n + 2 /\ Reconnects(prog[l - 1])
          BY <1>1, <3>4
        <4>6. m = l - 1 \/ m = l
          <5>1. m \notin 1..(N - n)
            BY <1>1, <2>2, <2>3, <3>1, <3>4
          <5> QED BY <1>2, <2>1, <3>3, <4>5, <5>1
        <4>7. ASSUME NEW k \in 1..(r - 1) PROVE Reconnects(prog'[k])
          <5>1. k \in 1..r /\ k + m - 1 = l - 1
            BY <1>2, <3>3, <4>6
          <5> QED BY <3>3, <4>5, <5>1
        <4> QED BY <1>2, <3>4, <4>4, <4>7 DEF Reloaded, Reconnects, Dumping, r
      <3>5. CASE driver \notin Dumping
        <4>1. s.do = "apply" /\ m = 2
          BY <2>3, <3>1, <3>5
        <4>2. CASE Alive
          <5>1. ~Accepts(d, x)
            BY <2>5, <2>9, <4>1, <4>2
          <5>2. db' = Reloads[n + 1].d
            BY <1>1, <2>4, <3>1, <5>1 DEF d
          <5> QED BY <2>7, <3>1, <3>5, <4>1, <5>2
        <4>3. CASE ~Alive
          <5>1. ~Alive'
            BY <1>2, <3>2, <4>3 DEF Alive
          <5>2. ASSUME NEW k \in 1..(r - 1) PROVE prog'[k].do \in {"apply", "load"}
            <6>1. k \in 1..r /\ k + m - 1 \in 1..(N - n)
              BY <1>1, <1>2, <3>3, <3>5, <4>1
            <6>2. prog[k + m - 1].do = how
              BY <1>1, <6>1
            <6> QED BY <2>2, <2>3, <3>3, <6>1, <6>2
          <5> QED BY <1>2, <3>5, <5>1, <5>2 DEF CutOff, Dumping, r
        <4> QED BY <4>2, <4>3
      <3> QED BY <3>4, <3>5
    <2> QED BY <2>6, <2>8, <2>9
  <1> QED BY <1>4, <1>5

(* The step that loads the file comes closer.                              *)
LEMMA ReloaderGoes ==
  ASSUME NEW q, Goes(q, 2), driver' = driver, NEW r \in 2..Len(prog), Reloader(r),
         r > 2 \/ (Len(q) = 0 /\ (driver \in Dumping => conn' = "none"))
  PROVE  r - 1 + Len(q) \in 1..Len(prog') /\ Reloader(r - 1 + Len(q))'
PROOF
  <1> DEFINE l == Len(prog)
             c == Len(q)
  <1>1. /\ l \in Nat /\ c \in Nat /\ Len(prog') = c + l - 1
        /\ \A i \in 2..l : i - 1 + c \in 1..Len(prog') /\ prog'[i - 1 + c] = prog[i]
    BY RestIs
  <1>0. PICK t : t = r - 1 + c
    OBVIOUS
  <1> HIDE DEF c, l
  <1>7. l \in Nat /\ c \in Nat /\ r \in Nat /\ 2 <= r /\ r <= l /\ Len(prog') = c + l - 1
    BY <1>1 DEF l
  <1>2. t \in 1..Len(prog') /\ prog'[t] = prog[r]
    <2>1. t \in 1..Len(prog')
      BY <1>0, <1>7
    <2>2. r \in 2..l
      BY <1>7
    <2>3. prog'[r - 1 + c] = prog[r]
      BY <1>1, <2>2
    <2> QED BY <1>0, <2>1, <2>3
  <1>3. prog[r].do = "replay_backup" /\ prog[r].err = "ignored"
    BY DEF Reloader
  <1>4. ASSUME driver \in Dumping PROVE Reloader(t)'
    <2>1. l = r + 2 /\ Reconnects(prog[r + 1]) /\ prog[r - 1].do = "close"
      BY <1>4 DEF Reloader, l
    <2>2. r + 1 \in 2..l /\ (r + 1) - 1 + c = t + 1 /\ Len(prog') = t + 2
      <3>1. l = r + 2
        BY <2>1
      <3> QED BY <1>0, <1>7, <3>1
    <2>3. Len(prog') = t + 2 /\ prog'[t + 1] = prog[r + 1]
      <3>1. prog'[(r + 1) - 1 + c] = prog[r + 1]
        BY <1>1, <2>2
      <3> QED BY <2>2, <3>1
    <2>4. IF t = 1 THEN conn' = "none" ELSE prog'[t - 1].do = "close"
      <3>1. CASE t = 1
        <4>1. ~(r > 2)
          BY <1>0, <1>7, <3>1
        <4> QED BY <1>4, <3>1, <4>1
      <3>2. CASE t # 1
        <4>1. r > 2
          <5>1. CASE r > 2
            BY <5>1
          <5>2. CASE ~(r > 2)
            <6>1. c = 0
              BY <5>2 DEF c
            <6> QED BY <1>0, <1>7, <3>2, <5>2, <6>1
          <5> QED BY <5>1, <5>2
        <4>2. r - 1 \in 2..l /\ (r - 1) - 1 + c = t - 1
          BY <1>0, <1>7, <4>1
        <4>3. prog'[(r - 1) - 1 + c] = prog[r - 1]
          BY <1>1, <4>2
        <4> QED BY <2>1, <3>2, <4>2, <4>3
      <3> QED BY <3>1, <3>2
    <2>5. driver' \in Dumping' /\ Reconnects(prog[t + 1])'
      BY <1>4, <2>1, <2>3 DEF Dumping, Reconnects
    <2>6. Reloader(t)'
      BY <1>2, <1>3, <2>3, <2>4, <2>5 DEF Reloader
    <2> QED BY <2>6
  <1>5. ASSUME driver \notin Dumping PROVE Reloader(t)'
    <2>1. l = r + 1
      BY <1>5 DEF Reloader, l
    <2>2. Len(prog') = t + 1
      BY <1>0, <1>7, <2>1
    <2>3. driver' \notin Dumping'
      BY <1>5 DEF Dumping
    <2>4. Reloader(t)'
      BY <1>2, <1>3, <2>2, <2>3 DEF Reloader
    <2> QED BY <2>4
  <1>6. t \in 1..Len(prog') /\ Reloader(t)'
    BY <1>2, <1>4, <1>5
  <1> QED BY <1>0, <1>6 DEF c

(* The statements of the file become steps.                                *)
LEMMA UnfoldingGoes ==
  ASSUME Restoring, Reloader(1), 1 \in 1..Len(prog), db = <<>>, up
  PROVE  Reloading' \/ CutOff'
PROOF
  <1> DEFINE s == prog[1]
             l == Len(prog)
             r == Len(prog')
             N == Len(Backed)
             q == process_dbrecord_into_sqls(s, backup)
             how == IF conn = "none" THEN "load" ELSE "apply"
  <1>1. s.do = "replay_backup" /\ s.err = "ignored"
    BY DEF Reloader
  <1>2. Unfolds
    <2>1. Serves(s)
      BY <1>1 DEF Serves, OfFiles, OfHandle, OwnConnection
    <2>2. ~Cuts /\ ~Does /\ ~Creates
      BY <1>1 DEF Cuts, Does, Creates
    <2> QED BY <2>1, <2>2, RestoringMoves
  <1>3. /\ Goes(q, 2) /\ db' = db /\ conn' = conn /\ up' = up
    BY <1>1, <1>2 DEF Unfolds, File
  <1>4. /\ TypeInv /\ driver' = driver /\ driver # "clickhouse"
        /\ Reloads' = Reloads /\ Backed' = Backed /\ N \in Nat
        /\ (Alive <=> up /\ conn \in {"default", "test"})
    BY RestoringMoves, ReloadsAre DEF Restoring, IInv
  <1>5. /\ Len(q) = N
        /\ \A k \in 1..N : q[k].do = how /\ q[k].err = "ignored" /\ q[k].stmt = Backed[k]
    <2>1. CASE backup = None
      <3>1. q = <<>> /\ Backed = <<>>
        BY <2>1 DEF process_dbrecord_into_sqls, Backed
      <3> QED BY <3>1
    <2>2. CASE backup # None
      <3>1. q = [i \in 1..Len(backup) |-> Apply(how, "ignored", backup[i])] /\ Backed = backup
        BY <1>1, <1>4, <2>2 DEF process_dbrecord_into_sqls, Backed
      <3>2. N \in Nat /\ N = Len(backup)
        BY <1>4, <3>1
      <3> HIDE DEF q, how, N
      <3>3. Len(q) = N /\ \A k \in 1..N : q[k] = Apply(how, "ignored", backup[k])
        BY <3>1, <3>2
      <3> QED BY <3>1, <3>3 DEF Apply
    <2> QED BY <2>1, <2>2
  <1> HIDE DEF q
  <1>6. /\ l \in Nat /\ l > 1 /\ r \in Nat /\ r = N + l - 1
        /\ \A k \in 1..N : prog'[k] = q[k]
        /\ \A i \in 2..l : prog'[i - 1 + N] = prog[i]
    BY <1>3, <1>5, RestIs
  <1> HIDE DEF N, l, r, s, how
  <1>7. /\ 0 \in 0..N /\ db' = Reloads[0].d /\ Reloads[0].on
    <2>1. Reloads[0] = Loads0
      BY <1>4, ReloadsAre
    <2> QED BY <1>3, <1>4, <2>1 DEF Loads0
  <1>8. \A i \in 1..(N - 0) : prog'[i].do = how /\ prog'[i].err = "ignored" /\ prog'[i].stmt = Backed[0 + i]
    BY <1>4, <1>5, <1>6
  <1>9. CASE driver \in Dumping
    <2>1. l = 3 /\ Reconnects(prog[2]) /\ conn = "none"
      BY <1>9 DEF Reloader, l
    <2>2. r = N - 0 + 2 /\ prog'[r - 1] = prog[2] /\ how = "load"
      BY <1>4, <1>6, <2>1 DEF how
    <2>3. Reloading'
      BY <1>3, <1>4, <1>7, <1>8, <1>9, <2>1, <2>2 DEF Reloading, Reconnects, Dumping, N, r
    <2> QED BY <2>3
  <1>10. CASE driver \notin Dumping
    <2>0. l = 1 + 1
      BY <1>10 DEF Reloader, l
    <2>1. l = 2 /\ r = N - 0 + 1
      BY <1>4, <1>6, <2>0
    <2>2. CASE how = "apply"
      <3>1. Reloading'
        BY <1>3, <1>4, <1>7, <1>8, <1>10, <2>1, <2>2 DEF Reloading, Reconnects, Dumping, N, r
      <3> QED BY <3>1
    <2>3. CASE how # "apply"
      <3>1. how = "load" /\ conn = "none"
        BY <2>3 DEF how
      <3>2. ~Alive'
        BY <1>3, <1>4, <3>1 DEF Alive, Restoring, Forgiving
      <3>3. r - 1 = N - 0
        BY <1>4, <2>1
      <3>4. \A k \in 1..(r - 1) : prog'[k].do \in {"apply", "load"}
        BY <1>8, <3>1, <3>3
      <3> QED BY <1>4, <1>10, <3>2, <3>4 DEF CutOff, Dumping, r
    <2> QED BY <2>2, <2>3
  <1> QED BY <1>9, <1>10

(* Nothing but the connection is between the empty database and the file.  *)
LEMMA ConnectingGoes ==
  ASSUME Restoring, NEW r \in 2..Len(prog), Reloader(r), db = <<>>, up, prog[1].do # "if_backup",
         \A k \in 1..(r - 1) : Connects(prog[k])
  PROVE  ToReload'
PROOF
  <1> DEFINE l == Len(prog)
  <1>1. l \in Nat /\ l > 1 /\ driver' = driver /\ up' = up /\ r \in 2..l
    BY RestoringMoves
  <1> HIDE DEF l
  <1>2. 1 \in 1..(r - 1)
    BY <1>1
  <1>3. Goes(<<>>, 2) /\ db' = db /\ (prog[1].do = "close" => conn' = "none")
    <2>1. db # Absent
      BY DatabaseTypes
    <2> QED BY <1>2, <2>1, ConnectsGoes
  <1>4. /\ l \in Nat /\ Len(prog') = l - 2 + 1
        /\ \A k \in 1..Len(prog') : prog'[k] = prog[k + 2 - 1]
    BY <1>3, TailIs DEF l
  <1>5. r > 2 \/ (driver \in Dumping => conn' = "none")
    <2> SUFFICES ASSUME r = 2, driver \in Dumping PROVE conn' = "none"
      BY <1>1
    <2>1. prog[r - 1].do = "close"
      BY DEF Reloader
    <2>2. r - 1 = 1
      OBVIOUS
    <2> QED BY <1>3, <2>1, <2>2
  <1>6. Len(<<>>) = 0
    OBVIOUS
  <1>7. r - 1 + Len(<<>>) \in 1..Len(prog') /\ Reloader(r - 1 + Len(<<>>))'
    BY <1>1, <1>3, <1>5, <1>6, ReloaderGoes
  <1>8. r - 1 + Len(<<>>) = r - 1
    BY <1>1, <1>6
  <1>9. ASSUME NEW k \in 1..(r - 1 - 1) PROVE Connects(prog[k])'
    <2>1. k \in 1..Len(prog') /\ k + 2 - 1 \in 1..(r - 1)
      BY <1>1, <1>4
    <2> QED BY <1>4, <2>1 DEF Connects, Reconnects
  <1>10. r - 1 \in 1..Len(prog') /\ Reloader(r - 1)'
    BY <1>7, <1>8
  <1> QED BY <1>1, <1>3, <1>9, <1>10 DEF ToReload

(* The file is looked for: there is none, or it is to be loaded.           *)
LEMMA LookingGoes ==
  ASSUME Restoring, NEW r \in 2..Len(prog), Reloader(r), db \in {Absent, <<>>}, up,
         prog[1].do = "if_backup", \A k \in 2..(r - 1) : Connects(prog[k])
  PROVE  ToReload' \/ Reloading' \/ Reloaded'
PROOF
  <1> DEFINE l == Len(prog)
             s == prog[1]
  <1>1. /\ TypeInv /\ l \in Nat /\ l > 1 /\ driver' = driver /\ up' = up /\ r \in 2..l
        /\ Reloads' = Reloads /\ Backed' = Backed /\ Restored' = Restored /\ driver \in Forgiving
    BY RestoringMoves DEF Restoring, IInv
  <1>2. db = <<>>
    <2>1. prog # <<>>
      BY <1>1
    <2> QED BY <2>1, NeedsDb DEF Restoring, IInv, Needs
  <1>3. Cuts \/ Does
    <2>1. Serves(s)
      BY DEF Serves, OfFiles, OfHandle, OwnConnection
    <2> QED BY <2>1, RestoringMoves DEF Creates, Unfolds
  <1> HIDE DEF l, s
  <1>4. CASE Cuts
    <2>1. backup = None /\ prog' = <<prog[l]>> /\ db' = db
      BY <1>4 DEF Cuts, l
    <2>2. Backed = <<>> /\ Len(Backed) = 0 /\ Len(prog') = 1
      BY <2>1 DEF Backed
    <2>3. Reloads[0].d = <<>> /\ Reloads[0].on
      BY <1>1, ReloadsAre DEF Loads0
    <2>4. Restored = <<>>
      BY <1>1, <2>2, <2>3 DEF Restored
    <2>5. CASE driver \in Dumping
      <3>1. \A k \in 1..(Len(prog') - 1) : FALSE
        BY <2>2
      <3> QED BY <1>1, <1>2, <2>1, <2>4, <2>5, <3>1 DEF Reloaded, Dumping
    <2>6. CASE driver \notin Dumping
      <3>1. 0 \in 0..Len(Backed) /\ Len(prog') = Len(Backed) - 0 + 1 /\ \A i \in 1..(Len(Backed) - 0) : FALSE
        BY <2>2
      <3> QED BY <1>1, <1>2, <2>1, <2>3, <2>6, <3>1 DEF Reloading, Dumping
    <2> QED BY <2>5, <2>6
  <1>5. CASE Does
    <2>1. Goes(<<>>, 2) /\ db' = Database(s)
      BY <1>5 DEF Does, s
    <2>2. db' = db
      <3>1. s.do = "if_backup"
        BY DEF s
      <3> QED BY <2>1, <3>1 DEF Database
    <2>3. /\ Len(prog') = l - 2 + 1 /\ \A k \in 1..Len(prog') : prog'[k] = prog[k + 2 - 1]
      BY <2>1, TailIs DEF l
    <2>4. r > 2 \/ driver \notin Dumping
      <3> SUFFICES ASSUME r = 2, driver \in Dumping PROVE FALSE
        BY <1>1
      <3>1. prog[r - 1].do = "close"
        BY DEF Reloader
      <3>2. r - 1 = 1
        OBVIOUS
      <3> QED BY <3>1, <3>2
    <2>5. Len(<<>>) = 0 /\ r - 1 + Len(<<>>) = r - 1
      BY <1>1
    <2>6. r - 1 + Len(<<>>) \in 1..Len(prog') /\ Reloader(r - 1 + Len(<<>>))'
      BY <1>1, <2>1, <2>4, <2>5, ReloaderGoes
    <2>7. r - 1 \in 1..Len(prog') /\ Reloader(r - 1)'
      BY <2>5, <2>6
    <2>8. ASSUME NEW k \in 1..(r - 1 - 1) PROVE Connects(prog[k])'
      <3>1. k \in 1..Len(prog') /\ k + 2 - 1 \in 2..(r - 1)
        BY <1>1, <2>3
      <3> QED BY <2>3, <3>1 DEF Connects, Reconnects
    <2>9. ToReload'
      BY <1>1, <1>2, <2>2, <2>7, <2>8 DEF ToReload
    <2> QED BY <2>9
  <1> QED BY <1>3, <1>4, <1>5

(* A database of gaussdb is wiped on the connection that was made last.    *)
LEMMA CreationConnects ==
  ASSUME driver = "gaussdb", NEW s
  PROVE  Len(Creation(s)) \in Nat /\ Len(Creation(s)) >= 1 /\ Creation(s)[Len(Creation(s))].do = "connect"
PROOF
  <1> DEFINE c == <<Fatal("connect_default"), Throws("create"), Throws("close"), Throws("connect")>>
  <1>1. D.conn.create = c
    BY DEF D, dut_setup, gaussdb_connection
  <1>2. Len(c) = 4 /\ c[4].do = "connect"
    BY DEF Throws, Step
  <1>3. Len(AsSchema(c)) = 4 /\ AsSchema(c)[4].do = "connect"
    <2>1. AsSchema(c) = [i \in 1..4 |-> [c[i] EXCEPT !.err = IF @ = "probe" THEN "schema_probe" ELSE "schema"]]
      BY <1>2 DEF AsSchema
    <2>2. c[4] = [do |-> "connect", err |-> "plain", stmt |-> "none"]
      BY DEF Throws, Step
    <2> HIDE DEF c
    <2> QED BY <2>1, <2>2
  <1> QED BY <1>1, <1>2, <1>3 DEF Creation

(* The database is emptied before the file is looked for.                  *)
LEMMA EmptyingGoes ==
  ASSUME Restoring, NEW r \in 2..Len(prog), Reloader(r), NEW b \in 2..(r - 1),
         prog[b].do = "if_backup", Emptied(b),
         \A k \in 1..(b - 1) : prog[k].do \in Resets,
         \A k \in (b + 1)..(r - 1) : Connects(prog[k])
  PROVE  ToReload'
PROOF
  <1> DEFINE l == Len(prog)
             s == prog[1]
  <1>1. /\ l \in Nat /\ l > 1 /\ driver' = driver /\ up' = up /\ r \in 2..l /\ r > 2 /\ driver \in Drivers
        /\ s.do \in Resets /\ s.err \notin OfSchema /\ 1 \in 1..(b - 1)
        /\ b \in 2..(l - 1)
    BY RestoringMoves DEF Restoring, IInv, TypeInv
  <1>2. /\ s.do = "connect" => s.err # "ignored"
        /\ s.do = "wipe" => driver = "gaussdb"
        /\ (Alive <=> up /\ conn \in {"default", "test"})
        /\ (Reachable <=> up)
        /\ \/ Cuts \/ Does
           \/ \E m \in 2..l : Passes(m) /\ ~Serves(s)
           \/ Creates \/ Unfolds
    BY RestoringMoves
  <1>3. s.do \notin {"if_backup", "replay_record", "replay_backup", "load", "apply"}
    BY <1>1 DEF Resets, Opens, Drops
  <1> HIDE DEF l
  <1>4. PICK q : /\ Goes(q, 2)
                 /\ \/ Does /\ q = <<>>
                    \/ Passes(2) /\ ~Serves(s) /\ q = <<>>
                    \/ Creates /\ q = Creation(s)
    <2>1. CASE Does
      BY <2>1 DEF Does
    <2>2. ASSUME NEW m \in 2..l, Passes(m), ~Serves(s) PROVE Goes(<<>>, 2) /\ Passes(2) /\ ~Serves(s)
      <3>1. m = 2
        BY <1>3, <2>2 DEF Passes
      <3> QED BY <2>2, <3>1 DEF Passes
    <2>3. CASE Creates
      BY <2>3 DEF Creates
    <2>4. ~Cuts /\ ~Unfolds
      BY <1>3 DEF Cuts, Unfolds
    <2> QED BY <1>2, <2>1, <2>2, <2>3, <2>4
  <1> DEFINE c == Len(q)
  <1>5. /\ c \in Nat /\ Len(prog') = c + l - 1
        /\ \A k \in 1..c : k \in 1..Len(prog') /\ prog'[k] = q[k]
        /\ \A i \in 2..l : i - 1 + c \in 1..Len(prog') /\ prog'[i - 1 + c] = prog[i]
    BY <1>4, RestIs DEF l
  <1>6. PICK t : t = r - 1 + c
    OBVIOUS
  <1>7. t \in 1..Len(prog') /\ Reloader(t)'
    <2>1. r - 1 + Len(q) \in 1..Len(prog') /\ Reloader(r - 1 + Len(q))'
      BY <1>1, <1>4, ReloaderGoes
    <2> QED BY <1>6, <2>1
  <1>8. PICK e : e = b - 1 + c
    OBVIOUS
  <1> HIDE DEF c
  <1>0. /\ e \in 1..(t - 1) /\ e \in Nat /\ t \in Nat /\ b \in 2..l
        /\ \A k \in 1..(e - 1) : k <= c => k \in 1..c
        /\ \A k \in 1..(e - 1) : k > c =>
             k - c + 1 \in 1..(b - 1) /\ k - c + 1 \in 2..l /\ (k - c + 1) - 1 + c = k
        /\ \A k \in (e + 1)..(t - 1) :
             k - c + 1 \in (b + 1)..(r - 1) /\ k - c + 1 \in 2..l /\ (k - c + 1) - 1 + c = k
        /\ \A k \in 2..(b - 1) : k - 1 + c \in 1..(e - 1) /\ k - 1 + c \in Nat /\ k \in 2..l
    <2>1. l \in Nat /\ r \in 2..l /\ c \in Nat
      BY <1>1, <1>5
    <2> QED BY <1>6, <1>8, <2>1, ShiftedPlaces
  <1>9. e \in 1..(t - 1) /\ prog'[e] = prog[b] /\ e \in Nat /\ t \in Nat
    <2>1. prog'[b - 1 + c] = prog[b]
      BY <1>0, <1>5
    <2> QED BY <1>0, <1>8, <2>1
  <1>10. ASSUME NEW k \in 1..(e - 1) PROVE prog'[k].do \in Resets
    <2>1. CASE k <= c
      <3>1. k \in 1..c
        BY <1>0, <1>10, <2>1
      <3>2. q # <<>>
        BY <3>1 DEF c
      <3>3. q = Creation(s)
        BY <1>4, <3>2
      <3>4. q[k].do \in Opens
        BY <1>1, <3>1, <3>3, CreationFits DEF c
      <3> QED BY <1>5, <3>1, <3>4 DEF Resets
    <2>2. CASE k > c
      <3>1. PICK i : i = k - c + 1
        OBVIOUS
      <3>2. i \in 1..(b - 1) /\ i \in 2..l /\ i - 1 + c = k
        BY <1>0, <1>10, <2>2, <3>1
      <3>3. prog'[k] = prog[i]
        BY <1>5, <3>2
      <3> QED BY <3>2, <3>3
    <2> QED BY <1>5, <2>1, <2>2
  <1>11. ASSUME NEW k \in (e + 1)..(t - 1) PROVE Connects(prog[k])'
    <2>1. PICK i : i = k - c + 1
      OBVIOUS
    <2>2. i \in (b + 1)..(r - 1) /\ i \in 2..l /\ i - 1 + c = k
      BY <1>0, <1>11, <2>1
    <2>3. prog'[k] = prog[i]
      BY <1>5, <2>2
    <2> QED BY <2>2, <2>3 DEF Connects, Reconnects
  <1>12. ASSUME NEW k \in 2..(b - 1)
         PROVE  k - 1 + c \in 1..(e - 1) /\ k - 1 + c \in Nat /\ prog'[k - 1 + c] = prog[k]
    <2>1. k - 1 + c \in 1..(e - 1) /\ k - 1 + c \in Nat /\ k \in 2..l
      BY <1>0, <1>12
    <2> QED BY <1>5, <2>1
  <1>13. Emptied(e)'
    <2>1. CASE db \in {Absent, <<>>} /\ up
      <3>1. CASE Does
        <4>1. db' = Database(s)
          BY <3>1 DEF Does
        <4>2. Database(s) \in {Absent, <<>>}
          <5> HIDE DEF s
          <5> QED BY <1>1, <2>1 DEF Database, MissingIsCreated, Resets, Opens, Drops
        <4> QED BY <1>1, <2>1, <4>1, <4>2 DEF Emptied, Absent
      <3>2. CASE ~Does
        <4>1. db' = db
          BY <1>4, <3>2 DEF Passes, Creates
        <4> QED BY <1>1, <2>1, <4>1 DEF Emptied, Absent
      <3> QED BY <3>1, <3>2
    <2>2. ASSUME NEW k \in 1..(b - 1), prog[k].do \in Drops PROVE Emptied(e)'
      <3>1. CASE k = 1
        <4>1. s.do \in Drops
          BY <2>2, <3>1
        <4>2. Does
          <5>1. s.do # "connect"
            BY <4>1 DEF Drops
          <5> QED BY <1>4, <4>1, <5>1 DEF Passes, Creates
        <4>3. Serves(s) /\ db' = Database(s)
          BY <4>2 DEF Does
        <4>4. Alive
          <5> HIDE DEF s
          <5> QED BY <4>1, <4>3 DEF Drops, Serves, OfFiles, OfHandle, OwnConnection
        <4>5. db' = Absent
          <5> HIDE DEF s
          <5> QED BY <4>1, <4>3 DEF Drops, Database
        <4> QED BY <1>1, <1>2, <4>4, <4>5 DEF Emptied, Absent
      <3>2. CASE k # 1
        <4>1. k \in 2..(b - 1)
          BY <1>1, <3>2
        <4>2. PICK j : j = k - 1 + c
          OBVIOUS
        <4>3. j \in 1..(e - 1) /\ prog'[j] = prog[k]
          BY <1>12, <4>1, <4>2
        <4> QED BY <2>2, <4>3 DEF Emptied, Drops
      <3> QED BY <3>1, <3>2
    <2>3. ASSUME NEW k \in 1..(b - 1), prog[k].do = "wipe",
                 IF k = 1 THEN Alive ELSE prog[k - 1].do = "connect"
          PROVE  Emptied(e)'
      <3>1. CASE k = 1
        <4>1. s.do = "wipe" /\ Alive
          BY <2>3, <3>1
        <4>2. Serves(s)
          BY <4>1 DEF Serves, OfFiles, OfHandle, OwnConnection
        <4>3. Does
          BY <1>4, <4>1, <4>2 DEF Creates
        <4>4. db' = Database(s)
          BY <4>3 DEF Does
        <4>5. db' = <<>>
          BY <4>1, <4>4 DEF Database
        <4> QED BY <1>1, <1>2, <4>1, <4>5 DEF Emptied
      <3>2. CASE k = 2
        <4>1. s.do = "connect" /\ prog[2].do = "wipe" /\ 2 \in 2..(b - 1)
          BY <1>1, <2>3, <3>2
        <4>2. PICK j : j = 2 - 1 + c
          OBVIOUS
        <4>3. j \in 1..(e - 1) /\ prog'[j] = prog[2] /\ j \in Nat
          BY <1>12, <4>1, <4>2
        <4>4. CASE Does /\ q = <<>>
          <5>1. Serves(s) /\ conn' = Connection(s)
            BY <4>4 DEF Does
          <5>2. up
            BY <1>2, <4>1, <5>1 DEF Serves, OfFiles, OfHandle, OwnConnection
          <5>3. conn' = "test"
            BY <4>1, <5>1 DEF Connection
          <5>4. Alive'
            BY <1>1, <5>2, <5>3 DEF Alive
          <5>5. j = 1
            BY <4>2, <4>4 DEF c
          <5> QED BY <4>1, <4>3, <5>4, <5>5 DEF Emptied
        <4>5. CASE ~(Does /\ q = <<>>)
          <5>1. q = Creation(s)
            BY <1>2, <1>4, <4>1, <4>5 DEF Passes
          <5>2. driver = "gaussdb"
            <6>1. 2 \in 1..Len(prog) /\ StepOk(prog[2])
              BY <1>1, <4>1 DEF Restoring, IInv, ProgInv, l
            <6> QED BY <4>1, <6>1 DEF StepOk, Sound
          <5>3. c >= 1 /\ q[c].do = "connect"
            BY <5>1, <5>2, CreationConnects DEF c
          <5>4. j - 1 = c /\ j # 1 /\ prog'[c] = q[c]
            BY <1>5, <4>2, <5>3
          <5> QED BY <4>1, <4>3, <5>3, <5>4 DEF Emptied
        <4> QED BY <4>4, <4>5
      <3>3. CASE k # 1 /\ k # 2
        <4>1. k \in 2..(b - 1) /\ k - 1 \in 2..(b - 1) /\ prog[k - 1].do = "connect" /\ k \in Nat
          BY <1>1, <2>3, <3>3
        <4>2. PICK j : j = k - 1 + c
          OBVIOUS
        <4>3. j \in 1..(e - 1) /\ prog'[j] = prog[k] /\ j \in Nat /\ j # 1
          <5>1. j \in 1..(e - 1) /\ prog'[j] = prog[k] /\ j \in Nat
            BY <1>12, <4>1, <4>2
          <5>2. j # 1
            <6>1. c \in Nat /\ k - 1 \in 2..(b - 1)
              BY <1>5, <4>1
            <6>2. k - 1 \in Nat /\ k - 1 >= 2
              BY <1>1, <6>1
            <6> QED BY <4>2, <6>1, <6>2
          <5> QED BY <5>1, <5>2
        <4>4. j - 1 = (k - 1) - 1 + c
          BY <1>5, <4>1, <4>2
        <4>5. prog'[j - 1] = prog[k - 1]
          BY <1>12, <4>1, <4>4
        <4> QED BY <2>3, <4>1, <4>3, <4>5 DEF Emptied
      <3> QED BY <3>1, <3>2, <3>3
    <2> QED BY <2>1, <2>2, <2>3 DEF Emptied
  <1>14. prog'[e].do = "if_backup"
    BY <1>9
  <1>15. \E u \in 1..(t - 1) :
           /\ prog'[u].do = "if_backup" /\ Emptied(u)'
           /\ \A k \in 1..(u - 1) : prog'[k].do \in Resets
           /\ \A k \in (u + 1)..(t - 1) : Connects(prog[k])'
    BY <1>9, <1>10, <1>11, <1>13, <1>14
  <1> QED BY <1>7, <1>15 DEF ToReload, Resets, Opens, Drops

(* A step of the restore.                                                  *)
LEMMA LenientGoes ==
  ASSUME Restoring, ToReload \/ Reloading \/ Reloaded \/ CutOff
  PROVE  ToReload' \/ Reloading' \/ Reloaded' \/ CutOff'
PROOF
  <1>1. CASE ToReload
    <2>1. PICK r \in 1..Len(prog) :
            /\ Reloader(r)
            /\ \/ \E b \in 1..(r - 1) :
                    /\ prog[b].do = "if_backup" /\ Emptied(b)
                    /\ \A k \in 1..(b - 1) : prog[k].do \in Resets
                    /\ \A k \in (b + 1)..(r - 1) : Connects(prog[k])
               \/ db = <<>> /\ up /\ \A k \in 1..(r - 1) : Connects(prog[k])
      BY <1>1 DEF ToReload
    <2>0. Len(prog) \in Nat /\ Len(prog) > 1
      BY RestoringMoves
    <2>2. CASE r = 1
      <3>1. \A b \in 1..(r - 1) : FALSE
        BY <2>2
      <3>2. db = <<>> /\ up
        BY <2>1, <3>1
      <3> QED BY <2>1, <2>2, <3>2, UnfoldingGoes
    <2>3. ASSUME r # 1, db = <<>>, up, \A k \in 1..(r - 1) : Connects(prog[k]) PROVE ToReload'
      <3>1. r \in 2..Len(prog) /\ 1 \in 1..(r - 1)
        BY <2>0, <2>3
      <3>2. prog[1].do # "if_backup"
        BY <2>3, <3>1 DEF Connects, Reconnects
      <3> QED BY <2>1, <2>3, <3>1, <3>2, ConnectingGoes
    <2>4. ASSUME NEW b \in 1..(r - 1), prog[b].do = "if_backup", Emptied(b),
                 \A k \in 1..(b - 1) : prog[k].do \in Resets,
                 \A k \in (b + 1)..(r - 1) : Connects(prog[k])
          PROVE  ToReload' \/ Reloading' \/ Reloaded'
      <3>1. r \in 2..Len(prog)
        BY <2>0, <2>4
      <3>2. CASE b = 1
        <4>1. \A k \in 1..(b - 1) : FALSE
          BY <3>2
        <4>2. db \in {Absent, <<>>} /\ up
          BY <2>4, <4>1 DEF Emptied
        <4>3. \A k \in 2..(r - 1) : Connects(prog[k])
          BY <2>4, <3>2
        <4> QED BY <2>1, <2>4, <3>1, <3>2, <4>2, <4>3, LookingGoes
      <3>3. CASE b # 1
        <4>1. b \in 2..(r - 1)
          BY <3>1, <3>3
        <4> QED BY <2>1, <2>4, <3>1, <4>1, EmptyingGoes
      <3> QED BY <3>2, <3>3
    <2> QED BY <2>1, <2>2, <2>3, <2>4
  <1>2. CASE Reloaded
    <2>1. Restored \in Seq(Marks)
      BY RestoredTypes DEF Restoring, IInv, BaseInv
    <2> QED BY <1>2, <2>1, ReloadedGoes
  <1> QED BY <1>1, <1>2, CutOffGoes, ReloadingGoes

(* The statements of the file follow one another to the end.               *)
LEMMA LenientKept ==
  ASSUME IInv, UpInv, RunsInv, LenientInv, Operation, phase = "restore"
  PROVE  LenientInv'
PROOF
  <1> SUFFICES ASSUME driver' \in Forgiving', prog' # <<>>, Calm'
               PROVE  ToReload' \/ Reloading' \/ Reloaded' \/ CutOff'
    BY DEF LenientInv
  <1>1. /\ UNCHANGED <<driver, test, culprit, phase>> /\ Restored' = Restored
        /\ faults' = faults \/ (faults > 0 /\ faults' = faults - 1)
    BY TestStep
  <1>2. test.kind # "select"
    BY DEF UpInv
  <1>3. Calm /\ faults' = faults
    BY <1>1, <1>2, StaysCalm
  <1>4. prog # <<>>
    BY Moves DEF IInv
  <1>5. driver \in Forgiving
    BY <1>1 DEF Forgiving
  <1>6. Restoring
    BY <1>3, <1>5 DEF Restoring
  <1> QED BY <1>3, <1>4, <1>5, <1>6, LenientGoes DEF LenientInv

(* An operation that returns was at its last step.                         *)
LEMMA ReturnsLast ==
  ASSUME TypeInv, ProgInv, Operation, prog' = <<>>, task' = "none"
  PROVE  Returns
PROOF
  <1>1. ~Stops
    BY DEF Stops
  <1>2. ~Cuts
    <2> SUFFICES ASSUME Cuts PROVE FALSE
      OBVIOUS
    <2>1. prog' = <<prog[Len(prog)]>>
      BY DEF Cuts
    <2> QED BY <2>1
  <1>3. ASSUME NEW q, NEW m, Goes(q, m) PROVE FALSE
    <2>1. Len(q) \in Nat /\ Len(prog) \in Nat /\ m \in 2..Len(prog) /\ Len(prog') = Len(q) + (Len(prog) - m + 1)
      BY <1>3 DEF Goes
    <2>2. Len(prog') = 0
      OBVIOUS
    <2> QED BY <2>1, <2>2
  <1> QED BY <1>1, <1>2, <1>3, Moves

(* A restore that returns has brought the database back.                   *)
LEMMA RestoredHolds ==
  ASSUME IInv, UpInv, RunsInv, LenientInv, Operation, phase = "restore"
  PROVE  RestoredInv'
PROOF
  <1> SUFFICES ASSUME prog' = <<>>, task' = "none", Calm', Alive' PROVE db' = Restored'
    BY DEF RestoredInv
  <1>1. /\ UNCHANGED <<driver, test, culprit, phase, up>> /\ Restored' = Restored
        /\ faults' = faults \/ (faults > 0 /\ faults' = faults - 1)
    BY TestStep
  <1>2. test.kind # "select"
    BY DEF UpInv
  <1>3. Calm
    BY <1>1, <1>2, StaysCalm
  <1>4. Returns
    BY ReturnsLast DEF IInv
  <1>5. prog # <<>> /\ Len(prog) = 1 /\ prog[1].do = "return" /\ db' = db /\ conn' = conn
    BY <1>4, Moves DEF Returns, IInv
  <1>6. CASE driver \in Forgiving
    <2>1. ToReload \/ Reloading \/ Reloaded \/ CutOff
      BY <1>3, <1>5, <1>6 DEF LenientInv
    <2>2. ~ToReload
      <3> SUFFICES ASSUME ToReload PROVE FALSE
        OBVIOUS
      <3>1. PICK r \in 1..Len(prog) : prog[r].do = "replay_backup"
        BY DEF ToReload, Reloader
      <3>2. r = 1
        BY <1>5
      <3> QED BY <1>5, <3>1, <3>2
    <2>3. ~CutOff
      BY <1>1, <1>5 DEF CutOff, Alive
    <2>4. CASE Reloaded
      BY <1>1, <1>5, <2>4 DEF Reloaded
    <2>5. CASE Reloading
      <3> DEFINE N == Len(Backed)
      <3>1. N \in Nat
        BY ReloadsAre DEF IInv
      <3>2. PICK n \in 0..N : db = Reloads[n].d /\ (1 = N - n + 2 \/ 1 = N - n + 1)
        BY <1>5, <2>5 DEF Reloading
      <3> HIDE DEF N
      <3>3. n = N
        BY <3>1, <3>2
      <3> QED BY <1>1, <1>5, <1>6, <3>2, <3>3 DEF Restored, N
    <2> QED BY <2>1, <2>2, <2>3, <2>4, <2>5
  <1>7. CASE driver \notin Forgiving
    <2>1. db = base
      BY <1>5, <1>7, RestoredIsSaved
    <2> QED BY <1>1, <1>5, <1>7, <2>1 DEF Restored
  <1> QED BY <1>6, <1>7

-----------------------------------------------------------------------------
(***************************************************************************)
(* A change: the table is read, changed and read again.                    *)
(***************************************************************************)
Changing ==
  /\ IInv /\ Operation /\ phase = "run" /\ test.kind # "select" /\ Calm
  /\ faults' = faults /\ prog' # <<>>

(* The step to come and how it may move on.                                *)
LEMMA ChangingMoves ==
  ASSUME Changing
  PROVE  /\ Len(prog) \in Nat /\ Len(prog) > 1 /\ prog[1].do \in Ops("run") /\ StepOk(prog[1])
         /\ UNCHANGED <<driver, up, test>> /\ Restored' = Restored
         /\ prog[1].do \in {"content", "set", "write"} =>
              \/ Does
              \/ Passes(2) /\ ~Serves(prog[1])
PROOF
  <1>1. IInv /\ ProgInv /\ TypeInv /\ Operation /\ phase = "run" /\ faults' = faults /\ prog' # <<>>
    BY DEF Changing, IInv
  <1>2. prog # <<>>
    BY <1>1, Moves
  <1>3. \/ Cuts \/ Does \/ (\E m \in 2..Len(prog) : Passes(m) /\ ~Serves(prog[1]))
        \/ Creates \/ Unfolds
    BY <1>1, CalmMoves
  <1>4. Len(prog) \in Nat /\ Len(prog) > 1
    <2>1. Cuts \/ \E q, m : Goes(q, m)
      BY <1>3 DEF Does, Passes, Creates, Unfolds
    <2>2. CASE Cuts
      <3>1. Len(prog) \in Nat
        BY <1>1, <1>2, AtStep
      <3> QED BY <2>2, <3>1 DEF Cuts
    <2>3. ASSUME NEW q, NEW m, Goes(q, m) PROVE Len(prog) \in Nat /\ Len(prog) > 1
      <3> DEFINE n == Len(prog)
      <3>1. n \in Nat /\ m \in 2..n
        BY <2>3 DEF Goes
      <3> HIDE DEF n
      <3>2. n > 1
        BY <3>1
      <3> QED BY <3>1, <3>2 DEF n
    <2> QED BY <2>1, <2>2, <2>3
  <1>5. prog[1].do \in Ops("run") /\ StepOk(prog[1])
    BY <1>1, <1>2, <1>4, AtStep
  <1>6. UNCHANGED <<driver, up, test>> /\ Restored' = Restored
    BY <1>1, TestStep
  <1>7. ASSUME prog[1].do \in {"content", "set", "write"} PROVE Does \/ (Passes(2) /\ ~Serves(prog[1]))
    <2>1. ~Cuts /\ ~Creates /\ ~Unfolds
      BY <1>7 DEF Cuts, Creates, Unfolds
    <2>2. ASSUME NEW m \in 2..Len(prog), Passes(m) PROVE m = 2
      BY <1>7, <2>2 DEF Passes
    <2> QED BY <1>3, <2>1, <2>2
  <1> QED BY <1>4, <1>5, <1>6, <1>7

(* A setting, or the table is read: the next step is to come.              *)
LEMMA ChangingGoes ==
  ASSUME Changing, prog[1].do \in {"content", "set"}
  PROVE  /\ Goes(<<>>, 2) /\ db' = db /\ Alive' = Alive
         /\ prog[1].do = "set" => seen' = seen
         /\ prog[1].do = "content" /\ Alive => seen' = Append(seen, db)
PROOF
  <1> DEFINE s == prog[1]
  <1>1. UNCHANGED <<driver, up>> /\ (Does \/ (Passes(2) /\ ~Serves(s)))
    BY ChangingMoves
  <1>2. Serves(s) <=> Alive
    <2> HIDE DEF s
    <2>1. s.do \in {"content", "set"}
      BY DEF s
    <2> QED BY <2>1 DEF Serves, OfFiles, OfHandle, OwnConnection
  <1>3. CASE Does
    <2>1. Goes(<<>>, 2) /\ db' = Database(s) /\ conn' = Connection(s) /\ seen' = Answered(s)
      BY <1>3 DEF Does
    <2>2. s.do \in {"content", "set"}
      OBVIOUS
    <2> HIDE DEF s
    <2>3. Database(s) = db /\ Connection(s) = conn
      BY <2>2 DEF Database, Connection
    <2>4. Alive' = Alive
      BY <1>1, <2>1, <2>3 DEF Alive
    <2>5. Answered(s) = IF s.do = "content" THEN Append(seen, db) ELSE seen
      BY <2>2 DEF Answered
    <2> QED BY <2>1, <2>3, <2>4, <2>5 DEF s
  <1>4. CASE Passes(2) /\ ~Serves(s)
    <2>1. Goes(<<>>, 2) /\ db' = db /\ conn' = Fell(s) /\ seen' = Missed(s) /\ ~Alive
      BY <1>2, <1>4 DEF Passes
    <2>2. s.do \in {"content", "set"}
      OBVIOUS
    <2> HIDE DEF s
    <2>3. Fell(s) = conn /\ (s.do = "set" => Missed(s) = seen)
      BY <2>2 DEF Fell, Missed
    <2>4. Alive' = Alive
      BY <1>1, <2>1, <2>3 DEF Alive
    <2> QED BY <2>1, <2>3, <2>4 DEF s
  <1> QED BY <1>1, <1>3, <1>4

(* The table is read before the change.                                    *)
LEMMA ToReadGoes ==
  ASSUME Changing, ToRead
  PROVE  ToChange'
PROOF
  <1> DEFINE n == Len(prog)
             r == Len(prog')
  <1>1. /\ n > 3 /\ prog[1].do = "content" /\ prog[n - 2].do = "write" /\ prog[n - 2].stmt = "w"
        /\ prog[n - 1].do = "content" /\ \A k \in 2..(n - 3) : prog[k].do = "set"
        /\ AsRestored(<<>>)
    BY DEF ToRead
  <1>2. Goes(<<>>, 2) /\ db' = db /\ Alive' = Alive /\ (Alive => seen' = Append(seen, db))
    BY <1>1, ChangingGoes
  <1>3. n \in Nat /\ r \in Nat /\ r = n - 2 + 1 /\ \A k \in 1..r : prog'[k] = prog[k + 2 - 1]
    BY <1>2, TailIs
  <1>4. test' = test /\ Restored' = Restored
    BY ChangingMoves
  <1>5. AsRestored(<<Restored>>)'
    BY <1>1, <1>2, <1>4 DEF AsRestored
  <1> HIDE DEF n, r
  <1>6. r > 2 /\ prog'[r - 2] = prog[n - 2] /\ prog'[r - 1] = prog[n - 1]
    <2>1. r > 2 /\ r - 2 \in 1..r /\ r - 1 \in 1..r /\ (r - 2) + 2 - 1 = n - 2 /\ (r - 1) + 2 - 1 = n - 1
      BY <1>1, <1>3
    <2> QED BY <1>3, <2>1
  <1>7. ASSUME NEW k \in 1..(r - 3) PROVE prog'[k].do = "set"
    <2>1. k \in 1..r /\ k + 2 - 1 \in 2..(n - 3)
      BY <1>1, <1>3
    <2> QED BY <1>1, <1>3, <2>1
  <1> QED BY <1>1, <1>5, <1>6, <1>7 DEF ToChange, r

(* The settings are made, the table is changed.                            *)
LEMMA ToChangeGoes ==
  ASSUME Changing, ToChange
  PROVE  ToChange' \/ ToReadAgain'
PROOF
  <1> DEFINE n == Len(prog)
             r == Len(prog')
  <1>1. /\ n > 2 /\ prog[n - 2].do = "write" /\ prog[n - 2].stmt = "w"
        /\ prog[n - 1].do = "content" /\ \A k \in 1..(n - 3) : prog[k].do = "set"
        /\ AsRestored(<<Restored>>)
    BY DEF ToChange
  <1>2. n \in Nat /\ UNCHANGED <<driver, up, test>> /\ Restored' = Restored
    BY ChangingMoves
  <1>3. CASE n > 3
    <2>1. prog[1].do = "set"
      <3> HIDE DEF n
      <3>1. 1 \in 1..(n - 3)
        BY <1>2, <1>3
      <3> QED BY <1>1, <3>1
    <2>2. Goes(<<>>, 2) /\ db' = db /\ Alive' = Alive /\ seen' = seen
      BY <2>1, ChangingGoes
    <2>3. r \in Nat /\ r = n - 2 + 1 /\ \A k \in 1..r : prog'[k] = prog[k + 2 - 1]
      BY <2>2, TailIs
    <2>4. AsRestored(<<Restored>>)'
      BY <1>1, <1>2, <2>2 DEF AsRestored
    <2> HIDE DEF n, r
    <2>5. r > 2 /\ prog'[r - 2] = prog[n - 2] /\ prog'[r - 1] = prog[n - 1]
      <3>1. r > 2 /\ r - 2 \in 1..r /\ r - 1 \in 1..r /\ (r - 2) + 2 - 1 = n - 2 /\ (r - 1) + 2 - 1 = n - 1
        BY <1>2, <1>3, <2>3
      <3> QED BY <2>3, <3>1
    <2>6. ASSUME NEW k \in 1..(r - 3) PROVE prog'[k].do = "set"
      <3>1. k \in 1..r /\ k + 2 - 1 \in 1..(n - 3)
        BY <1>2, <1>3, <2>3
      <3> QED BY <1>1, <2>3, <3>1
    <2> QED BY <1>1, <2>4, <2>5, <2>6 DEF ToChange, r
  <1>4. CASE ~(n > 3)
    <2> DEFINE s == prog[1]
    <2>1. n = 3
      <3> HIDE DEF n
      <3> QED BY <1>1, <1>2, <1>4
    <2>2. s.do = "write" /\ s.stmt = "w" /\ prog[2].do = "content"
      <3>1. n - 2 = 1 /\ n - 1 = 2
        BY <2>1
      <3> QED BY <1>1, <3>1
    <2>3. StepOk(s) /\ (Does \/ Passes(2))
      BY <2>2, ChangingMoves
    <2> HIDE DEF s
    <2>4. Does
      <3>1. s.err # "ignored"
        BY <2>2, <2>3 DEF StepOk, Sound
      <3> QED BY <2>3, <3>1 DEF Passes, s
    <2>5. Goes(<<>>, 2) /\ Serves(s) /\ seen' = Answered(s) /\ db' = Database(s) /\ conn' = Connection(s)
      BY <2>4 DEF Does, s
    <2>6. Alive
      BY <2>2, <2>5 DEF Serves, OfFiles, OfHandle, OwnConnection
    <2>7. db = Restored /\ test.start = Restored /\ seen = <<Restored>>
      BY <1>1, <2>6 DEF AsRestored
    <2>8. seen' = seen /\ conn' = conn /\ db' = After(db, "w")
      BY <2>2, <2>5 DEF Answered, Connection, Database
    <2>9. db' = Changed'
      BY <1>2, <2>7, <2>8 DEF After, Changed
    <2>10. Alive'
      BY <1>2, <2>6, <2>8 DEF Alive
    <2>11. r = 2 /\ prog'[1] = prog[2]
      <3>1. r \in Nat /\ r = n - 2 + 1 /\ \A k \in 1..r : prog'[k] = prog[k + 2 - 1]
        BY <2>5, TailIs
      <3>2. r = 2 /\ 1 \in 1..2 /\ 1 + 2 - 1 = 2
        BY <2>1, <3>1
      <3> QED BY <3>1, <3>2
    <2> QED BY <1>2, <2>2, <2>7, <2>8, <2>9, <2>10, <2>11 DEF ToReadAgain
  <1> QED BY <1>3, <1>4

(* The table is read after the change.                                     *)
LEMMA ToReadAgainGoes ==
  ASSUME Changing, ToReadAgain
  PROVE  Len(prog') = 1 /\ ReadTwice'
PROOF
  <1>1. /\ Len(prog) = 2 /\ prog[1].do = "content" /\ Alive
        /\ db = Changed /\ test.start = Restored /\ seen = <<Restored>>
    BY DEF ToReadAgain
  <1>2. Goes(<<>>, 2) /\ seen' = Append(seen, db)
    BY <1>1, ChangingGoes
  <1>3. Len(prog') = 1
    <2>1. Len(prog') = Len(prog) - 2 + 1
      BY <1>2, TailIs
    <2> QED BY <1>1, <2>1
  <1>4. test' = test /\ Restored' = Restored
    BY ChangingMoves
  <1>5. seen' = <<Restored, Changed>>
    BY <1>1, <1>2, PairIs
  <1>6. Changed' = Changed
    BY <1>4 DEF Changed
  <1> QED BY <1>1, <1>3, <1>4, <1>5, <1>6 DEF ReadTwice

(* A step of a change.                                                     *)
LEMMA ChangeKept ==
  ASSUME IInv, RunsInv, ChangeInv, Operation, phase = "run"
  PROVE  ChangeInv'
PROOF
  <1> SUFFICES ASSUME test'.kind # "select", Calm'
               PROVE  /\ prog' # <<>> => ToRead' \/ ToChange' \/ ToReadAgain' \/ (Len(prog') = 1 /\ ReadTwice')
                      /\ prog' = <<>> /\ task' = "none" => ReadTwice'
    BY DEF ChangeInv
  <1>1. /\ UNCHANGED <<driver, test, culprit, phase, up>> /\ Restored' = Restored
        /\ faults' = faults \/ (faults > 0 /\ faults' = faults - 1)
    BY TestStep
  <1>2. Calm /\ faults' = faults /\ test.kind # "select"
    BY <1>1, StaysCalm
  <1>3. prog # <<>>
    BY Moves DEF IInv
  <1>4. ToRead \/ ToChange \/ ToReadAgain \/ (Len(prog) = 1 /\ ReadTwice)
    BY <1>2, <1>3 DEF ChangeInv
  <1>5. ASSUME prog' # <<>> PROVE ToRead' \/ ToChange' \/ ToReadAgain' \/ (Len(prog') = 1 /\ ReadTwice')
    <2>1. Changing
      BY <1>2, <1>5 DEF Changing
    <2>2. Len(prog) # 1
      <3> DEFINE n == Len(prog)
      <3>1. n \in Nat /\ n > 1
        BY <2>1, ChangingMoves
      <3> HIDE DEF n
      <3>2. n # 1
        BY <3>1
      <3> QED BY <3>2 DEF n
    <2> QED BY <1>4, <2>1, <2>2, ToReadGoes, ToChangeGoes, ToReadAgainGoes
  <1>6. ASSUME prog' = <<>>, task' = "none" PROVE ReadTwice'
    <2>1. Returns
      BY <1>6, ReturnsLast DEF IInv
    <2>2. Len(prog) = 1 /\ prog[1].do = "return" /\ seen' = seen
      BY <2>1 DEF Returns
    <2>3. ReadTwice
      BY <1>4, <2>2 DEF ToRead, ToChange, ToReadAgain
    <2> QED BY <1>1, <2>2, <2>3 DEF ReadTwice, Changed
  <1> QED BY <1>5, <1>6

-----------------------------------------------------------------------------
(***************************************************************************)
(* A query, and what the runs yield.                                       *)
(***************************************************************************)
ToQuery ==
  /\ Len(prog) > 1 /\ seen = <<>>
  /\ prog[Len(prog) - 1].do = "query" /\ prog[Len(prog) - 1].err # "ignored"
  /\ \A k \in 1..(Len(prog) - 2) : prog[k].do \in Opens
Queried == Len(prog) = 1 /\ seen = <<db>>

(* The connection is made, the query is run.                               *)
LEMMA ToQueryGoes ==
  ASSUME TypeInv, ProgInv, Operation, ToQuery, prog' # <<>>
  PROVE  /\ db' = db \/ db = Absent
         /\ ToQuery' \/ Queried'
PROOF
  <1> DEFINE n == Len(prog)
             t == Len(prog')
             s == prog[1]
  <1>1. /\ n > 1 /\ seen = <<>> /\ prog[n - 1].do = "query" /\ prog[n - 1].err # "ignored"
        /\ \A k \in 1..(n - 2) : prog[k].do \in Opens
    BY DEF ToQuery
  <1>2. n \in Nat /\ driver \in Drivers
    BY <1>1, Moves, AtStep
  <1>3. PICK q, m : /\ Goes(q, m)
                    /\ \/ Does /\ q = <<>> /\ m = 2
                       \/ Counts /\ q = <<>> /\ m = 2
                       \/ Passes(m) /\ q = <<>>
                       \/ Creates /\ q = Creation(s) /\ m = 2
                       \/ Unfolds
    <2>1. ~Stops /\ ~Returns /\ ~Cuts
      <3>1. ~Stops
        BY DEF Stops
      <3>2. ~Returns
        BY DEF Returns
      <3>3. s.do # "if_backup"
        <4>1. n = 2 \/ 1 \in 1..(n - 2)
          <5> HIDE DEF n
          <5> QED BY <1>1, <1>2
        <4>2. n = 2 => s.do = "query"
          BY <1>1
        <4> QED BY <1>1, <4>1, <4>2 DEF Opens
      <3> QED BY <3>1, <3>2, <3>3 DEF Cuts
    <2> QED BY <2>1, Moves
  <1> HIDE DEF n, s, t
  <1>4. CASE n = 2
    <2>1. s.do = "query" /\ s.err # "ignored"
      BY <1>1, <1>4 DEF s
    <2>2. Does /\ q = <<>> /\ m = 2
      BY <1>3, <2>1 DEF Counts, Passes, Creates, Unfolds, s
    <2>3. db' = Database(s) /\ seen' = Answered(s)
      BY <2>2 DEF Does, s
    <2>4. db' = db /\ seen' = Append(seen, db)
      BY <2>1, <2>3 DEF Database, Answered
    <2>5. seen' = <<db>>
      BY <1>1, <2>4
    <2>6. Len(prog') = 1
      <3>1. t = n - 2 + 1
        BY <1>3, <2>2, TailIs DEF t, n
      <3> QED BY <1>4, <3>1 DEF t
    <2> QED BY <2>4, <2>5, <2>6 DEF Queried
  <1>5. CASE n # 2
    <2>1. n > 2 /\ 1 \in 1..(n - 2)
      BY <1>1, <1>2, <1>5
    <2>2. s.do \in Opens
      BY <1>1, <2>1 DEF s
    <2>3. m = 2
      BY <1>3, <2>2 DEF Opens, Passes, Unfolds, s
    <2>4. /\ (Does /\ q = <<>>) \/ (Passes(2) /\ q = <<>>) \/ (Creates /\ q = Creation(s))
          /\ Goes(q, 2)
      <3>1. ~Counts /\ ~Unfolds
        BY <2>2 DEF Opens, Counts, Unfolds, s
      <3> QED BY <1>3, <2>3, <3>1
    <2>5. seen' = seen
      <3>1. Does => seen' = Answered(s)
        BY DEF Does, s
      <3>2. Passes(2) => seen' = Missed(s)
        BY DEF Passes, s
      <3>3. Creates => seen' = seen
        BY DEF Creates
      <3>4. Answered(s) = seen /\ Missed(s) = seen
        BY <2>2 DEF Answered, Missed, Opens
      <3> QED BY <2>4, <3>1, <3>2, <3>3, <3>4
    <2>6. db' = db \/ db = Absent
      <3>1. Does => db' = Database(s) /\ Serves(s)
        BY DEF Does, s
      <3>2. Passes(2) \/ Creates => db' = db
        BY DEF Passes, Creates
      <3>3. s.do = "create" /\ Serves(s) => db = Absent
        BY DEF Serves, OfFiles, OfHandle, OwnConnection
      <3>4. s.do = "create" \/ Database(s) = db \/ db = Absent
        BY <2>2 DEF Database, MissingIsCreated, Opens
      <3> QED BY <2>4, <3>1, <3>2, <3>3, <3>4
    <2> DEFINE c == Len(q)
    <2>7. /\ c \in Nat /\ t \in Nat /\ t = c + n - 1
          /\ \A k \in 1..c : prog'[k] = q[k]
          /\ \A i \in 2..n : prog'[i - 1 + c] = prog[i]
      BY <2>4, RestIs DEF n, t
    <2>8. \A k \in 1..c : q[k].do \in Opens
      <3>1. CASE q = Creation(s)
        BY <1>2, <3>1, CreationFits
      <3>2. CASE q = <<>>
        BY <3>2
      <3> QED BY <2>4, <3>1, <3>2
    <2> HIDE DEF c
    <2>9. t > 1 /\ prog'[t - 1] = prog[n - 1]
      <3>1. t > 1 /\ n - 1 \in 2..n /\ (n - 1) - 1 + c = t - 1
        BY <1>2, <2>1, <2>7
      <3> QED BY <2>7, <3>1
    <2>10. ASSUME NEW k \in 1..(t - 2) PROVE prog'[k].do \in Opens
      <3>1. CASE k <= c
        <4>1. k \in 1..c
          BY <2>7, <3>1
        <4> QED BY <2>7, <2>8, <4>1
      <3>2. CASE ~(k <= c)
        <4>1. PICK i : i = k - c + 1
          OBVIOUS
        <4>2. i \in 1..(n - 2) /\ i \in 2..n /\ i - 1 + c = k
          BY <1>2, <2>7, <3>2, <4>1
        <4>3. prog'[k] = prog[i]
          BY <2>7, <4>2
        <4> QED BY <1>1, <4>2, <4>3
      <3> QED BY <3>1, <3>2
    <2>11. ToQuery'
      BY <1>1, <2>5, <2>9, <2>10 DEF ToQuery, t, Opens
    <2> QED BY <2>6, <2>11
  <1> QED BY <1>4, <1>5

(* A step of a query.                                                      *)
LEMMA SelectKept ==
  ASSUME IInv, SelectInv, Operation, phase = "run"
  PROVE  SelectInv'
PROOF
  <1>1. /\ UNCHANGED <<driver, test, culprit, phase>> /\ TypeInv /\ ProgInv
    BY TestStep DEF IInv
  <1> SUFFICES ASSUME test.kind = "select" PROVE SelectInv'
    BY <1>1 DEF SelectInv
  <1>2. prog # <<>>
    BY <1>1, Moves
  <1>3. Queried \/ ToQuery
    BY <1>2 DEF SelectInv, Queried, ToQuery
  <1>4. /\ db' = db \/ db = Absent
        /\ prog' # <<>> => Queried' \/ ToQuery'
        /\ prog' = <<>> /\ task' = "none" => seen' = <<db'>>
    <2>1. CASE prog' = <<>>
      <3>1. Stops \/ Returns
        <4>1. ~Cuts
          <5> SUFFICES ASSUME Cuts PROVE FALSE
            OBVIOUS
          <5>1. prog' = <<prog[Len(prog)]>>
            BY DEF Cuts
          <5> QED BY <2>1, <5>1
        <4>2. ASSUME NEW q, NEW m, Goes(q, m) PROVE FALSE
          <5>1. Len(q) \in Nat /\ Len(prog) \in Nat /\ m \in 2..Len(prog) /\ Len(prog') = Len(q) + (Len(prog) - m + 1)
            BY <4>2 DEF Goes
          <5>2. Len(prog') = 0
            BY <2>1
          <5> QED BY <5>1, <5>2
        <4> QED BY <1>1, <4>1, <4>2, Moves
      <3>2. db' = db
        BY <3>1 DEF Stops, Returns
      <3>3. ASSUME task' = "none" PROVE seen' = <<db'>>
        <4>1. Returns
          BY <3>1, <3>3 DEF Stops
        <4>2. Len(prog) = 1 /\ seen' = seen
          BY <4>1 DEF Returns
        <4>3. Queried
          BY <1>3, <4>2 DEF ToQuery
        <4> QED BY <3>2, <4>2, <4>3 DEF Queried
      <3> QED BY <2>1, <3>2, <3>3
    <2>2. CASE prog' # <<>>
      <3>1. ToQuery
        <4>1. Len(prog) # 1
          <5> SUFFICES ASSUME Len(prog) = 1 PROVE FALSE
            OBVIOUS
          <5>1. Cuts \/ \E q, m : Goes(q, m)
            BY <1>1, <2>2, Moves DEF Stops, Returns
          <5>2. ~Cuts
            BY DEF Cuts
          <5>3. ASSUME NEW q, NEW m, Goes(q, m) PROVE FALSE
            <6>1. m \in 2..Len(prog)
              BY <5>3 DEF Goes
            <6> QED BY <6>1
          <5> QED BY <5>1, <5>2, <5>3
        <4> QED BY <1>3, <4>1 DEF Queried
      <3> QED BY <1>1, <2>2, <3>1, ToQueryGoes
    <2> QED BY <2>1, <2>2
  <1>5. prog' # <<>> =>
         \/ Len(prog') = 1 /\ seen' = <<db'>>
         \/ /\ Len(prog') > 1 /\ seen' = <<>>
            /\ prog'[Len(prog') - 1].do = "query" /\ prog'[Len(prog') - 1].err # "ignored"
            /\ \A k \in 1..(Len(prog') - 2) : prog'[k].do \in Opens
    BY <1>4 DEF Queried, ToQuery, Opens
  <1>6. IF test.run = "orig" THEN test.start \in {db', Absent} ELSE test.start = db' /\ db' # Absent
    BY <1>4 DEF SelectInv
  <1>7. test.run = "vqit" /\ ~Shows(db)' => test.orig = <<db', <<"right">>>>
    <2> SUFFICES ASSUME test.run = "vqit", ~Shows(db)' PROVE test.orig = <<db', <<"right">>>>
      OBVIOUS
    <2>1. db' = db
      BY <1>4 DEF SelectInv
    <2>2. ~Shows(db)
      BY <1>1, <2>1 DEF Shows
    <2> QED BY <2>1, <2>2 DEF SelectInv
  <1> QED BY <1>1, <1>4, <1>5, <1>6, <1>7 DEF SelectInv, Absent, Opens

(* What the runs have yielded stays.                                       *)
LEMMA RunsKept ==
  ASSUME IInv, RunsInv, Operation, phase \in {"restore", "run"}
  PROVE  RunsInv'
PROOF
  <1>1. /\ UNCHANGED <<test, culprit, phase>> /\ Restored' = Restored
        /\ faults' = faults \/ (faults > 0 /\ faults' = faults - 1)
    BY TestStep
  <1>2. faults \in 0..MaxFaults /\ MaxFaults \in Nat
    BY DriversAssumption DEF IInv, TypeInv
  <1>3. faults' = MaxFaults => faults = MaxFaults
    BY <1>1, <1>2
  <1>4. faults = 0 => faults' = 0
    BY <1>1, <1>2
  <1>5. Clean' = Clean /\ Validating' = Validating /\ Shows(Restored)' = Shows(Restored)
    BY <1>1 DEF Clean, Changed, Validating, Shows
  <1> QED BY <1>1, <1>3, <1>4, <1>5 DEF RunsInv

(* A session is made on a server that runs.                                *)
LEMMA UpKept ==
  ASSUME IInv, UpInv, Operation
  PROVE  UpInv'
PROOF
  <1> DEFINE s == prog[1]
  <1>1. TypeInv /\ ProgInv /\ UNCHANGED <<driver, up, test, phase>>
    BY DEF IInv, Operation, DbStep, StepSucceeds, StepFails, StepAffectsNothing
  <1>2. \/ conn' \in {conn, "dead", "none"}
        \/ up \/ driver = "sqlite"
    <2> HIDE DEF s
    <2>1. Fell(s) \in {conn, "dead"}
      BY DEF Fell
    <2>2. ASSUME Serves(s) PROVE Connection(s) \in {conn, "none"} \/ up \/ driver = "sqlite"
      <3>1. CASE s.do \in {"connect", "connect_default"}
        BY <2>2, <3>1 DEF Serves, OfFiles, OfHandle, OwnConnection, Reachable
      <3>2. CASE s.do = "use"
        <4>1. Alive
          BY <2>2, <3>2 DEF Serves, OfFiles, OfHandle, OwnConnection
        <4> QED BY <4>1 DEF Alive
      <3>3. CASE s.do \notin {"connect", "connect_default", "use"}
        BY <3>3 DEF Connection
      <3> QED BY <3>1, <3>2, <3>3
    <2>3. Does => Serves(s) /\ conn' = Connection(s)
      BY DEF Does, s
    <2>4. Stops \/ (\E m : Passes(m)) => conn' = Fell(s)
      BY DEF Stops, Passes, s
    <2>5. Returns \/ Cuts \/ Counts \/ Unfolds => conn' = conn
      BY DEF Returns, Cuts, Counts, Unfolds
    <2>6. Creates => conn' \in {conn, "dead"}
      BY DEF Creates
    <2> QED BY <1>1, <2>1, <2>2, <2>3, <2>4, <2>5, <2>6, Moves
  <1> QED BY <1>1, <1>2 DEF UpInv, NoTest

(* A step of an operation.                                                 *)
LEMMA OperationIsReal ==
  ASSUME IInv, RInv, Operation
  PROVE  RInv'
PROOF
  <1>1. UpInv /\ LenientInv /\ RestoredInv /\ ChangeInv /\ RunsInv /\ SelectInv /\ ReportsAreReal
    BY DEF RInv
  <1>2. UNCHANGED <<phase, removed, culprit>>
    BY DEF Operation
  <1>3. ReportsAreReal'
    BY <1>1, <1>2 DEF ReportsAreReal
  <1>4. UpInv'
    BY <1>1, UpKept
  <1>5. CASE phase = "restore"
    <2>1. LenientInv' /\ RestoredInv' /\ RunsInv'
      BY <1>1, <1>5, LenientKept, RestoredHolds, RunsKept
    <2>2. ChangeInv' /\ SelectInv'
      BY <1>2, <1>5 DEF ChangeInv, SelectInv
    <2> QED BY <1>3, <1>4, <2>1, <2>2 DEF RInv
  <1>6. CASE phase = "run"
    <2>1. ChangeInv' /\ SelectInv' /\ RunsInv'
      BY <1>1, <1>6, ChangeKept, SelectKept, RunsKept
    <2>2. LenientInv' /\ RestoredInv'
      BY <1>2, <1>6 DEF LenientInv, RestoredInv
    <2> QED BY <1>3, <1>4, <2>1, <2>2 DEF RInv
  <1>7. CASE phase \notin {"restore", "run"}
    <2>1. ChangeInv' /\ SelectInv' /\ RunsInv' /\ LenientInv' /\ RestoredInv'
      BY <1>2, <1>7 DEF LenientInv, RestoredInv, RunsInv, ChangeInv, SelectInv
    <2> QED BY <1>3, <1>4, <2>1 DEF RInv
  <1> QED BY <1>5, <1>6, <1>7

-----------------------------------------------------------------------------
(***************************************************************************)
(* The operations a test begins.                                           *)
(***************************************************************************)

(* The last step of a program.                                             *)
LEMMA WithReturn ==
  ASSUME NEW q \in Seq(Steps), prog' = q \o <<Throws("return")>>
  PROVE  /\ Len(q) \in Nat /\ Len(prog') = Len(q) + 1
         /\ \A k \in 1..Len(q) : k \in 1..Len(prog') /\ prog'[k] = q[k]
PROOF
  <1>1. Throws("return") \in Steps
    BY StepTypes, Operations
  <1> DEFINE r == Throws("return")
  <1> HIDE DEF r
  <1>2. <<r>> \in Seq(Steps) /\ Len(<<r>>) = 1
    BY <1>1 DEF r
  <1>3. Len(q) \in Nat /\ Len(prog') = Len(q) + 1 /\ \A k \in 1..Len(q) : prog'[k] = q[k]
    BY <1>2, Glued DEF r
  <1> QED BY <1>3

\* The shape of a restore that passes over what fails.
RestoresSo(p, r, b) ==
  /\ r \in 2..Len(p) /\ b \in 1..(r - 1)
  /\ p[r].do = "replay_backup" /\ p[r].err = "ignored" /\ p[b].do = "if_backup"
  /\ \A k \in 1..(b - 1) : p[k].do \in Resets
  /\ \A k \in (b + 1)..(r - 1) : Connects(p[k])
  /\ \/ \E k \in 1..(b - 1) : p[k].do \in Drops
     \/ \E k \in 2..(b - 1) : p[k].do = "wipe" /\ p[k - 1].do = "connect"
  /\ IF driver \in Dumping
       THEN Len(p) = r + 1 /\ Reconnects(p[r + 1]) /\ p[r - 1].do = "close"
       ELSE Len(p) = r

(* The restores of the drivers that pass over what fails.                  *)
LEMMA RestoreShape ==
  ASSUME driver \in Forgiving
  PROVE  \E r, b \in Nat : RestoresSo(D.life.restore, r, b)
PROOF
  <1> DEFINE p == D.life.restore
  <1>1. CASE driver \in {"mysql", "tidb"}
    <2>1. p = <<Throws("drop"), Throws("create"), Throws("use"), Throws("if_backup"), Throws("close"),
                Ignores("replay_backup"), Throws("connect")>>
      BY <1>1, Setup DEF D, mysql_life, tidb_life, DropCreateUse
    <2> HIDE DEF p
    <2>2. /\ Len(p) = 7
          /\ p[1].do = "drop" /\ p[2].do = "create" /\ p[3].do = "use" /\ p[4].do = "if_backup"
          /\ p[5].do = "close" /\ p[6].do = "replay_backup" /\ p[6].err = "ignored"
          /\ p[7].do = "connect" /\ p[7].err = "plain"
      BY <2>1 DEF Throws, Ignores, Step
    <2>3. RestoresSo(p, 6, 4)
      <3>1. \A k \in 1..(4 - 1) : p[k].do \in Resets
        BY <2>2 DEF Resets, Opens, Drops
      <3>2. \A k \in (4 + 1)..(6 - 1) : Connects(p[k])
        BY <2>2 DEF Connects
      <3>3. 1 \in 1..(4 - 1) /\ p[1].do \in Drops
        BY <2>2 DEF Drops
      <3>4. Len(p) = 6 + 1 /\ Reconnects(p[6 + 1]) /\ p[6 - 1].do = "close"
        BY <2>2 DEF Reconnects
      <3>5. 6 \in 2..Len(p) /\ 4 \in 1..(6 - 1)
        BY <2>2
      <3> QED BY <1>1, <2>2, <3>1, <3>2, <3>3, <3>4, <3>5 DEF RestoresSo, Dumping
    <2> QED BY <2>3 DEF p
  <1>2. CASE driver = "postgres"
    <2>1. p = <<Throws("close"), Throws("connect_default"), Throws("drop_force"), Throws("create"),
                Throws("close"), Throws("connect"), Ignores("set"), Ignores("set"), Throws("if_backup"),
                Fatal("connect"), Ignores("set"), Ignores("set"), Ignores("replay_backup")>>
      BY <1>2, Setup DEF D, pqxx_life, pqxx_reset, Recreate, DefaultFirst
    <2> HIDE DEF p
    <2>2. /\ Len(p) = 13
          /\ p[1].do = "close" /\ p[2].do = "connect_default" /\ p[3].do = "drop_force"
          /\ p[4].do = "create" /\ p[5].do = "close" /\ p[6].do = "connect" /\ p[7].do = "set"
          /\ p[8].do = "set" /\ p[9].do = "if_backup" /\ p[10].do = "connect" /\ p[10].err = "fatal"
          /\ p[11].do = "set" /\ p[12].do = "set" /\ p[13].do = "replay_backup" /\ p[13].err = "ignored"
      BY <2>1 DEF Throws, Ignores, Fatal, Step
    <2>3. RestoresSo(p, 13, 9)
      <3>1. \A k \in 1..(9 - 1) : p[k].do \in Resets
        BY <2>2 DEF Resets, Opens, Drops
      <3>2. \A k \in (9 + 1)..(13 - 1) : Connects(p[k])
        BY <2>2 DEF Connects, Reconnects
      <3>3. 3 \in 1..(9 - 1) /\ p[3].do \in Drops
        BY <2>2 DEF Drops
      <3>5. 13 \in 2..Len(p) /\ 9 \in 1..(13 - 1)
        BY <2>2
      <3> QED BY <1>2, <2>2, <3>1, <3>2, <3>3, <3>5 DEF RestoresSo, Dumping
    <2> QED BY <2>3 DEF p
  <1>3. CASE driver = "gaussdb"
    <2>1. p = <<Throws("close"), Throws("connect"), Ignores("wipe"), Ignores("tidy"), Ignores("tidy"),
                Throws("if_backup"), Fatal("connect"), Ignores("replay_backup")>>
      BY <1>3, Setup DEF D, gaussdb_life, gaussdb_reset
    <2> HIDE DEF p
    <2>2. /\ Len(p) = 8
          /\ p[1].do = "close" /\ p[2].do = "connect" /\ p[3].do = "wipe" /\ p[4].do = "tidy"
          /\ p[5].do = "tidy" /\ p[6].do = "if_backup" /\ p[7].do = "connect" /\ p[7].err = "fatal"
          /\ p[8].do = "replay_backup" /\ p[8].err = "ignored"
      BY <2>1 DEF Throws, Ignores, Fatal, Step
    <2>3. RestoresSo(p, 8, 6)
      <3>1. \A k \in 1..(6 - 1) : p[k].do \in Resets
        BY <2>2 DEF Resets, Opens, Drops
      <3>2. \A k \in (6 + 1)..(8 - 1) : Connects(p[k])
        BY <2>2 DEF Connects, Reconnects
      <3>3. 3 \in 2..(6 - 1) /\ p[3].do = "wipe" /\ p[3 - 1].do = "connect"
        BY <2>2
      <3>5. 8 \in 2..Len(p) /\ 6 \in 1..(8 - 1)
        BY <2>2
      <3> QED BY <1>3, <2>2, <3>1, <3>2, <3>3, <3>5 DEF RestoresSo, Dumping
    <2> QED BY <2>3 DEF p
  <1> QED BY <1>1, <1>2, <1>3 DEF Forgiving

(* A restore begins.                                                       *)
LEMMA RestoreStarts ==
  ASSUME driver \in Drivers, driver \in Forgiving, driver' = driver,
         prog' = (D.conn.open \o D.life.restore) \o <<Throws("return")>>
  PROVE  ToReload'
PROOF
  <1> DEFINE o == D.conn.open
             p == D.life.restore
             q == o \o p
             c == Len(o)
             l == Len(p)
             t == Len(prog')
  <1>1. /\ o \in Seq(Steps) /\ p \in Seq(Steps) /\ Len(o) >= 1
        /\ \A k \in 1..Len(o) : o[k].do \in Opens
    BY Programs DEF ProgramsOk, OpenOk, RestoreOk, Good
  <1>2. PICK r \in Nat, b \in Nat : RestoresSo(p, r, b)
    BY RestoreShape
  <1> HIDE DEF o, p
  <1>3. /\ q \in Seq(Steps) /\ c \in Nat /\ l \in Nat /\ Len(q) = c + l
        /\ \A k \in 1..c : q[k] = o[k]
        /\ \A k \in 1..l : q[c + k] = p[k]
    BY <1>1, Glued
  <1>4. t = Len(q) + 1 /\ \A k \in 1..Len(q) : prog'[k] = q[k]
    <2>1. prog' = q \o <<Throws("return")>>
      BY DEF o, p
    <2> HIDE DEF q
    <2> QED BY <1>3, <2>1, WithReturn
  <1> HIDE DEF q, c, l, t
  <1>5. /\ t = c + l + 1 /\ c >= 1 /\ t \in Nat
        /\ \A k \in 1..c : prog'[k] = o[k]
        /\ \A k \in 1..l : prog'[c + k] = p[k] /\ c + k \in 1..t
    <2>1. \A k \in 1..c : k \in 1..Len(q)
      BY <1>3
    <2>2. \A k \in 1..l : c + k \in 1..Len(q) /\ c + k \in 1..t
      BY <1>3, <1>4
    <2>3. t = c + l + 1 /\ c >= 1 /\ t \in Nat
      BY <1>1, <1>3, <1>4 DEF c
    <2> QED BY <1>3, <1>4, <2>1, <2>2, <2>3
  <1>6. /\ 2 <= r /\ r <= l /\ 1 <= b /\ b <= r - 1
        /\ p[r].do = "replay_backup" /\ p[r].err = "ignored" /\ p[b].do = "if_backup"
        /\ \A k \in 1..(b - 1) : p[k].do \in Resets
        /\ \A k \in (b + 1)..(r - 1) : Connects(p[k])
        /\ \/ \E k \in 1..(b - 1) : p[k].do \in Drops
           \/ \E k \in 2..(b - 1) : p[k].do = "wipe" /\ p[k - 1].do = "connect"
        /\ IF driver \in Dumping
             THEN l = r + 1 /\ Reconnects(p[r + 1]) /\ p[r - 1].do = "close"
             ELSE l = r
    BY <1>2, <1>3 DEF RestoresSo, l
  <1>7. PICK x : x = c + r
    OBVIOUS
  <1>8. PICK e : e = c + b
    OBVIOUS
  <1>0. c \in Nat /\ l \in Nat /\ r \in Nat /\ b \in Nat /\ 2 <= r /\ r <= l /\ 1 <= b /\ b <= r - 1
    <2>1. 2 <= r /\ r <= l /\ 1 <= b /\ b <= r - 1
      BY <1>6
    <2>2. c \in Nat /\ l \in Nat
      BY <1>3
    <2> QED BY <2>1, <2>2
  <1>9. x \in 1..t /\ prog'[x] = p[r] /\ e \in 1..(x - 1) /\ prog'[e] = p[b] /\ x \in Nat /\ e \in Nat /\ x # 1
    <2>1. r \in 1..l /\ b \in 1..l /\ e \in 1..(x - 1) /\ x \in Nat /\ e \in Nat /\ x # 1
      <3>1. r \in 1..l /\ b \in 1..l
        BY <1>0
      <3>2. x \in Nat /\ e \in Nat /\ e \in 1..(x - 1) /\ x # 1
        BY <1>0, <1>7, <1>8
      <3> QED BY <3>1, <3>2
    <2> QED BY <1>5, <1>7, <1>8, <2>1
  <1>10. Reloader(x)'
    <2>1. CASE driver \in Dumping
      <3>0. l = r + 1 /\ t = c + l + 1 /\ 2 <= r /\ c \in Nat /\ l \in Nat
        <4>1. l = r + 1
          BY <1>6, <2>1
        <4>2. t = c + l + 1
          BY <1>5
        <4> QED BY <1>0, <4>1, <4>2
      <3>1. t = x + 2 /\ r + 1 \in 1..l /\ r - 1 \in 1..l /\ c + (r + 1) = x + 1 /\ c + (r - 1) = x - 1
        BY <1>7, <3>0
      <3>2. prog'[x + 1] = p[r + 1] /\ prog'[x - 1] = p[r - 1]
        BY <1>5, <3>1
      <3> QED BY <1>6, <1>9, <2>1, <3>1, <3>2 DEF Reloader, Reconnects, Dumping, t
    <2>2. CASE driver \notin Dumping
      <3>1. t = x + 1
        <4>1. l = r
          BY <1>6, <2>2
        <4>2. t = c + l + 1
          BY <1>5
        <4> QED BY <1>0, <1>7, <4>1, <4>2
      <3> QED BY <1>6, <1>9, <2>2, <3>1 DEF Reloader, Dumping, t
    <2> QED BY <2>1, <2>2
  <1>11. ASSUME NEW k \in 1..(e - 1) PROVE prog'[k].do \in Resets
    <2>1. CASE k <= c
      <3>1. k \in 1..c
        BY <1>3, <2>1
      <3> QED BY <1>1, <1>5, <3>1 DEF Resets, c
    <2>2. CASE ~(k <= c)
      <3>1. PICK i : i = k - c
        OBVIOUS
      <3>2. i \in 1..(b - 1) /\ i \in 1..l /\ c + i = k
        BY <1>0, <1>8, <2>2, <3>1
      <3>3. prog'[k] = p[i]
        BY <1>5, <3>2
      <3> QED BY <1>6, <3>2, <3>3
    <2> QED BY <2>1, <2>2
  <1>12. ASSUME NEW k \in (e + 1)..(x - 1) PROVE Connects(prog[k])'
    <2>1. PICK i : i = k - c
      OBVIOUS
    <2>2. i \in (b + 1)..(r - 1) /\ i \in 1..l /\ c + i = k
      BY <1>0, <1>7, <1>8, <2>1
    <2>3. prog'[k] = p[i]
      BY <1>5, <2>2
    <2> QED BY <1>6, <2>2, <2>3 DEF Connects, Reconnects
  <1>13. Emptied(e)'
    <2>1. ASSUME NEW k \in 1..(b - 1), p[k].do \in Drops PROVE Emptied(e)'
      <3>1. PICK i : i = c + k
        OBVIOUS
      <3>2. i \in 1..(e - 1) /\ k \in 1..l
        BY <1>0, <1>8, <3>1
      <3>3. prog'[i] = p[k]
        BY <1>5, <3>1, <3>2
      <3> QED BY <2>1, <3>2, <3>3 DEF Emptied, Drops
    <2>2. ASSUME NEW k \in 2..(b - 1), p[k].do = "wipe", p[k - 1].do = "connect" PROVE Emptied(e)'
      <3>1. PICK i : i = c + k
        OBVIOUS
      <3>2. i \in 1..(e - 1) /\ k \in 1..l /\ k - 1 \in 1..l /\ c + (k - 1) = i - 1 /\ i # 1
        BY <1>0, <1>8, <3>1
      <3>3. prog'[i] = p[k] /\ prog'[i - 1] = p[k - 1]
        BY <1>5, <3>1, <3>2
      <3> QED BY <2>2, <3>2, <3>3 DEF Emptied
    <2> QED BY <1>6, <2>1, <2>2
  <1>14. \E u \in 1..(x - 1) :
           /\ prog'[u].do = "if_backup" /\ Emptied(u)'
           /\ \A k \in 1..(u - 1) : prog'[k].do \in Resets
           /\ \A k \in (u + 1)..(x - 1) : Connects(prog[k])'
    BY <1>6, <1>9, <1>11, <1>12, <1>13
  <1> QED BY <1>9, <1>10, <1>14 DEF ToReload, Resets, Opens, Drops, t

(* A query begins.                                                         *)
LEMMA QueryStarts ==
  ASSUME driver \in Drivers, seen' = <<>>,
         prog' = (D.conn.open \o (D.test.settings \o <<Statement("query", "none")>>)) \o <<Throws("return")>>
  PROVE  ToQuery'
PROOF
  <1> DEFINE s == Statement("query", "none")
             o == D.conn.open
             p == D.test.settings
             a == p \o <<s>>
             q == o \o a
             t == Len(prog')
  <1>1. /\ o \in Seq(Steps) /\ \A k \in 1..Len(o) : o[k].do \in Opens
        /\ p \in Seq(Steps) /\ \A k \in 1..Len(p) : p[k].do = "set"
        /\ D.test.stmt \in {"lost", "plain"}
    BY Programs DEF ProgramsOk, OpenOk, CallOk, Good
  <1>2. s \in Steps /\ s.do = "query" /\ s.err # "ignored"
    <2>1. "query" \in Doings /\ "none" \in Names /\ D.test.stmt \in Errs
      BY <1>1, Operations DEF Names, Errs
    <2>2. s = [do |-> "query", err |-> D.test.stmt, stmt |-> "none"]
      BY DEF Statement
    <2> HIDE DEF s
    <2> QED BY <1>1, <2>1, <2>2 DEF Steps
  <1>3. prog' = q \o <<Throws("return")>>
    OBVIOUS
  <1> HIDE DEF s, o, p
  <1>4. /\ a \in Seq(Steps) /\ Len(a) = Len(p) + 1 /\ Len(p) \in Nat
        /\ \A k \in 1..Len(p) : a[k] = p[k]
        /\ a[Len(p) + 1] = s
    <2>1. <<s>> \in Seq(Steps) /\ Len(<<s>>) = 1 /\ <<s>>[1] = s /\ 1 \in 1..1
      BY <1>2
    <2> QED BY <1>1, <2>1, Glued
  <1> HIDE DEF a
  <1>5. /\ q \in Seq(Steps) /\ Len(q) = Len(o) + Len(a) /\ Len(o) \in Nat /\ Len(a) \in Nat
        /\ \A k \in 1..Len(o) : q[k] = o[k]
        /\ \A k \in 1..Len(a) : q[Len(o) + k] = a[k]
    BY <1>1, <1>4, Glued
  <1> HIDE DEF q
  <1>6. t = Len(q) + 1 /\ \A k \in 1..Len(q) : prog'[k] = q[k]
    BY <1>3, <1>5, WithReturn
  <1> DEFINE c == Len(o)
             m == Len(p)
             n == Len(q)
  <1>7. /\ c \in Nat /\ m \in Nat /\ n = c + (m + 1) /\ t = n + 1
        /\ \A k \in 1..c : q[k] = o[k] /\ o[k].do \in Opens
        /\ \A k \in 1..m : q[c + k] = p[k] /\ p[k].do \in Opens
        /\ q[c + (m + 1)] = s
    <2>1. \A k \in 1..m : q[c + k] = p[k] /\ p[k].do \in Opens
      BY <1>1, <1>4, <1>5 DEF Opens
    <2>2. q[c + (m + 1)] = s
      <3>1. m + 1 \in 1..Len(a)
        BY <1>4
      <3> QED BY <1>4, <1>5, <3>1
    <2> QED BY <1>1, <1>4, <1>5, <1>6, <2>1, <2>2
  <1>8. \A k \in 1..n : prog'[k] = q[k]
    BY <1>6
  <1> HIDE DEF c, m, n, t
  <1>9. t > 1 /\ prog'[t - 1] = s
    <2>1. t > 1 /\ t - 1 = n /\ n \in 1..n
      BY <1>7
    <2> QED BY <1>7, <1>8, <2>1
  <1>10. ASSUME NEW k \in 1..(t - 2) PROVE prog'[k].do \in Opens
    <2>0. k \in 1..n
      BY <1>7
    <2>1. CASE k <= c
      <3>1. k \in 1..c
        BY <1>7, <2>1
      <3> QED BY <1>7, <1>8, <2>0, <3>1
    <2>2. CASE ~(k <= c)
      <3>1. PICK i : i = k - c
        OBVIOUS
      <3>2. i \in 1..m /\ c + i = k
        BY <1>7, <2>2, <3>1
      <3>3. q[k] = p[i] /\ p[i].do \in Opens
        BY <1>7, <3>2
      <3> QED BY <1>8, <2>0, <3>3
    <2> QED BY <2>1, <2>2
  <1> QED BY <1>2, <1>9, <1>10 DEF ToQuery, Opens, t

(* A change begins.                                                        *)
LEMMA ChangeStarts ==
  ASSUME driver \in Drivers,
         prog' = (<<D.life.content>> \o D.test.settings \o <<Statement("write", "w"), D.life.content>>)
                   \o <<Throws("return")>>
  PROVE  LET n == Len(prog') IN
         /\ n > 3 /\ prog'[1].do = "content" /\ prog'[n - 2].do = "write" /\ prog'[n - 2].stmt = "w"
         /\ prog'[n - 1].do = "content" /\ \A k \in 2..(n - 3) : prog'[k].do = "set"
PROOF
  <1> DEFINE s == Statement("write", "w")
             c == D.life.content
             p == D.test.settings
             a == <<c>> \o p
             b == <<s, c>>
             q == a \o b
             t == Len(prog')
  <1>1. /\ c \in Steps /\ c.do = "content"
        /\ p \in Seq(Steps) /\ \A k \in 1..Len(p) : p[k].do = "set"
        /\ D.test.stmt \in {"lost", "plain"}
    BY Programs DEF ProgramsOk, CallOk, Good
  <1>2. s \in Steps /\ s.do = "write" /\ s.stmt = "w"
    <2>1. "write" \in Doings /\ "w" \in Names /\ D.test.stmt \in Errs
      BY <1>1, Operations DEF Names, Errs
    <2>2. s = [do |-> "write", err |-> D.test.stmt, stmt |-> "w"]
      BY DEF Statement
    <2> HIDE DEF s
    <2> QED BY <2>1, <2>2 DEF Steps
  <1>3. prog' = q \o <<Throws("return")>>
    OBVIOUS
  <1> HIDE DEF s, c, p
  <1>4. /\ a \in Seq(Steps) /\ Len(a) = 1 + Len(p) /\ Len(p) \in Nat
        /\ a[1] = c /\ \A k \in 1..Len(p) : a[1 + k] = p[k]
    <2>1. <<c>> \in Seq(Steps) /\ Len(<<c>>) = 1 /\ <<c>>[1] = c /\ 1 \in 1..1
      BY <1>1
    <2> QED BY <1>1, <2>1, Glued
  <1>5. b \in Seq(Steps) /\ Len(b) = 2 /\ b[1] = s /\ b[2] = c
    BY <1>1, <1>2
  <1> HIDE DEF a, b
  <1>6. /\ q \in Seq(Steps) /\ Len(q) = Len(a) + 2 /\ Len(a) \in Nat
        /\ \A k \in 1..Len(a) : q[k] = a[k]
        /\ q[Len(a) + 1] = s /\ q[Len(a) + 2] = c
    <2>1. /\ q \in Seq(Steps) /\ Len(q) = Len(a) + Len(b) /\ Len(a) \in Nat
          /\ \A k \in 1..Len(a) : q[k] = a[k]
          /\ \A k \in 1..Len(b) : q[Len(a) + k] = b[k]
      BY <1>4, <1>5, Glued
    <2>2. 1 \in 1..Len(b) /\ 2 \in 1..Len(b)
      BY <1>5
    <2> QED BY <1>5, <2>1, <2>2
  <1> HIDE DEF q
  <1>7. t = Len(q) + 1 /\ \A k \in 1..Len(q) : prog'[k] = q[k]
    BY <1>3, <1>6, WithReturn
  <1> DEFINE m == Len(p)
  <1>8. /\ m \in Nat /\ t = m + 4 /\ Len(a) = 1 + m
        /\ \A k \in 1..(m + 3) : prog'[k] = q[k]
        /\ q[1 + m + 1] = s /\ q[1 + m + 2] = c
    <2>1. m \in Nat /\ Len(a) = 1 + m /\ Len(q) = 1 + m + 2
      BY <1>4, <1>6
    <2>2. t = m + 4 /\ Len(q) = m + 3
      BY <1>7, <2>1
    <2> QED BY <1>6, <1>7, <2>1, <2>2
  <1>9. q[1] = c /\ \A k \in 1..m : q[1 + k] = p[k]
    <2>1. 1 \in 1..Len(a) /\ \A k \in 1..m : 1 + k \in 1..Len(a)
      BY <1>8
    <2> QED BY <1>4, <1>6, <2>1
  <1> HIDE DEF m, t
  <1>10. t > 3 /\ prog'[1] = c /\ prog'[t - 2] = s /\ prog'[t - 1] = c
    <2>1. /\ t > 3 /\ 1 \in 1..(m + 3) /\ t - 2 \in 1..(m + 3) /\ t - 1 \in 1..(m + 3)
          /\ t - 2 = 1 + m + 1 /\ t - 1 = 1 + m + 2
      BY <1>8
    <2> QED BY <1>8, <1>9, <2>1
  <1>11. ASSUME NEW k \in 2..(t - 3) PROVE prog'[k].do = "set"
    <2>1. PICK i : i = k - 1
      OBVIOUS
    <2>2. i \in 1..m /\ 1 + i = k /\ k \in 1..(m + 3)
      BY <1>8, <2>1
    <2>3. q[k] = p[i]
      BY <1>9, <2>2
    <2> QED BY <1>1, <1>8, <2>2, <2>3 DEF m
  <1> QED BY <1>1, <1>2, <1>10, <1>11 DEF t

(* What the actions make of a test.                                        *)
LEMMA TestParts ==
  ASSUME DOMAIN test = DOMAIN NoTest
  PROVE  /\ DOMAIN [test EXCEPT !.start = db] = DOMAIN NoTest
         /\ [test EXCEPT !.start = db].start = db
         /\ \A f \in {"kind", "run", "orig", "qit"} : [test EXCEPT !.start = db][f] = test[f]
         /\ DOMAIN Measured = DOMAIN NoTest /\ Measured.kind = test.kind
         /\ Measured.run = test.run /\ Measured.start = test.start
         /\ Side(test.run) = "orig" => Measured.orig = Answer("orig") /\ Measured.qit = test.qit
         /\ Side(test.run) = "qit" => Measured.qit = Answer("qit") /\ Measured.orig = test.orig
         /\ \A r : LET t == [Measured EXCEPT !.run = r, !.start = db] IN
                   /\ DOMAIN t = DOMAIN NoTest /\ t.run = r /\ t.start = db
                   /\ t.kind = test.kind /\ t.orig = Measured.orig
         /\ \A k : LET t == [NoTest EXCEPT !.kind = k, !.run = "orig", !.start = db] IN
                   DOMAIN t = DOMAIN NoTest /\ t.run = "orig" /\ t.start = db /\ t.kind = k
PROOF
  <1>1. DOMAIN NoTest = {"kind", "run", "start", "orig", "qit"}
    BY DEF NoTest
  <1>2. Side(test.run) \in {"orig", "qit"}
    BY DEF Side
  <1>3. /\ DOMAIN [test EXCEPT !.start = db] = DOMAIN NoTest
        /\ [test EXCEPT !.start = db].start = db
        /\ \A f \in {"kind", "run", "orig", "qit"} : [test EXCEPT !.start = db][f] = test[f]
    BY <1>1
  <1>4. /\ DOMAIN Measured = DOMAIN NoTest /\ Measured.kind = test.kind
        /\ Measured.run = test.run /\ Measured.start = test.start
        /\ Side(test.run) = "orig" => Measured.orig = Answer("orig") /\ Measured.qit = test.qit
        /\ Side(test.run) = "qit" => Measured.qit = Answer("qit") /\ Measured.orig = test.orig
    BY <1>1, <1>2 DEF Measured
  <1>5. \A r : LET t == [Measured EXCEPT !.run = r, !.start = db] IN
               /\ DOMAIN t = DOMAIN NoTest /\ t.run = r /\ t.start = db
               /\ t.kind = test.kind /\ t.orig = Measured.orig
    BY <1>1, <1>4
  <1>6. \A k : LET t == [NoTest EXCEPT !.kind = k, !.run = "orig", !.start = db] IN
               DOMAIN t = DOMAIN NoTest /\ t.run = "orig" /\ t.start = db /\ t.kind = k
    BY <1>1
  <1> QED BY <1>3, <1>4, <1>5, <1>6

-----------------------------------------------------------------------------
(***************************************************************************)
(* The actions of the child, the parent and the server.                    *)
(***************************************************************************)

(* A run that no fault hits yields what it should.                         *)
LEMMA CleanAnswer ==
  ASSUME IInv, RInv, prog = <<>>, task = "none", phase = "run", test.kind # "select", Calm, NEW side
  PROVE  Answer(side) = Clean
PROOF
  <1>1. test.start = Restored /\ seen = <<Restored, Changed>>
    BY DEF RInv, ChangeInv, ReadTwice
  <1>2. ~Shows(test.start)
    BY <1>1 DEF Calm
  <1>3. Answer(side) = seen \o <<<<"right">>>>
    BY <1>2 DEF Answer
  <1> QED BY <1>1, <1>3, TripleIs DEF Clean

(* A query yields what the database holds, and the answer.                 *)
LEMMA SelectAnswer ==
  ASSUME RInv, prog = <<>>, task = "none", phase = "run", test.kind = "select", test.start = db, ~Shows(db), NEW side
  PROVE  Answer(side) = <<db, <<"right">>>>
PROOF
  <1>1. seen = <<db>>
    BY DEF RInv, SelectInv
  <1>2. Answer(side) = seen \o <<<<"right">>>>
    BY DEF Answer
  <1> QED BY <1>1, <1>2, PairIs

(* With one fault at most a logic bug is one of the DBMS.                  *)
LEMMA BugIsReal ==
  ASSUME IInv, RInv, BugSeen, MaxFaults =< 1
  PROVE  culprit # "none"
PROOF
  <1>1. prog = <<>> /\ task = "none" /\ phase = "run" /\ test.run = "vqit" /\ Measured.orig # Measured.qit
    BY DEF BugSeen, Returned, Differs
  <1>2. DOMAIN test = DOMAIN NoTest /\ TypeInv /\ BaseInv /\ MakerInv
    BY DEF RInv, UpInv, IInv
  <1>3. Measured.qit = Answer("qit") /\ Measured.orig = test.orig
    BY <1>1, <1>2, TestParts DEF Side
  <1>4. CASE test.kind = "select"
    <2>1. test.start = db /\ db # Absent
      BY <1>1, <1>4 DEF RInv, SelectInv
    <2>2. db \in Seq(Marks)
      BY <1>2, <2>1, DatabaseTypes DEF TypeInv
    <2>3. ASSUME ~Shows(db) PROVE FALSE
      <3>1. test.orig = <<db, <<"right">>>>
        BY <1>1, <1>4, <2>3 DEF RInv, SelectInv
      <3>2. Answer("qit") = <<db, <<"right">>>>
        BY <1>1, <1>4, <2>1, <2>3, SelectAnswer
      <3> QED BY <1>1, <1>3, <3>1, <3>2
    <2> QED BY <2>2, <2>3, ShownIsReal
  <1>5. CASE test.kind # "select"
    <2>1. Restored \in Seq(Marks)
      <3>1. base # None
        BY <1>1, <1>2 DEF BaseInv
      <3> QED BY <1>2, <3>1, RestoredTypes
    <2>2. ASSUME ~Shows(Restored) PROVE FALSE
      <3>1. faults = 0 /\ test.orig = Clean
        BY <1>1, <1>5, <2>2 DEF RInv, RunsInv, Validating
      <3>2. Calm
        BY <1>1, <2>2, <3>1 DEF Calm, Validating
      <3>3. Answer("qit") = Clean
        BY <1>1, <1>5, <3>2, CleanAnswer
      <3> QED BY <1>1, <1>3, <3>1, <3>3
    <2> QED BY <2>1, <2>2, ShownIsReal
  <1> QED BY <1>4, <1>5

(* Where no test is under way.                                             *)
LEMMA OutOfTests ==
  ASSUME RInv, phase' \notin {"restore", "run"}, driver' = driver, up' = up, conn' \in {conn, "none"},
         test' \in {test, NoTest, Measured}, culprit' = culprit,
         MaxFaults =< 1 /\ removed' > 0 => removed > 0 \/ culprit # "none"
  PROVE  RInv'
PROOF
  <1>1. UpInv /\ ReportsAreReal
    BY DEF RInv
  <1>2. LenientInv' /\ RestoredInv' /\ ChangeInv' /\ RunsInv' /\ SelectInv'
    BY DEF LenientInv, RestoredInv, ChangeInv, RunsInv, SelectInv
  <1>3. ReportsAreReal'
    BY <1>1 DEF ReportsAreReal
  <1>4. DOMAIN test' = DOMAIN NoTest /\ test'.kind \in {"none", test.kind}
    <2>1. DOMAIN test = DOMAIN NoTest
      BY <1>1 DEF UpInv
    <2>2. DOMAIN Measured = DOMAIN NoTest /\ Measured.kind = test.kind
      BY <2>1, TestParts
    <2>3. NoTest.kind = "none"
      BY DEF NoTest
    <2> QED BY <2>1, <2>2, <2>3
  <1>5. (DOMAIN NoTest)' = DOMAIN NoTest
    BY DEF NoTest, None
  <1>6. UpInv'
    BY <1>1, <1>4, <1>5 DEF UpInv
  <1> QED BY <1>2, <1>3, <1>6 DEF RInv

(* Where nothing of this changes.                                          *)
LEMMA UntouchedIsReal ==
  ASSUME RInv,
         driver' = driver, up' = up, db' = db, conn' = conn, backup' = backup, base' = base,
         prog' = prog, task' = task, seen' = seen, faults' = faults, phase' = phase,
         test' = test, culprit' = culprit, removed' = removed
  PROVE  RInv'
PROOF
  <1>1. Restored' = Restored /\ Reloads' = Reloads /\ Backed' = Backed
    BY RestoredKept
  <1>2. Alive' = Alive /\ Calm' = Calm /\ Clean' = Clean /\ Changed' = Changed /\ Shows(Restored)' = Shows(Restored)
        /\ Shows(db)' = Shows(db) /\ Validating' = Validating
    BY <1>1 DEF Alive, Calm, Clean, Changed, Shows, Validating
  <1>3. UpInv'
    BY DEF RInv, UpInv, NoTest
  <1>4. LenientInv'
    <2>1. \A r : Reloader(r)' = Reloader(r)
      BY DEF Reloader, Reconnects, Dumping
    <2>2. \A b : Emptied(b)' = Emptied(b)
      BY <1>2 DEF Emptied, Absent, Drops
    <2>3. ToReload' = ToReload
      BY <2>1, <2>2 DEF ToReload, Connects, Reconnects, Resets, Opens, Drops
    <2>4. Reloading' = Reloading
      BY <1>1 DEF Reloading, Reconnects, Dumping
    <2>5. Reloaded' = Reloaded
      BY <1>1 DEF Reloaded, Reconnects, Dumping
    <2>6. CutOff' = CutOff
      BY <1>2 DEF CutOff, Dumping
    <2> QED BY <1>2, <2>3, <2>4, <2>5, <2>6 DEF RInv, LenientInv, Forgiving
  <1>5. RestoredInv'
    BY <1>1, <1>2 DEF RInv, RestoredInv
  <1>6. ChangeInv'
    <2>1. \A s : AsRestored(s)' = AsRestored(s)
      BY <1>1, <1>2 DEF AsRestored
    <2>2. ToRead' = ToRead
      BY <1>1, <1>2 DEF ToRead, AsRestored
    <2>3. ToChange' = ToChange
      BY <1>1, <1>2 DEF ToChange, AsRestored
    <2>4. ToReadAgain' = ToReadAgain /\ ReadTwice' = ReadTwice
      BY <1>1, <1>2 DEF ToReadAgain, ReadTwice
    <2> QED BY <1>2, <2>2, <2>3, <2>4 DEF RInv, ChangeInv
  <1>7. RunsInv'
    BY <1>2 DEF RInv, RunsInv
  <1>8. SelectInv'
    BY <1>2 DEF RInv, SelectInv, Absent, Opens
  <1>9. ReportsAreReal'
    BY DEF RInv, ReportsAreReal
  <1> QED BY <1>3, <1>4, <1>5, <1>6, <1>7, <1>8, <1>9 DEF RInv

(* The server dies: a test it hits does not go well.                       *)
LEMMA DeathIsReal ==
  ASSUME IInv, RInv, ServerDies, UNCHANGED eetVars
  PROVE  RInv'
PROOF
  <1>1. /\ driver' = driver /\ db' = db /\ backup' = backup /\ prog' = prog /\ task' = task /\ seen' = seen
        /\ up' = FALSE /\ conn' \in {"none", "dead"} /\ faults > 0 /\ faults' = faults - 1
    BY DEF ServerDies
  <1>2. base' = base /\ phase' = phase /\ test' = test /\ culprit' = culprit /\ removed' = removed
    BY DEF eetVars
  <1>3. UpInv /\ RunsInv /\ SelectInv /\ ReportsAreReal
    BY DEF RInv
  <1>4. Restored' = Restored
    BY <1>1, <1>2, RestoredKept
  <1>5. faults \in 0..MaxFaults /\ MaxFaults \in Nat
    BY DriversAssumption DEF IInv, TypeInv
  <1>6. ASSUME phase \in {"restore", "run"}, test.kind # "select", Calm' PROVE FALSE
    <2>1. faults' = faults
      BY <1>1, <1>2, <1>3, <1>4, <1>6, StaysCalm
    <2> QED BY <1>1, <1>5, <2>1
  <1>7. UpInv'
    BY <1>1, <1>2, <1>3 DEF UpInv, NoTest, None
  <1>8. LenientInv' /\ RestoredInv' /\ ChangeInv'
    BY <1>2, <1>3, <1>6 DEF UpInv, LenientInv, RestoredInv, ChangeInv
  <1>9. RunsInv'
    <2>1. (faults' = MaxFaults => faults = MaxFaults) /\ (faults = 0 => faults' = 0)
      BY <1>1, <1>5
    <2>2. Clean' = Clean /\ Validating' = Validating /\ Shows(Restored)' = Shows(Restored)
      BY <1>2, <1>4 DEF Clean, Changed, Validating, Shows
    <2> QED BY <1>2, <1>3, <2>1, <2>2 DEF RunsInv
  <1>10. SelectInv'
    BY <1>1, <1>2, <1>3 DEF SelectInv, Shows, Absent, Opens
  <1>11. ReportsAreReal'
    BY <1>2, <1>3 DEF ReportsAreReal
  <1> QED BY <1>7, <1>8, <1>9, <1>10, <1>11 DEF RInv

(* The server returns: the session is not there again.                     *)
LEMMA ReturnIsReal ==
  ASSUME IInv, RInv, ServerReturns, UNCHANGED eetVars
  PROVE  RInv'
PROOF
  <1>1. /\ driver' = driver /\ db' = db /\ backup' = backup /\ prog' = prog /\ task' = task /\ seen' = seen
        /\ conn' = conn /\ faults' = faults /\ ~up /\ up' = TRUE
    BY DEF ServerReturns
  <1>2. base' = base /\ phase' = phase /\ test' = test /\ culprit' = culprit /\ removed' = removed
    BY DEF eetVars
  <1>3. UpInv /\ LenientInv /\ RestoredInv /\ ChangeInv /\ RunsInv /\ SelectInv /\ ReportsAreReal
    BY DEF RInv
  <1>4. Restored' = Restored /\ Reloads' = Reloads /\ Backed' = Backed
    BY <1>1, <1>2, RestoredKept
  <1>5. Calm' = Calm /\ Clean' = Clean /\ Changed' = Changed /\ Validating' = Validating
        /\ Shows(Restored)' = Shows(Restored) /\ Shows(db)' = Shows(db)
    BY <1>1, <1>2, <1>4 DEF Calm, Clean, Changed, Validating, Shows
  <1>6. UpInv'
    BY <1>1, <1>2, <1>3 DEF UpInv, NoTest, None
  <1>7. phase \in {"restore", "run"} /\ test.kind # "select" => Alive' = Alive
    <2> SUFFICES ASSUME phase \in {"restore", "run"}, test.kind # "select" PROVE Alive' = Alive
      OBVIOUS
    <2>1. driver # "clickhouse"
      BY <1>3 DEF IInv, CatalogInv, UpInv
    <2>2. driver = "sqlite" \/ conn \notin {"default", "test"}
      BY <1>1, <1>3 DEF UpInv
    <2> QED BY <1>1, <2>1, <2>2 DEF Alive
  <1>8. LenientInv'
    <2> SUFFICES ASSUME driver \in Forgiving, phase = "restore", prog # <<>>, Calm
                 PROVE  ToReload' \/ Reloading' \/ Reloaded' \/ CutOff'
      BY <1>1, <1>2, <1>5 DEF LenientInv, Forgiving
    <2>1. Alive' = Alive
      BY <1>3, <1>7 DEF UpInv
    <2>2. \A r : Reloader(r)' = Reloader(r)
      BY <1>1 DEF Reloader, Reconnects, Dumping
    <2>3. \A b : Emptied(b) => Emptied(b)'
      BY <1>1, <2>1 DEF Emptied, Absent, Drops
    <2>4. ToReload => ToReload'
      BY <1>1, <2>2, <2>3 DEF ToReload, Connects, Reconnects, Resets, Opens, Drops
    <2>5. Reloading => Reloading'
      BY <1>1, <1>4 DEF Reloading, Reconnects, Dumping
    <2>6. Reloaded' = Reloaded
      BY <1>1, <1>4 DEF Reloaded, Reconnects, Dumping
    <2>7. CutOff' = CutOff
      BY <1>1, <2>1 DEF CutOff, Dumping
    <2> QED BY <1>3, <2>4, <2>5, <2>6, <2>7 DEF LenientInv
  <1>9. RestoredInv'
    BY <1>1, <1>2, <1>3, <1>4, <1>5, <1>7 DEF RestoredInv, UpInv
  <1>10. ChangeInv'
    <2> SUFFICES ASSUME phase = "run", test.kind # "select", Calm PROVE ChangeInv'
      BY <1>2, <1>5 DEF ChangeInv
    <2>1. Alive' = Alive
      BY <1>7
    <2>2. \A s : AsRestored(s)' = AsRestored(s)
      BY <1>1, <1>2, <1>4, <2>1 DEF AsRestored
    <2>3. ToRead' = ToRead
      BY <1>1, <2>2 DEF ToRead
    <2>4. ToChange' = ToChange
      BY <1>1, <1>4, <2>2 DEF ToChange
    <2>5. ToReadAgain' = ToReadAgain /\ ReadTwice' = ReadTwice
      BY <1>1, <1>2, <1>4, <1>5, <2>1 DEF ToReadAgain, ReadTwice
    <2> QED BY <1>1, <1>3, <2>3, <2>4, <2>5 DEF ChangeInv
  <1>11. RunsInv'
    BY <1>1, <1>2, <1>3, <1>5 DEF RunsInv
  <1>12. SelectInv'
    BY <1>1, <1>2, <1>3, <1>5 DEF SelectInv, Absent, Opens
  <1>13. ReportsAreReal'
    BY <1>2, <1>3 DEF ReportsAreReal
  <1> QED BY <1>6, <1>8, <1>9, <1>10, <1>11, <1>12, <1>13 DEF RInv

(* A run of a test begins.                                                 *)
LEMMA ExecuteIsReal ==
  ASSUME IInv, RInv, NEW kind, Execute(kind), base' = base, culprit' = culprit, removed' = removed,
         test'.kind = kind, DOMAIN test' = DOMAIN NoTest, test'.start = db,
         kind \notin {"none", "select"} => driver # "clickhouse",
         test'.run = "orig" \/ db # Absent,
         kind = "select" /\ test'.run = "vqit" /\ ~Shows(db) => test'.orig = <<db, <<"right">>>>,
         RunsInv'
  PROVE  RInv'
PROOF
  <1>1. UpInv /\ ReportsAreReal /\ driver \in Drivers
    BY DEF RInv, IInv, TypeInv
  <1>2. conn' = "none" /\ UNCHANGED <<driver, up, db, backup, faults>> /\ seen' = <<>>
    BY DEF Execute, NewDut, dbUntouched, Call
  <1>3. (DOMAIN NoTest)' = DOMAIN NoTest
    BY DEF NoTest, None
  <1>4. phase' = "restore" => kind # "select"
    BY DEF Execute
  <1>5. UpInv'
    BY <1>2, <1>3, <1>4 DEF UpInv
  <1>6. ReportsAreReal'
    BY <1>1 DEF ReportsAreReal
  <1>7. CASE kind # "select"
    <2>1. /\ phase' = "restore" /\ task' = "restore"
          /\ prog' = (D.conn.open \o D.life.restore) \o <<Throws("return")>>
      BY <1>7 DEF Execute, NewDut, Call
    <2>2. driver \in Forgiving => ToReload'
      BY <1>1, <1>2, <2>1, RestoreStarts
    <2>3. LenientInv'
      BY <1>2, <2>2 DEF LenientInv, Forgiving
    <2>4. RestoredInv' /\ ChangeInv' /\ SelectInv'
      BY <2>1 DEF RestoredInv, ChangeInv, SelectInv
    <2> QED BY <1>5, <1>6, <2>3, <2>4 DEF RInv
  <1>8. CASE kind = "select"
    <2>1. /\ phase' = "run" /\ task' = "run"
          /\ prog' = (D.conn.open \o (D.test.settings \o <<Statement("query", "none")>>)) \o <<Throws("return")>>
      BY <1>8 DEF Execute, NewDut, Call
    <2>2. ToQuery'
      BY <1>1, <1>2, <2>1, QueryStarts
    <2>3. /\ Len(prog') > 1 /\ seen' = <<>>
          /\ prog'[Len(prog') - 1].do = "query" /\ prog'[Len(prog') - 1].err # "ignored"
          /\ \A k \in 1..(Len(prog') - 2) : prog'[k].do \in Opens
      BY <2>2 DEF ToQuery, Opens
    <2>4. Shows(db)' = Shows(db)
      BY <1>2 DEF Shows
    <2>5. SelectInv'
      BY <1>2, <1>8, <2>1, <2>3, <2>4 DEF SelectInv, Absent, Opens
    <2>6. LenientInv' /\ RestoredInv' /\ ChangeInv'
      BY <1>8, <2>1 DEF LenientInv, RestoredInv, ChangeInv
    <2> QED BY <1>5, <1>6, <2>5, <2>6 DEF RInv
  <1> QED BY <1>7, <1>8

(* The first run of a test has nothing to agree with.                      *)
LEMMA FirstRun ==
  ASSUME test'.run = "orig" PROVE RunsInv'
PROOF
  BY DEF RunsInv, Validating

(* The testers begin a test.                                               *)
LEMMA NextTestIsReal ==
  ASSUME IInv, RInv, NextTest PROVE RInv'
PROOF
  <1>1. PICK k \in Kinds : test' = [NoTest EXCEPT !.kind = k, !.run = "orig", !.start = db] /\ Execute(k)
    BY DEF NextTest
  <1>2. DOMAIN test' = DOMAIN NoTest /\ test'.run = "orig" /\ test'.start = db /\ test'.kind = k
    BY <1>1, TestParts DEF RInv, UpInv
  <1>3. k \notin {"none", "select"} => driver # "clickhouse"
    BY DEF Kinds
  <1>4. UNCHANGED <<base, culprit, removed>>
    BY DEF NextTest
  <1> QED BY <1>1, <1>2, <1>3, <1>4, FirstRun, ExecuteIsReal

(* The test is repeated on a database with a statement less.               *)
LEMMA TestAgainIsReal ==
  ASSUME IInv, RInv, TestAgain PROVE RInv'
PROOF
  <1>1. test' = [NoTest EXCEPT !.kind = test.kind, !.run = "orig", !.start = db] /\ Execute(test.kind)
    BY DEF TestAgain
  <1>2. DOMAIN test' = DOMAIN NoTest /\ test'.run = "orig" /\ test'.start = db /\ test'.kind = test.kind
    BY <1>1, TestParts DEF RInv, UpInv
  <1>3. test.kind \notin {"none", "select"} => driver # "clickhouse"
    BY DEF RInv, UpInv
  <1>4. UNCHANGED <<base, culprit, removed>>
    BY DEF TestAgain, minSame
  <1> QED BY <1>1, <1>2, <1>3, <1>4, FirstRun, ExecuteIsReal

(* The constructor of a tester makes another query.                        *)
LEMMA AnotherQueryIsReal ==
  ASSUME IInv, RInv, AnotherQuery PROVE RInv'
PROOF
  <1>1. test' = [test EXCEPT !.start = db] /\ Execute(test.kind) /\ test.run = "orig"
    BY DEF AnotherQuery
  <1>2. DOMAIN test' = DOMAIN NoTest /\ test'.run = "orig" /\ test'.start = db /\ test'.kind = test.kind
    BY <1>1, TestParts DEF RInv, UpInv
  <1>3. test.kind \notin {"none", "select"} => driver # "clickhouse"
    BY DEF RInv, UpInv
  <1>4. UNCHANGED <<base, culprit, removed>>
    BY DEF AnotherQuery, testSame
  <1> QED BY <1>1, <1>2, <1>3, <1>4, FirstRun, ExecuteIsReal

(* The next of the runs of a test: what the one before yielded is right    *)
(* where no fault hit it.                                                  *)
LEMMA NextRunIsReal ==
  ASSUME IInv, RInv, NextRun PROVE RInv'
PROOF
  <1>1. /\ prog = <<>> /\ task = "none" /\ phase = "run"
        /\ test.run \in {"orig", "vorig"} \/ (test.run = "qit" /\ Differs)
        /\ test' = [Measured EXCEPT !.run = Following(test.run), !.start = db]
        /\ Execute(test.kind) /\ UNCHANGED <<base, culprit, removed>>
    BY DEF NextRun, Returned, testSame
  <1>2. DOMAIN test = DOMAIN NoTest /\ TypeInv /\ MakerInv /\ RunsInv
    BY DEF RInv, UpInv, IInv
  <1>3. /\ DOMAIN test' = DOMAIN NoTest /\ test'.run = Following(test.run) /\ test'.start = db
        /\ test'.kind = test.kind /\ test'.orig = Measured.orig
    BY <1>1, <1>2, TestParts
  <1>4. test.kind \notin {"none", "select"} => driver # "clickhouse"
    BY DEF RInv, UpInv
  <1>5. db # Absent
    BY <1>1, <1>2 DEF MakerInv
  <1>6. /\ test.run = "orig" => test'.run = "qit" /\ Measured.orig = Answer("orig")
        /\ test.run = "qit" => test'.run = "vorig" /\ Measured.qit = Answer("qit") /\ Measured.orig = test.orig
        /\ test.run = "vorig" => test'.run = "vqit" /\ Measured.orig = Answer("orig")
    BY <1>2, <1>3, TestParts DEF Following, Side
  <1>7. ASSUME test.kind = "select", test'.run = "vqit", ~Shows(db) PROVE test'.orig = <<db, <<"right">>>>
    <2>1. test.run = "vorig" /\ test'.orig = Answer("orig")
      BY <1>1, <1>3, <1>6, <1>7
    <2>2. test.start = db
      BY <1>1, <1>7, <2>1 DEF RInv, SelectInv
    <2> QED BY <1>1, <1>7, <2>1, <2>2, SelectAnswer
  <1>8. UNCHANGED <<driver, backup, faults>>
    BY <1>1 DEF Execute, NewDut, dbUntouched
  <1>9. Restored' = Restored /\ Clean' = Clean /\ Shows(Restored)' = Shows(Restored)
    <2>1. Restored' = Restored
      BY <1>1, <1>8, RestoredKept
    <2> QED BY <1>1, <2>1 DEF Clean, Changed, Shows
  <1>10. RunsInv'
    <2> SUFFICES ASSUME test.kind # "select", MaxFaults =< 1, ~Shows(Restored)
                 PROVE  /\ test'.run = "qit" /\ faults' = MaxFaults => test'.orig = Clean
                        /\ test'.run \in {"vorig", "vqit"} => faults' = 0
                        /\ test'.run = "vqit" => test'.orig = Clean
      BY <1>3, <1>9 DEF RunsInv, Validating
    <2>1. CASE test.run = "orig"
      <3>1. ASSUME faults = MaxFaults PROVE Answer("orig") = Clean
        <4>1. Calm
          BY <2>1, <3>1 DEF Calm, Validating
        <4> QED BY <1>1, <4>1, CleanAnswer
      <3> QED BY <1>3, <1>6, <1>8, <2>1, <3>1
    <2>2. CASE test.run = "qit"
      <3>1. ASSUME faults = MaxFaults PROVE FALSE
        <4>1. Calm
          BY <2>2, <3>1 DEF Calm, Validating
        <4>2. Answer("qit") = Clean
          BY <1>1, <4>1, CleanAnswer
        <4>3. test.orig = Clean
          BY <1>1, <1>2, <2>2, <3>1 DEF RunsInv
        <4> QED BY <1>1, <1>6, <2>2, <4>2, <4>3 DEF Differs
      <3>2. faults \in 0..MaxFaults /\ MaxFaults \in Nat
        BY <1>2, DriversAssumption DEF TypeInv
      <3>3. faults = 0
        BY <3>1, <3>2
      <3> QED BY <1>6, <1>8, <2>2, <3>3
    <2>3. CASE test.run = "vorig"
      <3>1. faults = 0
        BY <1>1, <1>2, <2>3 DEF RunsInv, Validating
      <3>2. Calm
        BY <2>3, <3>1 DEF Calm, Validating
      <3>3. Answer("orig") = Clean
        BY <1>1, <3>2, CleanAnswer
      <3> QED BY <1>3, <1>6, <1>8, <2>3, <3>1, <3>3
    <2> QED BY <1>1, <2>1, <2>2, <2>3
  <1> QED BY <1>1, <1>3, <1>4, <1>5, <1>7, <1>10, ExecuteIsReal

(* A change begins on what was restored.                                   *)
LEMMA ChangeRestoredIsReal ==
  ASSUME IInv, RInv, ChangeRestored PROVE RInv'
PROOF
  <1>1. /\ prog = <<>> /\ task = "none" /\ phase = "restore" /\ phase' = "run"
        /\ test' = [test EXCEPT !.start = db]
        /\ prog' = (<<D.life.content>> \o D.test.settings \o <<Statement("write", "w"), D.life.content>>)
                     \o <<Throws("return")>>
        /\ task' = "run" /\ seen' = <<>>
        /\ UNCHANGED <<driver, up, db, conn, backup, faults, culprit, base, removed>>
    BY DEF ChangeRestored, Returned, SameDut, Call, dbUntouched, testSame
  <1>2. UpInv /\ RunsInv /\ RestoredInv /\ ReportsAreReal /\ driver \in Drivers
    BY DEF RInv, IInv, TypeInv
  <1>3. /\ DOMAIN test' = DOMAIN NoTest /\ test'.start = db
        /\ test'.kind = test.kind /\ test'.run = test.run /\ test'.orig = test.orig
    BY <1>1, <1>2, TestParts DEF UpInv
  <1>4. test.kind # "select"
    BY <1>1, <1>2 DEF UpInv
  <1>5. Restored' = Restored
    BY <1>1, RestoredKept
  <1>6. /\ Clean' = Clean /\ Shows(Restored)' = Shows(Restored) /\ Validating' = Validating
        /\ Calm' = Calm /\ Alive' = Alive
    BY <1>1, <1>3, <1>5 DEF Clean, Changed, Shows, Validating, Calm, Alive
  <1>7. UpInv'
    <2>1. (DOMAIN NoTest)' = DOMAIN NoTest
      BY DEF NoTest, None
    <2> QED BY <1>1, <1>2, <1>3, <2>1 DEF UpInv
  <1>8. LenientInv' /\ RestoredInv' /\ SelectInv' /\ ReportsAreReal'
    BY <1>1, <1>2, <1>3, <1>4 DEF LenientInv, RestoredInv, SelectInv, ReportsAreReal
  <1>9. RunsInv'
    BY <1>1, <1>2, <1>3, <1>6 DEF RunsInv
  <1>10. ChangeInv'
    <2> SUFFICES ASSUME Calm PROVE ToRead' /\ prog' # <<>>
      BY <1>1, <1>6 DEF ChangeInv
    <2>1. LET n == Len(prog') IN
         /\ n > 3 /\ prog'[1].do = "content" /\ prog'[n - 2].do = "write" /\ prog'[n - 2].stmt = "w"
         /\ prog'[n - 1].do = "content" /\ \A k \in 2..(n - 3) : prog'[k].do = "set"
      BY <1>1, <1>2, ChangeStarts
    <2>2. AsRestored(<<>>)'
      BY <1>1, <1>2, <1>3, <1>5, <1>6 DEF AsRestored, RestoredInv
    <2>3. ToRead'
      BY <2>1, <2>2 DEF ToRead
    <2>4. prog' # <<>>
      <3>1. Len(prog') > 3
        BY <2>1
      <3> QED BY <3>1
    <2> QED BY <2>3, <2>4
  <1> QED BY <1>7, <1>8, <1>9, <1>10 DEF RInv

(* The database is generated: no test is under way.                        *)
LEMMA GeneratingIsReal ==
  ASSUME IInv, RInv,
         \/ Generate \/ NextStatement \/ Retry \/ GiveUp \/ GenerateAgain \/ Generated
  PROVE  RInv'
PROOF
  <1>1. UNCHANGED <<test, culprit, removed>>
    BY DEF Generate, NextStatement, Retry, GiveUp, GenerateAgain, Generated, genSame
  <1>2. driver' = driver /\ up' = up /\ conn' \in {conn, "none"}
    BY DEF Generate, NextStatement, Retry, GiveUp, GenerateAgain, Generated, NewDut, SameDut, dbUntouched,
           interect_test, normal_test, loadSchema, dut_backup, dbVars
  <1>3. phase' \notin {"restore", "run"}
    <2>1. CASE Generate \/ NextStatement \/ GiveUp \/ GenerateAgain \/ Generated
      BY <2>1 DEF Generate, NextStatement, GiveUp, GenerateAgain, Generated,
           interect_test, normal_test, loadSchema, dut_backup
    <2>2. CASE Retry
      <3>1. phase' \in {"ddl", "dml", phase}
        BY <2>2 DEF Retry, interect_test, normal_test, loadSchema
      <3>2. ASSUME phase \in {"restore", "run"} PROVE FALSE
        <4>1. exn = "expected"
          BY <2>2, <3>2 DEF Retry, Counters
        <4> QED BY <3>2, <4>1 DEF IInv, ExnInv
      <3> QED BY <3>1, <3>2
    <2> QED BY <2>1, <2>2
  <1> QED BY <1>1, <1>2, <1>3, OutOfTests

(* A test is over, and the database is reduced.                            *)
LEMMA ReducingIsReal ==
  ASSUME IInv, RInv, TestPassed \/ LogicBug \/ ResetAgain \/ Feed \/ Save
  PROVE  RInv'
PROOF
  <1>1. phase' \notin {"restore", "run"} /\ driver' = driver /\ up' = up /\ conn' \in {conn, "none"} /\ culprit' = culprit
    <2>1. CASE TestPassed
      BY <2>1 DEF TestPassed, testSame
    <2>2. CASE LogicBug
      BY <2>2 DEF LogicBug, NewDut, dbUntouched, minSame
    <2>3. CASE ResetAgain
      BY <2>3 DEF ResetAgain, NewDut, dbUntouched, minSame
    <2>4. CASE Feed
      BY <2>4 DEF Feed, SameDut, dbUntouched, minSame
    <2>5. CASE Save
      BY <2>5 DEF Save, SameDut, dbUntouched, minSame
    <2> QED BY <2>1, <2>2, <2>3, <2>4, <2>5
  <1>2. test' \in {test, NoTest, Measured}
    BY DEF TestPassed, LogicBug, ResetAgain, Feed, Save
  <1>3. MaxFaults =< 1 /\ removed' > 0 => removed > 0 \/ culprit # "none"
    <2>1. CASE LogicBug
      <3>1. BugSeen
        BY <2>1 DEF LogicBug
      <3> QED BY <3>1, BugIsReal
    <2>2. CASE TestPassed \/ ResetAgain \/ Feed \/ Save
      BY <2>2 DEF TestPassed, ResetAgain, Feed, Save
    <2> QED BY <2>1, <2>2
  <1> QED BY <1>1, <1>2, <1>3, OutOfTests

(* The next statement is tried, or the child ends.                         *)
LEMMA RemovalIsReal ==
  ASSUME IInv, RInv, RemovalFails \/ StatementRemoved
  PROVE  RInv'
PROOF
  <1>1. PICK kept : NextRemoval(kept)
    BY DEF RemovalFails, StatementRemoved
  <1>2. removed > 0
    BY DEF RemovalFails, StatementRemoved
  <1>3. UNCHANGED <<test, base, culprit>>
    BY <1>1 DEF NextRemoval, minSame
  <1>4. CASE removed > 1
    <2>1. phase' = "m_reset" /\ UNCHANGED <<driver, up>> /\ conn' = "none"
      BY <1>1, <1>4 DEF NextRemoval, NewDut, dbUntouched
    <2> QED BY <1>2, <1>3, <2>1, OutOfTests
  <1>5. CASE ~(removed > 1)
    <2>1. UNCHANGED <<phase, removed, driver, up, db, conn, backup, prog, task, seen, faults>>
      BY <1>1, <1>5 DEF NextRemoval
    <2> QED BY <1>3, <2>1, UntouchedIsReal
  <1> QED BY <1>4, <1>5

(* The processes begin and end.                                            *)
LEMMA ProcessIsReal ==
  ASSUME IInv, RInv, Dies \/ Finishes \/ Fork \/ Wait \/ Read \/ UNCHANGED vars
  PROVE  RInv'
PROOF
  <1>1. CASE Fork
    <2>1. /\ phase' = "boot" /\ test' = NoTest /\ removed' = 0 /\ conn' = "none"
          /\ UNCHANGED <<driver, up, culprit>>
      BY <1>1 DEF Fork
    <2> QED BY <2>1, OutOfTests
  <1>2. CASE Dies \/ Finishes \/ Wait \/ Read \/ UNCHANGED vars
    <2>1. UNCHANGED <<driver, up, db, conn, backup, base, prog, task, seen, faults, phase, test, culprit, removed>>
      BY <1>2 DEF Dies, Finishes, Wait, Read, vars, dbVars, eetVars, ownVars
    <2> QED BY <2>1, UntouchedIsReal
  <1> QED BY <1>1, <1>2

-----------------------------------------------------------------------------
(***************************************************************************)
(* The theorems.                                                           *)
(***************************************************************************)

(* No test is under way to begin with.                                     *)
LEMMA InitReal == Init => RInv
PROOF
  <1> SUFFICES ASSUME Init PROVE RInv
    OBVIOUS
  <1>1. /\ conn = "none" /\ phase = "none" /\ test = NoTest /\ removed = 0
    BY DEF Init, dbInit
  <1>2. UpInv
    BY <1>1 DEF UpInv, NoTest
  <1>3. LenientInv /\ RestoredInv /\ ChangeInv /\ RunsInv /\ SelectInv
    BY <1>1 DEF LenientInv, RestoredInv, ChangeInv, RunsInv, SelectInv
  <1>4. ReportsAreReal
    BY <1>1 DEF ReportsAreReal
  <1> QED BY <1>2, <1>3, <1>4 DEF RInv

(* Every step keeps the invariant.                                         *)
LEMMA NextReal == IInv /\ RInv /\ [Next]_vars => RInv'
PROOF
  <1> SUFFICES ASSUME IInv, RInv, [Next]_vars PROVE RInv'
    OBVIOUS
  <1>1. CASE Operation
    BY <1>1, OperationIsReal
  <1>2. CASE Generate \/ NextStatement \/ Retry \/ GiveUp \/ GenerateAgain \/ Generated
    BY <1>2, GeneratingIsReal
  <1>3. CASE NextTest
    BY <1>3, NextTestIsReal
  <1>4. CASE ChangeRestored
    BY <1>4, ChangeRestoredIsReal
  <1>5. CASE NextRun
    BY <1>5, NextRunIsReal
  <1>6. CASE AnotherQuery
    BY <1>6, AnotherQueryIsReal
  <1>7. CASE TestAgain
    BY <1>7, TestAgainIsReal
  <1>8. CASE TestPassed \/ LogicBug \/ ResetAgain \/ Feed \/ Save
    BY <1>8, ReducingIsReal
  <1>9. CASE RemovalFails \/ StatementRemoved
    BY <1>9, RemovalIsReal
  <1>10. CASE Dies \/ Finishes \/ Fork \/ Wait \/ Read \/ UNCHANGED vars
    BY <1>10, ProcessIsReal
  <1>11. CASE Server
    BY <1>11, DeathIsReal, ReturnIsReal DEF Server
  <1> QED BY <1>1, <1>2, <1>3, <1>4, <1>5, <1>6, <1>7, <1>8, <1>9, <1>10, <1>11 DEF Next, Child, Parent

(* The second invariant holds in every reachable state: what the runs of a *)
(* test have read and answered, and how far a lenient restore has come     *)
(* (reset_to_backup(), execute_get_changed_results()).                     *)
THEOREM TestsGoWell == Spec => []RInv
PROOF
  <1>1. Init => IInv /\ RInv
    BY InitInv, InitReal
  <1>2. (IInv /\ RInv) /\ [Next]_vars => (IInv /\ RInv)'
    BY NextInv, NextReal
  <1>3. IInv /\ RInv => RInv
    OBVIOUS
  <1> QED BY <1>1, <1>2, <1>3, PTL DEF Spec

(* One failure, of the server or of a call, never makes a logic bug of a   *)
(* DBMS that answers right (qcn_test() validates a difference once more).  *)
THEOREM LogicBugsAreReal == Spec => []ReportsAreReal
PROOF
  <1>1. RInv => ReportsAreReal
    BY DEF RInv
  <1> QED BY <1>1, TestsGoWell, PTL

-----------------------------------------------------------------------------
(***************************************************************************)
(* The statements a database is made of.                                   *)
(***************************************************************************)

(* One more statement.                                                     *)
LEMMA AfterHolds ==
  ASSUME NEW S, NEW d \in Seq(S), NEW x
  PROVE  /\ ToSet(d) \subseteq ToSet(After(d, x))
         /\ ToSet(After(d, x)) \subseteq ToSet(d) \cup {x}
         /\ x # "noop" => x \in ToSet(After(d, x))
PROOF
  <1>1. CASE x = "noop"
    BY <1>1 DEF After
  <1>2. CASE x # "noop"
    <2>1. After(d, x) = Append(d, x)
      BY <1>2 DEF After
    <2>2. /\ Len(d) \in Nat /\ DOMAIN d = 1..Len(d) /\ DOMAIN Append(d, x) = 1..(Len(d) + 1)
          /\ \A i \in 1..Len(d) : Append(d, x)[i] = d[i]
          /\ Append(d, x)[Len(d) + 1] = x
      OBVIOUS
    <2>3. \A i \in 1..(Len(d) + 1) : i \in 1..Len(d) \/ i = Len(d) + 1
      BY <2>2
    <2>4. Len(d) + 1 \in 1..(Len(d) + 1) /\ \A i \in 1..Len(d) : i \in 1..(Len(d) + 1)
      BY <2>2
    <2> QED BY <2>1, <2>2, <2>3, <2>4 DEF ToSet
  <1> QED BY <1>1, <1>2

(* A record makes a database of its statements, of all that change it.     *)
LEMMA ReplayHolds ==
  ASSUME NEW S, NEW r \in Seq(S)
  PROVE  /\ ToSet(Replay(r)) \subseteq ToSet(r)
         /\ \A x \in ToSet(r) : x # "noop" => x \in ToSet(Replay(r))
PROOF
  <1> DEFINE n == Len(r)
  <1>1. n \in Nat /\ DOMAIN r = 1..n
    OBVIOUS
  <1>2. PICK h \in [0..n -> Seq(S)] :
          /\ h[0] = <<>> /\ h[n] = Replay(r)
          /\ \A k \in 0..(n - 1) : h[k + 1] = After(h[k], r[k + 1])
    BY ReplayPrefixes
  <1> HIDE DEF n
  <1> DEFINE Upto(k) == {r[i] : i \in 1..k}
             Ok == {k \in Nat : k <= n => /\ ToSet(h[k]) \subseteq Upto(k)
                                          /\ \A x \in Upto(k) : x # "noop" => x \in ToSet(h[k])}
  <1>3. 0 \in Ok
    <2>1. ToSet(<<>>) = {} /\ Upto(0) = {}
      BY DEF ToSet
    <2> QED BY <1>2, <2>1
  <1>4. ASSUME NEW k \in Nat, k \in Ok PROVE k + 1 \in Ok
    <2> SUFFICES ASSUME k + 1 <= n
                 PROVE  /\ ToSet(h[k + 1]) \subseteq Upto(k + 1)
                        /\ \A x \in Upto(k + 1) : x # "noop" => x \in ToSet(h[k + 1])
      OBVIOUS
    <2>1. k <= n /\ k \in 0..(n - 1) /\ k \in 0..n
      BY <1>1
    <2>2. ToSet(h[k]) \subseteq Upto(k) /\ \A x \in Upto(k) : x # "noop" => x \in ToSet(h[k])
      BY <1>4, <2>1
    <2>3. h[k + 1] = After(h[k], r[k + 1]) /\ h[k] \in Seq(S)
      BY <1>2, <2>1
    <2>4. Upto(k + 1) = Upto(k) \cup {r[k + 1]}
      <3>1. \A i \in 1..(k + 1) : i \in 1..k \/ i = k + 1
        BY <1>4
      <3>2. k + 1 \in 1..(k + 1) /\ \A i \in 1..k : i \in 1..(k + 1)
        BY <1>4
      <3> QED BY <3>1, <3>2
    <2> HIDE DEF Upto
    <2>5. /\ ToSet(h[k]) \subseteq ToSet(h[k + 1])
          /\ ToSet(h[k + 1]) \subseteq ToSet(h[k]) \cup {r[k + 1]}
          /\ r[k + 1] # "noop" => r[k + 1] \in ToSet(h[k + 1])
      BY <2>3, AfterHolds
    <2> QED BY <2>2, <2>4, <2>5
  <1>5. n \in Ok
    <2> HIDE DEF Ok
    <2> QED BY <1>1, <1>3, <1>4, NatClosed
  <1>6. Upto(n) = ToSet(r)
    BY <1>1 DEF ToSet
  <1> HIDE DEF Upto
  <1> QED BY <1>1, <1>2, <1>5, <1>6

(* What is loaded of a file is of the file.                                *)
LEMMA ReloadsHold ==
  ASSUME TypeInv
  PROVE  ToSet(Reloads[Len(Backed)].d) \subseteq ToSet(Backed)
PROOF
  <1> DEFINE N == Len(Backed)
             Ok == {k \in Nat : k <= N => ToSet(Reloads[k].d) \subseteq ToSet(Backed)}
  <1>1. N \in Nat /\ \A k \in 0..N : Reloads[k] \in LoadStates
    BY ReloadsAre
  <1>2. 0 \in Ok
    <2>1. ToSet(<<>>) = {}
      BY DEF ToSet
    <2>2. Reloads[0].d = <<>>
      BY ReloadsAre DEF Loads0
    <2> QED BY <2>1, <2>2
  <1>3. ASSUME NEW k \in Nat, k \in Ok PROVE k + 1 \in Ok
    <2> SUFFICES ASSUME k + 1 <= N PROVE ToSet(Reloads[k + 1].d) \subseteq ToSet(Backed)
      OBVIOUS
    <2>1. k \in 0..(N - 1) /\ k \in 0..N /\ k + 1 \in 1..N /\ k <= N
      BY <1>1
    <2>2. /\ Reloads[k] \in LoadStates /\ Reloads[k + 1] = Reload(Reloads[k], Backed[k + 1])
          /\ Backed[k + 1] \in Names \ {"none", "cached"}
      BY <1>1, <2>1, ReloadsAre
    <2>3. ToSet(Reloads[k].d) \subseteq ToSet(Backed)
      BY <1>3, <2>1
    <2>4. Backed[k + 1] \in ToSet(Backed)
      <3>1. Backed \in Seq(Names \ {"none", "cached"})
        BY ReloadsAre
      <3>2. DOMAIN Backed = 1..N
        BY <3>1
      <3> QED BY <2>1, <3>2 DEF ToSet
    <2> DEFINE acc == Reloads[k]
               x == Backed[k + 1]
    <2>5. acc.d \in Seq(Marks)
      BY <2>2 DEF LoadStates
    <2> HIDE DEF Ok, N, acc, x
    <2>6. ToSet(After(acc.d, x)) \subseteq ToSet(acc.d) \cup {x}
      BY <2>5, AfterHolds
    <2>7. Reload(acc, x).d \in {acc.d, After(acc.d, x)}
      BY <2>2, ReloadTypes DEF acc, x
    <2> QED BY <2>2, <2>3, <2>4, <2>6, <2>7 DEF acc, x
  <1>4. N \in Ok
    <2> HIDE DEF Ok
    <2> QED BY <1>1, <1>2, <1>3, NatClosed
  <1> QED BY <1>1, <1>4

-----------------------------------------------------------------------------
(***************************************************************************)
(* A step of an operation.                                                 *)
(***************************************************************************)

(* What is tested stays the same.                                          *)
LEMMA SourceSame ==
  ASSUME UNCHANGED <<record, removed, queue>>
  PROVE  Source' = Source /\ Marked' = Marked
PROOF
  <1>1. Source' = Source
    BY DEF Source, Rec, Candidate, None
  <1> QED BY <1>1 DEF Marked

LEMMA SourceKept ==
  ASSUME IInv, Operation, phase \in Saved \cup {"backup"}
  PROVE  /\ UNCHANGED <<driver, record, removed, queue, test, culprit, child, phase, minimized>>
         /\ Source' = Source /\ Marked' = Marked /\ (Follows' <=> Follows)
PROOF
  <1>1. UNCHANGED <<driver, removed, queue, test, culprit, child, phase, minimized>>
    BY Moves DEF IInv, Operation
  <1>2. record' = record
    BY RecordMoves DEF IInv, Saved
  <1>3. Source' = Source /\ Marked' = Marked
    BY <1>1, <1>2, SourceSame
  <1> QED BY <1>1, <1>2, <1>3 DEF Follows, Dumping

(* The statements a step takes from a file are of what is tested.          *)
LEMMA FileOfSource ==
  ASSUME IInv, UpInv, FileInv, Follows, prog # <<>>, phase \in {"testing", "restore", "run", "m_feed", "m_backup"},
         prog[1].do \in {"replay_record", "replay_backup"},
         NEW k \in 1..Len(process_dbrecord_into_sqls(prog[1], File(prog[1])))
  PROVE  process_dbrecord_into_sqls(prog[1], File(prog[1]))[k].stmt \in Marked
PROOF
  <1> DEFINE s == prog[1]
             f == File(s)
             p == process_dbrecord_into_sqls(s, f)
  <1>1. TypeInv /\ ProgInv /\ BaseInv
    BY DEF IInv
  <1>2. s \in Steps /\ StepOk(s) /\ driver \in Drivers /\ phase = "restore" /\ child = "running"
    <2>1. s \in Steps /\ StepOk(s) /\ child = "running" /\ s.do # "return" /\ (Len(prog) > 1 => s.do \in Ops(phase))
      BY <1>1, AtStep
    <2>2. Len(prog) \in Nat /\ Len(prog) >= 1 /\ (Len(prog) = 1 => prog[1].do = "return")
      BY <1>1, AtStep
    <2>3. Len(prog) > 1
      BY <2>2
    <2> QED BY <1>1, <2>1, <2>3, OpsOf DEF TypeInv
  <1>3. test.kind # "select" /\ driver # "gaussdb" /\ (driver \in Dumping \/ removed = 0)
    BY <1>2 DEF UpInv, Follows
  <1>4. f \in (Seq(Names \ {"none", "cached"}) \cup {None})
    BY <1>1, FileTypes DEF File
  <1>5. f # None
    <2> SUFFICES ASSUME f = None PROVE FALSE
      OBVIOUS
    <2>1. p = <<>>
      BY DEF process_dbrecord_into_sqls
    <2> QED BY <2>1
  <1>6. Len(p) = Len(f) /\ \A j \in 1..Len(f) : p[j].stmt = f[j]
    BY <1>2, <1>4, <1>5, FilesFit
  <1>7. p[k].stmt \in ToSet(f)
    <2>1. DOMAIN f = 1..Len(f)
      BY <1>4, <1>5
    <2> HIDE DEF p, f
    <2> QED BY <1>6, <2>1 DEF ToSet, p, f, s
  <1>8. CASE s.do = "replay_record"
    <2>1. driver \in Recorded
      BY <1>2, <1>8 DEF StepOk, Sound
    <2>2. removed = 0
      BY <1>3, <2>1 DEF Recorded, Dumping
    <2>3. Source = f
      BY <1>5, <1>8, <2>2 DEF Source, Rec, File
    <2> QED BY <1>7, <2>3 DEF Marked, p, f, s
  <1>9. CASE s.do = "replay_backup"
    <2>1. driver \in Filing
      BY <1>2, <1>3, <1>9 DEF StepOk, Sound, Forgiving, Filing
    <2>2. OfSource(Backed)
      BY <1>2, <1>3, <2>1 DEF FileInv
    <2>3. Backed = f
      BY <1>5, <1>9 DEF Backed, File
    <2> QED BY <1>7, <2>2, <2>3 DEF OfSource, p, f, s
  <1> QED BY <1>8, <1>9 DEF s

(* A step keeps SourceInv.                                                 *)
LEMMA OperationSource ==
  ASSUME IInv, UpInv, SourceInv, FileInv, Operation PROVE SourceInv'
PROOF
  <1> SUFFICES ASSUME Follows', phase' \in {"testing", "restore", "run", "m_feed", "m_backup"}
               PROVE  /\ ToSet(db') \subseteq Marked'
                      /\ \A k \in 1..Len(prog') : prog'[k].do \in Writes => prog'[k].stmt \in Marked'
    BY DEF SourceInv, OfSource
  <1> DEFINE s == prog[1]
  <1>1. TypeInv /\ ProgInv
    BY DEF IInv
  <1>2. prog # <<>> /\ phase' = phase /\ child' = child
    BY <1>1, Moves
  <1>3. Follows /\ Marked' = Marked
    BY <1>2, SourceKept DEF Saved
  <1>4. ToSet(db) \subseteq Marked /\ \A k \in 1..Len(prog) : prog[k].do \in Writes => prog[k].stmt \in Marked
    BY <1>2, <1>3 DEF SourceInv, OfSource
  <1>5. Len(prog) \in Nat /\ Len(prog) >= 1
    BY <1>1, <1>2, AtStep
  <1>6. CASE Stops
    BY <1>3, <1>4, <1>6 DEF Stops
  <1>7. CASE Returns
    BY <1>3, <1>4, <1>7 DEF Returns
  <1>8. CASE Cuts
    <2>1. prog' = <<prog[Len(prog)]>> /\ db' = db /\ Len(prog) \in 1..Len(prog)
      BY <1>5, <1>8 DEF Cuts
    <2>2. Len(prog') = 1 /\ prog'[1] = prog[Len(prog)]
      BY <2>1
    <2> QED BY <1>3, <1>4, <2>1, <2>2
  <1>9. ASSUME NEW q, NEW m, Goes(q, m), Inserted(q), Does \/ Counts \/ Passes(m) \/ Creates \/ Unfolds
        PROVE  /\ ToSet(db') \subseteq Marked'
               /\ \A k \in 1..Len(prog') : prog'[k].do \in Writes => prog'[k].stmt \in Marked'
    <2>1. ASSUME NEW k \in 1..Len(prog'), prog'[k].do \in Writes PROVE prog'[k].stmt \in Marked
      <3>1. \/ k \in 1..Len(q) /\ prog'[k] = q[k]
            \/ \E i \in m..Len(prog) : prog'[k] = prog[i]
        BY <1>9, GoesShift
      <3>2. ASSUME NEW i \in m..Len(prog), prog'[k] = prog[i] PROVE prog'[k].stmt \in Marked
        <4>1. m \in 2..Len(prog)
          BY <1>9 DEF Goes
        <4>2. i \in 1..Len(prog)
          BY <1>5, <4>1
        <4> QED BY <1>4, <2>1, <3>2, <4>2
      <3>3. ASSUME k \in 1..Len(q), prog'[k] = q[k] PROVE prog'[k].stmt \in Marked
        <4>1. s.do \notin {"replay_record", "replay_backup"} => q[k].do \in Opens
          BY <1>1, <1>2, <1>9, <3>3, InsertedIs
        <4>2. s.do \in {"replay_record", "replay_backup"}
          <5>1. \A x \in Opens : x \notin Writes
            BY DEF Opens, Writes
          <5> QED BY <2>1, <3>3, <4>1, <5>1
        <4>3. s.do # "connect"
          BY <4>2
        <4>4. q # <<>>
          BY <3>3
        <4>5. q = process_dbrecord_into_sqls(prog[1], File(prog[1]))
          BY <1>9, <4>3, <4>4 DEF Inserted
        <4>6. q[k].stmt \in Marked
          BY <1>2, <1>3, <3>3, <4>2, <4>5, FileOfSource
        <4> QED BY <3>3, <4>6
      <3> QED BY <3>1, <3>2, <3>3
    <2>2. ToSet(db') \subseteq Marked
      <3>1. CASE Does
        <4>1. db' = Database(s) /\ s \in Steps /\ StepOk(s) /\ s.do \in Ops(phase) /\ 1 \in 1..Len(prog)
          <5>1. Len(prog) > 1
            BY <1>9, GoesShift
          <5> QED BY <1>1, <1>2, <3>1, <5>1, AtStep DEF Does
        <4>2. CASE db' \in {Absent, <<>>, db}
          <5>1. ToSet(Absent) = {"absent"} /\ ToSet(<<>>) = {}
            BY DEF ToSet, Absent
          <5> QED BY <1>4, <4>2, <5>1 DEF Marked
        <4>3. CASE s.do \in Writes
          <5>1. s.stmt \in Marked
            BY <1>4, <4>1, <4>3
          <5>2. db' = After(db, s.stmt)
            BY <4>1, <4>3 DEF Database, Writes
          <5>3. \E S : db \in Seq(S)
            <6>1. db \in Databases
              BY <1>1 DEF TypeInv
            <6>2. <<"absent">> \in Seq({"absent"})
              OBVIOUS
            <6> QED BY <6>1, <6>2 DEF Databases, Absent
          <5>4. ToSet(After(db, s.stmt)) \subseteq ToSet(db) \cup {s.stmt}
            BY <5>3, AfterHolds
          <5> QED BY <1>4, <5>1, <5>2, <5>4
        <4>4. CASE s.do = "copy_back"
          <5>1. driver = "sqlite" /\ phase = "restore"
            BY <1>2, <4>1, <4>4 DEF StepOk, Sound, Ops, Resets, Opens, Drops, Reads
          <5>2. OfSource(Backed)
            BY <1>3, <5>1 DEF FileInv, Follows, Filing, Dumping
          <5>3. db' = Backed
            BY <4>1, <4>4 DEF Database, Backed
          <5> QED BY <5>2, <5>3 DEF OfSource
        <4>5. s.do \in Writes \/ s.do = "copy_back" \/ db' \in {Absent, <<>>, db}
          BY <4>1 DEF Database, Writes, MissingIsCreated
        <4> QED BY <4>2, <4>3, <4>4, <4>5
      <3>2. CASE Counts \/ Passes(m) \/ Creates \/ Unfolds
        <4>1. db' = db
          BY <3>2 DEF Counts, Passes, Creates, Unfolds
        <4> QED BY <1>4, <4>1
      <3> QED BY <1>9, <3>1, <3>2
    <2> QED BY <1>3, <2>1, <2>2
  <1> QED BY <1>1, <1>6, <1>7, <1>8, <1>9, Moves

(* A step keeps FileInv.                                                   *)
LEMMA OperationFile ==
  ASSUME IInv, SourceInv, FileInv, Operation PROVE FileInv'
PROOF
  <1> DEFINE s == prog[1]
  <1> SUFFICES ASSUME child' = "running", driver' \in Filing, driver' \in Dumping \/ removed' = 0,
                      phase' \in {"testing", "restore", "run", "backup", "m_backup"}
               PROVE  /\ phase' \in {"testing", "restore", "run"} => ToSet(Backed') \subseteq Marked'
                      /\ phase' \in {"backup", "m_backup"} =>
                           \/ task' = "failed" \/ ToSet(Backed') \subseteq Marked'
                           \/ \E k \in 1..Len(prog') : prog'[k].do \in Files
    BY DEF FileInv, OfSource
  <1>1. TypeInv /\ ProgInv /\ RecordInv /\ BaseInv
    BY DEF IInv
  <1>2. prog # <<>> /\ phase' = phase
    BY <1>1, Moves
  <1>3. driver' = driver /\ child' = child /\ removed' = removed /\ Marked' = Marked /\ Source' = Source
    BY <1>2, SourceKept DEF Saved
  <1>4. Len(prog) \in Nat /\ Len(prog) >= 1 /\ s \in Steps /\ StepOk(s)
    BY <1>1, <1>2, AtStep
  <1>4a. Len(prog) = 1 \/ Len(prog) > 1
    <2>1. Len(prog) \in Nat /\ Len(prog) >= 1
      BY <1>4
    <2> HIDE DEF s
    <2> QED BY <2>1
  <1>5. ASSUME s.do \notin Files PROVE Backed' = Backed
    <2>1. backup' = backup
      <3>1. CASE Stops
        BY <1>5, <3>1 DEF Stops, Files
      <3>2. CASE Does
        BY <1>5, <3>2 DEF Does, Files
      <3>3. CASE ~Stops /\ ~Does
        BY <1>1, <3>3, Moves DEF Returns, Cuts, Passes, Creates, Unfolds, Counts
      <3> QED BY <3>1, <3>2, <3>3
    <2> QED BY <2>1 DEF Backed, None
  <1>6. CASE phase \in {"testing", "restore", "run"}
    <2>1. s.do \notin Files
      <3>1. Len(prog) = 1 => s.do = "return"
        BY <1>1, <1>2, AtStep
      <3>2. Len(prog) > 1 => s.do \in Ops(phase)
        BY <1>1, <1>2, AtStep
      <3>3. \A x \in Ops(phase) : x \notin Files
        BY <1>6 DEF Ops, Files, Restores, Resets, Opens, Reads, Drops
      <3>4. "return" \notin Files
        BY DEF Files
      <3> QED BY <1>4a, <3>1, <3>2, <3>3, <3>4
    <2>2. OfSource(Backed)
      BY <1>3, <1>6 DEF FileInv
    <2> QED BY <1>2, <1>3, <1>5, <1>6, <2>1, <2>2 DEF OfSource
  <1>7. CASE phase \in {"backup", "m_backup"}
    <2> SUFFICES \/ task' = "failed" \/ ToSet(Backed') \subseteq Marked
                 \/ \E k \in 1..Len(prog') : prog'[k].do \in Files
      BY <1>2, <1>3, <1>7
    <2>1. task = "save"
      BY <1>1, <1>2, <1>7, AtStep DEF TaskOf
    <2>2. OfSource(Backed) \/ \E k \in 1..Len(prog) : prog[k].do \in Files
      BY <1>3, <1>7, <2>1 DEF FileInv
    <2>3. s.do \in Files => Len(prog) > 1 /\ s.err = "plain"
      <3>1. Len(prog) = 1 => s.do = "return"
        BY <1>1, <1>2, AtStep
      <3>2. s.do \in Files => s.do # "return" /\ s.err = "plain"
        BY <1>4 DEF Files, StepOk, Sound
      <3> QED BY <1>4a, <3>1, <3>2
    <2>4. CASE Stops
      BY <2>4 DEF Stops
    <2>5. CASE Returns
      <3>1. Len(prog) = 1 /\ s.do = "return"
        BY <2>5 DEF Returns
      <3>2. \A k \in 1..Len(prog) : prog[k].do = "return"
        BY <3>1
      <3>3. s.do \notin Files /\ OfSource(Backed)
        BY <2>2, <3>1, <3>2 DEF Files
      <3> QED BY <1>5, <3>3 DEF OfSource
    <2>6. CASE Cuts
      <3>1. s.do = "if_backup" /\ Len(prog) > 1
        BY <2>6 DEF Cuts
      <3>2. s.do \in Ops(phase)
        BY <1>1, <1>2, <3>1, AtStep
      <3> QED BY <1>7, <3>1, <3>2 DEF Ops, Opens
    <2>7. ASSUME NEW q, NEW m, Goes(q, m), Does \/ Counts \/ Passes(m) \/ Creates \/ Unfolds
          PROVE  \/ ToSet(Backed') \subseteq Marked
                 \/ \E k \in 1..Len(prog') : prog'[k].do \in Files
      <3>1. CASE s.do \in Files
        <4>1. Does
          <5>1. ~Counts /\ ~Passes(m) /\ ~Creates /\ ~Unfolds
            BY <2>3, <3>1 DEF Files, Counts, Passes, Creates, Unfolds
          <5> QED BY <2>7, <5>1
        <4>2. backup' = IF s.do = "dump" THEN db ELSE record
          BY <3>1, <4>1 DEF Does, Files
        <4>3. CASE s.do = "dump"
          <5>1. driver \in Dumping /\ driver # "gaussdb"
            BY <1>4, <4>3 DEF StepOk, Sound, Dumping
          <5>2. Backed' = db \/ Backed' = <<>>
            BY <4>2, <4>3 DEF Backed
          <5>3. ToSet(<<>>) = {}
            BY DEF ToSet
          <5>4. CASE phase = "m_backup"
            <6>1. Follows
              BY <1>3, <5>1 DEF Follows
            <6>2. OfSource(db)
              BY <5>4, <6>1 DEF SourceInv
            <6> QED BY <5>2, <5>3, <6>2 DEF OfSource
          <5>5. CASE phase = "backup"
            <6>1. db = Replay(Rec) /\ removed = 0
              BY <1>1, <5>1, <5>5 DEF RecordInv, BaseInv, Generating
            <6>2. Rec \in Records
              BY <1>1, RecordTypes
            <6>3. ToSet(db) \subseteq ToSet(Rec)
              BY <6>1, <6>2, ReplayHolds DEF Records
            <6> QED BY <5>2, <5>3, <6>1, <6>3 DEF Marked, Source
          <5> QED BY <1>7, <5>4, <5>5
        <4>4. CASE s.do # "dump"
          <5>1. driver \notin Dumping
            BY <1>4, <3>1, <4>4 DEF StepOk, Sound, Files
          <5>2. removed = 0
            BY <1>3, <5>1
          <5>3. record' = record
            BY <1>2, <1>7, SourceKept DEF Saved
          <5>4. Backed' = Source
            BY <4>2, <4>4, <5>2 DEF Backed, Source, Rec
          <5> QED BY <5>4 DEF Marked
        <4> QED BY <4>3, <4>4
      <3>2. CASE s.do \notin Files
        <4>1. CASE OfSource(Backed)
          BY <1>5, <3>2, <4>1 DEF OfSource
        <4>2. CASE \E k \in 1..Len(prog) : prog[k].do \in Files
          <5>1. PICK k \in 1..Len(prog) : prog[k].do \in Files
            BY <4>2
          <5>2. k \in 2..Len(prog)
            <6>1. k # 1
              BY <3>2, <5>1
            <6> QED BY <1>4, <6>1
          <5>3. prog[k].do # "load"
            BY <5>1 DEF Files
          <5>4. \E j \in 1..Len(prog') : prog'[j] = prog[k]
            BY <2>7, <5>2, <5>3, GoesShift
          <5> QED BY <5>1, <5>4
        <4> QED BY <2>2, <4>1, <4>2
      <3> QED BY <3>1, <3>2
    <2> QED BY <1>1, <2>4, <2>5, <2>6, <2>7, Moves
  <1> QED BY <1>2, <1>6, <1>7

(* A step keeps EmptyInv: the reset still has its drop before it, or the   *)
(* database is empty.                                                      *)
LEMMA OperationEmpty ==
  ASSUME IInv, EmptyInv, Operation PROVE EmptyInv'
PROOF
  <1> DEFINE s == prog[1]
  <1> SUFFICES ASSUME child' = "running", driver' # "gaussdb", phase' = "m_reset"
               PROVE  \/ task' = "failed" \/ db' \in {Absent, <<>>}
                      \/ \E k \in 1..Len(prog') : prog'[k].do \in Drops
    BY DEF EmptyInv
  <1>1. TypeInv /\ ProgInv
    BY DEF IInv
  <1>2. prog # <<>> /\ driver # "gaussdb" /\ phase = "m_reset" /\ child = "running"
    BY <1>1, Moves
  <1>3. task # "failed" /\ Len(prog) \in Nat /\ Len(prog) >= 1 /\ s \in Steps /\ StepOk(s)
    BY <1>1, <1>2, AtStep DEF TaskOf
  <1>4. db \in {Absent, <<>>} \/ \E k \in 1..Len(prog) : prog[k].do \in Drops
    BY <1>2, <1>3 DEF EmptyInv
  <1>5. Len(prog) > 1 => s.do \in Resets
    BY <1>1, <1>2, AtStep DEF Ops
  <1> HIDE DEF s
  <1>6. CASE Stops
    BY <1>6 DEF Stops
  <1>7. CASE Returns
    <2>1. Len(prog) = 1 /\ s.do = "return" /\ db' = db
      BY <1>7 DEF Returns, s
    <2>2. \A k \in 1..Len(prog) : prog[k].do = "return"
      BY <2>1 DEF s
    <2> QED BY <1>4, <2>1, <2>2 DEF Drops
  <1>8. CASE Cuts
    <2>1. s.do = "if_backup" /\ Len(prog) > 1
      BY <1>8 DEF Cuts, s
    <2> QED BY <1>5, <2>1 DEF Resets, Opens, Drops
  <1>9. ASSUME NEW q, NEW m, Goes(q, m), Does \/ Counts \/ Passes(m) \/ Creates \/ Unfolds
        PROVE  db' \in {Absent, <<>>} \/ \E k \in 1..Len(prog') : prog'[k].do \in Drops
    <2>1. s.do \in Resets
      BY <1>5, <1>9, GoesShift
    <2>2. ASSUME NEW k \in 2..Len(prog), prog[k].do \in Drops
          PROVE  \E j \in 1..Len(prog') : prog'[j].do \in Drops
      <3>1. prog[k].do # "load"
        BY <2>2 DEF Drops
      <3>2. PICK j \in 1..Len(prog') : prog'[j] = prog[k]
        BY <1>9, <3>1, GoesShift
      <3> QED BY <2>2, <3>2
    <2>3. db \in {Absent, <<>>} \/ s.do \in Drops \/ \E k \in 2..Len(prog) : prog[k].do \in Drops
      <3>1. \A k \in 1..Len(prog) : k = 1 \/ k \in 2..Len(prog)
        BY <1>3
      <3> QED BY <1>4, <3>1 DEF s
    <2>4. CASE Does
      <3>1. db' = Database(s)
        BY <2>4 DEF Does, s
      <3>2. s.do \in Drops => db' = Absent
        BY <3>1 DEF Database, Drops
      <3>3. db \in {Absent, <<>>} => db' \in {Absent, <<>>}
        BY <2>1, <3>1 DEF Database, Resets, Opens, Drops, MissingIsCreated
      <3> QED BY <2>2, <2>3, <3>2, <3>3
    <2>5. CASE Passes(m) \/ Creates
      <3>1. db' = db /\ s.do \notin Drops
        BY <2>5 DEF Passes, Creates, Drops, s
      <3> QED BY <2>2, <2>3, <3>1
    <2>6. CASE Unfolds \/ Counts
      <3>1. s.do \in {"replay_record", "replay_backup", "insert"}
        BY <2>6 DEF Unfolds, Counts, s
      <3> QED BY <2>1, <3>1 DEF Resets, Opens, Drops
    <2> QED BY <1>9, <2>4, <2>5, <2>6
  <1> QED BY <1>1, <1>6, <1>7, <1>8, <1>9, Moves

LEMMA OperationSees ==
  ASSUME IInv, UpInv, SInv, Operation PROVE SInv'
PROOF
  <1>1. SourceInv' /\ FileInv' /\ EmptyInv'
    BY OperationSource, OperationFile, OperationEmpty DEF SInv
  <1>2. UNCHANGED <<driver, child, removed, queue, test, culprit, minimized>>
    BY Moves DEF IInv, Operation
  <1>3. BugInv'
    BY <1>2 DEF SInv, BugInv, Dumping
  <1> QED BY <1>1, <1>3 DEF SInv

-----------------------------------------------------------------------------
(***************************************************************************)
(* The operations of the child that start one.                             *)
(***************************************************************************)

(* A program that is started has the steps of q, and returns.              *)
LEMMA StartSteps ==
  ASSUME NEW q \in Seq(Steps), prog' = q \o <<Throws("return")>>
  PROVE  /\ \A k \in 1..Len(prog') : (k \in 1..Len(q) /\ prog'[k] = q[k]) \/ prog'[k].do = "return"
         /\ \A k \in 1..Len(q) : k \in 1..Len(prog') /\ prog'[k] = q[k]
PROOF
  <1> DEFINE r == Throws("return")
  <1>1. r \in Steps /\ r.do = "return"
    BY StepTypes, StepKinds, Operations
  <1>2. prog' = q \o <<r>>
    OBVIOUS
  <1> HIDE DEF r
  <1>3. <<r>> \in Seq(Steps) /\ Len(<<r>>) = 1 /\ <<r>>[1] = r /\ 1 \in 1..Len(<<r>>)
    BY <1>1
  <1>4. /\ Len(q) \in Nat /\ Len(prog') = Len(q) + 1
        /\ \A k \in 1..Len(q) : prog'[k] = q[k]
        /\ prog'[Len(q) + 1] = r
    BY <1>2, <1>3, Glued
  <1>5. \A k \in 1..Len(prog') : k \in 1..Len(q) \/ k = Len(q) + 1
    BY <1>4
  <1>6. \A k \in 1..Len(q) : k \in 1..Len(prog')
    BY <1>4
  <1> QED BY <1>1, <1>4, <1>5, <1>6

(* It writes statements of what is tested if q does.                       *)
LEMMA SourceBegins ==
  ASSUME NEW q \in Seq(Steps), prog' = q \o <<Throws("return")>>, db' = db, Marked' = Marked, OfSource(db),
         \A k \in 1..Len(q) : q[k].do \in Writes => q[k].stmt \in Marked
  PROVE  SourceInv'
PROOF
  <1>1. ToSet(db') \subseteq Marked'
    BY DEF OfSource
  <1>2. \A k \in 1..Len(prog') : prog'[k].do \in Writes => prog'[k].stmt \in Marked'
    <2>1. "return" \notin Writes
      BY DEF Writes
    <2> QED BY <2>1, StartSteps
  <1> QED BY <1>1, <1>2 DEF SourceInv, OfSource

(* A query is run: nothing is written, but what a restore takes from files.*)
LEMMA ExecuteWrites ==
  ASSUME driver \in Drivers, NEW kind, Execute(kind)
  PROVE  /\ phase' \in {"run", "restore"} /\ UNCHANGED <<driver, db, backup>>
         /\ \E q \in Seq(Steps) : prog' = q \o <<Throws("return")>> /\ \A k \in 1..Len(q) : q[k].do \notin Writes
PROOF
  <1> DEFINE A == Doings \ Writes
  <1>1. "tables" \in A /\ Opens \subseteq A /\ Restores \ {"apply", "load"} \subseteq A /\ "query" \in A
    BY DEF Doings, Writes, Restores, Resets, Opens, Drops, Reads
  <1> HIDE DEF A
  <1>2. Good(D.conn.open, A) /\ Good(D.test.settings, A) /\ Good(D.life.restore, A)
    <2>1. Good(D.conn.open, Opens) /\ Good(D.test.settings, {"set"}) /\ Good(D.life.restore, Restores \ {"apply", "load"})
      BY Programs DEF ProgramsOk, OpenOk, CallOk, RestoreOk
    <2>2. {"set"} \subseteq A
      BY <1>1 DEF Opens
    <2> QED BY <1>1, <2>1, <2>2, GoodMore
  <1>3. Good(<<Statement("query", "none")>>, A)
    <2>1. "none" \in Names
      BY DEF Names
    <2>2. /\ Statement("query", "none") \in Steps /\ StepOk(Statement("query", "none"))
          /\ Statement("query", "none").do = "query"
          /\ Statement("query", "none").err \notin OfSchema
      BY <2>1, StatementFits
    <2> QED BY <1>1, <2>2, GoodOne
  <1>4. CASE kind = "select"
    <2> DEFINE p == D.test.settings \o <<Statement("query", "none")>>
    <2>1. Good(D.conn.open \o p, A)
      BY <1>2, <1>3, GoodConcat
    <2>2. phase' = "run" /\ prog' = (D.conn.open \o p) \o <<Throws("return")>> /\ UNCHANGED <<driver, db, backup>>
      BY <1>4 DEF Execute, NewDut, Call, dbUntouched
    <2> HIDE DEF p
    <2> QED BY <2>1, <2>2 DEF Good, A
  <1>5. CASE kind # "select"
    <2>1. Good(D.conn.open \o D.life.restore, A)
      BY <1>2, GoodConcat
    <2>2. /\ phase' = "restore" /\ prog' = (D.conn.open \o D.life.restore) \o <<Throws("return")>>
          /\ UNCHANGED <<driver, db, backup>>
      BY <1>5 DEF Execute, NewDut, Call, dbUntouched
    <2> QED BY <2>1, <2>2 DEF Good, A
  <1> QED BY <1>4, <1>5

LEMMA ExecuteSees ==
  ASSUME IInv, SInv, NEW kind, Execute(kind), child = "running", child' = "running", prog = <<>>,
         phase \in {"testing", "restore", "run"} \/ (phase = "m_backup" /\ task # "failed"),
         UNCHANGED <<record, removed, queue, culprit>>, test'.kind = test.kind \/ removed = 0
  PROVE  SInv'
PROOF
  <1>1. driver \in Drivers
    BY DEF IInv, TypeInv
  <1>2. phase' \in {"run", "restore"} /\ UNCHANGED <<driver, db, backup>>
    BY <1>1, ExecuteWrites
  <1>3. PICK q \in Seq(Steps) : prog' = q \o <<Throws("return")>> /\ \A k \in 1..Len(q) : q[k].do \notin Writes
    BY <1>1, ExecuteWrites
  <1>4. Marked' = Marked
    BY SourceSame
  <1>5. SourceInv'
    <2>1. CASE Follows'
      <3>1. Follows
        BY <1>2, <2>1 DEF Follows
      <3>2. OfSource(db)
        BY <3>1 DEF SInv, SourceInv
      <3> QED BY <1>2, <1>3, <1>4, <3>2, SourceBegins
    <2>2. CASE ~Follows'
      BY <2>2 DEF SourceInv
    <2> QED BY <2>1, <2>2
  <1>6. FileInv'
    <2> SUFFICES ASSUME driver' \in Filing, driver' \in Dumping \/ removed' = 0 PROVE OfSource(Backed)'
      BY <1>2 DEF FileInv
    <2>1. driver \in Filing /\ (driver \in Dumping \/ removed = 0) /\ ~(\E k \in 1..Len(prog) : prog[k].do \in Files)
      BY <1>2
    <2>2. OfSource(Backed)
      BY <2>1 DEF SInv, FileInv
    <2>3. Backed' = Backed
      BY <1>2 DEF Backed, None
    <2> QED BY <1>4, <2>2, <2>3 DEF OfSource
  <1>7. EmptyInv'
    BY <1>2 DEF EmptyInv
  <1>8. BugInv'
    BY <1>2 DEF SInv, BugInv, Dumping
  <1> QED BY <1>5, <1>6, <1>7, <1>8 DEF SInv

(* NextTest keeps the invariant.                                           *)
LEMMA NextTestSees ==
  ASSUME IInv, SInv, NextTest PROVE SInv'
PROOF
  <1>1. PICK k \in Kinds : Execute(k)
    BY DEF NextTest
  <1>2. /\ child = "running" /\ child' = "running" /\ prog = <<>> /\ phase = "testing"
        /\ UNCHANGED <<record, removed, queue, culprit>>
    BY DEF NextTest
  <1>3. removed = 0
    BY <1>2 DEF IInv, BaseInv
  <1> QED BY <1>1, <1>2, <1>3, ExecuteSees

(* So do the actions that run a query of the test again.                   *)
LEMMA RunsSee ==
  ASSUME IInv, UpInv, SInv, NextRun \/ AnotherQuery \/ TestAgain PROVE SInv'
PROOF
  <1>1. /\ child = "running" /\ child' = "running" /\ prog = <<>> /\ Execute(test.kind)
        /\ phase \in {"restore", "run"} \/ (phase = "m_backup" /\ task # "failed")
        /\ UNCHANGED <<record, removed, queue, culprit>>
    BY DEF NextRun, AnotherQuery, TestAgain, Returned, Threw, testSame, minSame
  <1>2. test'.kind = test.kind
    <2>1. "kind" \in DOMAIN test
      BY DEF IInv, TypeInv
    <2>2. \/ test' = [Measured EXCEPT !.run = Following(test.run), !.start = db]
          \/ test' = [test EXCEPT !.start = db]
          \/ test' = [NoTest EXCEPT !.kind = test.kind, !.run = "orig", !.start = db]
      BY DEF NextRun, AnotherQuery, TestAgain
    <2>3. /\ [test EXCEPT !.start = db].kind = test.kind
          /\ \A r : [Measured EXCEPT !.run = r, !.start = db].kind = test.kind
          /\ \A k : [NoTest EXCEPT !.kind = k, !.run = "orig", !.start = db].kind = k
      BY <2>1, TestKept
    <2>4. [Measured EXCEPT !.run = Following(test.run), !.start = db].kind = test.kind
      BY <2>3
    <2>5. [NoTest EXCEPT !.kind = test.kind, !.run = "orig", !.start = db].kind = test.kind
      BY <2>3
    <2> QED BY <2>2, <2>3, <2>4, <2>5
  <1> QED BY <1>1, <1>2, ExecuteSees

(* A change is run on the restored database: it writes but its own row.    *)
LEMMA ChangeWrites ==
  ASSUME driver \in Drivers
  PROVE  LET q == <<D.life.content>> \o D.test.settings \o <<Statement("write", "w"), D.life.content>>
         IN  q \in Seq(Steps) /\ \A k \in 1..Len(q) : q[k].do \in Writes => q[k].stmt = "w"
PROOF
  <1> DEFINE s == Statement("write", "w")
             c == D.life.content
             p == D.test.settings
             a == <<c>> \o p
             b == <<s, c>>
             q == a \o b
  <1>1. /\ c \in Steps /\ c.do = "content" /\ c.do \notin Writes
        /\ p \in Seq(Steps) /\ \A k \in 1..Len(p) : p[k].do \notin Writes
    BY Programs DEF ProgramsOk, CallOk, Good, Writes
  <1>2. s \in Steps /\ s.stmt = "w"
    <2>1. "w" \in Names
      BY DEF Names
    <2> QED BY <2>1, StatementFits
  <1> HIDE DEF s, c, p
  <1>3. a \in Seq(Steps) /\ \A k \in 1..Len(a) : a[k].do \notin Writes
    <2>1. <<c>> \in Seq(Steps) /\ Len(<<c>>) = 1 /\ <<c>>[1] = c /\ \A k \in 1..1 : k = 1
      BY <1>1
    <2>2. /\ a \in Seq(Steps) /\ Len(a) = 1 + Len(p) /\ Len(p) \in Nat
          /\ \A k \in 1..1 : a[k] = <<c>>[k]
          /\ \A k \in 2..(1 + Len(p)) : a[k] = p[k - 1]
      BY <1>1, <2>1, Glued
    <2>3. \A k \in 1..Len(a) : k \in 1..1 \/ (k \in 2..(1 + Len(p)) /\ k - 1 \in 1..Len(p))
      BY <2>2
    <2> QED BY <1>1, <2>1, <2>2, <2>3
  <1>4. b \in Seq(Steps) /\ Len(b) = 2 /\ b[1] = s /\ b[2] = c
    BY <1>1, <1>2
  <1> HIDE DEF a, b
  <1>5. /\ q \in Seq(Steps) /\ Len(q) = Len(a) + 2 /\ Len(a) \in Nat
        /\ \A k \in 1..Len(a) : q[k] = a[k]
        /\ \A k \in (Len(a) + 1)..(Len(a) + 2) : q[k] = b[k - Len(a)]
    BY <1>3, <1>4, Glued
  <1>6. \A k \in 1..Len(q) : k \in 1..Len(a) \/ (k \in (Len(a) + 1)..(Len(a) + 2) /\ k - Len(a) \in {1, 2})
    BY <1>5
  <1> HIDE DEF q
  <1>7. \A k \in 1..Len(q) : q[k].do \in Writes => q[k].stmt = "w"
    BY <1>1, <1>2, <1>3, <1>4, <1>5, <1>6
  <1> QED BY <1>5, <1>7 DEF q, a, b, s, c, p

(* ChangeRestored keeps the invariant.                                     *)
LEMMA ChangeRestoredSees ==
  ASSUME IInv, SInv, ChangeRestored PROVE SInv'
PROOF
  <1> DEFINE q == <<D.life.content>> \o D.test.settings \o <<Statement("write", "w"), D.life.content>>
  <1>1. /\ child = "running" /\ child' = "running" /\ prog = <<>> /\ phase = "restore" /\ phase' = "run"
        /\ prog' = q \o <<Throws("return")>>
        /\ UNCHANGED <<driver, db, backup, record, removed, queue, culprit>>
        /\ test' = [test EXCEPT !.start = db]
    BY DEF ChangeRestored, Returned, SameDut, Call, dbUntouched, testSame
  <1>2. test'.kind = test.kind /\ driver \in Drivers
    BY <1>1, TestKept DEF IInv, TypeInv
  <1>3. q \in Seq(Steps) /\ \A k \in 1..Len(q) : q[k].do \in Writes => q[k].stmt = "w"
    BY <1>2, ChangeWrites
  <1> HIDE DEF q
  <1>4. Marked' = Marked /\ "w" \in Marked
    BY <1>1, SourceSame DEF Marked
  <1>5. SourceInv'
    <2>1. CASE Follows
      <3>1. OfSource(db)
        BY <1>1, <2>1 DEF SInv, SourceInv
      <3> QED BY <1>1, <1>3, <1>4, <3>1, SourceBegins
    <2>2. CASE ~Follows
      BY <1>1, <1>2, <2>2 DEF Follows, SourceInv, Dumping
    <2> QED BY <2>1, <2>2
  <1>6. FileInv'
    <2>1. Backed' = Backed
      BY <1>1 DEF Backed, None
    <2> QED BY <1>1, <1>4, <2>1 DEF SInv, FileInv, OfSource, Filing, Dumping
  <1>7. EmptyInv' /\ BugInv'
    BY <1>1, <1>2 DEF SInv, EmptyInv, BugInv, Dumping
  <1> QED BY <1>5, <1>6, <1>7 DEF SInv

(* The schema is loaded for the testers.                                   *)
LEMMA TestingSees ==
  ASSUME IInv, SInv, loadSchema("testing"), child = "running", child' = "running", prog = <<>>,
         phase = "testing" \/ (phase = "backup" /\ task = "none"),
         UNCHANGED <<removed, queue, culprit>>
  PROVE  SInv'
PROOF
  <1>1. /\ phase' = "testing" /\ UNCHANGED <<record, driver, db, backup>>
        /\ prog' = LoadSchema \o <<Throws("return")>>
    BY DEF loadSchema, Call, dbUntouched
  <1>2. driver \in Drivers /\ removed = 0 /\ removed' = 0
    BY DEF IInv, TypeInv, BaseInv, Generating
  <1>3. Marked' = Marked
    BY <1>1, SourceSame
  <1>4. LoadSchema \in Seq(Steps) /\ \A k \in 1..Len(LoadSchema) : LoadSchema[k].do \notin Writes
    <2>1. Good(LoadSchema, Opens \cup Reads)
      BY <1>2, LoadSchemaFits
    <2>2. \A x \in Opens \cup Reads : x \notin Writes
      BY DEF Opens, Reads, Writes
    <2> QED BY <2>1, <2>2 DEF Good
  <1>5. ASSUME driver # "gaussdb" PROVE OfSource(db)
    <2>1. CASE phase = "testing"
      BY <1>2, <1>5, <2>1 DEF SInv, SourceInv, Follows
    <2>2. CASE phase = "backup"
      <3>1. db = Replay(Rec) /\ Rec \in Records
        BY <1>5, <2>2, RecordTypes DEF IInv, RecordInv, Generating
      <3>2. ToSet(db) \subseteq ToSet(Rec)
        BY <3>1, ReplayHolds DEF Records
      <3> QED BY <1>2, <3>2 DEF OfSource, Marked, Source
    <2> QED BY <2>1, <2>2
  <1>6. SourceInv'
    <2>1. CASE driver # "gaussdb"
      BY <1>1, <1>3, <1>4, <1>5, <2>1, SourceBegins
    <2>2. CASE driver = "gaussdb"
      BY <1>1, <2>2 DEF SourceInv, Follows
    <2> QED BY <2>1, <2>2
  <1>7. FileInv'
    <2>1. Backed' = Backed
      BY <1>1 DEF Backed, None
    <2>2. driver \in Filing => OfSource(Backed)
      <3>1. ~(\E k \in 1..Len(prog) : prog[k].do \in Files)
        OBVIOUS
      <3> QED BY <1>2, <3>1 DEF SInv, FileInv
    <2> QED BY <1>1, <1>3, <2>1, <2>2 DEF FileInv, OfSource, Filing
  <1>8. EmptyInv' /\ BugInv'
    BY <1>1, <1>2 DEF SInv, EmptyInv, BugInv
  <1> QED BY <1>6, <1>7, <1>8 DEF SInv

(* What backup() does for the drivers whose backup is a file.              *)
LEMMA BackupFiles ==
  ASSUME driver \in Filing
  PROVE  \E k \in 1..Len(D.life.backup) : D.life.backup[k].do \in Files
PROOF
  <1>1. D.life.backup = <<Throws("dump")>> \/ D.life.backup = <<Throws("copy_record")>>
    BY Setup DEF Filing, D, mysql_life, tidb_life, sqlite_life, pqxx_life
  <1>2. \A op : Len(<<Throws(op)>>) = 1 /\ <<Throws(op)>>[1].do = op
    BY StepKinds
  <1>3. 1 \in 1..1
    OBVIOUS
  <1> QED BY <1>1, <1>2, <1>3 DEF Files

(* The actions that generate a database keep the invariant.                *)
LEMMA GeneratingSees ==
  ASSUME IInv, SInv, NextStatement \/ Retry PROVE SInv'
PROOF
  <1>1. child = "running" /\ child' = "running" /\ prog = <<>> /\ UNCHANGED <<removed, queue, culprit>>
    BY DEF NextStatement, Retry, Returned, Threw, genSame
  <1>2. \/ phase' \in {"ddl", "dml", "schema"} /\ phase \in {"reset"} \cup Generating
        \/ dut_backup /\ phase \in {"reset"} \cup Generating
        \/ phase = "testing" /\ loadSchema("testing")
    <2>1. CASE NextStatement
      BY <2>1 DEF NextStatement, interect_test, normal_test, loadSchema, Generating
    <2>2. CASE Retry
      <3> DEFINE c == IF exn = "expected" THEN "schema" ELSE phase
      <3>1. c \in Counters /\ try_time[c] < MaxTry
        BY <2>2 DEF Retry
      <3>2. phase \in {"ddl", "dml", "schema", "testing"}
        <4>1. CASE exn = "expected"
          <5>1. try_time["schema"] \in Nat
            BY DEF IInv, TypeInv, Counters
          <5>2. ~(try_time["schema"] >= MaxTry)
            BY <3>1, <4>1, <5>1, EetAssumption
          <5> QED BY <4>1, <5>2 DEF IInv, ExnInv
        <4>2. CASE exn # "expected"
          BY <3>1, <4>2 DEF Counters
        <4> QED BY <4>1, <4>2
      <3>3. \/ phase = "ddl" /\ interect_test
            \/ phase = "dml" /\ normal_test
            \/ phase = "schema" /\ loadSchema("schema")
            \/ phase = "testing" /\ loadSchema("testing")
        BY <2>2, <3>2 DEF Retry
      <3> QED BY <3>3 DEF interect_test, normal_test, loadSchema, Generating
    <2> QED BY <2>1, <2>2
  <1>3. CASE phase = "testing" /\ loadSchema("testing")
    BY <1>1, <1>3, TestingSees
  <1>4. ASSUME phase' \in {"ddl", "dml", "schema"} \/ dut_backup, phase \in {"reset"} \cup Generating
        PROVE  SInv'
    <2>1. removed' = 0 /\ phase' \in {"ddl", "dml", "schema", "backup"}
      BY <1>1, <1>4 DEF IInv, BaseInv, dut_backup
    <2>2. SourceInv' /\ EmptyInv' /\ BugInv'
      BY <1>1, <2>1 DEF SInv, SourceInv, EmptyInv, BugInv
    <2>3. FileInv'
      <3>1. CASE phase' # "backup"
        BY <2>1, <3>1 DEF FileInv
      <3>2. CASE dut_backup /\ driver \in Filing
        <4> DEFINE p == D.conn.open
                   b == D.life.backup
        <4>1. driver \in Drivers /\ prog' = (p \o b) \o <<Throws("return")>>
          BY <3>2 DEF IInv, TypeInv, dut_backup, NewDut, Call
        <4>2. p \in Seq(Steps) /\ b \in Seq(Steps)
          BY <4>1, Programs DEF ProgramsOk, OpenOk, BackupOk, Good
        <4>3. PICK k \in 1..Len(b) : b[k].do \in Files
          BY <3>2, BackupFiles
        <4> HIDE DEF p, b
        <4>4. p \o b \in Seq(Steps) /\ (p \o b)[Len(p) + k] = b[k] /\ Len(p) + k \in 1..Len(p \o b)
          <5>1. /\ p \o b \in Seq(Steps) /\ (p \o b)[Len(p) + k] = b[k]
                /\ Len(p \o b) = Len(p) + Len(b) /\ Len(p) \in Nat /\ Len(b) \in Nat
            BY <4>2, Glued
          <5> QED BY <5>1
        <4>5. prog'[Len(p) + k] = (p \o b)[Len(p) + k] /\ Len(p) + k \in 1..Len(prog')
          BY <4>1, <4>4, StartSteps
        <4> QED BY <2>1, <3>2, <4>3, <4>4, <4>5 DEF FileInv
      <3>3. CASE dut_backup /\ driver \notin Filing
        <4>1. driver' = driver
          BY <3>3 DEF dut_backup, NewDut, dbUntouched
        <4> QED BY <3>3, <4>1 DEF FileInv, Filing
      <3> QED BY <1>4, <2>1, <3>1, <3>2, <3>3
    <2> QED BY <2>2, <2>3 DEF SInv
  <1> QED BY <1>2, <1>3, <1>4

LEMMA BootSees ==
  ASSUME IInv, SInv, Generate \/ GiveUp \/ GenerateAgain PROVE SInv'
PROOF
  <1>1. /\ child' = "running" /\ UNCHANGED <<removed, queue, culprit>> /\ phase' \in {"boot", "reset"}
        /\ phase \in {"boot", "reset", "ddl", "schema", "dml", "backup"}
    BY DEF Generate, GiveUp, GenerateAgain, Threw, genSame
  <1>2. removed = 0
    BY <1>1 DEF IInv, BaseInv, Generating
  <1> QED BY <1>1, <1>2 DEF SInv, SourceInv, FileInv, EmptyInv, BugInv

(* A test that found nothing is over.                                      *)
LEMMA TestPassedSees ==
  ASSUME IInv, SInv, TestPassed PROVE SInv'
PROOF
  <1>1. /\ removed = 0 /\ phase \in {"restore", "run"} /\ phase' = "testing" /\ prog = <<>>
        /\ UNCHANGED <<driver, db, backup, prog, record, removed, queue, culprit, child>>
    BY DEF TestPassed, NoBugSeen, Returned, Threw, testSame
  <1>2. child = "running"
    BY DEF TestPassed, NoBugSeen, Returned, Threw
  <1>3. Marked' = Marked /\ Backed' = Backed
    BY <1>1, SourceSame DEF Backed, None
  <1>4. SourceInv'
    <2>1. Follows' => Follows /\ ToSet(db') = ToSet(db)
      BY <1>1 DEF Follows
    <2> QED BY <1>1, <1>3, <2>1 DEF SInv, SourceInv, OfSource
  <1>5. FileInv'
    BY <1>1, <1>3 DEF SInv, FileInv, OfSource, Filing, Dumping
  <1>6. EmptyInv' /\ BugInv'
    BY <1>1, <1>2 DEF SInv, EmptyInv, BugInv
  <1> QED BY <1>4, <1>5, <1>6 DEF SInv

-----------------------------------------------------------------------------
(***************************************************************************)
(* The reduction.                                                          *)
(***************************************************************************)

(* A reset empties the database before anything else is done with it.      *)
LEMMA ResetSees ==
  ASSUME IInv, NewDut("run", D.life.reset), phase' = "m_reset", BugInv' PROVE SInv'
PROOF
  <1> DEFINE p == D.conn.open
             b == D.life.reset
  <1>1. driver \in Drivers /\ driver' = driver /\ prog' = (p \o b) \o <<Throws("return")>>
    BY DEF IInv, TypeInv, NewDut, Call, dbUntouched
  <1>2. p \in Seq(Steps) /\ b \in Seq(Steps) /\ (driver # "gaussdb" => HasDrop(b))
    BY <1>1, Programs DEF ProgramsOk, OpenOk, ResetOk, Good
  <1> HIDE DEF p, b
  <1>3. EmptyInv'
    <2> SUFFICES ASSUME driver # "gaussdb" PROVE \E k \in 1..Len(prog') : prog'[k].do \in Drops
      BY <1>1 DEF EmptyInv
    <2>1. PICK k \in 1..Len(b) : b[k].do \in Drops
      BY <1>2 DEF HasDrop
    <2>2. p \o b \in Seq(Steps) /\ (p \o b)[Len(p) + k] = b[k] /\ Len(p) + k \in 1..Len(p \o b)
      <3>1. /\ p \o b \in Seq(Steps) /\ (p \o b)[Len(p) + k] = b[k]
            /\ Len(p \o b) = Len(p) + Len(b) /\ Len(p) \in Nat /\ Len(b) \in Nat
        BY <1>2, Glued
      <3> QED BY <3>1
    <2>3. prog'[Len(p) + k] = (p \o b)[Len(p) + k] /\ Len(p) + k \in 1..Len(prog')
      BY <1>1, <2>2, StartSteps
    <2> QED BY <2>1, <2>2, <2>3
  <1>4. SourceInv' /\ FileInv'
    BY DEF SourceInv, FileInv
  <1> QED BY <1>3, <1>4 DEF SInv

(* The schema is loaded for the testers.                                   *)
LEMMA GeneratedSees ==
  ASSUME IInv, SInv, Generated PROVE SInv'
PROOF
  <1>1. /\ child = "running" /\ child' = "running" /\ prog = <<>> /\ phase = "backup" /\ task = "none"
        /\ loadSchema("testing") /\ UNCHANGED <<removed, queue, culprit>>
    BY DEF Generated, Returned, genSame
  <1> QED BY <1>1, TestingSees

(* What a statement of the tested database is.                             *)
LEMMA SourceTypes ==
  ASSUME TypeInv, BaseInv, child = "running" PROVE ToSet(Source) \subseteq ToSet(Stmts) \cup {"noop"}
PROOF
  <1>1. Rec \in Records
    BY RecordTypes
  <1>2. removed # 0 => Candidate \in Records
    <2> SUFFICES ASSUME removed # 0 PROVE Candidate \in Records
      OBVIOUS
    <2>1. queue \in Records /\ removed \in 0..Len(Stmts) /\ removed <= Len(queue)
      BY DEF TypeInv, BaseInv
    <2>2. Len(queue) \in Nat
      BY <2>1 DEF Records
    <2>3. removed \in 1..Len(queue)
      BY <2>1, <2>2
    <2> QED BY <2>1, <2>3, CandidateFits
  <1>3. Source \in Records
    BY <1>1, <1>2 DEF Source
  <1>4. \A X : \A r \in Seq(X) : ToSet(r) \subseteq X
    BY DEF ToSet
  <1> QED BY <1>3, <1>4 DEF Records

(* A bug that is seen is due to a statement of the tested database.        *)
LEMMA BugIsDue ==
  ASSUME IInv, RInv, SInv, BugSeen, driver # "gaussdb",
         test.kind = "select" \/ (driver \in Dumping /\ MaxFaults =< 1)
  PROVE  culprit \in ToSet(Source)
PROOF
  <1>1. /\ child = "running" /\ prog = <<>> /\ task = "none" /\ phase = "run" /\ test.run = "vqit"
        /\ Measured.orig # Measured.qit
    BY DEF BugSeen, Returned, Differs
  <1>2. DOMAIN test = DOMAIN NoTest /\ TypeInv /\ BaseInv /\ MakerInv
    BY DEF RInv, UpInv, IInv
  <1>3. Measured.qit = Answer("qit") /\ Measured.orig = test.orig
    BY <1>1, <1>2, TestParts DEF Side
  <1>4. culprit \in Marked => culprit \in ToSet(Source)
    <2>1. culprit \in {"none"} \cup ToSet(Stmts)
      BY DEF SInv, BugInv
    <2>2. culprit \notin {"absent", "noop", "w"}
      BY <2>1, NamesAssumption
    <2> QED BY <2>2 DEF Marked
  <1>5. CASE test.kind = "select"
    <2>1. OfSource(db)
      BY <1>1, <1>5 DEF SInv, SourceInv, Follows
    <2>2. test.start = db /\ db # Absent
      BY <1>1, <1>5 DEF RInv, SelectInv
    <2>3. ASSUME ~Shows(db) PROVE FALSE
      <3>1. test.orig = <<db, <<"right">>>>
        BY <1>1, <1>5, <2>3 DEF RInv, SelectInv
      <3>2. Answer("qit") = <<db, <<"right">>>>
        BY <1>1, <1>5, <2>2, <2>3, SelectAnswer
      <3> QED BY <1>1, <1>3, <3>1, <3>2
    <2> QED BY <1>4, <2>1, <2>3 DEF Shows, OfSource
  <1>6. CASE test.kind # "select"
    <2>1. driver \in Filing /\ MaxFaults =< 1 /\ driver \in Dumping
      BY <1>6 DEF Filing, Dumping
    <2>2. OfSource(Backed)
      BY <1>1, <2>1 DEF SInv, FileInv
    <2>3. OfSource(Restored)
      <3>1. CASE driver \in Forgiving
        BY <1>2, <2>2, <3>1, ReloadsHold DEF Restored, OfSource
      <3>2. CASE driver \notin Forgiving
        <4>1. driver = "sqlite"
          BY <2>1, <3>2 DEF Filing, Forgiving
        <4>2. base # None
          BY <1>1, <1>2 DEF BaseInv
        <4>3. backup = base
          BY <1>1, <4>1, <4>2 DEF IInv, CopyInv
        <4> QED BY <2>2, <3>2, <4>2, <4>3 DEF Restored, Backed
      <3> QED BY <3>1, <3>2
    <2>4. ASSUME ~Shows(Restored) PROVE FALSE
      <3>1. faults = 0 /\ test.orig = Clean
        BY <1>1, <1>6, <2>1, <2>4 DEF RInv, RunsInv, Validating
      <3>2. Calm
        BY <1>1, <2>1, <2>4, <3>1 DEF Calm, Validating
      <3>3. Answer("qit") = Clean
        BY <1>1, <1>6, <3>2, CleanAnswer
      <3> QED BY <1>1, <1>3, <3>1, <3>3
    <2> QED BY <1>4, <2>3, <2>4 DEF Shows, OfSource
  <1> QED BY <1>5, <1>6

(* The reduction begins: the record is what may be removed from.           *)
LEMMA LogicBugSees ==
  ASSUME IInv, RInv, SInv, LogicBug PROVE SInv'
PROOF
  <1>1. /\ removed = 0 /\ BugSeen /\ queue' = record /\ removed' = Len(record) /\ test' = Measured
        /\ phase' = "m_reset" /\ NewDut("run", D.life.reset) /\ UNCHANGED <<driver, culprit, child>>
        /\ child = "running" /\ phase = "run"
    BY DEF LogicBug, minSame, NewDut, dbUntouched, BugSeen, Returned
  <1>2. test'.kind = test.kind
    BY <1>1, TestKept DEF IInv, TypeInv
  <1>3. Source = record
    <2>1. Made > 0
      BY <1>1 DEF IInv, RecordInv, Saved
    <2>2. record # None
      BY <2>1 DEF Made
    <2> QED BY <1>1, <2>2 DEF Source, Rec
  <1>4. BugInv'
    <2>1. driver # "gaussdb" /\ (test.kind = "select" \/ (driver \in Dumping /\ MaxFaults =< 1)) =>
            culprit \in ToSet(record)
      BY <1>1, <1>3, BugIsDue
    <2> QED BY <1>1, <1>2, <2>1 DEF SInv, BugInv, Dumping
  <1> QED BY <1>1, <1>4, ResetSees

(* The database is emptied once more.                                      *)
LEMMA ResetAgainSees ==
  ASSUME IInv, SInv, ResetAgain PROVE SInv'
PROOF
  <1>1. /\ phase' = "m_reset" /\ NewDut("run", D.life.reset)
        /\ UNCHANGED <<driver, culprit, child, queue, removed, test, minimized>>
    BY DEF ResetAgain, Threw, minSame, NewDut, dbUntouched
  <1>2. BugInv'
    BY <1>1 DEF SInv, BugInv, Dumping
  <1> QED BY <1>1, <1>2, ResetSees

(* The next statement is tried, or the child ends.                         *)
LEMMA RemovalSees ==
  ASSUME IInv, RInv, SInv, RemovalFails \/ StatementRemoved PROVE SInv'
PROOF
  <1>1. PICK kept : /\ NextRemoval(kept) /\ removed > 0
                    /\ driver # "gaussdb" /\ (test.kind = "select" \/ (driver \in Dumping /\ MaxFaults =< 1)) =>
                         culprit \in ToSet(kept)
    <2>1. CASE RemovalFails
      BY <2>1 DEF RemovalFails, SInv, BugInv
    <2>2. CASE StatementRemoved
      <3>1. removed # 0
        BY <2>2 DEF StatementRemoved, IInv, TypeInv
      <3>2. Source = Candidate
        BY <3>1 DEF Source
      <3> QED BY <2>2, <3>2, BugIsDue DEF StatementRemoved
    <2> QED BY <2>1, <2>2
  <1>2. queue' = kept /\ UNCHANGED <<test, culprit>>
    BY <1>1 DEF NextRemoval, minSame
  <1>3. child = "running"
    BY DEF RemovalFails, StatementRemoved, NoBugSeen, BugSeen, Returned, Threw
  <1>4. CASE removed > 1
    <2>1. /\ phase' = "m_reset" /\ NewDut("run", D.life.reset) /\ UNCHANGED <<driver, child, minimized>>
      BY <1>1, <1>4 DEF NextRemoval, NewDut, dbUntouched
    <2>2. BugInv'
      BY <1>1, <1>2, <1>3, <2>1 DEF SInv, BugInv, Dumping
    <2> QED BY <2>1, <2>2, ResetSees
  <1>5. CASE ~(removed > 1)
    <2>1. minimized' = kept /\ child' = "failure" /\ UNCHANGED <<driver, removed>>
      BY <1>1, <1>5 DEF NextRemoval
    <2>2. BugInv'
      BY <1>1, <1>2, <2>1 DEF SInv, BugInv, Dumping
    <2> QED BY <2>1, <2>2 DEF SInv, SourceInv, FileInv, EmptyInv, Follows
  <1> QED BY <1>4, <1>5

(* The statements are run on the emptied database.                         *)
LEMMA FeedSees ==
  ASSUME IInv, SInv, Feed PROVE SInv'
PROOF
  <1> DEFINE q == [i \in 1..Len(Candidate) |-> Statement("apply", Candidate[i])]
  <1>1. /\ child = "running" /\ prog = <<>> /\ task = "none" /\ phase = "m_reset" /\ phase' = "m_feed"
        /\ prog' = q \o <<Throws("return")>>
        /\ UNCHANGED <<driver, db, backup, record, child, culprit, test, queue, removed, minimized>>
    BY DEF Feed, Returned, SameDut, Call, dbUntouched, minSame
  <1>2. driver \in Drivers /\ removed > 0 /\ removed # 0
    BY <1>1 DEF IInv, TypeInv, BaseInv
  <1>3. Candidate \in Seq(ToSet(Stmts) \cup {"noop"})
    <2>1. queue \in Records /\ removed \in 0..Len(Stmts) /\ removed <= Len(queue)
      BY <1>1 DEF IInv, TypeInv, BaseInv
    <2>2. Len(queue) \in Nat
      BY <2>1 DEF Records
    <2>3. removed \in 1..Len(queue)
      BY <1>2, <2>1, <2>2
    <2> QED BY <2>1, <2>3, CandidateFits DEF Records
  <1>4. q \in Seq(Steps) /\ \A k \in 1..Len(q) : q[k].stmt \in Marked
    <2>1. Good(q, Ops("m_feed"))
      BY <1>2, <1>3, FeedFits DEF Fits
    <2>2. Len(q) = Len(Candidate) /\ DOMAIN Candidate = 1..Len(Candidate)
      <3>1. Len(Candidate) \in Nat /\ DOMAIN Candidate = 1..Len(Candidate)
        BY <1>3
      <3> QED BY <3>1
    <2>3. \A k \in 1..Len(Candidate) : q[k].stmt = Candidate[k] /\ Candidate[k] \in ToSet(Candidate)
      BY <2>2 DEF Statement, ToSet
    <2>4. Source = Candidate
      BY <1>2 DEF Source
    <2> QED BY <2>1, <2>2, <2>3, <2>4 DEF Good, Marked
  <1>5. Marked' = Marked
    BY <1>1, SourceSame
  <1>6. SourceInv'
    <2>1. CASE driver # "gaussdb"
      <3>1. db \in {Absent, <<>>}
        <4>1. ~(\E k \in 1..Len(prog) : prog[k].do \in Drops)
          BY <1>1
        <4> QED BY <1>1, <2>1, <4>1 DEF SInv, EmptyInv
      <3>2. OfSource(db)
        <4>1. ToSet(Absent) = {"absent"} /\ ToSet(<<>>) = {}
          BY DEF ToSet, Absent
        <4> QED BY <3>1, <4>1 DEF OfSource, Marked
      <3> HIDE DEF q
      <3> QED BY <1>1, <1>4, <1>5, <3>2, SourceBegins
    <2>2. CASE driver = "gaussdb"
      BY <1>1, <2>2 DEF SourceInv, Follows
    <2> QED BY <2>1, <2>2
  <1>7. FileInv' /\ EmptyInv'
    BY <1>1 DEF FileInv, EmptyInv
  <1>8. BugInv'
    BY <1>1 DEF SInv, BugInv, Dumping
  <1> QED BY <1>6, <1>7, <1>8 DEF SInv

(* The reduced database is saved.                                          *)
LEMMA SaveSees ==
  ASSUME IInv, SInv, Save PROVE SInv'
PROOF
  <1> DEFINE b == D.life.backup
  <1>1. /\ child = "running" /\ prog = <<>> /\ phase \in {"m_feed", "m_backup"} /\ phase' = "m_backup"
        /\ prog' = b \o <<Throws("return")>>
        /\ UNCHANGED <<driver, db, backup, record, child, culprit, test, queue, removed, minimized>>
    BY DEF Save, Returned, Threw, SameDut, Call, dbUntouched, minSame
  <1>2. b \in Seq(Steps) /\ \A k \in 1..Len(b) : b[k].do \notin Writes
    <2>1. driver \in Drivers
      BY DEF IInv, TypeInv
    <2>2. Good(b, {"dump", "copy_record"})
      BY <2>1, Programs DEF ProgramsOk, BackupOk
    <2> QED BY <2>2 DEF Good, Writes
  <1>3. Marked' = Marked
    BY <1>1, SourceSame
  <1>4. SourceInv'
    <2>1. CASE Follows
      <3>1. OfSource(db)
        BY <1>1, <2>1 DEF SInv, SourceInv
      <3> HIDE DEF b
      <3> QED BY <1>1, <1>2, <1>3, <3>1, SourceBegins
    <2>2. CASE ~Follows
      BY <1>1, <2>2 DEF SourceInv, Follows, Dumping
    <2> QED BY <2>1, <2>2
  <1>5. FileInv'
    <2> SUFFICES ASSUME driver \in Filing PROVE \E k \in 1..Len(prog') : prog'[k].do \in Files
      BY <1>1 DEF FileInv, Filing
    <2>1. PICK k \in 1..Len(b) : b[k].do \in Files
      BY BackupFiles
    <2> HIDE DEF b
    <2>2. prog'[k] = b[k] /\ k \in 1..Len(prog')
      BY <1>1, <1>2, <2>1, StartSteps
    <2> QED BY <2>1, <2>2
  <1>6. EmptyInv'
    BY <1>1 DEF EmptyInv
  <1>7. BugInv'
    BY <1>1 DEF SInv, BugInv, Dumping
  <1> QED BY <1>4, <1>5, <1>6, <1>7 DEF SInv

-----------------------------------------------------------------------------
(***************************************************************************)
(* The processes and the server.                                           *)
(***************************************************************************)

(* What changes neither the database nor the files.                        *)
LEMMA RestsSee ==
  ASSUME SInv, UNCHANGED <<driver, db, backup, record, prog, phase, culprit, test, queue, removed, minimized>>,
         (child' = child /\ task' = task) \/ child' \notin {"running", "failure"}
  PROVE  SInv'
PROOF
  <1>1. Marked' = Marked /\ Backed' = Backed
    BY SourceSame DEF Backed, None
  <1>2. CASE child' = child /\ task' = task
    <2>1. SourceInv'
      BY <1>1, <1>2 DEF SInv, SourceInv, OfSource, Follows, Dumping
    <2>2. FileInv'
      BY <1>1, <1>2 DEF SInv, FileInv, OfSource, Filing, Dumping
    <2>3. EmptyInv' /\ BugInv'
      BY <1>2 DEF SInv, EmptyInv, BugInv, Dumping, Absent
    <2> QED BY <2>1, <2>2, <2>3 DEF SInv
  <1>3. CASE child' \notin {"running", "failure"}
    BY <1>3 DEF SInv, SourceInv, FileInv, EmptyInv, BugInv, Follows, Dumping
  <1> QED BY <1>2, <1>3

(* The processes begin and end.                                            *)
LEMMA ProcessSees ==
  ASSUME SInv, Dies \/ Finishes \/ Fork \/ Wait \/ Read \/ UNCHANGED vars PROVE SInv'
PROOF
  <1>1. CASE Fork
    <2>1. child' = "running" /\ phase' = "boot" /\ removed' = 0 /\ UNCHANGED culprit
      BY <1>1 DEF Fork
    <2> QED BY <2>1 DEF SInv, SourceInv, FileInv, EmptyInv, BugInv
  <1>2. CASE Dies \/ Finishes \/ Wait \/ Read \/ UNCHANGED vars
    <2>1. UNCHANGED <<driver, db, backup, record, prog, phase, culprit, test, queue, removed, minimized, task>>
      BY <1>2 DEF Dies, Finishes, Wait, Read, vars, dbVars, eetVars, ownVars
    <2>2. child' = child \/ child' \in {"none", "success", "signalled"}
      BY <1>2 DEF Dies, Finishes, Wait, Read, vars, dbVars, eetVars, ownVars
    <2> QED BY <2>1, <2>2, RestsSee
  <1> QED BY <1>1, <1>2

(* So does the server.                                                     *)
LEMMA ServerSees ==
  ASSUME SInv, Server PROVE SInv'
PROOF
  <1>1. UNCHANGED <<driver, db, backup, record, prog, phase, culprit, test, queue, removed, minimized, child, task>>
    BY DEF Server, ServerDies, ServerReturns, eetVars
  <1> QED BY <1>1, RestsSee

-----------------------------------------------------------------------------
(***************************************************************************)
(* The theorem about the reduction.                                        *)
(***************************************************************************)

(* Nothing is tested to begin with.                                        *)
LEMMA InitSees == Init => SInv
PROOF
  BY DEF Init, SInv, SourceInv, FileInv, EmptyInv, BugInv, Follows

(* Every step keeps the third invariant.                                   *)
LEMMA NextSees == IInv /\ RInv /\ SInv /\ [Next]_vars => SInv'
PROOF
  <1> SUFFICES ASSUME IInv, RInv, SInv, [Next]_vars PROVE SInv'
    OBVIOUS
  <1>1. UpInv
    BY DEF RInv
  <1>2. CASE Operation
    BY <1>1, <1>2, OperationSees
  <1>3. CASE NextStatement \/ Retry
    BY <1>3, GeneratingSees
  <1>4. CASE Generate \/ GiveUp \/ GenerateAgain
    BY <1>4, BootSees
  <1>5. CASE Generated
    BY <1>5, GeneratedSees
  <1>6. CASE NextTest
    BY <1>6, NextTestSees
  <1>7. CASE ChangeRestored
    BY <1>7, ChangeRestoredSees
  <1>8. CASE NextRun \/ AnotherQuery \/ TestAgain
    BY <1>1, <1>8, RunsSee
  <1>9. CASE TestPassed
    BY <1>9, TestPassedSees
  <1>10. CASE LogicBug
    BY <1>10, LogicBugSees
  <1>11. CASE ResetAgain
    BY <1>11, ResetAgainSees
  <1>12. CASE Feed
    BY <1>12, FeedSees
  <1>13. CASE Save
    BY <1>13, SaveSees
  <1>14. CASE RemovalFails \/ StatementRemoved
    BY <1>14, RemovalSees
  <1>15. CASE Dies \/ Finishes \/ Fork \/ Wait \/ Read \/ UNCHANGED vars
    BY <1>15, ProcessSees
  <1>16. CASE Server
    BY <1>16, ServerSees
  <1> QED BY <1>2, <1>3, <1>4, <1>5, <1>6, <1>7, <1>8, <1>9, <1>10, <1>11, <1>12, <1>13, <1>14, <1>15, <1>16
           DEF Next, Child, Parent

(* What is reduced to shows the bug: its statement is still among those    *)
(* that the file makes the database of.                                    *)
LEMMA ReducedShows ==
  ASSUME IInv, SInv PROVE DumpedShowsBug
PROOF
  <1> SUFFICES ASSUME (driver \in Dumping /\ MaxFaults =< 1) \/ (test.kind = "select" /\ driver # "gaussdb"),
                      child = "failure"
               PROVE  culprit \in ToSet(Replay(minimized))
    BY DEF DumpedShowsBug, MinimizedShowsBug, Shows
  <1>1. driver # "gaussdb"
    BY DEF Dumping
  <1>2. culprit \in ToSet(queue) /\ minimized = queue /\ culprit \in {"none"} \cup ToSet(Stmts)
    BY <1>1 DEF SInv, BugInv
  <1>3. queue \in Records /\ culprit # "noop"
    BY <1>2, NamesAssumption DEF IInv, TypeInv
  <1> QED BY <1>2, <1>3, ReplayHolds DEF Records

(* With the tables saved, or with a query that needs no restore, the       *)
(* statements left by the reduction still make a database that shows the   *)
(* bug (minimize_qcn_database()).                                          *)
THEOREM ReductionKeepsBug == Spec => []DumpedShowsBug
PROOF
  <1>1. Init => IInv /\ RInv /\ SInv
    BY InitInv, InitReal, InitSees
  <1>2. (IInv /\ RInv /\ SInv) /\ [Next]_vars => (IInv /\ RInv /\ SInv)'
    BY NextInv, NextReal, NextSees
  <1>3. IInv /\ RInv /\ SInv => DumpedShowsBug
    BY ReducedShows
  <1> QED BY <1>1, <1>2, <1>3, PTL DEF Spec
=============================================================================
