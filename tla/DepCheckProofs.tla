-------------------------- MODULE DepCheckProofs ---------------------------
(***************************************************************************)
(* Proofs about DepCheck, for any number of transactions, statements, rows *)
(* and tables, whatever the queries:                                       *)
(*                                                                         *)
(*   NothingMissedHolds          when no check reports anything, nobody    *)
(*                               committed has seen an aborted or an       *)
(*                               intermediate version, at any level;       *)
(*   NoFalseAlarmHolds           at a level that forbids the anomalies, no *)
(*                               exception and no report;                  *)
(*   SnapshotsFollowCommitsHolds under snapshot isolation check_GSIa()     *)
(*                               finds nothing.                            *)
(*                                                                         *)
(* The invariant says where every version that is in the database, in a    *)
(* snapshot or in an output came from: an initial row, or one write, whose *)
(* transaction had not replaced it, and, where the level promises it, had  *)
(* ended by then.  From there on the proofs are about the analyzer: each   *)
(* read finds exactly that write, which gives the edges of the graph, and  *)
(* the last statement of a transaction is a rank that every write-read and *)
(* write-write edge raises, so that reduce_graph_indegree() takes every    *)
(* node away.                                                              *)
(***************************************************************************)
EXTENDS DepCheck, FoldLemmas

-----------------------------------------------------------------------------
(* The nodes that are left, and the edges that leave them.                   *)
Reductions(n, e) == [left : SUBSET (1..n), edges : SUBSET e]

(* A step of the reduction takes nodes and edges away and adds none.         *)
LEMMA TakeAwayType ==
  ASSUME NEW n \in Nat, NEW e \in SUBSET ((1..n) \X (1..n)), NEW x \in Reductions(n, e)
  PROVE  TakeAway(x) \in Reductions(n, e)
PROOF
  <1> DEFINE zero == Indegree0(x.edges, x.left)
             z == Min(zero)
             y == [left |-> x.left \ {z}, edges |-> {p \in x.edges : p[1] # z}]
  <1>1. TakeAway(x) = IF zero = {} THEN x ELSE y
    BY DEF TakeAway
  <1>2. y.left \in SUBSET (1..n) /\ y.edges \in SUBSET e
    BY DEF Reductions
  <1>3. y \in Reductions(n, e)
    BY <1>2 DEF Reductions
  <1> HIDE DEF y, zero
  <1> QED BY <1>1, <1>3

(* Where every edge leads to a higher rank, a node of the lowest rank has no *)
(* edge to it, so that a step takes one node away.                           *)
LEMMA TakeAwayOne ==
  ASSUME NEW n \in Nat, NEW e \in SUBSET ((1..n) \X (1..n)), NEW rank \in [1..n -> Nat],
         \A p \in e : rank[p[1]] < rank[p[2]],
         NEW x \in Reductions(n, e), x.left # {}, \A p \in x.edges : p[1] \in x.left
  PROVE  \E z \in x.left : /\ TakeAway(x).left = x.left \ {z}
                           /\ \A p \in TakeAway(x).edges : p[1] \in TakeAway(x).left
PROOF
  <1> DEFINE zero == Indegree0(x.edges, x.left)
             z == Min(zero)
             ranks == {rank[k] : k \in x.left}
  <1>1. x.left \subseteq 1..n /\ x.edges \subseteq e
    BY DEF Reductions
  <1>2. zero # {}
    <2>1. ranks \in SUBSET Nat /\ ranks # {}
      BY <1>1
    <2>2. Min(ranks) \in ranks /\ \A r \in ranks : Min(ranks) <= r
      <3> HIDE DEF ranks
      <3> QED BY <2>1, LeastOf
    <2>3. PICK k \in x.left : rank[k] = Min(ranks)
      BY <2>2
    <2>4. ASSUME NEW p \in x.edges PROVE p[2] # k
      <3>1. p[1] \in x.left /\ rank[p[1]] < rank[p[2]]
        BY <1>1
      <3>2. rank[p[1]] \in ranks /\ rank[p[1]] \in Nat /\ rank[k] \in Nat
        BY <1>1, <3>1
      <3>3. rank[k] <= rank[p[1]]
        <4> HIDE DEF ranks
        <4> QED BY <2>2, <2>3, <3>2
      <3>4. p[2] = k => rank[k] < rank[k]
        BY <3>1, <3>2, <3>3
      <3> QED BY <3>2, <3>4
    <2> QED BY <2>3, <2>4 DEF Indegree0
  <1>3. zero \in SUBSET Nat
    BY <1>1 DEF Indegree0
  <1>4. z \in zero
    <2> HIDE DEF zero
    <2> QED BY <1>2, <1>3, LeastOf
  <1>5. z \in x.left
    BY <1>4 DEF Indegree0
  <1>6. TakeAway(x) = [left |-> x.left \ {z}, edges |-> {p \in x.edges : p[1] # z}]
    <2> HIDE DEF z
    <2> QED BY <1>2 DEF TakeAway, z
  <1>7. \A p \in TakeAway(x).edges : p[1] \in TakeAway(x).left
    <2> HIDE DEF z
    <2> QED BY <1>6
  <1> HIDE DEF z
  <1> QED BY <1>5, <1>6, <1>7

(* reduce_graph_indegree() takes everything away from a graph without a      *)
(* cycle.                                                                    *)
LEMMA ReducesAll ==
  ASSUME NEW n \in Nat, NEW e \in SUBSET ((1..n) \X (1..n)), NEW rank \in [1..n -> Nat],
         \A p \in e : rank[p[1]] < rank[p[2]]
  PROVE  ReduceIn(1..n, e).left = {} /\ ReduceIn(1..n, e).edges = {}
PROOF
  <1> DEFINE X == Reductions(n, e)
             base == [left |-> 1..n, edges |-> e]
             F == [x \in X |-> TakeAway(x)]
             S == 0..n
             E(g) == g = [k \in S |-> IF k = 0 THEN base ELSE TakeAway(g[k - 1])]
             it == CHOOSE g : E(g)
  <1>0. IsFiniteSet(1..n) /\ Cardinality(1..n) = n
    <2>1. 1 \in Int /\ n \in Int
      OBVIOUS
    <2>2. Cardinality(1..n) = IF 1 > n THEN 0 ELSE n - 1 + 1
      BY <2>1, FS_Interval
    <2> QED BY <2>1, <2>2, FS_Interval
  <1>1. base \in X
    BY DEF Reductions
  <1>2. F \in [X -> X]
    <2> HIDE DEF X
    <2>1. \A x \in X : TakeAway(x) \in X
      BY TakeAwayType DEF X
    <2> QED BY <2>1
  <1>3. PICK h : IsIteration(n, X, base, F, h)
    <2> HIDE DEF X, base, F, S, E, it
    <2> QED BY <1>1, <1>2, Iterates
  <1>4. h[0] = base /\ \A k \in 0..(n - 1) : h[k + 1] = F[h[k]]
    <2> HIDE DEF X, base, F, S, E, it
    <2> QED BY <1>3 DEF IsIteration
  <1>5. h \in [0..n -> X]
    <2> HIDE DEF X, base, F, S, E, it
    <2> QED BY <1>3 DEF IsIteration
  <1>6. ASSUME NEW k \in S, k # 0 PROVE h[k] = TakeAway(h[k - 1])
    <2>1. k - 1 \in 0..(n - 1) /\ (k - 1) + 1 = k /\ k - 1 \in 0..n
      BY <1>6
    <2>2. h[k - 1] \in X
      <3> HIDE DEF X, base, F
      <3> QED BY <1>5, <2>1
    <2>3. h[k] = F[h[k - 1]]
      <3> HIDE DEF X, base, F
      <3> QED BY <1>4, <2>1
    <2> HIDE DEF X, base
    <2> QED BY <2>2, <2>3
  <1>7. E(h)
    <2> DEFINE G(k) == IF k = 0 THEN base ELSE TakeAway(h[k - 1])
    <2>1. \A k \in S : h[k] = G(k)
      <3> HIDE DEF base, X, F, S
      <3> QED BY <1>4, <1>6
    <2>2. h = [k \in S |-> h[k]]
      <3> HIDE DEF base, X, F
      <3> QED BY <1>5
    <2>3. h = [k \in S |-> G(k)]
      <3> HIDE DEF G, S
      <3> QED BY <2>1, <2>2
    <2> HIDE DEF S
    <2> QED BY <2>3
  <1>8. E(it)
    <2> HIDE DEF E
    <2> QED BY <1>7
  <1>9. ReduceIn(1..n, e) = it[n]
    BY <1>0 DEF ReduceIn
  <1>10. \A k \in S : it[k] = IF k = 0 THEN base ELSE TakeAway(it[k - 1])
    <2> HIDE DEF it, base, S
    <2> QED BY <1>8
  <1> DEFINE Good(x, k) == /\ x \in X /\ Cardinality(x.left) = n - k
                           /\ \A p \in x.edges : p[1] \in x.left
             Ok == {k \in Nat : k <= n => Good(it[k], k)}
  <1>11. 0 \in Ok
    <2>1. it[0] = base
      <3>1. 0 \in S
        OBVIOUS
      <3> HIDE DEF it, base, S
      <3> QED BY <1>10, <3>1
    <2>2. \A p \in e : p[1] \in 1..n
      OBVIOUS
    <2> HIDE DEF it, X
    <2> QED BY <1>0, <1>1, <2>1, <2>2
  <1>12. ASSUME NEW k \in Nat, k \in Ok PROVE k + 1 \in Ok
    <2> SUFFICES ASSUME k + 1 <= n PROVE Good(it[k + 1], k + 1)
      <3> HIDE DEF Good, it
      <3> QED OBVIOUS
    <2> DEFINE x == it[k]
    <2>1. it[k + 1] = TakeAway(x)
      <3>1. k + 1 \in S /\ k + 1 # 0 /\ (k + 1) - 1 = k
        OBVIOUS
      <3> HIDE DEF it, base, S
      <3> QED BY <1>10, <3>1
    <2>2. Good(x, k)
      <3> HIDE DEF Good, it
      <3> QED BY <1>12
    <2> HIDE DEF x, it
    <2>3. x.left # {} /\ IsFiniteSet(x.left)
      <3>1. x.left \in SUBSET (1..n)
        BY <2>2 DEF Reductions
      <3>2. IsFiniteSet(x.left)
        BY <1>0, <3>1, FS_Subset
      <3>3. Cardinality(x.left) # 0
        BY <2>2
      <3>4. Cardinality({}) = 0
        BY FS_EmptySet
      <3> QED BY <3>2, <3>3, <3>4
    <2>4. PICK z \in x.left : /\ TakeAway(x).left = x.left \ {z}
                              /\ \A p \in TakeAway(x).edges : p[1] \in TakeAway(x).left
      BY <2>2, <2>3, TakeAwayOne
    <2> DEFINE L == x.left
    <2>5. IsFiniteSet(L) /\ z \in L /\ TakeAway(x).left = L \ {z} /\ Cardinality(L) = n - k
      BY <2>2, <2>3, <2>4
    <2>6. Cardinality(L \ {z}) = Cardinality(L) - 1
      <3> HIDE DEF L
      <3> QED BY <2>5, FS_RemoveElement
    <2>7. TakeAway(x) \in X
      BY <2>2, TakeAwayType
    <2>8. Cardinality(TakeAway(x).left) = n - (k + 1)
      <3> HIDE DEF L
      <3> QED BY <2>5, <2>6
    <2> HIDE DEF X, L
    <2> QED BY <2>1, <2>4, <2>7, <2>8
  <1>13. \A k \in Nat : k \in Ok
    <2> HIDE DEF Ok
    <2> QED BY <1>11, <1>12, NatClosed
  <1>14. Good(it[n], n)
    <2> HIDE DEF Good, it
    <2> QED BY <1>13
  <1> HIDE DEF it
  <1>15. it[n].left = {}
    <2>1. it[n].left \in SUBSET (1..n) /\ Cardinality(it[n].left) = 0
      BY <1>14 DEF Reductions
    <2>2. IsFiniteSet(it[n].left)
      BY <1>0, <2>1, FS_Subset
    <2> QED BY <2>1, <2>2, FS_EmptySet
  <1>16. it[n].edges = {}
    BY <1>14, <1>15
  <1> QED BY <1>9, <1>15, <1>16

(* The graph checks find no cycle where every edge leads to a higher rank.   *)
LEMMA NoCycle ==
  ASSUME NEW H, NEW n \in Nat, AllTxns(H) = 1..n, NEW e \in SUBSET ((1..n) \X (1..n)),
         NEW rank \in [1..n -> Nat], \A p \in e : rank[p[1]] < rank[p[2]]
  PROVE  ~HasCycle(H, e)
PROOF
  <1>1. ReduceIn(1..n, e).edges = {}
    BY ReducesAll
  <1>2. Flip({}) = {}
    BY DEF Flip
  <1>3. ReduceIn(1..n, {}).left = {}
    <2>1. {} \in SUBSET ((1..n) \X (1..n)) /\ \A p \in {} : rank[p[1]] < rank[p[2]]
      OBVIOUS
    <2> QED BY <2>1, ReducesAll
  <1> QED BY <1>1, <1>2, <1>3 DEF HasCycle, ReduceOut

-----------------------------------------------------------------------------
(* What an execution is made of.                                             *)
Uses == Original \union {"INIT_TYPE", "VERSION_SET_READ", "BEFORE_WRITE_READ", "AFTER_WRITE_READ"}

(* A row of an output, and a statement.                                      *)
Versions == [row : RowPool, ver : Nat]

Statements == [tid : Txns, use : Uses, table : {""} \union {TableOf[r] : r \in RowPool},
               out : SUBSET Versions]

(* The types of the variables.  Version keys start above the row ids, which  *)
(* are the keys of the initial rows.                                         *)
TypeInv ==
    /\ level \in {"serializable", "snapshot", "dirty"}
    /\ store \in [RowPool -> Nat]
    /\ snap \in [Txns -> [RowPool -> Nat]]
    /\ DOMAIN pending = Txns
    /\ \A t \in Txns : DOMAIN pending[t] \subseteq RowPool /\ pending[t] \in [DOMAIN pending[t] -> Nat]
    /\ status \in [Txns -> {"none", "active", "TXN_COMMIT", "TXN_ABORT"}]
    /\ stmts \in Seq(Statements)
    /\ write_op_id \in Nat /\ write_op_id >= Cardinality(RowPool)

(* A transaction starts with a statement that reads and writes nothing.      *)
StartInv ==
    /\ \A i \in DOMAIN stmts : stmts[i].use = "INIT_TYPE" => stmts[i].out = {}
    /\ \A i \in DOMAIN stmts : status[stmts[i].tid] # "none"
    /\ \A i \in DOMAIN stmts : stmts[i].use # "INIT_TYPE" =>
          \E m \in DOMAIN stmts : m < i /\ stmts[m].tid = stmts[i].tid
    /\ \A t \in Active : \E m \in DOMAIN stmts : stmts[m].tid = t

(* Every read of the instrumentor's has the statement it was put around.     *)
Follows(i, k, uses) ==
    k \in DOMAIN stmts /\ stmts[k].tid = stmts[i].tid /\ stmts[k].use \in uses

InstrumentInv ==
    \A i \in DOMAIN stmts :
        /\ stmts[i].use = "BEFORE_WRITE_READ" => Follows(i, i + 1, {"UPDATE_WRITE", "DELETE_WRITE"})
        /\ stmts[i].use = "AFTER_WRITE_READ" => Follows(i, i - 1, {"UPDATE_WRITE", "INSERT_WRITE"})
        /\ stmts[i].use = "VERSION_SET_READ" =>
              \E k \in DOMAIN stmts : /\ i < k /\ stmts[k].use \in Original
                                      /\ \A m \in (i + 1)..k : stmts[m].tid = stmts[i].tid

(* j is the read behind the statement that wrote version v of row q.         *)
Source(j, q, v) ==
    /\ j \in DOMAIN stmts /\ stmts[j].use = "AFTER_WRITE_READ"
    /\ stmts[j].out = {[row |-> q, ver |-> v]}

(* A version is written once.                                                *)
VersionInv ==
    /\ \A j \in DOMAIN stmts : stmts[j].use = "AFTER_WRITE_READ" =>
          \E q \in RowPool : \E v \in Nat : Source(j, q, v) /\ v \notin RowPool /\ v <= write_op_id
    /\ \A j, k \in DOMAIN stmts : \A p, q \in RowPool : \A v \in Nat :
          Source(j, p, v) /\ Source(k, q, v) => j = k

(* The version an initial row has.                                           *)
Initial(q, v) == q \in InitRows /\ v = q

(* The transaction that wrote the version at j replaces it at k.             *)
Replaces(k, j, q, v) ==
    /\ j < k /\ stmts[k].tid = stmts[j].tid /\ stmts[k].use = "BEFORE_WRITE_READ"
    /\ [row |-> q, ver |-> v] \in stmts[k].out

(* What j wrote, and its transaction has not replaced yet.                   *)
Lasting(j, q, v) == Source(j, q, v) /\ \A k \in DOMAIN stmts : ~Replaces(k, j, q, v)

(* The transaction of j has committed.                                       *)
HasCommitted(j) == status[stmts[j].tid] = "TXN_COMMIT"

(* A statement of t behind its first one.                                    *)
Inside(m, t) == /\ m \in DOMAIN stmts /\ stmts[m].tid = t
                /\ \E n \in DOMAIN stmts : n < m /\ stmts[n].tid = t

(* The transaction of j ends before t reads or writes.                       *)
EndsBefore(j, t) ==
    \A k, m \in DOMAIN stmts : stmts[k].tid = stmts[j].tid /\ Inside(m, t) => k < m

(* Version v of row q is an initial one or a committed one, or t wrote it;   *)
(* and its transaction has not replaced it.                                  *)
Known(q, v) ==
    Initial(q, v) \/ \E j \in DOMAIN stmts : Lasting(j, q, v) /\ HasCommitted(j)

KnownBefore(t, q, v) ==
    Initial(q, v) \/ \E j \in DOMAIN stmts : Lasting(j, q, v) /\ HasCommitted(j) /\ EndsBefore(j, t)

Written(t, q, v) == \E j \in DOMAIN stmts : Lasting(j, q, v) /\ stmts[j].tid = t

(* The store holds committed versions, a snapshot those of transactions that *)
(* ended before, a pending write is what its transaction wrote.              *)
StoreInv == \A q \in RowPool : store[q] # Gone => Known(q, store[q])

SnapInv == \A t \in Txns : \A q \in RowPool : snap[t][q] # Gone => KnownBefore(t, q, snap[t][q])

PendingInv ==
    /\ \A t \in Txns \ Active : DOMAIN pending[t] = {}
    /\ \A t \in Txns : \A q \in DOMAIN pending[t] : pending[t][q] # Gone => Written(t, q, pending[t][q])

(* What the level promises of a read i of another transaction's version.     *)
Promised(i, j) ==
    stmts[j].tid # stmts[i].tid /\ level # "dirty" =>
        /\ HasCommitted(j)
        /\ \A k \in DOMAIN stmts : stmts[k].tid = stmts[j].tid => k < i
        /\ level = "snapshot" => EndsBefore(j, stmts[i].tid)

(* Read i saw version v of row q as statement j left it, before a            *)
(* replacement by the transaction that wrote it.                             *)
CameFrom(i, j, q, v) ==
    /\ j < i /\ Source(j, q, v) /\ Promised(i, j)
    /\ \A k \in DOMAIN stmts : Replaces(k, j, q, v) => i <= k

(* Every read saw an initial row, or a version that a statement before it    *)
(* wrote and its transaction had not replaced.                               *)
ReadInv ==
    \A i \in DOMAIN stmts : stmts[i].use # "AFTER_WRITE_READ" =>
        \A x \in stmts[i].out :
            Initial(x.row, x.ver) \/ \E j \in DOMAIN stmts : CameFrom(i, j, x.row, x.ver)

(* An analysis is one of the whole execution.                                *)
DaInv == da.phase # "running" =>
    /\ da = Analysis(History)
    /\ \A t \in Txns : status[t] \in {"TXN_COMMIT", "TXN_ABORT"}

(* The inductive invariant.                                                  *)
IInv == /\ TypeInv /\ StartInv /\ InstrumentInv /\ VersionInv /\ StoreInv /\ SnapInv
        /\ PendingInv /\ ReadInv /\ DaInv

-----------------------------------------------------------------------------
(* What every step that executes statements of transaction t leaves as it is.*)
Grown(t) ==
    /\ \A i \in DOMAIN stmts' : i \in Nat
    /\ \A i \in DOMAIN stmts : i \in Nat /\ i \in DOMAIN stmts' /\ stmts'[i] = stmts[i]
    /\ \A i \in DOMAIN stmts' : i \notin DOMAIN stmts =>
          stmts'[i].tid = t /\ \A k \in DOMAIN stmts : k < i
    /\ \A i \in DOMAIN stmts : stmts[i].tid \in Txns
    /\ t \in Txns /\ status[t] \in {"none", "active"}
    /\ \A u \in Txns \ {t} : status'[u] = status[u]
    /\ level' = level

(* The statements with a block appended: the old ones where they were, then  *)
(* those of the block.                                                       *)
LEMMA Extending ==
  ASSUME stmts \in Seq(Statements), NEW b \in Seq(Statements), stmts' = stmts \o b
  PROVE  /\ stmts' \in Seq(Statements)
         /\ DOMAIN stmts = 1..Len(stmts) /\ DOMAIN stmts' = 1..(Len(stmts) + Len(b))
         /\ Len(stmts) \in Nat /\ Len(b) \in Nat
         /\ \A i \in DOMAIN stmts : i \in DOMAIN stmts' /\ stmts'[i] = stmts[i]
         /\ \A i \in DOMAIN stmts' : i \notin DOMAIN stmts =>
               /\ i - Len(stmts) \in 1..Len(b) /\ stmts'[i] = b[i - Len(stmts)]
               /\ i > Len(stmts)
         /\ \A p \in 1..Len(b) : /\ p + Len(stmts) \in DOMAIN stmts' /\ p + Len(stmts) \notin DOMAIN stmts
                                 /\ stmts'[p + Len(stmts)] = b[p]
PROOF
  <1> DEFINE s == stmts
             r == stmts'
  <1>1. /\ r \in Seq(Statements) /\ Len(r) = Len(s) + Len(b)
        /\ \A i \in 1..Len(r) : r[i] = IF i <= Len(s) THEN s[i] ELSE b[i - Len(s)]
    OBVIOUS
  <1>2. DOMAIN s = 1..Len(s) /\ DOMAIN r = 1..Len(r) /\ Len(s) \in Nat /\ Len(b) \in Nat
    BY <1>1
  <1> HIDE DEF s, r
  <1>3. \A i \in DOMAIN s : i \in DOMAIN r /\ r[i] = s[i]
    BY <1>1, <1>2
  <1>4. \A i \in DOMAIN r : i \notin DOMAIN s =>
           /\ i - Len(s) \in 1..Len(b) /\ r[i] = b[i - Len(s)]
           /\ i > Len(s)
    BY <1>1, <1>2
  <1>5. \A p \in 1..Len(b) : /\ p + Len(s) \in DOMAIN r /\ p + Len(s) \notin DOMAIN s
                             /\ r[p + Len(s)] = b[p]
    <2> TAKE p \in 1..Len(b)
    <2>1. p + Len(s) \in DOMAIN r /\ p + Len(s) \notin DOMAIN s
      BY <1>1, <1>2
    <2>2. (p + Len(s)) - Len(s) = p
      BY <1>2
    <2> QED BY <1>4, <2>1, <2>2
  <1>6. DOMAIN r = 1..(Len(s) + Len(b))
    BY <1>1, <1>2
  <1> QED BY <1>1, <1>2, <1>3, <1>4, <1>5, <1>6 DEF s, r

(* Appending a block of statements of one transaction grows the execution.   *)
LEMMA GrowsBy ==
  ASSUME TypeInv, NEW t \in Txns, status[t] \in {"none", "active"}, level' = level,
         \A u \in Txns \ {t} : status'[u] = status[u],
         NEW b \in Seq(Statements), stmts' = stmts \o b, \A p \in 1..Len(b) : b[p].tid = t
  PROVE  Grown(t)
PROOF
  <1>1. stmts \in Seq(Statements)
    BY DEF TypeInv
  <1>2. /\ DOMAIN stmts = 1..Len(stmts) /\ DOMAIN stmts' = 1..(Len(stmts) + Len(b))
        /\ Len(stmts) \in Nat /\ Len(b) \in Nat
        /\ \A i \in DOMAIN stmts : i \in DOMAIN stmts' /\ stmts'[i] = stmts[i]
        /\ \A i \in DOMAIN stmts' : i \notin DOMAIN stmts =>
              /\ i - Len(stmts) \in 1..Len(b) /\ stmts'[i] = b[i - Len(stmts)]
              /\ i > Len(stmts)
    BY <1>1, Extending
  <1>3. \A i \in DOMAIN stmts : stmts[i].tid \in Txns
    <2>1. \A i \in DOMAIN stmts : stmts[i] \in Statements
      BY <1>1
    <2> QED BY <2>1 DEF Statements
  <1>4. \A i \in DOMAIN stmts' : i \notin DOMAIN stmts =>
          stmts'[i].tid = t /\ \A k \in DOMAIN stmts : k < i
    BY <1>2
  <1> QED BY <1>2, <1>3, <1>4 DEF Grown

(* An executed statement stays the source of what it was the source of.      *)
LEMMA SourceStays ==
  ASSUME NEW t, Grown(t), NEW j \in DOMAIN stmts, NEW q, NEW v
  PROVE  Source(j, q, v)' <=> Source(j, q, v)
PROOF
  BY DEF Grown, Source

(* A committed transaction stays committed and executes nothing more.        *)
LEMMA CommittedStays ==
  ASSUME NEW t, Grown(t), NEW j \in DOMAIN stmts, HasCommitted(j)
  PROVE  HasCommitted(j)' /\ stmts[j].tid # t
PROOF
  BY DEF Grown, HasCommitted

(* A statement inside a transaction was so before, or is a new one of the    *)
(* transaction that runs, after all others.                                  *)
LEMMA InsideOf ==
  ASSUME NEW t, Grown(t), NEW m \in DOMAIN stmts', NEW u, Inside(m, u)'
  PROVE  \/ m \in DOMAIN stmts /\ Inside(m, u)
         \/ m \notin DOMAIN stmts /\ u = t /\ \A k \in DOMAIN stmts : k < m
PROOF
  <1>1. CASE m \in DOMAIN stmts
    <2>1. PICK n \in DOMAIN stmts' : n < m /\ stmts'[n].tid = u
      BY DEF Inside
    <2>2. n \in DOMAIN stmts
      <3>1. n \notin DOMAIN stmts => m < n
        BY <1>1 DEF Grown
      <3>2. m \in Nat /\ n \in Nat
        BY <1>1 DEF Grown
      <3> QED BY <2>1, <3>1, <3>2
    <2> QED BY <1>1, <2>1, <2>2 DEF Inside, Grown
  <1>2. CASE m \notin DOMAIN stmts
    BY <1>2 DEF Inside, Grown
  <1> QED BY <1>1, <1>2

(* A committed transaction that ended before u reads or writes has still     *)
(* done so when more statements are executed.                                *)
LEMMA EndsBeforeStays ==
  ASSUME NEW t, Grown(t), NEW j \in DOMAIN stmts, HasCommitted(j), NEW u,
         EndsBefore(j, u) \/ \A m \in DOMAIN stmts : ~Inside(m, u)
  PROVE  EndsBefore(j, u)'
PROOF
  <1> SUFFICES ASSUME NEW k \in DOMAIN stmts', NEW m \in DOMAIN stmts',
                      stmts'[k].tid = stmts'[j].tid, Inside(m, u)'
               PROVE  k < m
    BY DEF EndsBefore
  <1>1. stmts'[j] = stmts[j] /\ stmts[j].tid # t
    BY CommittedStays DEF Grown
  <1>2. k \in DOMAIN stmts /\ stmts[k].tid = stmts[j].tid
    BY <1>1 DEF Grown
  <1>3. \/ m \in DOMAIN stmts /\ Inside(m, u)
        \/ m \notin DOMAIN stmts /\ \A n \in DOMAIN stmts : n < m
    BY InsideOf
  <1> QED BY <1>2, <1>3 DEF EndsBefore

(* A version lasts unless its own transaction replaces it in this step.      *)
LEMMA LastingStays ==
  ASSUME NEW t, Grown(t), NEW j \in DOMAIN stmts, NEW q, NEW v, Lasting(j, q, v),
         \/ stmts[j].tid # t
         \/ \A k \in DOMAIN stmts' : /\ k \notin DOMAIN stmts
                                     /\ stmts'[k].use = "BEFORE_WRITE_READ"
                                     => [row |-> q, ver |-> v] \notin stmts'[k].out
  PROVE  j \in DOMAIN stmts' /\ Lasting(j, q, v)'
PROOF
  <1>1. Source(j, q, v)'
    BY SourceStays DEF Lasting
  <1>2. ASSUME NEW k \in DOMAIN stmts', Replaces(k, j, q, v)' PROVE FALSE
    <2>1. CASE k \in DOMAIN stmts
      BY <1>2, <2>1 DEF Grown, Lasting, Replaces
    <2>2. CASE k \notin DOMAIN stmts
      BY <1>2, <2>2 DEF Grown, Replaces
    <2> QED BY <2>1, <2>2
  <1> QED BY <1>1, <1>2 DEF Lasting, Grown

(* A read keeps the statement its version came from, and what the level      *)
(* promises of it: the writer is committed, or the reader itself, or nothing *)
(* is promised.                                                              *)
LEMMA CameFromStays ==
  ASSUME NEW t, Grown(t), NEW i \in DOMAIN stmts, NEW j \in DOMAIN stmts, NEW q, NEW v,
         CameFrom(i, j, q, v)
  PROVE  j \in DOMAIN stmts' /\ CameFrom(i, j, q, v)'
PROOF
  <1>1. j \in DOMAIN stmts' /\ stmts'[j] = stmts[j] /\ stmts'[i] = stmts[i] /\ j < i
    BY DEF Grown, CameFrom
  <1>2. Source(j, q, v)'
    BY SourceStays DEF CameFrom
  <1>3. Promised(i, j)'
    <2> PICK u : u = stmts[i].tid
      OBVIOUS
    <2> SUFFICES ASSUME stmts[j].tid # u, level # "dirty"
                 PROVE  /\ HasCommitted(j)'
                        /\ \A k \in DOMAIN stmts' : stmts'[k].tid = stmts[j].tid => k < i
                        /\ level = "snapshot" => EndsBefore(j, u)'
      <3>1. level' = level /\ u = stmts'[i].tid
        BY <1>1 DEF Grown
      <3> QED BY <1>1, <3>1 DEF Promised, EndsBefore, Inside
    <2>1. HasCommitted(j)
      BY DEF CameFrom, Promised
    <2>2. HasCommitted(j)' /\ stmts[j].tid # t
      BY <2>1, CommittedStays
    <2>3. ASSUME NEW k \in DOMAIN stmts', stmts'[k].tid = stmts[j].tid PROVE k < i
      <3>1. k \in DOMAIN stmts /\ stmts[k].tid = stmts[j].tid
        BY <2>2, <2>3 DEF Grown
      <3> QED BY <3>1 DEF CameFrom, Promised
    <2>4. ASSUME level = "snapshot" PROVE EndsBefore(j, u)'
      <3>1. EndsBefore(j, u)
        BY <2>4 DEF CameFrom, Promised
      <3> QED BY <2>1, <3>1, EndsBeforeStays
    <2> QED BY <2>2, <2>3, <2>4
  <1>4. ASSUME NEW k \in DOMAIN stmts', Replaces(k, j, q, v)' PROVE i <= k
    <2>1. CASE k \in DOMAIN stmts
      <3>1. Replaces(k, j, q, v)
        BY <1>4, <2>1 DEF Grown, Replaces
      <3> QED BY <2>1, <3>1 DEF CameFrom
    <2>2. CASE k \notin DOMAIN stmts
      <3>1. i < k /\ i \in Nat /\ k \in Nat
        BY <2>2 DEF Grown
      <3> QED BY <3>1
    <2> QED BY <2>1, <2>2
  <1> QED BY <1>1, <1>2, <1>3, <1>4 DEF CameFrom

(* A committed version stays a committed version.                            *)
LEMMA KnownStays ==
  ASSUME NEW t, Grown(t), NEW q, NEW v, Known(q, v)
  PROVE  Known(q, v)'
PROOF
  <1>1. CASE Initial(q, v)
    BY <1>1 DEF Known, Initial
  <1>2. ASSUME NEW j \in DOMAIN stmts, Lasting(j, q, v), HasCommitted(j)
        PROVE  j \in DOMAIN stmts' /\ Lasting(j, q, v)' /\ HasCommitted(j)'
    <2>1. HasCommitted(j)' /\ stmts[j].tid # t
      BY <1>2, CommittedStays
    <2> QED BY <1>2, <2>1, LastingStays
  <1> QED BY <1>1, <1>2 DEF Known

(* So does one that was committed before u read or wrote anything; a         *)
(* transaction that has not yet done so has all committed versions before    *)
(* it.                                                                       *)
LEMMA KnownBeforeStays ==
  ASSUME NEW t, Grown(t), NEW u, NEW q, NEW v,
         \/ KnownBefore(u, q, v)
         \/ Known(q, v) /\ \A m \in DOMAIN stmts : ~Inside(m, u)
  PROVE  KnownBefore(u, q, v)'
PROOF
  <1>1. CASE Initial(q, v)
    BY <1>1 DEF KnownBefore, Initial
  <1>2. ASSUME NEW j \in DOMAIN stmts, Lasting(j, q, v), HasCommitted(j),
               EndsBefore(j, u) \/ \A m \in DOMAIN stmts : ~Inside(m, u)
        PROVE  j \in DOMAIN stmts' /\ Lasting(j, q, v)' /\ HasCommitted(j)' /\ EndsBefore(j, u)'
    <2>1. HasCommitted(j)' /\ stmts[j].tid # t
      BY <1>2, CommittedStays
    <2>2. EndsBefore(j, u)'
      BY <1>2, EndsBeforeStays
    <2> QED BY <1>2, <2>1, <2>2, LastingStays
  <1>3. CASE ~Initial(q, v)
    <2>1. PICK j \in DOMAIN stmts : /\ Lasting(j, q, v) /\ HasCommitted(j)
                                    /\ EndsBefore(j, u) \/ \A m \in DOMAIN stmts : ~Inside(m, u)
      BY <1>3 DEF Known, KnownBefore
    <2>2. j \in DOMAIN stmts' /\ Lasting(j, q, v)' /\ HasCommitted(j)' /\ EndsBefore(j, u)'
      BY <1>2, <2>1
    <2> QED BY <2>2 DEF KnownBefore
  <1> QED BY <1>1, <1>3

(* What transaction u wrote stays in place unless u runs and replaces it.    *)
LEMMA WrittenStays ==
  ASSUME NEW t, Grown(t), NEW u, NEW q, NEW v, Written(u, q, v),
         \/ u # t
         \/ \A k \in DOMAIN stmts' : /\ k \notin DOMAIN stmts
                                     /\ stmts'[k].use = "BEFORE_WRITE_READ"
                                     => [row |-> q, ver |-> v] \notin stmts'[k].out
  PROVE  Written(u, q, v)'
PROOF
  <1>1. PICK j \in DOMAIN stmts : Lasting(j, q, v) /\ stmts[j].tid = u
    BY DEF Written
  <1>2. j \in DOMAIN stmts' /\ Lasting(j, q, v)'
    BY <1>1, LastingStays
  <1>3. stmts'[j].tid = u
    BY <1>1 DEF Grown
  <1> QED BY <1>2, <1>3 DEF Written

-----------------------------------------------------------------------------
(* A transaction that has only started has executed one statement.           *)
LEMMA IdleOutside ==
  ASSUME TypeInv, NEW t, Idle(t)
  PROVE  \A m \in DOMAIN stmts : ~Inside(m, t)
PROOF
  <1> DEFINE D == {i \in DOMAIN stmts : stmts[i].tid = t}
  <1>1. DOMAIN stmts = 1..Len(stmts) /\ Len(stmts) \in Nat
    BY DEF TypeInv
  <1>2. IsFiniteSet(D)
    <2>1. IsFiniteSet(1..Len(stmts)) /\ D \in SUBSET (1..Len(stmts))
      BY <1>1, FS_Interval
    <2> QED BY <2>1, FS_Subset
  <1>3. PICK x : D = {x}
    <2> HIDE DEF D
    <2> QED BY <1>2, FS_Singleton DEF Idle, D
  <1>4. ASSUME NEW m \in DOMAIN stmts, NEW n \in DOMAIN stmts, n < m,
               stmts[m].tid = t, stmts[n].tid = t
        PROVE  FALSE
    <2>1. m \in D /\ n \in D
      BY <1>4
    <2>2. m = n /\ m \in Nat
      BY <1>1, <1>3, <2>1
    <2> QED BY <1>4, <2>2
  <1> QED BY <1>4 DEF Inside

(* What an active transaction sees: an initial row, or a version that lasts, *)
(* of a committed transaction if the level is not "dirty".                   *)
LEMMA Seeing ==
  ASSUME TypeInv, StoreInv, SnapInv, PendingInv, NEW t \in Active, NEW q \in RowPool,
         NEW v, Visible(t)[q] = v, v # Gone
  PROVE  \/ Initial(q, v)
         \/ \E j \in DOMAIN stmts :
               /\ Lasting(j, q, v)
               /\ stmts[j].tid # t /\ level # "dirty" =>
                     /\ HasCommitted(j)
                     /\ level = "snapshot" => \/ EndsBefore(j, t)
                                              \/ \A m \in DOMAIN stmts : ~Inside(m, t)
PROOF
  <1> DEFINE Good == \/ Initial(q, v)
                     \/ \E j \in DOMAIN stmts :
                           /\ Lasting(j, q, v)
                           /\ stmts[j].tid # t /\ level # "dirty" =>
                                 /\ HasCommitted(j)
                                 /\ level = "snapshot" =>
                                       \/ EndsBefore(j, t)
                                       \/ \A m \in DOMAIN stmts : ~Inside(m, t)
  <1>0. t \in Txns /\ store \in [RowPool -> Nat] /\ snap[t] \in [RowPool -> Nat]
    BY DEF TypeInv, Active
  <1>1. ASSUME q \in DOMAIN pending[t], pending[t][q] = v PROVE Good
    <2>1. Written(t, q, v)
      BY <1>0, <1>1 DEF PendingInv
    <2> QED BY <2>1 DEF Written
  <1>2. ASSUME Known(q, v), level # "snapshot" \/ \A m \in DOMAIN stmts : ~Inside(m, t) PROVE Good
    BY <1>2 DEF Known
  <1>3. CASE level = "serializable"
    <2>1. Visible(t) = Overlay(store, pending[t])
      BY <1>3 DEF Visible
    <2>2. v = IF q \in DOMAIN pending[t] THEN pending[t][q] ELSE store[q]
      BY <1>0, <2>1 DEF Overlay
    <2>3. q \notin DOMAIN pending[t] => Known(q, v)
      BY <2>2 DEF StoreInv
    <2> QED BY <1>1, <1>2, <1>3, <2>2, <2>3
  <1>4. CASE level = "snapshot"
    <2>1. Visible(t) = Overlay(Snapshot(t), pending[t])
      BY <1>4 DEF Visible
    <2>2. v = IF q \in DOMAIN pending[t] THEN pending[t][q] ELSE Snapshot(t)[q]
      BY <1>0, <2>1 DEF Overlay, Snapshot
    <2>3. CASE q \in DOMAIN pending[t]
      BY <1>1, <2>2, <2>3
    <2>4. CASE q \notin DOMAIN pending[t] /\ Idle(t)
      <3>1. v = store[q]
        BY <1>4, <2>2, <2>4 DEF Snapshot
      <3>2. \A m \in DOMAIN stmts : ~Inside(m, t)
        BY <2>4, IdleOutside
      <3> QED BY <1>2, <3>1, <3>2 DEF StoreInv
    <2>5. CASE q \notin DOMAIN pending[t] /\ ~Idle(t)
      <3>1. v = snap[t][q]
        BY <2>2, <2>5 DEF Snapshot
      <3>2. KnownBefore(t, q, v)
        BY <1>0, <3>1 DEF SnapInv
      <3> QED BY <3>2 DEF KnownBefore
    <2> QED BY <2>3, <2>4, <2>5
  <1>5. CASE level = "dirty"
    <2> DEFINE rows == UNION {DOMAIN pending[u] : u \in Active}
               by(r) == CHOOSE u \in Active : r \in DOMAIN pending[u]
               dirty == [r \in rows |-> pending[by(r)][r]]
    <2>1. Visible(t) = Overlay(store, dirty)
      BY <1>5 DEF Visible
    <2>2. v = IF q \in rows THEN dirty[q] ELSE store[q]
      <3> HIDE DEF rows
      <3>1. DOMAIN dirty = rows
        OBVIOUS
      <3> HIDE DEF dirty
      <3> QED BY <1>0, <2>1, <3>1 DEF Overlay
    <2>3. CASE q \in rows
      <3>1. \E u \in Active : q \in DOMAIN pending[u]
        BY <2>3
      <3>2. by(q) \in Active /\ q \in DOMAIN pending[by(q)]
        BY <3>1
      <3>3. v = pending[by(q)][q]
        <4> HIDE DEF rows, by
        <4> QED BY <2>2, <2>3
      <3> HIDE DEF by
      <3>4. Written(by(q), q, v)
        BY <3>2, <3>3 DEF PendingInv, Active
      <3> QED BY <1>5, <3>4 DEF Written
    <2>4. CASE q \notin rows
      <3>1. Known(q, v)
        <4> HIDE DEF rows, dirty
        <4> QED BY <2>2, <2>4 DEF StoreInv
      <3> QED BY <1>2, <1>5, <3>1
    <2> QED BY <2>3, <2>4
  <1> QED BY <1>3, <1>4, <1>5 DEF TypeInv

-----------------------------------------------------------------------------
(* The statements b that a step adds for transaction t: what it reads it     *)
(* sees, and a read behind a write has the new version.                      *)
Fits(t, b, p) ==
    /\ b[p].use = "INIT_TYPE" => b[p].out = {}
    /\ b[p].use # "AFTER_WRITE_READ" =>
          \A x \in b[p].out :
              /\ t \in Active /\ x.row \in RowPool /\ x.ver = Visible(t)[x.row] /\ x.ver # Gone
              /\ \A k \in 1..(p - 1) : b[k].use # "BEFORE_WRITE_READ"
    /\ b[p].use = "AFTER_WRITE_READ" =>
          /\ p = Len(b) /\ p - 1 \in 1..Len(b) /\ b[p - 1].use \in {"UPDATE_WRITE", "INSERT_WRITE"}
          /\ write_op_id' = write_op_id + 1
          /\ \E q \in RowPool : b[p].out = {[row |-> q, ver |-> write_op_id + 1]}
    /\ b[p].use = "BEFORE_WRITE_READ" =>
          p + 1 \in 1..Len(b) /\ b[p + 1].use \in {"UPDATE_WRITE", "DELETE_WRITE"}
    /\ b[p].use = "VERSION_SET_READ" => \E k \in 1..Len(b) : p < k /\ b[k].use \in Original

(* A step that adds the statements b for transaction t.                      *)
Adds(t, b) ==
    /\ t \in Txns /\ status[t] \in {"none", "active"} /\ status'[t] # "none"
    /\ \A u \in Txns \ {t} : status'[u] = status[u]
    /\ level' = level
    /\ b \in Seq(Statements) /\ stmts' = stmts \o b
    /\ \A p \in 1..Len(b) : b[p].tid = t /\ Fits(t, b, p)
    /\ status[t] = "none" => 1 \in 1..Len(b) /\ \A p \in 1..Len(b) : b[p].use = "INIT_TYPE"
    /\ write_op_id' \in Nat /\ write_op_id' >= write_op_id

(* Where the added statements are, and that they fit.                        *)
LEMMA AddsGrown ==
  ASSUME TypeInv, NEW t, NEW b, Adds(t, b)
  PROVE  /\ Grown(t) /\ stmts' \in Seq(Statements)
         /\ DOMAIN stmts = 1..Len(stmts) /\ DOMAIN stmts' = 1..(Len(stmts) + Len(b))
         /\ Len(stmts) \in Nat /\ Len(b) \in Nat
         /\ \A i \in DOMAIN stmts : i \in DOMAIN stmts' /\ stmts'[i] = stmts[i]
         /\ \A i \in DOMAIN stmts' : i \notin DOMAIN stmts =>
               /\ i - Len(stmts) \in 1..Len(b) /\ stmts'[i] = b[i - Len(stmts)]
               /\ i > Len(stmts) /\ stmts'[i].tid = t /\ Fits(t, b, i - Len(stmts))
         /\ \A p \in 1..Len(b) : /\ p + Len(stmts) \in DOMAIN stmts' /\ p + Len(stmts) \notin DOMAIN stmts
                                 /\ stmts'[p + Len(stmts)] = b[p]
PROOF
  <1>1. Grown(t)
    BY GrowsBy DEF Adds
  <1>2. stmts \in Seq(Statements) /\ b \in Seq(Statements) /\ stmts' = stmts \o b
    BY DEF TypeInv, Adds
  <1>3. /\ stmts' \in Seq(Statements)
        /\ DOMAIN stmts = 1..Len(stmts) /\ DOMAIN stmts' = 1..(Len(stmts) + Len(b))
        /\ Len(stmts) \in Nat /\ Len(b) \in Nat
        /\ \A i \in DOMAIN stmts : i \in DOMAIN stmts' /\ stmts'[i] = stmts[i]
        /\ \A i \in DOMAIN stmts' : i \notin DOMAIN stmts =>
              /\ i - Len(stmts) \in 1..Len(b) /\ stmts'[i] = b[i - Len(stmts)]
              /\ i > Len(stmts)
        /\ \A p \in 1..Len(b) : /\ p + Len(stmts) \in DOMAIN stmts' /\ p + Len(stmts) \notin DOMAIN stmts
                                /\ stmts'[p + Len(stmts)] = b[p]
    BY <1>2, Extending
  <1>4. \A p \in 1..Len(b) : b[p].tid = t /\ Fits(t, b, p)
    BY DEF Adds
  <1> QED BY <1>1, <1>3, <1>4

(* A transaction still begins with a statement that has no output.           *)
LEMMA AddsStart ==
  ASSUME TypeInv, StartInv, NEW t, NEW b, Adds(t, b)
  PROVE  StartInv'
PROOF
  <1>1. Grown(t)
    BY AddsGrown
  <1>2. ASSUME NEW i \in DOMAIN stmts', stmts'[i].use = "INIT_TYPE" PROVE stmts'[i].out = {}
    <2>1. CASE i \in DOMAIN stmts
      BY <1>1, <1>2, <2>1 DEF Grown, StartInv
    <2>2. CASE i \notin DOMAIN stmts
      BY <1>2, <2>2, AddsGrown DEF Fits
    <2> QED BY <2>1, <2>2
  <1>3. ASSUME NEW i \in DOMAIN stmts' PROVE status'[stmts'[i].tid] # "none"
    <2>1. CASE i \in DOMAIN stmts
      <3>1. stmts'[i] = stmts[i] /\ stmts[i].tid \in Txns /\ status[stmts[i].tid] # "none"
        BY <1>1, <2>1 DEF Grown, StartInv
      <3> QED BY <3>1 DEF Adds
    <2>2. CASE i \notin DOMAIN stmts
      <3>1. stmts'[i].tid = t
        BY <1>1, <2>2 DEF Grown
      <3> QED BY <3>1 DEF Adds
    <2> QED BY <2>1, <2>2
  <1>4. ASSUME NEW i \in DOMAIN stmts', stmts'[i].use # "INIT_TYPE"
        PROVE  \E m \in DOMAIN stmts' : m < i /\ stmts'[m].tid = stmts'[i].tid
    <2>1. CASE i \in DOMAIN stmts
      <3>1. PICK m \in DOMAIN stmts : m < i /\ stmts[m].tid = stmts[i].tid
        BY <1>1, <1>4, <2>1 DEF Grown, StartInv
      <3> QED BY <1>1, <2>1, <3>1 DEF Grown
    <2>2. CASE i \notin DOMAIN stmts
      <3>1. /\ i - Len(stmts) \in 1..Len(b) /\ stmts'[i] = b[i - Len(stmts)]
            /\ stmts'[i].tid = t
        BY <2>2, AddsGrown
      <3>2. status[t] # "none"
        BY <1>4, <3>1 DEF Adds
      <3>3. t \in Active
        BY <3>2 DEF Adds, Active
      <3>4. PICK m \in DOMAIN stmts : stmts[m].tid = t
        BY <3>3 DEF StartInv
      <3>5. m \in DOMAIN stmts' /\ stmts'[m].tid = t /\ m < i
        BY <1>1, <2>2, <3>4 DEF Grown
      <3> QED BY <3>1, <3>5
    <2> QED BY <2>1, <2>2
  <1>5. ASSUME NEW u \in Txns, status'[u] = "active" PROVE \E m \in DOMAIN stmts' : stmts'[m].tid = u
    <2>1. CASE status[u] = "active"
      <3>1. PICK m \in DOMAIN stmts : stmts[m].tid = u
        BY <2>1 DEF StartInv, Active
      <3> QED BY <1>1, <3>1 DEF Grown
    <2>2. CASE status[u] # "active"
      <3>1. u = t
        BY <1>5, <2>2 DEF Adds
      <3>2. 1 \in 1..Len(b)
        BY <2>2, <3>1 DEF Adds
      <3>3. 1 + Len(stmts) \in DOMAIN stmts' /\ stmts'[1 + Len(stmts)] = b[1] /\ b[1].tid = t
        BY <3>2, AddsGrown DEF Adds
      <3> QED BY <3>1, <3>3
    <2> QED BY <2>1, <2>2
  <1> QED BY <1>2, <1>3, <1>4, <1>5 DEF StartInv, Active

(* The reads the instrumentor put around a statement are still around it:    *)
(* they come and stay in one block.                                          *)
LEMMA AddsInstrument ==
  ASSUME TypeInv, InstrumentInv, NEW t, NEW b, Adds(t, b)
  PROVE  InstrumentInv'
PROOF
  <1> PICK n : n = Len(stmts)
    OBVIOUS
  <1>0. /\ n \in Nat /\ DOMAIN stmts = 1..n /\ Len(b) \in Nat /\ DOMAIN stmts' = 1..(n + Len(b))
        /\ \A i \in DOMAIN stmts : i \in DOMAIN stmts' /\ stmts'[i] = stmts[i]
        /\ \A i \in DOMAIN stmts' : i \notin DOMAIN stmts =>
               /\ i - n \in 1..Len(b) /\ stmts'[i] = b[i - n]
               /\ i > n /\ stmts'[i].tid = t /\ Fits(t, b, i - n)
        /\ \A p \in 1..Len(b) : /\ p + n \in DOMAIN stmts' /\ p + n \notin DOMAIN stmts
                                /\ stmts'[p + n] = b[p]
    BY AddsGrown
  <1>1. ASSUME NEW i \in DOMAIN stmts, NEW k, NEW uses, Follows(i, k, uses) PROVE Follows(i, k, uses)'
    BY <1>0, <1>1 DEF Follows
  <1>2. ASSUME NEW i \in DOMAIN stmts'
        PROVE  /\ stmts'[i].use = "BEFORE_WRITE_READ" => Follows(i, i + 1, {"UPDATE_WRITE", "DELETE_WRITE"})'
               /\ stmts'[i].use = "AFTER_WRITE_READ" => Follows(i, i - 1, {"UPDATE_WRITE", "INSERT_WRITE"})'
               /\ stmts'[i].use = "VERSION_SET_READ" =>
                     \E k \in DOMAIN stmts' : /\ i < k /\ stmts'[k].use \in Original
                                              /\ \A m \in (i + 1)..k : stmts'[m].tid = stmts'[i].tid
    <2>1. CASE i \in DOMAIN stmts
      <3>1. stmts'[i] = stmts[i]
        BY <1>0, <2>1
      <3>2. /\ stmts[i].use = "BEFORE_WRITE_READ" => Follows(i, i + 1, {"UPDATE_WRITE", "DELETE_WRITE"})
            /\ stmts[i].use = "AFTER_WRITE_READ" => Follows(i, i - 1, {"UPDATE_WRITE", "INSERT_WRITE"})
        BY <2>1 DEF InstrumentInv
      <3>3. /\ stmts[i].use = "BEFORE_WRITE_READ" => Follows(i, i + 1, {"UPDATE_WRITE", "DELETE_WRITE"})'
            /\ stmts[i].use = "AFTER_WRITE_READ" => Follows(i, i - 1, {"UPDATE_WRITE", "INSERT_WRITE"})'
        BY <1>1, <2>1, <3>2
      <3>4. ASSUME stmts[i].use = "VERSION_SET_READ"
            PROVE  \E k \in DOMAIN stmts' : /\ i < k /\ stmts'[k].use \in Original
                                            /\ \A m \in (i + 1)..k : stmts'[m].tid = stmts'[i].tid
        <4>1. PICK k \in DOMAIN stmts : /\ i < k /\ stmts[k].use \in Original
                                        /\ \A m \in (i + 1)..k : stmts[m].tid = stmts[i].tid
          BY <2>1, <3>4 DEF InstrumentInv
        <4>2. ASSUME NEW m \in (i + 1)..k PROVE stmts'[m].tid = stmts'[i].tid
          <5>1. m \in DOMAIN stmts
            BY <1>0, <2>1
          <5> QED BY <1>0, <2>1, <4>1, <5>1
        <4> QED BY <1>0, <4>1, <4>2
      <3> QED BY <3>1, <3>3, <3>4
    <2>2. CASE i \notin DOMAIN stmts
      <3> DEFINE p == i - n
      <3>1. p \in 1..Len(b) /\ stmts'[i] = b[p] /\ Fits(t, b, p) /\ p + n = i /\ stmts'[i].tid = t
        BY <1>0, <2>2
      <3>2. ASSUME NEW k \in 1..Len(b), NEW uses, b[k].use \in uses PROVE Follows(i, k + n, uses)'
        <4>1. k + n \in DOMAIN stmts' /\ stmts'[k + n] = b[k] /\ stmts'[k + n].tid = t
          BY <1>0
        <4> QED BY <3>1, <3>2, <4>1 DEF Follows
      <3>3. ASSUME b[p].use = "BEFORE_WRITE_READ"
            PROVE  Follows(i, i + 1, {"UPDATE_WRITE", "DELETE_WRITE"})'
        <4>1. p + 1 \in 1..Len(b) /\ b[p + 1].use \in {"UPDATE_WRITE", "DELETE_WRITE"}
          BY <3>1, <3>3 DEF Fits
        <4>2. Follows(i, (p + 1) + n, {"UPDATE_WRITE", "DELETE_WRITE"})'
          BY <3>2, <4>1
        <4>3. (p + 1) + n = i + 1
          BY <1>0, <3>1
        <4> QED BY <4>2, <4>3
      <3>4. ASSUME b[p].use = "AFTER_WRITE_READ"
            PROVE  Follows(i, i - 1, {"UPDATE_WRITE", "INSERT_WRITE"})'
        <4>1. p - 1 \in 1..Len(b) /\ b[p - 1].use \in {"UPDATE_WRITE", "INSERT_WRITE"}
          BY <3>1, <3>4 DEF Fits
        <4>2. Follows(i, (p - 1) + n, {"UPDATE_WRITE", "INSERT_WRITE"})'
          BY <3>2, <4>1
        <4>3. (p - 1) + n = i - 1
          BY <1>0, <3>1
        <4> QED BY <4>2, <4>3
      <3>5. ASSUME b[p].use = "VERSION_SET_READ"
            PROVE  \E k \in DOMAIN stmts' : /\ i < k /\ stmts'[k].use \in Original
                                            /\ \A m \in (i + 1)..k : stmts'[m].tid = stmts'[i].tid
        <4>1. PICK k \in 1..Len(b) : p < k /\ b[k].use \in Original
          BY <3>1, <3>5 DEF Fits
        <4>2. k + n \in DOMAIN stmts' /\ stmts'[k + n] = b[k] /\ i < k + n
          BY <1>0, <3>1, <4>1
        <4>3. ASSUME NEW m \in (i + 1)..(k + n) PROVE stmts'[m].tid = stmts'[i].tid
          <5>1. m \in DOMAIN stmts' /\ m \notin DOMAIN stmts
            <6> HIDE DEF p
            <6>1. i > n /\ i \in Nat /\ k + n <= n + Len(b)
              BY <1>0, <2>2
            <6> QED BY <1>0, <6>1
          <5> QED BY <1>0, <3>1, <5>1
        <4> QED BY <4>1, <4>2, <4>3
      <3> QED BY <3>1, <3>3, <3>4, <3>5
    <2> QED BY <2>1, <2>2
  <1> QED BY <1>2 DEF InstrumentInv

(* A write of the block has a version key above all others.                  *)
LEMMA AddsVersion ==
  ASSUME TypeInv, VersionInv, NEW t, NEW b, Adds(t, b)
  PROVE  VersionInv'
PROOF
  <1> PICK n : n = Len(stmts)
    OBVIOUS
  <1>0. /\ n \in Nat /\ DOMAIN stmts = 1..n /\ Len(b) \in Nat /\ DOMAIN stmts' = 1..(n + Len(b))
        /\ \A i \in DOMAIN stmts : i \in DOMAIN stmts' /\ stmts'[i] = stmts[i]
        /\ \A i \in DOMAIN stmts' : i \notin DOMAIN stmts =>
               /\ i - n \in 1..Len(b) /\ stmts'[i] = b[i - n]
               /\ i > n /\ Fits(t, b, i - n)
    BY AddsGrown
  <1>1. /\ write_op_id \in Nat /\ write_op_id >= Cardinality(RowPool)
        /\ write_op_id' \in Nat /\ write_op_id' >= write_op_id
        /\ RowPool = 1..Cardinality(RowPool) /\ Cardinality(RowPool) \in Nat
    BY DepAssumption DEF TypeInv, Adds
  <1>2. ASSUME NEW j \in DOMAIN stmts', j \notin DOMAIN stmts, stmts'[j].use = "AFTER_WRITE_READ"
        PROVE  /\ j = n + Len(b) /\ write_op_id' = write_op_id + 1
               /\ \E q \in RowPool : stmts'[j].out = {[row |-> q, ver |-> write_op_id + 1]}
    <2>1. PICK p \in 1..Len(b) : p = j - n
      BY <1>0, <1>2
    <2>2. Fits(t, b, p) /\ stmts'[j] = b[p] /\ j \in Nat
      BY <1>0, <1>2, <2>1
    <2>3. /\ p = Len(b) /\ write_op_id' = write_op_id + 1
          /\ \E q \in RowPool : b[p].out = {[row |-> q, ver |-> write_op_id + 1]}
      BY <1>2, <2>2 DEF Fits
    <2>4. j = n + Len(b)
      BY <1>0, <2>1, <2>2, <2>3
    <2> QED BY <2>2, <2>3, <2>4
  <1>3. ASSUME NEW j \in DOMAIN stmts', stmts'[j].use = "AFTER_WRITE_READ"
        PROVE  \E q \in RowPool : \E v \in Nat : /\ Source(j, q, v)' /\ v \notin RowPool
                                                 /\ v <= write_op_id'
                                                 /\ j \in DOMAIN stmts => v <= write_op_id
                                                 /\ j \notin DOMAIN stmts => v = write_op_id + 1
    <2>1. CASE j \in DOMAIN stmts
      <3>1. PICK q \in RowPool, v \in Nat : Source(j, q, v) /\ v \notin RowPool /\ v <= write_op_id
        BY <1>0, <1>3, <2>1 DEF VersionInv
      <3>2. Source(j, q, v)'
        BY <1>0, <2>1, <3>1 DEF Source
      <3>3. v <= write_op_id'
        BY <1>1, <3>1
      <3> QED BY <2>1, <3>1, <3>2, <3>3
    <2>2. CASE j \notin DOMAIN stmts
      <3>1. PICK q \in RowPool : stmts'[j].out = {[row |-> q, ver |-> write_op_id + 1]}
        BY <1>2, <1>3, <2>2
      <3>2. write_op_id' = write_op_id + 1
        BY <1>2, <1>3, <2>2
      <3>3. PICK v \in Nat : v = write_op_id + 1
        BY <1>1
      <3>4. Source(j, q, v)'
        BY <1>3, <3>1, <3>3 DEF Source
      <3>5. v \notin RowPool /\ v <= write_op_id'
        BY <1>1, <3>2, <3>3
      <3> QED BY <2>2, <3>3, <3>4, <3>5
    <2> QED BY <2>1, <2>2
  <1>4. ASSUME NEW j \in DOMAIN stmts', NEW q, NEW v \in Nat, Source(j, q, v)'
        PROVE  /\ j \in DOMAIN stmts => v <= write_op_id /\ Source(j, q, v)
               /\ j \notin DOMAIN stmts => v = write_op_id + 1 /\ j = n + Len(b)
    <2>1. stmts'[j].use = "AFTER_WRITE_READ" /\ stmts'[j].out = {[row |-> q, ver |-> v]}
      BY <1>4 DEF Source
    <2>2. PICK p \in RowPool, w \in Nat : /\ Source(j, p, w)'
                                          /\ j \in DOMAIN stmts => w <= write_op_id
                                          /\ j \notin DOMAIN stmts => w = write_op_id + 1
      BY <1>3, <2>1
    <2>3. [row |-> q, ver |-> v] = [row |-> p, ver |-> w]
      BY <2>1, <2>2 DEF Source
    <2>4. v = w
      BY <2>3
    <2>5. j \in DOMAIN stmts => Source(j, q, v)
      BY <1>0, <2>1 DEF Source
    <2>6. j \notin DOMAIN stmts => j = n + Len(b)
      BY <1>2, <2>1
    <2> QED BY <2>2, <2>4, <2>5, <2>6
  <1>5. ASSUME NEW j \in DOMAIN stmts', NEW k \in DOMAIN stmts', NEW p \in RowPool, NEW q \in RowPool,
               NEW v \in Nat, Source(j, p, v)', Source(k, q, v)'
        PROVE  j = k
    <2>1. write_op_id + 1 > write_op_id
      BY <1>1
    <2>2. j \in DOMAIN stmts <=> k \in DOMAIN stmts
      BY <1>1, <1>4, <1>5
    <2>3. CASE j \in DOMAIN stmts
      BY <1>4, <1>5, <2>2, <2>3 DEF VersionInv
    <2>4. CASE j \notin DOMAIN stmts
      BY <1>4, <1>5, <2>2, <2>4
    <2> QED BY <2>3, <2>4
  <1>6. \A j \in DOMAIN stmts' : stmts'[j].use = "AFTER_WRITE_READ" =>
          \E q \in RowPool : \E v \in Nat : Source(j, q, v)' /\ v \notin RowPool /\ v <= write_op_id'
    BY <1>3
  <1> QED BY <1>5, <1>6 DEF VersionInv, RowPool

(* What the reads of the block saw came from the store, from the snapshot or *)
(* from a pending write, each of which holds versions that are known.        *)
LEMMA AddsRead ==
  ASSUME TypeInv, StoreInv, SnapInv, PendingInv, ReadInv, NEW t, NEW b, Adds(t, b)
  PROVE  ReadInv'
PROOF
  <1> PICK n : n = Len(stmts)
    OBVIOUS
  <1>0. /\ n \in Nat /\ DOMAIN stmts = 1..n /\ Len(b) \in Nat /\ DOMAIN stmts' = 1..(n + Len(b))
        /\ \A i \in DOMAIN stmts : i \in DOMAIN stmts' /\ stmts'[i] = stmts[i]
        /\ \A i \in DOMAIN stmts' : i \notin DOMAIN stmts =>
               /\ i - n \in 1..Len(b) /\ stmts'[i] = b[i - n]
               /\ i > n /\ stmts'[i].tid = t /\ Fits(t, b, i - n)
    BY AddsGrown
  <1>1. Grown(t)
    BY AddsGrown
  <1> SUFFICES ASSUME NEW i \in DOMAIN stmts', stmts'[i].use # "AFTER_WRITE_READ", NEW x \in stmts'[i].out
               PROVE  \/ Initial(x.row, x.ver)
                      \/ \E j \in DOMAIN stmts' : CameFrom(i, j, x.row, x.ver)'
    BY DEF ReadInv, Initial
  <1>2. CASE i \in DOMAIN stmts
    <2>1. stmts'[i] = stmts[i]
      BY <1>0, <1>2
    <2>2. CASE Initial(x.row, x.ver)
      BY <2>2
    <2>3. CASE ~Initial(x.row, x.ver)
      <3>1. PICK j \in DOMAIN stmts : CameFrom(i, j, x.row, x.ver)
        BY <1>2, <2>1, <2>3 DEF ReadInv
      <3>2. j \in DOMAIN stmts' /\ CameFrom(i, j, x.row, x.ver)'
        BY <1>1, <1>2, <3>1, CameFromStays
      <3> QED BY <3>2
    <2> QED BY <2>2, <2>3
  <1>3. CASE i \notin DOMAIN stmts
    <2> DEFINE p == i - n
               q == x.row
               v == x.ver
    <2>1. p \in 1..Len(b) /\ stmts'[i] = b[p] /\ Fits(t, b, p) /\ i > n /\ stmts'[i].tid = t
      BY <1>0, <1>3
    <2>2. /\ t \in Active /\ q \in RowPool /\ v = Visible(t)[q] /\ v # Gone
          /\ \A k \in 1..(p - 1) : b[k].use # "BEFORE_WRITE_READ"
      <3> HIDE DEF p
      <3> QED BY <2>1 DEF Fits
    <2> HIDE DEF q, v
    <2>3. CASE Initial(q, v)
      BY <2>3 DEF q, v
    <2>4. CASE ~Initial(q, v)
      <3>1. PICK j \in DOMAIN stmts :
               /\ Lasting(j, q, v)
               /\ stmts[j].tid # t /\ level # "dirty" =>
                     /\ HasCommitted(j)
                     /\ level = "snapshot" => EndsBefore(j, t) \/ \A m \in DOMAIN stmts : ~Inside(m, t)
        BY <2>2, <2>4, Seeing
      <3>2. j \in DOMAIN stmts' /\ stmts'[j] = stmts[j] /\ j < i
        BY <1>0, <1>3
      <3>3. Source(j, q, v)'
        BY <1>1, <3>1, SourceStays DEF Lasting
      <3>4. Promised(i, j)'
        <4> SUFFICES ASSUME stmts[j].tid # t, level # "dirty"
                     PROVE  /\ HasCommitted(j)'
                            /\ \A k \in DOMAIN stmts' : stmts'[k].tid = stmts[j].tid => k < i
                            /\ level = "snapshot" => EndsBefore(j, t)'
          <5>1. level' = level /\ stmts'[i].tid = t
            BY <2>1 DEF Adds
          <5> QED BY <3>2, <5>1 DEF Promised, EndsBefore, Inside
        <4>1. HasCommitted(j)' /\ stmts[j].tid # t
          BY <1>1, <3>1, CommittedStays
        <4>2. ASSUME NEW k \in DOMAIN stmts', stmts'[k].tid = stmts[j].tid PROVE k < i
          <5>1. k \in DOMAIN stmts
            BY <1>0, <4>1, <4>2
          <5> QED BY <1>0, <1>3, <5>1
        <4>3. level = "snapshot" => EndsBefore(j, t)'
          BY <1>1, <3>1, EndsBeforeStays
        <4> QED BY <4>1, <4>2, <4>3
      <3>5. ASSUME NEW k \in DOMAIN stmts', Replaces(k, j, q, v)' PROVE i <= k
        <4>1. CASE k \in DOMAIN stmts
          <5>1. Replaces(k, j, q, v)
            BY <1>0, <3>5, <4>1 DEF Replaces
          <5> QED BY <3>1, <4>1, <5>1 DEF Lasting
        <4>2. CASE k \notin DOMAIN stmts
          <5>1. k - n \in 1..Len(b) /\ stmts'[k] = b[k - n] /\ b[k - n].use = "BEFORE_WRITE_READ"
            BY <1>0, <3>5, <4>2 DEF Replaces
          <5>2. k - n \notin 1..(p - 1)
            <6> HIDE DEF p
            <6> QED BY <2>2, <5>1
          <5> QED BY <1>0, <5>1, <5>2
        <4> QED BY <4>1, <4>2
      <3>6. CameFrom(i, j, q, v)'
        BY <3>2, <3>3, <3>4, <3>5 DEF CameFrom
      <3> QED BY <3>2, <3>6 DEF q, v
    <2> QED BY <2>3, <2>4
  <1> QED BY <1>2, <1>3

-----------------------------------------------------------------------------
(* A transaction sees a version, or none, of every row.                      *)
LEMMA VisibleType ==
  ASSUME TypeInv, NEW t \in Active
  PROVE  Visible(t) \in [RowPool -> Nat]
PROOF
  <1>0. /\ t \in Txns /\ store \in [RowPool -> Nat] /\ snap[t] \in [RowPool -> Nat]
        /\ pending[t] \in [DOMAIN pending[t] -> Nat]
    BY DEF TypeInv, Active
  <1>1. ASSUME NEW f \in [RowPool -> Nat], NEW D, NEW g \in [D -> Nat]
        PROVE  Overlay(f, g) \in [RowPool -> Nat]
    BY DEF Overlay
  <1>2. CASE level = "serializable"
    BY <1>0, <1>1, <1>2 DEF Visible
  <1>3. CASE level = "snapshot"
    <2>1. Snapshot(t) \in [RowPool -> Nat]
      BY <1>0 DEF Snapshot
    <2> QED BY <1>0, <1>1, <1>3, <2>1 DEF Visible
  <1>4. CASE level = "dirty"
    <2> DEFINE rows == UNION {DOMAIN pending[u] : u \in Active}
               by(r) == CHOOSE u \in Active : r \in DOMAIN pending[u]
               dirty == [r \in rows |-> pending[by(r)][r]]
    <2>1. ASSUME NEW r \in rows PROVE pending[by(r)][r] \in Nat
      <3>1. \E u \in Active : r \in DOMAIN pending[u]
        OBVIOUS
      <3>2. by(r) \in Active /\ r \in DOMAIN pending[by(r)]
        BY <3>1
      <3> HIDE DEF by
      <3>3. pending[by(r)] \in [DOMAIN pending[by(r)] -> Nat]
        BY <3>2 DEF TypeInv, Active
      <3> QED BY <3>2, <3>3
    <2>2. dirty \in [rows -> Nat]
      <3> HIDE DEF rows, by
      <3> QED BY <2>1
    <2>3. Visible(t) = Overlay(store, dirty)
      BY <1>4 DEF Visible
    <2> HIDE DEF rows, dirty
    <2> QED BY <1>0, <1>1, <2>2, <2>3
  <1> QED BY <1>2, <1>3, <1>4 DEF TypeInv

(* The rows of an output are rows that are there, with the version seen.     *)
LEMMA SeenRows ==
  ASSUME TypeInv, NEW t \in Active, NEW rs \in SUBSET RowPool
  PROVE  /\ RowsOf(Visible(t), rs) \in SUBSET Versions
         /\ \A x \in RowsOf(Visible(t), rs) : /\ x.row \in rs /\ x.row \in RowPool
                                              /\ x.ver = Visible(t)[x.row] /\ x.ver # Gone
PROOF
  <1>1. Visible(t) \in [RowPool -> Nat]
    BY VisibleType
  <1>2. ASSUME NEW x \in RowsOf(Visible(t), rs)
        PROVE  /\ x \in Versions /\ x.row \in rs /\ x.row \in RowPool
               /\ x.ver = Visible(t)[x.row] /\ x.ver # Gone
    <2>1. PICK r \in rs : Visible(t)[r] # Gone /\ x = [row |-> r, ver |-> Visible(t)[r]]
      BY DEF RowsOf
    <2> QED BY <1>1, <2>1 DEF Versions
  <1> QED BY <1>2

(* The statements that read what t sees.                                     *)
LEMMA ReadStatement ==
  ASSUME TypeInv, NEW t \in Active, NEW rs \in SUBSET RowPool, NEW r \in RowPool,
         NEW use \in Uses
  PROVE  /\ Stmt(t, use, TableOf[r], RowsOf(Visible(t), rs)) \in Statements
         /\ Stmt(t, use, TableOf[r], {}) \in Statements
         /\ VersionSetRead(t, TableOf[r]) \in Statements
         /\ VersionSetRead(t, TableOf[r]).tid = t
         /\ VersionSetRead(t, TableOf[r]).use = "VERSION_SET_READ"
         /\ \A x \in VersionSetRead(t, TableOf[r]).out :
               x.row \in RowPool /\ x.ver = Visible(t)[x.row] /\ x.ver # Gone
PROOF
  <1>1. t \in Txns /\ TableOf[r] \in {""} \union {TableOf[q] : q \in RowPool}
    BY DEF Active
  <1>2. RowsOf(Visible(t), rs) \in SUBSET Versions /\ {} \in SUBSET Versions
    BY SeenRows
  <1>3. InTable(TableOf[r]) \in SUBSET RowPool
    BY DEF InTable
  <1>4. /\ RowsOf(Visible(t), InTable(TableOf[r])) \in SUBSET Versions
        /\ \A x \in RowsOf(Visible(t), InTable(TableOf[r])) :
              x.row \in RowPool /\ x.ver = Visible(t)[x.row] /\ x.ver # Gone
    BY <1>3, SeenRows
  <1>5. "VERSION_SET_READ" \in Uses
    BY DEF Uses
  <1>6. ASSUME NEW u \in Uses, NEW out \in SUBSET Versions
        PROVE  Stmt(t, u, TableOf[r], out) \in Statements
    BY <1>1 DEF Stmt, Statements
  <1> QED BY <1>2, <1>4, <1>5, <1>6 DEF VersionSetRead, Stmt

-----------------------------------------------------------------------------
(* What Run() leaves of the invariant, with the statements it adds.          *)
RunKept ==
    /\ StartInv' /\ InstrumentInv' /\ VersionInv' /\ ReadInv' /\ StoreInv' /\ SnapInv'
    /\ level' \in {"serializable", "snapshot", "dirty"}
    /\ store' \in [RowPool -> Nat] /\ snap' \in [Txns -> [RowPool -> Nat]]
    /\ status' \in [Txns -> {"none", "active", "TXN_COMMIT", "TXN_ABORT"}]
    /\ stmts' \in Seq(Statements)
    /\ write_op_id' \in Nat /\ write_op_id' >= Cardinality(RowPool)

(* Run() keeps the parts that the statements, the store and the snapshots    *)
(* are in.                                                                   *)
LEMMA RunKeeps ==
  ASSUME TypeInv, StartInv, InstrumentInv, VersionInv, StoreInv, SnapInv, PendingInv, ReadInv,
         NEW t \in Active, NEW b, Adds(t, b), Run(t, b)
  PROVE  RunKept
PROOF
  <1>1. StartInv' /\ InstrumentInv' /\ VersionInv' /\ ReadInv'
    BY AddsStart, AddsInstrument, AddsVersion, AddsRead
  <1>2. Grown(t) /\ stmts' \in Seq(Statements)
    BY AddsGrown
  <1>3. StoreInv'
    <2>1. store' = store
      BY DEF Run
    <2>2. ASSUME NEW q \in RowPool, store[q] # Gone PROVE Known(q, store[q])'
      <3> PICK v : v = store[q]
        OBVIOUS
      <3>1. Known(q, v)
        BY <2>2 DEF StoreInv
      <3>2. Known(q, v)'
        BY <1>2, <3>1, KnownStays
      <3>3. v = store'[q]
        BY <2>1
      <3> QED BY <3>2, <3>3 DEF Known, Initial, Lasting, Source, Replaces
    <2> QED BY <2>1, <2>2 DEF StoreInv, RowPool
  <1>4. t \in Txns /\ snap \in [Txns -> [RowPool -> Nat]] /\ store \in [RowPool -> Nat]
    BY DEF TypeInv, Active
  <1>5. snap' = [snap EXCEPT ![t] = Snapshot(t)] /\ Snapshot(t) \in [RowPool -> Nat]
    BY <1>4 DEF Run, Snapshot
  <1>6. SnapInv'
    <2> SUFFICES ASSUME NEW u \in Txns, NEW q \in RowPool, NEW v, v = snap'[u][q], v # Gone
                 PROVE  KnownBefore(u, q, v)'
      BY DEF SnapInv, KnownBefore, Initial, Lasting, Source, Replaces, RowPool
    <2>1. CASE v = snap[u][q]
      <3>1. KnownBefore(u, q, v)
        BY <2>1 DEF SnapInv
      <3> QED BY <1>2, <3>1, KnownBeforeStays
    <2>2. CASE v # snap[u][q]
      <3>1. u = t /\ v = Snapshot(t)[q] /\ Snapshot(t) # snap[t]
        BY <1>4, <1>5, <2>2
      <3>2. Idle(t) /\ v = store[q]
        BY <3>1 DEF Snapshot
      <3>3. Known(q, v)
        BY <3>2 DEF StoreInv
      <3>4. \A m \in DOMAIN stmts : ~Inside(m, t)
        BY <3>2, IdleOutside
      <3> QED BY <1>2, <3>1, <3>3, <3>4, KnownBeforeStays
    <2> QED BY <2>1, <2>2
  <1>7. snap' \in [Txns -> [RowPool -> Nat]]
    BY <1>4, <1>5
  <1>8. write_op_id' \in Nat /\ write_op_id' >= Cardinality(RowPool)
    <2>1. /\ write_op_id' \in Nat /\ write_op_id' >= write_op_id
          /\ write_op_id \in Nat /\ write_op_id >= Cardinality(RowPool) /\ Cardinality(RowPool) \in Nat
      BY DepAssumption DEF Adds, TypeInv
    <2> QED BY <2>1
  <1> QED BY <1>1, <1>2, <1>3, <1>4, <1>6, <1>7, <1>8 DEF RunKept, Run, TypeInv

(* A block b leaves v as the version of row r, and replaces no other row.    *)
Leaves(b, r, v) ==
    /\ \A k \in 1..Len(b) : b[k].use = "BEFORE_WRITE_READ" => \A x \in b[k].out : x.row = r
    /\ \/ v = Gone
       \/ /\ Len(b) \in 1..Len(b) /\ b[Len(b)].use = "AFTER_WRITE_READ"
          /\ b[Len(b)].out = {[row |-> r, ver |-> v]}

(* What Write() leaves of the invariant: the new version has its source at   *)
(* the end of the statements, and they replace nothing but this row.         *)
LEMMA WriteKeeps ==
  ASSUME TypeInv, PendingInv, NEW t \in Active, NEW b, Adds(t, b), status' = status,
         NEW r \in RowPool, NEW v \in Nat, Write(t, [q \in {r} |-> v]),
         Leaves(b, r, v)
  PROVE  /\ PendingInv' /\ DOMAIN pending' = Txns
         /\ \A u \in Txns : DOMAIN pending'[u] \subseteq RowPool /\ pending'[u] \in [DOMAIN pending'[u] -> Nat]
PROOF
  <1>0. t \in Txns /\ DOMAIN pending = Txns
    BY DEF TypeInv, Active
  <1>1. /\ DOMAIN pending' = Txns
        /\ \A u \in Txns \ {t} : pending'[u] = pending[u]
        /\ pending'[t] = [q \in DOMAIN pending[t] \union {r} |-> IF q = r THEN v ELSE pending[t][q]]
    <2> DEFINE new == [q \in {r} |-> v]
    <2>1. DOMAIN new = {r} /\ new[r] = v
      OBVIOUS
    <2> HIDE DEF new
    <2>2. pending' = [pending EXCEPT ![t] = [q \in DOMAIN @ \union DOMAIN new |->
                                              IF q \in DOMAIN new THEN new[q] ELSE @[q]]]
      BY DEF Write, new
    <2>3. pending'[t] = [q \in DOMAIN pending[t] \union DOMAIN new |->
                            IF q \in DOMAIN new THEN new[q] ELSE pending[t][q]]
      BY <1>0, <2>2
    <2>4. pending'[t] = [q \in DOMAIN pending[t] \union {r} |-> IF q = r THEN v ELSE pending[t][q]]
      BY <2>1, <2>3
    <2>5. DOMAIN pending' = Txns /\ \A u \in Txns \ {t} : pending'[u] = pending[u]
      BY <1>0, <2>2
    <2> QED BY <2>4, <2>5
  <1>2. Grown(t)
    BY AddsGrown
  <1>3. ASSUME NEW u \in Txns \ Active' PROVE DOMAIN pending'[u] = {}
    BY <1>1, <1>3 DEF PendingInv, Active
  <1>4. ASSUME NEW u \in Txns, NEW q \in DOMAIN pending'[u], NEW w, w = pending'[u][q], w # Gone
        PROVE  Written(u, q, w)'
    <2>1. CASE u # t
      <3>1. q \in DOMAIN pending[u] /\ w = pending[u][q]
        BY <1>1, <1>4, <2>1
      <3>2. Written(u, q, w)
        BY <1>4, <3>1 DEF PendingInv
      <3>3. Written(u, q, w) /\ Grown(t) /\ u # t
        BY <1>2, <2>1, <3>2
      <3>4. PICK j \in DOMAIN stmts : Lasting(j, q, w) /\ stmts[j].tid = u
        BY <3>3 DEF Written
      <3>5. j \in DOMAIN stmts' /\ Lasting(j, q, w)'
        BY <3>3, <3>4, LastingStays
      <3>6. stmts'[j].tid = u
        BY <3>3, <3>4 DEF Grown
      <3> QED BY <3>5, <3>6 DEF Written
    <2>2. CASE u = t /\ q # r
      <3>1. q \in DOMAIN pending[t] /\ w = pending[t][q]
        BY <1>1, <1>4, <2>2
      <3>2. Written(t, q, w)
        BY <1>0, <1>4, <3>1 DEF PendingInv
      <3>3. ASSUME NEW k \in DOMAIN stmts', k \notin DOMAIN stmts,
                   stmts'[k].use = "BEFORE_WRITE_READ"
            PROVE  [row |-> q, ver |-> w] \notin stmts'[k].out
        <4>1. k - Len(stmts) \in 1..Len(b) /\ stmts'[k] = b[k - Len(stmts)]
          BY <3>3, AddsGrown
        <4>2. \A x \in stmts'[k].out : x.row = r
          BY <3>3, <4>1 DEF Leaves
        <4> QED BY <2>2, <4>2
      <3> QED BY <1>2, <2>2, <3>2, <3>3, WrittenStays
    <2>3. CASE u = t /\ q = r
      <3>1. w = v
        BY <1>1, <1>4, <2>3
      <3>2. /\ Len(b) \in 1..Len(b) /\ b[Len(b)].use = "AFTER_WRITE_READ"
            /\ b[Len(b)].out = {[row |-> r, ver |-> v]}
        BY <1>4, <3>1 DEF Leaves
      <3>3. PICK j : j = Len(b) + Len(stmts)
        OBVIOUS
      <3>4. j \in DOMAIN stmts' /\ stmts'[j] = b[Len(b)] /\ DOMAIN stmts' = 1..j
        <4>1. /\ Len(stmts) \in Nat /\ Len(b) \in Nat /\ DOMAIN stmts' = 1..(Len(stmts) + Len(b))
              /\ \A p \in 1..Len(b) : p + Len(stmts) \in DOMAIN stmts' /\ stmts'[p + Len(stmts)] = b[p]
          BY AddsGrown
        <4>2. j = Len(stmts) + Len(b)
          BY <3>3, <4>1
        <4> QED BY <3>2, <3>3, <4>1, <4>2
      <3>5. Source(j, r, v)'
        BY <3>2, <3>4 DEF Source
      <3>6. \A k \in DOMAIN stmts' : ~(j < k)
        BY <3>4
      <3>7. Lasting(j, r, v)'
        BY <3>5, <3>6 DEF Lasting, Replaces
      <3>8. stmts'[j].tid = t
        BY <3>2, <3>4 DEF Adds
      <3> QED BY <2>3, <3>1, <3>4, <3>7, <3>8 DEF Written
    <2> QED BY <2>1, <2>2, <2>3
  <1>5. PendingInv'
    <2>1. ASSUME NEW u \in Txns, NEW q \in DOMAIN pending'[u], pending'[u][q] # Gone
          PROVE  Written(u, q, pending[u][q])'
      <3> PICK w : w = pending'[u][q]
        OBVIOUS
      <3>1. Written(u, q, w)'
        BY <1>4, <2>1
      <3> QED BY <3>1 DEF Written, Lasting, Source, Replaces
    <2> QED BY <1>3, <2>1 DEF PendingInv
  <1>6. ASSUME NEW u \in Txns
        PROVE  DOMAIN pending'[u] \subseteq RowPool /\ pending'[u] \in [DOMAIN pending'[u] -> Nat]
    <2>1. CASE u # t
      <3>1. pending'[u] = pending[u]
        BY <1>1, <2>1
      <3> QED BY <3>1 DEF TypeInv
    <2>2. CASE u = t
      <3>1. DOMAIN pending[t] \subseteq RowPool /\ pending[t] \in [DOMAIN pending[t] -> Nat]
        BY <1>0 DEF TypeInv
      <3> DEFINE f == [q \in DOMAIN pending[t] \union {r} |-> IF q = r THEN v ELSE pending[t][q]]
      <3>2. DOMAIN f = DOMAIN pending[t] \union {r} /\ f \in [DOMAIN pending[t] \union {r} -> Nat]
        BY <3>1
      <3>3. pending'[u] = f
        BY <1>1, <2>2
      <3> HIDE DEF f
      <3> QED BY <3>1, <3>2, <3>3
    <2> QED BY <2>1, <2>2
  <1> QED BY <1>1, <1>5, <1>6

-----------------------------------------------------------------------------
(* The statements of a step, as a sequence.                                  *)
LEMMA Blocks ==
  ASSUME NEW S, NEW a \in S, NEW b \in S, NEW c \in S, NEW d \in S
  PROVE  /\ <<a>> \in Seq(S) /\ Len(<<a>>) = 1 /\ <<a>>[1] = a
         /\ <<a, b>> \in Seq(S) /\ Len(<<a, b>>) = 2 /\ <<a, b>>[1] = a /\ <<a, b>>[2] = b
         /\ <<a, b, c>> \in Seq(S) /\ Len(<<a, b, c>>) = 3
         /\ <<a, b, c>>[1] = a /\ <<a, b, c>>[2] = b /\ <<a, b, c>>[3] = c
         /\ <<a, b, c, d>> \in Seq(S) /\ Len(<<a, b, c, d>>) = 4
         /\ <<a, b, c, d>>[1] = a /\ <<a, b, c, d>>[2] = b
         /\ <<a, b, c, d>>[3] = c /\ <<a, b, c, d>>[4] = d
         /\ \A s \in Seq(S) : Append(s, a) = s \o <<a>>
         /\ 1..1 = {1} /\ 1..2 = {1, 2} /\ 1..3 = {1, 2, 3} /\ 1..4 = {1, 2, 3, 4}
PROOF
  <1>1. \A s \in Seq(S) : Append(s, a) = s \o <<a>>
    OBVIOUS
  <1>2. 1..1 = {1} /\ 1..2 = {1, 2} /\ 1..3 = {1, 2, 3} /\ 1..4 = {1, 2, 3, 4}
    OBVIOUS
  <1> QED BY <1>1, <1>2

(* Pending writes stay the versions their transactions wrote, if none is     *)
(* replaced.                                                                 *)
LEMMA PendingStays ==
  ASSUME TypeInv, PendingInv, NEW t, Grown(t), NEW u \in Txns, NEW q \in DOMAIN pending[u],
         NEW v, v = pending[u][q], v # Gone,
         \A k \in DOMAIN stmts' : k \notin DOMAIN stmts => stmts'[k].use # "BEFORE_WRITE_READ"
  PROVE  Written(u, q, v)'
PROOF
  <1>1. Written(u, q, v)
    BY DEF PendingInv
  <1>2. PICK j \in DOMAIN stmts : Lasting(j, q, v) /\ stmts[j].tid = u
    BY <1>1 DEF Written
  <1>3. j \in DOMAIN stmts' /\ Lasting(j, q, v)'
    BY <1>2, LastingStays
  <1>4. stmts'[j].tid = u
    BY <1>2 DEF Grown
  <1> QED BY <1>3, <1>4 DEF Written

(* The statement with which a transaction starts, and the one that ends it.  *)
Controls(t) == stmts' = Append(stmts, Stmt(t, "INIT_TYPE", "", {}))

(* Those statements have no output and instrument nothing, so that they fit. *)
LEMMA ControlAdds ==
  ASSUME TypeInv, NEW t \in Txns, status[t] \in {"none", "active"}, status'[t] # "none",
         \A u \in Txns \ {t} : status'[u] = status[u], level' = level,
         Controls(t), write_op_id' = write_op_id
  PROVE  /\ Adds(t, <<Stmt(t, "INIT_TYPE", "", {})>>)
         /\ \A k \in DOMAIN stmts' : k \notin DOMAIN stmts => stmts'[k].use # "BEFORE_WRITE_READ"
PROOF
  <1> DEFINE e == Stmt(t, "INIT_TYPE", "", {})
             b == <<e>>
  <1>1. e \in Statements /\ e.tid = t /\ e.use = "INIT_TYPE" /\ e.out = {}
    BY DEF Stmt, Statements, Uses
  <1> HIDE DEF e
  <1>2. b \in Seq(Statements) /\ Len(b) = 1 /\ b[1] = e /\ 1..1 = {1}
    BY <1>1, Blocks
  <1>3. stmts \in Seq(Statements) /\ write_op_id \in Nat
    BY DEF TypeInv
  <1>4. stmts' = stmts \o b
    <2>1. stmts' = Append(stmts, e)
      BY DEF Controls, e
    <2> QED BY <1>1, <1>3, <2>1, Blocks
  <1>5. 1 \in 1..Len(b) /\ \A p \in 1..Len(b) : p = 1
    <2> HIDE DEF b
    <2> QED BY <1>2
  <1> HIDE DEF b
  <1>6. \A p \in 1..Len(b) : b[p].use = "INIT_TYPE" /\ b[p].tid = t /\ Fits(t, b, p)
    BY <1>1, <1>2, <1>5 DEF Fits
  <1>7. Adds(t, b)
    <2>1. \A n \in Nat : n >= n
      OBVIOUS
    <2>2. write_op_id' \in Nat /\ write_op_id' >= write_op_id
      BY <1>3, <2>1
    <2> QED BY <1>2, <1>4, <1>5, <1>6, <2>2 DEF Adds
  <1>8. \A k \in DOMAIN stmts' : k \notin DOMAIN stmts => stmts'[k].use # "BEFORE_WRITE_READ"
    <2>1. \A k \in DOMAIN stmts' : k \notin DOMAIN stmts =>
             k - Len(stmts) \in 1..Len(b) /\ stmts'[k] = b[k - Len(stmts)]
      BY <1>7, AddsGrown
    <2> QED BY <1>1, <1>2, <1>5, <1>6, <2>1
  <1> QED BY <1>7, <1>8 DEF b, e

(* The start of a transaction keeps the invariant.                           *)
LEMMA StartKeeps ==
  ASSUME IInv, NEW t \in Txns, Start(t)
  PROVE  IInv'
PROOF
  <1> DEFINE b == <<Stmt(t, "INIT_TYPE", "", {})>>
  <1>0. /\ TypeInv /\ StartInv /\ InstrumentInv /\ VersionInv /\ StoreInv /\ SnapInv
        /\ PendingInv /\ ReadInv /\ DaInv
    BY DEF IInv
  <1>1. /\ status[t] = "none" /\ status' = [status EXCEPT ![t] = "active"] /\ da.phase = "running"
        /\ stmts' = Append(stmts, Stmt(t, "INIT_TYPE", "", {}))
        /\ level' = level /\ store' = store /\ snap' = snap /\ pending' = pending
        /\ write_op_id' = write_op_id /\ da' = da
    BY DEF Start
  <1>2. status' \in [Txns -> {"none", "active", "TXN_COMMIT", "TXN_ABORT"}]
        /\ status'[t] = "active" /\ \A u \in Txns \ {t} : status'[u] = status[u]
    BY <1>0, <1>1 DEF TypeInv
  <1>3. /\ Adds(t, b)
        /\ \A k \in DOMAIN stmts' : k \notin DOMAIN stmts => stmts'[k].use # "BEFORE_WRITE_READ"
    BY <1>0, <1>1, <1>2, ControlAdds DEF Controls
  <1> HIDE DEF b
  <1>4. StartInv' /\ InstrumentInv' /\ VersionInv' /\ ReadInv'
    BY <1>0, <1>3, AddsStart, AddsInstrument, AddsVersion, AddsRead
  <1>5. Grown(t) /\ stmts' \in Seq(Statements)
    BY <1>0, <1>3, AddsGrown
  <1>6. StoreInv'
    <2>1. ASSUME NEW q \in RowPool, NEW v, v = store'[q], v # Gone PROVE Known(q, v)'
      <3>1. Known(q, v)
        BY <1>0, <1>1, <2>1 DEF StoreInv
      <3> QED BY <1>5, <3>1, KnownStays
    <2> QED BY <2>1 DEF StoreInv, Known, Initial, Lasting, Source, Replaces, RowPool
  <1>7. SnapInv'
    <2>1. ASSUME NEW u \in Txns, NEW q \in RowPool, NEW v, v = snap'[u][q], v # Gone
          PROVE  KnownBefore(u, q, v)'
      <3>1. KnownBefore(u, q, v)
        BY <1>0, <1>1, <2>1 DEF SnapInv
      <3> QED BY <1>5, <3>1, KnownBeforeStays
    <2> QED BY <2>1 DEF SnapInv, KnownBefore, Initial, Lasting, Source, Replaces, RowPool
  <1>8. PendingInv'
    <2>1. ASSUME NEW u \in Txns, NEW q \in DOMAIN pending'[u], NEW v, v = pending'[u][q], v # Gone
          PROVE  Written(u, q, v)'
      BY <1>0, <1>1, <1>3, <1>5, <2>1, PendingStays
    <2>2. ASSUME NEW u \in Txns \ Active' PROVE DOMAIN pending'[u] = {}
      BY <1>0, <1>1, <1>2, <2>2 DEF PendingInv, Active
    <2> QED BY <2>1, <2>2 DEF PendingInv, Written, Lasting, Source, Replaces
  <1>9. TypeInv'
    BY <1>0, <1>1, <1>2, <1>5 DEF TypeInv, Txns, RowPool, Statements, Versions
  <1>10. DaInv'
    BY <1>1 DEF DaInv
  <1> QED BY <1>4, <1>6, <1>7, <1>8, <1>9, <1>10 DEF IInv

(* A commit or an abort keeps the invariant: what a commit puts into the     *)
(* store is what the transaction wrote last.                                 *)
LEMMA FinishKeeps ==
  ASSUME IInv, NEW t \in Txns, NEW st \in {"TXN_COMMIT", "TXN_ABORT"}, Finish(t, st)
  PROVE  IInv'
PROOF
  <1> DEFINE b == <<Stmt(t, "INIT_TYPE", "", {})>>
  <1>0. /\ TypeInv /\ StartInv /\ InstrumentInv /\ VersionInv /\ StoreInv /\ SnapInv
        /\ PendingInv /\ ReadInv /\ DaInv
    BY DEF IInv
  <1>1. /\ status[t] = "active" /\ status' = [status EXCEPT ![t] = st]
        /\ stmts' = Append(stmts, Stmt(t, "INIT_TYPE", "", {}))
        /\ store' = IF st = "TXN_COMMIT" THEN Overlay(store, pending[t]) ELSE store
        /\ pending' = [pending EXCEPT ![t] = NoWrites]
        /\ level' = level /\ snap' = snap /\ write_op_id' = write_op_id /\ da' = da
    BY DEF Finish, Active
  <1>2. status' \in [Txns -> {"none", "active", "TXN_COMMIT", "TXN_ABORT"}]
        /\ status'[t] = st /\ \A u \in Txns \ {t} : status'[u] = status[u]
    BY <1>0, <1>1 DEF TypeInv
  <1>3. /\ Adds(t, b)
        /\ \A k \in DOMAIN stmts' : k \notin DOMAIN stmts => stmts'[k].use # "BEFORE_WRITE_READ"
    BY <1>0, <1>1, <1>2, ControlAdds DEF Controls
  <1> HIDE DEF b
  <1>4. StartInv' /\ InstrumentInv' /\ VersionInv' /\ ReadInv'
    BY <1>0, <1>3, AddsStart, AddsInstrument, AddsVersion, AddsRead
  <1>5. Grown(t) /\ stmts' \in Seq(Statements)
    BY <1>0, <1>3, AddsGrown
  <1>6. /\ store \in [RowPool -> Nat] /\ DOMAIN pending = Txns
        /\ DOMAIN pending[t] \subseteq RowPool /\ pending[t] \in [DOMAIN pending[t] -> Nat]
    BY <1>0 DEF TypeInv
  <1>7. StoreInv'
    <2>1. ASSUME NEW q \in RowPool, NEW v, v = store'[q], v # Gone PROVE Known(q, v)'
      <3>1. CASE v = store[q]
        <4>1. Known(q, v)
          BY <1>0, <2>1, <3>1 DEF StoreInv
        <4> QED BY <1>5, <4>1, KnownStays
      <3>2. CASE v # store[q]
        <4>1. st = "TXN_COMMIT" /\ v = Overlay(store, pending[t])[q]
          BY <1>1, <2>1, <3>2
        <4>2. q \in DOMAIN pending[t] /\ v = pending[t][q]
          BY <1>6, <3>2, <4>1 DEF Overlay
        <4>3. Written(t, q, v)'
          BY <1>0, <1>3, <1>5, <2>1, <4>2, PendingStays
        <4>4. status'[t] = "TXN_COMMIT"
          BY <1>2, <4>1
        <4> QED BY <4>3, <4>4 DEF Written, Known, HasCommitted
      <3> QED BY <3>1, <3>2
    <2> QED BY <2>1 DEF StoreInv, Known, Initial, Lasting, Source, Replaces, RowPool
  <1>8. SnapInv'
    <2>1. ASSUME NEW u \in Txns, NEW q \in RowPool, NEW v, v = snap'[u][q], v # Gone
          PROVE  KnownBefore(u, q, v)'
      <3>1. KnownBefore(u, q, v)
        BY <1>0, <1>1, <2>1 DEF SnapInv
      <3> QED BY <1>5, <3>1, KnownBeforeStays
    <2> QED BY <2>1 DEF SnapInv, KnownBefore, Initial, Lasting, Source, Replaces, RowPool
  <1>9. /\ DOMAIN pending' = Txns /\ pending'[t] = NoWrites
        /\ \A u \in Txns \ {t} : pending'[u] = pending[u]
    BY <1>1, <1>6
  <1>10. DOMAIN NoWrites = {} /\ NoWrites \in [DOMAIN NoWrites -> Nat]
    BY DEF NoWrites
  <1>11. PendingInv'
    <2>1. ASSUME NEW u \in Txns, NEW q \in DOMAIN pending'[u], NEW v, v = pending'[u][q], v # Gone
          PROVE  Written(u, q, v)'
      <3>1. u # t /\ pending'[u] = pending[u]
        BY <1>9, <1>10, <2>1
      <3> QED BY <1>0, <1>3, <1>5, <2>1, <3>1, PendingStays
    <2>2. ASSUME NEW u \in Txns \ Active' PROVE DOMAIN pending'[u] = {}
      <3>1. CASE u = t
        BY <1>9, <1>10, <3>1
      <3>2. CASE u # t
        BY <1>0, <1>2, <1>9, <2>2, <3>2 DEF PendingInv, Active
      <3> QED BY <3>1, <3>2
    <2> QED BY <2>1, <2>2 DEF PendingInv, Written, Lasting, Source, Replaces
  <1>12. TypeInv'
    <2>1. store' \in [RowPool -> Nat]
      BY <1>1, <1>6 DEF Overlay
    <2>2. \A u \in Txns : DOMAIN pending'[u] \subseteq RowPool /\ pending'[u] \in [DOMAIN pending'[u] -> Nat]
      BY <1>0, <1>9, <1>10 DEF TypeInv
    <2> QED BY <1>0, <1>1, <1>2, <1>5, <1>9, <2>1, <2>2 DEF TypeInv, Txns, RowPool, Statements, Versions
  <1>13. DaInv'
    BY <1>0, <1>1 DEF DaInv
  <1> QED BY <1>4, <1>7, <1>8, <1>11, <1>12, <1>13 DEF IInv

-----------------------------------------------------------------------------
(* A statement of Run() with what it reads.                                  *)
Reading(t, s, use) ==
    /\ s \in Statements /\ s.tid = t /\ s.use = use
    /\ \A x \in s.out : x.row \in RowPool /\ x.ver = Visible(t)[x.row] /\ x.ver # Gone

(* The read of a whole table that a block begins with.                       *)
LEMMA VersionSetReading ==
  ASSUME TypeInv, NEW t \in Active, NEW r \in RowPool
  PROVE  Reading(t, VersionSetRead(t, TableOf[r]), "VERSION_SET_READ")
PROOF
  <1>1. "VERSION_SET_READ" \in Uses /\ {} \in SUBSET RowPool
    BY DEF Uses
  <1> QED BY <1>1, ReadStatement DEF Reading

(* A read of given rows.                                                     *)
LEMMA RowsReading ==
  ASSUME TypeInv, NEW t \in Active, NEW r \in RowPool, NEW rs \in SUBSET RowPool, NEW use \in Uses
  PROVE  /\ Reading(t, Stmt(t, use, TableOf[r], RowsOf(Visible(t), rs)), use)
         /\ \A x \in Stmt(t, use, TableOf[r], RowsOf(Visible(t), rs)).out : x.row \in rs
PROOF
  <1>1. Stmt(t, use, TableOf[r], RowsOf(Visible(t), rs)) \in Statements
    BY ReadStatement
  <1>2. \A x \in RowsOf(Visible(t), rs) : /\ x.row \in rs /\ x.row \in RowPool
                                          /\ x.ver = Visible(t)[x.row] /\ x.ver # Gone
    BY SeenRows
  <1> QED BY <1>1, <1>2 DEF Reading, Stmt

(* A statement without an output.                                            *)
LEMMA NothingReading ==
  ASSUME TypeInv, NEW t \in Active, NEW r \in RowPool, NEW use \in Uses
  PROVE  /\ Reading(t, Stmt(t, use, TableOf[r], {}), use)
         /\ Stmt(t, use, TableOf[r], {}).out = {}
PROOF
  <1>1. Stmt(t, use, TableOf[r], {}) \in Statements
    <2>1. {} \in SUBSET RowPool
      OBVIOUS
    <2> QED BY <2>1, ReadStatement
  <1> QED BY <1>1 DEF Reading, Stmt

(* The read behind a write has the new version.                              *)
LEMMA NewVersion ==
  ASSUME TypeInv, NEW t \in Active, NEW r \in RowPool
  PROVE  LET s == Stmt(t, "AFTER_WRITE_READ", TableOf[r], {[row |-> r, ver |-> write_op_id + 1]})
         IN  /\ s \in Statements /\ s.tid = t /\ s.use = "AFTER_WRITE_READ"
             /\ s.out = {[row |-> r, ver |-> write_op_id + 1]}
PROOF
  <1>1. write_op_id + 1 \in Nat /\ t \in Txns
    BY DEF TypeInv, Active
  <1>2. {[row |-> r, ver |-> write_op_id + 1]} \in SUBSET Versions
    BY <1>1 DEF Versions
  <1> QED BY <1>1, <1>2 DEF Stmt, Statements, Uses

(* Run() adds its statements, if they fit.                                   *)
LEMMA RunAdds ==
  ASSUME TypeInv, NEW t \in Active, NEW b \in Seq(Statements), Run(t, b),
         \A p \in 1..Len(b) : b[p].tid = t /\ Fits(t, b, p),
         write_op_id' \in Nat, write_op_id' >= write_op_id
  PROVE  Adds(t, b)
PROOF
  <1>1. t \in Txns /\ status[t] = "active"
    BY DEF Active
  <1> QED BY <1>1 DEF Adds, Run

(* A SELECT with its version set keeps the invariant.                        *)
LEMMA SelectKeeps ==
  ASSUME IInv, NEW t \in Txns, NEW rs \in Queries, Select(t, rs)
  PROVE  IInv'
PROOF
  <1>0. /\ TypeInv /\ StartInv /\ InstrumentInv /\ VersionInv /\ StoreInv /\ SnapInv
        /\ PendingInv /\ ReadInv /\ DaInv
    BY DEF IInv
  <1> DEFINE r == CHOOSE r \in rs : TRUE
  <1>1. rs \in SUBSET RowPool /\ r \in RowPool
    BY DepAssumption
  <1> HIDE DEF r
  <1>2. PICK a, c : /\ a = VersionSetRead(t, TableOf[r])
                    /\ c = Stmt(t, "SELECT_READ", TableOf[r], RowsOf(Visible(t), rs))
    OBVIOUS
  <1>3. /\ t \in Active /\ Run(t, <<a, c>>)
        /\ pending' = pending /\ write_op_id' = write_op_id
    BY <1>2 DEF Select, MayRun, r
  <1>4. PICK b : b = <<a, c>>
    OBVIOUS
  <1>5. Reading(t, a, "VERSION_SET_READ") /\ Reading(t, c, "SELECT_READ")
    <2>1. "SELECT_READ" \in Uses
      BY DEF Uses, Original
    <2> QED BY <1>0, <1>1, <1>2, <1>3, <2>1, VersionSetReading, RowsReading
  <1>6. b \in Seq(Statements) /\ Len(b) = 2 /\ 1..2 = {1, 2} /\ b[1] = a /\ b[2] = c
    BY <1>4, <1>5, Blocks DEF Reading
  <1>7. \A p \in 1..Len(b) : b[p].tid = t /\ b[p].use # "BEFORE_WRITE_READ" /\ Fits(t, b, p)
    <2>1. b[1].tid = t /\ b[1].use # "BEFORE_WRITE_READ" /\ Fits(t, b, 1)
      <3>1. 2 \in 1..Len(b) /\ 1 < 2 /\ b[2].use \in Original
        BY <1>5, <1>6 DEF Reading, Original
      <3>2. 1..(1 - 1) = {}
        OBVIOUS
      <3> QED BY <1>3, <1>5, <1>6, <3>1, <3>2 DEF Fits, Reading
    <2>2. b[2].tid = t /\ b[2].use # "BEFORE_WRITE_READ" /\ Fits(t, b, 2)
      <3>1. \A k \in 1..(2 - 1) : k = 1
        OBVIOUS
      <3> QED BY <1>3, <1>5, <1>6, <3>1 DEF Fits, Reading
    <2> QED BY <1>6, <2>1, <2>2
  <1>8. Run(t, b) /\ Adds(t, b)
    <2>1. \A n \in Nat : n >= n
      OBVIOUS
    <2>2. write_op_id' \in Nat /\ write_op_id' >= write_op_id
      BY <1>0, <1>3, <2>1 DEF TypeInv
    <2> QED BY <1>0, <1>3, <1>4, <1>6, <1>7, <2>2, RunAdds
  <1>9. RunKept
    BY <1>0, <1>3, <1>8, RunKeeps
  <1>10. PendingInv'
    <2>1. Grown(t) /\ \A k \in DOMAIN stmts' : k \notin DOMAIN stmts =>
             k - Len(stmts) \in 1..Len(b) /\ stmts'[k] = b[k - Len(stmts)]
      BY <1>0, <1>8, AddsGrown
    <2>2. \A k \in DOMAIN stmts' : k \notin DOMAIN stmts => stmts'[k].use # "BEFORE_WRITE_READ"
      BY <1>7, <2>1
    <2>3. ASSUME NEW u \in Txns, NEW q \in DOMAIN pending'[u], NEW v, v = pending'[u][q], v # Gone
          PROVE  Written(u, q, v)'
      BY <1>0, <1>3, <2>1, <2>2, <2>3, PendingStays
    <2>4. \A u \in Txns \ Active' : DOMAIN pending'[u] = {}
      BY <1>0, <1>3 DEF PendingInv, Active, Run
    <2> QED BY <2>3, <2>4 DEF PendingInv, Written, Lasting, Source, Replaces
  <1>11. TypeInv'
    BY <1>0, <1>3, <1>9 DEF RunKept, TypeInv, Txns, RowPool, Statements, Versions
  <1>12. DaInv'
    BY <1>0, <1>3 DEF DaInv, Run, Active
  <1> QED BY <1>9, <1>10, <1>11, <1>12 DEF IInv, RunKept

(* An UPDATE, a DELETE or an INSERT keeps the invariant.                     *)
LEMMA ChangeKeeps ==
  ASSUME IInv, NEW t \in Active, NEW b, Run(t, b), Adds(t, b),
         NEW r \in RowPool, NEW v \in Nat, Write(t, [q \in {r} |-> v]),
         Leaves(b, r, v)
  PROVE  IInv'
PROOF
  <1>0. /\ TypeInv /\ StartInv /\ InstrumentInv /\ VersionInv /\ StoreInv /\ SnapInv
        /\ PendingInv /\ ReadInv /\ DaInv
    BY DEF IInv
  <1>1. RunKept
    BY <1>0, RunKeeps
  <1>2. status' = status /\ level' = level /\ da' = da
    BY DEF Run
  <1>3. /\ PendingInv' /\ DOMAIN pending' = Txns
        /\ \A u \in Txns : DOMAIN pending'[u] \subseteq RowPool /\ pending'[u] \in [DOMAIN pending'[u] -> Nat]
    BY <1>0, <1>2, WriteKeeps
  <1>4. TypeInv'
    BY <1>1, <1>3 DEF RunKept, TypeInv, Txns, RowPool, Statements, Versions
  <1>5. DaInv'
    BY <1>0, <1>2 DEF DaInv, Active
  <1> QED BY <1>1, <1>3, <1>4, <1>5 DEF IInv, RunKept

(* An UPDATE keeps the invariant: the read before it replaces the version,   *)
(* and the read behind it is the source of the new one.                      *)
LEMMA UpdateKeeps ==
  ASSUME IInv, NEW t \in Txns, NEW r \in Changed, Update(t, r)
  PROVE  IInv'
PROOF
  <1>0. TypeInv
    BY DEF IInv
  <1>1. r \in RowPool /\ {r} \in SUBSET RowPool
    BY DepAssumption
  <1>2. PICK v : v = write_op_id + 1
    OBVIOUS
  <1>3. PICK a, c, d, e :
           /\ a = VersionSetRead(t, TableOf[r])
           /\ c = Stmt(t, "BEFORE_WRITE_READ", TableOf[r], RowsOf(Visible(t), {r}))
           /\ d = Stmt(t, "UPDATE_WRITE", TableOf[r], {})
           /\ e = Stmt(t, "AFTER_WRITE_READ", TableOf[r], {[row |-> r, ver |-> write_op_id + 1]})
    OBVIOUS
  <1>4. PICK b : b = <<a, c, d, e>>
    OBVIOUS
  <1>5. /\ t \in Active /\ Run(t, b) /\ write_op_id' = v
        /\ Write(t, [q \in {r} |-> v])
    BY <1>2, <1>3, <1>4 DEF Update, MayRun
  <1>6. /\ Reading(t, a, "VERSION_SET_READ") /\ Reading(t, c, "BEFORE_WRITE_READ")
        /\ Reading(t, d, "UPDATE_WRITE") /\ d.out = {} /\ \A x \in c.out : x.row \in {r}
    <2>1. "BEFORE_WRITE_READ" \in Uses /\ "UPDATE_WRITE" \in Uses
      BY DEF Uses, Original
    <2>2. Reading(t, a, "VERSION_SET_READ")
      BY <1>0, <1>1, <1>3, <1>5, VersionSetReading
    <2>3. Reading(t, c, "BEFORE_WRITE_READ") /\ \A x \in c.out : x.row \in {r}
      BY <1>0, <1>1, <1>3, <1>5, <2>1, RowsReading
    <2>4. Reading(t, d, "UPDATE_WRITE") /\ d.out = {}
      BY <1>0, <1>1, <1>3, <1>5, <2>1, NothingReading
    <2> QED BY <2>2, <2>3, <2>4
  <1>7. /\ e \in Statements /\ e.tid = t /\ e.use = "AFTER_WRITE_READ"
        /\ e.out = {[row |-> r, ver |-> write_op_id + 1]}
    BY <1>0, <1>1, <1>3, <1>5, NewVersion
  <1>8. /\ b \in Seq(Statements) /\ Len(b) = 4 /\ 1..4 = {1, 2, 3, 4}
        /\ b[1] = a /\ b[2] = c /\ b[3] = d /\ b[4] = e
    BY <1>4, <1>6, <1>7, Blocks DEF Reading
  <1>9. write_op_id \in Nat /\ v \in Nat /\ v >= write_op_id
    BY <1>0, <1>2 DEF TypeInv
  <1>10. Fits(t, b, 1)
    <2>1. 3 \in 1..Len(b) /\ 1 < 3 /\ b[3].use \in Original
      BY <1>6, <1>8 DEF Reading, Original
    <2>2. 1..(1 - 1) = {}
      OBVIOUS
    <2> QED BY <1>5, <1>6, <1>8, <2>1, <2>2 DEF Fits, Reading
  <1>11. Fits(t, b, 2)
    <2>1. 2 + 1 \in 1..Len(b) /\ b[2 + 1].use \in {"UPDATE_WRITE", "DELETE_WRITE"}
      BY <1>6, <1>8 DEF Reading
    <2>2. \A k \in 1..(2 - 1) : k = 1
      OBVIOUS
    <2> QED BY <1>5, <1>6, <1>8, <2>1, <2>2 DEF Fits, Reading
  <1>12. Fits(t, b, 3)
    BY <1>6, <1>8 DEF Fits, Reading
  <1>13. Fits(t, b, 4)
    <2>1. 4 - 1 \in 1..Len(b) /\ b[4 - 1].use \in {"UPDATE_WRITE", "INSERT_WRITE"}
      BY <1>6, <1>8 DEF Reading
    <2> QED BY <1>1, <1>2, <1>5, <1>7, <1>8, <2>1 DEF Fits
  <1>14. \A p \in 1..Len(b) : b[p].tid = t /\ Fits(t, b, p)
    BY <1>6, <1>7, <1>8, <1>10, <1>11, <1>12, <1>13 DEF Reading
  <1>15. Adds(t, b)
    BY <1>0, <1>5, <1>8, <1>9, <1>14, RunAdds
  <1>16. \A k \in 1..Len(b) : b[k].use = "BEFORE_WRITE_READ" => \A x \in b[k].out : x.row = r
    BY <1>6, <1>7, <1>8 DEF Reading
  <1>17. Leaves(b, r, v)
    <2>1. Len(b) \in 1..Len(b) /\ b[Len(b)] = e /\ e.out = {[row |-> r, ver |-> v]}
      BY <1>2, <1>7, <1>8
    <2> QED BY <1>7, <1>16, <2>1 DEF Leaves
  <1> QED BY <1>1, <1>5, <1>9, <1>15, <1>17, ChangeKeeps

(* A DELETE keeps the invariant: the row has no version any more.            *)
LEMMA DeleteKeeps ==
  ASSUME IInv, NEW t \in Txns, NEW r \in Changed, Delete(t, r)
  PROVE  IInv'
PROOF
  <1>0. TypeInv
    BY DEF IInv
  <1>1. r \in RowPool /\ {r} \in SUBSET RowPool
    BY DepAssumption
  <1>2. PICK a, c, d :
           /\ a = VersionSetRead(t, TableOf[r])
           /\ c = Stmt(t, "BEFORE_WRITE_READ", TableOf[r], RowsOf(Visible(t), {r}))
           /\ d = Stmt(t, "DELETE_WRITE", TableOf[r], {})
    OBVIOUS
  <1>3. PICK b : b = <<a, c, d>>
    OBVIOUS
  <1>4. /\ t \in Active /\ Run(t, b) /\ write_op_id' = write_op_id
        /\ Write(t, [q \in {r} |-> Gone])
    BY <1>2, <1>3 DEF Delete, MayRun
  <1>5. /\ Reading(t, a, "VERSION_SET_READ") /\ Reading(t, c, "BEFORE_WRITE_READ")
        /\ Reading(t, d, "DELETE_WRITE") /\ d.out = {} /\ \A x \in c.out : x.row \in {r}
    <2>1. "BEFORE_WRITE_READ" \in Uses /\ "DELETE_WRITE" \in Uses
      BY DEF Uses, Original
    <2>2. Reading(t, a, "VERSION_SET_READ")
      BY <1>0, <1>1, <1>2, <1>4, VersionSetReading
    <2>3. Reading(t, c, "BEFORE_WRITE_READ") /\ \A x \in c.out : x.row \in {r}
      BY <1>0, <1>1, <1>2, <1>4, <2>1, RowsReading
    <2>4. Reading(t, d, "DELETE_WRITE") /\ d.out = {}
      BY <1>0, <1>1, <1>2, <1>4, <2>1, NothingReading
    <2> QED BY <2>2, <2>3, <2>4
  <1>6. /\ b \in Seq(Statements) /\ Len(b) = 3 /\ 1..3 = {1, 2, 3}
        /\ b[1] = a /\ b[2] = c /\ b[3] = d
    BY <1>3, <1>5, Blocks DEF Reading
  <1>7. Fits(t, b, 1)
    <2>1. 3 \in 1..Len(b) /\ 1 < 3 /\ b[3].use \in Original
      BY <1>5, <1>6 DEF Reading, Original
    <2>2. 1..(1 - 1) = {}
      OBVIOUS
    <2> QED BY <1>4, <1>5, <1>6, <2>1, <2>2 DEF Fits, Reading
  <1>8. Fits(t, b, 2)
    <2>1. 2 + 1 \in 1..Len(b) /\ b[2 + 1].use \in {"UPDATE_WRITE", "DELETE_WRITE"}
      BY <1>5, <1>6 DEF Reading
    <2>2. \A k \in 1..(2 - 1) : k = 1
      OBVIOUS
    <2> QED BY <1>4, <1>5, <1>6, <2>1, <2>2 DEF Fits, Reading
  <1>9. Fits(t, b, 3)
    BY <1>5, <1>6 DEF Fits, Reading
  <1>10. \A p \in 1..Len(b) : b[p].tid = t /\ Fits(t, b, p)
    BY <1>5, <1>6, <1>7, <1>8, <1>9 DEF Reading
  <1>11. Adds(t, b)
    <2>1. \A n \in Nat : n >= n
      OBVIOUS
    <2>2. write_op_id' \in Nat /\ write_op_id' >= write_op_id
      BY <1>0, <1>4, <2>1 DEF TypeInv
    <2> QED BY <1>0, <1>4, <1>6, <1>10, <2>2, RunAdds
  <1>12. \A k \in 1..Len(b) : b[k].use = "BEFORE_WRITE_READ" => \A x \in b[k].out : x.row = r
    BY <1>5, <1>6 DEF Reading
  <1>13. Gone \in Nat
    BY DEF Gone
  <1>14. Leaves(b, r, Gone)
    BY <1>12 DEF Leaves
  <1> QED BY <1>1, <1>4, <1>11, <1>13, <1>14, ChangeKeeps

(* An INSERT keeps the invariant.                                            *)
LEMMA InsertKeeps ==
  ASSUME IInv, NEW t \in Txns, NEW r \in RowPool, Insert(t, r)
  PROVE  IInv'
PROOF
  <1>0. TypeInv
    BY DEF IInv
  <1>2. PICK v : v = write_op_id + 1
    OBVIOUS
  <1>3. PICK d, e :
           /\ d = Stmt(t, "INSERT_WRITE", TableOf[r], {})
           /\ e = Stmt(t, "AFTER_WRITE_READ", TableOf[r], {[row |-> r, ver |-> write_op_id + 1]})
    OBVIOUS
  <1>4. PICK b : b = <<d, e>>
    OBVIOUS
  <1>5. /\ t \in Active /\ Run(t, b) /\ write_op_id' = v
        /\ Write(t, [q \in {r} |-> v])
    BY <1>2, <1>3, <1>4 DEF Insert, MayRun
  <1>6. Reading(t, d, "INSERT_WRITE") /\ d.out = {}
    <2>1. "INSERT_WRITE" \in Uses
      BY DEF Uses, Original
    <2> QED BY <1>0, <1>3, <1>5, <2>1, NothingReading
  <1>7. /\ e \in Statements /\ e.tid = t /\ e.use = "AFTER_WRITE_READ"
        /\ e.out = {[row |-> r, ver |-> write_op_id + 1]}
    BY <1>0, <1>3, <1>5, NewVersion
  <1>8. /\ b \in Seq(Statements) /\ Len(b) = 2 /\ 1..2 = {1, 2} /\ b[1] = d /\ b[2] = e
    BY <1>4, <1>6, <1>7, Blocks DEF Reading
  <1>9. write_op_id \in Nat /\ v \in Nat /\ v >= write_op_id
    BY <1>0, <1>2 DEF TypeInv
  <1>10. Fits(t, b, 1)
    BY <1>6, <1>8 DEF Fits, Reading
  <1>11. Fits(t, b, 2)
    <2>1. 2 - 1 \in 1..Len(b) /\ b[2 - 1].use \in {"UPDATE_WRITE", "INSERT_WRITE"}
      BY <1>6, <1>8 DEF Reading
    <2> QED BY <1>2, <1>5, <1>7, <1>8, <2>1 DEF Fits
  <1>12. \A p \in 1..Len(b) : b[p].tid = t /\ Fits(t, b, p)
    BY <1>6, <1>7, <1>8, <1>10, <1>11 DEF Reading
  <1>13. Adds(t, b)
    BY <1>0, <1>5, <1>8, <1>9, <1>12, RunAdds
  <1>14. \A k \in 1..Len(b) : b[k].use = "BEFORE_WRITE_READ" => \A x \in b[k].out : x.row = r
    BY <1>6, <1>7, <1>8 DEF Reading
  <1>15. Leaves(b, r, v)
    <2>1. Len(b) \in 1..Len(b) /\ b[Len(b)] = e /\ e.out = {[row |-> r, ver |-> v]}
      BY <1>2, <1>7, <1>8
    <2> QED BY <1>7, <1>14, <2>1 DEF Leaves
  <1> QED BY <1>5, <1>9, <1>13, <1>15, ChangeKeeps

(* The analysis reads the execution and leaves it as it is.                  *)
LEMMA AnalyzeKeeps ==
  ASSUME IInv, Analyze \/ UNCHANGED vars
  PROVE  IInv'
PROOF
  <1>0. /\ TypeInv /\ StartInv /\ InstrumentInv /\ VersionInv /\ StoreInv /\ SnapInv
        /\ PendingInv /\ ReadInv /\ DaInv
    BY DEF IInv
  <1>1. UNCHANGED <<level, store, snap, pending, status, stmts, write_op_id>>
    BY DEF Analyze, vars
  <1>2. TypeInv'
    BY <1>0, <1>1 DEF TypeInv, Txns, RowPool, Statements, Versions
  <1>3. StartInv' /\ InstrumentInv'
    BY <1>0, <1>1 DEF StartInv, InstrumentInv, Active, Follows
  <1>4. VersionInv'
    BY <1>0, <1>1 DEF VersionInv, Source, RowPool
  <1>5. /\ \A j, q, v : Lasting(j, q, v)' = Lasting(j, q, v)
        /\ \A j : HasCommitted(j)' = HasCommitted(j)
        /\ \A j, t : EndsBefore(j, t)' = EndsBefore(j, t)
        /\ \A i, j, q, v : CameFrom(i, j, q, v)' = CameFrom(i, j, q, v)
    BY <1>1 DEF Lasting, HasCommitted, EndsBefore, CameFrom, Source, Replaces, Inside, Promised
  <1>6. StoreInv'
    BY <1>0, <1>1 DEF StoreInv, Known, Initial, Lasting, HasCommitted, Source, Replaces, RowPool
  <1>7. SnapInv'
    BY <1>0, <1>1 DEF SnapInv, KnownBefore, Initial, Lasting, HasCommitted, Source, Replaces,
                      EndsBefore, Inside, RowPool
  <1>8. PendingInv'
    BY <1>0, <1>1 DEF PendingInv, Written, Lasting, Source, Replaces, Active
  <1>9. ReadInv'
    BY <1>0, <1>1 DEF ReadInv, Initial, CameFrom, Source, Replaces, Inside, Promised, HasCommitted, EndsBefore
  <1>10. DaInv'
    <2>1. CASE Analyze
      <3>1. da' = Analysis(History) /\ \A t \in Txns : status'[t] \in {"TXN_COMMIT", "TXN_ABORT"}
        BY <1>1, <2>1 DEF Analyze
      <3>2. History' = History
        BY <1>1 DEF History
      <3>3. Analysis(History)' = Analysis(History)
        BY <3>2
      <3> QED BY <3>1, <3>3 DEF DaInv
    <2>2. CASE UNCHANGED vars
      <3>1. da' = da /\ History' = History
        BY <2>2 DEF vars, History
      <3>2. Analysis(History)' = Analysis(History)
        BY <3>1
      <3> QED BY <1>0, <1>1, <3>1, <3>2 DEF DaInv
    <2> QED BY <2>1, <2>2
  <1> QED BY <1>2, <1>3, <1>4, <1>6, <1>7, <1>8, <1>9, <1>10 DEF IInv

(* An execution starts with the initial rows and no statement.               *)
LEMMA InitIInv == Init => IInv
PROOF
  <1> SUFFICES ASSUME Init PROVE IInv
    OBVIOUS
  <1>0. RowPool = 1..Cardinality(RowPool) /\ Cardinality(RowPool) \in Nat /\ Levels \subseteq {"serializable", "snapshot", "dirty"}
        /\ InitRows \subseteq RowPool
    BY DepAssumption
  <1>1. store \in [RowPool -> Nat] /\ \A q \in RowPool : store[q] # Gone => Initial(q, store[q])
    <2>1. \A q \in RowPool : q \in Nat
      BY <1>0
    <2>2. store = [q \in RowPool |-> IF q \in InitRows THEN q ELSE 0]
      BY DEF Init, Gone
    <2> QED BY <2>1, <2>2 DEF Initial, Gone
  <1>2. stmts = <<>> /\ snap = [t \in Txns |-> store] /\ pending = [t \in Txns |-> NoWrites]
    BY DEF Init
  <1>3. DOMAIN NoWrites = {} /\ NoWrites \in [DOMAIN NoWrites -> Nat]
    BY DEF NoWrites
  <1>4. DOMAIN stmts = {} /\ stmts \in Seq(Statements)
    BY <1>2
  <1>5. TypeInv
    <2>1. \A n \in Nat : n >= n
      OBVIOUS
    <2>2. write_op_id \in Nat /\ write_op_id >= Cardinality(RowPool)
      BY <1>0, <2>1 DEF Init
    <2>3. \A t \in Txns : DOMAIN pending[t] \subseteq RowPool /\ pending[t] \in [DOMAIN pending[t] -> Nat]
      BY <1>2, <1>3
    <2>4. status \in [Txns -> {"none", "active", "TXN_COMMIT", "TXN_ABORT"}] /\ DOMAIN pending = Txns
      BY DEF Init
    <2> QED BY <1>0, <1>1, <1>2, <1>4, <2>2, <2>3, <2>4 DEF TypeInv, Init
  <1>6. Active = {}
    BY DEF Active, Init
  <1>7. StartInv /\ InstrumentInv /\ VersionInv /\ ReadInv
    BY <1>4, <1>6 DEF StartInv, InstrumentInv, VersionInv, ReadInv, Source
  <1>8. StoreInv /\ SnapInv
    BY <1>1, <1>2 DEF StoreInv, SnapInv, Known, KnownBefore
  <1>9. PendingInv
    BY <1>2, <1>3 DEF PendingInv
  <1>10. DaInv
    BY DEF DaInv, Init
  <1> QED BY <1>5, <1>7, <1>8, <1>9, <1>10 DEF IInv

(* The invariant holds in every execution.                                   *)
THEOREM IInvHolds == Spec => []IInv
PROOF
  <1>1. ASSUME IInv, [Next]_vars PROVE IInv'
    <2>1. ASSUME NEW t \in Txns, Start(t) PROVE IInv'
      BY <1>1, <2>1, StartKeeps
    <2>2. ASSUME NEW t \in Txns, NEW rs \in Queries, Select(t, rs) PROVE IInv'
      BY <1>1, <2>2, SelectKeeps
    <2>3. ASSUME NEW t \in Txns, NEW r \in Changed, Update(t, r) PROVE IInv'
      BY <1>1, <2>3, UpdateKeeps
    <2>4. ASSUME NEW t \in Txns, NEW r \in Changed, Delete(t, r) PROVE IInv'
      BY <1>1, <2>4, DeleteKeeps
    <2>5. ASSUME NEW t \in Txns, NEW r \in RowPool, Insert(t, r) PROVE IInv'
      BY <1>1, <2>5, InsertKeeps
    <2>6. ASSUME NEW t \in Txns, NEW st \in {"TXN_COMMIT", "TXN_ABORT"}, Finish(t, st) PROVE IInv'
      BY <1>1, <2>6, FinishKeeps
    <2>7. ASSUME Analyze \/ UNCHANGED vars PROVE IInv'
      BY <1>1, <2>7, AnalyzeKeeps
    <2> QED BY <1>1, <2>1, <2>2, <2>3, <2>4, <2>5, <2>6, <2>7 DEF Next, Done
  <1> QED BY <1>1, InitIInv, PTL DEF Spec

-----------------------------------------------------------------------------
(* What the analyzer reads off an execution that satisfies the invariant.    *)
Op(i, v) == [use |-> stmts[i].use, ver |-> v, tid |-> stmts[i].tid, idx |-> i]

(* The operation of the initial row r, and that row r is in the output of i  *)
(* with version v.                                                           *)
InitOp(r) == [use |-> "AFTER_WRITE_READ", ver |-> r, tid |-> TxnNum + 1, idx |-> 0]

Saw(i, r, v) == i \in DOMAIN stmts /\ [row |-> r, ver |-> v] \in stmts[i].out

(* The history as the operators of DepAnalyzer see it.                       *)
LEMMA HistoryIs ==
  /\ Stmts(History) = DOMAIN stmts /\ History.stmts = stmts /\ History.num = TxnNum
  /\ InitTxn(History) = TxnNum + 1 /\ AllTxns(History) = 1..(TxnNum + 1)
  /\ History.init = {[row |-> r, ver |-> r] : r \in InitRows}
  /\ History.status = status
  /\ Committed(History) = {t \in Txns : status[t] = "TXN_COMMIT"} \union {TxnNum + 1}
  /\ \A i : Tid(History, i) = stmts[i].tid /\ Use(History, i) = stmts[i].use
PROOF
  BY DEF History, Stmts, InitTxn, AllTxns, Committed, Tid, Use, Txns

(* Statements are numbered from 1, and their rows are records.               *)
LEMMA StmtType ==
  ASSUME TypeInv
  PROVE  /\ Len(stmts) \in Nat /\ DOMAIN stmts = 1..Len(stmts)
         /\ \A i \in DOMAIN stmts : /\ i \in Nat /\ i >= 1
                                    /\ stmts[i].tid \in Txns /\ stmts[i].out \in SUBSET Versions
PROOF
  <1>1. stmts \in Seq(Statements)
    BY DEF TypeInv
  <1>2. \A i \in DOMAIN stmts : stmts[i] \in Statements
    BY <1>1
  <1>3. Len(stmts) \in Nat /\ DOMAIN stmts = 1..Len(stmts)
    BY <1>1
  <1>4. \A i \in DOMAIN stmts : i \in Nat /\ i >= 1
    BY <1>3
  <1>5. \A i \in DOMAIN stmts : stmts[i].tid \in Txns /\ stmts[i].out \in SUBSET Versions
    BY <1>2 DEF Statements
  <1> QED BY <1>3, <1>4, <1>5

(* The operations of a row are those of the initial rows and of the outputs. *)
LEMMA OpsAre ==
  ASSUME TypeInv, NEW r
  PROVE  /\ \A o \in Ops(History, r) :
               \/ r \in InitRows /\ o = InitOp(r)
               \/ \E i \in DOMAIN stmts : \E v \in Nat : Saw(i, r, v) /\ o = Op(i, v)
         /\ r \in InitRows => InitOp(r) \in Ops(History, r)
         /\ \A i, v : Saw(i, r, v) => Op(i, v) \in Ops(History, r) /\ r \in RowIds(History)
PROOF
  <1>1. ASSUME NEW o \in InitOps(History, r) PROVE r \in InitRows /\ o = InitOp(r)
    <2>1. PICK x \in {y \in History.init : y.row = r} :
             o = [use |-> "AFTER_WRITE_READ", ver |-> x.ver, tid |-> InitTxn(History), idx |-> 0]
      BY <1>1 DEF InitOps
    <2>2. PICK q \in InitRows : x = [row |-> q, ver |-> q]
      BY <2>1, HistoryIs
    <2>3. x.row = q /\ x.ver = q /\ x.row = r
      BY <2>1, <2>2
    <2> QED BY <2>1, <2>3, HistoryIs DEF InitOp
  <1>2. ASSUME NEW o \in StmtOps(History, r)
        PROVE  \E i \in DOMAIN stmts : \E v \in Nat : Saw(i, r, v) /\ o = Op(i, v)
    <2>1. PICK i \in DOMAIN stmts : o \in
             {[use |-> stmts[i].use, ver |-> x.ver, tid |-> stmts[i].tid, idx |-> i] :
                 x \in {y \in stmts[i].out : y.row = r}}
      BY <1>2, HistoryIs DEF StmtOps
    <2>2. PICK x \in stmts[i].out : x.row = r /\ o = Op(i, x.ver)
      BY <2>1 DEF Op
    <2>3. x \in Versions
      BY StmtType
    <2>4. x.ver \in Nat /\ x = [row |-> r, ver |-> x.ver]
      BY <2>2, <2>3 DEF Versions
    <2> QED BY <2>2, <2>4 DEF Saw
  <1>3. ASSUME r \in InitRows PROVE InitOp(r) \in InitOps(History, r)
    <2> DEFINE x == [row |-> r, ver |-> r]
    <2>1. x \in History.init /\ x.row = r /\ x.ver = r
      BY <1>3, HistoryIs
    <2> HIDE DEF x
    <2> QED BY <2>1, HistoryIs DEF InitOps, InitOp
  <1>4. ASSUME NEW i, NEW v, Saw(i, r, v)
        PROVE  Op(i, v) \in StmtOps(History, r) /\ r \in RowIds(History)
    <2> DEFINE x == [row |-> r, ver |-> v]
    <2>1. i \in DOMAIN stmts /\ x \in stmts[i].out /\ x.row = r /\ x.ver = v
      BY <1>4 DEF Saw
    <2> HIDE DEF x
    <2>2. Op(i, v) \in {[use |-> stmts[i].use, ver |-> y.ver, tid |-> stmts[i].tid, idx |-> i] :
                           y \in {z \in stmts[i].out : z.row = r}}
      BY <2>1 DEF Op
    <2>3. Op(i, v) \in StmtOps(History, r)
      BY <2>1, <2>2, HistoryIs DEF StmtOps
    <2>4. r \in {z.row : z \in stmts[i].out}
      BY <2>1
    <2>5. r \in RowIds(History)
      BY <2>1, <2>4, HistoryIs DEF RowIds
    <2> QED BY <2>3, <2>5
  <1> QED BY <1>1, <1>2, <1>3, <1>4 DEF Ops

(* The fields of an operation.                                               *)
LEMMA OpFields ==
  /\ \A i, v : /\ Op(i, v).use = stmts[i].use /\ Op(i, v).ver = v
               /\ Op(i, v).tid = stmts[i].tid /\ Op(i, v).idx = i
  /\ \A r : /\ InitOp(r).use = "AFTER_WRITE_READ" /\ InitOp(r).ver = r
            /\ InitOp(r).tid = TxnNum + 1 /\ InitOp(r).idx = 0
PROOF
  BY DEF Op, InitOp

(* The statement that wrote a version, once it is in an output behind a      *)
(* write, is its source, and no initial row has its version.                 *)
LEMMA SawIsSource ==
  ASSUME TypeInv, VersionInv, NEW j, NEW r, NEW v, Saw(j, r, v), stmts[j].use = "AFTER_WRITE_READ"
  PROVE  /\ Source(j, r, v) /\ v \in Nat /\ v \notin RowPool /\ r \in RowPool
         /\ \A k, q : Source(k, q, v) /\ q \in RowPool => k = j
PROOF
  <1>1. j \in DOMAIN stmts /\ [row |-> r, ver |-> v] \in stmts[j].out
    BY DEF Saw
  <1>2. PICK q \in RowPool, w \in Nat : Source(j, q, w) /\ w \notin RowPool
    BY <1>1 DEF VersionInv
  <1>3. [row |-> r, ver |-> v] = [row |-> q, ver |-> w]
    BY <1>1, <1>2 DEF Source
  <1>4. r = q /\ v = w
    <2>1. [row |-> r, ver |-> v].row = r /\ [row |-> r, ver |-> v].ver = v
      OBVIOUS
    <2>2. [row |-> q, ver |-> w].row = q /\ [row |-> q, ver |-> w].ver = w
      OBVIOUS
    <2> QED BY <1>3, <2>1, <2>2
  <1>5. \A k, p : Source(k, p, v) /\ p \in RowPool => k = j
    BY <1>1, <1>2, <1>4 DEF VersionInv, Source
  <1> QED BY <1>2, <1>4, <1>5

(* A read finds exactly one write of its version in the list of its row: the *)
(* initial row, or the statement the version came from.                      *)
LEMMA OneWriteSeen ==
  ASSUME TypeInv, VersionInv, ReadInv, NEW i, NEW r, NEW v, Saw(i, r, v),
         stmts[i].use # "AFTER_WRITE_READ"
  PROVE  \/ /\ Initial(r, v)
            /\ WritesSeen(Ops(History, r), Op(i, v)) = {InitOp(r)}
         \/ \E j \in DOMAIN stmts : /\ CameFrom(i, j, r, v)
                                    /\ WritesSeen(Ops(History, r), Op(i, v)) = {Op(j, v)}
PROOF
  <1> DEFINE l == Ops(History, r)
             seen == WritesSeen(l, Op(i, v))
  <1>1. i \in DOMAIN stmts /\ [row |-> r, ver |-> v] \in stmts[i].out /\ i \in Nat /\ i >= 1
    BY StmtType DEF Saw
  <1>2. seen = {w \in l : w.use = "AFTER_WRITE_READ" /\ w.ver = v /\ w.idx < i}
    BY OpFields DEF WritesSeen
  <1>3. Initial(r, v) \/ \E j \in DOMAIN stmts : CameFrom(i, j, r, v)
    <2> DEFINE x == [row |-> r, ver |-> v]
    <2>1. x.row = r /\ x.ver = v /\ x \in stmts[i].out
      BY <1>1
    <2> HIDE DEF x
    <2> QED BY <1>1, <2>1 DEF ReadInv
  <1>4. ASSUME NEW w \in seen
        PROVE  \/ w = InitOp(r) /\ v = r /\ r \in InitRows
               \/ \E k \in DOMAIN stmts : w = Op(k, v) /\ Source(k, r, v) /\ v \notin RowPool /\ r \in RowPool
    <2>1. w \in l /\ w.use = "AFTER_WRITE_READ" /\ w.ver = v
      BY <1>2, <1>4
    <2>2. CASE r \in InitRows /\ w = InitOp(r)
      BY <2>1, <2>2, OpFields
    <2>3. ASSUME NEW k \in DOMAIN stmts, NEW u \in Nat, Saw(k, r, u), w = Op(k, u)
          PROVE  w = Op(k, v) /\ Source(k, r, v) /\ v \notin RowPool /\ r \in RowPool
      <3>1. u = v /\ stmts[k].use = "AFTER_WRITE_READ"
        BY <2>1, <2>3, OpFields
      <3> QED BY <2>3, <3>1, SawIsSource
    <2> QED BY <2>1, <2>2, <2>3, OpsAre
  <1>5. CASE Initial(r, v)
    <2>1. r \in InitRows /\ v = r /\ r \in RowPool
      BY <1>5, DepAssumption DEF Initial
    <2>2. InitOp(r) \in seen
      <3>1. InitOp(r) \in l
        BY <2>1, OpsAre
      <3>2. 0 < i
        BY <1>1
      <3> HIDE DEF l
      <3> QED BY <1>2, <2>1, <3>1, <3>2, OpFields
    <2> HIDE DEF seen
    <2>3. seen = {InitOp(r)}
      BY <1>4, <2>1, <2>2
    <2> QED BY <1>5, <2>3 DEF seen
  <1>6. ASSUME NEW j \in DOMAIN stmts, CameFrom(i, j, r, v)
        PROVE  seen = {Op(j, v)}
    <2>1. /\ Source(j, r, v) /\ j < i /\ stmts[j].use = "AFTER_WRITE_READ" /\ Saw(j, r, v)
      BY <1>6 DEF CameFrom, Source, Saw
    <2>2. /\ v \notin RowPool
          /\ \A k, q : Source(k, q, v) /\ q \in RowPool => k = j
      BY <2>1, SawIsSource
    <2>3. Op(j, v) \in seen
      <3>1. Op(j, v) \in l
        BY <2>1, OpsAre
      <3> HIDE DEF l
      <3> QED BY <1>2, <2>1, <3>1, OpFields
    <2>4. InitRows \subseteq RowPool
      BY DepAssumption
    <2> HIDE DEF seen
    <2> QED BY <1>4, <2>2, <2>3, <2>4
  <1> QED BY <1>3, <1>5, <1>6

-----------------------------------------------------------------------------
(* An edge of the graph that says who saw or replaced whose version comes    *)
(* from a read and the one nearest write before it.                          *)
LEMMA ItemEdge ==
  ASSUME NEW H, NEW e \in DependencyGraph(H), e[3] \in {"WRITE_READ", "WRITE_WRITE"}
  PROVE  /\ e[1] # e[2]
         /\ \E r \in RowIds(H) : \E o \in Reads(Ops(H, r)) : \E w \in NearestWrite(Ops(H, r), o) :
               e[1] = w.tid /\ e[2] = o.tid
PROOF
  <1>1. e[1] # e[2]
    BY DEF DependencyGraph
  <1>2. e \in {<<f[1].tid, f[2].tid, f[3]>> : f \in ItemOps(H)}
    BY DEF DependencyGraph
  <1>3. PICK f \in ItemOps(H) : e[1] = f[1].tid /\ e[2] = f[2].tid /\ e[3] = f[3]
    BY <1>2
  <1>4. PICK r \in RowIds(H) : f \in WROps(Ops(H, r)) \union WWOps(Ops(H, r)) \union RWOps(Ops(H, r))
    BY <1>3 DEF ItemOps
  <1> DEFINE l == Ops(H, r)
  <1>5. f \notin RWOps(l)
    BY <1>3 DEF RWOps
  <1>6. Overwrites(l) \subseteq Reads(l)
    BY DEF Overwrites, Reads
  <1>7. \E o \in Reads(l) : \E w \in NearestWrite(l, o) : f[1] = w /\ f[2] = o
    <2>1. CASE f \in WROps(l)
      BY <2>1 DEF WROps
    <2>2. CASE f \in WWOps(l)
      BY <1>6, <2>2 DEF WWOps
    <2> QED BY <1>4, <1>5, <2>1, <2>2
  <1> QED BY <1>1, <1>3, <1>7

(* The nearest write of a read that another transaction made gives an edge.  *)
LEMMA ReadEdge ==
  ASSUME NEW H, NEW r \in RowIds(H), NEW o \in Reads(Ops(H, r)),
         NEW w \in NearestWrite(Ops(H, r), o), w.tid # o.tid
  PROVE  <<w.tid, o.tid, "WRITE_READ">> \in DependencyGraph(H)
PROOF
  <1> DEFINE f == <<w, o, "WRITE_READ">>
  <1>1. f \in WROps(Ops(H, r))
    BY DEF WROps
  <1>2. f \in ItemOps(H)
    BY <1>1 DEF ItemOps
  <1>3. f[1].tid = w.tid /\ f[2].tid = o.tid /\ f[3] = "WRITE_READ"
    OBVIOUS
  <1> HIDE DEF f
  <1>4. <<w.tid, o.tid, "WRITE_READ">> \in {<<g[1].tid, g[2].tid, g[3]>> : g \in ItemOps(H)}
    BY <1>2, <1>3
  <1> QED BY <1>4 DEF DependencyGraph

(* So does the end of a transaction before the begin of another.             *)
LEMMA StartEdge ==
  ASSUME NEW H, NEW t \in AllTxns(H), NEW u \in AllTxns(H), t # u, End(H, t) < Begin(H, u)
  PROVE  <<t, u, "START_DEPEND">> \in DependencyGraph(H)
PROOF
  <1> DEFINE p == <<t, u>>
  <1>1. p \in AllTxns(H) \X AllTxns(H) /\ p[1] = t /\ p[2] = u
    OBVIOUS
  <1> HIDE DEF p
  <1>2. p \in StartPairs(H, Begins(H))
    BY <1>1 DEF StartPairs, Begins
  <1>3. <<t, u, "START_DEPEND">> \in {<<q[1], q[2], "START_DEPEND">> : q \in StartPairs(H, Begins(H))}
    BY <1>1, <1>2
  <1> QED BY <1>3 DEF DependencyGraph

(* Where a transaction begins and ends: at the first and at the last of the  *)
(* statements that are inside it.                                            *)
LEMMA BeginAndEnd ==
  ASSUME TypeInv, NEW t
  PROVE  /\ End(History, t) \in Nat /\ Begin(History, t) \in Nat
         /\ \A m : Inside(m, t) => /\ m <= End(History, t) /\ Begin(History, t) <= m
                                   /\ Inside(Begin(History, t), t)
         /\ End(History, t) # 0 => Inside(End(History, t), t)
PROOF
  <1> DEFINE of == Of(History, t)
             inner == Inner(History, t)
  <1>1. of = {i \in DOMAIN stmts : stmts[i].tid = t}
    BY HistoryIs DEF Of
  <1>2. /\ Len(stmts) \in Nat /\ DOMAIN stmts = 1..Len(stmts)
        /\ of \in SUBSET Nat /\ \A i \in of : 1 <= i /\ i <= Len(stmts) /\ i \in DOMAIN stmts
    BY <1>1, StmtType
  <1>3. \A m : m \in inner <=> Inside(m, t)
    <2>1. CASE of = {}
      BY <1>1, <2>1 DEF Inner, Inside
    <2>2. CASE of # {}
      <3>1. PICK s : s = StrictBegin(History, t)
        OBVIOUS
      <3>2. s \in of /\ \A i \in of : s <= i
        <4> HIDE DEF of
        <4>1. Min(of) \in of /\ \A i \in of : Min(of) <= i
          BY <1>2, <2>2, LeastOf
        <4> QED BY <2>2, <3>1, <4>1 DEF StrictBegin, of
      <3>3. inner = of \ {s}
        BY <3>1 DEF Inner
      <3>4. ASSUME NEW m, m \in of, m # s PROVE Inside(m, t)
        <4>1. s < m
          <5> HIDE DEF of
          <5> QED BY <1>2, <3>2, <3>4
        <4> QED BY <1>1, <3>2, <3>4, <4>1 DEF Inside
      <3>5. ASSUME NEW m, Inside(m, t) PROVE m \in of /\ m # s
        <4>1. PICK n \in DOMAIN stmts : n < m /\ stmts[n].tid = t /\ m \in DOMAIN stmts /\ stmts[m].tid = t
          BY <3>5 DEF Inside
        <4>2. n \in of /\ m \in of
          BY <1>1, <4>1
        <4> HIDE DEF of
        <4>3. s <= n /\ s \in Nat /\ n \in Nat /\ m \in Nat
          BY <1>2, <3>2, <4>2
        <4> QED BY <4>1, <4>2, <4>3
      <3> HIDE DEF of, inner
      <3> QED BY <3>3, <3>4, <3>5
    <2> QED BY <2>1, <2>2
  <1>4. inner \in SUBSET Nat /\ \A i \in inner : 1 <= i /\ i <= Len(stmts)
    <2>1. inner \subseteq of
      BY DEF Inner
    <2> HIDE DEF of, inner
    <2> QED BY <1>2, <2>1
  <1>5. CASE inner = {}
    BY <1>3, <1>5 DEF Begin, End
  <1>6. CASE inner # {}
    <2>1. Begin(History, t) = Min(inner) /\ End(History, t) = Max(inner)
      BY <1>6 DEF Begin, End
    <2> HIDE DEF of, inner
    <2>2. Min(inner) \in inner /\ \A i \in inner : Min(inner) <= i
      BY <1>4, <1>6, LeastOf
    <2>3. Max(inner) \in inner /\ \A i \in inner : i <= Max(inner)
      <3>1. \A x \in inner : x \in Nat /\ 1 <= x /\ x <= Len(stmts)
        BY <1>4
      <3> QED BY <1>2, <1>6, <3>1, MaxOfPositions
    <2> QED BY <1>3, <1>4, <2>1, <2>2, <2>3
  <1> QED BY <1>5, <1>6

(* A statement with an output is inside its transaction.                     *)
LEMMA SawInside ==
  ASSUME TypeInv, StartInv, NEW i, NEW r, NEW v, Saw(i, r, v)
  PROVE  Inside(i, stmts[i].tid)
PROOF
  <1>1. i \in DOMAIN stmts /\ stmts[i].out # {}
    BY DEF Saw
  <1>2. stmts[i].use # "INIT_TYPE"
    BY <1>1 DEF StartInv
  <1> QED BY <1>1, <1>2 DEF StartInv, Inside

(* The reads of the database are edges, and the edges are reads: from the    *)
(* initial rows, or from the transaction the version came from.              *)
LEMMA EdgeIsRead ==
  ASSUME IInv, NEW e \in DependencyGraph(History), e[3] \in {"WRITE_READ", "WRITE_WRITE"}
  PROVE  /\ e[1] # e[2]
         /\ \E i \in DOMAIN stmts :
               /\ e[2] = stmts[i].tid /\ Inside(i, e[2])
               /\ \/ e[1] = TxnNum + 1
                  \/ \E j \in DOMAIN stmts :
                        e[1] = stmts[j].tid /\ j < i /\ Promised(i, j) /\ Inside(j, e[1])
PROOF
  <1>0. TypeInv /\ StartInv /\ VersionInv /\ ReadInv
    BY DEF IInv
  <1>1. PICK r, o, w : /\ r \in RowIds(History) /\ o \in Reads(Ops(History, r))
                       /\ w \in NearestWrite(Ops(History, r), o)
                       /\ e[1] = w.tid /\ e[2] = o.tid /\ e[1] # e[2]
    BY ItemEdge
  <1>2. o \in Ops(History, r) /\ o.idx > 0 /\ o.use # "AFTER_WRITE_READ"
    BY <1>1 DEF Reads
  <1>3. o # InitOp(r)
    BY <1>2, OpFields
  <1>4. PICK i \in DOMAIN stmts, v \in Nat : Saw(i, r, v) /\ o = Op(i, v)
    BY <1>0, <1>2, <1>3, OpsAre
  <1>5. e[2] = stmts[i].tid /\ Inside(i, e[2]) /\ stmts[i].use # "AFTER_WRITE_READ"
    BY <1>0, <1>1, <1>2, <1>4, OpFields, SawInside
  <1>6. w \in WritesSeen(Ops(History, r), Op(i, v))
    BY <1>1, <1>4 DEF NearestWrite
  <1>7. CASE WritesSeen(Ops(History, r), Op(i, v)) = {InitOp(r)}
    <2>1. w.tid = TxnNum + 1
      BY <1>6, <1>7, OpFields
    <2> QED BY <1>1, <1>5, <2>1
  <1>8. ASSUME NEW j \in DOMAIN stmts, CameFrom(i, j, r, v),
               WritesSeen(Ops(History, r), Op(i, v)) = {Op(j, v)}
        PROVE  e[1] = stmts[j].tid /\ j < i /\ Promised(i, j) /\ Inside(j, e[1])
    <2>1. Saw(j, r, v) /\ j < i /\ Promised(i, j)
      BY <1>8 DEF CameFrom, Source, Saw
    <2>2. w.tid = stmts[j].tid
      BY <1>6, <1>8, OpFields
    <2> QED BY <1>0, <1>1, <2>1, <2>2, SawInside
  <1> QED BY <1>0, <1>1, <1>4, <1>5, <1>7, <1>8, OneWriteSeen

-----------------------------------------------------------------------------
(* The instrumentor's reads are where build_stmt_instrument_dependency()     *)
(* looks for them.                                                           *)
LEMMA NoInstrumentErr ==
  ASSUME TypeInv, InstrumentInv
  PROVE  ~InstrumentErr(History)
PROOF
  <1> SUFFICES ASSUME InstrumentErr(History) PROVE FALSE
    OBVIOUS
  <1>1. Len(stmts) \in Nat /\ DOMAIN stmts = 1..Len(stmts) /\ History.stmts = stmts
    BY StmtType, HistoryIs
  <1>2. PICK i \in DOMAIN stmts :
        \/ /\ stmts[i].use = "BEFORE_WRITE_READ"
           /\ \/ i = Len(stmts)
              \/ stmts[i + 1].tid # stmts[i].tid
              \/ stmts[i + 1].use \notin {"UPDATE_WRITE", "DELETE_WRITE"}
        \/ /\ stmts[i].use = "AFTER_WRITE_READ"
           /\ \/ i = 1
              \/ stmts[i - 1].tid # stmts[i].tid
              \/ stmts[i - 1].use \notin {"UPDATE_WRITE", "INSERT_WRITE"}
        \/ /\ stmts[i].use = "VERSION_SET_READ"
           /\ \/ \A k \in i + 1 .. Len(stmts) : stmts[k].use \notin Original
              \/ \E m \in i + 1 .. NextOriginal(History, i) : stmts[m].tid # stmts[i].tid
    BY HistoryIs DEF InstrumentErr
  <1>3. CASE stmts[i].use = "BEFORE_WRITE_READ"
    <2>1. /\ i + 1 \in DOMAIN stmts /\ stmts[i + 1].tid = stmts[i].tid
          /\ stmts[i + 1].use \in {"UPDATE_WRITE", "DELETE_WRITE"}
      BY <1>3 DEF InstrumentInv, Follows
    <2>2. i # Len(stmts)
      BY <1>1, <2>1
    <2> QED BY <1>2, <1>3, <2>1, <2>2
  <1>4. CASE stmts[i].use = "AFTER_WRITE_READ"
    <2>1. /\ i - 1 \in DOMAIN stmts /\ stmts[i - 1].tid = stmts[i].tid
          /\ stmts[i - 1].use \in {"UPDATE_WRITE", "INSERT_WRITE"}
      BY <1>4 DEF InstrumentInv, Follows
    <2>2. i # 1
      BY <1>1, <2>1
    <2> QED BY <1>2, <1>4, <2>1, <2>2
  <1>5. CASE stmts[i].use = "VERSION_SET_READ"
    <2>1. PICK k \in DOMAIN stmts : /\ i < k /\ stmts[k].use \in Original
                                    /\ \A m \in (i + 1)..k : stmts[m].tid = stmts[i].tid
      BY <1>5 DEF InstrumentInv
    <2>2. i \in Nat /\ k \in (i + 1)..Len(stmts)
      BY <1>1, <2>1
    <2> DEFINE S == {n \in (i + 1)..Len(stmts) : stmts[n].use \in Original}
    <2>3. k \in S /\ S \in SUBSET Nat
      BY <1>1, <2>1, <2>2
    <2>4. NextOriginal(History, i) = Min(S)
      BY <1>1, HistoryIs DEF NextOriginal
    <2> HIDE DEF S
    <2>5. Min(S) \in Nat /\ Min(S) <= k /\ k \in Nat
      BY <2>3, LeastOf
    <2>6. \A m \in (i + 1)..Min(S) : m \in (i + 1)..k
      BY <2>2, <2>5
    <2> QED BY <1>2, <1>5, <2>1, <2>2, <2>4, <2>6
  <1> QED BY <1>2, <1>3, <1>4, <1>5

(* Every read finds the write of its version.                                *)
LEMMA NoMissedWrite ==
  ASSUME TypeInv, VersionInv, ReadInv
  PROVE  ~MissedWrite(History)
PROOF
  <1> SUFFICES ASSUME NEW r \in RowIds(History), NEW o \in Reads(Ops(History, r)),
                      WritesSeen(Ops(History, r), o) = {}
               PROVE  FALSE
    BY DEF MissedWrite
  <1>1. o \in Ops(History, r) /\ o.idx > 0 /\ o.use # "AFTER_WRITE_READ"
    BY DEF Reads
  <1>2. o # InitOp(r)
    BY <1>1, OpFields
  <1>3. PICK i \in DOMAIN stmts, v \in Nat : Saw(i, r, v) /\ o = Op(i, v)
    BY <1>1, <1>2, OpsAre
  <1>4. stmts[i].use # "AFTER_WRITE_READ"
    BY <1>1, <1>3, OpFields
  <1> QED BY <1>3, <1>4, OneWriteSeen

(* So that the constructor of the analyzer throws nothing.                   *)
LEMMA AnalyzedIs ==
  ASSUME IInv, da.phase # "running"
  PROVE  /\ da.phase = "analyzed" /\ da.graph = DependencyGraph(History)
         /\ da.bug = CASE CheckG1a(History, DependencyGraph(History)) -> "G1a"
                       [] /\ ~CheckG1a(History, DependencyGraph(History))
                          /\ CheckG1b(History) -> "G1b"
                       [] /\ ~CheckG1a(History, DependencyGraph(History))
                          /\ ~CheckG1b(History)
                          /\ CheckG1c(History, DependencyGraph(History)) -> "G1c"
                       [] OTHER -> "none"
         /\ \A t \in Txns : status[t] \in {"TXN_COMMIT", "TXN_ABORT"}
PROOF
  <1>1. da = Analysis(History) /\ \A t \in Txns : status[t] \in {"TXN_COMMIT", "TXN_ABORT"}
    BY DEF IInv, DaInv
  <1>2. ~InstrumentErr(History) /\ ~MissedWrite(History)
    BY NoInstrumentErr, NoMissedWrite DEF IInv
  <1> QED BY <1>1, <1>2 DEF Analysis

(* Three operations that check_G1b() takes for an intermediate read.         *)
LEMMA G1bIs ==
  ASSUME TypeInv, VersionInv, CheckG1b(History)
  PROVE  \E i, j \in DOMAIN stmts : \E r \in RowPool : \E v \in Nat :
            /\ Source(j, r, v) /\ v \notin RowPool /\ j < i
            /\ Saw(i, r, v) /\ stmts[i].use # "AFTER_WRITE_READ"
            /\ stmts[i].tid # stmts[j].tid /\ i <= End(History, stmts[j].tid)
PROOF
  <1>1. PICK r, w :
           /\ r \in RowIds(History) /\ w \in Ops(History, r)
           /\ w.use = "AFTER_WRITE_READ"
           /\ \E o \in Ops(History, r) :
                 w.idx < o.idx /\ o.idx <= End(History, w.tid) /\ o.tid # w.tid /\ o.ver = w.ver
    BY DEF CheckG1b
  <1>2. PICK o \in Ops(History, r) :
                 w.idx < o.idx /\ o.idx <= End(History, w.tid) /\ o.tid # w.tid /\ o.ver = w.ver
    BY <1>1
  <1>3. w # InitOp(r)
    <2> SUFFICES ASSUME w = InitOp(r) PROVE FALSE
      OBVIOUS
    <2>1. w.idx = 0 /\ w.tid = TxnNum + 1
      BY OpFields
    <2>2. \A m : ~Inside(m, TxnNum + 1)
      <3>1. TxnNum \in Nat /\ TxnNum + 1 \notin Txns
        BY DepAssumption DEF Txns
      <3> QED BY <3>1, StmtType DEF Inside
    <2>3. End(History, TxnNum + 1) = 0
      BY <2>2, BeginAndEnd
    <2>4. o.idx \in Nat
      <3>1. \A i \in DOMAIN stmts : i \in Nat
        BY StmtType
      <3> QED BY <3>1, OpsAre, OpFields
    <2> QED BY <1>2, <2>1, <2>3, <2>4
  <1>4. PICK j \in DOMAIN stmts, v \in Nat : Saw(j, r, v) /\ w = Op(j, v)
    <2>1. w \in Ops(History, r)
      BY <1>1
    <2> QED BY <1>3, <2>1, OpsAre
  <1>5. /\ w.idx = j /\ w.tid = stmts[j].tid /\ w.ver = v /\ stmts[j].use = "AFTER_WRITE_READ"
        /\ j \in Nat
    BY <1>1, <1>4, OpFields, StmtType
  <1>6. o # InitOp(r)
    BY <1>2, <1>5, OpFields
  <1>7. PICK i \in DOMAIN stmts : Saw(i, r, v) /\ o = Op(i, v)
    <2>1. PICK i \in DOMAIN stmts, u \in Nat : Saw(i, r, u) /\ o = Op(i, u)
      BY <1>6, OpsAre
    <2>2. u = v
      BY <1>2, <1>5, <2>1, OpFields
    <2> QED BY <2>1, <2>2
  <1>8. o.idx = i /\ o.tid = stmts[i].tid
    BY <1>7, OpFields
  <1>9. /\ Source(j, r, v) /\ v \notin RowPool /\ r \in RowPool
        /\ \A k, q : Source(k, q, v) /\ q \in RowPool => k = j
    BY <1>4, <1>5, SawIsSource
  <1>10. stmts[i].use # "AFTER_WRITE_READ"
    <2>1. ASSUME stmts[i].use = "AFTER_WRITE_READ" PROVE i = j
      <3>1. Source(i, r, v)
        BY <1>7, <2>1, SawIsSource
      <3> QED BY <1>9, <3>1
    <2> QED BY <1>2, <1>5, <1>8, <2>1
  <1> QED BY <1>2, <1>5, <1>7, <1>8, <1>9, <1>10

(* What a read saw of another transaction came from the source of the        *)
(* version.                                                                  *)
LEMMA CameFromSource ==
  ASSUME TypeInv, VersionInv, ReadInv, NEW i \in DOMAIN stmts, NEW j \in DOMAIN stmts,
         NEW r \in RowPool, NEW v \in Nat, Source(j, r, v), v \notin RowPool,
         Saw(i, r, v), stmts[i].use # "AFTER_WRITE_READ"
  PROVE  CameFrom(i, j, r, v)
PROOF
  <1> DEFINE x == [row |-> r, ver |-> v]
  <1>1. x.row = r /\ x.ver = v /\ x \in stmts[i].out
    BY DEF Saw
  <1> HIDE DEF x
  <1>2. Initial(r, v) \/ \E k \in DOMAIN stmts : CameFrom(i, k, r, v)
    BY <1>1 DEF ReadInv
  <1>3. ~Initial(r, v)
    BY DEF Initial
  <1>4. PICK k \in DOMAIN stmts : CameFrom(i, k, r, v)
    BY <1>2, <1>3
  <1>5. Source(k, r, v)
    BY <1>4 DEF CameFrom
  <1>6. k = j
    BY <1>5 DEF VersionInv
  <1> QED BY <1>4, <1>6

-----------------------------------------------------------------------------
(* The oracle misses nothing: no check reports anything, and still a         *)
(* committed transaction saw x -- then the WRITE_READ edge of that read      *)
(* says that the writer committed, and a later replacement by the writer     *)
(* would be found by check_G1b().                                            *)
THEOREM NothingMissedHolds == Spec => []NothingMissed
PROOF
  <1>1. ASSUME IInv PROVE NothingMissed
    <2>0. TypeInv /\ StartInv /\ VersionInv /\ ReadInv
      BY <1>1 DEF IInv
    <2> SUFFICES ASSUME Analyzed, da.bug = "none",
                        NEW t \in Committed(History) \intersect Txns, NEW x \in Seen(t)
                 PROVE  status[stmts[WriteOf(x)].tid] = "TXN_COMMIT" /\ ~Intermediate(x)
      BY DEF NothingMissed
    <2> DEFINE g == DependencyGraph(History)
    <2>1. /\ \A u \in Txns : status[u] \in {"TXN_COMMIT", "TXN_ABORT"}
          /\ ~CheckG1a(History, g) /\ ~CheckG1b(History)
      <3>1. da.phase # "running"
        BY DEF Analyzed
      <3> HIDE DEF g
      <3> QED BY <1>1, <3>1, AnalyzedIs DEF g
    <2>2. PICK i \in DOMAIN stmts : x \in stmts[i].out /\ stmts[i].tid = t
      BY HistoryIs DEF Seen, Of
    <2>3. PICK n \in DOMAIN stmts : stmts[n].tid # t /\ stmts[n].use = "AFTER_WRITE_READ" /\ x \in stmts[n].out
      BY HistoryIs DEF Seen
    <2>4. PICK r, v : r = x.row /\ v = x.ver
      OBVIOUS
    <2>5. x = [row |-> r, ver |-> v] /\ r \in RowPool /\ v \in Nat
      <3>1. x \in Versions
        BY <2>0, <2>2, StmtType
      <3> QED BY <2>4, <3>1 DEF Versions
    <2>6. /\ Saw(i, r, v) /\ Saw(n, r, v) /\ Source(n, r, v) /\ v \notin RowPool
          /\ \A k, q : Source(k, q, v) /\ q \in RowPool => k = n
      BY <2>0, <2>2, <2>3, <2>5, SawIsSource DEF Saw
    <2>7. \A k \in DOMAIN stmts : stmts[k].use = "AFTER_WRITE_READ" /\ x \in stmts[k].out => k = n
      <3> SUFFICES ASSUME NEW k \in DOMAIN stmts, stmts[k].use = "AFTER_WRITE_READ", x \in stmts[k].out
                   PROVE  k = n
        OBVIOUS
      <3>1. Source(k, r, v)
        BY <2>0, <2>5, SawIsSource DEF Saw
      <3> QED BY <2>5, <2>6, <3>1
    <2>8. WriteOf(x) = n
      <3>1. /\ WriteOf(x) \in DOMAIN stmts /\ stmts[WriteOf(x)].use = "AFTER_WRITE_READ"
            /\ x \in stmts[WriteOf(x)].out
        BY <2>3 DEF WriteOf
      <3> QED BY <2>7, <3>1
    <2>9. stmts[i].use # "AFTER_WRITE_READ"
      BY <2>2, <2>3, <2>7
    <2>10. CameFrom(i, n, r, v)
      BY <2>0, <2>5, <2>6, <2>9, CameFromSource
    <2>11. n \in Nat /\ i \in Nat /\ n < i /\ i >= 1 /\ stmts[n].tid \in Txns
      BY <2>0, <2>10, StmtType DEF CameFrom
    <2> DEFINE l == Ops(History, r)
               w == Op(n, v)
               o == Op(i, v)
    <2>12. w \in l /\ o \in l /\ r \in RowIds(History)
      BY <2>0, <2>6, OpsAre
    <2>13. status[stmts[n].tid] = "TXN_COMMIT"
      <3>1. w \in WritesSeen(l, o)
        <4> HIDE DEF l
        <4> QED BY <2>3, <2>11, <2>12, OpFields DEF WritesSeen
      <3>2. WritesSeen(l, o) = {w}
        <4>1. PICK y : WritesSeen(l, o) = {y}
          BY <2>0, <2>6, <2>9, OneWriteSeen
        <4> HIDE DEF l, w, o
        <4> QED BY <3>1, <4>1
      <3>3. w.idx = n /\ w.tid = stmts[n].tid /\ o.idx = i /\ o.tid = t /\ o.use = stmts[i].use
        BY <2>2, OpFields
      <3> HIDE DEF l, w, o
      <3>4. w \in NearestWrite(l, o)
        <4>1. w.idx <= w.idx
          BY <2>11, <3>3
        <4> QED BY <3>2, <4>1 DEF NearestWrite
      <3>5. o \in Reads(l)
        BY <2>9, <2>11, <2>12, <3>3 DEF Reads
      <3>6. <<w.tid, o.tid, "WRITE_READ">> \in DependencyGraph(History)
        BY <2>3, <2>12, <3>3, <3>4, <3>5, ReadEdge DEF l
      <3>7. <<stmts[n].tid, t, "WRITE_READ">> \in g
        BY <3>3, <3>6
      <3> HIDE DEF g
      <3>8. status[stmts[n].tid] # "TXN_ABORT"
        BY <2>1, <2>11, <3>7, HistoryIs DEF CheckG1a, Txns
      <3> QED BY <2>1, <2>11, <3>8
    <2>14. ASSUME Intermediate(x) PROVE FALSE
      <3>1. PICK k \in DOMAIN stmts : /\ k > n /\ stmts[k].tid = stmts[n].tid
                                      /\ stmts[k].use = "BEFORE_WRITE_READ" /\ x \in stmts[k].out
        BY <2>8, <2>14 DEF Intermediate
      <3>2. k \in Nat
        BY <2>0, StmtType
      <3>3. i <= k
        <4>1. n < k
          BY <2>11, <3>1, <3>2
        <4>2. Replaces(k, n, r, v)
          BY <2>5, <3>1, <4>1 DEF Replaces
        <4> QED BY <2>10, <4>2 DEF CameFrom
      <3>4. Saw(k, r, v)
        BY <2>5, <3>1 DEF Saw
      <3>5. k <= End(History, stmts[n].tid) /\ End(History, stmts[n].tid) \in Nat
        <4>1. Inside(k, stmts[n].tid)
          BY <2>0, <3>1, <3>4, SawInside
        <4> QED BY <2>0, <4>1, BeginAndEnd
      <3> DEFINE z == Op(k, v)
      <3>6. z \in l
        BY <2>0, <3>4, OpsAre
      <3>7. /\ w.use = "AFTER_WRITE_READ" /\ w.idx = n /\ w.tid = stmts[n].tid /\ w.ver = v
            /\ o.idx = i /\ o.tid = t /\ o.ver = v
            /\ z.idx = k /\ z.tid = stmts[n].tid /\ z.use = "BEFORE_WRITE_READ"
        BY <2>2, <2>3, <3>1, OpFields
      <3> HIDE DEF l, w, o, z
      <3>8. n < i /\ n < k /\ i <= End(History, stmts[n].tid)
        BY <2>11, <3>2, <3>3, <3>5
      <3>9. /\ w \in Ops(History, r) /\ o \in Ops(History, r) /\ z \in Ops(History, r)
        BY <2>12, <3>6 DEF l
      <3>10. CheckG1b(History)
        <4>1. /\ o \in {y \in Ops(History, r) : w.idx < y.idx /\ y.idx <= End(History, w.tid)}
              /\ z \in {y \in Ops(History, r) : w.idx < y.idx /\ y.idx <= End(History, w.tid)}
          BY <3>5, <3>7, <3>8, <3>9
        <4>2. o.tid # w.tid /\ o.ver = w.ver /\ z.tid = w.tid
          BY <2>3, <3>7
        <4> QED BY <2>12, <3>7, <3>9, <4>1, <4>2 DEF CheckG1b
      <3> QED BY <2>1, <3>10
    <2> QED BY <2>8, <2>13, <2>14
  <1> QED BY <1>1, IInvHolds, PTL

(* At a level that forbids the anomalies, none is reported: what is read of  *)
(* another transaction is committed and the transaction over, so that its    *)
(* end is a rank that every edge raises.                                     *)
THEOREM NoFalseAlarmHolds == Spec => []NoFalseAlarm
PROOF
  <1>1. ASSUME IInv PROVE NoFalseAlarm
    <2>0. TypeInv /\ StartInv /\ VersionInv /\ ReadInv
      BY <1>1 DEF IInv
    <2> SUFFICES ASSUME level # "dirty", da.phase # "running"
                 PROVE  da.phase = "analyzed" /\ da.bug = "none"
      BY DEF NoFalseAlarm, Analyzed
    <2> DEFINE H == History
               g == DependencyGraph(H)
    <2>1. TxnNum \in Nat /\ TxnNum + 1 \notin Txns /\ Txns \subseteq 1..(TxnNum + 1)
      BY DepAssumption DEF Txns
    <2>2. ~CheckG1a(H, g)
      <3> SUFFICES ASSUME NEW t \in 1..TxnNum, NEW u, status[t] = "TXN_ABORT",
                          <<t, u, "WRITE_READ">> \in g
                   PROVE  FALSE
        <4> HIDE DEF g
        <4> QED BY HistoryIs DEF CheckG1a
      <3> DEFINE e == <<t, u, "WRITE_READ">>
      <3>1. e[1] = t /\ e[2] = u /\ e[3] = "WRITE_READ" /\ e \in DependencyGraph(History)
        OBVIOUS
      <3> HIDE DEF e, g
      <3>2. /\ t # u /\ \E i \in DOMAIN stmts : 
                  /\ u = stmts[i].tid
                  /\ \/ t = TxnNum + 1
                     \/ \E j \in DOMAIN stmts : t = stmts[j].tid /\ Promised(i, j)
        BY <1>1, <3>1, EdgeIsRead
      <3>3. t # TxnNum + 1
        BY <2>1
      <3>4. PICK i \in DOMAIN stmts, j \in DOMAIN stmts : u = stmts[i].tid /\ t = stmts[j].tid /\ Promised(i, j)
        BY <3>2, <3>3
      <3> QED BY <3>2, <3>4 DEF Promised, HasCommitted
    <2>3. ~CheckG1b(H)
      <3> SUFFICES ASSUME CheckG1b(History) PROVE FALSE
        OBVIOUS
      <3>1. PICK i \in DOMAIN stmts, j \in DOMAIN stmts, r \in RowPool, v \in Nat :
            /\ Source(j, r, v) /\ v \notin RowPool /\ j < i
            /\ Saw(i, r, v) /\ stmts[i].use # "AFTER_WRITE_READ"
            /\ stmts[i].tid # stmts[j].tid /\ i <= End(History, stmts[j].tid)
        BY <2>0, G1bIs
      <3>2. CameFrom(i, j, r, v)
        BY <2>0, <3>1, CameFromSource
      <3>3. \A k \in DOMAIN stmts : stmts[k].tid = stmts[j].tid => k < i
        BY <3>1, <3>2 DEF CameFrom, Promised
      <3> DEFINE z == End(History, stmts[j].tid)
      <3>4. z \in Nat /\ (z # 0 => Inside(z, stmts[j].tid)) /\ i \in Nat /\ i >= 1
        BY <2>0, BeginAndEnd, StmtType
      <3>5. z # 0
        <4>1. i <= z
          BY <3>1
        <4> HIDE DEF z
        <4> QED BY <3>4, <4>1
      <3>6. z < i
        <4> HIDE DEF z
        <4> QED BY <3>3, <3>4, <3>5 DEF Inside
      <3>7. i <= z
        BY <3>1
      <3> HIDE DEF z
      <3> QED BY <3>4, <3>6, <3>7
    <2>4. ~CheckG1c(H, g)
      <3> DEFINE n == TxnNum + 1
                 types == {"WRITE_WRITE", "WRITE_READ"}
                 e == CommittedEdges(H, g, types)
                 rank == [t \in 1..n |-> End(H, t)]
      <3>1. n \in Nat /\ AllTxns(H) = 1..n
        BY <2>1, HistoryIs
      <3>2. rank \in [1..n -> Nat]
        BY <2>0, BeginAndEnd
      <3>3. Committed(H) \subseteq 1..n
        <4>1. Committed(H) = {t \in Txns : status[t] = "TXN_COMMIT"} \union {n}
          BY HistoryIs
        <4>2. n \in 1..n
          BY <2>1
        <4> HIDE DEF H
        <4> QED BY <2>1, <4>1, <4>2
      <3>4. ASSUME NEW p \in e
            PROVE  /\ p = <<p[1], p[2]>> /\ p[1] \in Committed(H) /\ p[2] \in Committed(H)
                   /\ \E f \in DependencyGraph(History) : p[1] = f[1] /\ p[2] = f[2] /\ f[3] \in types
        <4>1. p \in EdgesOf(g, types) /\ p[1] \in Committed(H) /\ p[2] \in Committed(H)
          <5> HIDE DEF g, types
          <5> QED BY <3>4 DEF CommittedEdges, Within
        <4>2. PICK f \in g : p = <<f[1], f[2]>> /\ f[3] \in types
          <5> HIDE DEF g, types
          <5> QED BY <4>1 DEF EdgesOf
        <4> HIDE DEF types, e
        <4> QED BY <4>1, <4>2
      <3>5. e \in SUBSET ((1..n) \X (1..n))
        <4> HIDE DEF e, n, H
        <4> QED BY <3>3, <3>4
      <3>6. ASSUME NEW p \in e PROVE rank[p[1]] < rank[p[2]]
        <4>1. p[1] \in 1..n /\ p[2] \in 1..n
          <5> HIDE DEF e, n, H
          <5> QED BY <3>3, <3>4
        <4>2. PICK f \in DependencyGraph(History) : p[1] = f[1] /\ p[2] = f[2] /\ f[3] \in types
          <5> HIDE DEF e, types
          <5> QED BY <3>4
        <4>3. PICK i \in DOMAIN stmts :
               /\ f[1] # f[2] /\ f[2] = stmts[i].tid /\ Inside(i, f[2])
               /\ \/ f[1] = n
                  \/ \E j \in DOMAIN stmts :
                        f[1] = stmts[j].tid /\ j < i /\ Promised(i, j) /\ Inside(j, f[1])
          BY <1>1, <4>2, EdgeIsRead
        <4>4. i <= End(History, f[2]) /\ i \in Nat /\ i >= 1 /\ End(History, f[2]) \in Nat
          BY <2>0, <4>3, BeginAndEnd, StmtType
        <4>5. /\ End(History, f[1]) \in Nat
              /\ End(History, f[1]) # 0 => Inside(End(History, f[1]), f[1])
          BY <2>0, BeginAndEnd
        <4>6. End(History, f[1]) < i
          <5>1. CASE End(History, f[1]) = 0
            BY <4>4, <5>1
          <5>2. CASE End(History, f[1]) # 0
            <6>1. PICK z : z = End(History, f[1])
              OBVIOUS
            <6>2. z \in DOMAIN stmts /\ stmts[z].tid = f[1]
              BY <4>5, <5>2, <6>1 DEF Inside
            <6>3. f[1] # n
              <7>1. stmts[z].tid \in Txns
                BY <2>0, <6>2, StmtType
              <7> QED BY <2>1, <6>2, <7>1
            <6>4. PICK j \in DOMAIN stmts : f[1] = stmts[j].tid /\ Promised(i, j)
              BY <4>3, <6>3
            <6>5. z < i
              BY <4>3, <6>2, <6>4 DEF Promised
            <6> QED BY <6>1, <6>5
          <5> QED BY <5>1, <5>2
        <4>7. rank[p[1]] = End(History, f[1]) /\ rank[p[2]] = End(History, f[2])
          BY <4>1, <4>2
        <4> HIDE DEF rank
        <4> QED BY <4>4, <4>5, <4>6, <4>7
      <3> HIDE DEF n, e, rank, H
      <3>7. ~HasCycle(H, e)
        BY <3>1, <3>2, <3>5, <3>6, NoCycle
      <3> QED BY <3>7 DEF e, CheckG1c
    <2> HIDE DEF g
    <2> QED BY <1>1, <2>2, <2>3, <2>4, AnalyzedIs DEF g
  <1> QED BY <1>1, IInvHolds, PTL

(* Under snapshot isolation every edge of a read or of a replacement starts  *)
(* at a transaction whose end is before the other's begin, so that the       *)
(* start edge check_GSIa() asks for is there.                                *)
THEOREM SnapshotsFollowCommitsHolds == Spec => []SnapshotsFollowCommits
PROOF
  <1>1. ASSUME IInv PROVE SnapshotsFollowCommits
    <2>0. TypeInv /\ StartInv
      BY <1>1 DEF IInv
    <2> SUFFICES ASSUME Analyzed, level = "snapshot", CheckGSIa(History, da.graph) PROVE FALSE
      BY DEF SnapshotsFollowCommits
    <2>1. da.graph = DependencyGraph(History)
      BY <1>1, AnalyzedIs DEF Analyzed
    <2>2. PICK f \in DependencyGraph(History) :
             f[3] \in {"WRITE_READ", "WRITE_WRITE"} /\ <<f[1], f[2], "START_DEPEND">> \notin DependencyGraph(History)
      <3>1. PICK p \in EdgesOf(DependencyGraph(History), {"WRITE_WRITE", "WRITE_READ"}) :
               <<p[1], p[2], "START_DEPEND">> \notin DependencyGraph(History)
        BY <2>1 DEF CheckGSIa
      <3>2. PICK f \in DependencyGraph(History) : p = <<f[1], f[2]>> /\ f[3] \in {"WRITE_WRITE", "WRITE_READ"}
        BY <3>1 DEF EdgesOf
      <3> QED BY <3>1, <3>2
    <2>3. PICK i \in DOMAIN stmts :
             /\ f[1] # f[2] /\ f[2] = stmts[i].tid /\ Inside(i, f[2])
             /\ \/ f[1] = TxnNum + 1
                \/ \E j \in DOMAIN stmts : f[1] = stmts[j].tid /\ Promised(i, j)
      BY <1>1, <2>2, EdgeIsRead
    <2> DEFINE b == Begin(History, f[2])
               z == End(History, f[1])
    <2>4. b \in Nat /\ Inside(b, f[2]) /\ b >= 1
      <3>1. b \in Nat /\ Inside(b, f[2])
        BY <2>0, <2>3, BeginAndEnd
      <3>2. b \in DOMAIN stmts
        BY <3>1 DEF Inside
      <3> HIDE DEF b
      <3> QED BY <2>0, <3>1, <3>2, StmtType
    <2>5. z \in Nat /\ (z # 0 => Inside(z, f[1]))
      BY <2>0, BeginAndEnd
    <2> HIDE DEF b, z
    <2>6. z < b
      <3>1. CASE z = 0
        BY <2>4, <3>1
      <3>2. CASE z # 0
        <4>1. z \in DOMAIN stmts /\ stmts[z].tid = f[1] /\ b \in DOMAIN stmts
          BY <2>4, <2>5, <3>2 DEF Inside
        <4>2. f[1] # TxnNum + 1
          <5>1. stmts[z].tid \in Txns /\ TxnNum \in Nat
            BY <2>0, <4>1, StmtType, DepAssumption
          <5> QED BY <4>1, <5>1 DEF Txns
        <4>3. PICK j \in DOMAIN stmts : f[1] = stmts[j].tid /\ Promised(i, j)
          BY <2>3, <4>2
        <4>4. EndsBefore(j, f[2])
          BY <2>3, <4>3 DEF Promised
        <4> QED BY <2>4, <4>1, <4>3, <4>4 DEF EndsBefore
      <3> QED BY <3>1, <3>2
    <2>7. f[1] \in AllTxns(History) /\ f[2] \in AllTxns(History)
      <3>1. TxnNum \in Nat /\ Txns \subseteq 1..(TxnNum + 1) /\ TxnNum + 1 \in 1..(TxnNum + 1)
        BY DepAssumption DEF Txns
      <3>2. \A k \in DOMAIN stmts : stmts[k].tid \in Txns
        BY <2>0, StmtType
      <3> QED BY <2>3, <3>1, <3>2, HistoryIs
    <2>8. <<f[1], f[2], "START_DEPEND">> \in DependencyGraph(History)
      BY <2>3, <2>6, <2>7, StartEdge DEF b, z
    <2> QED BY <2>2, <2>8
  <1> QED BY <1>1, IInvHolds, PTL
=============================================================================
