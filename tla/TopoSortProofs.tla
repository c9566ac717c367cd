-------------------------- MODULE TopoSortProofs ---------------------------
(***************************************************************************)
(* topological_sort_path() for queues of every length and every graph of   *)
(* dependencies: the path respects the dependencies, keeps blocks          *)
(* together, and loses no statement unless there is a cycle.               *)
(***************************************************************************)
EXTENDS TopoSort, TLAPS, SequenceTheorems, FiniteSetTheorems

(* Rolled back or given up for a cycle.  What the caller excluded is not   *)
(* removed by that: it keeps its edges, and may be put out with its block. *)
Removed ==
    {i \in Positions :
        i \in Aborted(graph) \/ \E j \in block[i] : j \in deleted \ graph.deleted}

Gone == outputted \union Removed

Excluded(g) == g.deleted \union Aborted(g)

(* The blocks are the classes of an equivalence.                           *)
BlockInv ==
    /\ \A i \in Positions : i \in block[i]
    /\ \A i, j \in Positions : j \in block[i] => block[j] = block[i]

Whole(S) == \A i \in S : block[i] \subseteq S

(* Blocks are put out or given up as a whole, and never both; a block of   *)
(* excluded statements only is not put out.                                *)
SetInv ==
    /\ Whole(outputted) /\ Whole(Aborted(graph))
    /\ Excluded(graph) \subseteq deleted
    /\ \A i \in deleted \ graph.deleted : block[i] \subseteq deleted
    /\ outputted \intersect Removed = {}
    /\ \A i \in outputted : ~(block[i] \subseteq graph.deleted)
    /\ WholeBlocks => outputted \intersect deleted = {}

(* Edges disappear with one of their ends only, and those of statements    *)
(* that were put out, rolled back or given up have disappeared.            *)
EdgeInv ==
    /\ edges \subseteq graph.edges
    /\ \A e \in graph.edges : e \in edges \/ e[1] \in Gone \/ e[2] \in Gone
    /\ \A e \in edges : e[1] \notin Gone
    /\ edges \subseteq Without(graph.edges, Aborted(graph))

(* What a statement that was put out depends on is put out or removed.     *)
Grounded ==
    \A e \in graph.edges :
        e[2] \in outputted /\ e[1] \notin block[e[2]] => e[1] \in Gone

InPath(i) == \E k \in 1..Len(path) : path[k] = i

PathInv ==
    /\ \A k \in 1..Len(path) : path[k] \in outputted
    /\ \A k, l \in 1..Len(path) : path[k] = path[l] => k = l

(* What the loops after the sorting have erased so far.                    *)
TrimInv ==
    /\ \A i \in outputted : pc = "sorting" \/ (~IsEnd(i) /\ ~IsHolder(i)) => InPath(i)
    /\ pc # "sorting" /\ WholeBlocks => outputted \union deleted = Positions
    /\ pc \in {"holders", "returned"} => \A k \in 1..Len(path) : ~IsEnd(path[k])
    /\ pc = "returned" => \A k \in 1..Len(path) : ~IsHolder(path[k])

NoCycle ==
    /\ WholeBlocks
    /\ Acyclic(graph, Positions \ Excluded(graph))
    /\ \A e \in graph.edges : e[1] \in graph.deleted => e[2] \notin Positions \ Excluded(graph)

(* Without a cycle nothing but what was excluded from the start is gone.   *)
DeletedInv == NoCycle => deleted = Excluded(graph)

OnlyOnSortable ==
    /\ Sortable(graph) # {}
    /\ \A e \in Without(graph.edges, Aborted(graph)) : e[1] \in Sortable(graph)

(* Of the statements to sort one is never given up.                        *)
KeptInv == OnlyOnSortable => \E i \in Sortable(graph) : i \notin deleted

IInv ==
    /\ TypeOK /\ BlockInv /\ SetInv /\ EdgeInv /\ Grounded /\ PathInv
    /\ PathRespectsDependencies /\ BlocksTogether
    /\ DeletedInv /\ TrimInv /\ KeptInv

-----------------------------------------------------------------------------
(* A set with one end of an instrument edge only if it has the other holds *)
(* all of get_instrumented_stmt_set() of its members.                      *)
LEMMA ClosedSets ==
    ASSUME NEW e \in SUBSET Edges, NEW S, Closed(e, S),
           NEW i \in Positions, i \in S
    PROVE  InstrumentedSet(e, i) \subseteq S
<1> DEFINE near == Ends(e) \union {i}
           T == S \intersect near
<1>1. Closed(e, T)
  BY DEF Closed, Ends
<1>2. T \in SUBSET near /\ i \in T
  OBVIOUS
<1> QED BY <1>1, <1>2 DEF InstrumentedSet

(* get_instrumented_stmt_set() gives the same set for all its members.     *)
LEMMA InstrumentedSetFacts ==
    ASSUME NEW e \in SUBSET Edges
    PROVE  /\ \A i \in Positions : /\ InstrumentedSet(e, i) \subseteq Positions
                                   /\ i \in InstrumentedSet(e, i)
           /\ \A i, j \in Positions :
                  j \in InstrumentedSet(e, i) => InstrumentedSet(e, j) = InstrumentedSet(e, i)
<1>1. Ends(e) \subseteq Positions
  BY DEF Ends, Edges
<1>2. ASSUME NEW i \in Positions
      PROVE  InstrumentedSet(e, i) \subseteq Positions /\ i \in InstrumentedSet(e, i)
  BY <1>1 DEF InstrumentedSet
<1>3. ASSUME NEW i \in Positions
      PROVE  Closed(e, InstrumentedSet(e, i))
  <2> DEFINE near == Ends(e) \union {i}
  <2> SUFFICES ASSUME NEW p \in e, p[1] < p[2]
               PROVE  p[1] \in InstrumentedSet(e, i) <=> p[2] \in InstrumentedSet(e, i)
    BY DEF Closed
  <2>1. p[1] \in near /\ p[2] \in near
    BY DEF Ends
  <2>2. ASSUME NEW S \in SUBSET near, Closed(e, S)
        PROVE  p[1] \in S <=> p[2] \in S
    BY <2>2 DEF Closed
  <2> QED BY <2>1, <2>2 DEF InstrumentedSet
<1>4. ASSUME NEW i \in Positions, NEW j \in Positions, j \in InstrumentedSet(e, i)
      PROVE  i \in InstrumentedSet(e, j)
  <2> SUFFICES ASSUME i \notin InstrumentedSet(e, j)
               PROVE  FALSE
    OBVIOUS
  <2> DEFINE T == Positions \ InstrumentedSet(e, j)
  <2>1. Closed(e, T)
    <3> SUFFICES ASSUME NEW p \in e, p[1] < p[2]
                 PROVE  p[1] \in T <=> p[2] \in T
      BY DEF Closed
    <3>1. p[1] \in Positions /\ p[2] \in Positions
      BY DEF Edges
    <3>2. p[1] \in InstrumentedSet(e, j) <=> p[2] \in InstrumentedSet(e, j)
      BY <1>3 DEF Closed
    <3> QED BY <3>1, <3>2
  <2>2. i \in T
    OBVIOUS
  <2>3. InstrumentedSet(e, i) \subseteq T
    BY <2>1, <2>2, ClosedSets
  <2> QED BY <2>3, <1>2, <1>4
<1>5. ASSUME NEW i \in Positions, NEW j \in Positions, j \in InstrumentedSet(e, i)
      PROVE  InstrumentedSet(e, j) = InstrumentedSet(e, i)
  <2>1. InstrumentedSet(e, j) \subseteq InstrumentedSet(e, i)
    BY <1>3, <1>5, ClosedSets
  <2>2. InstrumentedSet(e, i) \subseteq InstrumentedSet(e, j)
    BY <1>3, <1>4, <1>5, ClosedSets
  <2> QED BY <2>1, <2>2
<1> QED BY <1>2, <1>5

(* The set-up of topological_sort_path() establishes the invariant.        *)
LEMMA InitInv == Init => IInv
<1> SUFFICES ASSUME Init PROVE IInv
  OBVIOUS
<1> USE DEF Init
<1>1. graph \in Inputs /\ graph \in Graphs
  BY GraphsAssumption
<1>2. graph.instr \in SUBSET Edges /\ graph.edges \in SUBSET Edges
      /\ graph.deleted \in SUBSET Positions
  BY <1>1 DEF Inputs
<1>3. BlockInv /\ block \in [Positions -> SUBSET Positions]
  BY <1>2, InstrumentedSetFacts DEF BlockInv
<1>4. TypeOK
  <2>1. edges \in SUBSET Edges /\ deleted \in SUBSET Positions
    BY <1>2 DEF Without, Aborted
  <2>2. path \in Seq(Positions)
    OBVIOUS
  <2> QED BY <1>1, <1>3, <2>1, <2>2 DEF TypeOK
<1>5. Whole(Aborted(graph))
  <2>1. Closed(graph.instr, Aborted(graph))
    <3> SUFFICES ASSUME NEW p \in graph.instr
                 PROVE  p[1] \in Aborted(graph) <=> p[2] \in Aborted(graph)
      BY DEF Closed
    <3>1. p[1] \in Positions /\ p[2] \in Positions
      BY <1>2 DEF Edges
    <3>2. graph.tid[p[1]] = graph.tid[p[2]]
      BY <1>1, InstrumentAssumption
    <3> QED BY <3>1, <3>2 DEF Aborted
  <2>2. Aborted(graph) \subseteq Positions
    BY DEF Aborted
  <2> QED BY <1>2, <2>1, <2>2, ClosedSets DEF Whole
<1>6. SetInv /\ DeletedInv
  <2>1. \A i \in deleted \ graph.deleted : block[i] \subseteq deleted
    BY <1>5 DEF Whole
  <2> QED BY <1>5, <2>1 DEF SetInv, DeletedInv, Excluded, Whole
<1>7. EdgeInv
  <2>1. Aborted(graph) \subseteq Removed
    BY DEF Removed, Aborted
  <2>2. ASSUME NEW e \in edges
        PROVE  e[1] \notin Gone
    <3>1. e \in Edges /\ e[1] \notin Aborted(graph)
      BY <1>2 DEF Without
    <3>2. e[1] \in Positions
      BY <3>1 DEF Edges
    <3>3. e[1] \notin Removed
      <4>1. ASSUME NEW j \in block[e[1]], j \in deleted \ graph.deleted
            PROVE  FALSE
        <5>1. j \in Positions /\ j \in Aborted(graph)
          BY <4>1, <1>3, <3>2
        <5>2. e[1] \in block[j]
          BY <4>1, <1>3, <3>2 DEF BlockInv
        <5> QED BY <5>1, <5>2, <3>1, <1>5 DEF Whole
      <4> QED BY <4>1, <3>1 DEF Removed
    <3> QED BY <3>3 DEF Gone
  <2> QED BY <1>2, <2>1, <2>2 DEF EdgeInv, Without, Gone
<1>8. Grounded /\ PathInv /\ TrimInv /\ PathRespectsDependencies /\ BlocksTogether
  BY DEF Grounded, PathInv, TrimInv, PathRespectsDependencies, BlocksTogether
<1>9. KeptInv
  BY DEF KeptInv, OnlyOnSortable, Sortable
<1> QED BY <1>3, <1>4, <1>6, <1>7, <1>8, <1>9 DEF IInv

(* What is said of the input alone no step of the sort disturbs.           *)
LEMMA SameInput ==
    ASSUME graph' = graph, block' = block
    PROVE  /\ Excluded(graph)' = Excluded(graph)
           /\ Whole(Aborted(graph))' <=> Whole(Aborted(graph))
           /\ WholeBlocks' <=> WholeBlocks
           /\ NoCycle' <=> NoCycle
           /\ Without(graph.edges, Aborted(graph))' = Without(graph.edges, Aborted(graph))
           /\ Sortable(graph)' = Sortable(graph)
           /\ OnlyOnSortable' <=> OnlyOnSortable
<1>1. Excluded(graph)' = Excluded(graph)
  BY DEF Excluded, Aborted
<1>2. Acyclic(graph, Positions \ Excluded(graph))' <=> Acyclic(graph, Positions \ Excluded(graph))
  BY <1>1 DEF Acyclic
<1>3. Without(graph.edges, Aborted(graph))' = Without(graph.edges, Aborted(graph))
  BY DEF Aborted, Without
<1>4. Sortable(graph)' = Sortable(graph)
  BY DEF Sortable, Aborted, IsEnd, First, Last, IsHolder
<1> QED BY <1>1, <1>2, <1>3, <1>4 DEF Whole, Aborted, WholeBlocks, NoCycle, OnlyOnSortable

(* Nothing of the block of a remaining statement was put out or removed,   *)
(* and where whole blocks were excluded all of it remains.                 *)
LEMMA RemainingBlocks ==
    ASSUME TypeOK, BlockInv, SetInv, NEW i \in Remaining
    PROVE  /\ i \in Positions /\ block[i] \subseteq Positions /\ Whole(block[i])
           /\ i \notin graph.deleted /\ block[i] \intersect Gone = {}
           /\ WholeBlocks => block[i] \subseteq Remaining
<1>1. i \in Positions /\ block[i] \subseteq Positions /\ i \notin outputted /\ i \notin deleted
  BY DEF Remaining, TypeOK
<1>2. i \notin graph.deleted /\ i \notin Aborted(graph)
  BY <1>1 DEF SetInv, Excluded
<1>3. ASSUME NEW j \in block[i]
      PROVE  block[j] = block[i] /\ i \in block[j] /\ j \in Positions
  BY <1>1 DEF BlockInv
<1>4. ASSUME NEW j \in block[i]
      PROVE  j \notin outputted /\ j \notin deleted \ graph.deleted
  BY <1>1, <1>3 DEF SetInv, Whole
<1>5. ASSUME NEW j \in block[i]
      PROVE  j \notin Removed
  BY <1>2, <1>3, <1>4 DEF Removed, SetInv, Whole
<1>6. ASSUME WholeBlocks, NEW j \in block[i]
      PROVE  j \in Remaining
  BY <1>2, <1>3, <1>4, <1>6 DEF WholeBlocks, Remaining
<1>7. Whole(block[i])
  BY <1>3 DEF Whole
<1> QED BY <1>1, <1>2, <1>4, <1>5, <1>6, <1>7 DEF Gone

(* Output keeps the invariant: what the block depends on is put out or     *)
(* given up already, so it is not later in the path.                       *)
LEMMA OutputInv ==
    ASSUME IInv, Output
    PROVE  IInv'
<1>0. TypeOK /\ BlockInv /\ SetInv /\ EdgeInv /\ Grounded /\ PathInv
      /\ PathRespectsDependencies /\ BlocksTogether
      /\ DeletedInv /\ TrimInv /\ KeptInv
  BY DEF IInv
<1>i. PICK i \in Remaining :
          /\ ~HasIndegree(i)
          /\ \E s \in Ascending(block[i]) : path' = path \o s
          /\ outputted' = outputted \union block[i]
          /\ edges' = Without(edges, block[i])
  BY DEF Output, Emitted
<1>1. PICK s \in Ascending(block[i]) :
          /\ ~HasIndegree(i)
          /\ path' = path \o s
          /\ outputted' = outputted \union block[i]
          /\ edges' = Without(edges, block[i])
  BY <1>i
<1>2. graph' = graph /\ block' = block /\ deleted' = deleted /\ delete_flag' = delete_flag
      /\ pc' = pc /\ pc = "sorting"
  BY DEF Output
<1> DEFINE B == block[i]
           n == Len(path)
<1>3. /\ i \in Positions /\ B \subseteq Positions /\ Whole(B) /\ i \in B /\ i \notin graph.deleted
      /\ WholeBlocks => B \subseteq Remaining
  BY <1>0, RemainingBlocks DEF BlockInv
<1>4. B \intersect Gone = {}
  BY <1>0, RemainingBlocks
<1>5. IsFiniteSet(B) /\ Cardinality(B) \in Nat
  <2>1. IsFiniteSet(Positions)
    BY StmtNumAssumption, FS_Interval DEF Positions
  <2> QED BY <1>3, <2>1, FS_Subset, FS_CardinalityType
<1>6. /\ s \in Seq(Positions) /\ Len(s) = Cardinality(B)
      /\ \A k \in 1..Len(s) : s[k] \in B
      /\ \A j \in B : \E k \in 1..Len(s) : s[k] = j
      /\ \A k, l \in 1..Len(s) : k < l => s[k] < s[l]
  <2>1. /\ s \in [1..Cardinality(B) -> B]
        /\ \A j \in B : \E k \in DOMAIN s : s[k] = j
        /\ \A k, l \in DOMAIN s : k < l => s[k] < s[l]
    BY <1>1 DEF Ascending
  <2>2. s \in Seq(Positions) /\ Len(s) = Cardinality(B)
    BY <2>1, <1>3, <1>5
  <2>3. DOMAIN s = 1..Len(s)
    BY <2>1, <2>2
  <2> QED BY <2>1, <2>2, <2>3
<1>7. /\ path \in Seq(Positions) /\ n \in Nat /\ Len(s) \in Nat
      /\ path' \in Seq(Positions) /\ Len(path') = n + Len(s)
      /\ \A k \in 1..n : path'[k] = path[k]
      /\ \A k \in 1..Len(s) : path'[n + k] = s[k]
  <2>1. path \in Seq(Positions) /\ n \in Nat /\ Len(s) \in Nat
    BY <1>0, <1>5, <1>6 DEF TypeOK
  <2>2. path' = path \o s
    BY <1>1
  <2>3. path' \in Seq(Positions) /\ Len(path') = n + Len(s)
    BY <2>1, <2>2, <1>6, ConcatProperties
  <2>4. \A k \in 1..n : path'[k] = path[k]
    BY <2>1, <2>2, <1>6
  <2>5. \A k \in 1..Len(s) : path'[n + k] = s[k]
    BY <2>1, <2>2, <1>6
  <2> QED BY <2>1, <2>3, <2>4, <2>5
<1>8. ASSUME NEW k \in 1..Len(path')
      PROVE  /\ k <= n => k \in 1..n /\ path'[k] = path[k] /\ path'[k] \in outputted
             /\ k > n => k - n \in 1..Len(s) /\ path'[k] = s[k - n] /\ path'[k] \in B
  <2>1. CASE k <= n
    BY <2>1, <1>7, <1>0 DEF PathInv
  <2>2. CASE k > n
    <3>1. k - n \in 1..Len(s) /\ k = n + (k - n)
      BY <2>2, <1>7
    <3> QED BY <3>1, <2>2, <1>6, <1>7
  <2> QED BY <2>1, <2>2, <1>7
<1> HIDE DEF B, n
<1>9. TypeOK'
  BY <1>0, <1>1, <1>2, <1>3, <1>7 DEF TypeOK, Without, B
<1>10. BlockInv' /\ DeletedInv' /\ KeptInv'
  BY <1>0, <1>2, SameInput DEF BlockInv, DeletedInv, KeptInv
<1>11. Removed' = Removed /\ SetInv'
  <2>1. Whole(outputted)' /\ Whole(Aborted(graph))'
    BY <1>0, <1>1, <1>2, <1>3, SameInput DEF SetInv, Whole, B
  <2>2. Removed' = Removed
    BY <1>2 DEF Removed, Aborted
  <2>3. outputted' \intersect Removed' = {}
    BY <2>2, <1>0, <1>1, <1>4 DEF SetInv, Gone, B
  <2>4. ASSUME NEW j \in outputted'
        PROVE  ~(block[j] \subseteq graph.deleted)
    <3>1. CASE j \in outputted
      BY <3>1, <1>0 DEF SetInv
    <3>2. CASE j \in B
      <4>1. i \in block[j]
        BY <3>2, <1>0, <1>3 DEF BlockInv, B
      <4> QED BY <4>1, <1>3
    <3> QED BY <3>1, <3>2, <1>1 DEF B
  <2>5. WholeBlocks => outputted' \intersect deleted = {}
    BY <1>0, <1>1, <1>3 DEF SetInv, Remaining, B
  <2>6. /\ Excluded(graph) \subseteq deleted
        /\ \A j \in deleted \ graph.deleted : block[j] \subseteq deleted
    BY <1>0 DEF SetInv
  <2> QED BY <2>1, <2>2, <2>3, <2>4, <2>5, <2>6, <1>2, SameInput DEF SetInv
<1>12. EdgeInv'
  <2>1. Gone' = Gone \union B
    BY <1>1, <1>11 DEF Gone, B
  <2>2. ASSUME NEW e \in graph.edges
        PROVE  e \in edges' \/ e[1] \in Gone' \/ e[2] \in Gone'
    <3>1. e \in edges \/ e[1] \in Gone \/ e[2] \in Gone
      BY <1>0 DEF EdgeInv
    <3> QED BY <3>1, <2>1, <1>1 DEF Without, B
  <2>3. ASSUME NEW e \in edges'
        PROVE  e \in graph.edges /\ e[1] \notin Gone'
    BY <2>1, <2>3, <1>0, <1>1 DEF EdgeInv, Without, B
  <2>4. edges' \subseteq Without(graph.edges, Aborted(graph))
    BY <1>0, <1>1 DEF EdgeInv, Without
  <2>5. edges' \subseteq Without(graph.edges, Aborted(graph))'
    BY <2>4, <1>2, SameInput
  <2> QED BY <2>2, <2>3, <2>5, <1>2 DEF EdgeInv
<1>13. ASSUME NEW e \in graph.edges, e[2] \in B, e[1] \notin B
       PROVE  e[1] \in Gone
  <2>1. e = <<e[1], e[2]>> /\ e[1] \in Positions
    BY <1>0 DEF TypeOK, Inputs, Edges
  <2>2. e \notin edges
    BY <1>1, <1>13, <2>1 DEF HasIndegree, B
  <2> QED BY <2>2, <1>0, <1>4, <1>13 DEF EdgeInv
<1>14. Grounded'
  <2> SUFFICES ASSUME NEW e \in graph.edges, e[2] \in outputted', e[1] \notin block[e[2]]
               PROVE  e[1] \in Gone'
    BY <1>2 DEF Grounded
  <2>1. CASE e[2] \in outputted
    BY <2>1, <1>0, <1>1, <1>11 DEF Grounded, Gone
  <2>2. CASE e[2] \in B
    <3>1. block[e[2]] = B
      BY <2>2, <1>0, <1>3 DEF BlockInv, B
    <3> QED BY <3>1, <2>2, <1>13, <1>1, <1>11 DEF Gone
  <2> QED BY <2>1, <2>2, <1>1 DEF B
<1>15. PathInv'
  <2>1. ASSUME NEW k \in 1..Len(path')
        PROVE  path'[k] \in outputted'
    <3>1. k \in Int /\ n \in Int
      BY <1>7
    <3>2. outputted' = outputted \union B
      BY <1>1 DEF B
    <3>3. CASE k <= n
      BY <3>2, <3>3, <1>8
    <3>4. CASE k > n
      BY <3>2, <3>4, <1>8
    <3> QED BY <3>1, <3>3, <3>4
  <2>2. ASSUME NEW k \in 1..Len(path'), NEW l \in 1..Len(path'), path'[k] = path'[l]
        PROVE  k = l
    <3>1. CASE k \in 1..n /\ l \in 1..n
      BY <3>1, <2>2, <1>7, <1>0 DEF PathInv, n
    <3>2. CASE k > n /\ l > n
      <4>1. k - n \in 1..Len(s) /\ l - n \in 1..Len(s) /\ s[k - n] = s[l - n]
        BY <3>2, <2>2, <1>8, <1>7
      <4>2. s[k - n] \in Nat /\ s[l - n] \in Nat
        BY <4>1, <1>6, StmtNumAssumption DEF Positions
      <4>3. ~(k - n < l - n) /\ ~(l - n < k - n)
        BY <4>1, <4>2, <1>6
      <4> QED BY <4>1, <4>3, <1>7
    <3>3. CASE (k \in 1..n /\ l > n) \/ (k > n /\ l \in 1..n)
      BY <3>3, <2>2, <1>8, <1>4, <1>7 DEF Gone
    <3> QED BY <3>1, <3>2, <3>3, <1>7
  <2> QED BY <2>1, <2>2 DEF PathInv
<1>16. PathRespectsDependencies'
  <2> SUFFICES ASSUME NEW k \in 1..Len(path'), NEW l \in 1..Len(path'),
                      <<path'[k], path'[l]>> \in graph.edges,
                      path'[l] \notin block[path'[k]]
               PROVE  k < l
    BY <1>2 DEF PathRespectsDependencies
  <2>1. CASE k \in 1..n /\ l \in 1..n
    BY <2>1, <1>7, <1>0 DEF PathRespectsDependencies, n
  <2>2. CASE k \in 1..n /\ l > n
    BY <2>2, <1>7
  <2>3. CASE k > n /\ l > n
    <3>1. path'[k] \in B /\ path'[l] \in B
      BY <2>3, <1>8, <1>7
    <3> QED BY <3>1, <1>0, <1>3 DEF BlockInv, B
  <2>4. CASE k > n /\ l \in 1..n
    <3> DEFINE e == <<path'[k], path'[l]>>
    <3>1. e \in graph.edges /\ e[1] \in B /\ e[2] \in outputted
      <4>1. path'[k] \in B /\ path'[l] \in outputted
        BY <2>4, <1>8
      <4> QED BY <4>1
    <3>2. e[1] \in Positions /\ e[2] \in Positions
      BY <3>1, <1>3, <1>0 DEF TypeOK
    <3>3. e[1] \notin block[e[2]]
      BY <3>2, <1>0 DEF BlockInv
    <3>4. e[1] \in Gone
      BY <3>1, <3>3, <1>0 DEF Grounded
    <3> QED BY <3>1, <3>4, <1>4
  <2> QED BY <2>1, <2>2, <2>3, <2>4, <1>7
<1>17. BlocksTogether'
  <2> SUFFICES ASSUME NEW k \in 1..Len(path'), NEW l \in 1..Len(path'), k < l,
                      path'[l] \in block[path'[k]]
               PROVE  path'[k] < path'[l] /\ \A m \in k..l : path'[m] \in block[path'[k]]
    BY <1>2 DEF BlocksTogether
  <2>1. CASE l \in 1..n
    <3>1. k \in 1..n /\ \A m \in k..l : m \in 1..n
      BY <2>1, <1>7
    <3>2. path[l] \in block[path[k]]
      BY <2>1, <3>1, <1>7
    <3>3. path[k] < path[l] /\ \A m \in k..l : path[m] \in block[path[k]]
      BY <2>1, <3>1, <3>2, <1>0 DEF BlocksTogether, n
    <3> QED BY <2>1, <3>1, <3>3, <1>7
  <2>2. CASE l > n /\ k > n
    <3>a. k - n \in 1..Len(s) /\ path'[k] = s[k - n]
      BY <2>2, <1>8
    <3>b. l - n \in 1..Len(s) /\ path'[l] = s[l - n]
      BY <2>2, <1>8
    <3>c. k \in Int /\ l \in Int /\ n \in Int
      BY <1>7
    <3>d. k - n < l - n
      BY <3>c
    <3>1. k - n \in 1..Len(s) /\ l - n \in 1..Len(s) /\ k - n < l - n
          /\ path'[k] = s[k - n] /\ path'[l] = s[l - n]
      BY <3>a, <3>b, <3>d
    <3>2. path'[k] \in B /\ block[path'[k]] = B
      BY <3>1, <1>6, <1>0, <1>3 DEF BlockInv, B
    <3>3. ASSUME NEW m \in k..l
          PROVE  path'[m] \in B
      <4>1. m \in 1..Len(path') /\ m > n
        BY <2>2, <1>7
      <4> QED BY <4>1, <1>8, <1>7
    <3> QED BY <3>1, <3>2, <3>3, <1>6
  <2>3. CASE l > n /\ k \in 1..n
    <3>1. path'[k] \in outputted /\ path'[l] \in B
      BY <2>3, <1>8
    <3>2. block[path'[k]] \subseteq outputted
      BY <3>1, <1>0 DEF SetInv, Whole
    <3> QED BY <3>1, <3>2, <1>4 DEF Gone
  <2> QED BY <2>1, <2>2, <2>3, <1>7
<1>18. TrimInv'
  <2>1. ASSUME NEW j \in outputted'
        PROVE  InPath(j)'
    <3>1. CASE j \in outputted
      <4>1. PICK k \in 1..n : path[k] = j
        BY <3>1, <1>0, <1>2 DEF TrimInv, InPath, n
      <4>2. k \in 1..Len(path') /\ path'[k] = j
        BY <4>1, <1>7
      <4> QED BY <4>2 DEF InPath
    <3>2. CASE j \in B
      <4>1. PICK k \in 1..Len(s) : s[k] = j
        BY <3>2, <1>6
      <4>2. n + k \in 1..Len(path') /\ path'[n + k] = j
        BY <4>1, <1>7
      <4> QED BY <4>2 DEF InPath
    <3> QED BY <3>1, <3>2, <1>1 DEF B
  <2> QED BY <2>1, <1>2 DEF TrimInv
<1> QED BY <1>9, <1>10, <1>11, <1>12, <1>14, <1>15, <1>16, <1>17, <1>18 DEF IInv

(* Decycle keeps the invariant.  It comes only if every block depends on   *)
(* a remaining one, so the remaining statements are the set that shows a   *)
(* cycle.                                                                  *)
LEMMA DecycleInv ==
    ASSUME IInv, Decycle
    PROVE  IInv'
<1>0. TypeOK /\ BlockInv /\ SetInv /\ EdgeInv /\ Grounded /\ PathInv
      /\ PathRespectsDependencies /\ BlocksTogether
      /\ DeletedInv /\ TrimInv /\ KeptInv
  BY DEF IInv
<1>1. PICK i \in Targets : deleted' = deleted \union block[i] /\ edges' = Without(edges, block[i])
  BY DEF Decycle, GivenUp
<1>2. graph' = graph /\ block' = block /\ outputted' = outputted /\ path' = path
      /\ delete_flag' = TRUE /\ pc' = pc /\ pc = "sorting"
  BY DEF Decycle
<1> DEFINE B == block[i]
<1>3. i \in Remaining
  BY DEF Targets
<1>4. /\ i \in Positions /\ B \subseteq Positions /\ Whole(B) /\ i \in B
      /\ i \notin graph.deleted /\ B \intersect Gone = {}
  BY <1>0, <1>3, RemainingBlocks DEF BlockInv
<1>5. Removed' = Removed \union B /\ Gone' = Gone \union B
  <2>1. ASSUME NEW j \in Positions
        PROVE  (\E l \in block[j] : l \in deleted' \ graph.deleted)
               <=> j \in B \/ \E l \in block[j] : l \in deleted \ graph.deleted
    <3>1. CASE j \in B
      <4>1. i \in block[j] /\ i \in deleted' \ graph.deleted
        BY <3>1, <1>0, <1>1, <1>4 DEF BlockInv
      <4> QED BY <3>1, <4>1
    <3>2. CASE j \notin B
      <4>1. \A l \in block[j] : l \notin B
        BY <3>2, <1>0, <1>4 DEF BlockInv, TypeOK
      <4> QED BY <3>2, <4>1, <1>1
    <3> QED BY <3>1, <3>2
  <2>2. Removed' = {j \in Positions : j \in Aborted(graph) \/ \E l \in block[j] : l \in deleted' \ graph.deleted}
    BY <1>2 DEF Removed, Aborted
  <2>3. Removed' = Removed \union B
    BY <2>1, <2>2, <1>4 DEF Removed
  <2> QED BY <2>3, <1>2 DEF Gone
<1> HIDE DEF B
<1>6. TypeOK'
  BY <1>0, <1>1, <1>2, <1>4 DEF TypeOK, Without, B
<1>7. SetInv'
  <2>1. Whole(outputted)' /\ Whole(Aborted(graph))'
    BY <1>0, <1>2, SameInput DEF SetInv, Whole
  <2>2. \A j \in deleted' \ graph.deleted : block[j] \subseteq deleted'
    BY <1>0, <1>1, <1>4 DEF SetInv, Whole, B
  <2>3. outputted \intersect Removed' = {}
    BY <1>0, <1>4, <1>5 DEF SetInv, Gone
  <2>4. WholeBlocks => outputted \intersect deleted' = {}
    BY <1>0, <1>1, <1>4 DEF SetInv, Gone, B
  <2>5. /\ Excluded(graph) \subseteq deleted'
        /\ \A j \in outputted : ~(block[j] \subseteq graph.deleted)
    BY <1>0, <1>1 DEF SetInv
  <2> QED BY <2>1, <2>2, <2>3, <2>4, <2>5, <1>2, SameInput DEF SetInv
<1>8. EdgeInv'
  <2>1. ASSUME NEW e \in graph.edges
        PROVE  e \in edges' \/ e[1] \in Gone' \/ e[2] \in Gone'
    <3>1. e \in edges \/ e[1] \in Gone \/ e[2] \in Gone
      BY <1>0 DEF EdgeInv
    <3> QED BY <3>1, <1>5, <1>1 DEF Without, B
  <2>2. ASSUME NEW e \in edges'
        PROVE  e \in graph.edges /\ e[1] \notin Gone'
    BY <1>0, <1>1, <1>5 DEF EdgeInv, Without, B
  <2>3. edges' \subseteq Without(graph.edges, Aborted(graph))
    BY <1>0, <1>1 DEF EdgeInv, Without
  <2>4. edges' \subseteq Without(graph.edges, Aborted(graph))'
    BY <2>3, <1>2, SameInput
  <2> QED BY <2>1, <2>2, <2>4, <1>2 DEF EdgeInv
<1>9. Grounded'
  BY <1>0, <1>2, <1>5 DEF Grounded
<1>10. ~NoCycle
  <2> SUFFICES ASSUME NoCycle PROVE FALSE
    OBVIOUS
  <2>1. deleted = Excluded(graph) /\ WholeBlocks
    BY <1>0 DEF DeletedInv, NoCycle
  <2>2. Remaining \in SUBSET (Positions \ Excluded(graph)) /\ Remaining # {}
    BY <2>1, <1>3 DEF Remaining
  <2>3. PICK j \in Remaining :
            \A a \in block[j], b \in Remaining \ block[j] : <<b, a>> \notin graph.edges
    BY <2>2 DEF NoCycle, Acyclic
  <2>4. PICK a \in block[j], b \in Positions \ block[j] : <<b, a>> \in edges
    BY <2>3 DEF Decycle, HasIndegree
  <2> DEFINE e == <<b, a>>
  <2>5. e \in graph.edges /\ b \notin outputted /\ b \notin Aborted(graph)
    <3>1. e[1] = b /\ e \in edges
      BY <2>4
    <3>2. b \notin Gone
      BY <3>1, <1>0 DEF EdgeInv
    <3> QED BY <3>1, <3>2, <1>0 DEF EdgeInv, Gone, Removed
  <2>6. a \in Positions \ Excluded(graph)
    <3>1. a \in Remaining
      BY <2>1, <2>3, <2>4, <1>0, RemainingBlocks
    <3> QED BY <3>1, <2>2
  <2>7. b \notin graph.deleted
    <3>1. e[1] = b /\ e[2] = a
      OBVIOUS
    <3>2. e[1] \in graph.deleted => e[2] \notin Positions \ Excluded(graph)
      BY <2>5 DEF NoCycle
    <3> QED BY <3>1, <3>2, <2>6
  <2>8. b \in Remaining
    BY <2>1, <2>4, <2>5, <2>7 DEF Remaining, Excluded
  <2> QED BY <2>3, <2>4, <2>5, <2>8
<1>11. DeletedInv' /\ BlockInv'
  BY <1>0, <1>2, <1>10, SameInput DEF DeletedInv, BlockInv
<1>12. PathInv' /\ PathRespectsDependencies' /\ BlocksTogether'
  BY <1>0, <1>2 DEF PathInv, PathRespectsDependencies, BlocksTogether
<1>13. TrimInv'
  BY <1>0, <1>2 DEF TrimInv, InPath
<1>14. KeptInv'
  <2> SUFFICES ASSUME OnlyOnSortable
               PROVE  \E j \in Sortable(graph) : j \notin deleted'
    BY <1>2, SameInput DEF KeptInv
  <2>1. PICK a \in B, b \in Positions \ B : <<b, a>> \in edges
    BY <1>3 DEF Decycle, HasIndegree, B
  <2> DEFINE e == <<b, a>>
  <2>2. e \in Without(graph.edges, Aborted(graph)) /\ b \notin Removed
    <3>1. e[1] = b /\ e \in edges
      BY <2>1
    <3> QED BY <3>1, <1>0 DEF EdgeInv, Gone
  <2>3. b \in Sortable(graph)
    BY <2>2 DEF OnlyOnSortable
  <2>4. b \notin deleted
    <3>1. b \in block[b] /\ b \notin graph.deleted
      BY <2>1, <2>3, <1>0 DEF BlockInv, Sortable
    <3> QED BY <2>1, <2>2, <3>1 DEF Removed
  <2> QED BY <2>1, <2>3, <2>4, <1>1 DEF B
<1> QED BY <1>6, <1>7, <1>8, <1>9, <1>11, <1>12, <1>13, <1>14 DEF IInv

(* The while loop ends when every statement is put out or given up: the    *)
(* comparison of the two sizes with stmt_num means that where whole blocks *)
(* were excluded, because no statement is in both sets then.               *)
LEMMA AllGone ==
    ASSUME TypeOK, SetInv, WholeBlocks, ~Unfinished
    PROVE  outputted \union deleted = Positions
<1> DEFINE both == outputted \union deleted
<1>1. IsFiniteSet(Positions) /\ Cardinality(Positions) = StmtNum
  <2>1. 1 \in Int /\ StmtNum \in Int
    BY StmtNumAssumption
  <2> QED BY <2>1, StmtNumAssumption, FS_Interval DEF Positions
<1>2. outputted \subseteq Positions /\ deleted \subseteq Positions /\ both \subseteq Positions
  BY DEF TypeOK
<1>3. /\ IsFiniteSet(outputted) /\ IsFiniteSet(deleted) /\ IsFiniteSet(both)
      /\ Cardinality(both) <= StmtNum
  BY <1>1, <1>2, FS_Subset
<1>4. Cardinality(outputted) \in Nat /\ Cardinality(deleted) \in Nat /\ Cardinality(both) \in Nat
  BY <1>3, FS_CardinalityType
<1>5. Cardinality(both) = Cardinality(outputted) + Cardinality(deleted)
  <2>1. Cardinality(outputted \intersect deleted) = 0
    BY FS_EmptySet DEF SetInv
  <2> QED BY <1>3, <1>4, <2>1, FS_Union
<1>6. Cardinality(both) = Cardinality(Positions)
  BY <1>1, <1>3, <1>4, <1>5, StmtNumAssumption DEF Unfinished, WholeBlocks
<1> QED BY <1>1, <1>2, <1>6, FS_Subset

(* Sorted and Erased only move on, when there is nothing left to do.       *)
LEMMA MoveOnInv ==
    ASSUME IInv, Sorted \/ Erased
    PROVE  IInv'
<1>0. TypeOK /\ BlockInv /\ SetInv /\ EdgeInv /\ Grounded /\ PathInv
      /\ PathRespectsDependencies /\ BlocksTogether
      /\ DeletedInv /\ TrimInv /\ KeptInv
  BY DEF IInv
<1>1. UNCHANGED <<graph, block, edges, outputted, deleted, path, delete_flag>>
  BY DEF Sorted, Erased
<1>2. TypeOK' /\ SetInv' /\ EdgeInv' /\ Grounded'
  <2>1. pc' \in {"ends", "holders", "returned"}
    BY DEF Sorted, Erased
  <2> QED BY <1>0, <1>1, <2>1 DEF TypeOK, SetInv, Whole, WholeBlocks, Excluded, EdgeInv, Without, Aborted, Grounded, Gone, Removed
<1>3. DeletedInv' /\ BlockInv' /\ KeptInv'
  BY <1>0, <1>1, SameInput DEF DeletedInv, BlockInv, KeptInv
<1>4. PathInv' /\ PathRespectsDependencies' /\ BlocksTogether'
  BY <1>0, <1>1 DEF PathInv, PathRespectsDependencies, BlocksTogether
<1>5. /\ \A i \in outputted : ~IsEnd(i) /\ ~IsHolder(i) => InPath(i)
      /\ WholeBlocks => outputted \union deleted = Positions
  <2>1. CASE Sorted
    BY <2>1, <1>0, AllGone DEF Sorted, TrimInv
  <2>2. CASE Erased
    BY <2>2, <1>0 DEF Erased, TrimInv
  <2> QED BY <2>1, <2>2
<1>6. /\ pc' \in {"holders", "returned"} => \A k \in 1..Len(path) : ~IsEnd(path[k])
      /\ pc' = "returned" => \A k \in 1..Len(path) : ~IsHolder(path[k])
      /\ pc' # "sorting"
  <2>1. CASE Sorted
    BY <2>1 DEF Sorted
  <2>2. CASE Erased /\ pc = "ends"
    BY <2>2 DEF Erased, Erasable
  <2>3. CASE Erased /\ pc = "holders"
    BY <2>3, <1>0 DEF Erased, Erasable, TrimInv
  <2> QED BY <2>1, <2>2, <2>3 DEF Erased
<1>7. TrimInv'
  BY <1>1, <1>5, <1>6 DEF TrimInv, InPath, WholeBlocks, IsEnd, First, Last, IsHolder
<1> QED BY <1>2, <1>3, <1>4, <1>7 DEF IInv

(* Erase keeps the invariant: what is left of the path keeps its order.    *)
LEMMA EraseInv ==
    ASSUME IInv, Erase
    PROVE  IInv'
<1>0. TypeOK /\ BlockInv /\ SetInv /\ EdgeInv /\ Grounded /\ PathInv
      /\ PathRespectsDependencies /\ BlocksTogether
      /\ DeletedInv /\ TrimInv /\ KeptInv
  BY DEF IInv
<1>1. PICK c \in 1..Len(path) : Erasable(path[c]) /\ path' = RemoveAt(c)
  BY DEF Erase
<1>2. /\ UNCHANGED <<graph, block, edges, outputted, deleted, delete_flag, pc>>
      /\ pc \in {"ends", "holders"}
  BY DEF Erase
<1> DEFINE n == Len(path)
           old(k) == IF k < c THEN k ELSE k + 1
<1>3. path \in Seq(Positions) /\ n \in Nat /\ c \in 1..n /\ n - 1 \in Nat
      /\ path \in [1..n -> Positions]
  BY <1>0, <1>1 DEF TypeOK
<1>4. /\ path' = [l \in 1..(n - 1) |-> IF l < c THEN path[l] ELSE path[l + 1]]
      /\ path' \in Seq(Positions) /\ Len(path') = n - 1
  <2>1. path' = [l \in 1..(n - 1) |-> IF l < c THEN path[l] ELSE path[l + 1]]
    BY <1>1 DEF RemoveAt
  <2>2. path' \in [1..(n - 1) -> Positions]
    BY <2>1, <1>3
  <2> QED BY <2>1, <2>2, <1>3
<1>5. ASSUME NEW k \in 1..Len(path')
      PROVE  k \in Nat /\ old(k) \in 1..n /\ path'[k] = path[old(k)]
  BY <1>3, <1>4
<1>6. ASSUME NEW k \in Nat, NEW l \in Nat
      PROVE  /\ old(k) \in Nat /\ old(l) \in Nat
             /\ k < l <=> old(k) < old(l)
             /\ k <= l <=> old(k) <= old(l)
             /\ old(k) = old(l) => k = l
  BY <1>3
<1> HIDE DEF n, old
<1>7. TypeOK' /\ SetInv' /\ EdgeInv' /\ Grounded'
  BY <1>0, <1>2, <1>4 DEF TypeOK, SetInv, Whole, WholeBlocks, Excluded, EdgeInv, Without, Aborted, Grounded, Gone, Removed
<1>8. DeletedInv' /\ BlockInv' /\ KeptInv'
  BY <1>0, <1>2, SameInput DEF DeletedInv, BlockInv, KeptInv
<1>9. PathInv'
  <2>1. ASSUME NEW k \in 1..Len(path')
        PROVE  path'[k] \in outputted'
    BY <1>0, <1>2, <1>5 DEF PathInv, n
  <2>2. ASSUME NEW k \in 1..Len(path'), NEW l \in 1..Len(path'), path'[k] = path'[l]
        PROVE  k = l
    <3>1. k \in Nat /\ old(k) \in 1..n /\ path'[k] = path[old(k)]
      BY <1>5
    <3>2. l \in Nat /\ old(l) \in 1..n /\ path'[l] = path[old(l)]
      BY <1>5
    <3>3. path[old(k)] = path[old(l)]
      BY <3>1, <3>2, <2>2
    <3>4. old(k) = old(l)
      BY <3>1, <3>2, <3>3, <1>0 DEF PathInv, n
    <3> QED BY <3>1, <3>2, <3>4, <1>6
  <2> QED BY <2>1, <2>2 DEF PathInv
<1>10. PathRespectsDependencies'
  <2> SUFFICES ASSUME NEW k \in 1..Len(path'), NEW l \in 1..Len(path'),
                      <<path'[k], path'[l]>> \in graph.edges,
                      path'[l] \notin block[path'[k]]
               PROVE  k < l
    BY <1>2 DEF PathRespectsDependencies
  <2>1. old(k) < old(l)
    BY <1>0, <1>5 DEF PathRespectsDependencies, n
  <2> QED BY <2>1, <1>5, <1>6
<1>11. BlocksTogether'
  <2> SUFFICES ASSUME NEW k \in 1..Len(path'), NEW l \in 1..Len(path'), k < l,
                      path'[l] \in block[path'[k]]
               PROVE  path'[k] < path'[l] /\ \A m \in k..l : path'[m] \in block[path'[k]]
    BY <1>2 DEF BlocksTogether
  <2>1. old(k) < old(l)
    BY <1>5, <1>6
  <2>2. path[old(k)] < path[old(l)]
        /\ \A m \in old(k)..old(l) : path[m] \in block[path[old(k)]]
    BY <2>1, <1>0, <1>5 DEF BlocksTogether, n
  <2>3. ASSUME NEW m \in k..l
        PROVE  path'[m] \in block[path'[k]]
    <3>1. m \in 1..Len(path') /\ m \in Nat /\ k \in Nat /\ l \in Nat /\ k <= m /\ m <= l
      <4>1. k \in 1..(n - 1) /\ l \in 1..(n - 1)
        BY <1>4
      <4> QED BY <4>1, <1>4, <1>3
    <3>2. old(m) \in old(k)..old(l)
      BY <3>1, <1>6
    <3> QED BY <3>1, <3>2, <2>2, <1>5
  <2> QED BY <2>2, <2>3, <1>5
<1>12. TrimInv'
  <2>1. ASSUME NEW i \in outputted, ~IsEnd(i), ~IsHolder(i)
        PROVE  InPath(i)'
    <3>1. PICK k \in 1..n : path[k] = i
      BY <2>1, <1>0 DEF TrimInv, InPath, n
    <3>2. k # c
      BY <2>1, <3>1, <1>1, <1>2 DEF Erasable
    <3>3. CASE k < c
      <4>1. k \in 1..Len(path') /\ path'[k] = i
        BY <3>1, <3>3, <1>3, <1>4
      <4> QED BY <4>1 DEF InPath
    <3>4. CASE k > c
      <4>1. k - 1 \in 1..Len(path') /\ path'[k - 1] = i
        BY <3>1, <3>4, <1>3, <1>4
      <4> QED BY <4>1 DEF InPath
    <3> QED BY <3>1, <3>2, <3>3, <3>4, <1>3
  <2>2. ASSUME pc = "holders", NEW k \in 1..Len(path')
        PROVE  ~IsEnd(path'[k])
    BY <2>2, <1>0, <1>5 DEF TrimInv, n
  <2> QED BY <2>1, <2>2, <1>0, <1>2 DEF TrimInv, WholeBlocks, IsEnd, First, Last, IsHolder
<1> QED BY <1>7, <1>8, <1>9, <1>10, <1>11, <1>12 DEF IInv

(* A step that changes nothing keeps the invariant.                        *)
LEMMA StutterInv ==
    ASSUME IInv, UNCHANGED vars
    PROVE  IInv'
<1>0. TypeOK /\ BlockInv /\ SetInv /\ EdgeInv /\ Grounded /\ PathInv
      /\ PathRespectsDependencies /\ BlocksTogether
      /\ DeletedInv /\ TrimInv /\ KeptInv
  BY DEF IInv
<1> USE DEF vars
<1>1. TypeOK' /\ SetInv' /\ EdgeInv' /\ Grounded'
  BY <1>0 DEF TypeOK, SetInv, Whole, WholeBlocks, Excluded, EdgeInv, Without, Aborted, Grounded, Gone, Removed
<1>2. DeletedInv' /\ BlockInv' /\ KeptInv'
  BY <1>0, SameInput DEF DeletedInv, BlockInv, KeptInv
<1>3. PathInv' /\ PathRespectsDependencies' /\ BlocksTogether'
  BY <1>0 DEF PathInv, PathRespectsDependencies, BlocksTogether
<1>4. TrimInv'
  BY <1>0 DEF TrimInv, InPath, WholeBlocks, IsEnd, First, Last, IsHolder
<1> QED BY <1>1, <1>2, <1>3, <1>4 DEF IInv

(* The loops of topological_sort_path() keep the invariant.                *)
THEOREM Invariance == Spec => []IInv
<1>1. IInv /\ [Next]_vars => IInv'
  <2> SUFFICES ASSUME IInv, [Next]_vars PROVE IInv'
    OBVIOUS
  <2>1. CASE Output
    BY <2>1, OutputInv
  <2>2. CASE Decycle
    BY <2>2, DecycleInv
  <2>3. CASE Sorted \/ Erased
    BY <2>3, MoveOnInv
  <2>4. CASE Erase
    BY <2>4, EraseInv
  <2>5. CASE Terminated \/ UNCHANGED vars
    BY <2>5, StutterInv DEF Terminated
  <2> QED BY <2>1, <2>2, <2>3, <2>4, <2>5 DEF Next
<1> QED BY InitInv, <1>1, PTL DEF Spec

(* Every variable of topological_sort_path() keeps its type.               *)
THEOREM TypeCorrect == Spec => []TypeOK
<1>1. IInv => TypeOK
  BY DEF IInv
<1> QED BY <1>1, Invariance, PTL

(* The path, at every moment of its construction and of the erasing, has   *)
(* a statement after all those it depends on.                              *)
THEOREM DependenciesRespected == Spec => []PathRespectsDependencies
<1>1. IInv => PathRespectsDependencies
  BY DEF IInv
<1> QED BY <1>1, Invariance, PTL

(* No other statement comes between a statement and its instrumented reads.*)
THEOREM BlocksStayTogether == Spec => []BlocksTogether
<1>1. IInv => BlocksTogether
  BY DEF IInv
<1> QED BY <1>1, Invariance, PTL

(* No statement is in the path twice, and none of a rolled back            *)
(* transaction or of a block that topological_sort_path() gave up or that  *)
(* the caller excluded as a whole.                                         *)
THEOREM NoDuplicates == Spec => []EachOnce
<1>1. IInv => EachOnce
  <2> SUFFICES ASSUME IInv, NEW k \in 1..Len(path)
               PROVE  /\ path[k] \notin Aborted(graph)
                      /\ block[path[k]] \intersect deleted \subseteq graph.deleted
                      /\ ~(block[path[k]] \subseteq graph.deleted)
                      /\ \A l \in 1..Len(path) : path[k] = path[l] => k = l
    BY DEF EachOnce
  <2>1. PathInv /\ SetInv /\ TypeOK
    BY DEF IInv
  <2>2. path[k] \in outputted /\ path[k] \in Positions
    BY <2>1 DEF PathInv, TypeOK
  <2>3. path[k] \notin Removed
    BY <2>1, <2>2 DEF SetInv
  <2> QED BY <2>1, <2>2, <2>3 DEF PathInv, SetInv, Removed
<1> QED BY <1>1, Invariance, PTL

(* Where the dependencies have no cycle topological_sort_path() returns    *)
(* all the statements that were to be sorted.                              *)
THEOREM NothingLostWithoutCycle == Spec => []AcyclicKeepsAll
<1>1. IInv => AcyclicKeepsAll
  <2> DEFINE sorted == Positions \ Excluded(graph)
  <2> SUFFICES ASSUME IInv, pc = "returned", NoCycle
               PROVE  {path[k] : k \in 1..Len(path)} =
                          {i \in sorted : ~First(i) /\ ~Last(i) /\ i \notin graph.init}
    BY DEF AcyclicKeepsAll, NoCycle, Excluded
  <2>1. PathInv /\ SetInv /\ DeletedInv /\ TrimInv /\ TypeOK
    BY DEF IInv
  <2>2. outputted = sorted
    <3>1. /\ outputted \union deleted = Positions /\ deleted = Excluded(graph)
          /\ outputted \intersect deleted = {} /\ outputted \subseteq Positions
      BY <2>1 DEF TrimInv, DeletedInv, SetInv, TypeOK, NoCycle
    <3> QED BY <3>1
  <2>3. ASSUME NEW k \in 1..Len(path)
        PROVE  path[k] \in sorted /\ ~IsEnd(path[k]) /\ ~IsHolder(path[k])
    BY <2>1, <2>2 DEF PathInv, TrimInv
  <2>4. ASSUME NEW i \in sorted, ~IsEnd(i), ~IsHolder(i)
        PROVE  \E k \in 1..Len(path) : path[k] = i
    BY <2>1, <2>2, <2>4 DEF TrimInv, InPath
  <2> QED BY <2>3, <2>4 DEF IsEnd, IsHolder
<1> QED BY <1>1, Invariance, PTL

(* Whatever the cycles, topological_sort_path() returns a path that is not *)
(* empty where whole blocks were excluded and there is a statement to sort.*)
THEOREM CyclesNeverCostAll == Spec => []SomethingIsSorted
<1>1. IInv => SomethingIsSorted
  <2> SUFFICES ASSUME IInv, pc = "returned", WholeBlocks, OnlyOnSortable
               PROVE  path # <<>>
    BY DEF SomethingIsSorted, OnlyOnSortable
  <2>1. KeptInv /\ TrimInv /\ TypeOK
    BY DEF IInv
  <2>2. PICK i \in Sortable(graph) : i \notin deleted
    BY <2>1 DEF KeptInv
  <2>3. i \in outputted
    BY <2>1, <2>2 DEF TrimInv, Sortable
  <2>4. InPath(i)
    BY <2>1, <2>2, <2>3 DEF TrimInv, Sortable
  <2>5. PICK k \in 1..Len(path) : path[k] = i
    BY <2>4 DEF InPath
  <2> QED BY <2>5
<1> QED BY <1>1, Invariance, PTL
=============================================================================
