---------------------------- MODULE MCCrossTester -----------------------------
(* Instances of CrossTester for TLC: two transactions, three writes and two  *)
(* SELECTs, with an instrumented read and the control statements; two paths. *)
EXTENDS CrossTester

Item(t, u, s) == [tid |-> t, use |-> u, stmt |-> s]

Queue ==
  <<Item(0, "control", "begin0"), Item(1, "control", "begin1"), Item(0, "write", "w1"),
    Item(1, "instrument", "r"), Item(1, "write", "w2"), Item(0, "select", "s1"),
    Item(0, "write", "w3"), Item(1, "select", "s2"), Item(1, "control", "commit1")>>

Serial0 == <<<<0, 1>>, <<0, 2>>, <<0, 3>>, <<0, 4>>, <<1, 1>>, <<1, 2>>, <<1, 3>>, <<1, 4>>, <<1, 5>>>>
Interleaved == <<<<0, 1>>, <<1, 1>>, <<0, 2>>, <<1, 2>>, <<1, 3>>, <<0, 3>>, <<0, 4>>, <<1, 4>>, <<1, 5>>>>

TwoPaths == {[queue |-> Queue, path |-> Serial0], [queue |-> Queue, path |-> Interleaved]}

World(k, s, w, r) == [kind |-> k, select |-> s, write |-> w, rejects |-> r]

SomeWorlds ==
  {World("right", "none", "none", r) : r \in {{}, {"s1"}, {"s1", "s2"}}}
    \cup {World("eet", s, w, {}) : s \in {"s1", "s2"}, w \in {"w1", "w2", "w3"}}
    \cup {World("txn", s, "none", {}) : s \in {"s1", "s2"}}
    \cup {World("eet", "s2", "w3", {"s1"})}
=============================================================================
