---------------------------- MODULE TxSupervisor ---------------------------
(***************************************************************************)
(* The parent process of TxCheck: random_test() generates a database and   *)
(* forks a child for every test, SIGALRM kills a child that hangs and the  *)
(* server with it, and fork_if_server_closed() brings the server back.     *)
(*                                                                         *)
(* A dead child of the parent stays a zombie, for which kill(pid, 0) still *)
(* succeeds, until a waitpid() collects it.  Waiting for 10 or 20 seconds  *)
(* is a choice: the time may be over at every turn of the loop.            *)
(***************************************************************************)
EXTENDS Integers, FiniteSets

CONSTANTS Dbms,           \* how fork_db_server() treats the tested DBMS
          Pids,           \* the process ids of servers that were forked
          MaxSetupTry,    \* MAX_SETUP_TRY_TIME
          TestTime,       \* TEST_TIME_FOR_EACH_DB
          MaxIncidents    \* bound: crashes, hangs and failures of a behaviour

ASSUME DbmsAssumption == Dbms \subseteq {"forks", "nothing"}

ASSUME PidsAssumption == Pids \subseteq Nat \ {0}

ASSUME BoundsAssumption ==
    MaxSetupTry \in Nat /\ TestTime \in Nat \ {0} /\ MaxIncidents \in Nat

(* server_process_id before the first fork: 0xabcde, no process of anyone. *)
Nobody == 0

(* What fork_db_server() returns if it starts nothing; to kill() it means  *)
(* every process that may be signalled.                                    *)
Everybody == -1

VARIABLES dbms,
          outer,          \* the server that was running when the tester started
          own,            \* the servers that it forked, by process id
          server_process_id,
          child,          \* the process of a test, and how it ended
          child_timed_out,
          timer,          \* setitimer(ITIMER_REAL)
          setup_try_time,
          tests,          \* the i of random_test()
          after,          \* what the caller of fork_if_server_closed() does next
          resume,         \* where the caller of try_to_kill_server() goes on
          stray,          \* a SIGTERM went to processes the tester did not start
          incidents,
          pc

vars == <<dbms, outer, own, server_process_id, child, child_timed_out, timer, setup_try_time,
          tests, after, resume, stray, incidents, pc>>

serverVars == <<outer, own>>

(* Every variable has its type.                                            *)
TypeOK ==
    /\ dbms \in Dbms
    /\ outer \in {"up", "hung", "gone"}
    /\ own \in [Pids -> {"none", "up", "hung", "ending", "zombie"}]
    /\ server_process_id \in Pids \union {Nobody, Everybody}
    /\ child \in {"none", "running", "NORMAL_EXIT", "FIND_BUG_EXIT", "ERROR_EXIT", "SIGKILL", "SIGABRT"}
    /\ child_timed_out \in BOOLEAN
    /\ timer \in BOOLEAN
    /\ setup_try_time \in 0..(MaxSetupTry + 1)
    /\ tests \in 0..TestTime
    /\ after \in {"generate", "fork"}
    /\ resume \in {"restart", "wait", "waited"}
    /\ stray \in BOOLEAN
    /\ incidents \in 0..MaxIncidents
    /\ pc \in {"setup", "connect", "kill", "poll", "restart", "generate", "test", "fork",
               "wait", "waited", "aborted"}

Init ==
    /\ dbms \in Dbms
    /\ outer = "up"
    /\ own = [p \in Pids |-> "none"]
    /\ server_process_id = Nobody
    /\ child = "none"
    /\ child_timed_out = FALSE
    /\ timer = FALSE
    /\ setup_try_time = 0
    /\ tests = 0
    /\ after = "generate"
    /\ resume = "restart"
    /\ stray = FALSE
    /\ incidents = 0
    /\ pc = "setup"

-----------------------------------------------------------------------------
(* The processes.                                                          *)

Alive(state) == state \in {"up", "hung", "ending"}

(* dut_setup() connects.                                                   *)
Reachable == outer = "up" \/ \E p \in Pids : own[p] = "up"

(* kill(server_process_id, 0) == 0                                         *)
Exists ==
    \/ server_process_id = Everybody
    \/ server_process_id \in Pids /\ own[server_process_id] # "none"

(* kill(server_process_id, SIGTERM)                                        *)
Sigterm ==
    /\ own' = [p \in Pids |->
                  IF p = server_process_id /\ Alive(own[p]) THEN "ending" ELSE own[p]]
    /\ stray' = (stray \/ server_process_id = Everybody)
    /\ outer' \in IF server_process_id = Everybody THEN {outer, "gone"} ELSE {outer}

(* Something goes wrong that the tester does not cause.                    *)
Incident == incidents < MaxIncidents /\ incidents' = incidents + 1

ServerIncident(from, to) ==
    \/ outer \in from /\ outer' = to /\ UNCHANGED own
    \/ \E p \in Pids : /\ own[p] \in from
                       /\ own' = [own EXCEPT ![p] = IF to = "gone" THEN "zombie" ELSE to]
                       /\ UNCHANGED outer

ServerCrashes ==
    /\ Incident
    /\ ServerIncident({"up", "hung"}, "gone")
    /\ UNCHANGED <<dbms, server_process_id, child, child_timed_out, timer, setup_try_time, tests,
                   after, resume, stray, pc>>

ServerHangs ==
    /\ Incident
    /\ ServerIncident({"up"}, "hung")
    /\ UNCHANGED <<dbms, server_process_id, child, child_timed_out, timer, setup_try_time, tests,
                   after, resume, stray, pc>>

(* Whoever started it starts it again, if its port is free.                *)
OuterRestarts ==
    /\ Incident
    /\ outer # "up" /\ \A p \in Pids : ~Alive(own[p])
    /\ outer' = "up"
    /\ UNCHANGED <<dbms, own, server_process_id, child, child_timed_out, timer, setup_try_time,
                   tests, after, resume, stray, pc>>

(* A server ends after its SIGTERM.                                        *)
ServerEnds ==
    /\ \E p \in Pids : own[p] = "ending" /\ own' = [own EXCEPT ![p] = "zombie"]
    /\ UNCHANGED <<dbms, outer, server_process_id, child, child_timed_out, timer, setup_try_time,
                   tests, after, resume, stray, incidents, pc>>

(* The child's test ends in any way; it may also never end.                *)
ChildEnds ==
    /\ child = "running"
    /\ \/ child' \in {"NORMAL_EXIT", "FIND_BUG_EXIT"} /\ UNCHANGED incidents
       \/ child' \in {"ERROR_EXIT", "SIGKILL", "SIGABRT"} /\ Incident
    /\ UNCHANGED <<dbms, serverVars, server_process_id, child_timed_out, timer, setup_try_time,
                   tests, after, resume, stray, pc>>

-----------------------------------------------------------------------------

(* setup_try_time = 0                                                      *)
TriesAfterKill == 0

(* random_test(): another try to set the database up; after too many the   *)
(* server is told to end (kill_process_with_SIGTERM).                      *)
Setup ==
    /\ pc = "setup"
    /\ IF setup_try_time > MaxSetupTry
       THEN setup_try_time' = TriesAfterKill /\ Sigterm
       ELSE UNCHANGED <<setup_try_time, serverVars, stray>>
    /\ after' = "generate"
    /\ pc' = "connect"
    /\ UNCHANGED <<dbms, server_process_id, child, child_timed_out, timer, tests, resume, incidents>>

(* fork_if_server_closed()                                                 *)
Connects ==
    /\ pc = "connect"
    /\ Reachable
    /\ pc' = after
    /\ UNCHANGED <<dbms, serverVars, server_process_id, child, child_timed_out, timer,
                   setup_try_time, tests, after, resume, stray, incidents>>

(* The server has died, or it hangs and the 20 seconds are over.           *)
GivesUpServer ==
    /\ pc = "connect"
    /\ ~Reachable
    /\ resume' = "restart"
    /\ pc' = "kill"
    /\ UNCHANGED <<dbms, serverVars, server_process_id, child, child_timed_out, timer,
                   setup_try_time, tests, after, stray, incidents>>

(* A call of try_to_kill_server() ...                                      *)
TryToKillServer ==
    /\ pc = "kill"
    /\ Sigterm
    /\ pc' = "poll"
    /\ UNCHANGED <<dbms, server_process_id, child, child_timed_out, timer, setup_try_time, tests,
                   after, resume, incidents>>

(* Mutant: a zombie is not collected.                                      *)
CollectedKept == FALSE

(* waitpid() collects the server.                                          *)
Collected == server_process_id \in Pids /\ own[server_process_id] = "zombie"

(* ... returns true when there is no such process or it is collected, ...  *)
ServerIsGone ==
    /\ pc = "poll"
    /\ ~Exists \/ Collected
    /\ own' = IF Collected THEN [own EXCEPT ![server_process_id] = "none"] ELSE own
    /\ pc' = resume
    /\ UNCHANGED <<dbms, outer, server_process_id, child, child_timed_out, timer, setup_try_time,
                   tests, after, resume, stray, incidents>>

(* waitpid(-1) collects any child, the test's too if the parent still      *)
(* waits for it, until there is none.                                      *)
NoChildLeft ==
    /\ pc = "poll"
    /\ server_process_id = Everybody
    /\ child' = IF resume = "wait" THEN "none" ELSE child
    /\ pc' = resume
    /\ UNCHANGED <<dbms, serverVars, server_process_id, child_timed_out, timer, setup_try_time,
                   tests, after, resume, stray, incidents>>

(* Mutant: the server is given up although it is still there.              *)
AfterTimeoutGoesOn == resume

AfterTimeout == "kill"

(* ... and false after 10 seconds, and its callers call it again.          *)
KillTimesOut ==
    /\ pc = "poll"
    /\ server_process_id \in Pids /\ Exists /\ ~Collected
    /\ pc' = AfterTimeout
    /\ UNCHANGED <<dbms, serverVars, server_process_id, child, child_timed_out, timer,
                   setup_try_time, tests, after, resume, stray, incidents>>

(* Mutant: the server of every DBMS is left to its user.                   *)
ForksNothingEver == TRUE

(* "Do nothing, because the server crash means there is a bug"             *)
ForksNothing == dbms = "nothing"

(* fork_db_server(): a second server ends at once, because the other one   *)
(* has the port and the data directory.                                    *)
ForkDbServer ==
    /\ pc = "restart"
    /\ IF ForksNothing
       THEN server_process_id' = Everybody /\ UNCHANGED own
       ELSE \E p \in Pids :
               /\ own[p] = "none"
               /\ server_process_id' = p
               /\ own' = [own EXCEPT ![p] =
                             IF Alive(outer) \/ \E q \in Pids : Alive(own[q])
                             THEN "zombie" ELSE "up"]
    /\ pc' = "connect"
    /\ UNCHANGED <<dbms, outer, child, child_timed_out, timer, setup_try_time, tests, after,
                   resume, stray, incidents>>

(* "Fork db server fail" is one more failure of the set-up, and the end of *)
(* the tester if it happens before a test.                                 *)
ForkFails ==
    /\ pc = "restart" /\ ~ForksNothing
    /\ Incident
    /\ IF after = "generate"
       THEN setup_try_time' = setup_try_time + 1 /\ pc' = "setup"
       ELSE setup_try_time' = setup_try_time /\ pc' = "aborted"
    /\ UNCHANGED <<dbms, serverVars, server_process_id, child, child_timed_out, timer, tests,
                   after, resume, stray>>

(* generate_database()                                                     *)
Generated ==
    /\ pc = "generate"
    /\ Reachable
    /\ tests' = TestTime
    /\ pc' = "test"
    /\ UNCHANGED <<dbms, serverVars, server_process_id, child, child_timed_out, timer,
                   setup_try_time, after, resume, stray, incidents>>

(* It throws, or an unexpected error aborts the tester.                    *)
GenerateFails ==
    /\ pc = "generate"
    /\ \/ /\ IF Reachable THEN Incident ELSE UNCHANGED incidents
          /\ setup_try_time' = setup_try_time + 1
          /\ pc' = "setup"
       \/ Incident /\ pc' = "aborted" /\ UNCHANGED setup_try_time
    /\ UNCHANGED <<dbms, serverVars, server_process_id, child, child_timed_out, timer, tests,
                   after, resume, stray>>

(* The next turn of the loop over tests, or the next random_test().        *)
NextTest ==
    /\ pc = "test"
    /\ IF tests = 0
       THEN pc' = "setup" /\ setup_try_time' = 0 /\ UNCHANGED <<tests, after>>
       ELSE pc' = "connect" /\ tests' = tests - 1 /\ after' = "fork" /\ UNCHANGED setup_try_time
    /\ UNCHANGED <<dbms, serverVars, server_process_id, child, child_timed_out, timer, resume,
                   stray, incidents>>

(* fork_for_transaction_test()                                             *)
ForkChild ==
    /\ pc = "fork"
    /\ child' = "running"
    /\ timer' = TRUE
    /\ pc' = "wait"
    /\ UNCHANGED <<dbms, serverVars, server_process_id, child_timed_out, setup_try_time, tests,
                   after, resume, stray, incidents>>

(* kill_process_signal() interrupts the parent in waitpid() or just after  *)
(* it; until child_pid is 0 it kills the child and then the server.        *)
Alarm ==
    /\ pc \in {"wait", "waited"} /\ timer
    /\ timer' = FALSE
    /\ child_timed_out' = TRUE
    /\ child' = IF child = "running" THEN "SIGKILL" ELSE child
    /\ resume' = pc
    /\ pc' = "kill"
    /\ UNCHANGED <<dbms, serverVars, server_process_id, setup_try_time, tests, after, stray, incidents>>

WaitReturns ==
    /\ pc = "wait"
    /\ child \notin {"none", "running"}
    /\ pc' = "waited"
    /\ UNCHANGED <<dbms, serverVars, server_process_id, child, child_timed_out, timer,
                   setup_try_time, tests, after, resume, stray, incidents>>

(* "waitpid() fail": the exception cannot be handled.                      *)
WaitFails ==
    /\ pc = "wait"
    /\ child = "none"
    /\ pc' = "aborted"
    /\ UNCHANGED <<dbms, serverVars, server_process_id, child, child_timed_out, timer,
                   setup_try_time, tests, after, resume, stray, incidents>>

(* Mutant: the timer runs on after the child has ended.                    *)
TimerStoppedNever == timer

(* it_value = 0                                                            *)
TimerStopped == FALSE

(* The rest of fork_for_transaction_test() and the catch of random_test(): *)
(* a timeout starts over with a new database.                              *)
ChildCollected ==
    /\ pc = "waited"
    /\ timer' = TimerStopped
    /\ child' = "none"
    /\ IF child \in {"NORMAL_EXIT", "FIND_BUG_EXIT"}
       THEN pc' = "test" /\ UNCHANGED setup_try_time
       ELSE IF child = "SIGKILL" /\ child_timed_out
            THEN pc' = "setup" /\ setup_try_time' = 0
            ELSE pc' = "aborted" /\ UNCHANGED setup_try_time
    /\ UNCHANGED <<dbms, serverVars, server_process_id, child_timed_out, tests, after, resume,
                   stray, incidents>>

Aborted == pc = "aborted" /\ UNCHANGED vars

Parent ==
    \/ Setup \/ Connects \/ GivesUpServer \/ TryToKillServer \/ ServerIsGone \/ NoChildLeft
    \/ KillTimesOut \/ ForkDbServer \/ ForkFails \/ Generated \/ GenerateFails \/ NextTest
    \/ ForkChild \/ WaitReturns \/ WaitFails \/ ChildCollected

Environment == ServerCrashes \/ ServerHangs \/ OuterRestarts \/ ServerEnds \/ ChildEnds

Next == Parent \/ Alarm \/ Environment \/ Aborted

Spec == Init /\ [][Next]_vars

(* The parent is one thread whose system calls return, except for the      *)
(* waitpid() of a child that hangs; a timer that runs fires; and a server  *)
(* that gets a SIGTERM ends.  Nothing is assumed of the child.             *)
FairSpec == Spec /\ WF_vars(Parent) /\ WF_vars(Alarm) /\ WF_vars(ServerEnds)

-----------------------------------------------------------------------------
(* The tester never loses track of a server it started: it starts another  *)
(* one only after the last was collected, so that two of them never work   *)
(* on one data directory and none is left behind.                          *)
NoOrphan == \A p \in Pids : own[p] # "none" => p = server_process_id

(* Where fork_db_server() starts servers, SIGTERMs only go to those.       *)
SignalsItsServerOnly == dbms = "forks" => ~stray

(* "Do nothing, because the server crash means there is a bug" says        *)
(* fork_db_server() of the other DBMSs: no process is signalled that the   *)
(* tester did not start.                                                   *)
NoStraySignal == ~stray

(* SIGALRM can only hit the parent while it waits for a test: an alarm of  *)
(* an earlier test never kills the server of the set-up or of another one. *)
TimerOnlyInTest == timer => pc \in {"wait", "waited"}

(* Whatever dies or hangs, the next test comes, or the tester has reported *)
(* why it ends: a test that hangs is killed, and a server that is dead,    *)
(* hangs, or is an uncollected zombie is replaced.  The exception is a     *)
(* server the tester did not start: one that hangs is never replaced, and  *)
(* where fork_db_server() does nothing it has to come back by itself.      *)
KeepsTesting ==
    <>[](outer = "up" \/ (dbms = "forks" /\ outer = "gone")) =>
        []<>(pc \in {"test", "aborted"})
=============================================================================
