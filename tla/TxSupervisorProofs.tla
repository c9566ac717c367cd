------------------------- MODULE TxSupervisorProofs ------------------------
(***************************************************************************)
(* However many servers, tests and incidents there are: the tester keeps   *)
(* track of the server it started, signals no other process where it       *)
(* starts servers at all, and is hit by SIGALRM only while it waits for a  *)
(* test.                                                                   *)
(***************************************************************************)
EXTENDS TxSupervisor, TLAPS

(* Nothing is left of the servers that were forked before a new one is.    *)
CleanRestart == pc = "restart" => \A p \in Pids : own[p] = "none"

(* The count of failed set-ups is over the limit only when it is looked at.*)
TriesBound == pc # "setup" => setup_try_time <= MaxSetupTry

(* While the timer runs, waitpid() has a child to wait for.                *)
TimerHasChild == timer => child # "none"

(* -1 is only known where fork_db_server() starts nothing.                 *)
KnownServer == dbms = "forks" => server_process_id # Everybody

IInv ==
    /\ TypeOK
    /\ NoOrphan
    /\ CleanRestart
    /\ TriesBound
    /\ KnownServer
    /\ SignalsItsServerOnly
    /\ TimerOnlyInTest
    /\ TimerHasChild

LEMMA InitInv == Init => IInv
<1> SUFFICES ASSUME Init PROVE IInv
  OBVIOUS
<1> USE DEF Init
<1>a. child_timed_out \in BOOLEAN /\ timer \in BOOLEAN /\ stray \in BOOLEAN
  BY Zenon
<1>b. setup_try_time \in 0..(MaxSetupTry + 1) /\ tests \in 0..TestTime /\ incidents \in 0..MaxIncidents
  BY BoundsAssumption
<1>1. TypeOK
  BY <1>a, <1>b DEF TypeOK
<1>2. NoOrphan /\ CleanRestart /\ TriesBound
  BY DEF NoOrphan, CleanRestart, TriesBound
<1>3. KnownServer
  BY DEF KnownServer, Nobody, Everybody
<1>4. SignalsItsServerOnly /\ TimerOnlyInTest /\ TimerHasChild
  BY DEF SignalsItsServerOnly, TimerOnlyInTest, TimerHasChild
<1> QED BY <1>1, <1>2, <1>3, <1>4 DEF IInv

(* A SIGTERM keeps the types and the processes that there are.             *)
LEMMA SigtermFacts ==
    ASSUME TypeOK, Sigterm
    PROVE  /\ own' \in [Pids -> {"none", "up", "hung", "ending", "zombie"}]
           /\ \A p \in Pids : own'[p] # "none" <=> own[p] # "none"
           /\ outer' \in {"up", "hung", "gone"}
           /\ stray' \in BOOLEAN
           /\ stray' => stray \/ server_process_id = Everybody
  BY DEF TypeOK, Sigterm, Alive

(* -1 is no process id, and neither is 0xabcde.                            *)
LEMMA SpecialIds == Everybody \notin Pids /\ Nobody \notin Pids
  BY PidsAssumption DEF Everybody, Nobody

LEMMA IncidentType == ASSUME TypeOK, Incident PROVE incidents' \in 0..MaxIncidents
  BY BoundsAssumption DEF TypeOK, Incident

(* The steps of servers and tests.                                         *)
LEMMA EnvironmentInv == ASSUME IInv, Environment PROVE IInv'
<1> USE DEF IInv, TypeOK, NoOrphan, CleanRestart, TriesBound, KnownServer, SignalsItsServerOnly,
            TimerOnlyInTest, TimerHasChild, serverVars
<1>1. CASE ServerCrashes
  BY <1>1, IncidentType DEF ServerCrashes, ServerIncident
<1>2. CASE ServerHangs
  BY <1>2, IncidentType DEF ServerHangs, ServerIncident
<1>3. CASE OuterRestarts
  BY <1>3, IncidentType DEF OuterRestarts, Alive
<1>4. CASE ServerEnds
  BY <1>4 DEF ServerEnds
<1>5. CASE ChildEnds
  BY <1>5, IncidentType DEF ChildEnds
<1> QED BY <1>1, <1>2, <1>3, <1>4, <1>5 DEF Environment

(* Restarting the server.                                                  *)
LEMMA RestartInv == ASSUME IInv, Connects \/ GivesUpServer \/ TryToKillServer \/ ServerIsGone
                                   \/ NoChildLeft \/ KillTimesOut \/ ForkDbServer \/ ForkFails
                            PROVE IInv'
<1> USE DEF IInv, TypeOK, NoOrphan, CleanRestart, TriesBound, KnownServer, SignalsItsServerOnly,
            TimerOnlyInTest, TimerHasChild, serverVars
<1>1. CASE Connects
  BY <1>1 DEF Connects
<1>2. CASE GivesUpServer
  BY <1>2 DEF GivesUpServer
<1>3. CASE TryToKillServer
  BY <1>3, SigtermFacts DEF TryToKillServer
<1>4. CASE ServerIsGone
  BY <1>4, SpecialIds DEF ServerIsGone, Collected, Exists
<1>5. CASE NoChildLeft
  BY <1>5, SpecialIds DEF NoChildLeft
<1>6. CASE KillTimesOut
  BY <1>6 DEF KillTimesOut, AfterTimeout
<1>7. CASE ForkDbServer
  BY <1>7, SpecialIds, DbmsAssumption DEF ForkDbServer, ForksNothing
<1>8. CASE ForkFails
  BY <1>8, IncidentType, BoundsAssumption DEF ForkFails
<1> QED BY <1>1, <1>2, <1>3, <1>4, <1>5, <1>6, <1>7, <1>8

(* Setting up a database and running the tests on it.                      *)
LEMMA TestInv == ASSUME IInv, Setup \/ Generated \/ GenerateFails \/ NextTest \/ ForkChild
                                \/ Alarm \/ WaitReturns \/ WaitFails \/ ChildCollected
                         PROVE IInv'
<1> USE DEF IInv, TypeOK, NoOrphan, CleanRestart, TriesBound, KnownServer, SignalsItsServerOnly,
            TimerOnlyInTest, TimerHasChild, serverVars
<1>1. CASE Setup
  BY <1>1, SigtermFacts, BoundsAssumption DEF Setup, TriesAfterKill
<1>2. CASE Generated
  BY <1>2, BoundsAssumption DEF Generated
<1>3. CASE GenerateFails
  BY <1>3, IncidentType, BoundsAssumption DEF GenerateFails
<1>4. CASE NextTest
  BY <1>4, BoundsAssumption DEF NextTest
<1>5. CASE ForkChild
  BY <1>5 DEF ForkChild
<1>6. CASE Alarm
  <2>1. timer' = FALSE /\ child_timed_out' = TRUE
    BY <1>6 DEF Alarm
  <2>2. timer' \in BOOLEAN /\ child_timed_out' \in BOOLEAN
    BY <2>1, Zenon
  <2> QED BY <1>6, <2>1, <2>2 DEF Alarm
<1>7. CASE WaitReturns
  BY <1>7 DEF WaitReturns
<1>8. CASE WaitFails
  BY <1>8 DEF WaitFails
<1>9. CASE ChildCollected
  <2>1. UNCHANGED <<dbms, outer, own, server_process_id, child_timed_out, tests, after, resume,
                    stray, incidents>>
    BY <1>9 DEF ChildCollected
  <2>2. timer' = FALSE /\ child' = "none"
    BY <1>9 DEF ChildCollected, TimerStopped
  <2>3. pc' \in {"test", "setup", "aborted"} /\ pc = "waited"
    BY <1>9 DEF ChildCollected
  <2>4. setup_try_time' = setup_try_time \/ setup_try_time' = 0
    BY <1>9 DEF ChildCollected
  <2>5. timer' \in BOOLEAN
    BY <2>2, Zenon
  <2>6. setup_try_time' \in 0..(MaxSetupTry + 1) /\ TriesBound'
    BY <2>3, <2>4, BoundsAssumption
  <2>7. TypeOK'
    BY <2>1, <2>2, <2>3, <2>5, <2>6
  <2> QED BY <2>1, <2>2, <2>3, <2>6, <2>7
<1> QED BY <1>1, <1>2, <1>3, <1>4, <1>5, <1>6, <1>7, <1>8, <1>9

LEMMA StutterInv == ASSUME IInv, UNCHANGED vars PROVE IInv'
  BY DEF IInv, vars, TypeOK, NoOrphan, CleanRestart, TriesBound, KnownServer,
         SignalsItsServerOnly, TimerOnlyInTest, TimerHasChild

(* The inductive invariant holds.                                          *)
THEOREM Invariance == Spec => []IInv
<1>1. IInv /\ [Next]_vars => IInv'
  BY EnvironmentInv, RestartInv, TestInv, StutterInv DEF Next, Parent, Aborted
<1> QED BY <1>1, InitInv, PTL DEF Spec

(* Every variable of the parent process has its type; in particular the    *)
(* failures of the set-up are never counted past their limit.              *)
THEOREM TypeCorrect == Spec => []TypeOK
<1>1. IInv => TypeOK
  BY DEF IInv
<1> QED BY <1>1, Invariance, PTL

(* fork_if_server_closed() and the alarm never lose track of a server that *)
(* the tester started, whatever crashes or hangs and in which order.       *)
THEOREM NoServerIsOrphaned == Spec => []NoOrphan
<1>1. IInv => NoOrphan
  BY DEF IInv
<1> QED BY <1>1, Invariance, PTL

(* Where fork_db_server() starts servers, try_to_kill_server() and         *)
(* kill_process_with_SIGTERM() signal nothing else.                        *)
THEOREM OnlyItsServerIsSignalled == Spec => []SignalsItsServerOnly
<1>1. IInv => SignalsItsServerOnly
  BY DEF IInv
<1> QED BY <1>1, Invariance, PTL

(* kill_process_signal() never runs outside of the wait for a test.        *)
THEOREM AlarmsHitTestsOnly == Spec => []TimerOnlyInTest
<1>1. IInv => TimerOnlyInTest
  BY DEF IInv
<1> QED BY <1>1, Invariance, PTL
=============================================================================
