\* Both kinds of DBMS, five incidents anywhere.
SPECIFICATION FairSpec
CONSTANTS
    Dbms = {"forks", "nothing"}
    Pids = {1, 2}
    MaxSetupTry = 1
    TestTime = 2
    MaxIncidents = 5
INVARIANTS NoOrphan SignalsItsServerOnly TimerOnlyInTest
PROPERTY KeepsTesting
