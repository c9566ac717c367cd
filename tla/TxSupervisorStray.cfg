\* A DBMS whose server is left to its user.
SPECIFICATION Spec
CONSTANTS
    Dbms = {"nothing"}
    Pids = {1, 2}
    MaxSetupTry = 1
    TestTime = 2
    MaxIncidents = 3
INVARIANT NoStraySignal
