\* A transaction that the server rolled back because of a deadlock.
SPECIFICATION Spec
CONSTANTS
    Drivers = {"polls"}
    StmtNum = 5
    Tids = {1, 2}
    Programs <- Ending
    Queues <- MCQueues
INVARIANT AbortedIsRecorded
