\* Two transactions, one of which aborts, over a driver that waits for every answer and
\* over one whose query for lock waits may fail; and three that commit, over one that
\* reports lock waits.
SPECIFICATION MCFairSpec
CONSTANTS
    Drivers = {"waits", "polls", "unsure"}
    StmtNum = 5
    Tids = {1, 2, 3}
    Programs <- Both
    Queues <- MCQueues
INVARIANTS TypeOK ScheduleKeepsOrder OutputsAligned NothingForgotten
    PendingIsNext RecursionShrinks WaitingDriverCompletes
PROPERTY Termination
