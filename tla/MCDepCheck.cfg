SPECIFICATION Spec
CONSTANTS
    TxnNum = 2
    Levels = {"serializable", "snapshot", "dirty"}
    TableOf <- MCTableOf
    InitRows = {1}
    Queries <- MCQueries
    Changed = {1, 2}
    BlockNum = 3
    OwnNum = 2
INVARIANT NoFalseAlarm
INVARIANT NothingMissed
INVARIANT SnapshotsFollowCommits
INVARIANT SerializableIsOrdered
