\* Every schedule of two pairs of transactions, with statements that fail while scheduling
\* and commits that fail; some with lock waits or with failures in every run.
SPECIFICATION FairSpec
CONSTANTS
    Tids = {1, 2}
    Basics = {"insert", "insert2", "update", "update2", "delete", "select"}
    Shape <- MCShape
    Cases <- MCCases
INVARIANTS StmtIdsAligned ComparesTheRun PathCoversTheRun
PROPERTY Termination
