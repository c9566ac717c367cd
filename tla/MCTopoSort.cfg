\* Every graph over four statements, in blocks of one or two, and excluded parts of blocks.
SPECIFICATION FairSpec
CONSTANTS
    StmtNum = 8
    Tids = {1, 2}
    Graphs <- MCGraphs
INVARIANTS PathRespectsDependencies BlocksTogether AcyclicKeepsAll SomethingIsSorted
PROPERTY Termination
