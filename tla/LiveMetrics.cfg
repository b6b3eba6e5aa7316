SPECIFICATION FairSpec
CONSTANTS
    Conns = {c1, c2}
    MaxSent = 3
    Handlers = 1
    CoreSize = 1
    MaxSize = 2
    Capacity = 1
    Faults = {"decode", "accept", "task"}
CHECK_DEADLOCK FALSE
INVARIANTS TypeOK OnlyTheLastIsLost TerminatedMeansDone
PROPERTIES OvertakenOnlyWhenFull EveryConnectionIsServed ShutdownDrains ImplementsBatches
