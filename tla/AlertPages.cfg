SPECIFICATION FairSpec
CONSTANTS
    Items = 2
    Conns = {c1, c2}
    MaxAlerts = 4
    MaxIndex = 4
    MaxFails = 1
    Idle = Idle
    Nothing = Nothing
INVARIANTS TypeOK WalkSkipsNothing
PROPERTIES PageSettles
