SPECIFICATION FairSpec
CONSTANTS
    Fields = {"enabled"}
    Settings = {s1, s2}
    Conns = {c1, c2}
    MaxVisits = 2
    MaxActs = 3
    MaxFails = 1
    NoDoc = NoDoc
    Idle = Idle
CHECK_DEADLOCK FALSE
INVARIANTS TypeOK OnlySavedSettings StuckOnlyAfterFailure
PROPERTIES DeletedCheckStays DeletedSubscriptionStays EventuallyShown
