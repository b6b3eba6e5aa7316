SPECIFICATION Spec
CONSTANTS
    MaxRuns = 3
    Threads = 2
    Targets = {t1}
    Settings <- AllSettings
    Subs = {s1}
    Malformed = {}
    Ignores <- IgnoreNothing
    Pages = {}
    Faults = {"exception", "restart"}
    NoDoc = NoDoc
    t1 = t1
    t2 = t2
    s1 = s1
    s2 = s2
    s3 = s3
CHECK_DEADLOCK FALSE
INVARIANTS TypeOK NoticesAreOnRecord
PROPERTIES RunsOnlyGoForward
