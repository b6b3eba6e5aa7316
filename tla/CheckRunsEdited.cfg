SPECIFICATION Spec
CONSTANTS
    MaxRuns = 2
    Threads = 1
    Targets = {t1}
    Settings <- FewSettings
    Subs = {s1}
    Malformed = {}
    Ignores <- IgnoreNothing
    Pages = {p1}
    Faults = {}
    NoDoc = NoDoc
    t1 = t1
    t2 = t2
    s1 = s1
    s2 = s2
    s3 = s3
CHECK_DEADLOCK FALSE
INVARIANTS StateBackedByAlert
PROPERTIES SubscriptionsAreWrittenApart DeletedStaysDeleted
