SPECIFICATION HoursSpec
CONSTANTS
    Bound = 2
    Week = 2
    Minutes = 4
    Seconds = 2
    Subscriptions <- SomeSubscriptions
    NoRun = NoRun
INVARIANTS MirrorImage MissedOnlyAtTheEdges
PROPERTIES WorseningNeverImproves ToldOnlyWithinHours
