SPECIFICATION Spec
CONSTANTS
    Runs = {r1, r2}
    Pages = {p1}
    Lags = {0, 1}
    Back = 2
    Horizon = 3
    Never = Never
INVARIANTS TypeOK NothingSkipped CountedOnce
