CONSTANTS
    Nil = Nil
    Requests = {r1, r2}
    LastDay = 2
    Days = {1, 2, 3, 4}
    Horizon = 2
    Faults = 1
    Events = 3
    Parts = {"values", "season", "service"}
    \* Easter Monday falls in March, and a leap year.
    SeasonYears = {2026, 2027}
SYMMETRY RequestSymmetry
SPECIFICATION Spec
INVARIANTS ReadsBack QuotasPlaced AnsweredForToday ShownIsKept
CHECK_DEADLOCK FALSE
