SPECIFICATION FairSpec
CONSTANTS
    Subs = {1, 2}
    Requests = {r1, r2}
    Ends = {1, 2}
    Total = 3
    Amounts = {2}
    RowLocks = TRUE
    PlanChanges = TRUE
    Batch = 1
    MaxTime = 1
    Deltas = {1}
INVARIANTS
    TypeOK
    UsedIsOwed
PROPERTIES
    EndedStaysEnded
    ResetsAdvance
    DueIsDone
