SPECIFICATION FairSpec
CONSTANTS
    Orders = {o1}
    Kinds <- AllKinds
    Nodes = {n1}
    Calls = {c1, c2, c3}
    Slips = {s1}
    RowLocks = TRUE
    MaxPurchase = 0
    MaxDups = 2
    MaxFaults = 2
    MaxCrashes = 1
INVARIANTS
    CreditedOnce
    ShownAsGranted
PROPERTIES
    AutoOnlyWhileOn
    PaidIsGranted
