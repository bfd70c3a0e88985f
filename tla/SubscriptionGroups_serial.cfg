SPECIFICATION GroupSpec
CONSTANTS
    UserSubs = {1, 2, 3}
    Groups = {vip, svip}
    Base = base
    Terms = {1, 2}
    Serial = TRUE
    MaxClock = 3
SYMMETRY Symmetry
\* A user whose subscriptions have all ended need not buy another.
CHECK_DEADLOCK FALSE
INVARIANTS
    GroupReturned
    UpgradeKept
