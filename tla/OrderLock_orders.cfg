SPECIFICATION FairSpec
CONSTANTS
    Handlers = {h1, h2, h3}
    Orders = {o1, o2}
    Mutexes = {m1, m2, m3}
    None = None
INVARIANTS
    NoLeak
PROPERTIES
    IsOrderMutex
    EveryoneEnters
