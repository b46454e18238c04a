CONSTANTS
    Peers = {b, s1, s2}
    Items = {book}
    Prices = {1, 2}
    MaxRq = 1
    Workers = {w1, w2}
    TimerThreads = {t1}
    Window = 2
    Stalls = TRUE
    Registrants = {s1, s2}
    Leavers = {}
    Failing = {}
    Searchers = {b}
    Sellers = {s1, s2}
    Traders = {s1, s2}
    Restarters = {}
    Busy = {}
    Roles <- MCRoles
    RqLimit <- MCRqLimit
    Duplicates = FALSE
    MaxFaults = 0
SPECIFICATION Spec
SYMMETRY Symmetric
INVARIANTS TypeOK AtMostOneAnswer NoOrphanSearch FoundWasOffered
PROPERTIES NoEarlyAnswer ImplementsBroker
