CONSTANTS
    Peers = {b, s1}
    Items = {book, pen}
    Prices = {1}
    MaxRq = 2
    Workers = {w1, w2}
    TimerThreads = {t1, t2}
    Window = 2
    Stalls = FALSE
    Registrants = {s1}
    Leavers = {}
    Failing = {}
    Searchers = {b}
    Sellers = {s1}
    Traders = {}
    Restarters = {}
    Busy = {b}
    Roles <- MCRoles
    RqLimit <- MCRqLimit
    Duplicates = FALSE
    MaxFaults = 0
SPECIFICATION Spec
SYMMETRY Symmetric
INVARIANTS NoOrphanSearch AtMostOneAnswer FoundWasOffered NoZombieStayer
PROPERTIES NoEarlyAnswer
