CONSTANTS
    Peers = {b1, b2, s1}
    Items = {book}
    Prices = {1}
    MaxRq = 1
    Workers = {w1, w2}
    TimerThreads = {t1, t2}
    Window = 2
    Stalls = FALSE
    Registrants = {s1}
    Leavers = {}
    Failing = {}
    Searchers = {b1, b2}
    Sellers = {s1}
    Traders = {}
    Restarters = {}
    Busy = {}
    Roles <- MCRoles
    RqLimit <- MCRqLimit
    Duplicates = FALSE
    MaxFaults = 0
SPECIFICATION Spec
SYMMETRY Symmetric
PROPERTIES NoEarlyAnswer
