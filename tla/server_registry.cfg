CONSTANTS
    Peers = {p1, p2}
    Items = {book}
    Prices = {1, 2}
    MaxRq = 1
    Workers = {w1, w2}
    TimerThreads = {t1, t2}
    Window = 1
    Stalls = FALSE
    Registrants = {p1, p2}
    Leavers = {p1}
    Failing = {p1}
    Searchers = {p1, p2}
    Sellers = {p2}
    Traders = {}
    Restarters = {p1, p2}
    Busy = {}
    Roles <- MCRoles
    RqLimit <- MCRqLimit
    Duplicates = TRUE
    MaxFaults = 1
SPECIFICATION Spec
SYMMETRY Symmetric
INVARIANTS RegisteredHasSession NoOrphanSearch AtMostOneAnswer AnswerMatchesRequest
