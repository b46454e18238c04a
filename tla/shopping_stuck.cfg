CONSTANTS
    Peers = {b, s}
    Items = {book}
    Prices = {1}
    MaxRq = 1
    Workers = {w1, w2}
    TimerThreads = {t1}
    Window = 1
    Stalls = FALSE
    Buyers = {b}
    Sellers = {s}
    Leavers = {b}
    Quitters = {}
    Busy = {b}
    Limit = 1
    BusyLimit = 1
    MaxItems = 1
    Commands <- MCCommands
    RqLimit <- MCRqLimit
    Restarters = {}
    Duplicates = FALSE
    MaxFaults = 0
SPECIFICATION Spec
CHECK_DEADLOCK FALSE
INVARIANTS BusyIsUnderWay
