CONSTANTS
    Peers = {b, s}
    Items = {book}
    Prices = {1, 2}
    MaxRq = 2
    Workers = {w1, w2}
    TimerThreads = {t1}
    Window = 1
    Stalls = FALSE
    Buyers = {b}
    Sellers = {s}
    Leavers = {}
    Quitters = {}
    Busy = {b}
    Limit = 1
    BusyLimit = 2
    MaxItems = 1
    Commands <- MCCommands
    RqLimit <- MCRqLimit
    Restarters = {}
    Duplicates = FALSE
    MaxFaults = 0
SPECIFICATION Spec
CHECK_DEADLOCK FALSE
SYMMETRY Symmetric
PROPERTIES NegotiationIsHeard
