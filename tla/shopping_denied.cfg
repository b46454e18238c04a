CONSTANTS
    Peers = {b, s}
    Items = {book}
    Prices = {1}
    MaxRq = 3
    Workers = {w1, w2}
    TimerThreads = {t1}
    Window = 1
    Stalls = FALSE
    Buyers = {}
    Sellers = {}
    Leavers = {b}
    Quitters = {}
    Busy = {b}
    Limit = 1
    BusyLimit = 3
    MaxItems = 1
    Commands <- MCCommands
    RqLimit <- MCRqLimit
    Restarters = {}
    Duplicates = FALSE
    MaxFaults = 0
SPECIFICATION Spec
CHECK_DEADLOCK FALSE
SYMMETRY Symmetric
PROPERTIES DeniedOnlyIfRegistered
