CONSTANTS
    Peers = {b, s}
    Items = {book}
    Prices = {1}
    MaxRq = 3
    Workers = {w1}
    TimerThreads = {t1}
    Window = 1
    Stalls = FALSE
    Buyers = {b}
    Sellers = {s}
    Leavers = {b}
    Quitters = {b}
    Busy = {b}
    Limit = 1
    BusyLimit = 2
    MaxItems = 1
    Commands <- MCCommands
    RqLimit <- MCRqLimit
    Restarters = {b}
    Duplicates = TRUE
    MaxFaults = 1
SPECIFICATION Spec
CHECK_DEADLOCK FALSE
SYMMETRY Symmetric
INVARIANTS BelievesRegistered AnswerFindsSearcher
PROPERTIES ImplementsOpenServer
