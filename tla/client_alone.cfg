CONSTANTS
    Peers = {p}
    Items = {book}
    Prices = {1, 2}
    MaxRq = 2
    Commands <- MCCommands
    RqLimit <- MCRqLimit
    MaxItems = 2
    MaxHeard = 3
SPECIFICATION Spec
INVARIANTS TypeOK RepliesWereOffered RequestsAreAllowed
CHECK_DEADLOCK FALSE
