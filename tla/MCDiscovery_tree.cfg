\* The window of a client that hears itself and another program.
SPECIFICATION FairSpec
CONSTANTS
    a = a
    Clients <- OneClient
    Room <- OneRoom
    Strangers = {"s"}
    NoAddr = "0.0.0.0"
    Refused = "no"
    Other = "other"
    Empty = "empty"
    NotListed = "none"
    BufSize = 1
    MaxErrors = 1
    Windows = {a}
INVARIANTS
    SocketsOutliveThreads ListedAsAnnounced
PROPERTIES
    CloseReturns ListedIsShown
CHECK_DEADLOCK FALSE
