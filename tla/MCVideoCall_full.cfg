\* Two clients, which may call themselves, and a grid that one call fills.
SPECIFICATION FairSpec
CONSTANTS
    a = a
    b = b
    c = c
    ra = ra
    rb = rb
    rc = rc
    Clients <- TwoClients
    Room <- TwoRooms
    Streams <- TwoStreams
    Local = "local"
    Idle = "idle"
    NoOne = "none"
    NVideos = 2
    MaxCalls = 2
INVARIANTS
    LocalKept NothingHidden
PROPERTIES
    AcceptedIsShown AnswerIsShown
CHECK_DEADLOCK FALSE
