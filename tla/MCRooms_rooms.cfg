\* Two devices in three rooms, two cams.
SPECIFICATION FairSpec
CONSTANTS
    d1 = d1
    d2 = d2
    c1 = c1
    c2 = c2
    Devices = {d1, d2}
    RoomList <- Rooms2
    Cams = {c1, c2}
    FirstCam = c1
    Cmds = {}
    Streams <- TwoStreams
    Names = {"lurl", "durl"}
    RoomRow = RoomRow
    None = None
    Turn <- AnyTurn
    MaxThreads = 1
    MaxPresses = 0
INVARIANTS
    TitleNamesDevice PlaysItsOwn RouterFollows
PROPERTIES
    LoggedInIsPainted
CHECK_DEADLOCK FALSE
