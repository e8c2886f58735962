\* Three clients and a grid with room for two calls.
SPECIFICATION Spec
CONSTANTS
    a = a
    b = b
    c = c
    ra = ra
    rb = rb
    rc = rc
    Clients <- ThreeClients
    Room <- ThreeRooms
    Streams <- ThreeStreams
    Local = "local"
    Idle = "idle"
    NoOne = "none"
    NVideos = 3
    MaxCalls = 2
SYMMETRY Alike
INVARIANTS
    OnlyAgreedCalls OneVideoPerRoom
CHECK_DEADLOCK FALSE
