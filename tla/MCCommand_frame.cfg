\* Data up to the 255 bytes that a frame can carry.
SPECIFICATION Spec
CONSTANTS
    Addresses = {255}
    Types = {240}
    Cmds = {255}
    Datas <- SomeData
    MaxCalls = 4
INVARIANTS
    FrameDecodes
CHECK_DEADLOCK FALSE
