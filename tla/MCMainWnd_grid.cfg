\* Five cams on pages of one or four, a device, two commands at a time, one thread.
SPECIFICATION Spec
CONSTANTS
    d1 = d1
    p1 = p1
    p2 = p2
    N = 5
    Layouts = {1, 4}
    MaxRecords = 1
    Devices = {d1}
    Names = {}
    Cams = {0, 1, 2, 3, 4}
    FirstCam = 0
    Cmds = {p1, p2}
    None = None
    Turn <- LastFirst
    MaxThreads = 1
    MaxPresses = 2
SYMMETRY Alike
INVARIANTS
    PageIsShown PagesCoverCams CommandAims LastPresetSent
CHECK_DEADLOCK FALSE
