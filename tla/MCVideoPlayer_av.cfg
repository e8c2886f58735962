\* Audio and video, one Load, one seek: queues, seeking, end of file.
SPECIFICATION Spec
CONSTANTS
    HasAudio = TRUE
    Garbage <- Heap
    MaxVideoQ = 1
    MaxAudioQ = 0
    EventLimit = 2
    MaxLoads = 1
    MaxSeeks = 1
    MaxResizes = 0
INVARIANTS
    SizeIsBytes BackPressure SeekDropsBacklog SteadyPlayNeverFaults
CHECK_DEADLOCK FALSE
