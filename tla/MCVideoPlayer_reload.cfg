\* Video only, two Loads, resizes: threads that outlive their Load.
SPECIFICATION Spec
CONSTANTS
    HasAudio = FALSE
    Garbage <- Heap
    MaxVideoQ = 0
    MaxAudioQ = 0
    EventLimit = 1
    MaxLoads = 2
    MaxSeeks = 0
    MaxResizes = 1
INVARIANTS
    TypeOK OneRefreshChain JoinedThreadsSafe NoLostWakeup NothingLeaks
PROPERTIES
    NoEndAfterStop SlotSpec
CHECK_DEADLOCK FALSE
