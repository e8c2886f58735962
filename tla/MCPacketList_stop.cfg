\* Liveness, with the audio callback running. No event is ever lost here.
SPECIFICATION FairSpec
CONSTANTS
    HasAudio = TRUE
    Garbage = {0}
    MaxVideoQ = 0
    MaxAudioQ = 0
    EventLimit = 1
    MaxLoads = 1
    MaxSeeks = 0
    MaxResizes = 0
PROPERTIES StopReturns PictureTaken
CHECK_DEADLOCK FALSE
