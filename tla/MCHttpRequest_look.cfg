\* Two LoadOtherUrl threads, which share the id "look".
SPECIFICATION Spec
CONSTANTS
    t1 = t1
    t2 = t2
    Jobs <- Threads
    Work <- LoadOtherUrl
    NoUrl = "none"
INVARIANTS
    UrlBelongs
CHECK_DEADLOCK FALSE
