\* Two LoadSource jobs of the thread pool, each lookup with an id of its own.
SPECIFICATION Spec
CONSTANTS
    t1 = t1
    t2 = t2
    Jobs <- Threads
    Work <- LoadSource
    NoUrl = NoUrl
INVARIANTS
    UrlBelongs AnswerStored
CHECK_DEADLOCK FALSE
