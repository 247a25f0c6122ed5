SPECIFICATION Spec
CONSTANTS
    N = 2
    RearmMin = 1
    FinalMin = 1
    UnknownLimit = 2
    HoldLimit = 2
    MaxAttempts = 2
    MaxVersion = 0
    MaxWinners = 1
    Seats = {"available"}
    Answers = {"notFound"}
    Reads = {"hold", "inconclusive"}
    Env = {"user", "rearm"}
CHECK_DEADLOCK FALSE
PROPERTIES
    RearmNeverOverLiveHold
