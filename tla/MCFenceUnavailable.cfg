SPECIFICATION Spec
CONSTANTS
    N = 1
    RearmMin = 1
    FinalMin = 1
    UnknownLimit = 2
    HoldLimit = 2
    MaxAttempts = 1
    MaxVersion = 0
    MaxWinners = 1
    Seats = {"available"}
    Answers = {"hold"}
    Reads = {"hold", "unavailable"}
    Env = {}
CHECK_DEADLOCK FALSE
PROPERTIES
    UnavailableReadsCloseNothing
