SPECIFICATION Spec
CONSTANTS
    N = 1
    RearmMin = 1
    FinalMin = 2
    UnknownLimit = 2
    HoldLimit = 3
    MaxAttempts = 2
    MaxVersion = 0
    MaxWinners = 1
    Seats = {"available"}
    Answers = {"unknownAuth"}
    Reads = {"notFound"}
    Env = {"user", "login"}
CHECK_DEADLOCK FALSE
PROPERTIES
    CancelHidesNoRequest
