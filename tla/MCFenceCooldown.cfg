SPECIFICATION DueSpec
CONSTANTS
    N = 1
    RearmMin = 1
    FinalMin = 1
    UnknownLimit = 2
    HoldLimit = 2
    MaxAttempts = 2
    MaxVersion = 0
    MaxWinners = 1
    Seats = {"available", "unavailable"}
    Answers = {"deferred", "hold", "notAvailable"}
    Reads = {"hold", "notFound"}
    Env = {"login"}
CHECK_DEADLOCK FALSE
PROPERTIES
    CooldownReturns
