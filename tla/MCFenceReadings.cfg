SPECIFICATION FairSpec
CONSTANTS
    N = 1
    RearmMin = 1
    FinalMin = 1
    UnknownLimit = 2
    HoldLimit = 2
    MaxAttempts = 2
    MaxVersion = 1
    MaxWinners = 1
    Seats = {"available", "unavailable"}
    Answers = {"hold"}
    Reads = {"hold", "notFound", "inconclusive"}
    Env = {"user", "rearm", "login", "signOut", "circuit", "departure", "expiry"}
CHECK_DEADLOCK FALSE
INVARIANTS
    ReadFitsBudget
PROPERTIES
    PendingEnds
    ReadingsEnd
