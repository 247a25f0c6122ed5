SPECIFICATION HistorySpec
CONSTANTS
    N = 2
    RearmMin = 1
    FinalMin = 2
    UnknownLimit = 2
    HoldLimit = 3
    MaxAttempts = 3
    MaxVersion = 0
    MaxWinners = 1
    Seats = {"available", "unavailable"}
    Answers = {"hold", "notFound"}
    Reads = {"hold", "expiredHold"}
    Env = {"user"}
CHECK_DEADLOCK FALSE
INVARIANTS
    OneCommandMayOwn
    ShownHoldIsLive
    CandidatesFollowHolds
    OneRecoveryPerUnknown
PROPERTIES
    PaidIsFinal
    KeepsLedger
