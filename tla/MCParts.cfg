SPECIFICATION PartsSpec
CONSTANTS
    \* SeatQueries
    Askers = {r1, r2}
    Searches = {z1, z2}
    Queries = {t1, t2}
    NoQuery = NoQuery
    MaxHolds = 2
    \* ProviderCooldown, SearchCoordinator
    QueryHold = 2
    ProtectionHold = 1
    LoginHold <- LoginHolds
    LoginInterval = 0
    MaxNow = 3
    MaxFaults = 1
    Callers = {r1, r2}
    Keys = {k1, k2}
    Tasks = {t1, t2}
    NoTask = NoTask
    Timeouts = {2}
    Grace = 1
    CacheTicks = 1
    BackoffTicks = 1
    MaxBackoff = 4
    MaxRestarts = 0
    \* LoginSubmission
    Requests = {r1, r2}
    \* SessionActor
    A = A
    B = B
    Versions = {1, 2, 3}
    Fingerprint <- Accounts
    NoAccount = NoAccount
    ProfileModes = {"ephemeral", "dedicated_auto", "dedicated_manual"}
    MaxSessionUses = 2
    \* BrowserTabs
    MaxTabs = 2
    BodyRequests = {1, 2}
    MaxObserved = 2
    MaxReads = 1
    MaxAttempts = 2
    MaxGeneration = 3
    \* ReservationDriver
    Budget = 2
    Settle = 1
    FirstPause = 1
    MaxPause = 2
    \* WatchCommands
    Serving = {r1, r2}
    NoHolder = NoHolder
    EvidenceIds = {a}
    CommandKeys = {r1, r2}
    MaxStored = 2
    MaxFocused = 1
    WorkerTargets = {"WATCHING", "SEAT_FOUND", "RESERVING", "AUTH_REQUIRED"}
    \* ReservationFence
    N = 2
    RearmMin = 1
    FinalMin = 1
    UnknownLimit = 2
    HoldLimit = 2
    MaxVersion = 1
    MaxWinners = 1
    Seats = {"available", "waitlist"}
    Answers = {"authRequired", "unknownAuth", "hold", "failed", "deferred"}
    Reads = {"auth", "notFound", "unavailable", "deferred"}
    Env = {"login", "signOut"}
SYMMETRY Symmetry
INVARIANTS
    SharedTasks
    CloseLeavesNothing
    EvidenceIsOfThisSearch
    PressIsTold
    KeysActOnce
PROPERTIES
    QueriesAreAdmitted
    QueueStopsAtHold
    VerdictsAreProven
    ClickFollowsEvidence
    PressKeepsSeat
    OldCredentialsSettleNothing
CHECK_DEADLOCK FALSE
