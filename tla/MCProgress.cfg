SPECIFICATION ProgressSpec
CONSTANTS
    \* NotificationOutbox
    Channel = {c1}
    Worker = {w1, w2}
    MAX_DELIVERY_ATTEMPTS = 2
    DELIVERY_BATCH_SIZE = 1
    MaxEvents = 2
    MaxCrashes = 0
    MaxConfig = 1
    \* ProviderCooldown, SearchCoordinator
    QueryHold = 2
    ProtectionHold = 1
    LoginHold <- LoginHolds
    LoginInterval = 0
    MaxNow = 3
    MaxFaults = 0
    Callers = {c1, c2}
    Keys = {a}
    Tasks = {t1, t2}
    NoTask = NoTask
    Timeouts = {2}
    Grace = 1
    CacheTicks = 1
    BackoffTicks = 1
    MaxBackoff = 4
    MaxRestarts = 1
    \* ReservationDriver
    Budget = 2
    Settle = 2
    FirstPause = 1
    MaxPause = 2
    \* LiveWatches
    Watches = {v1}
    MaxWatchRevision = 2
    MaxLives = 2
    \* WatchNotices
    MaxChanges = 2
    Commands = FALSE
PROPERTIES
    EveryEventEnds
    CallersAreAnswered
    DriverEnds
    ShownCatchesUp
    PaymentIsTold
CHECK_DEADLOCK FALSE
