SPECIFICATION ServiceSpec
CONSTANTS
    \* ExecutionLease
    Owner = {x1, x2}
    NoOwner = NoOwner
    LeaseDuration = 2
    MaxTime = 4
    MaxFence = 3
    \* SearchActor
    Routes = {ra, rb}
    MaxSearches = 2
    CacheSize = 1
    Threshold = 2
    \* ResultPages
    Trains = {1, 2, 3, 4}
    LastMinute = 3
    HourLength = 2
    PageSize = 2
    MaxPages = 2
    MaxActions = 1
    \* NotificationOutbox
    Channel = {y1, y2}
    Worker = {x1, x2}
    MAX_DELIVERY_ATTEMPTS = 2
    DELIVERY_BATCH_SIZE = 2
    MaxEvents = 2
    MaxCrashes = 1
    MaxConfig = 0
    \* BookingCall
    MaxVersion = 2
    \* SrtReads
    Reads = {x1, x2}
    OtherReads = {o1}
    Batches = {b1}
    Lookups = {y1, y2}
    NoLookup = NoLookup
    MaxInstance = 2
    \* SrtSession
    SrtJobs = {x1, x2}
    SrtVersions = {1, 2}
    \* ConfirmationReading
    Ours = ours
    Twins = {twin}
    NoItem = NoItem
    \* ProviderSessions
    RecoveryAttempts = 2
    MaxRevision = 3
    MaxFailures = 1
    \* LiveWatches
    Watches = {w1}
    MaxWatchRevision = 2
    MaxLives = 2
    \* WatchNotices
    MaxChanges = 2
    Commands = TRUE
SYMMETRY Symmetry
INVARIANTS
    OneLookup
    AnswersAreComplete
    CallsBounded
    PressIsNeverForgotten
    DrainedIsQuiet
    SrtRetryIsSafe
    ReadingsAreTrue
    NoticesGoForward
PROPERTIES
    FencedWrites
    LiveLeaseKept
    SettledStaysSettled
    DisabledIsQuiet
    StagesAreHistory
    ProtectionIsWaitedOut
    ListsGoForward
CHECK_DEADLOCK FALSE
