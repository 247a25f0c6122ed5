SPECIFICATION CommandsSpec
CONSTANTS
    Serving = {x1, x2}
    NoHolder = NoHolder
    EvidenceIds = {e1, e2, e3}
    CommandKeys = {k1}
    MaxStored = 3
    MaxFocused = 2
    WorkerTargets = {"WATCHING"}
INVARIANTS
    FocusedLimit
CHECK_DEADLOCK FALSE
