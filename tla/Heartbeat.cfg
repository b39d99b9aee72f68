CONSTANTS
    Servers = {s1}
    Requests = {q1}
    Runs = {h1, h2}
    Timeout = 1
    None = None
    MaxTime = 3
    MaxCrashes = 1
SPECIFICATION FairSpec
INVARIANTS TypeOK PendingMarksHold NoticesMatchStatus
PROPERTIES NoFalseDown RecoveryNeedsMetric LockedOutForGood SilentGoesDown
