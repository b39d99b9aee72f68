CONSTANTS
    Devices = {d1, d2}
    Requests = {r1, r2}
    MaxTokens = 3
    MaxResets = 1
    MaxExpired = 1
    MaxCrashes = 1
SPECIFICATION Spec
INVARIANTS
    TypeOK ExchangedOnce EveryKeyHasOwner SpentIsMarked ResetEndsOldSessions
    HonestBrowserKeepsSession
PROPERTIES RevokedForGood
SYMMETRY Symmetry
\* The tokens run out.
CHECK_DEADLOCK FALSE
