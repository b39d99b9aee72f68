CONSTANTS
    Workers = {w1, w2}
    MaxRetries = 1
    MaxEvents = 1
    MaxNotices = 2
    MaxRaised = 2
    Deployments = {{"telegram"}, {"telegram", "email"}}
    MaxChanges = 1
    MaxCrashes = 1
SPECIFICATION FairSpec
INVARIANTS NobodyForgotten
PROPERTIES MuteIsHeard NoticesInOrder KeepsPromise WorkEnds
\* Everything has been raised, changed and sent.
CHECK_DEADLOCK FALSE
