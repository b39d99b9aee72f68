CONSTANTS
    Servers = {s1, s2}
    Containers = {c1, c2}
    Passes = {p1, p2}
    Width = 1
    MaxTime = 1
    MaxPosts = 2
    MaxStarts = 2
SPECIFICATION Spec
INVARIANTS RowsCountTheirWindow ServedIsCounted
PROPERTIES RowsOnlyGrow EveryStepNearsTheEnd
SYMMETRY Symmetry
\* The clock and the executions are used up.
CHECK_DEADLOCK FALSE
