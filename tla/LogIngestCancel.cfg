CONSTANTS
    BatchSize = 2
    Dashboards = {d1}
    MaxLines = 3
    MaxFailures = 0
SPECIFICATION Spec
INVARIANTS LinesAreSaved
\* The connection ends.
CHECK_DEADLOCK FALSE
