CONSTANTS
    BatchSize = 2
    Dashboards = {d1, d2}
    MaxLines = 3
    MaxFailures = 1
SPECIFICATION FairSpec
INVARIANTS TypeOK RowsInOrder EveryLineAccounted ShownWithoutGaps
PROPERTIES BufferedLinesLeave
\* The connection ends.
CHECK_DEADLOCK FALSE
