SPECIFICATION Spec
CONSTANTS
    Entry = {e1, e2}
    NoEntry = NoEntry
    MaxSegments = 2
    Job = {j1, j2}
    NoJob = NoJob
    MaxUnopened = 1
PROPERTY NothingLost
CHECK_DEADLOCK FALSE
