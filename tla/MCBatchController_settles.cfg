SPECIFICATION FairSpec
CONSTANTS
    Entry = {e1, e2}
    NoEntry = NoEntry
    MaxSegments = 2
    Job = {j1, j2}
    NoJob = NoJob
    MaxUnopened = 1
PROPERTY RunSettlesUnlessStranded
ACTION_CONSTRAINT OpensOrAlone
VIEW WithoutTable
CHECK_DEADLOCK FALSE
