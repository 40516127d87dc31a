SPECIFICATION Spec
CONSTANTS
    Entry = {e1, e2}
    NoEntry = NoEntry
    MaxSegments = 2
    Job = {j1, j2}
    NoJob = NoJob
    MaxUnopened = 1
INVARIANTS JobsMatchQueue DurableTruth RowsCurrent
PROPERTY CommittedStays
SYMMETRY JobSymmetry
CHECK_DEADLOCK FALSE
