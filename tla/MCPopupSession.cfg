SPECIFICATION FairSpec
CONSTANTS
    None = None
    MaxRequests = 3
    MaxDeltas = 1
INVARIANT SessionOwnsItsWork
PROPERTY LoadingEnds
CHECK_DEADLOCK FALSE
