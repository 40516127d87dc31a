SPECIFICATION FairSpec
CONSTANTS
    Socket = {s1, s2, s3}
    Connection = {1, 2, 3}
    Nothing = Nothing
    MaxClients = 2
    MaxOutstanding = 1
    MaxReads = 1
INVARIANTS OutstandingMatches OneResponseEach
PROPERTY EveryConnectionReleased
CHECK_DEADLOCK FALSE
