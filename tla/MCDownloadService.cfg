SPECIFICATION FairSpec
CONSTANTS
    Download = {1, 2, 3}
    Request = {q1, q2}
    NoRequest = NoRequest
    Hubs = 2
    HistoryLimit = 2
    MaxShutdowns = 1
    StartsDuringShutdown = FALSE
INVARIANTS OneDownloadAtATime RestingFilesVerified
PROPERTIES ServiceKeepsContract EveryDownloadAnswered
CHECK_DEADLOCK FALSE
