SPECIFICATION MCSpec
CONSTANTS
    Job = {1}
    Chat = {11}
    InvocationId = {1, 2, 3}
    Capacity = 2
    Canceller = {t1}
    None = None
INVARIANTS
    CancelReachesCore TablesMatchWork
    SizeIsTotal BypassBounded
PROPERTIES
    EveryClientAnswered
    EveryJobServed
CHECK_DEADLOCK FALSE
