SPECIFICATION Spec
CONSTANTS
    InvocationId = {1, 2}
    Capacity = 1
    Caller = {c1}
    Model = {m1}
    NoModel = NoModel
    NoCaller = NoCaller
    NoInvocation = 0
    RequestClass = {"Batch","ApiInteractive"}
    RequestDeadline = {FALSE}
    MaxDeltas = 1
    UnloadMayFail = FALSE
INVARIANTS
    CountInv
    LifecycleInv
    ReadyModelIsLoaded
PROPERTIES
    NeverBack
    HostKeepsContract
