SPECIFICATION Spec
CONSTANTS
    InvocationId = {1}
    Capacity = 1
    Caller = {c1, c2}
    Model = {m1}
    NoModel = NoModel
    NoCaller = NoCaller
    NoInvocation = 0
    RequestClass = {"Batch"}
    RequestDeadline = {FALSE}
    MaxDeltas = 0
    UnloadMayFail = FALSE
PROPERTY ShutdownWinsLoad
