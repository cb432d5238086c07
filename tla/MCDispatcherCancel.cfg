SPECIFICATION FairSpec
CONSTANTS
    k1 = k1
    k2 = k2
    k3 = k3
    p1 = p1
    p2 = p2
    Nil = Nil
    Keys = {k1, k2}
    Pipelines = {p1}
    PipelineOf <- OnOnePath
    Unconfigured = {}
    InputBuffer = 1
    StageCapacity = 1
    Shared = {}
PROPERTY CancelUnblocksSubmit
CHECK_DEADLOCK FALSE
