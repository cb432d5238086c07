\* Two transfers on one path, of which one shares lookups with Relay requests, and a third on
\* a path that is not configured.
SPECIFICATION FairSpec
CONSTANTS
    k1 = k1
    k2 = k2
    k3 = k3
    p1 = p1
    p2 = p2
    Nil = Nil
    Keys = {k1, k2, k3}
    Pipelines = {p1, p2}
    PipelineOf <- OnTwoPaths
    Unconfigured = {p2}
    InputBuffer = 2
    StageCapacity = 1
    Shared = {k2}
INVARIANT Deduped
INVARIANT NoMarkLeaks
INVARIANT NilNeverProcessed
INVARIANT PushNeverBlocks
PROPERTY ImplementsCustody
PROPERTY AlwaysTriedAgain
PROPERTY ShutdownCompletes
\* The process stops once it is shut down.
CHECK_DEADLOCK FALSE
