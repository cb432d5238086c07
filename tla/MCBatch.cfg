\* One worker, room for one batch, batches of one or two, and transfers enough for every
\* goroutine to hold one while the splitter holds another.
SPECIFICATION FairSpec
CONSTANTS
    k1 = k1
    k2 = k2
    k3 = k3
    k4 = k4
    k5 = k5
    Keys = {k1, k2, k3, k4, k5}
    Concurrency = 1
    MaxSize = 2
    BufferSize = 1
INVARIANT TypeOK
INVARIANT Accounted
INVARIANT NoSendOnClosed
PROPERTY ImplementsStage
PROPERTY Flowing
PROPERTY Delivered
PROPERTY ClosesOut
\* The stage stops once its input is closed.
CHECK_DEADLOCK FALSE
