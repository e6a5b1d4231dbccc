SPECIFICATION FairSpec
CONSTANTS
    BatchSizes = {0, 1, 2, 3}
    Latencies = {0, 2}
    MaxWriteRetries = 3
    InitialRetryDelay = 1
    MaxRetryDelay = 2
    WordBits = 4
    Backoff <- MCBackoff
    ShutdownTimeout = 2
    SinkFaults <- MCFaults
    MaxItems = 4
INVARIANTS
    TypeOK
    NothingForgotten
    OkMeansDelivered
    LatencyArmed
    LatencyBound
    ShutdownPolledOnce
    ShutdownBound
PROPERTIES
    ImplementsDelivery
    InputEnds
    Delivered
