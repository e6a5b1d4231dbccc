SPECIFICATION FairForwarderSpec
CONSTANTS
    BatchSizes = {1, 2, 3}
    Latencies = {1, 2}
    MaxWriteRetries = 2
    Backoff <- MCBackoff
    ShutdownTimeout = 2
    SinkFaults <- MCSinkFaults
    MaxItems = 4
    InMemory = FALSE
    OpenFaults <- MCOpenFaults
    MayPanic = TRUE
INVARIANTS
    TableInOrder
    AcknowledgedStored
    OkMeansStored
PROPERTIES
    ImplementsPipeline
    TableDelivers
    TableSettles
