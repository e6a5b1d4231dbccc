SPECIFICATION ForwarderSpec
CONSTANTS
    BatchSizes = {1}
    Latencies = {1}
    MaxWriteRetries = 0
    Backoff <- MCBackoff
    ShutdownTimeout = 1
    SinkFaults <- MCSinkFaults
    MaxItems = 1
    InMemory = FALSE
    OpenFaults = {}
    MayPanic = FALSE
INVARIANT CleanupJoins
