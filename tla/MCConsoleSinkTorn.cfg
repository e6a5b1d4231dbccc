SPECIFICATION ConsoleSpec
CONSTANTS
    BatchSizes = {1}
    Latencies = {3}
    MaxWriteRetries = 1
    Backoff <- MCBackoff
    ShutdownTimeout = 1
    SinkFaults <- MCSinkFaults
    MaxItems = 2
INVARIANT LineOfItsOwn
