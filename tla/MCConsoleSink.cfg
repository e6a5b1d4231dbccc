SPECIFICATION ConsoleSpec
CONSTANTS
    BatchSizes = {1}
    Latencies = {3}
    MaxWriteRetries = 2
    Backoff <- MCBackoff
    ShutdownTimeout = 2
    SinkFaults <- MCSinkFaults
    MaxItems = 4
INVARIANTS
    AcknowledgedWhole
    OutputInOrder
    TearsRetried
PROPERTY ConsoleImplementsPipeline
