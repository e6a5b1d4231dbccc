SPECIFICATION ProcessSpec
CONSTANTS
    BatchSizes = {0, 2}
    Latencies = {1}
    MaxWriteRetries = 1
    Backoff <- MCBackoff
    ShutdownTimeout = 1
    SinkFaults <- MCFaults
    MaxItems = 2
    Registrations <- AnyRegistration
INVARIANTS
    ZeroMeansDelivered
    KillLosesNothing
PROPERTY SignalEndsProcess
