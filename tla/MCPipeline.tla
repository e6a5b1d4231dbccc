----------------------------- MODULE MCPipeline -----------------------------
(***************************************************************************)
(* Small instances of Pipeline for TLC, with the delays of RetryDelay.     *)
(***************************************************************************)
EXTENDS Pipeline, RetryDelay

CONSTANTS InitialRetryDelay, MaxRetryDelay

MCBackoff ==
    [n \in 1 .. MaxWriteRetries |-> RetryDelay(InitialRetryDelay, MaxRetryDelay, n)]

\* One error that is retried and two that are not.
MCFaults == {"DuckDBError", "TransactionOutcomeUnknown", "ClosedPipe"}
=============================================================================
