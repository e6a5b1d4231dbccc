---------------------------- MODULE MCForwarder ----------------------------
(***************************************************************************)
(* Small instances of Forwarder for TLC.  The worker's answers are what    *)
(* the sink of Pipeline may answer.                                        *)
(***************************************************************************)
EXTENDS Forwarder

MCBackoff == [n \in 1 .. MaxWriteRetries |-> 1]

MCOpenFaults == {"DuckDBError", "ConfigError"}

MCSinkFaults ==
    OpenFaults \cup {"DuckDBError", "TransactionOutcomeUnknown",
                     "WorkerUnavailable", "WorkerFailed"}
=============================================================================
