----------------------------- MODULE SinkErrors -----------------------------
(***************************************************************************)
(* The kinds of SinkError (error.rs) and the classification that decides   *)
(* whether the pipeline calls the sink again.  The payload of an error is  *)
(* abstracted away, except that an IoError whose kind is BrokenPipe or     *)
(* UnexpectedEof is told apart (ClosedPipe) because is_retryable does so.  *)
(***************************************************************************)

SinkError ==
    {"IoError", "ClosedPipe", "DuckDBError", "DatabaseError",
     "TransactionOutcomeUnknown", "InvalidTableName", "ConfigError",
     "SerializationError", "WorkerUnavailable", "WorkerFailed"}

\* A commit or rollback failure is not here: its transaction may have committed.
IsRetryable(error) == error \in {"IoError", "DuckDBError", "DatabaseError"}
=============================================================================
