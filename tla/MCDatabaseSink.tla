--------------------------- MODULE MCDatabaseSink ---------------------------
(***************************************************************************)
(* Small instances of DatabaseSink for TLC.                                *)
(***************************************************************************)
EXTENDS DatabaseSink

\* One error of the connection factory that is retried, and one that is not.
MCOpenFaults == {"DuckDBError", "ConfigError"}
=============================================================================
