----------------------------- MODULE MCProcess -----------------------------
(***************************************************************************)
(* Small instances of Process for TLC.                                     *)
(***************************************************************************)
EXTENDS Process

MCBackoff == [n \in 1 .. MaxWriteRetries |-> 1]

MCFaults == {"DuckDBError", "TransactionOutcomeUnknown"}

AnyRegistration == SUBSET Signals
=============================================================================
