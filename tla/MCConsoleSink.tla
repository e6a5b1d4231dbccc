--------------------------- MODULE MCConsoleSink ---------------------------
(***************************************************************************)
(* Small instances of ConsoleSink for TLC.  desired_batch_size is 1, so    *)
(* the latency of a day never comes to bear.                               *)
(***************************************************************************)
EXTENDS ConsoleSink

MCBackoff == [n \in 1 .. MaxWriteRetries |-> 1]

MCSinkFaults == {"IoError", "ClosedPipe", "SerializationError"}
=============================================================================
