------------------------------ MODULE Delivery ------------------------------
(***************************************************************************)
(* What the forwarder promises of the records it reads, whatever the sink, *)
(* its errors, the retries, the signals and the deadlines: they are stored *)
(* in the order they were read, each once, and each store takes everything *)
(* that has been read so far; at most one batch is ever at risk; and the   *)
(* forwarder ends with success only when nothing is.                       *)
(*                                                                         *)
(* This is an abstract specification: Pipeline implements it with what the *)
(* sink has acknowledged, Forwarder with the rows of the table.            *)
(***************************************************************************)
EXTENDS Integers, Sequences

CONSTANT Record

VARIABLES
    limit,          \* the size of a batch
    input,          \* the records read, in order
    stored,         \* the records stored, in order
    outcome         \* "running", and then "ok" or "failed"

vars == <<limit, input, stored, outcome>>

Init ==
    /\ limit \in Nat
    /\ input = <<>> /\ stored = <<>>
    /\ outcome = "running"

Read ==
    /\ outcome = "running"
    /\ Len(input) < Len(stored) + limit
    /\ \E r \in Record : input' = Append(input, r)
    /\ UNCHANGED <<limit, stored, outcome>>

\* A store may be the last thing a failing forwarder does, and a write that it
\* has given up on may still be carried out.
Store ==
    /\ outcome # "ok"
    /\ stored' = input
    /\ outcome' \in {outcome, "failed"}
    /\ UNCHANGED <<limit, input>>

Succeed ==
    /\ outcome = "running" /\ stored = input
    /\ outcome' = "ok"
    /\ UNCHANGED <<limit, input, stored>>

Fail ==
    /\ outcome = "running"
    /\ outcome' = "failed"
    /\ UNCHANGED <<limit, input, stored>>

Next == Read \/ Store \/ Succeed \/ Fail

Spec == Init /\ [][Next]_vars

\* What was read does not stay unstored for ever, unless the forwarder fails.
Settles == stored # input ~> stored = input \/ outcome = "failed"
=============================================================================
