---------------------------- MODULE MCLineSource ----------------------------
(***************************************************************************)
(* Addresses of one element and bytes of two values, so that a line of up  *)
(* to two elements may be valid, of the wrong length or out of range.      *)
(***************************************************************************)
EXTENDS LineSource

\* One valid element, one above and one below the range of a byte.
MCElements == {1, 2, -1}
=============================================================================
