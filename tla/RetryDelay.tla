----------------------------- MODULE RetryDelay -----------------------------
(***************************************************************************)
(* The exponential backoff of pipeline.rs, retry_delay, in the machine     *)
(* arithmetic the code uses: an unsigned word of WordBits bits (64 there), *)
(* a left shift that fails when the distance reaches the width, and a      *)
(* multiplication that saturates.                                          *)
(***************************************************************************)
EXTENDS Integers

CONSTANT WordBits

ASSUME WordBitsAssumption == WordBits \in Nat \ {0}

\* 1 shifted to the left, one place at a time: 2^n.
ShiftedOne[n \in Nat] == IF n = 0 THEN 1 ELSE 2 * ShiftedOne[n - 1]

MaxWord == ShiftedOne[WordBits] - 1
Word    == 0 .. MaxWord

SaturatingPred(n) == IF n = 0 THEN 0 ELSE n - 1

-----------------------------------------------------------------------------
(* A plausible error in the arithmetic; only a mutated run uses it.        *)

\* wrapping_mul
ProductWrapped(x, y) == (x * y) % ShiftedOne[WordBits]
-----------------------------------------------------------------------------

\* 1_u64.checked_shl(retry_number.saturating_sub(1)).unwrap_or(u64::MAX)
Multiplier(retryNumber) ==
    LET distance == SaturatingPred(retryNumber)
    IN  IF distance < WordBits THEN ShiftedOne[distance] ELSE MaxWord

\* u64::saturating_mul
Product(x, y) == IF x * y > MaxWord THEN MaxWord ELSE x * y

\* The sleep before retry number retryNumber (counted from 1), in milliseconds.
RetryDelay(initial, maximum, retryNumber) ==
    LET millis == Product(initial, Multiplier(retryNumber))
    IN  IF millis <= maximum THEN millis ELSE maximum
=============================================================================
