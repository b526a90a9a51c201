------------------------------ MODULE Backoff ------------------------------
(***************************************************************************)
(* BackoffWithJitter of outbox/retry.go.  Durations are signed integers of *)
(* a fixed width, 64 bits in the program; MaxInt is the largest of them    *)
(* and stands for math.MaxInt64, MaxShift for the 30 the attempt is        *)
(* clamped to.                                                             *)
(***************************************************************************)
EXTENDS Integers

CONSTANTS MaxInt, MaxShift

(* 1 << MaxShift is itself an int64. *)
ASSUME BackoffAssumption ==
  /\ MaxInt \in Nat \ {0}
  /\ MaxShift \in Nat
  /\ 2 ^ MaxShift <= MaxInt

(* What the product of two durations is after it wraps around. *)
Wrapped(x) == ((x + MaxInt + 1) % (2 * MaxInt + 2)) - MaxInt - 1

(* The exponent used for an attempt. *)
Shift(attempt) ==
  IF attempt < 0 THEN 0 ELSE IF attempt > MaxShift THEN MaxShift ELSE attempt

(* Mutant: the product is not checked for overflow. *)
ScaledWrapping(attempt, base) == Wrapped(base * 2 ^ Shift(attempt))

(* baseDelay * 2^attempt, or the largest duration. *)
Scaled(attempt, base) ==
  IF 2 ^ Shift(attempt) > MaxInt \div base
    THEN MaxInt
    ELSE Wrapped(base * 2 ^ Shift(attempt))

Ceiling(attempt, base, maxDelay) ==
  LET scaled == Scaled(attempt, base)
  IN  IF maxDelay > 0 /\ scaled > maxDelay THEN maxDelay ELSE scaled

(* The largest delay BackoffWithJitter may return; it returns any from 0   *)
(* to this one.  rand.Int64N(ceiling + 1) would overflow for the largest   *)
(* duration, which is left out then.                                       *)
LongestBackoff(attempt, base, maxDelay) ==
  LET ceiling == Ceiling(attempt, base, maxDelay)
  IN  IF base <= 0 \/ ceiling <= 0 THEN 0
      ELSE IF ceiling = MaxInt THEN MaxInt - 1
      ELSE ceiling

(* A maxDelay of the largest duration is as good as none.                  *)
Limit(maxDelay) == IF maxDelay \in 1 .. MaxInt - 1 THEN maxDelay ELSE MaxInt - 1

(* What the comment of BackoffWithJitter says, in unbounded arithmetic.    *)
Documented(attempt, base, maxDelay) ==
  LET product == base * 2 ^ attempt
  IN  IF product < Limit(maxDelay) THEN product ELSE Limit(maxDelay)

(* The clamp of the attempt makes no difference: the attempt is below it,  *)
(* or the largest power it allows exceeds the maximum anyway.              *)
ClampIdle(attempt, base, maxDelay) ==
  attempt <= MaxShift \/ base * 2 ^ MaxShift >= Limit(maxDelay)

=============================================================================
