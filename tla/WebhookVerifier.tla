-------------------------- MODULE WebhookVerifier --------------------------
(***************************************************************************)
(* Verify of notifications/webhook.go: which signed requests a receiver    *)
(* accepts, and when.  Time counts ticks, TicksPerSecond to the second.    *)
(* The HMAC is the pair of the secret and the timestamp it was computed    *)
(* with; two timestamps are the same string if they are the same record.   *)
(* Durations are signed integers of a fixed width, 64 bits in the program. *)
(***************************************************************************)
EXTENDS Integers

CONSTANTS
  TicksPerSecond,
  Tolerance,        \* of the verifier, in ticks
  MaxDuration,      \* the largest duration, 292 years in the program
  Secret            \* of the verifier

NoSecret == "none"

ASSUME WebhookAssumption ==
  /\ TicksPerSecond \in Nat \ {0}
  /\ Tolerance \in Nat \ {0}
  /\ MaxDuration \in Nat
  /\ Tolerance < MaxDuration
  /\ Secret # NoSecret

NoTime == [format |-> "empty", at |-> 0]
Junk   == [format |-> "junk", at |-> 0]

(* A moment as a header carries it: only milliseconds keep the fraction. *)
Stamp(format, t) ==
  [format |-> format, at |-> IF format = "millis" THEN t ELSE t - (t % TicksPerSecond)]

(* A request: the timestamp header, the t= part of the signature, the form *)
(* of the signature, and what the HMAC was computed with.                  *)
Request(header, tag, form, key, signed) ==
  [header |-> header, tag |-> tag, form |-> form, key |-> key, signed |-> signed]

(* parseTaggedSignature: t= counts when there is no timestamp header. *)
Carried(q) ==
  IF q.form = "tagged" /\ q.header = NoTime THEN q.tag ELSE q.header

Shortest == -MaxDuration - 1

(* time.Since saturates. *)
Since(ts, now) ==
  LET d == now - ts.at
  IN  IF d > MaxDuration THEN MaxDuration ELSE IF d < Shortest THEN Shortest ELSE d

(* The negation of the shortest duration overflows to itself. *)
Negated(d) == IF d = Shortest THEN d ELSE -d

(* Mutant: a timestamp ahead of the clock is never stale. *)
StaleBehind(ts, now) == Since(ts, now) > Tolerance

Stale(ts, now) ==
  LET d == Since(ts, now) IN (IF d < 0 THEN Negated(d) ELSE d) > Tolerance

Verify(q, now) ==
  CASE q.form = "none" -> "invalid_signature"
    [] Carried(q) = NoTime -> "missing_timestamp"
    [] Carried(q).format = "junk" -> "invalid_timestamp"
    [] Stale(Carried(q), now) -> "expired"
    [] q.key # Secret \/ q.signed # Carried(q) -> "invalid_signature"
    [] OTHER -> "ok"

=============================================================================
