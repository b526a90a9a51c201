------------------------------ MODULE MCOutbox ------------------------------
(* Instances of Outbox for TLC. *)
EXTENDS Outbox, TLC

(* Two events: one may be tried twice, the other once. *)
TwoEvents   == {"a", "b"}
CreationOrder == [e \in TwoEvents |-> IF e = "a" THEN 1 ELSE 2]
FewRetries  == [e \in TwoEvents |-> IF e = "a" THEN 2 ELSE 1]

OneEvent       == {"a"}
OneCreation    == [e \in OneEvent |-> 1]
OneRetries     == [e \in OneEvent |-> 2]

NoSkew == [w \in Workers |-> 0]

(* Every worker's clock is behind. *)
AllLate == [w \in Workers |-> -2]

(* One worker whose clock is right, the others' clocks are behind. *)
Lagging ==
  LET exact == CHOOSE w \in Workers : TRUE
  IN  [w \in Workers |-> IF w = exact THEN 0 ELSE -1]

Symmetric == Permutations(Workers) \cup Permutations(Tokens)

=============================================================================
