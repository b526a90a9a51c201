--------------------------- MODULE EventLifecycle ---------------------------
(***************************************************************************)
(* What the outbox promises of one event, as docs/adr/0001 draws it: the   *)
(* state machine PENDING, PROCESSING, PUBLISHED, DEAD_LETTER, together     *)
(* with what publishers answered and how often the retry budget was        *)
(* charged.  There are no workers, leases, tokens or clocks here; Outbox   *)
(* implements this specification.                                          *)
(***************************************************************************)
EXTENDS Integers

CONSTANTS
  Events,      \* events that may be inserted
  MaxRetries   \* attempts granted to each event, in [Events -> Nat]

VARIABLES
  state,       \* ABSENT, PENDING, PROCESSING, PUBLISHED or DEAD_LETTER
  charged,     \* how many failed attempts its retry budget was charged
  accepted,    \* events some publisher accepted
  refused      \* events some publisher called non-retryable

lifecycleVars == <<state, charged, accepted, refused>>

LifecycleInit ==
  /\ state = [e \in Events |-> "ABSENT"]
  /\ charged = [e \in Events |-> 0]
  /\ accepted = {}
  /\ refused = {}

Move(e, from, to) ==
  /\ state[e] = from
  /\ state' = [state EXCEPT ![e] = to]

Insertion(e) ==
  /\ Move(e, "ABSENT", "PENDING")
  /\ UNCHANGED <<charged, accepted, refused>>

(* One fetch leases a whole batch; a lapsed lease taken over is no step.    *)
Leasing(es) ==
  /\ \A e \in es : state[e] = "PENDING"
  /\ state' = [e \in Events |-> IF e \in es THEN "PROCESSING" ELSE state[e]]
  /\ UNCHANGED <<charged, accepted, refused>>

(* A publisher answers, possibly a worker whose lease lapsed long ago.      *)
Accepting(e) ==
  /\ state[e] # "ABSENT"
  /\ accepted' = accepted \cup {e}
  /\ UNCHANGED <<state, charged, refused>>

Refusing(e) ==
  /\ state[e] # "ABSENT"
  /\ refused' = refused \cup {e}
  /\ UNCHANGED <<state, charged, accepted>>

(* Broker ACK received. *)
Publication(e) ==
  /\ e \in accepted
  /\ Move(e, "PROCESSING", "PUBLISHED")
  /\ UNCHANGED <<charged, accepted, refused>>

Charge(e) == charged' = [charged EXCEPT ![e] = @ + 1]

(* Transient error: the budget is charged and not yet used up. *)
Postponement(e) ==
  /\ charged[e] + 1 < MaxRetries[e]
  /\ Charge(e)
  /\ Move(e, "PROCESSING", "PENDING")
  /\ UNCHANGED <<accepted, refused>>

(* max_retries exceeded or poison pill. *)
Quarantine(e) ==
  /\ e \in refused \/ charged[e] + 1 >= MaxRetries[e]
  /\ Charge(e)
  /\ Move(e, "PROCESSING", "DEAD_LETTER")
  /\ UNCHANGED <<accepted, refused>>

LifecycleNext ==
  \/ \E es \in SUBSET Events : Leasing(es)
  \/ \E e \in Events :
       \/ Insertion(e) \/ Accepting(e) \/ Refusing(e)
       \/ Publication(e) \/ Postponement(e) \/ Quarantine(e)

LifecycleSpec == LifecycleInit /\ [][LifecycleNext]_lifecycleVars

=============================================================================
