--------------------------- MODULE AuditRecorder ---------------------------
(***************************************************************************)
(* The asynchronous audit recorder of audit/audit.go: callers of           *)
(* RecordAsync, the pool that runs its tasks, the three queue-full         *)
(* policies, the INSERTs into audit_logs with their timeouts, and Close.   *)
(* Every event is given to RecordAsync at most once.                       *)
(***************************************************************************)
EXTENDS WorkerPool

CONSTANT Policies   \* values of Config.QueueFullPolicy to start with

VARIABLES
  policy,     \* queueFullPolicy
  call,       \* where the RecordAsync call of each event stands
  rows,       \* events with a row in audit_logs
  attempts,   \* how many times Record ran for each event
  logged,     \* events whose asynchronous failure was logged
  closing     \* where Close stands

auditVars == <<policy, call, rows, attempts, logged, closing>>
vars      == <<poolVars, auditVars>>

Calls == {"new", "blocked", "fallback", "accepted", "refused"}

AuditTypeOK ==
  /\ PoolTypeOK
  /\ policy \in Policies
  /\ call \in [Tasks -> Calls]
  /\ rows \in SUBSET Tasks
  /\ attempts \in [Tasks -> Nat]
  /\ logged \in SUBSET Tasks
  /\ closing \in {"open", "draining", "closed"}

Init ==
  /\ PoolInit
  /\ policy \in Policies
  /\ call = [e \in Tasks |-> "new"]
  /\ rows = {}
  /\ attempts = [e \in Tasks |-> 0]
  /\ logged = {}
  /\ closing = "open"

Return(e, answer) == call' = [call EXCEPT ![e] = answer]

-----------------------------------------------------------------------------
(* RecordAsync *)

(* Mutant: the policy's fallback runs for a task that was accepted. *)
SubmitAcceptedFallsThrough(e) ==
  /\ call[e] = "new"
  /\ Enqueue(e)
  /\ Return(e, "fallback")
  /\ UNCHANGED <<policy, rows, attempts, logged, closing>>

(* pool.Submit takes the task. *)
SubmitAccepted(e) ==
  /\ call[e] = "new"
  /\ Enqueue(e)
  /\ Return(e, "accepted")
  /\ UNCHANGED <<policy, rows, attempts, logged, closing>>

(* pool.Submit fails because the pool is stopped: no policy applies. *)
SubmitStopped(e) ==
  /\ call[e] = "new"
  /\ stopping
  /\ Return(e, "refused")
  /\ UNCHANGED <<poolVars, policy, rows, attempts, logged, closing>>

(* Mutant: DROP returns nil. *)
SubmitFullSilent(e) ==
  /\ call[e] = "new"
  /\ ~stopping
  /\ QueueFull
  /\ Return(e, CASE policy = "FALLBACK_SYNC" -> "fallback"
                 [] policy = "BLOCK" -> "blocked"
                 [] OTHER -> "accepted")
  /\ UNCHANGED <<poolVars, policy, rows, attempts, logged, closing>>

(* ErrQueueFull: the policy decides; DROP and unknown policies return it. *)
SubmitFull(e) ==
  /\ call[e] = "new"
  /\ ~stopping
  /\ QueueFull
  /\ Return(e, CASE policy = "FALLBACK_SYNC" -> "fallback"
                 [] policy = "BLOCK" -> "blocked"
                 [] OTHER -> "refused")
  /\ UNCHANGED <<poolVars, policy, rows, attempts, logged, closing>>

(* pool.SubmitContext finds room, or gives up after 10 seconds or when the *)
(* pool stops.                                                             *)
BlockedAccepted(e) ==
  /\ call[e] = "blocked"
  /\ Enqueue(e)
  /\ Return(e, "accepted")
  /\ UNCHANGED <<policy, rows, attempts, logged, closing>>

(* Mutant: the wait does not end when the pool stops. *)
BlockedSleepsOn(e) ==
  /\ call[e] = "blocked"
  /\ ~stopping
  /\ Return(e, "refused")
  /\ UNCHANGED <<poolVars, policy, rows, attempts, logged, closing>>

BlockedGivesUp(e) ==
  /\ call[e] = "blocked"
  /\ Return(e, "refused")
  /\ UNCHANGED <<poolVars, policy, rows, attempts, logged, closing>>

(* Record inserts the row or not; an error may come back either way, for   *)
(* the context can expire while the statement commits.                     *)
Record(e, failed) ==
  /\ attempts' = [attempts EXCEPT ![e] = @ + 1]
  /\ \/ rows' = rows \cup {e}
     \/ failed /\ UNCHANGED rows

FallbackRecord(e) ==
  /\ call[e] = "fallback"
  /\ \E failed \in BOOLEAN :
       /\ Record(e, failed)
       /\ Return(e, IF failed THEN "refused" ELSE "accepted")
  /\ UNCHANGED <<poolVars, policy, logged, closing>>

-----------------------------------------------------------------------------
(* The pool's goroutines run the tasks; an error is logged, no more. *)

StartTask(g) == Take(g) /\ UNCHANGED auditVars

(* Mutant: an error of the task is not logged. *)
RunTaskSilent(g) ==
  /\ Finish(g)
  /\ \E failed \in BOOLEAN : Record(running[g], failed)
  /\ UNCHANGED <<policy, call, logged, closing>>

(* Mutant: the event is read after the goroutine let go of it. *)
RunTaskTooLate(g) ==
  /\ Finish(g)
  /\ \E failed \in BOOLEAN :
       /\ Record(running'[g], failed)
       /\ logged' = IF failed THEN logged \cup {running'[g]} ELSE logged
  /\ UNCHANGED <<policy, call, closing>>

RunTask(g) ==
  /\ Finish(g)
  /\ \E failed \in BOOLEAN :
       /\ Record(running[g], failed)
       /\ logged' = IF failed THEN logged \cup {running[g]} ELSE logged
  /\ UNCHANGED <<policy, call, closing>>

-----------------------------------------------------------------------------
(* Close is StopWait: it stops accepting and waits for the pool. *)

CloseBegin ==
  /\ closing = "open"
  /\ StopAccepting
  /\ closing' = "draining"
  /\ UNCHANGED <<policy, call, rows, attempts, logged>>

(* Mutant: Stop for StopWait. *)
CloseEndUndrained ==
  /\ closing = "draining"
  /\ closing' = "closed"
  /\ UNCHANGED <<poolVars, policy, call, rows, attempts, logged>>

CloseEnd ==
  /\ closing = "draining"
  /\ Drained
  /\ closing' = "closed"
  /\ UNCHANGED <<poolVars, policy, call, rows, attempts, logged>>

Caller(e) ==
  \/ SubmitAccepted(e) \/ SubmitStopped(e) \/ SubmitFull(e)
  \/ BlockedAccepted(e) \/ BlockedGivesUp(e) \/ FallbackRecord(e)

Next ==
  \/ \E e \in Tasks : Caller(e)
  \/ \E g \in Goroutines : StartTask(g) \/ RunTask(g)
  \/ CloseBegin
  \/ CloseEnd

Spec == Init /\ [][Next]_vars

(* A call that began returns, its waits and statements all being bounded   *)
(* by contexts; the goroutines of the pool keep running.                   *)
Fairness ==
  /\ \A e \in Tasks : WF_vars(call[e] # "new" /\ Caller(e))
  /\ \A g \in Goroutines : WF_vars(StartTask(g)) /\ WF_vars(RunTask(g))
  /\ WF_vars(CloseEnd)

FairSpec == Spec /\ Fairness

-----------------------------------------------------------------------------

(* The answer of RecordAsync is true, also when Close or a full queue came *)
(* in between: an event it accepted never vanishes silently, it is in the  *)
(* table, or waiting for a goroutine, or its failure is in the log; an     *)
(* event it refused is not on its way, so the caller may try again.        *)
AcceptedAccountedFor ==
  \A e \in Tasks :
    /\ call[e] = "accepted" => e \in rows \/ e \in logged \/ Pending(e)
    /\ call[e] = "refused"  => ~Pending(e)

(* No event is written twice: the fallback never runs for an event the     *)
(* pool took.                                                              *)
WrittenOnce ==
  \A e \in Tasks : /\ attempts[e] <= 1
                   /\ Pending(e) => attempts[e] = 0

(* "Close gracefully drains": once it has returned, no accepted event is   *)
(* unwritten but for those whose failure was logged, and nothing is left   *)
(* in the pool.                                                            *)
CloseDrains ==
  closing = "closed" =>
    \A e \in Tasks : /\ ~Pending(e)
                     /\ call[e] = "accepted" => e \in rows \/ e \in logged

(* RecordAsync returns, under every policy and whenever Close begins, and  *)
(* Close returns whatever was queued or blocked: neither waits for the     *)
(* other for ever.                                                         *)
CallsReturn ==
  /\ \A e \in Tasks : call[e] # "new" ~> call[e] \in {"accepted", "refused"}
  /\ closing = "draining" ~> closing = "closed"

(* What RecordAsync accepted is written or its failure logged, although    *)
(* Close may begin while it is still queued.                               *)
AcceptedSettles ==
  \A e \in Tasks : call[e] = "accepted" ~> e \in rows \/ e \in logged

=============================================================================
