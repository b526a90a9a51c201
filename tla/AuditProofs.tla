---------------------------- MODULE AuditProofs ----------------------------
(* Proofs about AuditRecorder, for every number of events and goroutines,  *)
(* every queue size and every set of policies.                             *)
EXTENDS AuditRecorder, PoolProofs

-----------------------------------------------------------------------------
(* The inductive invariant.  A task of the pool is an event whose call     *)
(* returned nil and whose row was never tried; a call that has not         *)
(* returned has tried nothing; and the pool of a closed recorder is        *)
(* drained for good.                                                       *)

PoolHasAccepted ==
  \A e \in Tasks : Pending(e) => call[e] = "accepted" /\ attempts[e] = 0

UnansweredUntried ==
  \A e \in Tasks : /\ call[e] \in {"new", "blocked", "fallback"} => attempts[e] = 0
                   /\ attempts[e] <= 1

AcceptedNotLost ==
  \A e \in Tasks :
    call[e] = "accepted" => e \in rows \/ e \in logged \/ Pending(e)

ClosedStaysDrained ==
  /\ closing # "open" => stopping
  /\ closing = "closed" => Drained

AuditInv ==
  /\ EnqueuedOnce
  /\ PoolHasAccepted
  /\ UnansweredUntried
  /\ AcceptedNotLost
  /\ ClosedStaysDrained

-----------------------------------------------------------------------------

(* A recorder that has just been made. *)
LEMMA AuditStart == Init => AuditTypeOK /\ AuditInv
<1> SUFFICES ASSUME Init PROVE AuditTypeOK /\ AuditInv
  OBVIOUS
<1>1. PoolTypeOK /\ EnqueuedOnce /\ \A e \in Tasks : ~Pending(e)
  BY PoolStart DEF Init
<1>2. AuditTypeOK
  BY <1>1 DEF Init, AuditTypeOK, Calls
<1>3. AuditInv
  BY <1>1 DEF Init, AuditInv, PoolHasAccepted, UnansweredUntried,
              AcceptedNotLost, ClosedStaysDrained
<1>4. QED
  BY <1>2, <1>3

(* The pool takes the event of a call that has not returned, now or after  *)
(* a wait: the call returns nil.                                           *)
LEMMA AcceptKeeps ==
  ASSUME AuditTypeOK, AuditInv, NEW e \in Tasks,
         SubmitAccepted(e) \/ BlockedAccepted(e)
  PROVE  AuditTypeOK' /\ AuditInv'
<1>1. /\ call[e] \in {"new", "blocked"}
      /\ Enqueue(e)
      /\ call' = [call EXCEPT ![e] = "accepted"]
      /\ UNCHANGED <<policy, rows, attempts, logged, closing>>
  BY DEF SubmitAccepted, BlockedAccepted, Return
<1>2. ~Pending(e)
  BY <1>1 DEF AuditInv, PoolHasAccepted
<1>3. /\ PoolTypeOK'
      /\ EnqueuedOnce'
      /\ \A u \in Tasks : Pending(u)' <=> Pending(u) \/ u = e
      /\ UNCHANGED <<running, stopping>>
      /\ ~stopping
  BY <1>1, <1>2, EnqueueEffect DEF AuditTypeOK, AuditInv
<1>4. AuditTypeOK'
  BY <1>1, <1>3 DEF AuditTypeOK, Calls
<1>5. PoolHasAccepted' /\ UnansweredUntried' /\ AcceptedNotLost'
  BY <1>1, <1>3 DEF AuditTypeOK, AuditInv, PoolHasAccepted, UnansweredUntried,
                    AcceptedNotLost
<1>6. ClosedStaysDrained'
  BY <1>1, <1>3 DEF AuditInv, ClosedStaysDrained
<1>7. QED
  BY <1>3, <1>4, <1>5, <1>6 DEF AuditInv

(* The call is refused, or goes on to wait or to write the row itself: the *)
(* pool is not touched.                                                    *)
LEMMA DeclineKeeps ==
  ASSUME AuditTypeOK, AuditInv, NEW e \in Tasks,
         SubmitStopped(e) \/ SubmitFull(e) \/ BlockedGivesUp(e)
  PROVE  AuditTypeOK' /\ AuditInv'
<1>1. PICK answer \in {"fallback", "blocked", "refused"} :
        call' = [call EXCEPT ![e] = answer]
  BY DEF SubmitStopped, SubmitFull, BlockedGivesUp, Return
<1>2. /\ call[e] \in {"new", "blocked"}
      /\ UNCHANGED <<poolVars, policy, rows, attempts, logged, closing>>
  BY DEF SubmitStopped, SubmitFull, BlockedGivesUp
<1>3. /\ PoolTypeOK'
      /\ EnqueuedOnce'
      /\ \A u \in Tasks : Pending(u)' <=> Pending(u)
      /\ UNCHANGED stopping
      /\ Drained' <=> Drained
  BY <1>2, PoolStutter DEF AuditTypeOK, AuditInv
<1>4. AuditTypeOK'
  BY <1>1, <1>2, <1>3 DEF AuditTypeOK, Calls
<1>5. PoolHasAccepted' /\ UnansweredUntried' /\ AcceptedNotLost'
  BY <1>1, <1>2, <1>3 DEF AuditTypeOK, AuditInv, PoolHasAccepted,
                          UnansweredUntried, AcceptedNotLost
<1>6. ClosedStaysDrained'
  BY <1>2, <1>3 DEF AuditInv, ClosedStaysDrained
<1>7. QED
  BY <1>3, <1>4, <1>5, <1>6 DEF AuditInv

(* The caller writes the row itself: the pool never had the event. *)
LEMMA FallbackKeeps ==
  ASSUME AuditTypeOK, AuditInv, NEW e \in Tasks, FallbackRecord(e)
  PROVE  AuditTypeOK' /\ AuditInv'
<1>1. PICK failed \in BOOLEAN :
        /\ Record(e, failed)
        /\ call' = [call EXCEPT ![e] = IF failed THEN "refused" ELSE "accepted"]
  BY DEF FallbackRecord, Return
<1>2. /\ call[e] = "fallback"
      /\ UNCHANGED <<poolVars, policy, logged, closing>>
  BY DEF FallbackRecord
<1>3. /\ PoolTypeOK'
      /\ EnqueuedOnce'
      /\ \A u \in Tasks : Pending(u)' <=> Pending(u)
      /\ UNCHANGED stopping
      /\ Drained' <=> Drained
  BY <1>2, PoolStutter DEF AuditTypeOK, AuditInv
<1>4. /\ rows \subseteq rows'
      /\ rows' \in SUBSET Tasks
      /\ ~failed => e \in rows'
      /\ attempts' \in [Tasks -> Nat]
      /\ attempts'[e] = 1
      /\ \A u \in Tasks \ {e} : attempts'[u] = attempts[u]
  BY <1>1, <1>2 DEF Record, AuditTypeOK, AuditInv, UnansweredUntried
<1>5. AuditTypeOK'
  BY <1>1, <1>2, <1>3, <1>4 DEF AuditTypeOK, Calls
<1>6. PoolHasAccepted' /\ UnansweredUntried' /\ AcceptedNotLost'
  BY <1>1, <1>2, <1>3, <1>4
  DEF AuditTypeOK, AuditInv, PoolHasAccepted, UnansweredUntried, AcceptedNotLost
<1>7. ClosedStaysDrained'
  BY <1>2, <1>3 DEF AuditInv, ClosedStaysDrained
<1>8. QED
  BY <1>3, <1>5, <1>6, <1>7 DEF AuditInv

(* A goroutine takes a task: the same events are pending. *)
LEMMA StartTaskKeeps ==
  ASSUME AuditTypeOK, AuditInv, NEW g \in Goroutines, StartTask(g)
  PROVE  AuditTypeOK' /\ AuditInv'
<1>1. UNCHANGED <<policy, call, rows, attempts, logged, closing>>
  BY DEF StartTask, auditVars
<1>2. /\ PoolTypeOK'
      /\ EnqueuedOnce'
      /\ \A u \in Tasks : Pending(u)' <=> Pending(u)
      /\ UNCHANGED stopping
      /\ ~Drained
  BY TakeEffect DEF StartTask, AuditTypeOK, AuditInv
<1>3. QED
  BY <1>1, <1>2 DEF AuditTypeOK, AuditInv, PoolHasAccepted, UnansweredUntried,
                    AcceptedNotLost, ClosedStaysDrained

(* The task writes its event's row or its failure to the log, once. *)
LEMMA RunTaskKeeps ==
  ASSUME AuditTypeOK, AuditInv, NEW g \in Goroutines, RunTask(g)
  PROVE  AuditTypeOK' /\ AuditInv'
<1>1. PICK failed \in BOOLEAN :
        /\ Record(running[g], failed)
        /\ logged' = IF failed THEN logged \cup {running[g]} ELSE logged
  BY DEF RunTask
<1>2. UNCHANGED <<policy, call, closing>>
  BY DEF RunTask
<1>3. /\ PoolTypeOK'
      /\ EnqueuedOnce'
      /\ running[g] \in Tasks
      /\ InFlight(running[g])
      /\ \A u \in Tasks : Pending(u)' <=> Pending(u) /\ u # running[g]
      /\ UNCHANGED <<queue, stopping>>
      /\ ~Drained
  BY FinishEffect DEF RunTask, AuditTypeOK, AuditInv
<1>4. PICK e \in Tasks : e = running[g]
  BY <1>3
<1>5. call[e] = "accepted" /\ attempts[e] = 0
  BY <1>3, <1>4 DEF AuditInv, PoolHasAccepted, Pending
<1>6. /\ rows \subseteq rows'
      /\ rows' \in SUBSET Tasks
      /\ logged \subseteq logged'
      /\ logged' \in SUBSET Tasks
      /\ e \in rows' \cup logged'
      /\ attempts' \in [Tasks -> Nat]
      /\ attempts'[e] = 1
      /\ \A u \in Tasks \ {e} : attempts'[u] = attempts[u]
  BY <1>1, <1>4, <1>5 DEF Record, AuditTypeOK
<1>7. AuditTypeOK'
  BY <1>2, <1>3, <1>6 DEF AuditTypeOK
<1>8. PoolHasAccepted' /\ UnansweredUntried' /\ AcceptedNotLost'
  BY <1>2, <1>3, <1>4, <1>5, <1>6
  DEF AuditInv, PoolHasAccepted, UnansweredUntried, AcceptedNotLost
<1>9. ClosedStaysDrained'
  BY <1>2, <1>3 DEF AuditInv, ClosedStaysDrained
<1>10. QED
  BY <1>3, <1>7, <1>8, <1>9 DEF AuditInv

(* Close first refuses new tasks; it returns on a drained pool. *)
LEMMA CloseKeeps ==
  ASSUME AuditTypeOK, AuditInv, CloseBegin \/ CloseEnd
  PROVE  AuditTypeOK' /\ AuditInv'
<1>1. /\ PoolTypeOK'
      /\ EnqueuedOnce'
      /\ \A u \in Tasks : Pending(u)' <=> Pending(u)
      /\ UNCHANGED <<queue, running>>
      /\ stopping \/ CloseBegin => stopping'
  BY StopAcceptingEffect, PoolStutter
  DEF CloseBegin, CloseEnd, AuditTypeOK, AuditInv, poolVars
<1>2. UNCHANGED <<policy, call, rows, attempts, logged>>
  BY DEF CloseBegin, CloseEnd
<1>3. closing' \in {"open", "draining", "closed"} /\ ClosedStaysDrained'
  BY <1>1 DEF CloseBegin, CloseEnd, AuditInv, ClosedStaysDrained, Drained
<1>4. QED
  BY <1>1, <1>2, <1>3 DEF AuditTypeOK, AuditInv, PoolHasAccepted,
                          UnansweredUntried, AcceptedNotLost

(* Every step of the recorder keeps its type and the invariant. *)
LEMMA AuditStep == AuditTypeOK /\ AuditInv /\ [Next]_vars => AuditTypeOK' /\ AuditInv'
<1> SUFFICES ASSUME AuditTypeOK, AuditInv, [Next]_vars
             PROVE  AuditTypeOK' /\ AuditInv'
  OBVIOUS
<1>1. CASE \E e \in Tasks : Caller(e)
  BY <1>1, AcceptKeeps, DeclineKeeps, FallbackKeeps DEF Caller
<1>2. CASE \E g \in Goroutines : StartTask(g) \/ RunTask(g)
  BY <1>2, StartTaskKeeps, RunTaskKeeps
<1>3. CASE CloseBegin \/ CloseEnd
  BY <1>3, CloseKeeps
<1>4. CASE UNCHANGED vars
  <2>1. UNCHANGED <<poolVars, policy, call, rows, attempts, logged, closing>>
    BY <1>4 DEF vars, auditVars
  <2>2. /\ PoolTypeOK'
        /\ EnqueuedOnce'
        /\ \A u \in Tasks : Pending(u)' <=> Pending(u)
        /\ UNCHANGED stopping
        /\ Drained' <=> Drained
    BY <2>1, PoolStutter DEF AuditTypeOK, AuditInv
  <2>3. QED
    BY <2>1, <2>2 DEF AuditTypeOK, AuditInv, PoolHasAccepted, UnansweredUntried,
                      AcceptedNotLost, ClosedStaysDrained
<1>5. QED
  BY <1>1, <1>2, <1>3, <1>4 DEF Next

(* The recorder's variables keep their types, and its invariant holds. *)
THEOREM AuditInvariant == Spec => [](AuditTypeOK /\ AuditInv)
  BY AuditStart, AuditStep, PTL DEF Spec

-----------------------------------------------------------------------------

(* Every variable of the recorder and of its pool keeps its type, and the  *)
(* queue never outgrows Config.QueueSize.                                  *)
THEOREM AuditTypeCorrect == Spec => []AuditTypeOK
  BY AuditInvariant, PTL

(* RecordAsync's answer is true: an accepted event is in the table, on its *)
(* way or in the log, and a refused one is not on its way.                 *)
THEOREM AnswersAreTrue == Spec => []AcceptedAccountedFor
<1>1. AuditInv => AcceptedAccountedFor
  BY DEF AuditInv, AcceptedNotLost, PoolHasAccepted, AcceptedAccountedFor
<1>2. QED
  BY <1>1, AuditInvariant, PTL

(* Record runs at most once for an event, whichever way it went.           *)
THEOREM NeverWrittenTwice == Spec => []WrittenOnce
<1>1. AuditInv => WrittenOnce
  BY DEF AuditInv, UnansweredUntried, PoolHasAccepted, WrittenOnce
<1>2. QED
  BY <1>1, AuditInvariant, PTL

(* When Close has returned, the pool is empty and what was accepted is     *)
(* written or its failure logged.                                          *)
THEOREM CloseLeavesNothing == Spec => []CloseDrains
<1>1. AuditTypeOK /\ AuditInv => CloseDrains
  BY DrainedHasNone DEF AuditTypeOK, AuditInv, ClosedStaysDrained,
                        AcceptedNotLost, CloseDrains
<1>2. QED
  BY <1>1, AuditInvariant, PTL

=============================================================================
