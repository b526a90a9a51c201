---------------------------- MODULE OutboxProofs ----------------------------
(* Proofs about Outbox, for every number of events, workers and tokens and *)
(* every batch size, lease, timeout, skew and retry budget.                *)
EXTENDS Outbox, FiniteSetTheorems, TLAPS

-----------------------------------------------------------------------------
(* Type correctness *)

(* What a budget is set to, and what the clock makes of it. *)
LEMMA BudgetsType ==
  /\ 0 \in Budgets /\ PublishTimeout \in Budgets /\ StatementTime \in Budgets
  /\ \A b \in Budgets : b \in Nat /\ Floor(b - 1, 0) \in Budgets
  BY OutboxAssumption DEF ConfigValid, Budgets, Floor

(* A worker's budget is a time. *)
LEMMA BudgetType ==
  ASSUME TypeOK, NEW w \in Workers
  PROVE  budget[w] \in Nat
<1>1. budget[w] \in Budgets
  BY DEF TypeOK
<1>2. QED
  BY <1>1, BudgetsType

(* Release leaves the worker's variables well typed. *)
LEMMA ReleaseType ==
  ASSUME TypeOK, NEW w \in Workers, Release(w)
  PROVE  /\ batch' \in [Workers -> SUBSET Events]
         /\ current' \in [Workers -> Events \cup {NoEvent}]
         /\ held' \in [Workers -> [Events -> Tokens \cup {NoToken}]]
         /\ seen' \in [Workers -> [Events -> Nat]]
         /\ left' \in [Workers -> Lapsed .. Lease]
         /\ budget' \in [Workers -> Budgets]
  BY OutboxAssumption, BudgetsType DEF ConfigValid, TypeOK, Release, Lapsed

(* So does forgetting one event of the batch. *)
LEMMA ForgetType ==
  ASSUME TypeOK, NEW w \in Workers, NEW e \in Events, Forget(w, e)
  PROVE  /\ held' \in [Workers -> [Events -> Tokens \cup {NoToken}]]
         /\ seen' \in [Workers -> [Events -> Nat]]
  BY DEF TypeOK, Forget

(* A retry is never scheduled in the past. *)
LEMMA DelaysType ==
  ASSUME NEW w \in Workers
  PROVE  RetryDelays(w) \subseteq Nat
<1>1. Skew[w] \in Int
  BY OutboxAssumption
<1>2. ASSUME NEW d \in 0 .. LongestDelay(w)
      PROVE  Floor(d + Skew[w], 0) \in Nat
  <2>1. d \in Int
    OBVIOUS
  <2>2. QED
    BY <1>1, <2>1 DEF Floor
<1>3. QED
  BY <1>2 DEF RetryDelays

(* The empty table is well typed. *)
LEMMA TypeInit == Init => TypeOK
  BY OutboxAssumption, BudgetsType
  DEF ConfigValid, Init, TypeOK, Statuses, Live, Terminal, PCs, Lapsed

(* Every step keeps every variable in its type; a worker that settles an   *)
(* event is handling one, which takes WorkerOK.                            *)
LEMMA TypeStep == TypeOK /\ WorkerOK /\ [Next]_vars => TypeOK'
<1> SUFFICES ASSUME TypeOK, WorkerOK, [Next]_vars PROVE TypeOK'
  OBVIOUS
<1> USE OutboxAssumption DEF ConfigValid
<1>1. CASE \E e \in Events : Insert(e)
  BY <1>1 DEF Insert, TypeOK, workerVars, history, Statuses, Live
<1>2. CASE Tick
  <2>1. budget' \in [Workers -> Budgets]
    BY <1>2, BudgetsType DEF Tick, TypeOK
  <2>2. QED
    BY <1>2, <2>1 DEF Tick, TypeOK, history, Floor, Lapsed
<1>3. ASSUME NEW w \in Workers, FetchLock(w) PROVE TypeOK'
  BY <1>3, BudgetsType DEF FetchLock, Batches, Fetchable, TypeOK, rowVars, history, Goto, PCs, Lapsed
<1>4. ASSUME NEW w \in Workers, FetchCommit(w) PROVE TypeOK'
  BY <1>4 DEF FetchCommit, LeaseRows, TypeOK, history, Goto, PCs, Statuses, Live
<1>5. ASSUME NEW w \in Workers, FetchLost(w) PROVE TypeOK'
  BY <1>5, ReleaseType DEF FetchLost, LeaseRows, TypeOK, history, Goto, PCs, Statuses, Live, Unanswered, Fault
<1>6. ASSUME NEW w \in Workers, FetchFails(w) PROVE TypeOK'
  BY <1>6, ReleaseType DEF FetchFails, TypeOK, rowVars, history, Goto, PCs, Unanswered, Fault
<1>7. ASSUME NEW w \in Workers, Skip(w) PROVE TypeOK'
  BY <1>7, ForgetType DEF Skip, TypeOK, rowVars, history
<1>8. ASSUME NEW w \in Workers, BeginPublish(w) PROVE TypeOK'
  BY <1>8, BudgetsType DEF BeginPublish, TypeOK, rowVars, history, Goto, PCs
<1>9. ASSUME NEW w \in Workers, EndBatch(w) PROVE TypeOK'
  BY <1>9, ReleaseType DEF EndBatch, TypeOK, rowVars, history, Goto, PCs
<1>10. ASSUME NEW w \in Workers, PublishAck(w) PROVE TypeOK'
  BY <1>10, BudgetsType DEF PublishAck, WorkerOK, Handling, TypeOK, rowVars, Goto, PCs
<1>11. ASSUME NEW w \in Workers, PublishFail(w) PROVE TypeOK'
  <2>1. current[w] \in Events
    BY <1>11 DEF PublishFail, WorkerOK, Handling
  <2>2. nacks' \in [Events -> Nat] /\ poisoned' \in SUBSET Events
    BY <1>11, <2>1 DEF PublishFail, TypeOK
  <2>3. pc' \in [Workers -> PCs] /\ budget' \in [Workers -> Budgets]
    <3>1. \E label \in PCs : Goto(w, label)
      BY <1>11 DEF PublishFail, PCs
    <3>2. budget' = [budget EXCEPT ![w] = StatementTime]
      BY <1>11 DEF PublishFail
    <3>3. QED
      BY <3>1, <3>2, BudgetsType DEF Goto, TypeOK
  <2>4. QED
    BY <1>11, <2>2, <2>3 DEF PublishFail, TypeOK, rowVars
<1>12. ASSUME NEW w \in Workers, MarkPublished(w) PROVE TypeOK'
  <2>1. current[w] \in Events
    BY <1>12 DEF MarkPublished, WorkerOK, Handling
  <2>2. QED
    BY <1>12, <2>1, ForgetType
    DEF MarkPublished, SetPublished, Proceed, TypeOK, history, Goto, PCs,
        Statuses, Terminal, Lapsed
<1>13. ASSUME NEW w \in Workers, MarkPublishedFenced(w) PROVE TypeOK'
  BY <1>13, ReleaseType
  DEF MarkPublishedFenced, Abandon, TypeOK, rowVars, history, Goto, PCs
<1>14. ASSUME NEW w \in Workers, MarkPublishedFails(w) PROVE TypeOK'
  <2>1. current[w] \in Events
    BY <1>14 DEF MarkPublishedFails, WorkerOK, Handling
  <2>2. QED
    <3>1. Abandon(w) /\ faults' \in 0 .. MaxFaults
      BY <1>14 DEF MarkPublishedFails, Unanswered, Fault, TypeOK
    <3>2. CASE SetPublished(current[w])
      BY <2>1, <3>1, <3>2, ReleaseType
      DEF SetPublished, Abandon, TypeOK, history, Goto, PCs, Statuses, Terminal, Lapsed
    <3>3. CASE UNCHANGED rowVars
      BY <3>1, <3>3, ReleaseType DEF Abandon, TypeOK, rowVars, history, Goto, PCs
    <3>4. QED
      BY <1>14, <3>2, <3>3 DEF MarkPublishedFails
<1>15. ASSUME NEW w \in Workers, MarkFailed(w) PROVE TypeOK'
  <2>1. current[w] \in Events
    BY <1>15 DEF MarkFailed, WorkerOK, Handling
  <2>2. QED
    BY <1>15, <2>1, ForgetType, DelaysType
    DEF MarkFailed, SetFailed, Proceed, TypeOK, history, Goto, PCs,
        Statuses, Live, Terminal, Lapsed
<1>16. ASSUME NEW w \in Workers, MarkFailedFenced(w) PROVE TypeOK'
  <2>1. current[w] \in Events
    BY <1>16 DEF MarkFailedFenced, WorkerOK, Handling
  <2>2. QED
    BY <1>16, <2>1, ForgetType
    DEF MarkFailedFenced, Proceed, TypeOK, rowVars, history, Goto, PCs
<1>17. ASSUME NEW w \in Workers, MarkFailedFails(w) PROVE TypeOK'
  <2>1. current[w] \in Events
    BY <1>17 DEF MarkFailedFails, WorkerOK, Handling
  <2>2. QED
    <3>1. Proceed(w) /\ faults' \in 0 .. MaxFaults
      BY <1>17 DEF MarkFailedFails, Unanswered, Fault, TypeOK
    <3>2. CASE SetFailed(current[w], FinalFail(w), RetryDelays(w))
      BY <2>1, <3>1, <3>2, ForgetType, DelaysType
      DEF SetFailed, Proceed, TypeOK, history, Goto, PCs, Statuses, Live,
          Terminal, Lapsed
    <3>3. CASE UNCHANGED rowVars
      BY <2>1, <3>1, <3>3, ForgetType DEF Proceed, TypeOK, rowVars, history, Goto, PCs
    <3>4. QED
      BY <1>17, <3>2, <3>3 DEF MarkFailedFails
<1>18. ASSUME NEW w \in Workers, Cancel(w) PROVE TypeOK'
  BY <1>18 DEF Cancel, Fault, TypeOK, rowVars, workerVars, history
<1>19. ASSUME NEW w \in Workers, Leave(w) \/ Restart(w) PROVE TypeOK'
  BY <1>19 DEF Leave, Restart, TypeOK, rowVars, history, Goto, PCs
<1>20. ASSUME NEW w \in Workers, Crash(w) PROVE TypeOK'
  BY <1>20, ReleaseType DEF Crash, Fault, TypeOK, rowVars, history, Goto, PCs
<1>21. CASE UNCHANGED vars
  BY <1>21 DEF vars, rowVars, workerVars, history, TypeOK
<1>22. QED
  BY <1>1, <1>2, <1>3, <1>4, <1>5, <1>6, <1>7, <1>8, <1>9, <1>10, <1>11, <1>12,
     <1>13, <1>14, <1>15, <1>16, <1>17, <1>18, <1>19, <1>20, <1>21
  DEF Next, Fetching, Looping, Publishing, Settling, Stopping

-----------------------------------------------------------------------------
(* The lease protocol: LeaseInv is inductive.  One lemma per operation;    *)
(* under it, the parts of LeaseInv the operation can disturb.              *)

(* There is no lease to begin with. *)
LEMMA LeaseInit == Init => LeaseInv
  BY DEF Init, LeaseInv, WorkerOK, TokensOK, FetchesOK, BatchLeased, NackPending,
         SnapshotCurrent, PublishedWasAcked, RetryBudgetKept, HoldsLease,
         Handling, Lapsed, Live, Terminal

(* The new row has no token and an untouched budget. *)
LEMMA InsertKeeps ==
  ASSUME TypeOK, LeaseInv, NEW e \in Events, Insert(e)
  PROVE  LeaseInv'
<1> USE OutboxAssumption DEF ConfigValid
<1>1. /\ WorkerOK'
      /\ TokensOK'
      /\ FetchesOK'
      /\ PublishedWasAcked'
      /\ RetryBudgetKept'
  BY DEF LeaseInv, WorkerOK, TokensOK, FetchesOK, PublishedWasAcked,
         RetryBudgetKept, Insert, workerVars, history, Live, Terminal
<1>2. BatchLeased' /\ NackPending' /\ SnapshotCurrent'
  BY DEF LeaseInv, BatchLeased, NackPending, SnapshotCurrent, HoldsLease,
         TypeOK, Insert, workerVars, history
<1>3. QED
  BY <1>1, <1>2 DEF LeaseInv

(* A worker's copy of the lease ages with the row. *)
LEMMA TickKeeps ==
  ASSUME TypeOK, LeaseInv, Tick
  PROVE  LeaseInv'
<1> USE OutboxAssumption DEF ConfigValid
<1>1. WorkerOK' /\ TokensOK' /\ PublishedWasAcked' /\ RetryBudgetKept'
  BY DEF LeaseInv, WorkerOK, TokensOK, PublishedWasAcked, RetryBudgetKept,
         Tick, history
<1>2. FetchesOK'
  BY DEF LeaseInv, FetchesOK, TypeOK, Tick, Floor, Lapsed
<1>3. BatchLeased' /\ NackPending' /\ SnapshotCurrent'
  BY DEF LeaseInv, BatchLeased, NackPending, SnapshotCurrent, HoldsLease,
         TypeOK, Tick, history, Floor, Lapsed
<1>4. QED
  BY <1>1, <1>2, <1>3 DEF LeaseInv

(* SKIP LOCKED keeps the locked sets apart. *)
LEMMA FetchLockKeeps ==
  ASSUME TypeOK, LeaseInv, NEW w \in Workers, FetchLock(w)
  PROVE  LeaseInv'
<1> USE OutboxAssumption DEF ConfigValid
<1>1. WorkerOK'
  BY DEF LeaseInv, WorkerOK, Handling, TypeOK, FetchLock, history, Goto
<1>2. TokensOK' /\ PublishedWasAcked' /\ RetryBudgetKept'
  BY DEF LeaseInv, TokensOK, PublishedWasAcked, RetryBudgetKept, FetchLock,
         rowVars, history
<1>3. FetchesOK'
  BY DEF LeaseInv, FetchesOK, Handling, HoldsLease, TokensOK, TypeOK,
         WorkerOK, FetchLock, Batches, Fetchable, RowLocked, rowVars, Goto,
         Live
<1>4. BatchLeased' /\ NackPending'
  BY DEF LeaseInv, BatchLeased, NackPending, HoldsLease, TypeOK, FetchLock,
         rowVars, history, Goto
<1>5. SnapshotCurrent'
  BY DEF LeaseInv, SnapshotCurrent, Handling, HoldsLease, TypeOK, WorkerOK,
         FetchLock, rowVars
<1>6. QED
  BY <1>1, <1>2, <1>3, <1>4, <1>5 DEF LeaseInv

(* Leasing rows does not touch their budget, and settled rows are not leased. *)
LEMMA LeaseRowsBudget ==
  ASSUME TypeOK, LeaseInv, NEW w \in Workers, NEW tokens, LeaseRows(w, tokens)
  PROVE  RetryBudgetKept'
<1>1. \A e \in Events :
        \/ status'[e] = status[e]
        \/ status'[e] = "PROCESSING" /\ status[e] \in Live
  <2>1. \A e \in batch[w] : status[e] \in Live
    BY DEF LeaseRows, LeaseInv, FetchesOK
  <2>2. status' = [e \in Events |-> IF e \in batch[w] THEN "PROCESSING" ELSE status[e]]
    BY DEF LeaseRows
  <2>3. QED
    BY <2>1, <2>2
<1>2. UNCHANGED <<retries, nacks, poisoned>>
  BY DEF LeaseRows, history
<1>3. QED
  BY <1>1, <1>2 DEF LeaseInv, RetryBudgetKept, Live, Terminal

(* The tokens are fresh, so the former holders of the rows lose them. *)
LEMMA FetchCommitKeeps ==
  ASSUME TypeOK, LeaseInv, NEW w \in Workers, FetchCommit(w)
  PROVE  LeaseInv'
<1> USE OutboxAssumption DEF ConfigValid
<1>1. WorkerOK'
  BY DEF LeaseInv, WorkerOK, Handling, TypeOK, FetchCommit, LeaseRows,
         history, Goto
<1>2. TokensOK' /\ PublishedWasAcked'
  BY DEF LeaseInv, TokensOK, PublishedWasAcked, FetchCommit, LeaseRows,
         InUse, history
<1>3. FetchesOK'
  BY DEF LeaseInv, FetchesOK, TypeOK, FetchCommit, LeaseRows, Goto
<1>4. BatchLeased'
  BY DEF LeaseInv, BatchLeased, FetchesOK, HoldsLease, SnapshotCurrent,
         TokensOK, TypeOK, WorkerOK, FetchCommit, LeaseRows, Goto
<1>5. NackPending'
  BY DEF LeaseInv, NackPending, Handling, HoldsLease, TypeOK, WorkerOK,
         FetchCommit, LeaseRows, InUse, history, Goto
<1>6. SnapshotCurrent'
  BY DEF LeaseInv, SnapshotCurrent, HoldsLease, TypeOK, FetchCommit,
         LeaseRows, InUse
<1>7. RetryBudgetKept'
  BY LeaseRowsBudget DEF FetchCommit
<1>8. QED
  BY <1>1, <1>2, <1>3, <1>4, <1>5, <1>6, <1>7 DEF LeaseInv

(* So they do when the answer never arrives. *)
LEMMA FetchLostKeeps ==
  ASSUME TypeOK, LeaseInv, NEW w \in Workers, FetchLost(w)
  PROVE  LeaseInv'
<1> USE OutboxAssumption DEF ConfigValid
<1>1. WorkerOK'
  BY DEF LeaseInv, WorkerOK, Handling, TypeOK, FetchLost, LeaseRows,
         Release, history, Goto
<1>2. TokensOK' /\ PublishedWasAcked'
  BY DEF LeaseInv, TokensOK, PublishedWasAcked, FetchLost, LeaseRows,
         Release, history
<1>3. FetchesOK'
  BY DEF LeaseInv, FetchesOK, TypeOK, FetchLost, LeaseRows, Release, Goto
<1>4. BatchLeased'
  BY DEF LeaseInv, BatchLeased, FetchesOK, HoldsLease, SnapshotCurrent,
         TokensOK, TypeOK, WorkerOK, FetchLost, LeaseRows, Release, Goto
<1>5. NackPending'
  BY DEF LeaseInv, NackPending, Handling, HoldsLease, TypeOK, WorkerOK,
         FetchLost, LeaseRows, InUse, Release, history, Goto
<1>6. SnapshotCurrent'
  BY DEF LeaseInv, SnapshotCurrent, HoldsLease, TypeOK, FetchLost,
         LeaseRows, InUse, Release
<1>7. RetryBudgetKept'
  BY LeaseRowsBudget DEF FetchLost
<1>8. QED
  BY <1>1, <1>2, <1>3, <1>4, <1>5, <1>6, <1>7 DEF LeaseInv

(* A worker that drops its batch holds nothing. *)
LEMMA ReleaseKeeps ==
  ASSUME TypeOK, LeaseInv, NEW w \in Workers, Release(w), Goto(w, "idle") \/ Goto(w, "stopped"),
         UNCHANGED <<rowVars, history>>
  PROVE  LeaseInv'
<1> USE OutboxAssumption DEF ConfigValid
<1>1. WorkerOK'
  BY DEF LeaseInv, WorkerOK, Handling, TypeOK, Release, history, Goto
<1>2. TokensOK' /\ PublishedWasAcked' /\ RetryBudgetKept'
  BY DEF LeaseInv, TokensOK, PublishedWasAcked, RetryBudgetKept, Release,
         rowVars, history
<1>3. FetchesOK'
  BY DEF LeaseInv, FetchesOK, TypeOK, Release, rowVars, Goto
<1>4. BatchLeased' /\ NackPending' /\ SnapshotCurrent'
  BY DEF LeaseInv, BatchLeased, NackPending, SnapshotCurrent, HoldsLease,
         TypeOK, Release, rowVars, history, Goto
<1>5. QED
  BY <1>1, <1>2, <1>3, <1>4 DEF LeaseInv

(* Skipping an event forgets its token. *)
LEMMA SkipKeeps ==
  ASSUME TypeOK, LeaseInv, NEW w \in Workers, Skip(w)
  PROVE  LeaseInv'
<1> USE OutboxAssumption DEF ConfigValid
<1>1. /\ WorkerOK'
      /\ TokensOK'
      /\ FetchesOK'
      /\ PublishedWasAcked'
      /\ RetryBudgetKept'
  BY DEF LeaseInv, WorkerOK, TokensOK, FetchesOK, PublishedWasAcked,
         RetryBudgetKept, Skip, Forget, rowVars, history
<1>2. BatchLeased' /\ NackPending' /\ SnapshotCurrent'
  BY DEF LeaseInv, BatchLeased, NackPending, SnapshotCurrent, HoldsLease,
         TypeOK, Skip, Forget, rowVars, history
<1>3. QED
  BY <1>1, <1>2 DEF LeaseInv

(* The event moves from the batch to the worker's hands. *)
LEMMA BeginPublishKeeps ==
  ASSUME TypeOK, LeaseInv, NEW w \in Workers, BeginPublish(w)
  PROVE  LeaseInv'
<1> USE OutboxAssumption DEF ConfigValid
<1>1. WorkerOK'
  BY DEF LeaseInv, WorkerOK, TypeOK, BeginPublish, history, Goto
<1>2. TokensOK' /\ FetchesOK' /\ PublishedWasAcked' /\ RetryBudgetKept'
  BY DEF LeaseInv, TokensOK, FetchesOK, PublishedWasAcked, RetryBudgetKept,
         BeginPublish, rowVars, history, Goto
<1>3. BatchLeased' /\ NackPending' /\ SnapshotCurrent'
  BY DEF LeaseInv, BatchLeased, NackPending, SnapshotCurrent, HoldsLease,
         TypeOK, BeginPublish, rowVars, history, Goto
<1>4. QED
  BY <1>1, <1>2, <1>3 DEF LeaseInv

(* The publisher accepts. *)
LEMMA PublishAckKeeps ==
  ASSUME TypeOK, LeaseInv, NEW w \in Workers, PublishAck(w)
  PROVE  LeaseInv'
<1> USE OutboxAssumption DEF ConfigValid
<1>1. WorkerOK'
  BY DEF LeaseInv, WorkerOK, Handling, TypeOK, PublishAck, Goto
<1>2. TokensOK' /\ FetchesOK' /\ PublishedWasAcked' /\ RetryBudgetKept'
  BY DEF LeaseInv, TokensOK, FetchesOK, PublishedWasAcked, RetryBudgetKept,
         PublishAck, rowVars, Goto
<1>3. BatchLeased' /\ NackPending' /\ SnapshotCurrent'
  BY DEF LeaseInv, BatchLeased, NackPending, SnapshotCurrent, HoldsLease,
         TypeOK, PublishAck, rowVars, Goto
<1>4. QED
  BY <1>1, <1>2, <1>3 DEF LeaseInv

(* The publisher refuses: if the worker still holds the lease, the count   *)
(* of refusals gets ahead of the count of the row.                         *)
LEMMA PublishFailKeeps ==
  ASSUME TypeOK, LeaseInv, NEW w \in Workers, PublishFail(w)
  PROVE  LeaseInv'
<1> USE OutboxAssumption DEF ConfigValid
<1>1. PICK label \in {"nacked", "poisoned"} : Goto(w, label)
  BY DEF PublishFail
<1>2. pc[w] = "publishing" /\ UNCHANGED <<rowVars, batch, current, held, left>>
  BY DEF PublishFail
<1>3. FetchesOK'
  BY <1>1, <1>2 DEF LeaseInv, FetchesOK, Goto, TypeOK, rowVars
<1>4. NackPending'
  <2>1. current[w] \in Events
    BY DEF PublishFail, LeaseInv, WorkerOK, Handling
  <2>2. \A e \in Events : nacks'[e] >= nacks[e]
    BY <2>1 DEF PublishFail, TypeOK
  <2>3. HoldsLease(w, current[w]) => retries[current[w]] < nacks'[current[w]]
    <3>1. SUFFICES ASSUME HoldsLease(w, current[w])
                   PROVE  retries[current[w]] < nacks'[current[w]]
      OBVIOUS
    <3>2. status[current[w]] = "PROCESSING"
      BY <2>1, <3>1 DEF LeaseInv, SnapshotCurrent
    <3>3. /\ retries[current[w]] <= nacks[current[w]]
          /\ retries[current[w]] = 0 \/ retries[current[w]] < MaxRetries[current[w]]
      BY <2>1, <3>2 DEF LeaseInv, RetryBudgetKept, Terminal
    <3>4. nacks'[current[w]] = IF nacks[current[w]] > MaxRetries[current[w]] THEN nacks[current[w]] ELSE nacks[current[w]] + 1
      BY <2>1 DEF PublishFail, TypeOK
    <3>5. QED
      BY <2>1, <3>3, <3>4 DEF TypeOK
  <2>4. ASSUME NEW v \in Workers, pc'[v] \in {"nacked", "poisoned"},
               HoldsLease(v, current[v])'
        PROVE  retries'[current'[v]] < nacks'[current'[v]]
    <3>1. CASE v = w
      BY <1>2, <2>3, <2>4, <3>1 DEF HoldsLease, rowVars
    <3>2. CASE v # w
      <4>1. pc[v] \in {"nacked", "poisoned"} /\ HoldsLease(v, current[v])
        BY <1>1, <1>2, <2>4, <3>2 DEF Goto, TypeOK, HoldsLease, rowVars
      <4>2. current[v] \in Events /\ retries[current[v]] < nacks[current[v]]
        BY <4>1 DEF LeaseInv, NackPending, WorkerOK, Handling
      <4>3. nacks'[current[v]] \in Nat
        BY <2>1, <4>2 DEF PublishFail, TypeOK
      <4>4. QED
        BY <1>2, <2>2, <4>2, <4>3 DEF rowVars, TypeOK
    <3>3. QED
      BY <3>1, <3>2
  <2>5. QED
    BY <2>4 DEF NackPending
<1>5. WorkerOK'
  BY DEF LeaseInv, WorkerOK, Handling, TypeOK, PublishFail, Goto
<1>6. TokensOK' /\ PublishedWasAcked'
  BY DEF LeaseInv, TokensOK, PublishedWasAcked, PublishFail, rowVars
<1>7. SnapshotCurrent'
  BY DEF LeaseInv, SnapshotCurrent, HoldsLease, TypeOK, PublishFail,
         rowVars
<1>8. RetryBudgetKept'
  BY DEF LeaseInv, RetryBudgetKept, TypeOK, PublishFail, rowVars
<1>9. BatchLeased'
  BY <1>1, <1>2 DEF LeaseInv, BatchLeased, HoldsLease, TypeOK, rowVars, Goto
<1>10. QED
  BY <1>3, <1>4, <1>5, <1>6, <1>7, <1>8, <1>9 DEF LeaseInv

(* The lease holder settles the row and goes on. *)
LEMMA SetPublishedKeeps ==
  ASSUME TypeOK, LeaseInv, NEW w \in Workers, pc[w] = "acked", ~RowLocked(current[w]),
         HoldsLease(w, current[w]), SetPublished(current[w]), Proceed(w)
  PROVE  LeaseInv'
<1> USE OutboxAssumption DEF ConfigValid
<1>1. WorkerOK'
  BY DEF LeaseInv, WorkerOK, Handling, TypeOK, Proceed, Forget, history,
         Goto
<1>2. TokensOK'
  BY DEF LeaseInv, TokensOK, TypeOK, SetPublished, Proceed, Forget
<1>3. FetchesOK' /\ RetryBudgetKept'
  BY DEF LeaseInv, FetchesOK, RetryBudgetKept, RowLocked, SetPublished,
         Proceed, history, Goto, Terminal
<1>4. BatchLeased'
  BY DEF LeaseInv, BatchLeased, Handling, HoldsLease, TokensOK, TypeOK,
         WorkerOK, SetPublished, Proceed, Forget, Goto
<1>5. NackPending' /\ SnapshotCurrent'
  BY DEF LeaseInv, NackPending, SnapshotCurrent, HoldsLease, TypeOK,
         SetPublished, Proceed, Forget, history, Goto
<1>6. PublishedWasAcked'
  BY DEF LeaseInv, PublishedWasAcked, Handling, HoldsLease, TypeOK,
         WorkerOK, SetPublished, Proceed, history
<1>7. QED
  BY <1>1, <1>2, <1>3, <1>4, <1>5, <1>6 DEF LeaseInv

(* It settles the row, but sees an error and abandons its batch. *)
LEMMA SetPublishedAbandonKeeps ==
  ASSUME TypeOK, LeaseInv, NEW w \in Workers, pc[w] = "acked", ~RowLocked(current[w]),
         HoldsLease(w, current[w]), SetPublished(current[w]), Abandon(w)
  PROVE  LeaseInv'
<1> USE OutboxAssumption DEF ConfigValid
<1>1. WorkerOK'
  BY DEF LeaseInv, WorkerOK, Handling, TypeOK, Abandon, Release, history,
         Goto
<1>2. TokensOK'
  BY DEF LeaseInv, TokensOK, TypeOK, SetPublished, Abandon, Release
<1>3. FetchesOK' /\ RetryBudgetKept'
  BY DEF LeaseInv, FetchesOK, RetryBudgetKept, RowLocked, SetPublished,
         Abandon, Release, history, Goto, Terminal
<1>4. BatchLeased'
  BY DEF LeaseInv, BatchLeased, Handling, HoldsLease, TokensOK, TypeOK,
         WorkerOK, SetPublished, Abandon, Release, Goto
<1>5. NackPending' /\ SnapshotCurrent'
  BY DEF LeaseInv, NackPending, SnapshotCurrent, HoldsLease, TypeOK,
         SetPublished, Abandon, Release, history, Goto
<1>6. PublishedWasAcked'
  BY DEF LeaseInv, PublishedWasAcked, Handling, HoldsLease, TypeOK,
         WorkerOK, SetPublished, Abandon, history
<1>7. QED
  BY <1>1, <1>2, <1>3, <1>4, <1>5, <1>6 DEF LeaseInv

(* The decision for the dead letter, taken on the worker's copy of the     *)
(* retry count, is right for the row.                                      *)
LEMMA SetFailedBudget ==
  ASSUME TypeOK, LeaseInv, NEW w \in Workers, pc[w] \in {"nacked", "poisoned"},
         HoldsLease(w, current[w]), SetFailed(current[w], FinalFail(w), RetryDelays(w)), Proceed(w)
  PROVE  RetryBudgetKept'
<1> USE OutboxAssumption DEF ConfigValid
<1> DEFINE e == current[w]
<1>1. e \in Events /\ status[e] = "PROCESSING" /\ seen[w][e] = retries[e]
  BY DEF LeaseInv, WorkerOK, SnapshotCurrent, Handling
<1>2. retries[e] < nacks[e]
  BY DEF LeaseInv, NackPending
<1>3. /\ retries' = [retries EXCEPT ![e] = @ + 1]
      /\ status' = [status EXCEPT ![e] = IF FinalFail(w) THEN "DEAD_LETTER" ELSE "PENDING"]
      /\ UNCHANGED history
  BY DEF SetFailed, Proceed
<1>4. FinalFail(w) => e \in poisoned \/ retries[e] + 1 >= MaxRetries[e]
  BY <1>1 DEF FinalFail, LeaseInv, WorkerOK
<1>5. ~FinalFail(w) => retries[e] + 1 < MaxRetries[e]
  BY <1>1 DEF FinalFail, TypeOK
<1>6. ASSUME NEW f \in Events
      PROVE  /\ retries'[f] <= nacks'[f]
             /\ status'[f] = "DEAD_LETTER" => f \in poisoned' \/ retries'[f] >= MaxRetries[f]
             /\ status'[f] \notin Terminal => retries'[f] = 0 \/ retries'[f] < MaxRetries[f]
  <2>1. CASE f = e
    BY <1>1, <1>2, <1>3, <1>4, <1>5, <2>1 DEF TypeOK, history, Terminal
  <2>2. CASE f # e
    BY <1>3, <2>2 DEF TypeOK, history, LeaseInv, RetryBudgetKept
  <2>3. QED
    BY <2>1, <2>2
<1>7. QED
  BY <1>6 DEF RetryBudgetKept

(* The lease holder writes the failure down. *)
LEMMA SetFailedKeeps ==
  ASSUME TypeOK, LeaseInv, NEW w \in Workers, pc[w] \in {"nacked", "poisoned"},
         ~RowLocked(current[w]), HoldsLease(w, current[w]),
         SetFailed(current[w], FinalFail(w), RetryDelays(w)), Proceed(w)
  PROVE  LeaseInv'
<1> USE OutboxAssumption DEF ConfigValid
<1>1. WorkerOK'
  BY DEF LeaseInv, WorkerOK, Handling, TypeOK, Proceed, Forget, history,
         Goto
<1>2. TokensOK'
  BY DEF LeaseInv, TokensOK, TypeOK, SetFailed, Proceed, Forget
<1>3. FetchesOK' /\ PublishedWasAcked'
  BY DEF LeaseInv, FetchesOK, PublishedWasAcked, RowLocked, SetFailed,
         Proceed, history, Goto
<1>4. BatchLeased'
  BY DEF LeaseInv, BatchLeased, Handling, HoldsLease, TokensOK, TypeOK,
         WorkerOK, SetFailed, Proceed, Forget, Goto
<1>5. NackPending' /\ SnapshotCurrent'
  BY DEF LeaseInv, NackPending, SnapshotCurrent, HoldsLease, TypeOK,
         SetFailed, Proceed, Forget, history, Goto
<1>6. RetryBudgetKept'
  BY SetFailedBudget
<1>7. QED
  BY <1>1, <1>2, <1>3, <1>4, <1>5, <1>6 DEF LeaseInv

(* Its statement is fenced or fails: the row is unchanged. *)
LEMMA ProceedKeeps ==
  ASSUME TypeOK, LeaseInv, NEW w \in Workers, pc[w] \in {"nacked", "poisoned"},
         UNCHANGED rowVars, Proceed(w)
  PROVE  LeaseInv'
<1> USE OutboxAssumption DEF ConfigValid
<1>1. WorkerOK'
  BY DEF LeaseInv, WorkerOK, Handling, TypeOK, Proceed, Forget, history,
         Goto
<1>2. TokensOK' /\ FetchesOK' /\ PublishedWasAcked' /\ RetryBudgetKept'
  BY DEF LeaseInv, TokensOK, FetchesOK, PublishedWasAcked, RetryBudgetKept,
         rowVars, Proceed, Forget, history, Goto
<1>3. BatchLeased'
  BY DEF LeaseInv, BatchLeased, Handling, HoldsLease, TypeOK, WorkerOK,
         rowVars, Proceed, Forget, Goto
<1>4. NackPending' /\ SnapshotCurrent'
  BY DEF LeaseInv, NackPending, SnapshotCurrent, HoldsLease, TypeOK,
         rowVars, Proceed, Forget, history, Goto
<1>5. QED
  BY <1>1, <1>2, <1>3, <1>4 DEF LeaseInv

(* A worker without a batch stops or starts. *)
LEMMA MoveKeeps ==
  ASSUME TypeOK, LeaseInv, NEW w \in Workers, pc[w] \in {"idle", "stopped"},
         Goto(w, "idle") \/ Goto(w, "stopped"),
         UNCHANGED <<rowVars, batch, current, held, seen, left, history>>
  PROVE  LeaseInv'
<1> USE OutboxAssumption DEF ConfigValid
<1>1. WorkerOK'
  BY DEF LeaseInv, WorkerOK, Handling, TypeOK, history, Goto
<1>2. BatchLeased' /\ NackPending' /\ SnapshotCurrent'
  BY DEF LeaseInv, BatchLeased, NackPending, SnapshotCurrent, HoldsLease,
         TypeOK, rowVars, history, Goto
<1>3. FetchesOK'
  BY DEF LeaseInv, FetchesOK, TypeOK, rowVars, Goto
<1>4. TokensOK' /\ PublishedWasAcked' /\ RetryBudgetKept'
  BY DEF LeaseInv, TokensOK, PublishedWasAcked, RetryBudgetKept, rowVars,
         history
<1>5. QED
  BY <1>1, <1>2, <1>3, <1>4 DEF LeaseInv

(* Every step keeps the lease protocol. *)
LEMMA LeaseStep == TypeOK /\ LeaseInv /\ [Next]_vars => LeaseInv'
<1> SUFFICES ASSUME TypeOK, LeaseInv, [Next]_vars PROVE LeaseInv'
  OBVIOUS
<1>1. ASSUME NEW e \in Events, Insert(e) PROVE LeaseInv'
  BY <1>1, InsertKeeps
<1>2. CASE Tick
  BY <1>2, TickKeeps
<1>3. ASSUME NEW w \in Workers, FetchLock(w) PROVE LeaseInv'
  BY <1>3, FetchLockKeeps
<1>4. ASSUME NEW w \in Workers, Fetching(w) PROVE LeaseInv'
  <2>1. CASE FetchFails(w)
    BY <2>1, ReleaseKeeps DEF FetchFails
  <2>2. QED
    BY <1>4, <2>1, FetchCommitKeeps, FetchLostKeeps DEF Fetching
<1>5. ASSUME NEW w \in Workers, Looping(w) PROVE LeaseInv'
  <2>1. CASE EndBatch(w)
    BY <2>1, ReleaseKeeps DEF EndBatch
  <2>2. QED
    BY <1>5, <2>1, SkipKeeps, BeginPublishKeeps DEF Looping
<1>6. ASSUME NEW w \in Workers, Publishing(w) PROVE LeaseInv'
  BY <1>6, PublishAckKeeps, PublishFailKeeps DEF Publishing
<1>7. ASSUME NEW w \in Workers, Settling(w) PROVE LeaseInv'
  <2>1. CASE MarkPublished(w)
    BY <2>1, SetPublishedKeeps DEF MarkPublished
  <2>2. CASE MarkPublishedFenced(w)
    BY <2>2, ReleaseKeeps DEF MarkPublishedFenced, Abandon
  <2>3. CASE MarkPublishedFails(w)
    <3>1. CASE UNCHANGED rowVars
      BY <2>3, <3>1, ReleaseKeeps DEF MarkPublishedFails, Abandon
    <3>2. QED
      BY <2>3, <3>1, SetPublishedAbandonKeeps DEF MarkPublishedFails
  <2>4. CASE MarkFailed(w)
    BY <2>4, SetFailedKeeps DEF MarkFailed
  <2>5. CASE MarkFailedFenced(w)
    BY <2>5, ProceedKeeps DEF MarkFailedFenced
  <2>6. CASE MarkFailedFails(w)
    BY <2>6, SetFailedKeeps, ProceedKeeps DEF MarkFailedFails
  <2>7. QED
    BY <1>7, <2>1, <2>2, <2>3, <2>4, <2>5, <2>6 DEF Settling
<1>8. ASSUME NEW w \in Workers, Stopping(w) PROVE LeaseInv'
  <2>1. CASE Cancel(w)
    BY <2>1
    DEF Cancel, rowVars, workerVars, history, LeaseInv, WorkerOK, TokensOK,
        FetchesOK, BatchLeased, NackPending, SnapshotCurrent,
        PublishedWasAcked, RetryBudgetKept, HoldsLease
  <2>2. CASE Leave(w)
    BY <2>2, MoveKeeps DEF Leave
  <2>3. CASE Crash(w)
    BY <2>3, ReleaseKeeps DEF Crash
  <2>4. CASE Restart(w)
    BY <2>4, MoveKeeps DEF Restart
  <2>5. QED
    BY <1>8, <2>1, <2>2, <2>3, <2>4 DEF Stopping
<1>9. CASE UNCHANGED vars
  BY <1>9
  DEF vars, rowVars, workerVars, history, LeaseInv, WorkerOK, TokensOK,
      FetchesOK, BatchLeased, NackPending, SnapshotCurrent,
      PublishedWasAcked, RetryBudgetKept, HoldsLease
<1>10. QED
  BY <1>1, <1>2, <1>3, <1>4, <1>5, <1>6, <1>7, <1>8, <1>9
  DEF Next, Fetching, Looping, Publishing, Settling, Stopping

-----------------------------------------------------------------------------
(* Theorems about the specification *)

(* The inductive invariant: every row, worker and lease of every behaviour *)
(* is typed and obeys the lease protocol of store.go and relay.go.         *)
THEOREM Invariance == Spec => [](TypeOK /\ LeaseInv)
<1>1. Init => TypeOK /\ LeaseInv
  BY TypeInit, LeaseInit
<1>2. TypeOK /\ LeaseInv /\ [Next]_vars => (TypeOK /\ LeaseInv)'
  BY TypeStep, LeaseStep DEF LeaseInv
<1>3. QED
  BY <1>1, <1>2, PTL DEF Spec

(* Type correctness of the outbox table and its workers. *)
THEOREM TypeCorrect == Spec => []TypeOK
  BY Invariance, PTL

(* Fencing: a row's lease never has two holders. *)
THEOREM FencingExcludes == Spec => []LeaseExclusive
<1>1. LeaseInv => LeaseExclusive
  BY DEF LeaseInv, TokensOK, LeaseExclusive, HoldsLease
<1>2. QED
  BY <1>1, Invariance, PTL

(* No event is marked PUBLISHED that no publisher accepted. *)
THEOREM NoLostEvent == Spec => []PublishedWasAcked
<1>1. LeaseInv => PublishedWasAcked
  BY DEF LeaseInv
<1>2. QED
  BY <1>1, Invariance, PTL

(* The retry budget is kept: no quarantine without a poison pill or an     *)
(* exhausted budget, and no charge without a failed dispatch.              *)
THEOREM BudgetKept == Spec => []RetryBudgetKept
<1>1. LeaseInv => RetryBudgetKept
  BY DEF LeaseInv
<1>2. QED
  BY <1>1, Invariance, PTL

(* What happens to a leased row in one step: it keeps its token, a fetch   *)
(* that locked it gives it a new one, or its holder settles it.            *)
LEMMA LeaseEnds ==
  ASSUME TypeOK, LeaseInv, [Next]_vars, NEW e \in Events
  PROVE  \/ UNCHANGED <<status[e], retries[e], leaseToken[e]>>
         \/ status[e] = "ABSENT"
         \/ \E w \in Workers : pc[w] = "fetching" /\ e \in batch[w]
         \/ \E w \in Workers : /\ HoldsLease(w, e)
                               /\ current[w] = e
                               /\ pc[w] # "publishing"
                               /\ leaseToken'[e] = NoToken
<1> USE DEF TypeOK
<1>1. ASSUME NEW f \in Events, Insert(f)
      PROVE  \/ UNCHANGED <<status[e], retries[e], leaseToken[e]>>
             \/ status[e] = "ABSENT"
  BY <1>1 DEF Insert
<1>2. ASSUME NEW w \in Workers, Fetching(w)
      PROVE  \/ UNCHANGED <<status[e], retries[e], leaseToken[e]>>
             \/ pc[w] = "fetching" /\ e \in batch[w]
  BY <1>2 DEF Fetching, FetchCommit, FetchLost, FetchFails, LeaseRows, rowVars
<1>3. ASSUME NEW w \in Workers, Settling(w)
      PROVE  \/ UNCHANGED <<status[e], retries[e], leaseToken[e]>>
             \/ /\ HoldsLease(w, e) /\ current[w] = e /\ pc[w] # "publishing"
                /\ leaseToken'[e] = NoToken
  <2>1. /\ pc[w] # "publishing"
        /\ \/ UNCHANGED rowVars
           \/ HoldsLease(w, current[w]) /\ SetPublished(current[w])
           \/ HoldsLease(w, current[w]) /\ SetFailed(current[w], FinalFail(w), RetryDelays(w))
    BY <1>3 DEF Settling, MarkPublished, MarkPublishedFenced, MarkPublishedFails,
                MarkFailed, MarkFailedFenced, MarkFailedFails
  <2>2. QED
    BY <2>1 DEF SetPublished, SetFailed, rowVars
<1>4. CASE \/ Tick
           \/ \E w \in Workers : FetchLock(w) \/ Looping(w) \/ Publishing(w) \/ Stopping(w)
           \/ UNCHANGED vars
  BY <1>4 DEF Tick, FetchLock, Looping, Skip, BeginPublish, EndBatch, Publishing,
              PublishAck, PublishFail, Stopping, Cancel, Leave, Crash, Restart,
              rowVars, vars
<1>5. QED
  BY <1>1, <1>2, <1>3, <1>4 DEF Next

(* PUBLISHED and DEAD_LETTER are final, whatever arrives late. *)
THEOREM TerminalIsFinal == Spec => TerminalAbsorbing
<1>1. TypeOK /\ LeaseInv /\ [Next]_vars =>
        [\A e \in Events : status[e] \in Terminal =>
           /\ status'[e] = status[e]
           /\ retries'[e] = retries[e]
           /\ leaseToken'[e] = leaseToken[e]]_vars
  <2>1. SUFFICES ASSUME TypeOK, LeaseInv, [Next]_vars,
                        NEW e \in Events, status[e] \in Terminal
                 PROVE  UNCHANGED <<status[e], retries[e], leaseToken[e]>>
    OBVIOUS
  <2>2. status[e] \notin Live /\ status[e] # "ABSENT"
    BY <2>1 DEF Terminal, Live
  <2>3. ~ \E w \in Workers : pc[w] = "fetching" /\ e \in batch[w]
    BY <2>1, <2>2 DEF LeaseInv, FetchesOK
  <2>4. ~ \E w \in Workers : HoldsLease(w, e)
    BY <2>1, <2>2 DEF LeaseInv, SnapshotCurrent, Live
  <2>5. QED
    BY <2>1, <2>2, <2>3, <2>4, LeaseEnds
<1>2. QED
  BY <1>1, Invariance, PTL DEF Spec, TerminalAbsorbing

(* A lease that has not lapsed is ended by its holder only. *)
THEOREM LeasesAreRespected == Spec => LeaseRespected
<1>1. TypeOK /\ LeaseInv /\ [Next]_vars =>
        [\A e \in Events : leaseToken[e] # NoToken /\ lockedFor[e] >= 0
                           /\ leaseToken'[e] # leaseToken[e] =>
           /\ leaseToken'[e] = NoToken
           /\ \E w \in Workers : HoldsLease(w, e) /\ current[w] = e]_vars
  <2>1. SUFFICES ASSUME TypeOK, LeaseInv, [Next]_vars, NEW e \in Events,
                        leaseToken[e] # NoToken, lockedFor[e] >= 0,
                        leaseToken'[e] # leaseToken[e]
                 PROVE  /\ leaseToken'[e] = NoToken
                        /\ \E w \in Workers : HoldsLease(w, e) /\ current[w] = e
    OBVIOUS
  <2>2. status[e] # "ABSENT"
    BY <2>1 DEF LeaseInv, TokensOK
  <2>3. ~ \E w \in Workers : pc[w] = "fetching" /\ e \in batch[w]
    <3>1. lockedFor[e] \in Int
      BY <2>1, OutboxAssumption DEF ConfigValid, TypeOK, Lapsed
    <3>2. QED
      BY <2>1, <3>1 DEF LeaseInv, FetchesOK
  <2>4. QED
    BY <2>1, <2>2, <2>3, LeaseEnds
<1>2. QED
  BY <1>1, Invariance, PTL DEF Spec, LeaseRespected

(* A worker dispatches only what it has leased, or what it had leased until *)
(* less than the lag of its clock ago.                                     *)
THEOREM DispatchIsLeased == Spec => DispatchHoldsLease
<1>1. TypeOK /\ LeaseInv /\ [Next]_vars =>
        [\A w \in Workers :
           pc[w] = "loop" /\ pc'[w] = "publishing" =>
             HoldsLease(w, current'[w]) \/ (left[w] < 0 /\ -left[w] < -Skew[w])]_vars
  <2>1. SUFFICES ASSUME TypeOK, LeaseInv, [Next]_vars, NEW w \in Workers,
                        pc[w] = "loop", pc'[w] = "publishing"
                 PROVE  HoldsLease(w, current'[w]) \/ (left[w] < 0 /\ -left[w] < -Skew[w])
    OBVIOUS
  <2>2. BeginPublish(w)
    <3> USE DEF TypeOK, Goto
    <3>1. ASSUME NEW v \in Workers, Fetching(v) \/ Settling(v) \/ Stopping(v)
          PROVE  pc'[w] # "publishing"
      BY <2>1, <3>1
      DEF Fetching, FetchCommit, FetchLost, FetchFails, Settling, MarkPublished,
          MarkPublishedFenced, MarkPublishedFails, MarkFailed, MarkFailedFenced,
          MarkFailedFails, Proceed, Abandon, Stopping, Cancel, Leave, Crash,
          Restart, workerVars
    <3>2. ASSUME NEW v \in Workers, FetchLock(v) \/ Publishing(v)
          PROVE  pc'[w] # "publishing"
      BY <2>1, <3>2 DEF FetchLock, Publishing, PublishAck, PublishFail
    <3>3. ASSUME NEW v \in Workers, Looping(v), v # w \/ ~BeginPublish(w)
          PROVE  pc'[w] # "publishing"
      BY <2>1, <3>3 DEF Looping, Skip, BeginPublish, EndBatch
    <3>4. CASE (\E e \in Events : Insert(e)) \/ Tick \/ UNCHANGED vars
      BY <2>1, <3>4 DEF Insert, Tick, vars, workerVars
    <3>5. QED
      BY <2>1, <3>1, <3>2, <3>3, <3>4 DEF Next
  <2>3. PICK e \in batch[w] : current' = [current EXCEPT ![w] = e]
    BY <2>2 DEF BeginPublish
  <2>4. current'[w] = e
    BY <2>1, <2>3 DEF TypeOK
  <2>5. left[w] \in Int /\ Skew[w] \in Int
    BY <2>1, OutboxAssumption DEF ConfigValid, TypeOK, Lapsed
  <2>6. -left[w] < -Skew[w]
    BY <2>1, <2>2, <2>5 DEF BeginPublish, LeaseSeen
  <2>7. QED
    BY <2>1, <2>3, <2>4, <2>5, <2>6 DEF LeaseInv, BatchLeased
<1>2. QED
  BY <1>1, Invariance, PTL DEF Spec, DispatchHoldsLease

-----------------------------------------------------------------------------
(* A lease that outlasts its batch.  LeaseCoversBatch is inductive on top  *)
(* of LeaseInv: what is left of the lease shrinks with the clock, which    *)
(* waits for no worker that has used up its time, and a worker only takes  *)
(* time that was set aside for its event.                                  *)

(* Time is set aside per event of a batch. *)
LEMMA TimeSetAside ==
  ASSUME IsFiniteSet(Events), NEW es \in SUBSET Events
  PROVE  /\ Cardinality(es) \in Nat
         /\ Cardinality(es) * EventTime \in Nat
         /\ Cardinality(es) <= BatchSize =>
              Cardinality(es) * EventTime <= BatchSize * EventTime
         /\ \A e \in es : Cardinality(es \ {e}) * EventTime =
                            Cardinality(es) * EventTime - EventTime
<1>1. IsFiniteSet(es)
  BY FS_Subset
<1>2. Cardinality(es) \in Nat
  BY <1>1, FS_CardinalityType
<1>3. EventTime \in Nat /\ BatchSize \in Nat
  BY OutboxAssumption DEF ConfigValid, EventTime
<1>4. ASSUME NEW e \in es
      PROVE  Cardinality(es \ {e}) = Cardinality(es) - 1
  BY <1>1, FS_RemoveElement
<1>5. \A n \in Nat : /\ n * EventTime \in Nat
                     /\ n <= BatchSize => n * EventTime <= BatchSize * EventTime
                     /\ (n - 1) * EventTime = n * EventTime - EventTime
  BY <1>3
<1>6. QED
  BY <1>2, <1>4, <1>5

(* The arithmetic of LeaseCoversBatch for one worker, whatever it holds. *)
TimeLeft(w) ==
  /\ pc[w] = "publishing" =>
       left[w] >= Cardinality(batch[w]) * EventTime + budget[w]
  /\ pc[w] \in {"fetching", "loop", "acked", "nacked", "poisoned"} =>
       left[w] + StatementTime >= Cardinality(batch[w]) * EventTime + budget[w]

(* A step of one worker leaves the others alone. *)
LEMMA OthersUntouched ==
  ASSUME TypeOK, NEW w \in Workers, NEW v \in Workers \ {w},
         \/ FetchLock(w) \/ Fetching(w) \/ Looping(w)
         \/ Publishing(w) \/ Settling(w) \/ Stopping(w)
  PROVE  UNCHANGED <<pc[v], batch[v], current[v], held[v], left[v], budget[v]>>
<1> USE DEF TypeOK, Goto, Release, Forget
<1>1. CASE FetchLock(w) \/ Looping(w) \/ Publishing(w)
  BY <1>1 DEF FetchLock, Looping, Skip, BeginPublish, EndBatch, Publishing,
              PublishAck, PublishFail
<1>2. CASE Fetching(w) \/ Stopping(w)
  BY <1>2 DEF Fetching, FetchCommit, FetchLost, FetchFails, Stopping, Cancel, Leave,
              Crash, Restart, workerVars
<1>3. CASE Settling(w)
  <2>1. Proceed(w) \/ Abandon(w)
    BY <1>3 DEF Settling, MarkPublished, MarkPublishedFenced, MarkPublishedFails,
                MarkFailed, MarkFailedFenced, MarkFailedFails
  <2>2. QED
    BY <2>1 DEF Proceed, Abandon
<1>4. QED
  BY <1>1, <1>2, <1>3

(* Of the time set aside, a worker takes one timeout for a publish and one *)
(* statement's time for what follows it.                                   *)
LEMMA TimeKept ==
  ASSUME TypeOK, NEW w \in Workers, TimeLeft(w), IsFiniteSet(Events), LeaseOutlastsBatch,
         \/ FetchLock(w) \/ Fetching(w) \/ Looping(w)
         \/ Publishing(w) \/ Settling(w) \/ Stopping(w)
  PROVE  TimeLeft(w)'
<1> USE DEF Goto
<1> DEFINE SetAside(es) == Cardinality(es) * EventTime
           Settles == {"fetching", "loop", "acked", "nacked", "poisoned"}
<1>1. /\ pc[w] = "publishing" => left[w] >= SetAside(batch[w]) + budget[w]
      /\ pc[w] \in Settles => left[w] + StatementTime >= SetAside(batch[w]) + budget[w]
      /\ pc \in [Workers -> PCs] /\ batch[w] \in SUBSET Events
      /\ left[w] \in Int /\ budget[w] \in Nat
      /\ PublishTimeout \in Nat /\ StatementTime \in Nat /\ Lease \in Nat
      /\ EventTime = PublishTimeout + StatementTime
  BY OutboxAssumption, BudgetType DEF TimeLeft, TypeOK, ConfigValid, Lapsed, EventTime
<1>2. SetAside(batch[w]) \in Nat
  BY <1>1, TimeSetAside
<1>3. SUFFICES /\ pc'[w] = "publishing" => left'[w] >= SetAside(batch'[w]) + budget'[w]
               /\ pc'[w] \in Settles =>
                    left'[w] + StatementTime >= SetAside(batch'[w]) + budget'[w]
  BY DEF TimeLeft
<1> DEFINE Kept == /\ pc'[w] = "publishing" => left'[w] >= SetAside(batch'[w]) + budget'[w]
                   /\ pc'[w] \in Settles =>
                        left'[w] + StatementTime >= SetAside(batch'[w]) + budget'[w]
<1>4. CASE FetchLock(w)
  <2>1. PICK es \in Batches : batch' = [batch EXCEPT ![w] = es]
    BY <1>4 DEF FetchLock
  <2>2. es \in SUBSET Events /\ Cardinality(es) <= BatchSize
    BY <2>1 DEF Batches
  <2>3. SetAside(es) \in Nat /\ SetAside(es) <= Lease
    <3>1. BatchSize * EventTime \in Nat
      BY <1>1, OutboxAssumption DEF ConfigValid
    <3>2. QED
      BY <2>2, <3>1, <1>1, TimeSetAside DEF LeaseOutlastsBatch
  <2>4. /\ batch'[w] = es /\ left'[w] = Lease /\ budget'[w] = StatementTime
        /\ pc'[w] = "fetching"
    BY <1>1, <1>4, <2>1 DEF FetchLock, TypeOK
  <2>5. QED
    BY <1>1, <2>3, <2>4
<1>5. ASSUME Release(w), pc'[w] \in {"idle", "stopped"}
      PROVE  Kept
  BY <1>5
<1>6. ASSUME UNCHANGED <<batch, left, budget>>, pc'[w] = "loop", pc[w] \in Settles
      PROVE  Kept
  BY <1>1, <1>6
<1>7. ASSUME NEW e \in batch[w], batch' = [batch EXCEPT ![w] = @ \ {e}], pc[w] = "loop",
             UNCHANGED left,
             \/ UNCHANGED budget /\ pc'[w] = "loop"
             \/ budget' = [budget EXCEPT ![w] = PublishTimeout] /\ pc'[w] = "publishing"
      PROVE  Kept
  <2>1. /\ batch'[w] = batch[w] \ {e} /\ left'[w] = left[w]
        /\ \/ budget'[w] = budget[w] /\ pc'[w] = "loop"
           \/ budget'[w] = PublishTimeout /\ pc'[w] = "publishing"
    BY <1>1, <1>7 DEF TypeOK
  <2>2. SetAside(batch'[w]) = SetAside(batch[w]) - EventTime
    BY <1>1, <2>1, TimeSetAside
  <2>3. left[w] + StatementTime >= SetAside(batch[w]) + budget[w]
    BY <1>1, <1>7
  <2> HIDE DEF SetAside
  <2>4. QED
    BY <1>1, <1>2, <2>1, <2>2, <2>3
<1>8. CASE Fetching(w)
  BY <1>1, <1>5, <1>6, <1>8 DEF Fetching, FetchCommit, FetchLost, FetchFails, LeaseRows
<1>9. CASE Looping(w)
  <2>1. CASE Skip(w)
    BY <1>1, <1>7, <2>1 DEF Skip
  <2>2. CASE BeginPublish(w)
    BY <1>1, <1>7, <2>2 DEF BeginPublish
  <2>3. CASE EndBatch(w)
    BY <1>1, <1>5, <2>3 DEF EndBatch
  <2>4. QED
    BY <1>9, <2>1, <2>2, <2>3 DEF Looping
<1>10. CASE Publishing(w)
  <2>1. /\ pc[w] = "publishing" /\ pc'[w] \in {"acked", "nacked", "poisoned"}
        /\ budget'[w] = StatementTime
        /\ UNCHANGED <<batch, left>>
    BY <1>1, <1>10 DEF Publishing, PublishAck, PublishFail, TypeOK
  <2> HIDE DEF SetAside
  <2>2. QED
    BY <1>1, <1>2, <2>1
<1>11. CASE Settling(w)
  <2>1. /\ pc[w] \in {"acked", "nacked", "poisoned"}
        /\ Proceed(w) \/ Abandon(w)
    BY <1>11 DEF Settling, MarkPublished, MarkPublishedFenced, MarkPublishedFails,
                 MarkFailed, MarkFailedFenced, MarkFailedFails
  <2>2. QED
    BY <1>1, <1>5, <1>6, <2>1 DEF Proceed, Abandon
<1>12. CASE Stopping(w)
  <2>1. CASE Cancel(w)
    BY <1>1, <2>1 DEF Cancel, workerVars
  <2>2. CASE Leave(w) \/ Restart(w)
    BY <1>1, <2>2 DEF Leave, Restart
  <2>3. CASE Crash(w)
    BY <1>1, <1>5, <2>3 DEF Crash
  <2>4. QED
    BY <1>12, <2>1, <2>2, <2>3 DEF Stopping
<1>13. QED
  BY <1>4, <1>8, <1>9, <1>10, <1>11, <1>12

(* A worker that publishes under its lease is the only one that could end  *)
(* it, and a worker begins to publish only what it has leased.             *)
LEMMA DispatchStaysLeased ==
  ASSUME TypeOK, LeaseInv, LeaseCoversBatch, IsFiniteSet(Events),
         [Next]_vars, NEW w \in Workers, pc'[w] = "publishing"
  PROVE  HoldsLease(w, current[w])'
<1>1. /\ pc[w] = "publishing" =>
           HoldsLease(w, current[w]) /\ left[w] >= Cardinality(batch[w]) * EventTime + budget[w]
      /\ pc[w] = "loop" =>
           left[w] + StatementTime >= Cardinality(batch[w]) * EventTime + budget[w]
      /\ left[w] \in Int /\ budget[w] \in Nat
      /\ PublishTimeout \in Nat /\ StatementTime \in Nat
      /\ batch[w] \in SUBSET Events
  BY OutboxAssumption, BudgetType DEF LeaseCoversBatch, TypeOK, ConfigValid, Lapsed
<1>2. /\ pc[w] = "publishing" => left[w] >= 0
      /\ pc[w] = "loop" /\ batch[w] # {} => left[w] >= 0
  <2>1. Cardinality(batch[w]) * EventTime \in Nat
    BY <1>1, TimeSetAside
  <2>2. ASSUME NEW e \in batch[w]
        PROVE  Cardinality(batch[w]) * EventTime >= EventTime
    <3>1. Cardinality(batch[w] \ {e}) * EventTime = Cardinality(batch[w]) * EventTime - EventTime
      BY <1>1, TimeSetAside
    <3>2. Cardinality(batch[w] \ {e}) * EventTime \in Nat
      BY <1>1, TimeSetAside
    <3>3. QED
      BY <1>1, <2>1, <3>1, <3>2 DEF EventTime
  <2>3. QED
    BY <1>1, <2>1, <2>2 DEF EventTime
<1>3. \/ BeginPublish(w)
      \/ pc[w] = "publishing" /\ UNCHANGED <<current[w], held[w]>>
  <2>1. ASSUME NEW v \in Workers \ {w},
               \/ FetchLock(v) \/ Fetching(v) \/ Looping(v)
               \/ Publishing(v) \/ Settling(v) \/ Stopping(v)
        PROVE  pc[w] = "publishing" /\ UNCHANGED <<current[w], held[w]>>
    BY <2>1, OthersUntouched
  <2>2. CASE Fetching(w) \/ Settling(w) \/ Stopping(w)
    BY <2>2
    DEF Fetching, FetchCommit, FetchLost, FetchFails, LeaseRows, Settling, MarkPublished,
        MarkPublishedFenced, MarkPublishedFails, MarkFailed, MarkFailedFenced,
        MarkFailedFails, Proceed, Abandon, Stopping, Cancel, Leave, Crash, Restart,
        workerVars, Goto, TypeOK
  <2>3. CASE FetchLock(w) \/ Looping(w) \/ Publishing(w)
    BY <2>3 DEF FetchLock, Looping, Skip, EndBatch, Publishing, PublishAck, PublishFail,
                Goto, TypeOK
  <2>4. CASE (\E e \in Events : Insert(e)) \/ Tick \/ UNCHANGED vars
    BY <2>4 DEF Insert, Tick, workerVars, vars
  <2>5. QED
    BY <2>1, <2>2, <2>3, <2>4 DEF Next
<1>4. CASE BeginPublish(w)
  <2>1. PICK e \in batch[w] : current' = [current EXCEPT ![w] = e]
    BY <1>4 DEF BeginPublish
  <2>2. HoldsLease(w, e)
    BY <1>1, <1>2, <1>4, <2>1 DEF BeginPublish, LeaseInv, BatchLeased
  <2>3. QED
    BY <1>4, <2>1, <2>2 DEF BeginPublish, HoldsLease, rowVars, TypeOK
<1>5. CASE pc[w] = "publishing" /\ UNCHANGED <<current[w], held[w]>>
  <2>1. PICK e \in Events : e = current[w]
    BY <1>5 DEF LeaseInv, WorkerOK, Handling
  <2>2. HoldsLease(w, e) /\ left[w] >= 0
    BY <1>1, <1>2, <1>5, <2>1
  <2>3. status[e] = "PROCESSING" /\ lockedFor[e] >= 0 /\ leaseToken[e] # NoToken
    BY <2>2 DEF LeaseInv, SnapshotCurrent, HoldsLease
  <2>4. ~ \E v \in Workers : pc[v] = "fetching" /\ e \in batch[v]
    BY <1>1, <2>2, <2>3 DEF LeaseInv, FetchesOK, SnapshotCurrent
  <2>5. ~ \E v \in Workers : HoldsLease(v, e) /\ pc[v] # "publishing"
    BY <1>5, <2>2 DEF LeaseInv, TokensOK, HoldsLease
  <2>6. leaseToken'[e] = leaseToken[e]
    BY <2>3, <2>4, <2>5, LeaseEnds
  <2>7. QED
    BY <1>5, <2>1, <2>2, <2>6 DEF HoldsLease
<1>6. QED
  BY <1>3, <1>4, <1>5

(* The clock spends no more than the time that runs. *)
LEMMA TickSpends ==
  ASSUME TypeOK, NEW w \in Workers, TimeLeft(w), IsFiniteSet(Events),
         LeaseOutlastsBatch, Tick
  PROVE  TimeLeft(w)'
<1>1. /\ MayWait(w)
      /\ UNCHANGED <<pc, batch>>
      /\ left'[w] = Floor(left[w] - 1, Lapsed)
      /\ budget'[w] = Floor(budget[w] - 1, 0)
  BY DEF Tick, LeaseOutlastsBatch
<1>2. /\ left[w] \in Int /\ budget[w] \in Nat /\ Lapsed \in Int
      /\ batch[w] \in SUBSET Events /\ StatementTime \in Nat
  BY OutboxAssumption, BudgetType DEF TypeOK, ConfigValid, Lapsed
<1>3. PICK setAside \in Nat : setAside = Cardinality(batch[w]) * EventTime
  BY <1>2, TimeSetAside
<1>4. CASE pc[w] \in {"idle", "stopped"}
  BY <1>1, <1>4 DEF TimeLeft
<1>5. CASE budget[w] > 0
  <2>1. budget'[w] = budget[w] - 1 /\ left'[w] >= left[w] - 1 /\ left'[w] \in Int
    BY <1>1, <1>2, <1>5 DEF Floor
  <2>2. QED
    BY <1>1, <1>2, <1>3, <2>1 DEF TimeLeft
<1>6. QED
  BY <1>1, <1>4, <1>5 DEF MayWait

(* Every step keeps the batch inside its lease. *)
LEMMA LeaseCoversStep ==
  ASSUME TypeOK, LeaseInv, LeaseCoversBatch, IsFiniteSet(Events),
         LeaseOutlastsBatch, [Next]_vars
  PROVE  LeaseCoversBatch'
<1>1. ASSUME NEW w \in Workers
      PROVE  TimeLeft(w)'
  <2>0. TimeLeft(w)
    BY DEF LeaseCoversBatch, TimeLeft
  <2>1. CASE UNCHANGED <<pc[w], batch[w], left[w], budget[w]>>
    BY <2>0, <2>1 DEF TimeLeft
  <2>2. CASE (\E e \in Events : Insert(e)) \/ UNCHANGED vars
    BY <2>1, <2>2 DEF Insert, workerVars, vars
  <2>3. CASE Tick
    BY <2>0, <2>3, TickSpends
  <2>4. ASSUME NEW v \in Workers,
               \/ FetchLock(v) \/ Fetching(v) \/ Looping(v)
               \/ Publishing(v) \/ Settling(v) \/ Stopping(v)
        PROVE  TimeLeft(w)'
    BY <2>0, <2>1, <2>4, TimeKept, OthersUntouched
  <2>5. QED
    BY <2>2, <2>3, <2>4 DEF Next
<1>2. QED
  BY <1>1, DispatchStaysLeased DEF TimeLeft, LeaseCoversBatch

(* The lease covers the rest of the batch at every moment, if it covers a  *)
(* whole batch, its publishes and its statements, when it is taken.        *)
THEOREM BatchInLease ==
  IsFiniteSet(Events) /\ LeaseOutlastsBatch => (Spec => []LeaseCoversBatch)
<1> SUFFICES ASSUME IsFiniteSet(Events), LeaseOutlastsBatch
             PROVE  Spec => []LeaseCoversBatch
  OBVIOUS
<1>1. Init => LeaseCoversBatch
  BY DEF Init, LeaseCoversBatch
<1>2. TypeOK /\ LeaseInv /\ LeaseCoversBatch /\ [Next]_vars => LeaseCoversBatch'
  BY LeaseCoversStep
<1>3. QED
  BY <1>1, <1>2, Invariance, PTL DEF Spec

(* Then no two workers are ever inside Publish with the same event, however *)
(* far their clocks are off: the condition findings 1 and 2 violate.        *)
THEOREM DispatchIsExclusive ==
  IsFiniteSet(Events) /\ LeaseOutlastsBatch => (Spec => []NoConcurrentDispatch)
<1> SUFFICES ASSUME IsFiniteSet(Events), LeaseOutlastsBatch
             PROVE  Spec => []NoConcurrentDispatch
  OBVIOUS
<1>1. TypeOK /\ LeaseInv /\ LeaseCoversBatch => NoConcurrentDispatch
  BY DEF LeaseInv, WorkerOK, Handling, TokensOK, LeaseCoversBatch, HoldsLease,
         NoConcurrentDispatch
<1>2. QED
  BY <1>1, BatchInLease, Invariance, PTL

-----------------------------------------------------------------------------
(* The delay before a retry *)

(* A power of two counts the subsets of a set, so it grows with the set.   *)
LEMMA PowersOfTwo ==
  ASSUME NEW n \in Nat, NEW m \in Nat, n <= m
  PROVE  2 ^ n \in Nat /\ 2 ^ m \in Nat /\ 2 ^ n <= 2 ^ m
<1>1. ASSUME NEW k \in Nat
      PROVE  /\ IsFiniteSet(SUBSET (1 .. k))
             /\ Cardinality(SUBSET (1 .. k)) = 2 ^ k
             /\ 2 ^ k \in Nat
  <2>1. IsFiniteSet(1 .. k) /\ Cardinality(1 .. k) = k
    BY FS_Interval
  <2>2. Cardinality(SUBSET (1 .. k)) = 2 ^ k /\ IsFiniteSet(SUBSET (1 .. k))
    BY <2>1, FS_SUBSET
  <2>3. QED
    BY <2>2, FS_CardinalityType
<1>2. SUBSET (1 .. n) \subseteq SUBSET (1 .. m)
  OBVIOUS
<1>3. Cardinality(SUBSET (1 .. n)) <= Cardinality(SUBSET (1 .. m))
  BY <1>1, <1>2, FS_Subset
<1>4. QED
  BY <1>1, <1>3

(* A product the check lets through does not wrap around, and one it       *)
(* refuses is too large for a duration.                                    *)
LEMMA OverflowCheck ==
  ASSUME NEW base \in 1 .. MaxInt, NEW power \in Nat
  PROVE  /\ base * power \in Nat
         /\ power <= MaxInt \div base =>
              base * power <= MaxInt /\ Wrapped(base * power) = base * power
         /\ power > MaxInt \div base => base * power > MaxInt
<1>1. MaxInt \in Nat \ {0}
  BY BackoffAssumption
<1>2. base * power \in Nat
  OBVIOUS
<1>3. power <= MaxInt \div base => base * power <= MaxInt
  BY <1>1
<1>4. power > MaxInt \div base => base * power > MaxInt
  BY <1>1
<1>5. ASSUME NEW x \in Nat, x <= MaxInt
      PROVE  Wrapped(x) = x
  <2>1. x + MaxInt + 1 \in 0 .. (2 * MaxInt + 2) - 1
    BY <1>1, <1>5
  <2>2. (x + MaxInt + 1) % (2 * MaxInt + 2) = x + MaxInt + 1
    BY <1>1, <2>1
  <2>3. QED
    BY <1>1, <2>2 DEF Wrapped
<1>6. QED
  BY <1>2, <1>3, <1>4, <1>5

(* The exponent that is used grows with the attempt, as far as the clamp.  *)
LEMMA ShiftGrows ==
  ASSUME NEW attempt \in Nat
  PROVE  /\ Shift(attempt) \in 0 .. MaxShift
         /\ Shift(attempt) <= attempt
         /\ attempt <= MaxShift => Shift(attempt) = attempt
         /\ attempt > MaxShift => Shift(attempt) = MaxShift
         /\ attempt > 0 => /\ Shift(attempt - 1) \in 0 .. MaxShift
                           /\ Shift(attempt - 1) <= Shift(attempt)
  BY BackoffAssumption DEF Shift

(* The longest delay is min(maxDelay, base * 2^n) for the exponent n that  *)
(* is used, short of the largest duration.                                 *)
LEMMA LongestIsDocumented ==
  ASSUME NEW attempt \in Nat, NEW base \in 1 .. MaxInt, NEW maxDelay \in -1 .. MaxInt
  PROVE  LongestBackoff(attempt, base, maxDelay) =
           Documented(Shift(attempt), base, maxDelay)
<1>1. MaxInt \in Nat \ {0} /\ MaxShift \in Nat
  BY BackoffAssumption
<1>2. PICK power \in Nat : power = 2 ^ Shift(attempt)
  BY <1>1, ShiftGrows, PowersOfTwo
<1>3. PICK product \in Nat : product = base * power
  BY OverflowCheck
<1>4. Scaled(attempt, base) = IF product > MaxInt THEN MaxInt ELSE product
  <2>1. MaxInt \div base \in Nat
    BY <1>1
  <2>2. CASE power > MaxInt \div base
    BY <1>2, <1>3, <2>2, OverflowCheck DEF Scaled
  <2>3. CASE power <= MaxInt \div base
    <3>1. product <= MaxInt /\ Wrapped(base * power) = product
      BY <1>3, <2>3, OverflowCheck
    <3>2. QED
      BY <1>1, <1>2, <1>3, <2>1, <2>3, <3>1 DEF Scaled
  <2>4. QED
    BY <2>1, <2>2, <2>3
<1>5. Documented(Shift(attempt), base, maxDelay) =
        IF product < Limit(maxDelay) THEN product ELSE Limit(maxDelay)
  BY <1>2, <1>3 DEF Documented
<1>6. QED
  BY <1>1, <1>4, <1>5 DEF LongestBackoff, Ceiling, Limit

(* min(maxDelay, base * 2^n) grows with n, and stays at the maximum once   *)
(* the product has reached it.                                             *)
LEMMA DocumentedGrows ==
  ASSUME NEW n \in Nat, NEW m \in Nat, n <= m, NEW base \in 1 .. MaxInt,
         NEW maxDelay \in -1 .. MaxInt
  PROVE  /\ Documented(n, base, maxDelay) <= Documented(m, base, maxDelay)
         /\ base * 2 ^ n >= Limit(maxDelay) =>
              Documented(n, base, maxDelay) = Documented(m, base, maxDelay)
<1>1. Limit(maxDelay) \in Nat /\ MaxInt \in Nat
  BY BackoffAssumption DEF Limit
<1>2. PICK small \in Nat, large \in Nat : small = 2 ^ n /\ large = 2 ^ m /\ small <= large
  BY PowersOfTwo
<1>3. base * small \in Nat /\ base * large \in Nat /\ base * small <= base * large
  <2>1. PICK rest \in Nat : large = small + rest
    <3>1. large - small \in Nat /\ large = small + (large - small)
      BY <1>2
    <3>2. QED
      BY <3>1
  <2>2. base * large = base * small + base * rest /\ base * rest \in Nat /\ base * small \in Nat
    BY <1>1, <2>1
  <2>3. QED
    BY <2>2
<1>4. QED
  BY <1>1, <1>2, <1>3 DEF Documented

(* The delay of every failure that is written down is the documented one   *)
(* where the clamp does not matter; it never exceeds it and never shrinks. *)
THEOREM BackoffIsBounded == Spec => []BackoffBounded
<1>1. TypeOK /\ LeaseInv => BackoffBounded
  <2> SUFFICES ASSUME TypeOK, LeaseInv, NEW w \in Workers, pc[w] \in {"nacked", "poisoned"},
                      NEW attempt \in seen[w][current[w]] .. seen[w][current[w]] + 1,
                      NEW base \in 1 .. MaxInt, NEW maxDelay \in -1 .. MaxInt
               PROVE  LET longest    == LongestBackoff(attempt, base, maxDelay)
                          documented == Documented(attempt, base, maxDelay)
                      IN  /\ ClampIdle(attempt, base, maxDelay) => longest = documented
                          /\ longest <= documented
                          /\ attempt > 0 => LongestBackoff(attempt - 1, base, maxDelay) <= longest
    BY DEF BackoffBounded
  <2>1. attempt \in Nat
    <3>1. PICK n \in Nat : n = seen[w][current[w]]
      BY DEF TypeOK, LeaseInv, WorkerOK, Handling
    <3>2. QED
      BY <3>1
  <2>2. LongestBackoff(attempt, base, maxDelay) = Documented(Shift(attempt), base, maxDelay)
    BY <2>1, LongestIsDocumented
  <2>3. Shift(attempt) \in Nat /\ Shift(attempt) <= attempt
    BY <2>1, ShiftGrows
  <2>4. Documented(Shift(attempt), base, maxDelay) <= Documented(attempt, base, maxDelay)
    BY <2>1, <2>3, DocumentedGrows
  <2>5. ClampIdle(attempt, base, maxDelay) =>
          Documented(Shift(attempt), base, maxDelay) = Documented(attempt, base, maxDelay)
    <3>1. CASE attempt <= MaxShift
      BY <2>1, <3>1, ShiftGrows
    <3>2. CASE attempt > MaxShift
      BY <2>1, <2>3, <3>2, ShiftGrows, DocumentedGrows, BackoffAssumption DEF ClampIdle
    <3>3. QED
      BY <2>1, <3>1, <3>2, BackoffAssumption
  <2>6. attempt > 0 =>
          LongestBackoff(attempt - 1, base, maxDelay) <= LongestBackoff(attempt, base, maxDelay)
    <3>1. SUFFICES ASSUME attempt > 0
                   PROVE  LongestBackoff(attempt - 1, base, maxDelay)
                            <= LongestBackoff(attempt, base, maxDelay)
      OBVIOUS
    <3>2. attempt - 1 \in Nat
      BY <2>1, <3>1
    <3>3. LongestBackoff(attempt - 1, base, maxDelay) =
            Documented(Shift(attempt - 1), base, maxDelay)
      BY <3>2, LongestIsDocumented
    <3>4. Shift(attempt - 1) \in Nat /\ Shift(attempt - 1) <= Shift(attempt)
      BY <2>1, <3>1, ShiftGrows
    <3>5. QED
      BY <2>1, <2>2, <2>3, <3>3, <3>4, DocumentedGrows
  <2>7. QED
    BY <2>1, <2>2, <2>4, <2>5, <2>6
<1>2. QED
  BY <1>1, Invariance, PTL

-----------------------------------------------------------------------------
(* The refinement *)

(* Workers only ever deal with rows that exist. *)
RowsExist ==
  \A w \in Workers :
    /\ \A e \in batch[w] : status[e] # "ABSENT"
    /\ pc[w] \in Handling => status[current[w]] # "ABSENT"

(* No step removes a row, and a fetch takes rows that exist. *)
LEMMA RowsStay ==
  ASSUME TypeOK, LeaseInv, RowsExist, [Next]_vars
  PROVE  RowsExist'
<1> USE DEF TypeOK, Handling
<1>1. ASSUME NEW e \in Events, status[e] # "ABSENT"
      PROVE  status'[e] # "ABSENT"
  <2>1. ASSUME NEW f \in Events, Insert(f)
        PROVE  status'[e] # "ABSENT"
    BY <1>1, <2>1 DEF Insert
  <2>2. ASSUME NEW w \in Workers, Fetching(w)
        PROVE  status'[e] # "ABSENT"
    BY <1>1, <2>2 DEF Fetching, FetchCommit, FetchLost, FetchFails, LeaseRows, rowVars
  <2>3. ASSUME NEW w \in Workers, Settling(w)
        PROVE  status'[e] # "ABSENT"
    <3>1. UNCHANGED status \/ SetPublished(current[w]) \/ SetFailed(current[w], FinalFail(w), RetryDelays(w))
      BY <2>3 DEF Settling, MarkPublished, MarkPublishedFenced, MarkPublishedFails,
                  MarkFailed, MarkFailedFenced, MarkFailedFails, rowVars
    <3>2. QED
      BY <1>1, <3>1 DEF SetPublished, SetFailed
  <2>4. CASE \/ Tick
             \/ \E w \in Workers : FetchLock(w) \/ Looping(w) \/ Publishing(w) \/ Stopping(w)
             \/ UNCHANGED vars
    BY <1>1, <2>4 DEF Tick, FetchLock, Looping, Skip, BeginPublish, EndBatch, Publishing,
                PublishAck, PublishFail, Stopping, Cancel, Leave, Crash, Restart,
                rowVars, vars
  <2>5. QED
    BY <2>1, <2>2, <2>3, <2>4 DEF Next
<1>2. ASSUME NEW w \in Workers
      PROVE  /\ \A e \in batch'[w] : e \in batch[w] \/ status[e] # "ABSENT"
             /\ pc'[w] \in Handling =>
                  \/ pc[w] \in Handling /\ current'[w] = current[w]
                  \/ current'[w] \in batch[w]
  <2>1. ASSUME NEW v \in Workers, FetchLock(v)
        PROVE  /\ \A e \in batch'[w] : e \in batch[w] \/ status[e] # "ABSENT"
               /\ pc'[w] \in Handling => pc[w] \in Handling /\ current'[w] = current[w]
    BY <2>1 DEF FetchLock, Batches, Fetchable, Goto
  <2>2. ASSUME NEW v \in Workers, Looping(v)
        PROVE  /\ batch'[w] \subseteq batch[w]
               /\ pc'[w] \in Handling =>
                    \/ pc[w] \in Handling /\ current'[w] = current[w]
                    \/ current'[w] \in batch[w]
    BY <2>2 DEF Looping, Skip, BeginPublish, EndBatch, Release, Goto
  <2>3. ASSUME NEW v \in Workers, Fetching(v) \/ Settling(v) \/ Stopping(v)
        PROVE  /\ batch'[w] \subseteq batch[w]
               /\ pc'[w] \in Handling => pc[w] \in Handling /\ current'[w] = current[w]
    BY <2>3 DEF Fetching, FetchCommit, FetchLost, FetchFails, Settling, MarkPublished,
                MarkPublishedFenced, MarkPublishedFails, MarkFailed, MarkFailedFenced,
                MarkFailedFails, Proceed, Abandon, Stopping, Cancel, Leave, Crash,
                Restart, Release, Goto, workerVars
  <2>4. CASE \/ \E e \in Events : Insert(e)
             \/ Tick
             \/ \E v \in Workers : Publishing(v)
             \/ UNCHANGED vars
    BY <2>4 DEF Insert, Tick, Publishing, PublishAck, PublishFail, Goto, workerVars, vars
  <2>5. QED
    BY <2>1, <2>2, <2>3, <2>4 DEF Next
<1>3. TypeOK'
  BY TypeStep DEF LeaseInv
<1>4. ASSUME NEW w \in Workers, pc[w] \in Handling
      PROVE  current[w] \in Events
  BY <1>4 DEF LeaseInv, WorkerOK
<1>5. QED
  BY <1>1, <1>2, <1>3, <1>4 DEF RowsExist

(* A settlement is a move of the lifecycle: what the fetch read is still   *)
(* the row's, so the decision between retry and quarantine is the one the  *)
(* row itself would have made.                                             *)
LEMMA SettlingImplements ==
  ASSUME TypeOK, LeaseInv, NEW w \in Workers, Settling(w)
  PROVE  \/ UNCHANGED <<status, retries, acked, poisoned>>
         \/ Lifecycle!LifecycleNext
<1> USE DEF TypeOK
<1>1. UNCHANGED <<acked, poisoned>>
  BY DEF Settling, MarkPublished, MarkPublishedFenced, MarkPublishedFails, MarkFailed,
         MarkFailedFenced, MarkFailedFails, Proceed, Abandon, history
<1>2. \/ UNCHANGED <<status, retries>>
      \/ pc[w] = "acked" /\ HoldsLease(w, current[w]) /\ SetPublished(current[w])
      \/ /\ pc[w] \in {"nacked", "poisoned"}
         /\ HoldsLease(w, current[w])
         /\ SetFailed(current[w], FinalFail(w), RetryDelays(w))
  BY DEF Settling, MarkPublished, MarkPublishedFenced, MarkPublishedFails, MarkFailed,
         MarkFailedFenced, MarkFailedFails, rowVars
<1>3. CASE pc[w] = "acked" /\ HoldsLease(w, current[w]) /\ SetPublished(current[w])
  <2>1. current[w] \in Events /\ current[w] \in acked
    BY <1>3 DEF LeaseInv, WorkerOK, Handling
  <2>2. status[current[w]] = "PROCESSING"
    BY <1>3, <2>1 DEF LeaseInv, SnapshotCurrent
  <2>3. Lifecycle!Publication(current[w])
    BY <1>1, <1>3, <2>1, <2>2 DEF SetPublished, Lifecycle!Publication, Lifecycle!Move
  <2>4. QED
    BY <2>1, <2>3 DEF Lifecycle!LifecycleNext
<1>4. CASE /\ pc[w] \in {"nacked", "poisoned"}
           /\ HoldsLease(w, current[w])
           /\ SetFailed(current[w], FinalFail(w), RetryDelays(w))
  <2>1. /\ current[w] \in Events
        /\ pc[w] = "poisoned" => current[w] \in poisoned
    BY <1>4 DEF LeaseInv, WorkerOK, Handling
  <2>2. /\ status[current[w]] = "PROCESSING"
        /\ seen[w][current[w]] = retries[current[w]]
    BY <1>4, <2>1 DEF LeaseInv, SnapshotCurrent
  <2>3. retries[current[w]] \in Nat /\ MaxRetries[current[w]] \in Nat
    BY <2>1, OutboxAssumption
  <2>4. CASE FinalFail(w)
    <3>1. \/ current[w] \in poisoned
          \/ retries[current[w]] + 1 >= MaxRetries[current[w]]
      BY <2>1, <2>2, <2>4 DEF FinalFail
    <3>2. /\ status' = [status EXCEPT ![current[w]] = "DEAD_LETTER"]
          /\ retries' = [retries EXCEPT ![current[w]] = @ + 1]
      BY <1>4, <2>4 DEF SetFailed
    <3>3. Lifecycle!Quarantine(current[w])
      BY <1>1, <2>2, <3>1, <3>2
      DEF Lifecycle!Quarantine, Lifecycle!Charge, Lifecycle!Move
    <3>4. QED
      BY <2>1, <3>3 DEF Lifecycle!LifecycleNext
  <2>5. CASE ~FinalFail(w)
    <3>1. retries[current[w]] + 1 < MaxRetries[current[w]]
      BY <2>2, <2>3, <2>5 DEF FinalFail
    <3>2. /\ status' = [status EXCEPT ![current[w]] = "PENDING"]
          /\ retries' = [retries EXCEPT ![current[w]] = @ + 1]
      BY <1>4, <2>5 DEF SetFailed
    <3>3. Lifecycle!Postponement(current[w])
      BY <1>1, <2>2, <3>1, <3>2
      DEF Lifecycle!Postponement, Lifecycle!Charge, Lifecycle!Move
    <3>4. QED
      BY <2>1, <3>3 DEF Lifecycle!LifecycleNext
  <2>6. QED
    BY <2>4, <2>5
<1>5. QED
  BY <1>1, <1>2, <1>3, <1>4

(* Every step of the lease protocol is a step of ADR 0001's state machine  *)
(* or leaves it where it is.                                               *)
LEMMA StepImplements ==
  ASSUME TypeOK, LeaseInv, RowsExist, [Next]_vars
  PROVE  \/ UNCHANGED <<status, retries, acked, poisoned>>
         \/ Lifecycle!LifecycleNext
<1> USE DEF TypeOK
<1>1. ASSUME NEW e \in Events, Insert(e)
      PROVE  Lifecycle!LifecycleNext
  <2>1. Lifecycle!Insertion(e)
    BY <1>1 DEF Insert, history, Lifecycle!Insertion, Lifecycle!Move
  <2>2. QED
    BY <2>1 DEF Lifecycle!LifecycleNext
<1>2. ASSUME NEW w \in Workers, Fetching(w)
      PROVE  \/ UNCHANGED <<status, retries, acked, poisoned>>
             \/ Lifecycle!LifecycleNext
  <2>1. \/ UNCHANGED <<status, retries, acked, poisoned>>
        \/ /\ pc[w] = "fetching"
           /\ status' = [e \in Events |-> IF e \in batch[w] THEN "PROCESSING" ELSE status[e]]
           /\ UNCHANGED <<retries, acked, poisoned>>
    BY <1>2 DEF Fetching, FetchCommit, FetchLost, FetchFails, LeaseRows, rowVars, history
  <2>2. CASE /\ pc[w] = "fetching"
             /\ status' = [e \in Events |-> IF e \in batch[w] THEN "PROCESSING" ELSE status[e]]
             /\ UNCHANGED <<retries, acked, poisoned>>
    <3> DEFINE fresh == {e \in batch[w] : status[e] = "PENDING"}
    <3>1. fresh \in SUBSET Events
      OBVIOUS
    <3>2. \A e \in batch[w] : status[e] \in Live
      BY <2>2 DEF LeaseInv, FetchesOK
    <3>3. status' = [e \in Events |-> IF e \in fresh THEN "PROCESSING" ELSE status[e]]
      BY <2>2, <3>2 DEF Live
    <3>4. Lifecycle!Leasing(fresh)
      BY <2>2, <3>3 DEF Lifecycle!Leasing
    <3> HIDE DEF fresh
    <3>5. QED
      BY <3>1, <3>4 DEF Lifecycle!LifecycleNext
  <2>3. QED
    BY <2>1, <2>2
<1>3. ASSUME NEW w \in Workers, Publishing(w)
      PROVE  \/ UNCHANGED <<status, retries, acked, poisoned>>
             \/ Lifecycle!LifecycleNext
  <2>1. current[w] \in Events /\ status[current[w]] # "ABSENT"
    BY <1>3 DEF Publishing, PublishAck, PublishFail, LeaseInv, WorkerOK, RowsExist, Handling
  <2>2. \/ UNCHANGED <<status, retries, acked, poisoned>>
        \/ Lifecycle!Accepting(current[w])
        \/ Lifecycle!Refusing(current[w])
    BY <1>3, <2>1 DEF Publishing, PublishAck, PublishFail, rowVars,
                      Lifecycle!Accepting, Lifecycle!Refusing
  <2>3. QED
    BY <2>1, <2>2 DEF Lifecycle!LifecycleNext
<1>4. CASE \/ Tick
           \/ \E w \in Workers : FetchLock(w) \/ Looping(w) \/ Stopping(w)
           \/ UNCHANGED vars
  BY <1>4 DEF Tick, FetchLock, Looping, Skip, BeginPublish, EndBatch, Stopping,
              Cancel, Leave, Crash, Restart, rowVars, history, vars
<1>5. QED
  BY <1>1, <1>2, <1>3, <1>4, SettlingImplements DEF Next

(* The outbox with its leases, tokens, clocks, crashes and lost replies    *)
(* implements the event lifecycle of ADR 0001.                             *)
THEOREM Refinement == Spec => ImplementsLifecycle
<1>1. Init => Lifecycle!LifecycleInit
  BY DEF Init, Lifecycle!LifecycleInit
<1>2. Init => RowsExist
  BY DEF Init, RowsExist, Handling
<1>3. TypeOK /\ LeaseInv /\ RowsExist /\ [Next]_vars => RowsExist'
  BY RowsStay
<1>4. TypeOK /\ LeaseInv /\ RowsExist /\ [Next]_vars =>
        [Lifecycle!LifecycleNext]_(Lifecycle!lifecycleVars)
  BY StepImplements DEF Lifecycle!lifecycleVars
<1>5. QED
  BY <1>1, <1>2, <1>3, <1>4, Invariance, PTL
  DEF Spec, ImplementsLifecycle, Lifecycle!LifecycleSpec

=============================================================================
