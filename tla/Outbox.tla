------------------------------- MODULE Outbox -------------------------------
(***************************************************************************)
(* The transactional outbox of outbox/store.go and outbox/relay.go: the    *)
(* table outbox_events in PostgreSQL, and the worker loops of one or more  *)
(* relays that lease rows in batches, hand each event to the application's *)
(* Publisher and settle the row with a fencing token.                      *)
(*                                                                         *)
(* Time is relative.  locked_until and next_retry_at are kept as the       *)
(* distance from the database's NOW() (lockedFor, retryIn), and a worker's *)
(* copy of locked_until as left; Tick moves all of them.  Nothing bounds   *)
(* the length of a behaviour, so liveness can be checked.                  *)
(*                                                                         *)
(* A lease token is a random UUID.  Tokens are only compared with one      *)
(* another on the same row, so all that matters of gen_random_uuid() is    *)
(* that the result differs from every token of that row still in use.      *)
(***************************************************************************)
EXTENDS Integers, FiniteSets, Backoff

CONSTANTS
  Events,          \* rows that may be inserted, identified by id
  Workers,         \* worker goroutines of all the relays on the table
  Tokens,          \* lease tokens
  NoToken,         \* lease_token IS NULL
  NoEvent,         \* a worker that is not handling an event
  CreatedAt,       \* created_at of each event, set by NewEvent
  MaxRetries,      \* max_retries of each event, set by NewEvent
  BatchSize,       \* RelayConfig.BatchSize
  Lease,           \* the store's leaseDuration
  PublishTimeout,  \* RelayConfig.PublishTimeout
  RelayLease,      \* RelayConfig.LeaseDuration
  BackoffBase,     \* RelayConfig.BackoffBase; 0 is less than a unit of time
  BackoffMax,      \* RelayConfig.BackoffMax
  MaxDelay,        \* bound on the delay NextRetryAt asks for
  Skew,            \* each worker's clock minus the database's clock
  SkewBound,       \* bound of Skew
  MaxFaults,       \* bound on crashes, lost replies and cancellations
  Timely,          \* do statements and publishers answer within their bounds?
  StatementTime    \* how long a statement, with the code from there to the
                   \* next publish, takes in a timely system

(* What validateConfig lets through, its defaults filled in.  The lease it  *)
(* compares with PublishTimeout is read nowhere else: the lease that is     *)
(* taken, Lease, is the store's own and may be shorter.  That RelayLease is *)
(* 5 seconds at least is left out: a unit of time may be longer.            *)
ConfigValid ==
  /\ BatchSize \in Nat \ {0}
  /\ PublishTimeout \in Nat \ {0}
  /\ RelayLease \in Nat
  /\ RelayLease > PublishTimeout
  /\ BackoffBase \in Nat
  /\ BackoffMax \in Nat
  /\ BackoffMax >= BackoffBase

ASSUME OutboxAssumption ==
  /\ NoToken \notin Tokens
  /\ NoEvent \notin Events
  /\ CreatedAt \in [Events -> Nat]
  /\ MaxRetries \in [Events -> Nat]
  /\ ConfigValid
  /\ Lease \in Nat
  /\ MaxDelay \in Nat
  /\ SkewBound \in Nat
  /\ Skew \in [Workers -> -SkewBound .. SkewBound]
  /\ MaxFaults \in Nat
  /\ Timely \in BOOLEAN
  /\ StatementTime \in Nat

VARIABLES
  (* the row of each event *)
  status, retries, leaseToken, lockedFor, retryIn,
  (* each worker: its control point, the events of its batch not yet     *)
  (* handled, the event being handled, the tokens and retry counts read  *)
  (* by the fetch, the time left of the batch's lease, the time left for *)
  (* the publish or the statement under way, and whether its context is  *)
  (* cancelled                                                           *)
  pc, batch, current, held, seen, left, budget, cancelled,
  (* what publishers have answered so far (history) *)
  acked, poisoned, nacks,
  (* faults so far *)
  faults

rowVars    == <<status, retries, leaseToken, lockedFor, retryIn>>
workerVars == <<pc, batch, current, held, seen, left, budget>>
history    == <<acked, poisoned, nacks>>
vars       == <<rowVars, workerVars, cancelled, history, faults>>

-----------------------------------------------------------------------------

Live     == {"PENDING", "PROCESSING"}
Terminal == {"PUBLISHED", "DEAD_LETTER"}
Statuses == {"ABSENT"} \cup Live \cup Terminal

PCs == {"idle", "fetching", "loop", "publishing",
        "acked", "nacked", "poisoned", "stopped"}

(* The largest distance into the past that a clock reading can tell apart. *)
Lapsed == -(SkewBound + 1)

(* The time a publish or a statement may be given. *)
Budgets == (0 .. PublishTimeout) \cup (0 .. StatementTime)

Floor(x, low) == IF x < low THEN low ELSE x

(* Rows a fetch in progress has locked with FOR UPDATE. *)
RowLocked(e) == \E w \in Workers : pc[w] = "fetching" /\ e \in batch[w]

(* Mutant: a fetch takes leased rows whether or not their lease lapsed. *)
FetchableStolen(e) ==
  /\ status[e] \in Live
  /\ retryIn[e] = 0
  /\ ~RowLocked(e)

(* Mutant: a fetch takes PENDING rows only. *)
FetchablePending(e) ==
  /\ status[e] = "PENDING"
  /\ retryIn[e] = 0
  /\ ~RowLocked(e)

(* The WHERE clause of fetchPendingQuery, with SKIP LOCKED. *)
Fetchable(e) ==
  /\ \/ status[e] = "PENDING"
     \/ status[e] = "PROCESSING" /\ lockedFor[e] < 0
  /\ retryIn[e] = 0
  /\ ~RowLocked(e)

(* ORDER BY created_at LIMIT BatchSize. *)
Batches ==
  LET ready == {e \in Events : Fetchable(e)}
  IN  {es \in SUBSET ready :
         /\ es # {}
         /\ Cardinality(es) <= BatchSize
         /\ es # ready => Cardinality(es) = BatchSize
         /\ \A e \in es, f \in ready \ es : CreatedAt[e] <= CreatedAt[f]}

(* Tokens some worker read from the row, or that the row still carries. *)
InUse(e) == {leaseToken[e]} \cup {held[w][e] : w \in Workers}

(* Mutant: WHERE id = $1, without the token. *)
HoldsLeaseUnfenced(w, e) == held[w][e] # NoToken

(* WHERE id = $1 AND lease_token = $2 matches the row. *)
HoldsLease(w, e) == held[w][e] # NoToken /\ held[w][e] = leaseToken[e]

(* Mutant: > for >=. *)
FinalFailLate(w) ==
  \/ seen[w][current[w]] + 1 > MaxRetries[current[w]]
  \/ pc[w] = "poisoned"

(* finalFail of handlePublishFailure, from the retry count the fetch read. *)
FinalFail(w) ==
  \/ seen[w][current[w]] + 1 >= MaxRetries[current[w]]
  \/ pc[w] = "poisoned"

(* The backoff of handlePublishFailure is this one at most. *)
LongestDelay(w) ==
  LET maxDelay == IF BackoffMax < BackoffBase THEN BackoffBase ELSE BackoffMax
  IN  LongestBackoff(seen[w][current[w]], BackoffBase, maxDelay)

(* The delays until next_retry_at as the database sees them: the worker    *)
(* adds the backoff to the time on its own clock.                          *)
RetryDelays(w) == {Floor(d + Skew[w], 0) : d \in 0 .. LongestDelay(w)}

Fault == faults < MaxFaults /\ faults' = faults + 1

(* A statement returns an error, before or after it took effect: a broken  *)
(* connection, or a context cancelled meanwhile.                           *)
Unanswered(w) == Fault \/ (w \in cancelled /\ UNCHANGED faults)

-----------------------------------------------------------------------------

TypeOK ==
  /\ status \in [Events -> Statuses]
  /\ retries \in [Events -> Nat]
  /\ leaseToken \in [Events -> Tokens \cup {NoToken}]
  /\ lockedFor \in [Events -> Lapsed .. Lease]
  /\ retryIn \in [Events -> Nat]
  /\ pc \in [Workers -> PCs]
  /\ batch \in [Workers -> SUBSET Events]
  /\ current \in [Workers -> Events \cup {NoEvent}]
  /\ held \in [Workers -> [Events -> Tokens \cup {NoToken}]]
  /\ seen \in [Workers -> [Events -> Nat]]
  /\ left \in [Workers -> Lapsed .. Lease]
  /\ budget \in [Workers -> Budgets]
  /\ cancelled \in SUBSET Workers
  /\ acked \in SUBSET Events
  /\ poisoned \in SUBSET Events
  /\ nacks \in [Events -> Nat]
  /\ faults \in 0 .. MaxFaults

Init ==
  /\ status = [e \in Events |-> "ABSENT"]
  /\ retries = [e \in Events |-> 0]
  /\ leaseToken = [e \in Events |-> NoToken]
  /\ lockedFor = [e \in Events |-> Lapsed]
  /\ retryIn = [e \in Events |-> 0]
  /\ pc = [w \in Workers |-> "idle"]
  /\ batch = [w \in Workers |-> {}]
  /\ current = [w \in Workers |-> NoEvent]
  /\ held = [w \in Workers |-> [e \in Events |-> NoToken]]
  /\ seen = [w \in Workers |-> [e \in Events |-> 0]]
  /\ left = [w \in Workers |-> Lapsed]
  /\ budget = [w \in Workers |-> 0]
  /\ cancelled = {}
  /\ acked = {}
  /\ poisoned = {}
  /\ nacks = [e \in Events |-> 0]
  /\ faults = 0

-----------------------------------------------------------------------------
(* The application and the clock *)

(* The business transaction that called Insert commits.  NextRetryAt may   *)
(* lie ahead: the caller may have scheduled the event.                     *)
Insert(e) ==
  /\ status[e] = "ABSENT"
  /\ status' = [status EXCEPT ![e] = "PENDING"]
  /\ \E d \in 0 .. MaxDelay : retryIn' = [retryIn EXCEPT ![e] = d]
  /\ UNCHANGED <<retries, leaseToken, lockedFor, workerVars, cancelled, history, faults>>

(* A timely system: a publisher returns when its context expires, and from *)
(* the start of a statement to the next publish, row locks, replies and    *)
(* the code in between included, a worker takes StatementTime at most.     *)
MayWait(w) == pc[w] \in {"idle", "stopped"} \/ budget[w] > 0

Tick ==
  /\ Timely => \A w \in Workers : MayWait(w)
  /\ lockedFor' = [e \in Events |-> Floor(lockedFor[e] - 1, Lapsed)]
  /\ retryIn' = [e \in Events |-> Floor(retryIn[e] - 1, 0)]
  /\ left' = [w \in Workers |-> Floor(left[w] - 1, Lapsed)]
  /\ budget' = [w \in Workers |-> Floor(budget[w] - 1, 0)]
  /\ UNCHANGED <<status, retries, leaseToken, pc, batch, current, held, seen,
                 cancelled, history, faults>>

-----------------------------------------------------------------------------
(* A worker polls *)

Release(w) ==
  /\ batch' = [batch EXCEPT ![w] = {}]
  /\ current' = [current EXCEPT ![w] = NoEvent]
  /\ held' = [held EXCEPT ![w] = [e \in Events |-> NoToken]]
  /\ seen' = [seen EXCEPT ![w] = [e \in Events |-> 0]]
  /\ left' = [left EXCEPT ![w] = Lapsed]
  /\ budget' = [budget EXCEPT ![w] = 0]

Goto(w, label) == pc' = [pc EXCEPT ![w] = label]

(* The SELECT ... FOR UPDATE SKIP LOCKED of the fetch: NOW() is fixed here, *)
(* and so is the end of the lease.  A fetch that finds nothing changes      *)
(* nothing, and a worker whose context is cancelled fetches nothing.        *)
FetchLock(w) ==
  /\ pc[w] = "idle"
  /\ w \notin cancelled
  /\ \E es \in Batches : batch' = [batch EXCEPT ![w] = es]
  /\ left' = [left EXCEPT ![w] = Lease]
  /\ budget' = [budget EXCEPT ![w] = StatementTime]
  /\ Goto(w, "fetching")
  /\ UNCHANGED <<rowVars, current, held, seen, cancelled, history, faults>>

(* Mutant: a row that has a token keeps it, COALESCE(lease_token, ...). *)
LeaseRowsSameToken(w, tokens) ==
  /\ pc[w] = "fetching"
  /\ \A e \in batch[w] :
       IF leaseToken[e] = NoToken THEN tokens[e] \notin InUse(e)
                                  ELSE tokens[e] = leaseToken[e]
  /\ status' = [e \in Events |-> IF e \in batch[w] THEN "PROCESSING" ELSE status[e]]
  /\ leaseToken' = [e \in Events |-> IF e \in batch[w] THEN tokens[e] ELSE leaseToken[e]]
  /\ lockedFor' = [e \in Events |-> IF e \in batch[w] THEN left[w] ELSE lockedFor[e]]
  /\ UNCHANGED <<retries, retryIn, cancelled, history>>

(* The UPDATE of the same statement, with the tokens it draws. *)
LeaseRows(w, tokens) ==
  /\ pc[w] = "fetching"
  /\ \A e \in batch[w] : tokens[e] \notin InUse(e)
  /\ status' = [e \in Events |-> IF e \in batch[w] THEN "PROCESSING" ELSE status[e]]
  /\ leaseToken' = [e \in Events |-> IF e \in batch[w] THEN tokens[e] ELSE leaseToken[e]]
  /\ lockedFor' = [e \in Events |-> IF e \in batch[w] THEN left[w] ELSE lockedFor[e]]
  /\ UNCHANGED <<retries, retryIn, cancelled, history>>

(* The statement commits and its rows reach the worker. *)
FetchCommit(w) ==
  \E tokens \in [batch[w] -> Tokens] :
    /\ LeaseRows(w, tokens)
    /\ held' = [held EXCEPT ![w] =
                  [e \in Events |-> IF e \in batch[w] THEN tokens[e] ELSE NoToken]]
    /\ seen' = [seen EXCEPT ![w] =
                  [e \in Events |-> IF e \in batch[w] THEN retries[e] ELSE 0]]
    /\ Goto(w, "loop")
    /\ UNCHANGED <<batch, current, left, budget, faults>>

(* It commits, but the rows never reach the loop: the connection breaks,   *)
(* the context is cancelled, a row does not scan or rows.Err() is set.     *)
(* The leases stay behind.                                                 *)
FetchLost(w) ==
  /\ \E tokens \in [batch[w] -> Tokens] : LeaseRows(w, tokens)
  /\ Unanswered(w)
  /\ Release(w)
  /\ Goto(w, "idle")

(* The statement fails and is rolled back. *)
FetchFails(w) ==
  /\ pc[w] = "fetching"
  /\ Unanswered(w)
  /\ Release(w)
  /\ Goto(w, "idle")
  /\ UNCHANGED <<rowVars, cancelled, history>>

-----------------------------------------------------------------------------
(* The loop of ProcessBatch *)

(* time.Until of event.LockedUntil, on the worker's own clock. *)
LeaseSeen(w) == left[w] - Skew[w]

(* The worker is done with e: it drops what the fetch read of it. *)
Forget(w, e) ==
  /\ held' = [held EXCEPT ![w][e] = NoToken]
  /\ seen' = [seen EXCEPT ![w][e] = 0]

Skip(w) ==
  /\ pc[w] = "loop"
  /\ w \notin cancelled
  /\ LeaseSeen(w) <= 0
  /\ \E e \in batch[w] :
       /\ batch' = [batch EXCEPT ![w] = @ \ {e}]
       /\ Forget(w, e)
  /\ UNCHANGED <<rowVars, pc, current, left, budget, cancelled, history, faults>>

(* Mutant: no lease check before the publish. *)
BeginPublishUnchecked(w) ==
  /\ pc[w] = "loop"
  /\ w \notin cancelled
  /\ \E e \in batch[w] :
       /\ batch' = [batch EXCEPT ![w] = @ \ {e}]
       /\ current' = [current EXCEPT ![w] = e]
  /\ budget' = [budget EXCEPT ![w] = PublishTimeout]
  /\ Goto(w, "publishing")
  /\ UNCHANGED <<rowVars, held, seen, left, cancelled, history, faults>>

(* Mutant: the publish may take the whole lease. *)
BeginPublishWholeLease(w) ==
  /\ pc[w] = "loop"
  /\ w \notin cancelled
  /\ LeaseSeen(w) > 0
  /\ \E e \in batch[w] :
       /\ batch' = [batch EXCEPT ![w] = @ \ {e}]
       /\ current' = [current EXCEPT ![w] = e]
  /\ budget' = [budget EXCEPT ![w] = Lease]
  /\ Goto(w, "publishing")
  /\ UNCHANGED <<rowVars, held, seen, left, cancelled, history, faults>>

BeginPublish(w) ==
  /\ pc[w] = "loop"
  /\ w \notin cancelled
  /\ LeaseSeen(w) > 0
  /\ \E e \in batch[w] :
       /\ batch' = [batch EXCEPT ![w] = @ \ {e}]
       /\ current' = [current EXCEPT ![w] = e]
  /\ budget' = [budget EXCEPT ![w] = PublishTimeout]
  /\ Goto(w, "publishing")
  /\ UNCHANGED <<rowVars, held, seen, left, cancelled, history, faults>>

(* The batch is exhausted, or ctx.Done() is seen before the next event. *)
EndBatch(w) ==
  /\ pc[w] = "loop"
  /\ batch[w] = {} \/ w \in cancelled
  /\ Release(w)
  /\ Goto(w, "idle")
  /\ UNCHANGED <<rowVars, cancelled, history, faults>>

PublishAck(w) ==
  /\ pc[w] = "publishing"
  /\ acked' = acked \cup {current[w]}
  /\ Goto(w, "acked")
  /\ budget' = [budget EXCEPT ![w] = StatementTime]
  /\ UNCHANGED <<rowVars, batch, current, held, seen, left, cancelled,
                 poisoned, nacks, faults>>

(* Publish returns an error, panics or runs into its timeout.  Counting    *)
(* stops when the count exceeds every retry count it is compared with.     *)
PublishFail(w) ==
  /\ pc[w] = "publishing"
  /\ \/ /\ Goto(w, "nacked")
        /\ UNCHANGED poisoned
     \/ /\ Goto(w, "poisoned")
        /\ poisoned' = poisoned \cup {current[w]}
  /\ nacks' = [nacks EXCEPT ![current[w]] =
                 IF @ > MaxRetries[current[w]] THEN @ ELSE @ + 1]
  /\ budget' = [budget EXCEPT ![w] = StatementTime]
  /\ UNCHANGED <<rowVars, batch, current, held, seen, left, cancelled, acked, faults>>

-----------------------------------------------------------------------------
(* Settling the row.  An UPDATE waits for a row lock.                       *)

(* Mutant: lease_token is not reset. *)
SetPublishedKeepsToken(e) ==
  /\ status' = [status EXCEPT ![e] = "PUBLISHED"]
  /\ lockedFor' = [lockedFor EXCEPT ![e] = Lapsed]
  /\ UNCHANGED <<retries, leaseToken, retryIn>>

SetPublished(e) ==
  /\ status' = [status EXCEPT ![e] = "PUBLISHED"]
  /\ leaseToken' = [leaseToken EXCEPT ![e] = NoToken]
  /\ lockedFor' = [lockedFor EXCEPT ![e] = Lapsed]
  /\ UNCHANGED <<retries, retryIn>>

SetFailed(e, finalFail, delays) ==
  /\ status' = [status EXCEPT ![e] = IF finalFail THEN "DEAD_LETTER" ELSE "PENDING"]
  /\ retries' = [retries EXCEPT ![e] = @ + 1]
  /\ \E d \in delays : retryIn' = [retryIn EXCEPT ![e] = d]
  /\ leaseToken' = [leaseToken EXCEPT ![e] = NoToken]
  /\ lockedFor' = [lockedFor EXCEPT ![e] = Lapsed]

(* The worker goes on to the next event of its batch. *)
Proceed(w) ==
  /\ Forget(w, current[w])
  /\ current' = [current EXCEPT ![w] = NoEvent]
  /\ Goto(w, "loop")
  /\ UNCHANGED <<batch, left, budget, cancelled, history>>

(* Mutant: MarkPublished is retried until it succeeds. *)
AbandonNever(w) == UNCHANGED <<workerVars, cancelled, history>>

(* ProcessBatch returns: the rest of the batch stays leased, unhandled. *)
Abandon(w) ==
  /\ Release(w)
  /\ Goto(w, "idle")
  /\ UNCHANGED <<cancelled, history>>

MarkPublished(w) ==
  /\ pc[w] = "acked"
  /\ ~RowLocked(current[w])
  /\ HoldsLease(w, current[w])
  /\ SetPublished(current[w])
  /\ Proceed(w)
  /\ UNCHANGED faults

(* No row matches, ErrLeaseExpired. *)
MarkPublishedFenced(w) ==
  /\ pc[w] = "acked"
  /\ ~RowLocked(current[w])
  /\ ~HoldsLease(w, current[w])
  /\ Abandon(w)
  /\ UNCHANGED <<rowVars, faults>>

MarkPublishedFails(w) ==
  /\ pc[w] = "acked"
  /\ Unanswered(w)
  /\ \/ /\ ~RowLocked(current[w])
        /\ HoldsLease(w, current[w])
        /\ SetPublished(current[w])
     \/ UNCHANGED rowVars
  /\ Abandon(w)

MarkFailed(w) ==
  /\ pc[w] \in {"nacked", "poisoned"}
  /\ ~RowLocked(current[w])
  /\ HoldsLease(w, current[w])
  /\ SetFailed(current[w], FinalFail(w), RetryDelays(w))
  /\ Proceed(w)
  /\ UNCHANGED faults

MarkFailedFenced(w) ==
  /\ pc[w] \in {"nacked", "poisoned"}
  /\ ~RowLocked(current[w])
  /\ ~HoldsLease(w, current[w])
  /\ Proceed(w)
  /\ UNCHANGED <<rowVars, faults>>

(* The error joins batchErr and the loop goes on. *)
MarkFailedFails(w) ==
  /\ pc[w] \in {"nacked", "poisoned"}
  /\ Unanswered(w)
  /\ \/ /\ ~RowLocked(current[w])
        /\ HoldsLease(w, current[w])
        /\ SetFailed(current[w], FinalFail(w), RetryDelays(w))
     \/ UNCHANGED rowVars
  /\ Proceed(w)

-----------------------------------------------------------------------------
(* Shutdown and crashes *)

Cancel(w) ==
  /\ w \notin cancelled
  /\ pc[w] # "stopped"
  /\ Fault
  /\ cancelled' = cancelled \cup {w}
  /\ UNCHANGED <<rowVars, workerVars, history>>

(* runWorker returns on ctx.Done(). *)
Leave(w) ==
  /\ pc[w] = "idle"
  /\ w \in cancelled
  /\ Goto(w, "stopped")
  /\ UNCHANGED <<rowVars, batch, current, held, seen, left, budget, cancelled,
                 history, faults>>

(* The process dies, or a panic outside the publisher reaches the recover  *)
(* of runWorker, which ends the worker while its relay runs on.  A fetch   *)
(* in progress is rolled back.                                             *)
Crash(w) ==
  /\ pc[w] # "stopped"
  /\ Fault
  /\ Release(w)
  /\ Goto(w, "stopped")
  /\ UNCHANGED <<rowVars, cancelled, history>>

(* A new process starts its relay. *)
Restart(w) ==
  /\ pc[w] = "stopped"
  /\ Goto(w, "idle")
  /\ cancelled' = cancelled \ {w}
  /\ UNCHANGED <<rowVars, batch, current, held, seen, left, budget, history, faults>>

-----------------------------------------------------------------------------

Fetching(w)   == FetchCommit(w) \/ FetchLost(w) \/ FetchFails(w)
Looping(w)    == Skip(w) \/ BeginPublish(w) \/ EndBatch(w)
Publishing(w) == PublishAck(w) \/ PublishFail(w)
Settling(w)   ==
  \/ MarkPublished(w) \/ MarkPublishedFenced(w) \/ MarkPublishedFails(w)
  \/ MarkFailed(w)    \/ MarkFailedFenced(w)    \/ MarkFailedFails(w)
Stopping(w)   == Cancel(w) \/ Leave(w) \/ Crash(w) \/ Restart(w)

Next ==
  \/ \E e \in Events : Insert(e)
  \/ Tick
  \/ \E w \in Workers :
       \/ FetchLock(w) \/ Fetching(w) \/ Looping(w)
       \/ Publishing(w) \/ Settling(w) \/ Stopping(w)

Spec == Init /\ [][Next]_vars

(* A worker that runs polls every PollInterval, its statements return, and *)
(* a publisher returns at the latest when its context expires; nobody is   *)
(* obliged to insert, to fail, to cancel or to restart.                    *)
Fairness ==
  /\ WF_vars(Tick)
  /\ \A w \in Workers :
       /\ WF_vars(FetchLock(w)) /\ WF_vars(Fetching(w)) /\ WF_vars(Looping(w))
       /\ WF_vars(Publishing(w)) /\ WF_vars(Settling(w)) /\ WF_vars(Leave(w))

FairSpec == Spec /\ Fairness

-----------------------------------------------------------------------------
(* Safety *)

(* SKILL.md promises that fencing prevents duplicate claims: whatever      *)
(* workers still remember after their leases lapsed, at most one of them   *)
(* holds the token the row carries.                                        *)
LeaseExclusive ==
  \A e \in Events : \A v, w \in Workers :
    HoldsLease(v, e) /\ HoldsLease(w, e) => v = w

(* handlePublishFailure decides between a retry and the dead letter on the *)
(* retry count of the fetch: whenever its MarkFailed would be accepted the *)
(* row is PROCESSING and that copy, like the worker's copy of              *)
(* locked_until, is still the row's.                                       *)
SnapshotCurrent ==
  \A e \in Events : \A w \in Workers :
    HoldsLease(w, e) =>
      /\ status[e] = "PROCESSING"
      /\ seen[w][e] = retries[e]
      /\ left[w] = lockedFor[e]

(* No event is lost: a row turns PUBLISHED only if a publisher accepted    *)
(* that very event, whatever crashed, lapsed or was retried in between.    *)
PublishedWasAcked ==
  \A e \in Events : status[e] = "PUBLISHED" => e \in acked

(* An event is quarantined only for a poison pill or an exhausted retry    *)
(* budget, the budget is charged at most once per failed dispatch, and a   *)
(* row that is not settled has budget left.                                *)
RetryBudgetKept ==
  \A e \in Events :
    /\ retries[e] <= nacks[e]
    /\ status[e] = "DEAD_LETTER" => e \in poisoned \/ retries[e] >= MaxRetries[e]
    /\ status[e] \notin Terminal => retries[e] = 0 \/ retries[e] < MaxRetries[e]

(* The delay after a failure, and after the next one if that fails, too,   *)
(* for whatever durations a relay may have been configured with, neither   *)
(* overflows nor falls back.  It is min(maxDelay, baseDelay * 2^attempt),  *)
(* as the comment of BackoffWithJitter says, unless the clamp of the       *)
(* attempt makes itself felt, which the comment leaves out; it is never    *)
(* more than that, and never less than the delay before it.                *)
BackoffBounded ==
  \A w \in Workers : pc[w] \in {"nacked", "poisoned"} =>
    \A attempt \in seen[w][current[w]] .. seen[w][current[w]] + 1,
       base \in 1 .. MaxInt, maxDelay \in -1 .. MaxInt :
      LET longest    == LongestBackoff(attempt, base, maxDelay)
          documented == Documented(attempt, base, maxDelay)
      IN  /\ ClampIdle(attempt, base, maxDelay) => longest = documented
          /\ longest <= documented
          /\ attempt > 0 => LongestBackoff(attempt - 1, base, maxDelay) <= longest

(* SECURITY.md, "to eliminate double-publishing race conditions": no two   *)
(* workers are ever inside Publish with the same event.                    *)
NoConcurrentDispatch ==
  \A v, w \in Workers :
    v # w /\ pc[v] = "publishing" /\ pc[w] = "publishing" => current[v] # current[w]

(* IsTerminal: a row that is PUBLISHED or DEAD_LETTER never changes again, *)
(* however late the statements of its former lease holders arrive.         *)
TerminalAbsorbing ==
  [][\A e \in Events : status[e] \in Terminal =>
       /\ status'[e] = status[e]
       /\ retries'[e] = retries[e]
       /\ leaseToken'[e] = leaseToken[e]]_vars

(* Until a lease lapses, only its holder ends it, by settling the event it *)
(* dispatched: no fetch of another replica takes the row away.             *)
LeaseRespected ==
  [][\A e \in Events : leaseToken[e] # NoToken /\ lockedFor[e] >= 0
                       /\ leaseToken'[e] # leaseToken[e] =>
       /\ leaseToken'[e] = NoToken
       /\ \E w \in Workers : HoldsLease(w, e) /\ current[w] = e]_vars

(* The check before the publish: a dispatch starts only while the worker   *)
(* holds the lease or, if its clock runs behind the database's, no longer  *)
(* after the lease lapsed than the clock is behind.                        *)
DispatchHoldsLease ==
  [][\A w \in Workers :
       pc[w] = "loop" /\ pc'[w] = "publishing" =>
         HoldsLease(w, current'[w]) \/ (left[w] < 0 /\ -left[w] < -Skew[w])]_vars

-----------------------------------------------------------------------------
(* Why the safety properties hold: an inductive invariant in named parts.  *)

Handling == {"publishing", "acked", "nacked", "poisoned"}

(* A worker is handling an event exactly while it is between the start of  *)
(* its dispatch and the end of its settlement, and that event has left its *)
(* batch; the verdict it reached is on record.                             *)
WorkerOK ==
  \A w \in Workers :
    /\ pc[w] \in Handling => current[w] \in Events \ batch[w]
    /\ pc[w] = "acked" => current[w] \in acked
    /\ pc[w] = "poisoned" => current[w] \in poisoned
    /\ pc[w] \in {"idle", "fetching", "stopped"} =>
         \A e \in Events : held[w][e] = NoToken

(* No token was read by two workers, and only rows in PROCESSING have one. *)
TokensOK ==
  \A e \in Events :
    /\ leaseToken[e] # NoToken => status[e] = "PROCESSING"
    /\ \A v, w \in Workers :
         v # w /\ held[v][e] # NoToken => held[v][e] # held[w][e]

(* Row locks are exclusive, and what a fetch locked stays fetchable until  *)
(* it commits.                                                             *)
FetchesOK ==
  \A w \in Workers : pc[w] = "fetching" => \A e \in batch[w] :
    /\ status[e] \in Live
    /\ leaseToken[e] # NoToken => lockedFor[e] < 0
    /\ \A v \in Workers \ {w} : pc[v] = "fetching" => e \notin batch[v]

(* What is left of a batch is leased to the worker until its lease lapses. *)
BatchLeased ==
  \A w \in Workers : pc[w] # "fetching" =>
    \A e \in batch[w] : HoldsLease(w, e) \/ left[w] < 0

(* A failure a worker may still write down is one more than those written. *)
NackPending ==
  \A w \in Workers :
    pc[w] \in {"nacked", "poisoned"} /\ HoldsLease(w, current[w])
      => retries[current[w]] < nacks[current[w]]

(* The lease protocol of store.go and relay.go as an inductive invariant.  *)
LeaseInv ==
  /\ WorkerOK
  /\ TokensOK
  /\ FetchesOK
  /\ BatchLeased
  /\ NackPending
  /\ SnapshotCurrent
  /\ PublishedWasAcked
  /\ RetryBudgetKept

(* What an event of a batch takes at most in a timely system. *)
EventTime == PublishTimeout + StatementTime

(* A lease that outlasts a whole batch, in a system whose statements and   *)
(* publishers answer within their bounds.                                  *)
LeaseOutlastsBatch == Timely /\ Lease >= BatchSize * EventTime

(* Then what is left of the lease covers the publish or the statement in   *)
(* progress and every event still to come but the statement after the last *)
(* publish, and a worker publishes under its lease to the end, whatever    *)
(* its clock says.                                                         *)
LeaseCoversBatch ==
  \A w \in Workers :
    /\ pc[w] = "publishing" =>
         /\ HoldsLease(w, current[w])
         /\ left[w] >= Cardinality(batch[w]) * EventTime + budget[w]
    /\ pc[w] \in {"fetching", "loop", "acked", "nacked", "poisoned"} =>
         left[w] + StatementTime >= Cardinality(batch[w]) * EventTime + budget[w]

-----------------------------------------------------------------------------
(* Liveness *)

(* ADR 0001, "zero lost events": all inserted events are settled in the    *)
(* end, as long as a worker survives.                                      *)
EventuallySettled ==
  LET settled == \A e \in Events : status[e] \in Terminal \cup {"ABSENT"}
  IN  ~settled ~> settled

(* Start returns after a cancellation: the workers finish what they are    *)
(* doing and leave.                                                        *)
ShutdownCompletes ==
  LET ended == \A w \in cancelled : pc[w] = "stopped"
  IN  ~ended ~> ended

-----------------------------------------------------------------------------
(* Refinement *)

Lifecycle == INSTANCE EventLifecycle WITH
  state    <- status,
  charged  <- retries,
  accepted <- acked,
  refused  <- poisoned

(* The table with its leases, its workers and their failures implements    *)
(* the state machine of ADR 0001: rows move along its arrows only, each    *)
(* for the reason drawn there, and the budget is charged on the way.       *)
ImplementsLifecycle == Lifecycle!LifecycleSpec

=============================================================================
