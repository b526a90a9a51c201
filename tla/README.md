# A TLA+ verification of go-app-kit

go-app-kit is a Go library of application building blocks: a transactional
outbox on PostgreSQL, an audit recorder, a notification broker with its
senders, a streaming CSV exporter and a PDF renderer. This directory models the
parts of it that keep state across calls or talk to systems that fail, and the
example service that composes them, and checks them with TLC on small instances.
TLAPS proves the safety properties of those runs for every value of the constants: any
number of events, workers, calls, messages, recipients and rows, any queue, lease or
tolerance, and processes that may be arbitrarily slow. Two need a word more. That no
event is inside two publishers at once is proved on conditions: bounds on statements and
publishers, and a lease that outlasts a batch under these bounds. That rounding moves an
invoice by little is checked by TLC only, and so is liveness.

Definitions carry the names of the source where TLA+ allows it. Operators whose
comment starts with "Mutant:" are plausible mistakes in the definition that
follows them. No specification uses them: substituted for their neighbour, each
one makes a property fail, which shows that the property can.

## The system

| Part | State | Operations | What is hard | Model |
|---|---|---|---|---|
| Outbox store and relay, `outbox/store.go`, `relay.go` | table `outbox_events`; per worker a batch with the tokens, retry counts and `locked_until` it was returned | `Insert`, `FetchPendingBatch`, `ProcessBatch`, `MarkPublished`, `MarkFailed`, `Start`, cancellation | several replicas and goroutines on one table, leases that lapse, lost replies, slow publishers, two clocks, crash and restart | `Outbox`, `EventLifecycle` |
| Outbox retry policy, `outbox/retry.go` | none | `BackoffWithJitter`, the poison-pill errors | integer overflow, zero delays | `Backoff`, used by `Outbox` |
| Audit recorder, `audit/audit.go` | queue and goroutines of its pool, table `audit_logs` | `Record`, `RecordAsync` under three policies, `Close` | full queue, timeouts, failing INSERTs, `Close` against callers | `AuditRecorder` on `WorkerPool` |
| Notification broker, `notifications/broker.go` | map of senders, `closed`, pool | `RegisterSender`, `Send`, `SendAsync`, `Close` | several critical sections per call, `Close` against tasks that need the same lock | `NotificationBroker` on `WorkerPool` |
| PDF renderer, `pdf/pdf.go` | a semaphore channel per renderer, made lazily for a zero value | `Generate`, `Render`, cancellation | which calls share a bound, cancelled waiters, slots on error paths | `PdfRenderer` |
| CSV export, `export/csv.go`, `http.go` | `headerWritten`, `rowCount`, the buffer and sticky error of `encoding/csv` | `WriteHeader`, `WriteRow`, `Flush`, `Close` | a writer that fails or takes half, callers that retry | `CsvStreamer` |
| Senders, `notifications/sms.go`, `whatsapp.go`, `email.go`, `brevo.go`, `slack.go`, `webhook.go` | none between calls; within one, the recipient the loop stands at | `Send`, called again after an error | partial delivery over several recipients, providers that answer late or fail having accepted | `Senders` |
| Webhook verifier, `notifications/webhook.go` | none | `Verify`, `VerifyWebhook` | which timestamp counts, the tolerance, the clocks | `WebhookVerifier`, used by `Senders` |
| Invoice example, `examples/invoice_service` | none of its own; it writes `audit_logs`, `outbox_events` and the broker's queue | `ProcessInvoice`, in a caller's transaction or without one | one of four systems fails, the caller rolls back, the process dies in between | `InvoiceService` on `EventLifecycle` |
| Audit schema, release scripts | triggers; none | none | none | not modelled |

How they interact: an application inserts outbox rows inside its own
transaction; relays share nothing but the table. The recorder and the broker
each own a pool of `go-libs/workerpool`, which is outside the repository and
modelled from how it is used. The invoice example calls outbox, recorder and
broker in one request.

## Modules

**`Outbox`** models any number of relays on one table. A row is `status`, `retries`,
`leaseToken`, `lockedFor`, `retryIn`; the last two are `locked_until` and
`next_retry_at` minus `NOW()`, so time has no bound and `Tick` moves all clocks. A
worker is `pc`, the unhandled part of its `batch`, the `current` event, what the fetch
returned (`held` tokens, `seen` retry counts, `left` of the lease) and the `budget` left
of the publish timeout or of the time a statement may take. `FetchLock` is the `SELECT
... FOR UPDATE SKIP LOCKED`, `FetchCommit` the UPDATE that leases; `FetchLost` is a
commit whose rows never reach the worker, `FetchFails` a rollback. `Skip`,
`BeginPublish` and `EndBatch` are the loop of `ProcessBatch`, `PublishAck` and
`PublishFail` the publisher's answers, the six `Mark...` actions the settlement:
accepted, fenced off by the token, or failed (before or after its commit), where a
failing `MarkPublished` abandons the batch. `Cancel`, `Leave`, `Crash` and `Restart` are
the life of a worker. Events of a batch are handled in any order, since RETURNING
promises none.

With `Timely = FALSE` workers, statements and publishers may be arbitrarily slow. With
`Timely = TRUE` a publisher returns within `PublishTimeout`, and from the start of a
statement to the next publish a worker takes `StatementTime` at most: the `budget` of a
worker, which `Tick` uses up and without which time waits. It says what the leases can
promise in a healthy system, and is never assumed for fencing. A worker's clock differs
from the database's by `Skew`, which enters where the two meet: the look at
`locked_until` before a publish and `next_retry_at`, which is the worker's time plus the
backoff (`RetryDelays`). Fresh UUIDs are tokens not in use on the row.

**`Backoff`** is `BackoffWithJitter` in signed arithmetic of a fixed width, with
the clamp of the attempt, the overflow check and the random delay. `MarkFailed`
takes its delay from it. `MaxInt` and `MaxShift` stand for `math.MaxInt64` and 30.

**`EventLifecycle`** is the abstract specification: the state machine of ADR 0001
for each event, with the publishers' verdicts and the charged budget, and without
workers, leases or clocks. `Outbox` instantiates it as `Lifecycle` with the
refinement mapping state = status, charged = retries, accepted = acked, refused =
poisoned; `ImplementsLifecycle` states the refinement.

**`WorkerPool`** gives the state of the library's pool and operators (`Enqueue`,
`Take`, `Finish`, `StopAccepting`, `Drained`) that the two components compose
their actions from.

**`AuditRecorder`** has a caller per event (`call`) and follows `RecordAsync` through
`Submit`, the policy branch and the blocked `SubmitContext`, the task in the pool with
its INSERT that may fail, and `Close`. **`NotificationBroker`** takes one step per
critical section of `b.mu`: `SendEnter` is the closed check, `ListChannels` the copy of
the channel list, kept in `channels`, each `Dispatch` one lookup and send; `AsyncEnter`
and `AsyncSubmit` are separate because the lock is released between them, and so are
`CloseBegin`, `CloseStop` and `CloseEnd`.

**`PdfRenderer`** follows each call of `Generate` through the choice of renderer
(`RendererOf`), of semaphore (`UseSupplied`, `UseConstructed`, `UseZero`), the
select (`Acquire` or `GiveUp`) and the deferred release (`Finish`). Channels are
identified by what made them. The read of `w.sem` outside of `semOnce` (`pdf.go:59`) races
with its assignment; a pointer read that way is nil or the channel, and both ways are in
the model: a nil sends the call to `semOnce`, which gives it the same channel.

**`CsvStreamer`** follows one streamer. The mark and each record are two pieces,
so a write can be torn; the buffer passes on any part of itself, and a failed
writer leaves the sticky error. A caller may go on after an error, with the same
row or the next. `Placed` says once where the piece of a record may stand: first comes
the header, then each piece after the one it follows, marks left aside.

**`WebhookVerifier`** is `Verify` as an operator on a request and a time: which of
the two timestamps is `Carried`, whether it is `Stale`, and which of the four errors
comes first. A timestamp is its format and its moment; all formats but milliseconds
lose the fraction of a second (`Stamp`). An HMAC is the pair of the secret and the
timestamp it covers, so two HMACs are the same if both are. Durations have a width:
`Since` saturates at both ends, and the negation of the shortest duration is itself
(`Negated`).

**`Senders`** is one sender of any kind, a caller who tries the message again while
`Send` returns an error, and the provider. What tells the kinds apart is how recipients
are grouped into requests (`Groups`): one each for SMS and WhatsApp, one for all of them
by e-mail and Brevo, one to the endpoint for Slack and webhooks. `Post` and `Receive`
are a turn of the loop, `GiveUp` the client's timeout, after which the request stays on
the `wire`, where `Handle` may still find it, late or during the next try, or never.
`Skip` passes over a blank number. What the provider accepted is `served`, by try and
group. A status below 300 says so, one from 300 to 399 says that nobody accepted
anything, and a failure may come from a provider that did. `Succeeded` is each sender's
view of a status: Slack and webhooks refuse only those from 400 (`Lenient`).
`WebhookRequest` signs the time of the call and lets configured headers replace the
timestamp and the signature; a partner signs in the other formats `Verify` knows:
`PartnerRequests` holds what it may send at each moment, and whoever holds the secret
signs the present (`PartnerAssumption`).

**`InvoiceService`** has a call per invoice and takes a step per system that
`ProcessInvoice` writes to: `RecordAudit` on the recorder's own connection,
`InsertEvent` through the caller's transaction (`staged` until `Commit`) or without
one, `SendNotification` into the broker's queue, which `Mail` empties. Each may fail,
before or after its effect where it has its own connection. The relay is the next-state
relation of `EventLifecycle`, which `Outbox` implements, so what holds here holds on
the detailed outbox. `Crash` rolls open transactions back and loses the queue. The
amounts are operators of the order: `Taxable` and `Tax` of an item, the three column sums
(`SubTotal`, and `TotalTax` of each tax) and the `GrandTotal` of these. What an item gives
as its own total is printed in its line and used nowhere else.

**`MCOutbox`, `MCAudit`, `MCBroker`, `MCPdf`, `MCCsv`, `MCSenders`, `MCInvoice`** hold
the values of the constants. The proofs are in a module beside each component:
**`OutboxProofs`**, **`AuditProofs`** and **`BrokerProofs`**, which share the lemmas
of **`PoolProofs`**, **`PdfProofs`**, **`CsvProofs`**, **`SendersProofs`** and
**`InvoiceProofs`**.

## Runs

| Configuration | Instance | What it shows |
|---|---|---|
| `OutboxReplicas` | 1 row, 3 workers with clocks behind by 2, 4 tokens, 2 attempts, 1 fault, not timely, 4-bit durations, clamp at 1 | fencing (`LeaseExclusive`), the inductive invariant `LeaseInv`, finality (`TerminalAbsorbing`), leases ended by their holder only (`LeaseRespected`); a publish starts under the lease, or as long after its end as the clock is behind and no longer (`DispatchHoldsLease`); the backoff is the documented one or, beyond the clamp, below it, and never falls (`BackoffBounded`) |
| `OutboxLive` | 2 rows in a batch, 2 workers (one clock behind), 1 fault, timely, timeout of 1, statements of 1, lease of 4 | `NoConcurrentDispatch` once the lease outlasts the publishes and statements of a batch, whatever the clocks say; `ImplementsLifecycle`; `EventuallySettled`, `ShutdownCompletes` |
| `OutboxDoublePublish` | 2 rows in a batch, 2 workers, timely, lease between one and two timeouts, no fault, no skew | violates `NoConcurrentDispatch` (finding 1) |
| `OutboxLeaseMismatch` | batches of one, store lease below the timeout, no fault | violates `NoConcurrentDispatch` (finding 2) |
| `Audit` | 4 events, 1 goroutine, queue of 1, every policy | accepted events end in the table, the log or the pool; none is written twice; `Close` drains; every call and `Close` return |
| `Broker` | 3 messages, 2 channels, 1 goroutine, queue of 1 | every channel a message names or `Send` lists is tried, every listed one found, `Close` quiesces and returns, accepted messages end |
| `BrokerDrop` | 4 messages | violates `AcceptedNotDropped` (finding 3) |
| `Pdf` | 5 calls on every kind of semaphore | bounds kept per renderer, no slot lost, cancelled calls return |
| `PdfLimit` | 3 calls with a limit of 2 | violates `LimitKept` (finding 4) |
| `Csv` | 4 rows, 2 failures, flush interval 0, 1, 2, with and without mark | the file is right if no call failed; no record is repeated or follows a torn one otherwise; the row count and the flush interval are honest |
| `Senders` | 7 kinds, 3 recipients and a blank one, 2 tries; half seconds, a tolerance of 2 seconds, 3 clocks, 8 webhook setups | nil means accepted in this very call, unless Slack or a webhook got a status from 300 to 399 (`NilMeansAccepted`); an error leaves a prefix of the recipients served (`PrefixServed`); `Verify` accepts what is intact and in time, and nothing else (`WindowKept`) |
| `Invoice` | 2 calls, one in a transaction, 4 orders, 1 crash | event and transaction stand or fall together (`IssuedTogether`); an error has told nobody (`ErrorLeavesNothing`); every effect is audited (`EffectsAudited`); the total is what the rates give but for half a paisa per line and tax (`RoundingBounded`) |

Every bound is a constant. `Events`, `Workers`, `Tokens`, `BatchSize`, `Lease` and the
timeouts are the sizes of the instance; `MaxFaults` bounds crashes, lost replies and
cancellations together; `SkewBound` the skew, `MaxDelay` what `NextRetryAt` asks for.
`StatementTime` is 1 in `OutboxLive`, as is the publish timeout, so a batch of two needs
a lease of four: with three TLC finds two workers publishing one event. It is 0
elsewhere, which without `Timely` bounds nothing; in `OutboxDoublePublish` and
`OutboxLeaseMismatch` it makes the findings stronger, for not even slow statements are
needed. Liveness needs a lease that outlasts a batch as well: with one that always
lapses before the settlement an event may be published again and again and never
settled. A `BackoffBase` of 0 is a backoff shorter than the unit of time. Three workers
on one row include a lapsed holder, a current holder and a fetcher; four tokens are more
than a row ever has in use there, and two are enough in `OutboxLive`, where no worker
outlives its lease. Two rows are needed for what a batch shares, a budget of one and of
two attempts for both outcomes of a failure. `BackoffBounded` looks at the attempt after
the failed one as well, and so past the clamp, and at every base and maximum of the
width, not only at those the relay is given. A lag of two with a lease of two lets a
whole lease pass unseen by the slow worker. A queue of one with one goroutine is full
with two tasks, so the third caller meets the policy and the fourth is blocked while
another task is queued. `MaxFailures` bounds how often the writer fails and `MaxMarks`
how often a header is tried. `MaxTries` bounds the calls of `Send`: with two, a late
request of the first meets the second. `MaxClock` bounds time for signed requests, in
half seconds: seven let a request be on its way for longer than the tolerance with
either clock ahead, and start in both halves of a second. `MaxDuration` is 20 ticks,
more than any age of a request of that instance; the proofs hold for every width.
`MaxCrashes` bounds the deaths of the process. The two invoice calls share nothing but
the relay's batch; the orders hold lines at half a paisa, below zero, with a tax of
their own, and no line at all. Worker and token symmetry is used in runs without
liveness only; no constant distinguishes them there.

`CHECK_DEADLOCK FALSE` stands where each call is made once, or a bounded number of
times, and the system then rests (`Audit`, `Broker`, `BrokerDrop`, `Pdf`, `PdfLimit`,
`Senders`, `Invoice`). The other runs check deadlock.

### Fairness

Weak fairness of each step a running goroutine takes on its own, and of nothing else. In
`Outbox` a worker polls on a ticker, statements return, and publishers return when their
context expires; inserting, failing, cancelling and restarting are free, so what settles
the rows of a crashed worker is another worker or a restart that happens to come.
`EventuallySettled` holds for one fault and two workers because one survives. In
`AuditRecorder` and `NotificationBroker` every wait is bounded by a context and the
pool's goroutines run on; nobody has to call `Close`. In `PdfRenderer` a process must
end only once its context is done (`exec.CommandContext` kills it); one without a
deadline may run forever, and `CancelledReturns` holds even so.

## Proofs

Each proof rests on the named assumptions of its component and on nothing else:
`OutboxAssumption` and `BackoffAssumption`, `WorkerPoolAssumption`, `BrokerAssumption`,
`PdfAssumption` and `NoneAssumption`, `CsvAssumption`, `SendersAssumption`,
`PartnerAssumption` and `WebhookAssumption`, `InvoiceAssumption`. They say what type a
constant has, that placeholders such as `NoToken` are no values, and what the
constructors and `validateConfig` enforce. TLC evaluates them on every run of the module.
The argument always has the same form: an inductive invariant in named parts, a lemma
per action or group of like actions that keeps it, the theorem `...Invariant` (in the
outbox `Invariance`) that puts them together, and the properties as its consequences.

### Outbox (`OutboxProofs`)

| Theorem | States |
|---|---|
| `Invariance`, `TypeCorrect` | `[](TypeOK /\ LeaseInv)`, `[]TypeOK` |
| `FencingExcludes` | at most one worker holds the token a row carries |
| `NoLostEvent` | a PUBLISHED row was accepted by a publisher |
| `BudgetKept` | DEAD_LETTER needs a poison pill or an exhausted budget, charged once per failure at most |
| `TerminalIsFinal` | settled rows never change |
| `LeasesAreRespected` | a lease that has not lapsed is ended by its holder only |
| `DispatchIsLeased` | a worker dispatches only what it has leased or, if its clock is behind, what it had leased until no longer ago than that |
| `BatchInLease`, `DispatchIsExclusive` | with a lease of `BatchSize` times a publish timeout and a statement, in a timely system, no event is inside two publishers at once |
| `BackoffIsBounded` | the longest delay is `min(maxDelay, base * 2^attempt)` unless the clamp of the attempt makes itself felt, at most that if it does, and never falls from one attempt to the next |
| `Refinement` | `Spec => ImplementsLifecycle` |

`LeaseExclusive` is not inductive by itself: it needs that no two workers ever read
the same token, which needs that a fetch commits rows nobody else locked.
`LeaseInv` collects these facts in named parts. `TokensOK` is the core of fencing;
`FetchesOK` is what FOR UPDATE SKIP LOCKED gives a fetch until it commits;
`SnapshotCurrent` makes the worker's copies of the retry count and of
`locked_until` current as long as it holds the lease, which is what lets
`handlePublishFailure` decide on a copy; `WorkerOK`, `BatchLeased` and
`NackPending` tie the control point to the batch, the lease and the verdict.
`TypeCorrect` needs `WorkerOK`, so the two are proved together. `Refinement` adds one
history fact, that only inserted rows are ever handled (`RowsExist`), and maps each
action to a step of the state machine or to a stutter: a takeover of a lapsed lease, a
fenced statement and a crash stutter.

`DispatchIsExclusive` is the counterpart of the first two findings. Its hypotheses are
`LeaseOutlastsBatch` (timely, and a lease of at least `BatchSize` times `EventTime`, a
publish timeout and the time of a statement) and finitely many events. The invariant is
`LeaseCoversBatch`: what is left of the lease covers the publish or the statement in
progress and what every event still to come takes, less the statement after the last
publish, which nobody's publish waits for; and who publishes holds the lease. Only a tick
shortens a lease. In a timely system it comes when every worker is idle, has stopped, or
has a budget, and shortens the budget as much (`TickSpends`); and each event taken from
the batch frees the time set aside for it. The clock of a worker occurs nowhere in the
argument: it is not the relay's own look at `locked_until` that keeps two publishers
apart. The bounds are assumptions about the database and the publisher: `StatementTime`
has to cover row locks, the pool of connections and the code up to the next publish, and
nothing in the relay enforces it.

`BackoffIsBounded` says that the overflow check of `BackoffWithJitter` is exact for every
width of integers, and that the clamp of the attempt can only shorten a delay. It needs
that 2^n is a natural number and grows with n, which it gets without an induction by
counting the subsets of a set of n elements.

### Pool, recorder and broker (`PoolProofs`, `AuditProofs`, `BrokerProofs`)

| Theorem | States |
|---|---|
| `AuditInvariant`, `AuditTypeCorrect` | `[](AuditTypeOK /\ AuditInv)`, `[]AuditTypeOK` |
| `AnswersAreTrue` | an event whose caller was told nil is in the table, in the log or in the pool |
| `NeverWrittenTwice` | no event is inserted twice, neither by a task nor by the policy's fallback |
| `CloseLeavesNothing` (recorder) | once `Close` has returned, no task is in the pool and every accepted event is written or logged |
| `BrokerInvariant`, `BrokerTypeCorrect` | `[](BrokerTypeOK /\ BrokerInv)`, `[]BrokerTypeOK` |
| `FanOutComplete` | a `Send` that returned has dealt with every channel the message names or, if it names none, every one `Send` listed, and finds each of these |
| `CloseLeavesNothing` (broker) | once `Close` has returned, no message is in the pool, however its `SendAsync` raced |

`PoolProofs` says what each operation of the pool does to the set of pending tasks, and
that a task submitted once is in one place (`EnqueuedOnce`), so the two users never
look inside the queue. The recorder adds that the tasks of the pool are accepted events
nobody has tried to write (`PoolHasAccepted`), that a caller still waiting has tried
nothing (`UnansweredUntried`), where an accepted event can be (`AcceptedNotLost`), and
that the pool of a closed recorder stays drained (`ClosedStaysDrained`); without the first
two, a task and the fallback might both write. The broker adds how the stages of a message
follow each other (`StagesFollow`), that a channel leaves the list only with an outcome
(`ListShrinksByOutcome`), and that the channels `Send` lists itself are registered
(`OnlyRegisteredListed`): the lock is released between listing and looking up, so this
needs that senders are never removed.

### PDF renderer (`PdfProofs`)

| Theorem | States |
|---|---|
| `PdfInvariant`, `PdfTypeCorrect` | `[](PdfTypeOK /\ PdfInv)`, `[]PdfTypeOK` |
| `NoSlotLost` | the values in a channel are as many as the calls that hold a slot of it |
| `BoundedPerRenderer` | the calls that share a renderer never run more processes than its limit |

`SlotsHeld` counts the calls on each channel and says that they are finitely many, on
every path out of a call; `ChannelOfRenderer` says which channel a call waits on, which
for a zero value is the one its first call made.

### CSV streamer (`CsvProofs`)

| Theorem | States |
|---|---|
| `CsvInvariant`, `CsvTypeCorrect` | `[](CsvTypeOK /\ CsvInv)`, `[]CsvTypeOK` |
| `FileIsExact` | if no call failed, writer and buffer hold the mark, the header and every row once, in order |
| `RowsAreDelivered` | a successful `Flush` leaves nothing behind; between calls fewer than `FlushInterval` rows are held back |
| `FileIsOrdered` | whatever failed and was tried again, no record is repeated, out of order or after a torn one |
| `CountIsHonest` | `RowCount` never counts a row the csv.Writer refused |

`StreamIsFile` is the core: as long as the csv.Writer has no error, what was written and
what is buffered are together marks, the header and one run of consecutive rows. A
flush passes on any part of the buffer, so `InOrder(out)` survives an error because what
comes first of a sequence in order is in order, and after the error nothing is added but
marks. `CallOK` says what the call in progress may assume, `BufferRecent` that the buffer
holds the last rows only, `RowsCounted` how the count relates to the stream.

### Senders and verifier (`SendersProofs`)

| Theorem | States |
|---|---|
| `SendersInvariant`, `SendersTypeCorrect` | `[](SendersTypeOK /\ SendersInv)`, `[]SendersTypeOK` |
| `NilIsDelivered` | nil means that the provider accepted every recipient in this very call, or that Slack or a webhook got a status from 300 to 399 |
| `NobodyPassedOver` | what a call has served is a prefix of the recipients, however late its requests arrive |
| `WindowHolds` | `Verify` accepts what is intact and within the tolerance, and nothing else, for every tolerance and precision, and every skew within the largest duration |

`LoopServed` says that a call stands at a group whose predecessors it has had accepted,
`WireInOrder` the same of each request still on its way, which is why a late one cannot
serve anybody out of order; `AnswerTrue` says that a status below 300 is an acceptance.
A lenient sender makes one request only, so a status it wrongly takes for success cannot
be followed by another request.

### Invoice example (`InvoiceProofs`)

| Theorem | States |
|---|---|
| `InvoiceInvariant`, `InvoiceTypeCorrect` | `[](InvoiceTypeOK /\ InvoiceInv)`, `[]InvoiceTypeOK` |
| `EventAndInvoiceTogether` | the event of a call in a transaction is visible exactly if that transaction committed, and no publisher gets it otherwise |
| `FailureIsSilent` | a call that ended in an error has not told the customer nor, in a transaction, a consumer |
| `NothingUnaudited` | every event and every notification has its audit row |
| `InvoiceOutboxIsLifecycle` | each step is a step of `EventLifecycle` or a stutter |

`TransactionBracketsCall` and `StagedBracketsInsert` tie the transaction to the control
point, `VisibleByCommit` the table to the transaction; `SentOnlyIfReturned` and
`AuditedFirst` order the three effects, which a crash between any two must not undo.

### Only model-checked

Liveness: `EventuallySettled`, `ShutdownCompletes`, `CallsReturn`, `AcceptedSettles`,
`CloseReturns` and `CancelledReturns`. They rest on fairness, and so on ENABLED, which the
prover does not reason about. `RoundingBounded` bounds a sum by its number of terms, which
takes an induction over the items, and is checked on the orders of `MCInvoice`. Every other
invariant and every action property of the runs that pass is the statement of a theorem,
`NoConcurrentDispatch` under the hypotheses given above.

## Findings

1. **A batch outlives its lease.** `README.md:88` and `SECURITY.md:54` promise no
   duplicate dispatch. One lease covers the batch and is compared with the clock only
   before each publish, so a lease of more than one but less than `BatchSize` publish
   timeouts lapses during a later publish, and another worker publishes the same event
   at the same time. `DispatchIsExclusive` proves which lease is enough, whatever the
   clocks say: `BatchSize` times a publish timeout and the time of a statement, if both
   bounds are kept. `BatchSize` publish timeouts alone are not enough, for the
   statements between two publishes use up the lease as well.
2. **The validated lease is not the lease taken.** `validateConfig` compares
   `RelayConfig.LeaseDuration` with `PublishTimeout`; the store leases for its own
   duration, which may be shorter than the timeout.
3. **Close drops what is queued.** The tasks `Close` waits for call `Send`, which
   refuses them because `Close` has already set `closed`. The notifications SKILL.md
   says that they are drained.
4. **`WithMaxConcurrency` bounds one call.** Any limit but the default makes a new
   renderer with its own semaphore per call of `Generate`.

No run stands for the following, which the models show as well. `retry.go:12` gives the
ceiling of the backoff as `min(maxDelay, baseDelay * 2^attempt)`; from the 31st retry on
the code uses 30 for the attempt (`retry.go:22`), which matters for a base below
`maxDelay / 2^30` only and shortens delays, never lengthens them (`BackoffBounded`). The
README of the invoice example (lines 38 to 45, and 57) has the outbox insert before an
asynchronous audit record; the code calls `Record`, and waits for it, before the insert
(`service.go:270`), so an `INVOICE_GENERATED` row may exist for an invoice that was
never issued, and an event never without its row (`EffectsAudited`). The notification is
handed over before the caller commits, so a customer may be mailed an invoice that is
rolled back. A sender's nil means less for Slack and webhooks than for the others: a
status from 300 to 399 that the client does not follow counts as success
(`slack.go:119`, `webhook.go:107`). A timestamp more than 292 years ahead of the
verifier is not stale to it (`webhook.go:215`), but only who holds the secret could sign
one. After an error from SMS or WhatsApp the message may be with any prefix of the
recipients, so a retry repeats it to them.

## Not modelled

Payload encoding, request formatting, MIME, HMAC computation, HTML templates, the
validation rules of GSTIN and IFSC and cell contents keep no state and no property here
tells their values apart. `ComputeDiff` and the options of `NewPGRecorder` are not
modelled yet. Rates are whole per cents: what `percentageMoney` loses by computing in
floats is left out. The `MarkDeadLetter` in memory and `Mark...` without a token are not
reached by the relay on this store. Triggers that forbid UPDATE and DELETE on
`audit_logs` are the database's. The number of crashes is bounded, so an event whose
publisher kills the process each time (`MarkFailed` never charges its budget) is listed
as a hazard and not as a property. A file of which a call failed may contain repeated
marks; only the order of its records is stated.

## Plan

1. `AuditRecorder`: the constructor's options (defaults of queue size, goroutines and
   timeouts) and `ComputeDiff`.
2. `CsvStreamer`: the sanitisation of cells, as what it does to the first character.
3. Facts about `EventLifecycle` itself, which the refinements of the outbox and the
   invoice example pass on.
