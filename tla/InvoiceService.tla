--------------------------- MODULE InvoiceService ---------------------------
(***************************************************************************)
(* ProcessInvoice of examples/invoice_service/service.go composed with     *)
(* what it writes to: the audit log, which has a connection of its own,    *)
(* the outbox table, which it writes through the caller's transaction, the *)
(* queue of the notification broker, and the relay that takes committed    *)
(* events from the table, here by its abstract specification.              *)
(* A call makes one event and stands for it; a retry is another call.      *)
(* Its caller commits after an answer without error and rolls back         *)
(* otherwise, as in the README of the example.                             *)
(***************************************************************************)
EXTENDS Integers, FiniteSets, FiniteSetsExt

CONSTANTS
  Calls,        \* calls of ProcessInvoice
  WithTx,       \* those that give a transaction, as tx or as req.Tx
  Orders,       \* what invoices may be asked for
  MaxRetries,   \* of the events, in [Calls -> Nat]
  MaxCrashes    \* bound on crashes of the process

ASSUME InvoiceAssumption ==
  /\ WithTx \subseteq Calls
  /\ MaxCrashes \in Nat

VARIABLES
  pc,        \* where each call stands
  order,     \* what it was asked for
  txn,       \* its caller's transaction
  audited,   \* calls with a row in audit_logs
  staged,    \* calls whose event is written in a transaction still open
  queued,    \* calls whose message the broker has accepted
  mailed,    \* calls whose customer got the invoice
  crashes,
  state, charged, accepted, refused   \* the outbox, see EventLifecycle

Row == INSTANCE EventLifecycle WITH Events <- Calls

outboxVars == <<state, charged, accepted, refused>>
vars == <<pc, order, txn, audited, staged, queued, mailed, crashes, outboxVars>>

PCs == {"idle", "called", "compiled", "audited", "inserted", "returned", "failed",
        "ended", "dead"}

InvoiceTypeOK ==
  /\ pc \in [Calls -> PCs]
  /\ order \in [Calls -> Orders]
  /\ txn \in [Calls -> {"none", "open", "committed", "rolledback"}]
  /\ {audited, queued, mailed, accepted, refused} \subseteq SUBSET Calls
  /\ staged \in SUBSET {r \in Calls : txn[r] = "open"}
  /\ crashes \in 0 .. MaxCrashes
  /\ state \in [Calls -> {"ABSENT", "PENDING", "PROCESSING", "PUBLISHED", "DEAD_LETTER"}]
  /\ charged \in [Calls -> Nat]

Init ==
  /\ pc = [r \in Calls |-> "idle"]
  /\ order \in [Calls -> Orders]
  /\ txn = [r \in Calls |-> "none"]
  /\ audited = {} /\ staged = {} /\ queued = {} /\ mailed = {}
  /\ crashes = 0
  /\ Row!LifecycleInit

-----------------------------------------------------------------------------
(* The amounts, in paise.  An order has items, or one taxable amount; a    *)
(* zero of an item means that it is to be computed, a rate of zero that    *)
(* the rate of the order applies.  An item's own total is only printed.    *)

Taxes == {"CGST", "SGST"}

(* Mutant: half a paisa is added and the sum truncated towards zero. *)
PercentageTruncated(m, rate) ==
  IF m * rate + 50 >= 0 THEN (m * rate + 50) \div 100 ELSE -((-50 - m * rate) \div 100)

(* percentageMoney: half a paisa is rounded away from zero.  Rates are     *)
(* whole per cents, so what the code loses by using floats is left out.    *)
Percentage(m, rate) ==
  IF m * rate >= 0 THEN (m * rate + 50) \div 100 ELSE -((50 - m * rate) \div 100)

Taxable(i) ==
  IF i.taxable # 0 THEN i.taxable
                   ELSE i.unitPrice * (IF i.quantity <= 0 THEN 1 ELSE i.quantity)

Rate(o, i, t) == IF i.rate[t] = 0 THEN o.rate[t] ELSE i.rate[t]

Tax(o, i, t) ==
  IF i.tax[t] # 0 \/ Rate(o, i, t) <= 0 THEN i.tax[t]
                                        ELSE Percentage(Taxable(i), Rate(o, i, t))

(* The sum of a column of the invoice, which has an amount for each item. *)
Column(amounts) == MapThenSumSet(LAMBDA n : amounts[n], DOMAIN amounts)

SubTotal(o) ==
  IF o.items = <<>> THEN o.taxable
                    ELSE Column([n \in DOMAIN o.items |-> Taxable(o.items[n])])

TotalTax(o, t) ==
  IF o.items = <<>> THEN Percentage(o.taxable, o.rate[t])
                    ELSE Column([n \in DOMAIN o.items |-> Tax(o, o.items[n], t)])

(* What the audit row, the event and the message carry. *)
GrandTotal(o) == SubTotal(o) + TotalTax(o, "CGST") + TotalTax(o, "SGST")

-----------------------------------------------------------------------------
(* ProcessInvoice *)

Goto(r, from, to) ==
  /\ pc[r] = from
  /\ pc' = [pc EXCEPT ![r] = to]

(* The GSTINs and the IFSC are valid, or the call fails. *)
Call(r) ==
  /\ Goto(r, "idle", "called") \/ Goto(r, "idle", "failed")
  /\ txn' = [txn EXCEPT ![r] = IF r \in WithTx THEN "open" ELSE @]
  /\ UNCHANGED <<order, audited, staged, queued, mailed, crashes, outboxVars>>

(* The PDF is made, or the call fails before it has written anything. *)
Compile(r) ==
  /\ Goto(r, "called", "compiled") \/ Goto(r, "called", "failed")
  /\ UNCHANGED <<order, txn, audited, staged, queued, mailed, crashes, outboxVars>>

(* Mutant: an error of Record is not returned. *)
RecordAuditLogged(r) ==
  /\ Goto(r, "compiled", "audited")
  /\ audited' \in {audited, audited \cup {r}}
  /\ UNCHANGED <<order, txn, staged, queued, mailed, crashes, outboxVars>>

(* auditRecorder.Record, on its own connection; an error may come back     *)
(* although the row was committed.                                         *)
RecordAudit(r) ==
  /\ \/ Goto(r, "compiled", "audited") /\ audited' = audited \cup {r}
     \/ Goto(r, "compiled", "failed") /\ audited' \in {audited, audited \cup {r}}
  /\ UNCHANGED <<order, txn, staged, queued, mailed, crashes, outboxVars>>

(* Mutant: the store uses its own connection always. *)
InTxNever(r) == FALSE /\ r \in WithTx

(* The operator of outboxStore.Insert; without one, the store's own. *)
InTx(r) == r \in WithTx

Write(r) ==
  IF InTx(r) THEN staged' = staged \cup {r} /\ UNCHANGED outboxVars
             ELSE Row!Insertion(r) /\ UNCHANGED staged

(* outboxStore.Insert; without a transaction, an error may come back       *)
(* although the row was committed.                                         *)
InsertEvent(r) ==
  /\ \/ Goto(r, "audited", "inserted") /\ Write(r)
     \/ Goto(r, "audited", "failed") /\ UNCHANGED <<staged, outboxVars>>
     \/ Goto(r, "audited", "failed") /\ ~InTx(r) /\ Write(r)
  /\ UNCHANGED <<order, txn, audited, queued, mailed, crashes>>

(* Mutant: the message is handed over before the event is written. *)
SendNotificationFirst(r) ==
  /\ \/ Goto(r, "audited", "audited") /\ queued' \in {queued, queued \cup {r}}
     \/ Goto(r, "inserted", "returned") /\ UNCHANGED queued
  /\ UNCHANGED <<order, txn, audited, staged, mailed, crashes, outboxVars>>

(* notificationBroker.SendAsync; whether it took the message is ignored. *)
SendNotification(r) ==
  /\ Goto(r, "inserted", "returned")
  /\ queued' \in {queued, queued \cup {r}}
  /\ UNCHANGED <<order, txn, audited, staged, mailed, crashes, outboxVars>>

-----------------------------------------------------------------------------
(* The caller, the broker's task, the relay and the process *)

Commit(r) ==
  /\ txn[r] = "open"
  /\ Goto(r, "returned", "ended")
  /\ txn' = [txn EXCEPT ![r] = "committed"]
  /\ staged' = staged \ {r}
  /\ IF r \in staged THEN Row!Insertion(r) ELSE UNCHANGED outboxVars
  /\ UNCHANGED <<order, audited, queued, mailed, crashes>>

(* Mutant: what the transaction wrote stays. *)
RollbackNothing(r) ==
  /\ txn[r] = "open"
  /\ Goto(r, "returned", "ended") \/ Goto(r, "failed", "ended")
  /\ txn' = [txn EXCEPT ![r] = "rolledback"]
  /\ UNCHANGED <<order, audited, staged, queued, mailed, crashes, outboxVars>>

(* After an error, or because the commit or a later statement failed. *)
Rollback(r) ==
  /\ txn[r] = "open"
  /\ Goto(r, "returned", "ended") \/ Goto(r, "failed", "ended")
  /\ txn' = [txn EXCEPT ![r] = "rolledback"]
  /\ staged' = staged \ {r}
  /\ UNCHANGED <<order, audited, queued, mailed, crashes, outboxVars>>

(* The task of the broker: the sender's error only reaches the log. *)
Mail(r) ==
  /\ r \in queued
  /\ queued' = queued \ {r}
  /\ mailed' \in {mailed, mailed \cup {r}}
  /\ UNCHANGED <<pc, order, txn, audited, staged, crashes, outboxVars>>

(* Leases, publishers' answers and settled events, as Outbox implements them. *)
Relay ==
  /\ \/ \E es \in SUBSET Calls : es # {} /\ Row!Leasing(es)
     \/ \E r \in Calls :
          \/ Row!Accepting(r) \/ Row!Refusing(r)
          \/ Row!Publication(r) \/ Row!Postponement(r) \/ Row!Quarantine(r)
  /\ UNCHANGED <<pc, order, txn, audited, staged, queued, mailed, crashes>>

(* The process dies: its calls and the broker's queue are gone, the        *)
(* database rolls open transactions back.                                  *)
Crash ==
  /\ crashes < MaxCrashes
  /\ crashes' = crashes + 1
  /\ pc' = [r \in Calls |-> IF pc[r] \in {"idle", "ended"} THEN pc[r] ELSE "dead"]
  /\ txn' = [r \in Calls |-> IF txn[r] = "open" THEN "rolledback" ELSE txn[r]]
  /\ staged' = {}
  /\ queued' = {}
  /\ UNCHANGED <<order, audited, mailed, outboxVars>>

Next ==
  \/ \E r \in Calls :
       \/ Call(r) \/ Compile(r) \/ RecordAudit(r) \/ InsertEvent(r) \/ SendNotification(r)
       \/ Commit(r) \/ Rollback(r) \/ Mail(r)
  \/ Relay
  \/ Crash

Spec == Init /\ [][Next]_vars

-----------------------------------------------------------------------------

Visible(r) == state[r] # "ABSENT"

(* "Atomically commits domain state and events in the same Postgres TX":   *)
(* the event is in the table if and only if the caller's transaction is    *)
(* committed, whatever failed, crashed or ran at the same time, and so no  *)
(* publisher ever gets the event of an invoice that was rolled back.       *)
IssuedTogether ==
  \A r \in WithTx : /\ Visible(r) <=> txn[r] = "committed"
                    /\ r \in accepted => txn[r] = "committed"

(* An error means that nothing got out: a caller that rolls back and tries *)
(* again has told neither the customer nor a consumer of the event.  The   *)
(* audit row, written past the transaction, is what may remain.            *)
ErrorLeavesNothing ==
  \A r \in Calls : pc[r] = "failed" =>
    /\ r \notin queued \cup mailed
    /\ r \in WithTx => ~Visible(r)

(* The audit trail is complete: whatever a customer, a consumer or the     *)
(* caller saw of an invoice has its row in audit_logs.                     *)
EffectsAudited ==
  \A r \in Calls :
    Visible(r) \/ r \in queued \cup mailed \/ pc[r] = "returned" => r \in audited

(* The total that the audit row, the event and the message carry is what   *)
(* the rates of the invoice give, to half a paisa for each line and tax:   *)
(* rounding line by line drifts no further, below zero neither.            *)
RoundingBounded ==
  \A r \in audited :
    LET o      == order[r]
        Due(i) == MapThenSumSet(LAMBDA t : IF i.tax[t] # 0
                                           THEN 100 * i.tax[t]
                                           ELSE Taxable(i) * Rate(o, i, t), Taxes)
        tax    == IF o.items = <<>>
                  THEN MapThenSumSet(LAMBDA t : o.taxable * o.rate[t], Taxes)
                  ELSE Column([n \in DOMAIN o.items |-> Due(o.items[n])])
        lines  == IF o.items = <<>> THEN 1 ELSE Cardinality(DOMAIN o.items)
        slack  == 50 * lines * Cardinality(Taxes)
    IN  100 * GrandTotal(o) - (100 * SubTotal(o) + tax) \in -slack .. slack

=============================================================================
