--------------------------- MODULE InvoiceProofs ---------------------------
(* Proofs about InvoiceService, for every number of calls and crashes,     *)
(* every set of orders and every retry budget.                             *)
EXTENDS InvoiceService, TLAPS

-----------------------------------------------------------------------------
(* The inductive invariant.  A transaction is open exactly while its call  *)
(* runs or waits for its caller; an event is staged in it exactly between  *)
(* Insert and the caller's decision; and whatever got out of the call      *)
(* passed Record first.                                                    *)

TransactionBracketsCall ==
  \A r \in Calls :
    IF r \in WithTx
    THEN /\ txn[r] = "none" <=> pc[r] = "idle"
         /\ txn[r] = "open" <=> pc[r] \notin {"idle", "ended", "dead"}
    ELSE txn[r] = "none"

StagedBracketsInsert ==
  \A r \in Calls :
    r \in staged <=> r \in WithTx /\ pc[r] \in {"inserted", "returned"}

VisibleByCommit ==
  /\ \A r \in WithTx : Visible(r) <=> txn[r] = "committed"
  /\ \A r \in accepted : Visible(r)

SentOnlyIfReturned ==
  \A r \in queued \cup mailed : pc[r] \in {"returned", "ended", "dead"}

AuditedFirst ==
  \A r \in Calls :
    \/ pc[r] \in {"audited", "inserted", "returned"}
    \/ Visible(r)
    \/ r \in queued \cup mailed
    => r \in audited

InvoiceInv ==
  /\ TransactionBracketsCall
  /\ StagedBracketsInsert
  /\ VisibleByCommit
  /\ SentOnlyIfReturned
  /\ AuditedFirst

-----------------------------------------------------------------------------

(* Nothing has been called. *)
LEMMA InvoiceStart == Init => InvoiceTypeOK /\ InvoiceInv
<1> SUFFICES ASSUME Init PROVE InvoiceTypeOK /\ InvoiceInv
  OBVIOUS
<1> USE InvoiceAssumption DEF Init, Row!LifecycleInit
<1>1. InvoiceTypeOK
  BY DEF InvoiceTypeOK, PCs
<1>2. InvoiceInv
  BY DEF InvoiceInv, TransactionBracketsCall, StagedBracketsInsert,
         VisibleByCommit, SentOnlyIfReturned, AuditedFirst, Visible
<1>3. QED
  BY <1>1, <1>2

(* A call begins, and its caller's transaction with it. *)
LEMMA CallKeeps ==
  ASSUME InvoiceTypeOK, InvoiceInv, NEW r \in Calls, Call(r)
  PROVE  InvoiceTypeOK' /\ InvoiceInv'
<1> USE InvoiceAssumption DEF InvoiceTypeOK
<1>1. PICK to \in {"called", "failed"} : Goto(r, "idle", to)
  BY DEF Call
<1>2. /\ pc[r] = "idle"
      /\ pc' = [pc EXCEPT ![r] = to]
      /\ txn' = [txn EXCEPT ![r] = IF r \in WithTx THEN "open" ELSE @]
      /\ UNCHANGED <<order, audited, staged, queued, mailed, crashes>>
      /\ UNCHANGED <<state, charged, accepted, refused>>
  BY <1>1 DEF Call, Goto, outboxVars
<1>3. r \notin staged
  BY <1>2 DEF InvoiceInv, StagedBracketsInsert
<1>4. InvoiceTypeOK'
  BY <1>2, <1>3 DEF PCs
<1>5. TransactionBracketsCall' /\ StagedBracketsInsert' /\ VisibleByCommit'
  BY <1>2 DEF InvoiceInv, TransactionBracketsCall, StagedBracketsInsert,
              VisibleByCommit, Visible
<1>6. SentOnlyIfReturned' /\ AuditedFirst'
  BY <1>2 DEF InvoiceInv, SentOnlyIfReturned, AuditedFirst, Visible
<1>7. QED
  BY <1>4, <1>5, <1>6 DEF InvoiceInv

(* What the steps of a running call that leave its transaction alone have  *)
(* in common.                                                              *)
LEMMA RunningKeepsTransaction ==
  ASSUME InvoiceTypeOK, InvoiceInv, NEW r \in Calls, NEW from, NEW to,
         Goto(r, from, to), UNCHANGED txn,
         from \notin {"idle", "ended", "dead"},
         to \notin {"idle", "ended", "dead"}
  PROVE  TransactionBracketsCall'
  BY DEF InvoiceTypeOK, InvoiceInv, TransactionBracketsCall, Goto

(* The document is made, or the call fails. *)
LEMMA CompileKeeps ==
  ASSUME InvoiceTypeOK, InvoiceInv, NEW r \in Calls, Compile(r)
  PROVE  InvoiceTypeOK' /\ InvoiceInv'
<1> USE DEF InvoiceTypeOK
<1>1. PICK to \in {"compiled", "failed"} : Goto(r, "called", to)
  BY DEF Compile
<1>2. /\ pc[r] = "called"
      /\ pc' = [pc EXCEPT ![r] = to]
      /\ UNCHANGED <<order, txn, audited, staged, queued, mailed, crashes>>
      /\ UNCHANGED <<state, charged, accepted, refused>>
  BY <1>1 DEF Compile, Goto, outboxVars
<1>3. InvoiceTypeOK'
  BY <1>2 DEF PCs
<1>4. TransactionBracketsCall'
  BY <1>1, <1>2, RunningKeepsTransaction
<1>5. /\ StagedBracketsInsert' /\ VisibleByCommit'
      /\ SentOnlyIfReturned' /\ AuditedFirst'
  BY <1>2 DEF InvoiceInv, StagedBracketsInsert, VisibleByCommit,
              SentOnlyIfReturned, AuditedFirst, Visible
<1>6. QED
  BY <1>3, <1>4, <1>5 DEF InvoiceInv

(* The audit row is written past the transaction, and stays. *)
LEMMA RecordAuditKeeps ==
  ASSUME InvoiceTypeOK, InvoiceInv, NEW r \in Calls, RecordAudit(r)
  PROVE  InvoiceTypeOK' /\ InvoiceInv'
<1> USE DEF InvoiceTypeOK
<1>1. PICK to \in {"audited", "failed"} :
        /\ Goto(r, "compiled", to)
        /\ audited' \in {audited, audited \cup {r}}
        /\ to = "audited" => r \in audited'
  BY DEF RecordAudit
<1>2. /\ pc[r] = "compiled"
      /\ pc' = [pc EXCEPT ![r] = to]
      /\ UNCHANGED <<order, txn, staged, queued, mailed, crashes>>
      /\ UNCHANGED <<state, charged, accepted, refused>>
  BY <1>1 DEF RecordAudit, Goto, outboxVars
<1>3. InvoiceTypeOK'
  BY <1>1, <1>2 DEF PCs
<1>4. TransactionBracketsCall'
  BY <1>1, <1>2, RunningKeepsTransaction
<1>5. StagedBracketsInsert' /\ VisibleByCommit' /\ SentOnlyIfReturned'
  BY <1>2 DEF InvoiceInv, StagedBracketsInsert, VisibleByCommit,
              SentOnlyIfReturned, Visible
<1>6. AuditedFirst'
  BY <1>1, <1>2 DEF InvoiceInv, AuditedFirst, Visible
<1>7. QED
  BY <1>3, <1>4, <1>5, <1>6 DEF InvoiceInv

(* The event is staged in the transaction, or without one is in the table  *)
(* at once, whatever answer comes back.                                    *)
LEMMA InsertEventKeeps ==
  ASSUME InvoiceTypeOK, InvoiceInv, NEW r \in Calls, InsertEvent(r)
  PROVE  InvoiceTypeOK' /\ InvoiceInv'
<1> USE InvoiceAssumption DEF InvoiceTypeOK
<1>1. PICK to \in {"inserted", "failed"} : Goto(r, "audited", to)
  BY DEF InsertEvent
<1>2. /\ pc[r] = "audited"
      /\ pc' = [pc EXCEPT ![r] = to]
      /\ UNCHANGED <<order, txn, audited, queued, mailed, crashes>>
  BY <1>1 DEF InsertEvent, Goto
<1>3. TransactionBracketsCall'
  BY <1>1, <1>2, RunningKeepsTransaction
<1>4. SentOnlyIfReturned'
  BY <1>2 DEF InvoiceInv, SentOnlyIfReturned
<1>5. r \in audited
  BY <1>2 DEF InvoiceInv, AuditedFirst
<1>6. CASE /\ r \in WithTx
           /\ staged' = IF to = "inserted" THEN staged \cup {r} ELSE staged
           /\ UNCHANGED <<state, charged, accepted, refused>>
  <2>1. r \in WithTx => txn[r] = "open"
    BY <1>2 DEF InvoiceInv, TransactionBracketsCall
  <2>2. InvoiceTypeOK'
    BY <1>2, <1>6, <2>1 DEF PCs
  <2>3. StagedBracketsInsert'
    BY <1>2, <1>6 DEF InvoiceInv, StagedBracketsInsert
  <2>4. VisibleByCommit' /\ AuditedFirst'
    BY <1>2, <1>5, <1>6 DEF InvoiceInv, VisibleByCommit, AuditedFirst, Visible
  <2>5. QED
    BY <1>3, <1>4, <2>2, <2>3, <2>4 DEF InvoiceInv
<1>7. CASE /\ r \notin WithTx
           /\ UNCHANGED staged
           /\ \/ state' = [state EXCEPT ![r] = "PENDING"]
              \/ UNCHANGED state
           /\ UNCHANGED <<charged, accepted, refused>>
  <2>1. InvoiceTypeOK'
    BY <1>2, <1>7 DEF PCs
  <2>2. StagedBracketsInsert'
    BY <1>2, <1>7 DEF InvoiceInv, StagedBracketsInsert
  <2>3. VisibleByCommit' /\ AuditedFirst'
    BY <1>2, <1>5, <1>7 DEF InvoiceInv, VisibleByCommit, AuditedFirst, Visible
  <2>4. QED
    BY <1>3, <1>4, <2>1, <2>2, <2>3 DEF InvoiceInv
<1>8. QED
  BY <1>2, <1>6, <1>7
  DEF InsertEvent, Goto, Write, InTx, outboxVars, Row!Insertion, Row!Move

(* The message is handed over when the event is written. *)
LEMMA SendNotificationKeeps ==
  ASSUME InvoiceTypeOK, InvoiceInv, NEW r \in Calls, SendNotification(r)
  PROVE  InvoiceTypeOK' /\ InvoiceInv'
<1> USE DEF InvoiceTypeOK
<1>1. /\ pc[r] = "inserted"
      /\ pc' = [pc EXCEPT ![r] = "returned"]
      /\ queued' \in {queued, queued \cup {r}}
      /\ UNCHANGED <<order, txn, audited, staged, mailed, crashes>>
      /\ UNCHANGED <<state, charged, accepted, refused>>
  BY DEF SendNotification, Goto, outboxVars
<1>2. InvoiceTypeOK'
  BY <1>1 DEF PCs
<1>3. TransactionBracketsCall'
  BY <1>1, RunningKeepsTransaction DEF SendNotification
<1>4. StagedBracketsInsert' /\ VisibleByCommit'
  BY <1>1 DEF InvoiceInv, StagedBracketsInsert, VisibleByCommit, Visible
<1>5. SentOnlyIfReturned' /\ AuditedFirst'
  BY <1>1 DEF InvoiceInv, SentOnlyIfReturned, AuditedFirst, Visible
<1>6. QED
  BY <1>2, <1>3, <1>4, <1>5 DEF InvoiceInv

-----------------------------------------------------------------------------

(* The staged event of a committed transaction is in the table. *)
LEMMA CommitKeeps ==
  ASSUME InvoiceTypeOK, InvoiceInv, NEW r \in Calls, Commit(r)
  PROVE  InvoiceTypeOK' /\ InvoiceInv'
<1> USE InvoiceAssumption DEF InvoiceTypeOK
<1>1. /\ txn[r] = "open"
      /\ pc[r] = "returned"
      /\ pc' = [pc EXCEPT ![r] = "ended"]
      /\ txn' = [txn EXCEPT ![r] = "committed"]
      /\ staged' = staged \ {r}
      /\ UNCHANGED <<order, audited, queued, mailed, crashes>>
  BY DEF Commit, Goto
<1>2. r \in WithTx /\ r \in staged
  BY <1>1 DEF InvoiceInv, TransactionBracketsCall, StagedBracketsInsert
<1>3. /\ state' = [state EXCEPT ![r] = "PENDING"]
      /\ UNCHANGED <<charged, accepted, refused>>
  BY <1>2 DEF Commit, Row!Insertion, Row!Move
<1>4. InvoiceTypeOK'
  BY <1>1, <1>3 DEF PCs
<1>5. TransactionBracketsCall' /\ StagedBracketsInsert'
  BY <1>1, <1>2 DEF InvoiceInv, TransactionBracketsCall, StagedBracketsInsert
<1>6. VisibleByCommit' /\ SentOnlyIfReturned' /\ AuditedFirst'
  BY <1>1, <1>3 DEF InvoiceInv, VisibleByCommit, SentOnlyIfReturned,
                    AuditedFirst, Visible
<1>7. QED
  BY <1>4, <1>5, <1>6 DEF InvoiceInv

(* That of one rolled back never was. *)
LEMMA RollbackKeeps ==
  ASSUME InvoiceTypeOK, InvoiceInv, NEW r \in Calls, Rollback(r)
  PROVE  InvoiceTypeOK' /\ InvoiceInv'
<1> USE InvoiceAssumption DEF InvoiceTypeOK
<1>1. /\ txn[r] = "open"
      /\ pc[r] \in {"returned", "failed"}
      /\ pc' = [pc EXCEPT ![r] = "ended"]
      /\ txn' = [txn EXCEPT ![r] = "rolledback"]
      /\ staged' = staged \ {r}
      /\ UNCHANGED <<order, audited, queued, mailed, crashes>>
      /\ UNCHANGED <<state, charged, accepted, refused>>
  BY DEF Rollback, Goto, outboxVars
<1>2. InvoiceTypeOK'
  BY <1>1 DEF PCs
<1>3. TransactionBracketsCall' /\ StagedBracketsInsert'
  BY <1>1 DEF InvoiceInv, TransactionBracketsCall, StagedBracketsInsert
<1>4. VisibleByCommit' /\ SentOnlyIfReturned' /\ AuditedFirst'
  BY <1>1 DEF InvoiceInv, VisibleByCommit, SentOnlyIfReturned, AuditedFirst, Visible
<1>5. QED
  BY <1>2, <1>3, <1>4 DEF InvoiceInv

(* A message goes from the queue to the customer or nowhere. *)
LEMMA MailKeeps ==
  ASSUME InvoiceTypeOK, InvoiceInv, NEW r \in Calls, Mail(r)
  PROVE  InvoiceTypeOK' /\ InvoiceInv'
<1> USE DEF InvoiceTypeOK
<1>1. /\ queued' \cup mailed' \subseteq queued \cup mailed
      /\ UNCHANGED <<pc, order, txn, audited, staged, crashes>>
      /\ UNCHANGED <<state, charged, accepted, refused>>
  BY DEF Mail, outboxVars
<1>2. InvoiceTypeOK'
  BY <1>1 DEF Mail
<1>3. InvoiceInv'
  BY <1>1 DEF InvoiceInv, TransactionBracketsCall, StagedBracketsInsert,
              VisibleByCommit, SentOnlyIfReturned, AuditedFirst, Visible
<1>4. QED
  BY <1>2, <1>3

(* The relay moves rows that are there; it neither adds nor removes one.   *)
LEMMA RelayKeeps ==
  ASSUME InvoiceTypeOK, InvoiceInv, Relay
  PROVE  InvoiceTypeOK' /\ InvoiceInv'
<1> USE InvoiceAssumption DEF InvoiceTypeOK
<1>1. UNCHANGED <<pc, order, txn, audited, staged, queued, mailed, crashes>>
  BY DEF Relay
<1> DEFINE RowsKept ==
      /\ state' \in [Calls -> {"ABSENT", "PENDING", "PROCESSING", "PUBLISHED", "DEAD_LETTER"}]
      /\ charged' \in [Calls -> Nat]
      /\ {accepted', refused'} \subseteq SUBSET Calls
      /\ \A r \in Calls : state'[r] = "ABSENT" <=> state[r] = "ABSENT"
      /\ \A r \in accepted' : r \in accepted \/ state[r] # "ABSENT"
<1>2. RowsKept
  <2>1. ASSUME NEW es \in SUBSET Calls, Row!Leasing(es) PROVE RowsKept
    BY <2>1 DEF Row!Leasing
  <2>2. ASSUME NEW r \in Calls, Row!Accepting(r) \/ Row!Refusing(r) PROVE RowsKept
    BY <2>2 DEF Row!Accepting, Row!Refusing
  <2>3. ASSUME NEW r \in Calls,
               Row!Publication(r) \/ Row!Postponement(r) \/ Row!Quarantine(r)
        PROVE  RowsKept
    BY <2>3 DEF Row!Publication, Row!Postponement, Row!Quarantine, Row!Charge, Row!Move
  <2>4. QED
    BY <2>1, <2>2, <2>3 DEF Relay
<1>3. InvoiceTypeOK'
  BY <1>1, <1>2
<1>4. InvoiceInv'
  BY <1>1, <1>2
  DEF InvoiceInv, TransactionBracketsCall, StagedBracketsInsert, VisibleByCommit,
      SentOnlyIfReturned, AuditedFirst, Visible
<1>5. QED
  BY <1>3, <1>4

(* A crash ends the calls that run and rolls their transactions back; what *)
(* was committed, accepted or mailed stays.                                *)
LEMMA CrashKeeps ==
  ASSUME InvoiceTypeOK, InvoiceInv, Crash
  PROVE  InvoiceTypeOK' /\ InvoiceInv'
<1> USE InvoiceAssumption DEF InvoiceTypeOK
<1>1. /\ pc' = [r \in Calls |-> IF pc[r] \in {"idle", "ended"} THEN pc[r] ELSE "dead"]
      /\ txn' = [r \in Calls |-> IF txn[r] = "open" THEN "rolledback" ELSE txn[r]]
      /\ staged' = {}
      /\ queued' = {}
      /\ UNCHANGED <<order, audited, mailed>>
      /\ UNCHANGED <<state, charged, accepted, refused>>
  BY DEF Crash, outboxVars
<1>2. InvoiceTypeOK'
  BY <1>1 DEF Crash, PCs
<1>3. TransactionBracketsCall' /\ StagedBracketsInsert'
  BY <1>1 DEF InvoiceInv, TransactionBracketsCall, StagedBracketsInsert
<1>4. VisibleByCommit' /\ SentOnlyIfReturned' /\ AuditedFirst'
  BY <1>1 DEF InvoiceInv, VisibleByCommit, SentOnlyIfReturned, AuditedFirst, Visible
<1>5. QED
  BY <1>2, <1>3, <1>4 DEF InvoiceInv

(* Every step of the calls, their callers, the broker and the relay keeps  *)
(* the type and the invariant.                                             *)
LEMMA InvoiceStep ==
  InvoiceTypeOK /\ InvoiceInv /\ [Next]_vars => InvoiceTypeOK' /\ InvoiceInv'
<1> SUFFICES ASSUME InvoiceTypeOK, InvoiceInv, [Next]_vars
             PROVE  InvoiceTypeOK' /\ InvoiceInv'
  OBVIOUS
<1>1. ASSUME NEW r \in Calls,
             \/ Call(r) \/ Compile(r) \/ RecordAudit(r)
             \/ InsertEvent(r) \/ SendNotification(r)
      PROVE  InvoiceTypeOK' /\ InvoiceInv'
  BY <1>1, CallKeeps, CompileKeeps, RecordAuditKeeps, InsertEventKeeps,
     SendNotificationKeeps
<1>2. ASSUME NEW r \in Calls, Commit(r) \/ Rollback(r) \/ Mail(r)
      PROVE  InvoiceTypeOK' /\ InvoiceInv'
  BY <1>2, CommitKeeps, RollbackKeeps, MailKeeps
<1>3. CASE Relay \/ Crash
  BY <1>3, RelayKeeps, CrashKeeps
<1>4. CASE UNCHANGED vars
  BY <1>4
  DEF vars, outboxVars, InvoiceTypeOK, InvoiceInv, TransactionBracketsCall,
      StagedBracketsInsert, VisibleByCommit, SentOnlyIfReturned, AuditedFirst,
      Visible
<1>5. QED
  BY <1>1, <1>2, <1>3, <1>4 DEF Next

(* The variables keep their types, and the invariant holds. *)
THEOREM InvoiceInvariant == Spec => [](InvoiceTypeOK /\ InvoiceInv)
  BY InvoiceStart, InvoiceStep, PTL DEF Spec

-----------------------------------------------------------------------------

(* Every variable of the composition keeps its type, and nothing is staged *)
(* but in a transaction that is open.                                      *)
THEOREM InvoiceTypeCorrect == Spec => []InvoiceTypeOK
  BY InvoiceInvariant, PTL

(* The event is in the table if and only if the transaction it was written *)
(* in is committed, and no publisher gets it otherwise.                    *)
THEOREM EventAndInvoiceTogether == Spec => []IssuedTogether
<1>1. InvoiceTypeOK /\ InvoiceInv => IssuedTogether
  BY InvoiceAssumption DEF InvoiceInv, VisibleByCommit, IssuedTogether
<1>2. QED
  BY <1>1, InvoiceInvariant, PTL

(* A call that failed has neither told the customer nor, in a transaction, *)
(* written an event a consumer can see.                                    *)
THEOREM FailureIsSilent == Spec => []ErrorLeavesNothing
<1>1. InvoiceInv => ErrorLeavesNothing
  BY DEF InvoiceInv, TransactionBracketsCall, VisibleByCommit,
         SentOnlyIfReturned, ErrorLeavesNothing
<1>2. QED
  BY <1>1, InvoiceInvariant, PTL

(* Whatever left a call has its row in the audit log. *)
THEOREM NothingUnaudited == Spec => []EffectsAudited
<1>1. InvoiceInv => EffectsAudited
  BY DEF InvoiceInv, AuditedFirst, EffectsAudited
<1>2. QED
  BY <1>1, InvoiceInvariant, PTL

-----------------------------------------------------------------------------

(* Every step of the service, its callers and the process, crashes         *)
(* included, is one insertion in the outbox, a step of its relay or        *)
(* nothing to it.                                                          *)
LEMMA InvoiceStepImplements ==
  [Next]_vars => [Row!LifecycleNext]_(Row!lifecycleVars)
<1> SUFFICES ASSUME [Next]_vars
             PROVE  Row!LifecycleNext \/ UNCHANGED Row!lifecycleVars
  OBVIOUS
<1> USE DEF Row!lifecycleVars, outboxVars
<1>1. ASSUME NEW r \in Calls, InsertEvent(r) \/ Commit(r)
      PROVE  Row!Insertion(r) \/ UNCHANGED Row!lifecycleVars
  BY <1>1 DEF InsertEvent, Commit, Write
<1>2. ASSUME NEW r \in Calls,
             \/ Call(r) \/ Compile(r) \/ RecordAudit(r) \/ SendNotification(r)
             \/ Rollback(r) \/ Mail(r)
      PROVE  UNCHANGED Row!lifecycleVars
  BY <1>2 DEF Call, Compile, RecordAudit, SendNotification, Rollback, Mail
<1>3. CASE Relay
  BY <1>3 DEF Relay, Row!LifecycleNext
<1>4. CASE Crash \/ UNCHANGED vars
  BY <1>4 DEF Crash, vars
<1>5. QED
  BY <1>1, <1>2, <1>3, <1>4 DEF Next, Row!LifecycleNext

(* The outbox the service writes through its callers' transactions is the  *)
(* outbox of ADR 0001: Outbox and this composition implement the same      *)
(* specification, which is what lets one be reasoned about without the     *)
(* other.                                                                  *)
THEOREM InvoiceOutboxIsLifecycle == Spec => Row!LifecycleSpec
<1>1. Init => Row!LifecycleInit
  BY DEF Init
<1>2. QED
  BY <1>1, InvoiceStepImplements, PTL DEF Spec, Row!LifecycleSpec

=============================================================================
