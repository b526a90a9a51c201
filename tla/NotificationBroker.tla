------------------------ MODULE NotificationBroker ------------------------
(***************************************************************************)
(* The broker of notifications/broker.go: Send fans a message out to its   *)
(* channels in the caller's goroutine, SendAsync hands the same Send to a  *)
(* goroutine of the pool, RegisterSender may run at any time, and Close    *)
(* marks the broker closed and then waits for the pool.  Every access to   *)
(* senders and closed is one critical section of b.mu, so what happens     *)
(* between two critical sections interleaves.                              *)
(* A task of the pool is a message; each message is sent once.             *)
(***************************************************************************)
EXTENDS WorkerPool, FiniteSets

CONSTANTS
  Channels,    \* channels a sender may be registered for
  SyncMsgs,    \* messages given to Send; the others go through SendAsync
  Wanted,      \* Message.Channels; {} asks for all registered channels
  Unaddressed  \* messages without recipients

ASSUME BrokerAssumption ==
  /\ SyncMsgs \subseteq Tasks
  /\ Wanted \in [Tasks -> SUBSET Channels]
  /\ Unaddressed \subseteq Tasks

VARIABLES
  senders,     \* channels with a registered sender
  closed,      \* b.closed
  closing,     \* where the first Close stands
  stage,       \* where the Send or SendAsync of each message stands
  channels,    \* channels the Send of the message has listed
  todo,        \* those of them it has still to visit
  outcome,     \* per message and channel, what became of the dispatch
  verdict      \* what ended the message

brokerVars == <<senders, closed, closing, stage, channels, todo, outcome, verdict>>
vars       == <<poolVars, brokerVars>>

AsyncMsgs == Tasks \ SyncMsgs

(* "entered": past the closed check; "accepted": SendAsync returned nil    *)
(* and the task has not begun; "listed": Send is past its own closed       *)
(* check; "sending": it has its list of channels.                          *)
Stages   == {"new", "entered", "accepted", "listed", "sending", "done"}
Outcomes == {"none", "sent", "failed", "no_sender"}
Verdicts == {"none", "handled", "broker_closed", "no_recipients", "rejected",
             "panicked"}

BrokerTypeOK ==
  /\ PoolTypeOK
  /\ senders \in SUBSET Channels
  /\ closed \in BOOLEAN
  /\ closing \in {"open", "draining", "closed"}
  /\ stage \in [Tasks -> Stages]
  /\ channels \in [Tasks -> SUBSET Channels]
  /\ todo \in [Tasks -> SUBSET Channels]
  /\ outcome \in [Tasks -> [Channels -> Outcomes]]
  /\ verdict \in [Tasks -> Verdicts]

Init ==
  /\ PoolInit
  /\ senders = {}
  /\ closed = FALSE
  /\ closing = "open"
  /\ stage = [m \in Tasks |-> "new"]
  /\ channels = [m \in Tasks |-> {}]
  /\ todo = [m \in Tasks |-> {}]
  /\ outcome = [m \in Tasks |-> [c \in Channels |-> "none"]]
  /\ verdict = [m \in Tasks |-> "none"]

Move(m, to) == stage' = [stage EXCEPT ![m] = to]

End(m, v) ==
  /\ Move(m, "done")
  /\ verdict' = [verdict EXCEPT ![m] = v]

-----------------------------------------------------------------------------

RegisterSender(c) ==
  /\ senders' = senders \cup {c}
  /\ UNCHANGED <<poolVars, closed, closing, stage, channels, todo, outcome, verdict>>

(* Mutant: Close holds b.mu while it waits for the pool. *)
SendEnterLocked(m) ==
  /\ closing # "draining"
  /\ \/ m \in SyncMsgs /\ stage[m] = "new"
     \/ stage[m] = "accepted" /\ InFlight(m)
  /\ IF closed THEN End(m, "broker_closed")
               ELSE Move(m, "listed") /\ UNCHANGED verdict
  /\ UNCHANGED <<poolVars, senders, closed, closing, channels, todo, outcome>>

(* The critical section that opens Send; for an accepted message it runs   *)
(* in the task, and its error only reaches the log.                        *)
SendEnter(m) ==
  /\ \/ m \in SyncMsgs /\ stage[m] = "new"
     \/ stage[m] = "accepted" /\ InFlight(m)
  /\ IF closed THEN End(m, "broker_closed")
               ELSE Move(m, "listed") /\ UNCHANGED verdict
  /\ UNCHANGED <<poolVars, senders, closed, closing, channels, todo, outcome>>

NoRecipients(m) ==
  /\ stage[m] = "listed"
  /\ m \in Unaddressed
  /\ End(m, "no_recipients")
  /\ UNCHANGED <<poolVars, senders, closed, closing, channels, todo, outcome>>

(* The list of channels: the message's own or, in one critical section,    *)
(* every channel registered now.                                           *)
ListChannels(m) ==
  /\ stage[m] = "listed"
  /\ m \notin Unaddressed
  /\ channels' = [channels EXCEPT ![m] = IF Wanted[m] = {} THEN senders ELSE Wanted[m]]
  /\ todo' = [todo EXCEPT ![m] = channels'[m]]
  /\ Move(m, "sending")
  /\ UNCHANGED <<poolVars, senders, closed, closing, outcome, verdict>>

(* Mutant: the first error ends the loop. *)
DispatchUntilError(m, c) ==
  /\ stage[m] = "sending"
  /\ c \in todo[m]
  /\ \E result \in IF c \in senders THEN {"sent", "failed"} ELSE {"no_sender"} :
       /\ outcome' = [outcome EXCEPT ![m][c] = result]
       /\ todo' = [todo EXCEPT ![m] = IF result = "sent" THEN @ \ {c} ELSE {}]
  /\ UNCHANGED <<poolVars, senders, closed, closing, stage, channels, verdict>>

(* One turn of the loop: the sender is looked up, and called if there is   *)
(* one; its error is collected and the loop goes on.                       *)
Dispatch(m, c) ==
  /\ stage[m] = "sending"
  /\ c \in todo[m]
  /\ todo' = [todo EXCEPT ![m] = @ \ {c}]
  /\ \E result \in IF c \in senders THEN {"sent", "failed"} ELSE {"no_sender"} :
       outcome' = [outcome EXCEPT ![m][c] = result]
  /\ UNCHANGED <<poolVars, senders, closed, closing, stage, channels, verdict>>

(* A sender panics: the caller of Send, or the pool, deals with it. *)
SenderPanics(m) ==
  /\ stage[m] = "sending"
  /\ todo[m] \cap senders # {}
  /\ End(m, "panicked")
  /\ UNCHANGED <<poolVars, senders, closed, closing, channels, todo, outcome>>

SendReturn(m) ==
  /\ stage[m] = "sending"
  /\ todo[m] = {}
  /\ End(m, "handled")
  /\ UNCHANGED <<poolVars, senders, closed, closing, channels, todo, outcome>>

-----------------------------------------------------------------------------
(* SendAsync *)

(* ctx.Err() and the closed check. *)
AsyncEnter(m) ==
  /\ m \in AsyncMsgs
  /\ stage[m] = "new"
  /\ IF closed THEN End(m, "broker_closed")
               ELSE Move(m, "entered") /\ UNCHANGED verdict
  /\ UNCHANGED <<poolVars, senders, closed, closing, channels, todo, outcome>>

(* Mutant: the queue grows without a bound. *)
AsyncSubmitUnbounded(m) ==
  /\ stage[m] = "entered"
  /\ ~stopping
  /\ queue' = Append(queue, m)
  /\ Move(m, "accepted")
  /\ UNCHANGED <<running, stopping, senders, closed, closing, channels, todo, outcome, verdict>>

(* pool.SubmitContext, after b.mu was released. *)
AsyncSubmit(m) ==
  /\ stage[m] = "entered"
  /\ Enqueue(m)
  /\ Move(m, "accepted")
  /\ UNCHANGED <<senders, closed, closing, channels, todo, outcome, verdict>>

(* The caller's context ends first, or the pool is stopped. *)
AsyncReject(m) ==
  /\ stage[m] = "entered"
  /\ End(m, "rejected")
  /\ UNCHANGED <<poolVars, senders, closed, closing, channels, todo, outcome>>

PoolTake(g) == Take(g) /\ UNCHANGED brokerVars

PoolFinish(g) ==
  /\ Finish(g)
  /\ stage[running[g]] = "done"
  /\ UNCHANGED brokerVars

-----------------------------------------------------------------------------

(* The critical section of Close.  A later Close returns at once. *)
CloseBegin ==
  /\ ~closed
  /\ closed' = TRUE
  /\ closing' = "draining"
  /\ UNCHANGED <<poolVars, senders, stage, channels, todo, outcome, verdict>>

(* b.pool.StopWait() begins after the lock was released. *)
CloseStop ==
  /\ closing = "draining"
  /\ ~stopping
  /\ StopAccepting
  /\ UNCHANGED brokerVars

(* Mutant: Stop for StopWait. *)
CloseEndUndrained ==
  /\ closing = "draining"
  /\ closing' = "closed"
  /\ UNCHANGED <<poolVars, senders, closed, stage, channels, todo, outcome, verdict>>

CloseEnd ==
  /\ closing = "draining"
  /\ Drained
  /\ closing' = "closed"
  /\ UNCHANGED <<poolVars, senders, closed, stage, channels, todo, outcome, verdict>>

Sending(m) ==
  \/ SendEnter(m) \/ NoRecipients(m) \/ ListChannels(m) \/ SenderPanics(m) \/ SendReturn(m)
  \/ \E c \in Channels : Dispatch(m, c)

Submitting(m) == AsyncSubmit(m) \/ AsyncReject(m)

Next ==
  \/ \E c \in Channels : RegisterSender(c)
  \/ \E m \in Tasks : Sending(m) \/ AsyncEnter(m) \/ Submitting(m)
  \/ \E g \in Goroutines : PoolTake(g) \/ PoolFinish(g)
  \/ CloseBegin \/ CloseStop \/ CloseEnd

Spec == Init /\ [][Next]_vars

(* Whatever began goes on: senders return, contexts end, the pool works.   *)
Fairness ==
  /\ \A m \in Tasks : /\ WF_vars(stage[m] # "new" /\ Sending(m))
                      /\ WF_vars(Submitting(m))
  /\ \A g \in Goroutines : WF_vars(PoolTake(g)) /\ WF_vars(PoolFinish(g))
  /\ WF_vars(CloseStop) /\ WF_vars(CloseEnd)

FairSpec == Spec /\ Fairness

-----------------------------------------------------------------------------

(* One failing or missing channel does not keep the message from the       *)
(* others: a Send that returns has dealt with every channel the message    *)
(* names or, if it names none, every channel that was registered when Send *)
(* made its list; and each of the latter still has its sender when Send    *)
(* comes to it, although list and lookups are critical sections of their   *)
(* own with RegisterSender in between.                                     *)
EveryChannelTried ==
  \A m \in Tasks :
    /\ verdict[m] = "handled" =>
         \A c \in Wanted[m] \cup channels[m] : outcome[m][c] # "none"
    /\ Wanted[m] = {} => \A c \in Channels : outcome[m][c] # "no_sender"

(* Close "gracefully stops the worker pool": once it has returned, no      *)
(* message is in the pool, however its SendAsync raced with Close.         *)
CloseQuiesces ==
  closing = "closed" =>
    \A m \in AsyncMsgs : ~Pending(m) /\ stage[m] \in {"new", "entered", "done"}

(* SKILL.md of the notifications, "drains in-flight async tasks            *)
(* gracefully": no message accepted by SendAsync is dropped by Close.      *)
AcceptedNotDropped ==
  \A m \in AsyncMsgs : ~(InFlight(m) /\ verdict[m] = "broker_closed")

(* Close returns, for it holds no lock that the tasks it waits for need,   *)
(* and every message SendAsync accepted is dealt with.                     *)
CloseReturns ==
  /\ closing = "draining" ~> closing = "closed"
  /\ \A m \in AsyncMsgs : stage[m] = "accepted" ~> stage[m] = "done"

=============================================================================
