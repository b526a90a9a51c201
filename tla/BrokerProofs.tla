---------------------------- MODULE BrokerProofs ----------------------------
(* Proofs about NotificationBroker, for every number of messages, channels *)
(* and goroutines, every queue size and every choice of channels.          *)
EXTENDS NotificationBroker, PoolProofs

-----------------------------------------------------------------------------
(* The inductive invariant.  The pool holds exactly the messages whose     *)
(* SendAsync returned nil and whose task has not ended; a Send on its way  *)
(* through its list has dealt with the channels it took off the list; and  *)
(* the pool of a closed broker is drained for good.                        *)

PoolHasAccepted ==
  /\ \A m \in Tasks :
       Pending(m) => /\ m \in AsyncMsgs
                     /\ stage[m] \notin {"new", "entered"}
  /\ \A m \in AsyncMsgs :
       stage[m] \in {"accepted", "listed", "sending"} => Pending(m)

StagesFollow ==
  \A m \in Tasks : /\ stage[m] \in {"entered", "accepted"} => m \in AsyncMsgs
                   /\ verdict[m] # "none" => stage[m] = "done"

ListShrinksByOutcome ==
  \A m \in Tasks :
    stage[m] = "sending" \/ verdict[m] = "handled" =>
      \A c \in Wanted[m] \cup channels[m] :
        (c \in todo[m] /\ stage[m] = "sending") \/ outcome[m][c] # "none"

OnlyRegisteredListed ==
  \A m \in Tasks :
    Wanted[m] = {} => /\ todo[m] \subseteq senders
                      /\ \A c \in Channels : outcome[m][c] # "no_sender"

ClosedStaysDrained ==
  /\ closing # "open" => closed
  /\ closing = "closed" => Drained

BrokerInv ==
  /\ EnqueuedOnce
  /\ PoolHasAccepted
  /\ StagesFollow
  /\ ListShrinksByOutcome
  /\ OnlyRegisteredListed
  /\ ClosedStaysDrained

-----------------------------------------------------------------------------

(* A broker that has just been made. *)
LEMMA BrokerStart == Init => BrokerTypeOK /\ BrokerInv
<1> SUFFICES ASSUME Init PROVE BrokerTypeOK /\ BrokerInv
  OBVIOUS
<1>1. PoolTypeOK /\ EnqueuedOnce /\ \A m \in Tasks : ~Pending(m)
  BY PoolStart DEF Init
<1>2. BrokerTypeOK
  BY <1>1 DEF Init, BrokerTypeOK, Stages, Outcomes, Verdicts
<1>3. BrokerInv
  BY <1>1 DEF Init, BrokerInv, PoolHasAccepted, StagesFollow, AsyncMsgs,
              ListShrinksByOutcome, OnlyRegisteredListed, ClosedStaysDrained
<1>4. QED
  BY <1>2, <1>3

(* What every step that leaves the pool alone has in common. *)
LEMMA PoolUntouched ==
  ASSUME BrokerTypeOK, BrokerInv, UNCHANGED poolVars
  PROVE  /\ PoolTypeOK'
         /\ EnqueuedOnce'
         /\ \A u \in Tasks : /\ InFlight(u)' <=> InFlight(u)
                             /\ Pending(u)' <=> Pending(u)
         /\ Drained' <=> Drained
  BY PoolStutter DEF BrokerTypeOK, BrokerInv

(* A sender registered in the middle of a Send only makes more channels    *)
(* known.                                                                  *)
LEMMA RegisterSenderKeeps ==
  ASSUME BrokerTypeOK, BrokerInv, NEW c \in Channels, RegisterSender(c)
  PROVE  BrokerTypeOK' /\ BrokerInv'
<1>1. /\ UNCHANGED <<poolVars, closed, closing, stage, channels, todo, outcome, verdict>>
      /\ senders \subseteq senders'
      /\ senders' \in SUBSET Channels
  BY DEF RegisterSender, BrokerTypeOK
<1>pool. /\ PoolTypeOK'
         /\ EnqueuedOnce'
         /\ \A u \in Tasks : /\ InFlight(u)' <=> InFlight(u)
                             /\ Pending(u)' <=> Pending(u)
         /\ Drained' <=> Drained
  BY <1>1, PoolUntouched
<1>2. BrokerTypeOK'
  BY <1>1, <1>pool DEF BrokerTypeOK
<1>3. QED
  BY <1>1, <1>2, <1>pool
  DEF BrokerInv, PoolHasAccepted, StagesFollow, AsyncMsgs, ListShrinksByOutcome,
      OnlyRegisteredListed, ClosedStaysDrained

(* A message ends without a word of its channels: no step of another       *)
(* message notices, and the pool keeps its task for the goroutine to drop. *)
LEMMA EndKeeps ==
  ASSUME BrokerTypeOK, BrokerInv, NEW m \in Tasks,
         NEW v \in Verdicts, End(m, v), v # "none",
         v = "handled" => stage[m] = "sending" /\ todo[m] = {},
         UNCHANGED <<poolVars, senders, closed, closing, channels, todo, outcome>>
  PROVE  BrokerTypeOK' /\ BrokerInv'
<1>1. /\ stage' = [stage EXCEPT ![m] = "done"]
      /\ verdict' = [verdict EXCEPT ![m] = v]
  BY DEF End, Move
<1>pool. /\ PoolTypeOK'
         /\ EnqueuedOnce'
         /\ \A u \in Tasks : /\ InFlight(u)' <=> InFlight(u)
                             /\ Pending(u)' <=> Pending(u)
         /\ Drained' <=> Drained
  BY PoolUntouched
<1>2. BrokerTypeOK'
  BY <1>1, <1>pool DEF BrokerTypeOK, Stages
<1>3. PoolHasAccepted' /\ StagesFollow'
  BY <1>1, <1>pool
  DEF BrokerTypeOK, BrokerInv, PoolHasAccepted, StagesFollow, AsyncMsgs
<1>4. ListShrinksByOutcome'
  BY <1>1 DEF BrokerTypeOK, BrokerInv, ListShrinksByOutcome
<1>5. OnlyRegisteredListed'
  BY DEF BrokerInv, OnlyRegisteredListed
<1>6. QED
  BY <1>2, <1>3, <1>4, <1>5, <1>pool DEF BrokerInv, ClosedStaysDrained

(* Send begins, in its caller or in a task of the pool. *)
LEMMA SendEnterKeeps ==
  ASSUME BrokerTypeOK, BrokerInv, NEW m \in Tasks, SendEnter(m)
  PROVE  BrokerTypeOK' /\ BrokerInv'
<1>1. UNCHANGED <<poolVars, senders, closed, closing, channels, todo, outcome>>
  BY DEF SendEnter
<1>pool. /\ PoolTypeOK'
         /\ EnqueuedOnce'
         /\ \A u \in Tasks : /\ InFlight(u)' <=> InFlight(u)
                             /\ Pending(u)' <=> Pending(u)
         /\ Drained' <=> Drained
  BY <1>1, PoolUntouched
<1>2. CASE End(m, "broker_closed")
  BY <1>1, <1>2, EndKeeps DEF Verdicts
<1>3. CASE Move(m, "listed") /\ UNCHANGED verdict
  <2>1. stage' = [stage EXCEPT ![m] = "listed"] /\ UNCHANGED verdict
    BY <1>3 DEF Move
  <2>2. /\ verdict[m] = "none"
        /\ m \in AsyncMsgs => Pending(m)
    BY DEF SendEnter, BrokerInv, StagesFollow, Pending, AsyncMsgs
  <2>3. BrokerTypeOK'
    BY <1>1, <2>1, <1>pool DEF BrokerTypeOK, Stages
  <2>4. PoolHasAccepted' /\ StagesFollow'
    BY <1>1, <2>1, <2>2, <1>pool
    DEF BrokerTypeOK, BrokerInv, PoolHasAccepted, StagesFollow, AsyncMsgs
  <2>5. ListShrinksByOutcome'
    BY <1>1, <2>1, <2>2 DEF BrokerTypeOK, BrokerInv, ListShrinksByOutcome
  <2>6. OnlyRegisteredListed'
    BY <1>1 DEF BrokerInv, OnlyRegisteredListed
  <2>7. QED
    BY <1>1, <2>3, <2>4, <2>5, <2>6, <1>pool DEF BrokerInv, ClosedStaysDrained
<1>4. QED
  BY <1>2, <1>3 DEF SendEnter

(* The list of channels is made whole in one critical section. *)
LEMMA ListChannelsKeeps ==
  ASSUME BrokerTypeOK, BrokerInv, NEW m \in Tasks, ListChannels(m)
  PROVE  BrokerTypeOK' /\ BrokerInv'
<1>1. /\ stage[m] = "listed"
      /\ stage' = [stage EXCEPT ![m] = "sending"]
      /\ channels' = [channels EXCEPT ![m] = IF Wanted[m] = {} THEN senders ELSE Wanted[m]]
      /\ todo' = [todo EXCEPT ![m] = channels'[m]]
      /\ UNCHANGED <<poolVars, senders, closed, closing, outcome, verdict>>
  BY DEF ListChannels, Move
<1>pool. /\ PoolTypeOK'
         /\ EnqueuedOnce'
         /\ \A u \in Tasks : /\ InFlight(u)' <=> InFlight(u)
                             /\ Pending(u)' <=> Pending(u)
         /\ Drained' <=> Drained
  BY <1>1, PoolUntouched
<1>2. BrokerTypeOK'
  BY <1>1, <1>pool, BrokerAssumption DEF BrokerTypeOK, Stages
<1>3. PoolHasAccepted' /\ StagesFollow'
  BY <1>1, <1>pool
  DEF BrokerTypeOK, BrokerInv, PoolHasAccepted, StagesFollow, AsyncMsgs
<1>4. ListShrinksByOutcome' /\ OnlyRegisteredListed'
  BY <1>1 DEF BrokerTypeOK, BrokerInv, StagesFollow, ListShrinksByOutcome,
              OnlyRegisteredListed
<1>5. QED
  BY <1>1, <1>2, <1>3, <1>4, <1>pool DEF BrokerInv, ClosedStaysDrained

(* A channel leaves the list with an outcome; only a channel the message   *)
(* names can be without a sender by then.                                  *)
LEMMA DispatchKeeps ==
  ASSUME BrokerTypeOK, BrokerInv, NEW m \in Tasks, NEW c \in Channels, Dispatch(m, c)
  PROVE  BrokerTypeOK' /\ BrokerInv'
<1>1. PICK result \in IF c \in senders THEN {"sent", "failed"} ELSE {"no_sender"} :
        outcome' = [outcome EXCEPT ![m][c] = result]
  BY DEF Dispatch
<1>2. /\ stage[m] = "sending"
      /\ c \in todo[m]
      /\ todo' = [todo EXCEPT ![m] = @ \ {c}]
      /\ UNCHANGED <<poolVars, senders, closed, closing, stage, channels, verdict>>
  BY DEF Dispatch
<1>pool. /\ PoolTypeOK'
         /\ EnqueuedOnce'
         /\ \A u \in Tasks : /\ InFlight(u)' <=> InFlight(u)
                             /\ Pending(u)' <=> Pending(u)
         /\ Drained' <=> Drained
  BY <1>2, PoolUntouched
<1>3. result \in Outcomes /\ result # "none"
  BY <1>1 DEF Outcomes
<1>4. BrokerTypeOK'
  BY <1>1, <1>2, <1>3, <1>pool DEF BrokerTypeOK
<1>5. PoolHasAccepted' /\ StagesFollow'
  BY <1>2, <1>pool
  DEF BrokerTypeOK, BrokerInv, PoolHasAccepted, StagesFollow, AsyncMsgs
<1>6. \A n \in Tasks, d \in Channels :
        outcome'[n][d] = IF n = m /\ d = c THEN result ELSE outcome[n][d]
  BY <1>1 DEF BrokerTypeOK
<1>7. ListShrinksByOutcome'
  BY <1>2, <1>3, <1>6, BrokerAssumption
  DEF BrokerTypeOK, BrokerInv, ListShrinksByOutcome
<1>8. OnlyRegisteredListed'
  <2>1. Wanted[m] = {} => result # "no_sender"
    BY <1>1, <1>2 DEF BrokerInv, OnlyRegisteredListed
  <2>2. QED
    BY <1>2, <1>6, <2>1 DEF BrokerTypeOK, BrokerInv, OnlyRegisteredListed
<1>9. QED
  BY <1>2, <1>4, <1>5, <1>7, <1>8, <1>pool DEF BrokerInv, ClosedStaysDrained

(* A Send that ends: for want of recipients, in a panic, or with its list  *)
(* empty.                                                                  *)
LEMMA SendEndsKeeps ==
  ASSUME BrokerTypeOK, BrokerInv, NEW m \in Tasks,
         NoRecipients(m) \/ SenderPanics(m) \/ SendReturn(m)
  PROVE  BrokerTypeOK' /\ BrokerInv'
<1>1. UNCHANGED <<poolVars, senders, closed, closing, channels, todo, outcome>>
  BY DEF NoRecipients, SenderPanics, SendReturn
<1>2. CASE NoRecipients(m)
  BY <1>1, <1>2, EndKeeps DEF NoRecipients, Verdicts
<1>3. CASE SenderPanics(m)
  BY <1>1, <1>3, EndKeeps DEF SenderPanics, Verdicts
<1>4. CASE SendReturn(m)
  BY <1>1, <1>4, EndKeeps DEF SendReturn, Verdicts
<1>5. QED
  BY <1>2, <1>3, <1>4

-----------------------------------------------------------------------------

(* SendAsync passes its closed check, or ends there. *)
LEMMA AsyncEnterKeeps ==
  ASSUME BrokerTypeOK, BrokerInv, NEW m \in Tasks, AsyncEnter(m)
  PROVE  BrokerTypeOK' /\ BrokerInv'
<1>1. /\ m \in AsyncMsgs
      /\ stage[m] = "new"
      /\ UNCHANGED <<poolVars, senders, closed, closing, channels, todo, outcome>>
  BY DEF AsyncEnter
<1>pool. /\ PoolTypeOK'
         /\ EnqueuedOnce'
         /\ \A u \in Tasks : /\ InFlight(u)' <=> InFlight(u)
                             /\ Pending(u)' <=> Pending(u)
         /\ Drained' <=> Drained
  BY <1>1, PoolUntouched
<1>2. CASE End(m, "broker_closed")
  BY <1>1, <1>2, EndKeeps DEF Verdicts
<1>3. CASE Move(m, "entered") /\ UNCHANGED verdict
  <2>1. stage' = [stage EXCEPT ![m] = "entered"] /\ UNCHANGED verdict
    BY <1>3 DEF Move
  <2>2. BrokerTypeOK'
    BY <1>1, <2>1, <1>pool DEF BrokerTypeOK, Stages
  <2>3. PoolHasAccepted' /\ StagesFollow'
    BY <1>1, <2>1, <1>pool
    DEF BrokerTypeOK, BrokerInv, PoolHasAccepted, StagesFollow, AsyncMsgs
  <2>4. ListShrinksByOutcome' /\ OnlyRegisteredListed'
    BY <1>1, <2>1
    DEF BrokerTypeOK, BrokerInv, StagesFollow, ListShrinksByOutcome,
        OnlyRegisteredListed
  <2>5. QED
    BY <1>1, <2>2, <2>3, <2>4, <1>pool DEF BrokerInv, ClosedStaysDrained
<1>4. QED
  BY <1>2, <1>3 DEF AsyncEnter

(* The pool takes the message, which it does not have, before it stops. *)
LEMMA AsyncSubmitKeeps ==
  ASSUME BrokerTypeOK, BrokerInv, NEW m \in Tasks, AsyncSubmit(m)
  PROVE  BrokerTypeOK' /\ BrokerInv'
<1>1. /\ stage[m] = "entered"
      /\ Enqueue(m)
      /\ stage' = [stage EXCEPT ![m] = "accepted"]
      /\ UNCHANGED <<senders, closed, closing, channels, todo, outcome, verdict>>
  BY DEF AsyncSubmit, Move
<1>2. ~Pending(m) /\ m \in AsyncMsgs /\ verdict[m] = "none"
  BY <1>1 DEF BrokerInv, PoolHasAccepted, StagesFollow, AsyncMsgs
<1>3. /\ PoolTypeOK'
      /\ EnqueuedOnce'
      /\ \A u \in Tasks : Pending(u)' <=> Pending(u) \/ u = m
      /\ ~stopping
  BY <1>1, <1>2, EnqueueEffect DEF BrokerTypeOK, BrokerInv
<1>4. BrokerTypeOK'
  BY <1>1, <1>3 DEF BrokerTypeOK, Stages
<1>5. PoolHasAccepted' /\ StagesFollow'
  BY <1>1, <1>2, <1>3
  DEF BrokerTypeOK, BrokerInv, PoolHasAccepted, StagesFollow, AsyncMsgs
<1>6. ListShrinksByOutcome' /\ OnlyRegisteredListed'
  BY <1>1, <1>2 DEF BrokerTypeOK, BrokerInv, ListShrinksByOutcome, OnlyRegisteredListed
<1>7. ClosedStaysDrained'
  BY <1>1, <1>3 DEF BrokerInv, ClosedStaysDrained, Drained
<1>8. QED
  BY <1>3, <1>4, <1>5, <1>6, <1>7 DEF BrokerInv

(* SendAsync gives up: the pool never had the message. *)
LEMMA AsyncRejectKeeps ==
  ASSUME BrokerTypeOK, BrokerInv, NEW m \in Tasks, AsyncReject(m)
  PROVE  BrokerTypeOK' /\ BrokerInv'
  BY EndKeeps DEF AsyncReject, Verdicts

-----------------------------------------------------------------------------

(* A goroutine takes a message, or lets go of one whose Send has ended. *)
LEMMA PoolWorkKeeps ==
  ASSUME BrokerTypeOK, BrokerInv, NEW g \in Goroutines, PoolTake(g) \/ PoolFinish(g)
  PROVE  BrokerTypeOK' /\ BrokerInv'
<1>1. UNCHANGED <<senders, closed, closing, stage, channels, todo, outcome, verdict>>
  BY DEF PoolTake, PoolFinish, brokerVars
<1>2. /\ PoolTypeOK'
      /\ EnqueuedOnce'
      /\ \A u \in Tasks : Pending(u)' => Pending(u)
      /\ \A u \in Tasks : Pending(u) => Pending(u)' \/ stage[u] = "done"
      /\ ~Drained
  BY TakeEffect, FinishEffect DEF PoolTake, PoolFinish, BrokerTypeOK, BrokerInv
<1>3. BrokerTypeOK'
  BY <1>1, <1>2 DEF BrokerTypeOK
<1>4. PoolHasAccepted' /\ StagesFollow'
  BY <1>1, <1>2
  DEF BrokerTypeOK, BrokerInv, PoolHasAccepted, StagesFollow, AsyncMsgs
<1>5. ListShrinksByOutcome' /\ OnlyRegisteredListed' /\ ClosedStaysDrained'
  BY <1>1, <1>2
  DEF BrokerInv, ListShrinksByOutcome, OnlyRegisteredListed, ClosedStaysDrained
<1>6. QED
  BY <1>2, <1>3, <1>4, <1>5 DEF BrokerInv

(* Close marks the broker, stops the pool, and returns when it is drained. *)
LEMMA CloseKeeps ==
  ASSUME BrokerTypeOK, BrokerInv, CloseBegin \/ CloseStop \/ CloseEnd
  PROVE  BrokerTypeOK' /\ BrokerInv'
<1>1. UNCHANGED <<senders, stage, channels, todo, outcome, verdict>>
  BY DEF CloseBegin, CloseStop, CloseEnd, brokerVars
<1>2. /\ PoolTypeOK'
      /\ EnqueuedOnce'
      /\ \A u \in Tasks : Pending(u)' <=> Pending(u)
  BY StopAcceptingEffect, PoolUntouched
  DEF CloseBegin, CloseStop, CloseEnd, BrokerTypeOK, BrokerInv
<1>3. closed' \in BOOLEAN /\ closing' \in {"open", "draining", "closed"}
  BY DEF CloseBegin, CloseStop, CloseEnd, brokerVars, BrokerTypeOK
<1>4. ClosedStaysDrained'
  BY PoolUntouched
  DEF CloseBegin, CloseStop, CloseEnd, brokerVars, BrokerInv, ClosedStaysDrained
<1>5. BrokerTypeOK'
  BY <1>1, <1>2, <1>3 DEF BrokerTypeOK
<1>6. PoolHasAccepted' /\ StagesFollow' /\ ListShrinksByOutcome' /\ OnlyRegisteredListed'
  BY <1>1, <1>2
  DEF BrokerInv, PoolHasAccepted, StagesFollow, ListShrinksByOutcome,
      OnlyRegisteredListed, AsyncMsgs
<1>7. QED
  BY <1>2, <1>4, <1>5, <1>6 DEF BrokerInv

(* Every step of the broker keeps its type and the invariant. *)
LEMMA BrokerStep == BrokerTypeOK /\ BrokerInv /\ [Next]_vars => BrokerTypeOK' /\ BrokerInv'
<1> SUFFICES ASSUME BrokerTypeOK, BrokerInv, [Next]_vars
             PROVE  BrokerTypeOK' /\ BrokerInv'
  OBVIOUS
<1>1. CASE \E c \in Channels : RegisterSender(c)
  BY <1>1, RegisterSenderKeeps
<1>2. ASSUME NEW m \in Tasks, Sending(m)
      PROVE  BrokerTypeOK' /\ BrokerInv'
  BY <1>2, SendEnterKeeps, ListChannelsKeeps, DispatchKeeps, SendEndsKeeps DEF Sending
<1>3. ASSUME NEW m \in Tasks, AsyncEnter(m) \/ Submitting(m)
      PROVE  BrokerTypeOK' /\ BrokerInv'
  BY <1>3, AsyncEnterKeeps, AsyncSubmitKeeps, AsyncRejectKeeps DEF Submitting
<1>4. CASE \E g \in Goroutines : PoolTake(g) \/ PoolFinish(g)
  BY <1>4, PoolWorkKeeps
<1>5. CASE CloseBegin \/ CloseStop \/ CloseEnd
  BY <1>5, CloseKeeps
<1>6. CASE UNCHANGED vars
  <2>1. UNCHANGED <<poolVars, senders, closed, closing, stage, channels, todo, outcome, verdict>>
    BY <1>6 DEF vars, brokerVars
  <2>2. /\ PoolTypeOK'
        /\ EnqueuedOnce'
        /\ \A u \in Tasks : Pending(u)' <=> Pending(u)
        /\ Drained' <=> Drained
    BY <2>1, PoolUntouched
  <2>3. BrokerTypeOK'
    BY <2>1, <2>2 DEF BrokerTypeOK
  <2>4. QED
    BY <2>1, <2>2, <2>3
    DEF BrokerInv, PoolHasAccepted, StagesFollow, AsyncMsgs, ListShrinksByOutcome,
        OnlyRegisteredListed, ClosedStaysDrained
<1>7. QED
  BY <1>1, <1>2, <1>3, <1>4, <1>5, <1>6 DEF Next

(* The broker's variables keep their types, and its invariant holds. *)
THEOREM BrokerInvariant == Spec => [](BrokerTypeOK /\ BrokerInv)
  BY BrokerStart, BrokerStep, PTL DEF Spec

-----------------------------------------------------------------------------

(* Every variable of the broker and of its pool keeps its type, and the    *)
(* queue never outgrows its configured size.                               *)
THEOREM BrokerTypeCorrect == Spec => []BrokerTypeOK
  BY BrokerInvariant, PTL

(* A Send that returns has dealt with every channel it was asked for, and  *)
(* one that named none never missed a sender, whoever registers meanwhile. *)
THEOREM FanOutComplete == Spec => []EveryChannelTried
<1>1. BrokerInv => EveryChannelTried
  BY DEF BrokerInv, StagesFollow, ListShrinksByOutcome, OnlyRegisteredListed,
         EveryChannelTried
<1>2. QED
  BY <1>1, BrokerInvariant, PTL

(* When Close has returned, no message is in the pool or on its way out of *)
(* it, however SendAsync raced with Close.                                 *)
THEOREM CloseLeavesNothing == Spec => []CloseQuiesces
<1>1. BrokerTypeOK /\ BrokerInv => CloseQuiesces
  BY DrainedHasNone
  DEF BrokerTypeOK, BrokerInv, ClosedStaysDrained, PoolHasAccepted, AsyncMsgs,
      Stages, CloseQuiesces
<1>2. QED
  BY <1>1, BrokerInvariant, PTL

=============================================================================
