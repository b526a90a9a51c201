----------------------------- MODULE WorkerPool -----------------------------
(***************************************************************************)
(* The bounded pool of go-libs/workerpool, as audit/audit.go and           *)
(* notifications/broker.go use it: a queue of QueueSize tasks, a fixed     *)
(* number of goroutines, a Submit that does not wait, a SubmitContext that *)
(* does, and a StopWait that refuses new tasks and waits for the accepted  *)
(* ones.  The library is outside the repository: its behaviour is taken    *)
(* from these uses and from audit_test.go, where Close waits for the task  *)
(* that was accepted before it.                                            *)
(***************************************************************************)
EXTENDS Naturals, Sequences

CONSTANTS
  Tasks,        \* what may be submitted
  Goroutines,   \* the goroutines of the pool
  NoTask,       \* an idle goroutine
  QueueSize     \* Config.QueueSize

ASSUME WorkerPoolAssumption ==
  /\ NoTask \notin Tasks
  /\ QueueSize \in Nat \ {0}

VARIABLES queue, running, stopping

poolVars == <<queue, running, stopping>>

PoolTypeOK ==
  /\ queue \in Seq(Tasks)
  /\ Len(queue) <= QueueSize
  /\ running \in [Goroutines -> Tasks \cup {NoTask}]
  /\ stopping \in BOOLEAN

PoolInit ==
  /\ queue = <<>>
  /\ running = [g \in Goroutines |-> NoTask]
  /\ stopping = FALSE

QueueFull == Len(queue) >= QueueSize

(* Submit, or the part of SubmitContext that finds room. *)
Enqueue(t) ==
  /\ ~stopping
  /\ ~QueueFull
  /\ queue' = Append(queue, t)
  /\ UNCHANGED <<running, stopping>>

Take(g) ==
  /\ running[g] = NoTask
  /\ queue # <<>>
  /\ running' = [running EXCEPT ![g] = Head(queue)]
  /\ queue' = Tail(queue)
  /\ UNCHANGED stopping

(* The task returns, or panics and is recovered. *)
Finish(g) ==
  /\ running[g] # NoTask
  /\ running' = [running EXCEPT ![g] = NoTask]
  /\ UNCHANGED <<queue, stopping>>

(* The first half of StopWait; it returns once the pool is drained. *)
StopAccepting ==
  /\ stopping' = TRUE
  /\ UNCHANGED <<queue, running>>

Drained ==
  /\ stopping
  /\ queue = <<>>
  /\ \A g \in Goroutines : running[g] = NoTask

Queued(t)   == \E i \in DOMAIN queue : queue[i] = t
InFlight(t) == \E g \in Goroutines : running[g] = t
Pending(t)  == Queued(t) \/ InFlight(t)

=============================================================================
