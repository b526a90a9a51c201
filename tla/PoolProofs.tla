----------------------------- MODULE PoolProofs -----------------------------
(* What each operation of WorkerPool does to its queue and goroutines, for *)
(* every number of tasks and goroutines and every queue size: the lemmas   *)
(* the proofs about the pool's two users, the audit recorder and the       *)
(* notification broker, rest on.                                           *)
EXTENDS WorkerPool, TLAPS

(* A task is in one place of the queue or on one goroutine, never on two:  *)
(* what a pool promises to users that submit each task once.               *)
EnqueuedOnce ==
  /\ \A i, j \in DOMAIN queue : queue[i] = queue[j] => i = j
  /\ \A g, h \in Goroutines : running[g] = running[h] /\ running[g] # NoTask => g = h
  /\ \A t \in Tasks : ~(Queued(t) /\ InFlight(t))

(* A pool that has just started is well formed and has nothing to do. *)
LEMMA PoolStart ==
  ASSUME PoolInit
  PROVE  PoolTypeOK /\ EnqueuedOnce /\ \A t \in Tasks : ~Pending(t)
<1>1. PoolTypeOK
  <2>1. <<>> \in Seq(Tasks) /\ Len(<<>>) = 0
    OBVIOUS
  <2>2. 0 <= QueueSize
    BY WorkerPoolAssumption
  <2>3. QED
    BY <2>1, <2>2 DEF PoolInit, PoolTypeOK
<1>2. \A t \in Tasks : ~Queued(t) /\ ~InFlight(t)
  BY WorkerPoolAssumption DEF PoolInit, Queued, InFlight
<1>3. QED
  BY <1>1, <1>2 DEF PoolInit, EnqueuedOnce, Pending

(* Submit adds the one task at the end of the queue, and keeps every task  *)
(* in one place if this one was in none.                                   *)
LEMMA EnqueueEffect ==
  ASSUME PoolTypeOK, EnqueuedOnce, NEW t \in Tasks, ~Pending(t), Enqueue(t)
  PROVE  /\ PoolTypeOK'
         /\ EnqueuedOnce'
         /\ \A u \in Tasks : /\ Queued(u)' <=> Queued(u) \/ u = t
                             /\ InFlight(u)' <=> InFlight(u)
                             /\ Pending(u)' <=> Pending(u) \/ u = t
         /\ UNCHANGED <<running, stopping>>
         /\ ~stopping
<1> USE WorkerPoolAssumption
<1>1. /\ queue' \in Seq(Tasks)
      /\ Len(queue') = Len(queue) + 1
      /\ \A i \in 1 .. Len(queue) : queue'[i] = queue[i]
      /\ queue'[Len(queue) + 1] = t
      /\ DOMAIN queue = 1 .. Len(queue)
      /\ DOMAIN queue' = 1 .. Len(queue) + 1
      /\ Len(queue) \in Nat
  BY DEF PoolTypeOK, Enqueue
<1>2. PoolTypeOK'
  BY <1>1 DEF PoolTypeOK, Enqueue, QueueFull
<1>3. \A u : Queued(u)' <=> Queued(u) \/ u = t
  BY <1>1 DEF Queued
<1>4. \A u : InFlight(u)' <=> InFlight(u)
  BY DEF InFlight, Enqueue
<1>5. EnqueuedOnce'
  <2>1. \A i, j \in DOMAIN queue' : queue'[i] = queue'[j] => i = j
    BY <1>1 DEF EnqueuedOnce, Pending, Queued
  <2>2. \A g, h \in Goroutines : running'[g] = running'[h] /\ running'[g] # NoTask => g = h
    BY DEF EnqueuedOnce, Enqueue
  <2>3. \A u \in Tasks : ~(Queued(u)' /\ InFlight(u)')
    BY <1>3, <1>4 DEF EnqueuedOnce, Pending
  <2>4. QED
    BY <2>1, <2>2, <2>3 DEF EnqueuedOnce
<1>6. \A u \in Tasks : Pending(u)' <=> Pending(u) \/ u = t
  BY <1>3, <1>4 DEF Pending
<1>7. QED
  BY <1>2, <1>3, <1>4, <1>5, <1>6 DEF Enqueue

(* A goroutine takes the head of the queue: the same tasks are pending.    *)
LEMMA TakeEffect ==
  ASSUME PoolTypeOK, EnqueuedOnce, NEW g \in Goroutines, Take(g)
  PROVE  /\ PoolTypeOK'
         /\ EnqueuedOnce'
         /\ \A u \in Tasks : /\ Queued(u)' => Queued(u)
                             /\ InFlight(u) => InFlight(u)'
                             /\ Pending(u)' <=> Pending(u)
         /\ UNCHANGED stopping
         /\ ~Drained
<1> USE WorkerPoolAssumption
<1>1. /\ Len(queue) \in Nat \ {0}
      /\ Head(queue) = queue[1]
      /\ Head(queue) \in Tasks
      /\ queue' \in Seq(Tasks)
      /\ Len(queue') = Len(queue) - 1
      /\ DOMAIN queue = 1 .. Len(queue)
      /\ DOMAIN queue' = 1 .. Len(queue) - 1
      /\ \A i \in 1 .. Len(queue) - 1 : queue'[i] = queue[i + 1]
  BY DEF PoolTypeOK, Take
<1>2. PICK t \in Tasks : t = Head(queue)
  BY <1>1
<1>3. \A u : Queued(u) <=> Queued(u)' \/ u = t
  <2>1. ASSUME NEW u, NEW i \in DOMAIN queue, queue[i] = u, i # 1
        PROVE  Queued(u)'
    <3>1. i - 1 \in DOMAIN queue' /\ queue'[i - 1] = u
      BY <1>1, <2>1
    <3>2. QED
      BY <3>1 DEF Queued
  <2>2. ASSUME NEW u, NEW i \in DOMAIN queue', queue'[i] = u
        PROVE  Queued(u)
    <3>1. i + 1 \in DOMAIN queue /\ queue[i + 1] = u
      BY <1>1, <2>2
    <3>2. QED
      BY <3>1 DEF Queued
  <2>3. Queued(t) /\ queue[1] = t
    BY <1>1, <1>2 DEF Queued
  <2>4. \A u : Queued(u) => Queued(u)' \/ u = t
    BY <2>1, <2>3 DEF Queued
  <2>5. \A u : Queued(u)' => Queued(u)
    BY <2>2 DEF Queued
  <2>6. QED
    BY <2>3, <2>4, <2>5
<1>4. ~Queued(t)'
  BY <1>1, <1>2 DEF Queued, EnqueuedOnce
<1>5. /\ running' = [running EXCEPT ![g] = t]
      /\ running[g] = NoTask
      /\ running \in [Goroutines -> Tasks \cup {NoTask}]
  BY <1>2 DEF Take, PoolTypeOK
<1>6. PoolTypeOK'
  BY <1>1, <1>5 DEF PoolTypeOK, Take
<1>7. \A u \in Tasks : InFlight(u)' <=> InFlight(u) \/ u = t
  BY <1>5 DEF InFlight
<1>8. EnqueuedOnce'
  <2>1. ASSUME NEW i \in DOMAIN queue', NEW j \in DOMAIN queue', queue'[i] = queue'[j]
        PROVE  i = j
    <3>1. /\ i + 1 \in DOMAIN queue
          /\ j + 1 \in DOMAIN queue
          /\ queue[i + 1] = queue[j + 1]
      BY <1>1, <2>1
    <3>2. i + 1 = j + 1
      BY <3>1 DEF EnqueuedOnce
    <3>3. QED
      BY <1>1, <3>2
  <2>2. \A h \in Goroutines : running[h] # t
    BY <1>3 DEF EnqueuedOnce, InFlight
  <2>3. \A h, k \in Goroutines :
          running'[h] = running'[k] /\ running'[h] # NoTask => h = k
    BY <1>5, <2>2 DEF EnqueuedOnce
  <2>4. \A u \in Tasks : ~(Queued(u)' /\ InFlight(u)')
    BY <1>3, <1>4, <1>7 DEF EnqueuedOnce
  <2>5. QED
    BY <2>1, <2>3, <2>4 DEF EnqueuedOnce
<1>9. QED
  BY <1>1, <1>3, <1>6, <1>7, <1>8 DEF Pending, Take, Drained

(* A goroutine that finishes leaves its task, and no other, nowhere.       *)
LEMMA FinishEffect ==
  ASSUME PoolTypeOK, EnqueuedOnce, NEW g \in Goroutines, Finish(g)
  PROVE  /\ PoolTypeOK'
         /\ EnqueuedOnce'
         /\ running[g] \in Tasks
         /\ InFlight(running[g])
         /\ \A u \in Tasks : /\ Queued(u)' <=> Queued(u)
                             /\ InFlight(u)' <=> InFlight(u) /\ u # running[g]
                             /\ Pending(u)' <=> Pending(u) /\ u # running[g]
         /\ UNCHANGED <<queue, stopping>>
         /\ ~Drained
<1> USE WorkerPoolAssumption
<1>1. /\ running' = [running EXCEPT ![g] = NoTask]
      /\ running[g] \in Tasks
      /\ running \in [Goroutines -> Tasks \cup {NoTask}]
      /\ UNCHANGED <<queue, stopping>>
  BY DEF PoolTypeOK, Finish
<1>2. PoolTypeOK'
  BY <1>1 DEF PoolTypeOK
<1>3. \A u : Queued(u)' <=> Queued(u)
  BY <1>1 DEF Queued
<1>4. \A u \in Tasks : InFlight(u)' <=> InFlight(u) /\ u # running[g]
  BY <1>1 DEF InFlight, EnqueuedOnce
<1>5. EnqueuedOnce'
  BY <1>1, <1>3, <1>4 DEF EnqueuedOnce
<1>6. InFlight(running[g])
  BY <1>1 DEF InFlight
<1>7. QED
  BY <1>1, <1>2, <1>3, <1>4, <1>5, <1>6 DEF EnqueuedOnce, Pending, Drained

(* StopWait's first half leaves the tasks where they are. *)
LEMMA StopAcceptingEffect ==
  ASSUME PoolTypeOK, EnqueuedOnce, StopAccepting
  PROVE  /\ PoolTypeOK'
         /\ EnqueuedOnce'
         /\ \A u \in Tasks : /\ Queued(u)' <=> Queued(u)
                             /\ InFlight(u)' <=> InFlight(u)
                             /\ Pending(u)' <=> Pending(u)
         /\ UNCHANGED <<queue, running>>
         /\ stopping'
  BY DEF StopAccepting, PoolTypeOK, EnqueuedOnce, Pending, Queued, InFlight

(* So does a step that is not the pool's. *)
LEMMA PoolStutter ==
  ASSUME PoolTypeOK, EnqueuedOnce, UNCHANGED poolVars
  PROVE  /\ PoolTypeOK'
         /\ EnqueuedOnce'
         /\ \A u \in Tasks : /\ Queued(u)' <=> Queued(u)
                             /\ InFlight(u)' <=> InFlight(u)
                             /\ Pending(u)' <=> Pending(u)
         /\ UNCHANGED stopping
         /\ Drained' <=> Drained
  BY DEF poolVars, PoolTypeOK, EnqueuedOnce, Pending, Queued, InFlight, Drained

(* A drained pool has nothing to do. *)
LEMMA DrainedHasNone ==
  ASSUME PoolTypeOK, Drained
  PROVE  stopping /\ \A t \in Tasks : ~Pending(t)
  BY WorkerPoolAssumption DEF Drained, PoolTypeOK, Pending, Queued, InFlight

=============================================================================
