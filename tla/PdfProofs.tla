----------------------------- MODULE PdfProofs -----------------------------
(* Proofs about PdfRenderer, for every number of calls and renderers and   *)
(* every choice of limits and semaphores.                                  *)
EXTENDS PdfRenderer, FiniteSetTheorems, TLAPS

-----------------------------------------------------------------------------
(* The inductive invariant.  The calls that hold a slot of a channel are   *)
(* finitely many and exactly as many as the values in it; and a call that  *)
(* waits or renders uses the channel of its renderer, which for a zero     *)
(* value is the one its first call made.                                   *)

Holders(s) == {c \in Calls : pc[c] = "rendering" /\ sem[c] = s}

SlotsHeld ==
  \A s \in Semaphores : /\ IsFiniteSet(Holders(s))
                        /\ slots[s] = Cardinality(Holders(s))

ChannelOfRenderer ==
  \A c \in Calls :
    pc[c] \in {"waiting", "rendering"} =>
      /\ sem[c] \in Semaphores
      /\ ~Overrides(c) /\ RendererOf(c) \in Shared =>
           sem[c] = Semaphore(RendererOf(c), None, Limit[RendererOf(c)])
      /\ ~Overrides(c) /\ RendererOf(c) \in Zero => sem[c] = made[RendererOf(c)]

PdfInv == SlotsHeld /\ ChannelOfRenderer

-----------------------------------------------------------------------------
(* Channels *)

(* Every channel has room for one process at least. *)
LEMMA CapacityPositive ==
  ASSUME NEW s \in Semaphores
  PROVE  s.capacity \in Nat \ {0}
  BY PdfAssumption DEF Semaphores, Semaphore

(* The channel an application gives to a call. *)
LEMMA SuppliedIsSemaphore ==
  ASSUME NEW c \in Calls, Supplied[c] # None
  PROVE  Semaphore("app", None, Supplied[c]) \in Semaphores
  BY DEF Semaphores

(* The channel of a constructed renderer. *)
LEMMA SharedIsSemaphore ==
  ASSUME NEW r \in Shared
  PROVE  /\ Semaphore(r, None, Limit[r]) \in Semaphores
         /\ Semaphore(r, None, Limit[r]).capacity = Limit[r]
  BY DEF Semaphores, Semaphore

(* The channel the first call of a zero value makes, or Generate for one   *)
(* call.                                                                   *)
LEMMA OwnIsSemaphore ==
  ASSUME NEW r \in Zero \cup {None}, NEW c \in Calls
  PROVE  Semaphore(r, c, MaxConcurrency[c]) \in Semaphores
  BY DEF Semaphores

(* A call renders with a shared renderer, a zero value, or one of its own; *)
(* only WithRenderer can give it a zero value.                             *)
LEMMA RendererCases ==
  ASSUME NEW c \in Calls
  PROVE  /\ RendererOf(c) \in Shared \cup Zero \cup {None}
         /\ RendererOf(c) \in Zero <=> Renderer[c] \in Zero
         /\ Renderer[c] \in Zero => RendererOf(c) = Renderer[c]
  BY PdfAssumption DEF RendererOf

-----------------------------------------------------------------------------

(* No call has begun and every channel is empty. *)
LEMMA PdfStart == Init => PdfTypeOK /\ PdfInv
<1> SUFFICES ASSUME Init PROVE PdfTypeOK /\ PdfInv
  OBVIOUS
<1>1. \A s \in Semaphores : 0 <= s.capacity
  BY CapacityPositive
<1>2. PdfTypeOK
  BY <1>1 DEF Init, PdfTypeOK
<1>3. \A s \in Semaphores : Holders(s) = {}
  BY DEF Init, Holders
<1>4. SlotsHeld
  BY <1>3, FS_EmptySet DEF Init, SlotsHeld
<1>5. ChannelOfRenderer
  BY DEF Init, ChannelOfRenderer
<1>6. QED
  BY <1>2, <1>4, <1>5 DEF PdfInv

(* A step that neither starts nor ends a process leaves every holder its   *)
(* slot.                                                                   *)
LEMMA HoldersUntouched ==
  ASSUME PdfTypeOK, PdfInv, NEW c \in Calls, NEW label,
         pc[c] # "rendering", label # "rendering", Goto(c, label),
         \A d \in Calls \ {c} : sem'[d] = sem[d],
         UNCHANGED slots
  PROVE  SlotsHeld'
<1>1. ASSUME NEW s \in Semaphores PROVE Holders(s)' = Holders(s)
  BY DEF Holders, Goto, PdfTypeOK
<1>2. QED
  BY <1>1 DEF PdfInv, SlotsHeld

(* A call begins, is cancelled, or gives up its place in the line. *)
LEMMA EnterKeeps ==
  ASSUME PdfTypeOK, PdfInv, NEW c \in Calls, Enter(c) \/ GiveUp(c)
  PROVE  PdfTypeOK' /\ PdfInv'
<1>1. PICK label \in {"entered", "done"} : Goto(c, label)
  BY DEF Enter, GiveUp
<1>2. /\ pc[c] \in {"new", "waiting"}
      /\ pc' = [pc EXCEPT ![c] = label]
      /\ UNCHANGED <<sem, made, slots, cancelled>>
  BY <1>1 DEF Enter, GiveUp, Goto
<1>3. PdfTypeOK'
  BY <1>2 DEF PdfTypeOK
<1>4. SlotsHeld'
  BY <1>1, <1>2, HoldersUntouched
<1>5. ChannelOfRenderer'
  BY <1>2 DEF PdfTypeOK, PdfInv, ChannelOfRenderer
<1>6. QED
  BY <1>3, <1>4, <1>5 DEF PdfInv

(* A context ends: nobody loses a slot for it. *)
LEMMA CancelKeeps ==
  ASSUME PdfTypeOK, PdfInv, NEW c \in Calls, Cancel(c)
  PROVE  PdfTypeOK' /\ PdfInv'
<1>1. UNCHANGED <<pc, sem, made, slots>> /\ cancelled' \in SUBSET Calls
  BY DEF Cancel, PdfTypeOK
<1>2. \A s \in Semaphores : Holders(s)' = Holders(s)
  BY <1>1 DEF Holders
<1>3. QED
  BY <1>1, <1>2 DEF PdfTypeOK, PdfInv, SlotsHeld, ChannelOfRenderer

(* getSemaphore chooses a channel for the call and takes nobody else's     *)
(* away; a zero value that has made its channel keeps it.                  *)
LEMMA ChooseKeeps ==
  ASSUME PdfTypeOK, PdfInv, NEW c \in Calls, pc[c] = "entered",
         NEW s \in Semaphores,
         pc' = [pc EXCEPT ![c] = "waiting"],
         sem' = [sem EXCEPT ![c] = s],
         made' \in [Zero -> Semaphores \cup {None}],
         \A r \in Zero : made[r] # None => made'[r] = made[r],
         ~Overrides(c) /\ RendererOf(c) \in Shared =>
           s = Semaphore(RendererOf(c), None, Limit[RendererOf(c)]),
         ~Overrides(c) /\ RendererOf(c) \in Zero => s = made'[RendererOf(c)],
         UNCHANGED <<slots, cancelled>>
  PROVE  PdfTypeOK' /\ PdfInv'
<1>1. PdfTypeOK'
  BY DEF PdfTypeOK
<1>2. SlotsHeld'
  BY HoldersUntouched DEF Goto, PdfTypeOK
<1>3. ASSUME NEW d \in Calls, d # c, pc[d] \in {"waiting", "rendering"},
             ~Overrides(d), RendererOf(d) \in Zero
      PROVE  sem[d] = made'[RendererOf(d)]
  <2>1. sem[d] = made[RendererOf(d)] /\ sem[d] # None
    BY <1>3, NoneAssumption DEF PdfInv, ChannelOfRenderer
  <2>2. QED
    BY <1>3, <2>1
<1>4. ChannelOfRenderer'
  BY <1>3 DEF PdfTypeOK, PdfInv, ChannelOfRenderer, Overrides, RendererOf
<1>5. QED
  BY <1>1, <1>2, <1>4 DEF PdfInv

(* opts.Semaphore, where the renderer has none fixed. *)
LEMMA UseSuppliedKeeps ==
  ASSUME PdfTypeOK, PdfInv, NEW c \in Calls, UseSupplied(c)
  PROVE  PdfTypeOK' /\ PdfInv'
<1>1. Supplied[c] # None
  BY DEF UseSupplied, Overrides
<1>2. PICK s \in Semaphores : s = Semaphore("app", None, Supplied[c])
  BY <1>1, SuppliedIsSemaphore
<1>3. /\ pc[c] = "entered"
      /\ Overrides(c)
      /\ sem' = [sem EXCEPT ![c] = s]
      /\ pc' = [pc EXCEPT ![c] = "waiting"]
      /\ UNCHANGED <<made, slots, cancelled>>
  BY <1>2 DEF UseSupplied, Goto
<1>4. made' \in [Zero -> Semaphores \cup {None}]
  BY <1>3 DEF PdfTypeOK
<1>5. QED
  BY <1>3, <1>4, ChooseKeeps

(* The channel of a constructor, or the one made for this call alone. *)
LEMMA UseConstructedKeeps ==
  ASSUME PdfTypeOK, PdfInv, NEW c \in Calls, UseConstructed(c)
  PROVE  PdfTypeOK' /\ PdfInv'
<1>1. RendererOf(c) \in Shared \cup {None} /\ None \notin Shared
  BY RendererCases, PdfAssumption DEF UseConstructed
<1>2. PICK s \in Semaphores :
        s = IF RendererOf(c) = None THEN Semaphore(None, c, MaxConcurrency[c])
            ELSE Semaphore(RendererOf(c), None, Limit[RendererOf(c)])
  BY <1>1, SharedIsSemaphore, OwnIsSemaphore
<1>3. /\ pc[c] = "entered"
      /\ RendererOf(c) \notin Zero
      /\ sem' = [sem EXCEPT ![c] = s]
      /\ pc' = [pc EXCEPT ![c] = "waiting"]
      /\ UNCHANGED <<made, slots, cancelled>>
  BY <1>2 DEF UseConstructed, Goto
<1>4. RendererOf(c) \in Shared =>
        s = Semaphore(RendererOf(c), None, Limit[RendererOf(c)])
  BY <1>1, <1>2
<1>5. made' \in [Zero -> Semaphores \cup {None}]
  BY <1>3 DEF PdfTypeOK
<1>6. QED
  BY <1>3, <1>4, <1>5, ChooseKeeps

(* w.sem, made by whichever call of the zero value comes first. *)
LEMMA UseZeroKeeps ==
  ASSUME PdfTypeOK, PdfInv, NEW c \in Calls, UseZero(c)
  PROVE  PdfTypeOK' /\ PdfInv'
<1>1. PICK r \in Zero : r = Renderer[c] /\ r = RendererOf(c)
  BY RendererCases DEF UseZero
<1>2. r \notin Shared
  BY PdfAssumption
<1>3. PICK s \in Semaphores :
        s = IF made[r] # None THEN made[r] ELSE Semaphore(r, c, MaxConcurrency[c])
  BY OwnIsSemaphore DEF PdfTypeOK
<1>4. /\ pc[c] = "entered"
      /\ made' = [made EXCEPT ![r] = s]
      /\ sem' = [sem EXCEPT ![c] = s]
      /\ pc' = [pc EXCEPT ![c] = "waiting"]
      /\ UNCHANGED <<slots, cancelled>>
  BY <1>1, <1>3 DEF UseZero, Goto
<1>5. /\ made' \in [Zero -> Semaphores \cup {None}]
      /\ made'[r] = s
      /\ \A q \in Zero : made[q] # None => made'[q] = made[q]
  BY <1>3, <1>4 DEF PdfTypeOK
<1>6. QED
  BY <1>1, <1>2, <1>4, <1>5, ChooseKeeps

(* The send on the channel adds one value and one holder. *)
LEMMA AcquireKeeps ==
  ASSUME PdfTypeOK, PdfInv, NEW c \in Calls, Acquire(c)
  PROVE  PdfTypeOK' /\ PdfInv'
<1>1. PICK s \in Semaphores : s = sem[c]
  BY DEF Acquire, PdfInv, ChannelOfRenderer
<1>2. /\ pc[c] = "waiting"
      /\ slots[s] < s.capacity
      /\ slots' = [slots EXCEPT ![s] = @ + 1]
      /\ pc' = [pc EXCEPT ![c] = "rendering"]
      /\ UNCHANGED <<sem, made, cancelled>>
  BY <1>1 DEF Acquire, Goto
<1>3. PdfTypeOK'
  <2>1. slots' \in [Semaphores -> Nat]
    BY <1>2 DEF PdfTypeOK
  <2>2. \A t \in Semaphores : slots'[t] <= t.capacity
    BY <1>2, CapacityPositive DEF PdfTypeOK
  <2>3. QED
    BY <1>2, <2>1, <2>2 DEF PdfTypeOK
<1>4. ASSUME NEW t \in Semaphores
      PROVE  IsFiniteSet(Holders(t)') /\ slots'[t] = Cardinality(Holders(t)')
  <2>1. IsFiniteSet(Holders(t)) /\ slots[t] = Cardinality(Holders(t))
    BY DEF PdfInv, SlotsHeld
  <2>2. CASE t = s
    <3>1. Holders(t)' = Holders(t) \cup {c} /\ c \notin Holders(t)
      BY <1>1, <1>2, <2>2 DEF Holders, PdfTypeOK
    <3>2. slots'[t] = slots[t] + 1
      BY <1>2, <2>2 DEF PdfTypeOK
    <3>3. QED
      BY <2>1, <3>1, <3>2, FS_AddElement
  <2>3. CASE t # s
    <3>1. Holders(t)' = Holders(t) /\ slots'[t] = slots[t]
      BY <1>1, <1>2, <2>3 DEF Holders, PdfTypeOK
    <3>2. QED
      BY <2>1, <3>1
  <2>4. QED
    BY <2>2, <2>3
<1>5. SlotsHeld'
  BY <1>4 DEF SlotsHeld
<1>6. ChannelOfRenderer'
  BY <1>2 DEF PdfTypeOK, PdfInv, ChannelOfRenderer, Overrides, RendererOf
<1>7. QED
  BY <1>3, <1>5, <1>6 DEF PdfInv

(* The deferred receive takes one value and one holder. *)
LEMMA FinishKeeps ==
  ASSUME PdfTypeOK, PdfInv, NEW c \in Calls, Finish(c)
  PROVE  PdfTypeOK' /\ PdfInv'
<1>1. PICK s \in Semaphores : s = sem[c]
  BY DEF Finish, PdfInv, ChannelOfRenderer
<1>2. /\ pc[c] = "rendering"
      /\ slots' = [slots EXCEPT ![s] = @ - 1]
      /\ pc' = [pc EXCEPT ![c] = "done"]
      /\ UNCHANGED <<sem, made, cancelled>>
  BY <1>1 DEF Finish, Goto
<1>3. ASSUME NEW t \in Semaphores
      PROVE  /\ IsFiniteSet(Holders(t)')
             /\ slots'[t] = Cardinality(Holders(t)')
             /\ slots'[t] \in Nat
             /\ slots'[t] <= slots[t]
  <2>1. /\ IsFiniteSet(Holders(t))
        /\ slots[t] = Cardinality(Holders(t))
        /\ slots[t] \in Nat
    BY DEF PdfInv, SlotsHeld, PdfTypeOK
  <2>2. CASE t = s
    <3>1. Holders(t)' = Holders(t) \ {c} /\ c \in Holders(t)
      BY <1>1, <1>2, <2>2 DEF Holders, PdfTypeOK
    <3>2. slots'[t] = slots[t] - 1
      BY <1>2, <2>2 DEF PdfTypeOK
    <3>3. /\ IsFiniteSet(Holders(t)')
          /\ Cardinality(Holders(t)') = Cardinality(Holders(t)) - 1
      BY <2>1, <3>1, FS_RemoveElement
    <3>4. Cardinality(Holders(t)') \in Nat
      BY <3>3, FS_CardinalityType
    <3>5. QED
      BY <2>1, <3>2, <3>3, <3>4
  <2>3. CASE t # s
    <3>1. Holders(t)' = Holders(t) /\ slots'[t] = slots[t]
      BY <1>1, <1>2, <2>3 DEF Holders, PdfTypeOK
    <3>2. QED
      BY <2>1, <3>1
  <2>4. QED
    BY <2>2, <2>3
<1>4. PdfTypeOK'
  <2>1. slots' \in [Semaphores -> Nat]
    BY <1>2, <1>3 DEF PdfTypeOK
  <2>2. \A t \in Semaphores : slots'[t] <= t.capacity
    BY <1>3, CapacityPositive DEF PdfTypeOK
  <2>3. QED
    BY <1>2, <2>1, <2>2 DEF PdfTypeOK
<1>5. SlotsHeld'
  BY <1>3 DEF SlotsHeld
<1>6. ChannelOfRenderer'
  BY <1>2 DEF PdfTypeOK, PdfInv, ChannelOfRenderer, Overrides, RendererOf
<1>7. QED
  BY <1>4, <1>5, <1>6 DEF PdfInv

(* Every step of every call keeps the type and the invariant. *)
LEMMA PdfStep == PdfTypeOK /\ PdfInv /\ [Next]_vars => PdfTypeOK' /\ PdfInv'
<1> SUFFICES ASSUME PdfTypeOK, PdfInv, [Next]_vars
             PROVE  PdfTypeOK' /\ PdfInv'
  OBVIOUS
<1>1. ASSUME NEW c \in Calls, Rendering(c) \/ Finish(c) \/ Cancel(c)
      PROVE  PdfTypeOK' /\ PdfInv'
  BY <1>1, EnterKeeps, UseSuppliedKeeps, UseConstructedKeeps, UseZeroKeeps,
     AcquireKeeps, FinishKeeps, CancelKeeps DEF Rendering
<1>2. CASE UNCHANGED vars
  <2>1. \A s \in Semaphores : Holders(s)' = Holders(s)
    BY <1>2 DEF vars, Holders
  <2>2. QED
    BY <1>2, <2>1
    DEF vars, PdfTypeOK, PdfInv, SlotsHeld, ChannelOfRenderer
<1>3. QED
  BY <1>1, <1>2 DEF Next

(* The variables keep their types, and the invariant holds. *)
THEOREM PdfInvariant == Spec => [](PdfTypeOK /\ PdfInv)
  BY PdfStart, PdfStep, PTL DEF Spec

-----------------------------------------------------------------------------

(* Every variable keeps its type, and no channel holds more values than    *)
(* its capacity.                                                           *)
THEOREM PdfTypeCorrect == Spec => []PdfTypeOK
  BY PdfInvariant, PTL

(* A channel holds one value for each process that runs on it: no path out *)
(* of Render loses a slot or gives one back twice.                         *)
THEOREM NoSlotLost == Spec => []SlotsAccounted
<1>1. PdfInv => SlotsAccounted
  BY DEF PdfInv, SlotsHeld, Holders, SlotsAccounted
<1>2. QED
  BY <1>1, PdfInvariant, PTL

(* The calls that share a renderer never run more processes than its       *)
(* limit, whichever of them made the channel of a zero value.              *)
THEOREM BoundedPerRenderer == Spec => []RendererBound
<1>1. ASSUME PdfTypeOK, PdfInv, NEW s \in Semaphores, NEW r,
             \A c \in RunningOn(r) : sem[c] = s
      PROVE  Cardinality(RunningOn(r)) <= s.capacity
  <2>1. RunningOn(r) \subseteq Holders(s)
    BY <1>1 DEF RunningOn, Holders
  <2>2. /\ IsFiniteSet(Holders(s))
        /\ slots[s] = Cardinality(Holders(s))
        /\ slots[s] \in Nat
        /\ slots[s] <= s.capacity
    BY <1>1 DEF PdfTypeOK, PdfInv, SlotsHeld
  <2>3. IsFiniteSet(RunningOn(r)) /\ Cardinality(RunningOn(r)) <= Cardinality(Holders(s))
    BY <2>1, <2>2, FS_Subset
  <2>4. Cardinality(RunningOn(r)) \in Nat /\ s.capacity \in Nat
    BY <2>3, FS_CardinalityType, CapacityPositive
  <2>5. QED
    BY <2>2, <2>3, <2>4
<1>2. ASSUME PdfTypeOK, PdfInv, NEW r \in Shared
      PROVE  Cardinality(RunningOn(r)) <= Limit[r]
  <2>1. PICK s \in Semaphores : s = Semaphore(r, None, Limit[r]) /\ s.capacity = Limit[r]
    BY SharedIsSemaphore
  <2>2. \A c \in RunningOn(r) : sem[c] = s
    BY <1>2, <2>1 DEF RunningOn, PdfInv, ChannelOfRenderer
  <2>3. QED
    BY <1>1, <1>2, <2>1, <2>2
<1>3. ASSUME PdfTypeOK, PdfInv, NEW r \in Zero, NEW c \in RunningOn(r)
      PROVE  Cardinality(RunningOn(r)) <= made[r].capacity
  <2>1. made[r] \in Semaphores /\ \A d \in RunningOn(r) : sem[d] = made[r]
    BY <1>3 DEF RunningOn, PdfInv, ChannelOfRenderer
  <2>2. QED
    BY <1>1, <1>3, <2>1
<1>4. PdfTypeOK /\ PdfInv => RendererBound
  BY <1>2, <1>3 DEF RendererBound
<1>5. QED
  BY <1>4, PdfInvariant, PTL

=============================================================================
