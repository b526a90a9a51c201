---------------------------- MODULE PdfRenderer ----------------------------
(***************************************************************************)
(* The concurrency bound of pdf/pdf.go: calls of Generate, each with its   *)
(* options and its context, choose a renderer and a semaphore, wait for a  *)
(* slot, run wkhtmltopdf and give the slot back.  A call is made once.     *)
(* A semaphore is a record of what made it, the call that made it if one   *)
(* did, and its capacity; two semaphores are the same channel if and only  *)
(* if they are equal.                                                      *)
(***************************************************************************)
EXTENDS Naturals, FiniteSets

CONSTANTS
  Calls,           \* calls of Generate
  Shared,          \* renderers made by NewWkhtmlRenderer, defaultRenderer too
  Fixed,           \* those of Shared whose field Semaphore is set
  Zero,            \* renderers that are zero values, WkhtmlRenderer{}
  DefaultRenderer,
  DefaultMax,      \* DefaultMaxConcurrency
  None,            \* a nil renderer or semaphore
  Limit,           \* the capacity of each shared renderer
  Renderer,        \* WithRenderer of each call, or None
  MaxConcurrency,  \* WithMaxConcurrency of each call, or DefaultMax
  Supplied         \* WithSemaphore of each call: a capacity, or None

ASSUME PdfAssumption ==
  /\ Shared \cap Zero = {}
  /\ Fixed \subseteq Shared
  /\ DefaultRenderer \in Shared \ Fixed
  /\ None \notin Calls \cup Shared \cup Zero \cup Nat
  /\ "app" \notin Shared \cup Zero
  /\ DefaultMax \in Nat \ {0}
  /\ Limit \in [Shared -> Nat \ {0}]
  /\ Limit[DefaultRenderer] = DefaultMax
  /\ Renderer \in [Calls -> Shared \cup Zero \cup {None}]
  /\ MaxConcurrency \in [Calls -> Nat \ {0}]
  /\ Supplied \in [Calls -> (Nat \ {0}) \cup {None}]

VARIABLES
  pc,          \* where each call stands
  sem,         \* the semaphore each call uses
  made,        \* w.sem of each zero-value renderer
  slots,       \* the values in each channel: semaphores and how many
  cancelled    \* calls whose context is done

vars == <<pc, sem, made, slots, cancelled>>

Semaphore(by, call, capacity) == [by |-> by, call |-> call, capacity |-> capacity]

(* Every channel there can be: made by the application and given to calls, *)
(* made by a constructor, by the first call of a zero-value renderer, or   *)
(* by Generate for one call.                                               *)
Semaphores ==
  {Semaphore("app", None, Supplied[c]) : c \in {d \in Calls : Supplied[d] # None}}
    \cup {Semaphore(r, None, Limit[r]) : r \in Shared}
    \cup {Semaphore(r, c, MaxConcurrency[c]) : r \in Zero \cup {None}, c \in Calls}

(* nil is no channel: getSemaphore compares with it. *)
ASSUME NoneAssumption == None \notin Semaphores

PdfTypeOK ==
  /\ pc \in [Calls -> {"new", "entered", "waiting", "rendering", "done"}]
  /\ sem \in [Calls -> Semaphores \cup {None}]
  /\ made \in [Zero -> Semaphores \cup {None}]
  /\ slots \in [Semaphores -> Nat]
  /\ \A s \in Semaphores : slots[s] <= s.capacity
  /\ cancelled \in SUBSET Calls

Init ==
  /\ pc = [c \in Calls |-> "new"]
  /\ sem = [c \in Calls |-> None]
  /\ made = [r \in Zero |-> None]
  /\ slots = [s \in Semaphores |-> 0]
  /\ cancelled = {}

(* Generate makes a renderer for this call (None) if a limit other than    *)
(* the default was asked for, else it takes the one all calls share.       *)
RendererOf(c) ==
  IF Renderer[c] # None THEN Renderer[c]
  ELSE IF MaxConcurrency[c] # DefaultMax THEN None
  ELSE DefaultRenderer

(* getSemaphore: w.Semaphore comes before opts.Semaphore, that before w.sem. *)
Overrides(c) == Supplied[c] # None /\ RendererOf(c) \notin Fixed

Goto(c, label) == pc' = [pc EXCEPT ![c] = label]

-----------------------------------------------------------------------------

Cancel(c) ==
  /\ c \notin cancelled
  /\ pc[c] # "done"
  /\ cancelled' = cancelled \cup {c}
  /\ UNCHANGED <<pc, sem, made, slots>>

(* The options are applied and ctx.Err() is read. *)
Enter(c) ==
  /\ pc[c] = "new"
  /\ Goto(c, IF c \in cancelled THEN "done" ELSE "entered")
  /\ UNCHANGED <<sem, made, slots, cancelled>>

UseSupplied(c) ==
  /\ pc[c] = "entered"
  /\ Overrides(c)
  /\ sem' = [sem EXCEPT ![c] = Semaphore("app", None, Supplied[c])]
  /\ Goto(c, "waiting")
  /\ UNCHANGED <<made, slots, cancelled>>

UseConstructed(c) ==
  /\ pc[c] = "entered"
  /\ ~Overrides(c)
  /\ RendererOf(c) \notin Zero
  /\ LET r == RendererOf(c)
         s == IF r = None THEN Semaphore(None, c, MaxConcurrency[c])
                          ELSE Semaphore(r, None, Limit[r])
     IN  sem' = [sem EXCEPT ![c] = s]
  /\ Goto(c, "waiting")
  /\ UNCHANGED <<made, slots, cancelled>>

(* Mutant: every call that finds the zero value makes the channel anew.    *)
UseZeroAnew(c) ==
  /\ pc[c] = "entered"
  /\ ~Overrides(c)
  /\ Renderer[c] \in Zero
  /\ LET s == Semaphore(Renderer[c], c, MaxConcurrency[c])
     IN  /\ made' = [made EXCEPT ![Renderer[c]] = s]
         /\ sem' = [sem EXCEPT ![c] = s]
  /\ Goto(c, "waiting")
  /\ UNCHANGED <<slots, cancelled>>

(* The first call of a zero-value renderer makes its channel under         *)
(* semOnce.  Reading w.sem outside of it may miss the channel: the call    *)
(* then waits for semOnce and finds it.                                    *)
UseZero(c) ==
  /\ pc[c] = "entered"
  /\ ~Overrides(c)
  /\ Renderer[c] \in Zero
  /\ LET r == Renderer[c]
         s == IF made[r] # None THEN made[r] ELSE Semaphore(r, c, MaxConcurrency[c])
     IN  /\ made' = [made EXCEPT ![r] = s]
         /\ sem' = [sem EXCEPT ![c] = s]
  /\ Goto(c, "waiting")
  /\ UNCHANGED <<slots, cancelled>>

(* Mutant: a full channel does not block the call. *)
AcquireAnyway(c) ==
  /\ pc[c] = "waiting"
  /\ slots' = [slots EXCEPT ![sem[c]] = @ + 1]
  /\ Goto(c, "rendering")
  /\ UNCHANGED <<sem, made, cancelled>>

(* The two branches of the select; a cancelled call may take either.       *)
Acquire(c) ==
  /\ pc[c] = "waiting"
  /\ slots[sem[c]] < sem[c].capacity
  /\ slots' = [slots EXCEPT ![sem[c]] = @ + 1]
  /\ Goto(c, "rendering")
  /\ UNCHANGED <<sem, made, cancelled>>

(* Mutant: the context is looked at only when a slot is free. *)
GiveUpWithSlot(c) ==
  /\ pc[c] = "waiting"
  /\ c \in cancelled
  /\ slots[sem[c]] < sem[c].capacity
  /\ Goto(c, "done")
  /\ UNCHANGED <<sem, made, slots, cancelled>>

GiveUp(c) ==
  /\ pc[c] = "waiting"
  /\ c \in cancelled
  /\ Goto(c, "done")
  /\ UNCHANGED <<sem, made, slots, cancelled>>

(* Mutant: a render that was cancelled keeps its slot. *)
FinishLeaking(c) ==
  /\ pc[c] = "rendering"
  /\ slots' = IF c \in cancelled THEN slots ELSE [slots EXCEPT ![sem[c]] = @ - 1]
  /\ Goto(c, "done")
  /\ UNCHANGED <<sem, made, cancelled>>

(* No generator, an error, a panic, a killed process or a document: the    *)
(* deferred receive gives the slot back.                                   *)
Finish(c) ==
  /\ pc[c] = "rendering"
  /\ slots' = [slots EXCEPT ![sem[c]] = @ - 1]
  /\ Goto(c, "done")
  /\ UNCHANGED <<sem, made, cancelled>>

Rendering(c) ==
  \/ Enter(c) \/ UseSupplied(c) \/ UseConstructed(c) \/ UseZero(c)
  \/ Acquire(c) \/ GiveUp(c)

Next == \E c \in Calls : Rendering(c) \/ Finish(c) \/ Cancel(c)

Spec == Init /\ [][Next]_vars

(* A call goes on; a process ends at the latest when its context kills it, *)
(* and may run forever without.                                            *)
Fairness ==
  \A c \in Calls : /\ WF_vars(pc[c] # "new" /\ Rendering(c))
                   /\ WF_vars(c \in cancelled /\ Finish(c))

FairSpec == Spec /\ Fairness

-----------------------------------------------------------------------------

RunningOn(r) ==
  {c \in Calls : pc[c] = "rendering" /\ RendererOf(c) = r /\ ~Overrides(c)}

(* "Concurrency is bounded per renderer instance": the calls that share a  *)
(* renderer never run more processes than its limit, which a zero-value    *)
(* renderer takes from the call that made its channel.                     *)
RendererBound ==
  /\ \A r \in Shared : Cardinality(RunningOn(r)) <= Limit[r]
  /\ \A r \in Zero :
       RunningOn(r) # {} => Cardinality(RunningOn(r)) <= made[r].capacity

(* No slot is lost or given back twice, on whatever path Render ends.      *)
SlotsAccounted ==
  \A s \in Semaphores :
    slots[s] = Cardinality({c \in Calls : pc[c] = "rendering" /\ sem[c] = s})

(* WithMaxConcurrency "bounds the maximum number of simultaneous           *)
(* wkhtmltopdf processes": while a call runs, no more processes run than   *)
(* it asked for, among the calls that ask for the same limit.              *)
LimitKept ==
  \A c \in Calls :
    pc[c] = "rendering" =>
      Cardinality({d \in Calls : /\ pc[d] = "rendering"
                                 /\ MaxConcurrency[d] = MaxConcurrency[c]})
        <= MaxConcurrency[c]

(* A cancelled call returns, even while processes that nobody cancels hold *)
(* every slot forever.                                                     *)
CancelledReturns ==
  \A c \in Calls : pc[c] # "new" /\ c \in cancelled ~> pc[c] = "done"

=============================================================================
