--------------------------- MODULE SendersProofs ---------------------------
(* Proofs about Senders and the verifier it runs against, for every list   *)
(* of recipients, every tolerance, resolution and skew of the clocks, and  *)
(* every set of webhook setups and partner's requests.                     *)
EXTENDS Senders, TLAPS

-----------------------------------------------------------------------------
(* The inductive invariant.  A call stands at a group whose predecessors   *)
(* it has had accepted; a request on the wire was sent with all before it  *)
(* accepted, at a moment that is past; and an answer is what it says.      *)

EarlierServed(k, n) ==
  \A earlier \in DOMAIN Groups :
    earlier < n /\ Groups[earlier] # {} => <<k, earlier>> \in served

LoopServed ==
  /\ result # "idle" => tries # 0
  /\ result = "waiting" => EarlierServed(tries, next)
  /\ \/ result = "looping"
     \/ result = "nil" /\ ~simulated
     => (kind \in Lenient /\ answer = "3xx") \/ EarlierServed(tries, next)
  /\ result = "nil" /\ ~simulated => next \notin DOMAIN Groups

WireInOrder ==
  \A m \in wire : /\ EarlierServed(m.try, m.group)
                  /\ m.sentAt \in 0 .. clock
                  /\ m.request \in Requests(m.sentAt)

AnswerTrue == result = "waiting" /\ answer = "2xx" => <<tries, next>> \in served

SendersInv ==
  /\ LoopServed
  /\ WireInOrder
  /\ AnswerTrue
  /\ PrefixServed
  /\ WindowKept

-----------------------------------------------------------------------------
(* Groups and time stamps *)

(* The groups are numbered from one; a sender without a loop has one.      *)
LEMMA GroupsNumbered ==
  /\ \E last \in Nat : DOMAIN Groups = 1 .. last
  /\ kind \notin {"sms", "whatsapp"} => DOMAIN Groups = {1}
<1>1. DOMAIN Recipients = 1 .. Len(Recipients) /\ Len(Recipients) \in Nat
  BY SendersAssumption
<1>2. CASE kind \in {"sms", "whatsapp"}
  BY <1>1, <1>2 DEF Groups
<1>3. CASE kind \notin {"sms", "whatsapp"}
  <2>1. PICK g : Groups = <<g>>
    BY <1>3 DEF Groups
  <2>2. DOMAIN Groups = 1 .. 1
    BY <2>1
  <2>3. QED
    BY <1>3, <2>2
<1>4. QED
  BY <1>2, <1>3

(* A time stamp is at most its format's resolution behind the moment.      *)
LEMMA StampIsRecent ==
  ASSUME NEW t \in Nat, NEW format
  PROVE  /\ Stamp(format, t).at \in Int
         /\ Stamp(format, t).at <= t
         /\ t - Stamp(format, t).at <= TicksPerSecond - 1
         /\ Stamp(format, t).format = format
<1>1. TicksPerSecond \in Nat /\ TicksPerSecond > 0
  BY WebhookAssumption
<1>2. t % TicksPerSecond \in 0 .. TicksPerSecond - 1
  BY <1>1
<1>3. QED
  BY <1>1, <1>2 DEF Stamp

(* What a sender that holds the verifier's secret signs is the moment of   *)
(* the call in a format the verifier knows, and only the tagged form can   *)
(* leave the header out.                                                   *)
LEMMA RequestIsFresh ==
  ASSUME NEW t \in 0 .. MaxClock, kind \in Signing, NEW q \in Requests(t)
  PROVE  /\ q.form # "tagged" => q.tag = NoTime
         /\ Intact(q) => \E format \in {"seconds", "millis", "rfc3339"} :
                           q.signed = Stamp(format, t)
<1>1. CASE kind = "webhook"
  BY <1>1 DEF Requests, WebhookRequest, Request
<1>2. CASE kind = "partner"
  BY <1>2, PartnerAssumption DEF Requests
<1>3. QED
  BY <1>1, <1>2 DEF Signing

(* The window Verify keeps, seen from the sender's clock, for one request  *)
(* that is not further ahead of the verifier than durations reach.         *)
LEMMA VerifyKeepsWindow ==
  ASSUME NEW t \in Nat, NEW now \in Int, now - t >= -MaxDuration, NEW q,
         q.form # "tagged" => q.tag = NoTime,
         Intact(q) => \E format \in {"seconds", "millis", "rfc3339"} :
                        q.signed = Stamp(format, t)
  PROVE  /\ Verify(q, now) = "ok" =>
              Intact(q) /\ now - t \in -Tolerance - TicksPerSecond + 1 .. Tolerance
         /\ Intact(q) /\ now - t \in -Tolerance .. Tolerance - TicksPerSecond + 1 =>
              Verify(q, now) = "ok"
<1>1. /\ Tolerance \in Nat /\ TicksPerSecond \in Nat /\ TicksPerSecond > 0
      /\ MaxDuration \in Nat /\ Tolerance < MaxDuration
  BY WebhookAssumption
<1>2. ASSUME Intact(q)
      PROVE  /\ Carried(q) = q.signed
             /\ Carried(q) # NoTime
             /\ Carried(q).format # "junk"
             /\ Carried(q).at \in Int
             /\ Carried(q).at <= t
             /\ t - Carried(q).at <= TicksPerSecond - 1
  <2>1. PICK format \in {"seconds", "millis", "rfc3339"} : q.signed = Stamp(format, t)
    BY <1>2
  <2>2. Carried(q) = q.signed /\ q.signed # NoTime
    BY <1>2 DEF Intact, Carried
  <2>3. QED
    BY <2>1, <2>2, StampIsRecent
<1>3. ASSUME Verify(q, now) = "ok"
      PROVE  Intact(q) /\ ~Stale(Carried(q), now)
  BY <1>3 DEF Verify, Intact, Carried, NoTime, Junk
<1>4. ASSUME Intact(q), ~Stale(Carried(q), now)
      PROVE  Verify(q, now) = "ok"
  BY <1>2, <1>4 DEF Verify, Intact
<1>5. ASSUME Intact(q), ~Stale(Carried(q), now)
      PROVE  now - t \in -Tolerance - TicksPerSecond + 1 .. Tolerance
  BY <1>1, <1>2, <1>5 DEF Stale, Since, Negated, Shortest
<1>6. ASSUME Intact(q), now - t \in -Tolerance .. Tolerance - TicksPerSecond + 1
      PROVE  ~Stale(Carried(q), now)
  BY <1>1, <1>2, <1>6 DEF Stale, Since, Negated, Shortest
<1>7. QED
  BY <1>3, <1>4, <1>5, <1>6

-----------------------------------------------------------------------------

(* Nothing has been sent. *)
LEMMA SendersStart == Init => SendersTypeOK /\ SendersInv
<1> SUFFICES ASSUME Init PROVE SendersTypeOK /\ SendersInv
  OBVIOUS
<1>1. SendersTypeOK
  BY SendersAssumption DEF Init, SendersTypeOK, Answers
<1>2. SendersInv
  BY DEF Init, SendersInv, LoopServed, WireInOrder, AnswerTrue, PrefixServed, WindowKept
<1>3. QED
  BY <1>1, <1>2

(* What depends on the configuration alone does not change. *)
LEMMA ConfigFixed ==
  ASSUME UNCHANGED config
  PROVE  /\ UNCHANGED <<kind, simulated, setup, skew>>
         /\ Groups' = Groups
         /\ \A t : Requests(t)' = Requests(t)
  BY DEF config, Groups, Requests, WebhookRequest

(* A step of the client that neither sends nor counts a request: requests, *)
(* what was served and what Verify said stay as they are.                  *)
LEMMA ProviderUntouched ==
  ASSUME SendersTypeOK, SendersInv,
         UNCHANGED <<config, tries, wire, served, verdicts, clock>>
  PROVE  WireInOrder' /\ PrefixServed' /\ WindowKept'
<1>1. /\ UNCHANGED <<kind, simulated, setup, skew>>
      /\ Groups' = Groups
      /\ \A t : Requests(t)' = Requests(t)
  BY ConfigFixed
<1>2. WireInOrder'
  BY <1>1 DEF SendersInv, WireInOrder, EarlierServed
<1>3. PrefixServed'
  BY <1>1 DEF SendersInv, PrefixServed
<1>4. WindowKept'
  BY <1>1 DEF SendersInv, WindowKept
<1>5. QED
  BY <1>2, <1>3, <1>4

(* A call begins at the first group; of its number nothing is served.      *)
LEMMA SendKeeps ==
  ASSUME SendersTypeOK, SendersInv, Send
  PROVE  SendersTypeOK' /\ SendersInv'
<1>1. /\ UNCHANGED <<kind, simulated, setup, skew>>
      /\ Groups' = Groups
      /\ \A t : Requests(t)' = Requests(t)
  BY ConfigFixed DEF Send
<1>2. /\ tries' = tries + 1 /\ tries < MaxTries
      /\ next' = 1
      /\ result' \in {"nil", "error", "looping"}
      /\ result' = "nil" => simulated
      /\ UNCHANGED <<answer, wire, served, verdicts, clock>>
  BY DEF Send, MayCall
<1>3. tries \in Nat /\ tries' \in 0 .. MaxTries /\ tries < tries'
  BY <1>2, SendersAssumption DEF SendersTypeOK
<1>4. SendersTypeOK'
  BY <1>1, <1>2, <1>3 DEF SendersTypeOK
<1>5. PICK last \in Nat : DOMAIN Groups = 1 .. last
  BY GroupsNumbered
<1>6. LoopServed'
  BY <1>1, <1>2, <1>3, <1>5 DEF LoopServed, EarlierServed
<1>7. WireInOrder'
  BY <1>1, <1>2 DEF SendersInv, WireInOrder, EarlierServed
<1>8. AnswerTrue' /\ WindowKept'
  BY <1>1, <1>2 DEF SendersInv, AnswerTrue, WindowKept
<1>9. PrefixServed'
  BY <1>1, <1>2, <1>3 DEF SendersTypeOK, SendersInv, PrefixServed
<1>10. QED
  BY <1>4, <1>6, <1>7, <1>8, <1>9 DEF SendersInv

(* A blank number has nobody to serve. *)
LEMMA SkipKeeps ==
  ASSUME SendersTypeOK, SendersInv, Skip
  PROVE  SendersTypeOK' /\ SendersInv'
<1>1. /\ UNCHANGED <<kind, simulated, setup, skew>>
      /\ Groups' = Groups
  BY ConfigFixed DEF Skip
<1>2. /\ result = "looping" /\ next \in DOMAIN Groups /\ Groups[next] = {}
      /\ next' = next + 1
      /\ UNCHANGED <<result, tries, answer, wire, served, verdicts, clock>>
  BY DEF Skip, SkipsTurn
<1>3. PICK last \in Nat : DOMAIN Groups = 1 .. last
  BY GroupsNumbered
<1>4. SendersTypeOK'
  BY <1>1, <1>2, <1>3 DEF SendersTypeOK
<1>5. LoopServed' /\ AnswerTrue'
  BY <1>1, <1>2, <1>3 DEF SendersInv, LoopServed, EarlierServed, AnswerTrue
<1>6. WireInOrder' /\ PrefixServed' /\ WindowKept'
  BY ProviderUntouched DEF Skip
<1>7. QED
  BY <1>4, <1>5, <1>6 DEF SendersInv

(* A request leaves when all before it are served, and carries the moment. *)
LEMMA PostKeeps ==
  ASSUME SendersTypeOK, SendersInv, Post
  PROVE  SendersTypeOK' /\ SendersInv'
<1>1. /\ UNCHANGED <<kind, simulated, setup, skew>>
      /\ Groups' = Groups
      /\ \A t : Requests(t)' = Requests(t)
  BY ConfigFixed DEF Post
<1>2. PICK q \in Requests(clock) :
        wire' = wire \cup {[try |-> tries, group |-> next, sentAt |-> clock, request |-> q]}
  BY DEF Post
<1>3. /\ result = "looping" /\ result' = "waiting"
      /\ next \in DOMAIN Groups
      /\ answer' = "none"
      /\ UNCHANGED <<tries, next, served, verdicts, clock>>
  BY DEF Post
<1>4. PICK last \in Nat : DOMAIN Groups = 1 .. last
  BY GroupsNumbered
<1>5. tries \in 1 .. tries
  BY <1>3, SendersAssumption DEF SendersTypeOK, SendersInv, LoopServed
<1>6. SendersTypeOK'
  BY <1>1, <1>2, <1>3, <1>5 DEF SendersTypeOK, Answers
<1>7. EarlierServed(tries, next)
  <2>1. CASE kind \in Lenient
    <3>1. DOMAIN Groups = {1}
      BY <2>1, GroupsNumbered DEF Lenient, Signing
    <3>2. QED
      BY <1>3, <3>1 DEF EarlierServed
  <2>2. CASE kind \notin Lenient
    BY <1>3, <2>2 DEF SendersInv, LoopServed
  <2>3. QED
    BY <2>1, <2>2
<1>8. WireInOrder'
  BY <1>1, <1>2, <1>3, <1>7 DEF SendersTypeOK, SendersInv, WireInOrder, EarlierServed
<1>9. LoopServed' /\ AnswerTrue'
  BY <1>1, <1>3, <1>5, <1>7 DEF LoopServed, EarlierServed, AnswerTrue
<1>10. PrefixServed' /\ WindowKept'
  BY <1>1, <1>3 DEF SendersInv, PrefixServed, WindowKept
<1>11. QED
  BY <1>6, <1>8, <1>9, <1>10 DEF SendersInv

(* An answer that counts as success was one, but for a lenient sender's.   *)
LEMMA ReceiveKeeps ==
  ASSUME SendersTypeOK, SendersInv, Receive
  PROVE  SendersTypeOK' /\ SendersInv'
<1>1. /\ UNCHANGED <<kind, simulated, setup, skew>>
      /\ Groups' = Groups
  BY ConfigFixed DEF Receive
<1>2. /\ result = "waiting" /\ next \in DOMAIN Groups
      /\ \/ Succeeded(answer) /\ next' = next + 1 /\ result' = "looping"
         \/ result' = "error" /\ UNCHANGED next
      /\ UNCHANGED <<tries, answer, wire, served, verdicts, clock>>
  BY DEF Receive, SendersTypeOK
<1>3. PICK last \in Nat : DOMAIN Groups = 1 .. last
  BY GroupsNumbered
<1>4. SendersTypeOK'
  BY <1>1, <1>2, <1>3 DEF SendersTypeOK
<1>5. Succeeded(answer) =>
        <<tries, next>> \in served \/ (kind \in Lenient /\ answer = "3xx")
  BY <1>2 DEF SendersInv, AnswerTrue, Succeeded
<1>6. LoopServed' /\ AnswerTrue'
  BY <1>1, <1>2, <1>3, <1>5 DEF SendersInv, LoopServed, EarlierServed, AnswerTrue
<1>7. WireInOrder' /\ PrefixServed' /\ WindowKept'
  BY ProviderUntouched DEF Receive
<1>8. QED
  BY <1>4, <1>6, <1>7 DEF SendersInv

(* An error, or the end of the list. *)
LEMMA EndKeeps ==
  ASSUME SendersTypeOK, SendersInv, GiveUp \/ Return
  PROVE  SendersTypeOK' /\ SendersInv'
<1>1. /\ UNCHANGED <<kind, simulated, setup, skew>>
      /\ Groups' = Groups
  BY ConfigFixed DEF GiveUp, Return
<1>2. /\ \/ result = "waiting" /\ result' = "error"
         \/ result = "looping" /\ next \notin DOMAIN Groups /\ result' = "nil"
      /\ UNCHANGED <<tries, next, answer, wire, served, verdicts, clock>>
  BY DEF GiveUp, Return
<1>3. SendersTypeOK'
  BY <1>1, <1>2 DEF SendersTypeOK
<1>4. LoopServed' /\ AnswerTrue'
  BY <1>1, <1>2 DEF SendersInv, LoopServed, EarlierServed, AnswerTrue
<1>5. WireInOrder' /\ PrefixServed' /\ WindowKept'
  BY ProviderUntouched DEF GiveUp, Return
<1>6. QED
  BY <1>3, <1>4, <1>5 DEF SendersInv

-----------------------------------------------------------------------------

(* The provider takes a request from the wire and may serve its group: all *)
(* before it were served when it left, however late it arrives.            *)
LEMMA HandleServes ==
  ASSUME SendersTypeOK, SendersInv, NEW m \in wire, Handle(m)
  PROVE  SendersTypeOK' /\ LoopServed' /\ WireInOrder' /\ AnswerTrue' /\ PrefixServed'
<1>1. /\ UNCHANGED <<kind, simulated, setup, skew>>
      /\ Groups' = Groups
      /\ \A t : Requests(t)' = Requests(t)
  BY ConfigFixed DEF Handle
<1>2. PICK a \in {"2xx", "3xx", "failure"}, accepts \in BOOLEAN :
        /\ a = "2xx" => accepts
        /\ served' = IF accepts THEN served \cup {<<m.try, m.group>>} ELSE served
        /\ answer' = IF result = "waiting" /\ m.try = tries /\ m.group = next
                     THEN a ELSE answer
  BY DEF Handle
<1>3. wire' = wire \ {m} /\ UNCHANGED <<result, tries, next, clock>>
  BY DEF Handle
<1>4. /\ m.try \in 1 .. tries /\ m.group \in DOMAIN Groups
      /\ EarlierServed(m.try, m.group)
  BY DEF SendersTypeOK, SendersInv, WireInOrder
<1>5. SendersTypeOK'
  BY <1>1, <1>2, <1>3, <1>4 DEF SendersTypeOK, Answers
<1>6. served \subseteq served'
  BY <1>2
<1>7. LoopServed'
  <2>1. EarlierServed(tries, next) => EarlierServed(tries, next)'
    BY <1>1, <1>3, <1>6 DEF EarlierServed
  <2>2. result # "waiting" => answer' = answer
    BY <1>2
  <2>3. QED
    BY <1>1, <1>3, <2>1, <2>2 DEF SendersInv, LoopServed
<1>8. WireInOrder'
  BY <1>1, <1>3, <1>6 DEF SendersInv, WireInOrder, EarlierServed
<1>9. AnswerTrue'
  BY <1>1, <1>2, <1>3, <1>6 DEF SendersInv, AnswerTrue
<1>10. PrefixServed'
  BY <1>1, <1>2, <1>3, <1>4, <1>6 DEF SendersInv, PrefixServed, EarlierServed
<1>11. QED
  BY <1>5, <1>7, <1>8, <1>9, <1>10

(* What Verify says of it keeps to the window. *)
LEMMA HandleVerifies ==
  ASSUME SendersTypeOK, SendersInv, NEW m \in wire, Handle(m)
  PROVE  WindowKept'
<1>1. UNCHANGED <<kind, simulated, setup, skew>>
  BY ConfigFixed DEF Handle
<1>2. CASE UNCHANGED verdicts
  BY <1>1, <1>2 DEF SendersInv, WindowKept
<1>3. /\ skew \in Int /\ skew >= -MaxDuration /\ MaxDuration \in Nat
      /\ clock \in Nat /\ clock <= MaxClock
  BY SendersAssumption, WebhookAssumption DEF SendersTypeOK
<1>4. CASE /\ kind \in Signing
           /\ verdicts' = verdicts \cup
                {[request |-> m.request, delay |-> clock - m.sentAt,
                  said |-> Verify(m.request, clock + skew)]}
  <2> DEFINE sentAt == m.sentAt
  <2>0. sentAt \in 0 .. clock /\ m.request \in Requests(sentAt)
    BY DEF SendersInv, WireInOrder
  <2>1. /\ m.sentAt \in 0 .. MaxClock /\ m.sentAt \in Nat
        /\ m.request \in Requests(m.sentAt)
        /\ clock + skew \in Int
        /\ (clock - m.sentAt) + skew = (clock + skew) - m.sentAt
        /\ (clock + skew) - m.sentAt >= -MaxDuration
    <3> HIDE DEF sentAt
    <3>1. sentAt \in 0 .. MaxClock /\ (clock + skew) - sentAt >= -MaxDuration
      BY <1>3, <2>0, SendersAssumption
    <3>2. (clock - sentAt) + skew = (clock + skew) - sentAt /\ clock + skew \in Int
      BY <1>3, <2>0
    <3>3. QED
      BY <2>0, <3>1, <3>2 DEF sentAt
  <2>2. /\ m.request.form # "tagged" => m.request.tag = NoTime
        /\ Intact(m.request) => \E format \in {"seconds", "millis", "rfc3339"} :
                                  m.request.signed = Stamp(format, m.sentAt)
    BY <1>4, <2>1, RequestIsFresh
  <2>3. /\ Verify(m.request, clock + skew) = "ok" =>
             /\ Intact(m.request)
             /\ (clock - m.sentAt) + skew \in -Tolerance - TicksPerSecond + 1 .. Tolerance
        /\ /\ Intact(m.request)
           /\ (clock - m.sentAt) + skew \in -Tolerance .. Tolerance - TicksPerSecond + 1
           => Verify(m.request, clock + skew) = "ok"
    BY <2>1, <2>2, VerifyKeepsWindow
  <2>4. QED
    BY <1>1, <1>4, <2>3 DEF SendersInv, WindowKept
<1>5. QED
  BY <1>2, <1>4 DEF Handle

(* Time passes: what was sent stays in the past. *)
LEMMA TickKeeps ==
  ASSUME SendersTypeOK, SendersInv, Tick
  PROVE  SendersTypeOK' /\ SendersInv'
<1>1. /\ UNCHANGED <<kind, simulated, setup, skew>>
      /\ Groups' = Groups
      /\ \A t : Requests(t)' = Requests(t)
  BY ConfigFixed DEF Tick
<1>2. /\ clock \in Nat /\ clock' = clock + 1 /\ clock' \in 0 .. MaxClock
      /\ UNCHANGED <<result, tries, next, answer, wire, served, verdicts>>
  BY SendersAssumption DEF Tick, SendersTypeOK
<1>3. SendersTypeOK'
  BY <1>1, <1>2 DEF SendersTypeOK
<1>4. WireInOrder'
  BY <1>1, <1>2 DEF SendersInv, WireInOrder, EarlierServed
<1>5. LoopServed' /\ AnswerTrue' /\ PrefixServed' /\ WindowKept'
  BY <1>1, <1>2
  DEF SendersInv, LoopServed, EarlierServed, AnswerTrue, PrefixServed, WindowKept
<1>6. QED
  BY <1>3, <1>4, <1>5 DEF SendersInv

(* Every step of the caller, the sender and the provider keeps the type    *)
(* and the invariant.                                                      *)
LEMMA SendersStep ==
  SendersTypeOK /\ SendersInv /\ [Next]_vars => SendersTypeOK' /\ SendersInv'
<1> SUFFICES ASSUME SendersTypeOK, SendersInv, [Next]_vars
             PROVE  SendersTypeOK' /\ SendersInv'
  OBVIOUS
<1>1. CASE Send \/ Skip \/ Post \/ Receive \/ GiveUp \/ Return \/ Tick
  BY <1>1, SendKeeps, SkipKeeps, PostKeeps, ReceiveKeeps, EndKeeps, TickKeeps
<1>2. ASSUME NEW m \in wire, Handle(m)
      PROVE  SendersTypeOK' /\ SendersInv'
  BY <1>2, HandleServes, HandleVerifies DEF SendersInv
<1>3. CASE UNCHANGED vars
  <2>1. UNCHANGED <<config, tries, wire, served, verdicts, clock>>
    BY <1>3 DEF vars
  <2>2. WireInOrder' /\ PrefixServed' /\ WindowKept'
    BY <2>1, ProviderUntouched
  <2>3. UNCHANGED <<kind, simulated, setup, skew>> /\ Groups' = Groups
    BY <2>1, ConfigFixed
  <2>4. SendersTypeOK' /\ LoopServed' /\ AnswerTrue'
    BY <1>3, <2>3 DEF vars, SendersTypeOK, SendersInv, LoopServed, EarlierServed, AnswerTrue
  <2>5. QED
    BY <2>2, <2>4 DEF SendersInv
<1>4. QED
  BY <1>1, <1>2, <1>3 DEF Next

(* The variables keep their types, and the invariant holds. *)
THEOREM SendersInvariant == Spec => [](SendersTypeOK /\ SendersInv)
  BY SendersStart, SendersStep, PTL DEF Spec

-----------------------------------------------------------------------------

(* Every variable keeps its type: no request is sent past the end of the   *)
(* list, and nothing is served that was not asked for.                     *)
THEOREM SendersTypeCorrect == Spec => []SendersTypeOK
  BY SendersInvariant, PTL

(* When Send returns nil, every recipient that is not blank was accepted   *)
(* in this very call, or Slack or a webhook took a status from 300 to 399  *)
(* for a success.                                                          *)
THEOREM NilIsDelivered == Spec => []NilMeansAccepted
<1>1. SendersTypeOK /\ SendersInv => NilMeansAccepted
  <2> SUFFICES ASSUME SendersTypeOK, SendersInv,
                      result = "nil", ~simulated,
                      NEW n \in DOMAIN Groups, Groups[n] # {}
               PROVE  <<tries, n>> \in served \/ (kind \in Lenient /\ answer = "3xx")
    BY DEF NilMeansAccepted
  <2>1. PICK last \in Nat : DOMAIN Groups = 1 .. last
    BY GroupsNumbered
  <2>2. n < next
    BY <2>1 DEF SendersTypeOK, SendersInv, LoopServed
  <2>3. QED
    BY <2>2 DEF SendersInv, LoopServed, EarlierServed
<1>2. QED
  BY <1>1, SendersInvariant, PTL

(* An error in the middle leaves a prefix of the list served. *)
THEOREM NobodyPassedOver == Spec => []PrefixServed
<1>1. SendersInv => PrefixServed
  BY DEF SendersInv
<1>2. QED
  BY <1>1, SendersInvariant, PTL

(* The receiver's tolerance window, whatever the clocks, the setups and    *)
(* the time a request spends on its way.                                   *)
THEOREM WindowHolds == Spec => []WindowKept
<1>1. SendersInv => WindowKept
  BY DEF SendersInv
<1>2. QED
  BY <1>1, SendersInvariant, PTL

=============================================================================
