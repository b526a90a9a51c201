------------------------------ MODULE Senders ------------------------------
(***************************************************************************)
(* The six senders of notifications/: one caller, who sends one message    *)
(* again as long as Send returns an error, and the provider at the other   *)
(* end, which may handle a request after Send has given up on it.          *)
(* sms and whatsapp make a request per recipient, email and brevo one for  *)
(* all of them, slack and webhook one to an endpoint.  A sender is modelled*)
(* by the groups of recipients its requests stand for; what the requests   *)
(* look like is left out but for the webhook's, which its receiver checks  *)
(* with Verify.  "partner" is a sender of somebody else's that signs in    *)
(* another form the verifier knows.                                        *)
(***************************************************************************)
EXTENDS WebhookVerifier, SequencesExt

CONSTANTS
  Kinds,            \* kinds of sender to start with
  Recipients,       \* Message.Recipients, a sequence
  Blank,            \* recipients that are empty once trimmed
  Endpoint,         \* what slack and webhook send to
  Setups,           \* webhook configurations: [key, header, signature]
  PartnerRequests,  \* what a partner may send at each moment
  Skews,            \* the verifier's clock minus the sender's, in ticks
  MaxTries,         \* bound on calls of Send
  MaxClock          \* bound on time

ASSUME SendersAssumption ==
  /\ Kinds \subseteq {"sms", "whatsapp", "email", "brevo", "slack", "webhook", "partner"}
  /\ Recipients \in Seq(ToSet(Recipients))
  /\ Skews \subseteq -MaxDuration .. MaxDuration
  /\ MaxTries \in Nat /\ MaxClock \in Nat

(* Signed with the verifier's secret over the timestamp that it carries. *)
Intact(q) ==
  /\ q.form # "none"
  /\ q.key = Secret
  /\ q.signed = IF q.header # NoTime THEN q.header ELSE q.tag
  /\ q.signed \notin {NoTime, Junk}

(* Who holds the secret signs the present; only the tagged form has a t=.  *)
ASSUME PartnerAssumption ==
  \A t \in 0 .. MaxClock : \A q \in PartnerRequests[t] :
    /\ q.form # "tagged" => q.tag = NoTime
    /\ Intact(q) => \E format \in {"seconds", "millis", "rfc3339"} : q.signed = Stamp(format, t)

VARIABLES
  kind,        \* the sender
  simulated,   \* IsSimulated of an SMS or WhatsApp sender
  setup,       \* the webhook's configuration
  skew,        \* one of Skews
  result,      \* "idle", "looping", "waiting" for an answer, "nil" or "error"
  tries,       \* calls of Send so far
  next,        \* the group the current call stands at
  answer,      \* what the provider answered to the request waited for
  wire,        \* requests the provider has not handled
  served,      \* what it accepted: try and group
  verdicts,    \* what Verify said, and of which request
  clock

config == <<kind, simulated, setup, skew>>
vars   == <<config, result, tries, next, answer, wire, served, verdicts, clock>>

(* Senders that sign, and those that only refuse a status from 400. *)
Signing == {"webhook", "partner"}
Lenient == {"slack"} \cup Signing

(* The recipients each turn of the loop, or else the one request, is for. *)
Groups ==
  CASE kind \in {"sms", "whatsapp"} -> [i \in DOMAIN Recipients |-> {Recipients[i]} \ Blank]
    [] kind \in {"email", "brevo"}  -> <<ToSet(Recipients) \ Blank>>
    [] OTHER                        -> <<{Endpoint}>>

Answers == {"none", "2xx", "3xx", "failure"}

SendersTypeOK ==
  /\ kind \in Kinds
  /\ simulated \in BOOLEAN
  /\ setup \in Setups
  /\ skew \in Skews
  /\ result \in {"idle", "looping", "waiting", "nil", "error"}
  /\ tries \in 0 .. MaxTries
  /\ next \in Nat /\ next - 1 \in {0} \cup DOMAIN Groups
  /\ result = "waiting" => next \in DOMAIN Groups
  /\ answer \in Answers
  /\ \A m \in wire : m.try \in 1 .. tries /\ m.group \in DOMAIN Groups
  /\ served \subseteq (1 .. tries) \X DOMAIN Groups
  /\ clock \in 0 .. MaxClock

Init ==
  /\ kind \in Kinds
  /\ simulated \in BOOLEAN
  /\ simulated => kind \in {"sms", "whatsapp"}
  /\ setup \in Setups
  /\ kind # "webhook" => setup = CHOOSE s \in Setups : TRUE
  /\ skew \in Skews
  /\ kind \notin Signing => skew = CHOOSE s \in Skews : TRUE
  /\ result = "idle" /\ tries = 0 /\ next = 1 /\ answer = "none"
  /\ wire = {} /\ served = {} /\ verdicts = {}
  /\ clock = 0

-----------------------------------------------------------------------------
(* The client *)

MayCall == result \in {"idle", "error"} /\ tries < MaxTries

(* Send is called.  A simulated sender returns nil; Brevo wants a          *)
(* recipient; a finished context, an empty URL and a payload that cannot   *)
(* be encoded are errors, too, before anything is sent.                    *)
Send ==
  /\ MayCall
  /\ tries' = tries + 1
  /\ next' = 1
  /\ result' \in IF simulated THEN {"nil"}
                 ELSE IF kind = "brevo" /\ Groups[1] = {} THEN {"error"}
                 ELSE {"looping", "error"}
  /\ UNCHANGED <<config, answer, wire, served, verdicts, clock>>

(* webhookSender.Send: the time of the call signs the payload if there is  *)
(* a secret; headers of the configuration may then replace the timestamp,  *)
(* and the signature by one of nothing that is sent now, or by none.       *)
WebhookRequest(t) ==
  LET ts        == Stamp("seconds", t)
      signature == IF setup.signature = "computed" /\ setup.key = NoSecret
                   THEN "blank" ELSE setup.signature
  IN  Request(IF setup.header = NoTime THEN ts ELSE setup.header, NoTime,
              IF signature = "blank" THEN "none" ELSE "v1",
              IF signature = "computed" THEN setup.key ELSE NoSecret, ts)

Requests(t) ==
  CASE kind = "webhook" -> {WebhookRequest(t)}
    [] kind = "partner" -> PartnerRequests[t]
    [] OTHER            -> {Request(NoTime, NoTime, "none", NoSecret, NoTime)}

(* A blank number is passed over. *)
SkipsTurn == kind \in {"sms", "whatsapp"} /\ Groups[next] = {}

Skip ==
  /\ result = "looping"
  /\ next \in DOMAIN Groups
  /\ SkipsTurn
  /\ next' = next + 1
  /\ UNCHANGED <<config, result, tries, answer, wire, served, verdicts, clock>>

(* Mutant: one request too many. *)
PostPast ==
  /\ result = "looping"
  /\ next - 1 \in {0} \cup DOMAIN Groups
  /\ \E q \in Requests(clock) :
       wire' = wire \cup {[try |-> tries, group |-> next, sentAt |-> clock, request |-> q]}
  /\ result' = "waiting"
  /\ answer' = "none"
  /\ UNCHANGED <<config, tries, next, served, verdicts, clock>>

Post ==
  /\ result = "looping"
  /\ next \in DOMAIN Groups
  /\ ~SkipsTurn
  /\ \E q \in Requests(clock) :
       wire' = wire \cup {[try |-> tries, group |-> next, sentAt |-> clock, request |-> q]}
  /\ result' = "waiting"
  /\ answer' = "none"
  /\ UNCHANGED <<config, tries, next, served, verdicts, clock>>

(* Mutant: any answer is a success. *)
SucceededAlways(a) == a # "none"

Succeeded(a) == a = "2xx" \/ (a = "3xx" /\ kind \in Lenient)

(* Mutant: an error does not end the loop. *)
ReceiveOn ==
  /\ result = "waiting"
  /\ answer # "none"
  /\ next' = next + 1 /\ result' = "looping"
  /\ UNCHANGED <<config, tries, answer, wire, served, verdicts, clock>>

Receive ==
  /\ result = "waiting"
  /\ answer # "none"
  /\ IF Succeeded(answer) THEN next' = next + 1 /\ result' = "looping"
                          ELSE result' = "error" /\ UNCHANGED next
  /\ UNCHANGED <<config, tries, answer, wire, served, verdicts, clock>>

(* The client's timeout, the end of the context or a broken connection. *)
GiveUp ==
  /\ result = "waiting"
  /\ result' = "error"
  /\ UNCHANGED <<config, tries, next, answer, wire, served, verdicts, clock>>

Return ==
  /\ result = "looping"
  /\ next \notin DOMAIN Groups
  /\ result' = "nil"
  /\ UNCHANGED <<config, tries, next, answer, wire, served, verdicts, clock>>

-----------------------------------------------------------------------------
(* The provider *)

(* It handles a request, as soon or late as the request arrives; it may    *)
(* refuse, or fail having accepted.  A status below 300 says that it has   *)
(* accepted, one from 300 to 399 that it has not.  The receiver of a       *)
(* signed request verifies it and accepts nothing that Verify refuses.     *)
Handle(m) ==
  /\ m \in wire
  /\ wire' = wire \ {m}
  /\ \E a \in {"2xx", "3xx", "failure"}, accepts \in BOOLEAN :
       LET verdict == Verify(m.request, clock + skew)
       IN  /\ a = "2xx" => accepts
           /\ a = "3xx" => ~accepts
           /\ IF kind \in Signing
              THEN /\ accepts => verdict = "ok"
                   /\ verdicts' = verdicts \cup
                        {[request |-> m.request, delay |-> clock - m.sentAt, said |-> verdict]}
              ELSE UNCHANGED verdicts
           /\ served' = IF accepts THEN served \cup {<<m.try, m.group>>} ELSE served
           /\ answer' = IF result = "waiting" /\ m.try = tries /\ m.group = next
                        THEN a ELSE answer
  /\ UNCHANGED <<config, result, tries, next, clock>>

Tick ==
  /\ kind \in Signing
  /\ clock < MaxClock
  /\ clock' = clock + 1
  /\ UNCHANGED <<config, result, tries, next, answer, wire, served, verdicts>>

Next ==
  \/ Send \/ Skip \/ Post \/ Receive \/ GiveUp \/ Return \/ Tick
  \/ \E m \in wire : Handle(m)

Spec == Init /\ [][Next]_vars

-----------------------------------------------------------------------------

(* nil means delivered: every recipient that is not blank was accepted by  *)
(* the provider in this very call, not in an earlier one that failed.  The *)
(* nil of Slack and of webhooks says less: a status from 300 to 399, with  *)
(* which nobody accepted anything, is a success to them.                   *)
NilMeansAccepted ==
  result = "nil" /\ ~simulated =>
    \A n \in DOMAIN Groups : Groups[n] # {} =>
      <<tries, n>> \in served \/ (kind \in Lenient /\ answer = "3xx")

(* An error in the middle of a list leaves a prefix of it served, in every *)
(* call and however late a request arrives: a retry of the whole message   *)
(* reaches some recipients again but passes nobody over, and no call       *)
(* reaches anybody beyond the request it gave up on.                       *)
PrefixServed ==
  \A k \in 1 .. tries : \A n \in DOMAIN Groups :
    <<k, n>> \in served =>
      \A earlier \in DOMAIN Groups :
        earlier < n /\ Groups[earlier] # {} => <<k, earlier>> \in served

(* The tolerance window as a sender sees it.  No request is accepted when  *)
(* it has been on its way for longer than the tolerance, give or take the  *)
(* clocks; one signed with the shared secret is accepted if it arrives in  *)
(* time, less the second that a timestamp loses when it is truncated.      *)
WindowKept ==
  \A v \in verdicts :
    LET age == v.delay + skew
    IN  /\ v.said = "ok" => Intact(v.request) /\ age \in -Tolerance - TicksPerSecond + 1 .. Tolerance
        /\ Intact(v.request) /\ age \in -Tolerance .. Tolerance - TicksPerSecond + 1
             => v.said = "ok"

=============================================================================
