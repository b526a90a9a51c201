----------------------------- MODULE MCSenders -----------------------------
(* Instances of Senders for TLC. *)
EXTENDS Senders

AllKinds == {"sms", "whatsapp", "email", "brevo", "slack", "webhook", "partner"}

OneBlank == <<"ann", " ", "bob", "eve">>

(* The verifier's clock is ahead, behind, and behind by more than the tolerance. *)
ThreeSkews == {1, -1, -6}

(* The verifier's secret or another or none; headers of the configuration  *)
(* that replace the timestamp or the signature, or none that do.           *)
WebhookSetups ==
  [key : {Secret, "another", NoSecret}, header : {NoTime}, signature : {"computed"}]
    \cup [key : {Secret}, header : {NoTime, Junk}, signature : {"computed", "replaced", "blank"}]

(* The legacy form has its timestamp in the header or forgets it; the      *)
(* tagged form has one in the header, in t=, in both or in neither.  Each  *)
(* is signed over one of the two.                                          *)
SignedAt(t) ==
  LET fine == Stamp("millis", t)   whole == Stamp("rfc3339", t)
      signed(header, tag, form) ==
        {Request(header, tag, form, Secret, ts) : ts \in {fine, whole}}
  IN  UNION {signed(h, NoTime, "legacy") : h \in {NoTime, fine}}
        \cup UNION {signed(h, ts, "tagged") : h \in {NoTime, fine}, ts \in {NoTime, whole}}

SignedByPartner == [t \in 0 .. MaxClock |-> SignedAt(t)]

=============================================================================
