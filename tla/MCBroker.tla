------------------------------ MODULE MCBroker ------------------------------
(* Instances of NotificationBroker for TLC. *)
EXTENDS NotificationBroker, TLC

CONSTANTS email, sms, sync, empty

(* Messages: one through Send for every registered channel, one without    *)
(* recipients, the rest through SendAsync, for the two channels.           *)
TwoChannels == {email, sms}
WantedChannels ==
  [m \in Tasks |-> IF m \in {sync, empty} THEN {} ELSE TwoChannels]

=============================================================================
