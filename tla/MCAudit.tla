------------------------------ MODULE MCAudit ------------------------------
(* Instances of AuditRecorder for TLC. *)
EXTENDS AuditRecorder

(* The three documented policies and a value that is none of them. *)
AllPolicies == {"FALLBACK_SYNC", "BLOCK", "DROP", "UNKNOWN"}

=============================================================================
