------------------------------- MODULE MCPdf -------------------------------
(* Instances of PdfRenderer for TLC. *)
EXTENDS PdfRenderer

(* A call on the default renderer with a semaphore of its own, two on a    *)
(* renderer whose field Semaphore is set, one of them with the same        *)
(* semaphore, and two on a zero-value renderer with different limits.      *)
Mixed          == {"supplied", "fixed1", "fixed2", "zero1", "zero2"}
MixedRenderers == [c \in Mixed |-> CASE c \in {"zero1", "zero2"} -> "zero"
                                    [] c \in {"fixed1", "fixed2"} -> "fixed"
                                    [] OTHER -> None]
MixedLimits    == [c \in Mixed |-> IF c = "zero2" THEN 2 ELSE 1]
MixedSupplied  == [c \in Mixed |-> IF c \in {"supplied", "fixed1"} THEN 1 ELSE None]
MixedLimit     == [r \in {"default", "fixed"} |-> DefaultMax]

DefaultLimit == [r \in {"default"} |-> DefaultMax]

(* Three calls that ask for at most two processes at a time, and nothing   *)
(* else.                                                                   *)
Asking          == {"ask1", "ask2", "ask3"}
AskingRenderers == [c \in Asking |-> None]
AskingLimits    == [c \in Asking |-> 2]
AskingSupplied  == [c \in Asking |-> None]

=============================================================================
