------------------------------ MODULE OneShot ------------------------------
(***************************************************************************)
(* What an imperative annotation of a TalosNode promises.  The user writes  *)
(* a request under a new identifier; the controller first records in a     *)
(* companion annotation that it has taken the request, then performs it.   *)
(* "The controller only acts once per unique value"                        *)
(* (src/internal/talos/finalizer.go).  A request may be superseded before  *)
(* it is taken and may be lost after it was taken; it is never performed   *)
(* twice, and never before it was recorded.                                *)
(***************************************************************************)
EXTENDS Naturals, Sequences

VARIABLES
    requested,   \* identifier in the request annotation, 0 when absent
    consumed,    \* identifier in the companion annotation, 0 when absent
    performed    \* the identifiers acted upon, in order

vars == <<requested, consumed, performed>>

Init ==
    /\ requested = 0
    /\ consumed = 0
    /\ performed = <<>>

Request ==
    /\ requested' = requested + 1
    /\ UNCHANGED <<consumed, performed>>

Consume ==
    /\ consumed' \in (consumed + 1) .. requested
    /\ UNCHANGED <<requested, performed>>

Perform ==
    /\ consumed > 0
    /\ \A i \in 1 .. Len(performed) : performed[i] # consumed
    /\ performed' = Append(performed, consumed)
    /\ UNCHANGED <<requested, consumed>>

Next == Request \/ Consume \/ Perform

Spec == Init /\ [][Next]_vars

=============================================================================
