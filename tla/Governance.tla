------------------------------ MODULE Governance ------------------------------
(***************************************************************************)
(* What the gateway promises about every guarded call, whatever path the   *)
(* call takes and whatever happens to the caller: nothing is performed on  *)
(* the backend before it was authorised AND the authorisation stands in    *)
(* the audit trail, and a call that is over performs nothing any more.     *)
(***************************************************************************)
CONSTANT Calls

VARIABLES
    authorised,   \* calls the policy or a human has let through
    recorded,     \* calls whose authorisation is in the audit trail
    performed,    \* calls whose operation reached the backend
    over          \* calls that were answered, refused or abandoned

vars == <<authorised, recorded, performed, over>>

Init == authorised = {} /\ recorded = {} /\ performed = {} /\ over = {}

\* The step may also be the call's last one.
MayEnd(c) == over' \in {over, over \union {c}}

Authorise(c) ==
    /\ c \notin over
    /\ authorised' = authorised \union {c}
    /\ UNCHANGED <<recorded, performed, over>>

\* A caller can vanish while the record of its call is being written.
Record(c) ==
    /\ c \in authorised \ over
    /\ recorded' = recorded \union {c}
    /\ MayEnd(c)
    /\ UNCHANGED <<authorised, performed>>

Perform(c) ==
    /\ c \in recorded \ over
    /\ performed' = performed \union {c}
    /\ MayEnd(c)
    /\ UNCHANGED <<authorised, recorded>>

Close(c) ==
    /\ over' = over \union {c}
    /\ UNCHANGED <<authorised, recorded, performed>>

Next == \E c \in Calls : Authorise(c) \/ Record(c) \/ Perform(c) \/ Close(c)

Spec == Init /\ [][Next]_vars

=============================================================================
