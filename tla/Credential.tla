----------------------------- MODULE Credential -----------------------------
(***************************************************************************)
(* What the service-account lifecycle promises about credentials: a        *)
(* credential is usable or not as the service sees fit (issued, suspended  *)
(* while it is repaired, resumed), until it is withdrawn.  A withdrawal is *)
(* final: a withdrawn credential is not usable, then or ever again.        *)
(***************************************************************************)
CONSTANT Accounts

VARIABLES usable, withdrawn

vars == <<usable, withdrawn>>

Init == usable = {} /\ withdrawn = {}

Next ==
    /\ withdrawn' \in SUBSET Accounts /\ withdrawn \subseteq withdrawn'
    /\ usable' \in SUBSET (Accounts \ withdrawn')

Spec == Init /\ [][Next]_vars

=============================================================================
