---------------------------- MODULE BindingStore ----------------------------
(***************************************************************************)
(* The role bindings of ONE gateway as the rest of the system sees them:   *)
(* commits, one at a time, and the watch events they leave.  Each commit   *)
(* grants, changes or revokes one user, or deletes the gateway with all    *)
(* its bindings.  GatewayAccess implements it; RoleBridge watches it.      *)
(***************************************************************************)
EXTENDS Naturals, FiniteSets

CONSTANTS
    Users,
    Creator,           \* the user that created the gateway
    Tiers,             \* tiers in use, among "owner", "admin" and "user"
    MaxBinding,        \* bound on the bindings ever created
    None

Bindings == 1..MaxBinding      \* ids in the order of creation

ASSUME StoreAssumption ==
    /\ Creator \in Users /\ None \notin Users
    /\ Tiers \subseteq {"owner", "admin", "user"} /\ "owner" \in Tiers
    /\ MaxBinding \in Nat \ {0}

VARIABLES
    binding,    \* the gateway's role bindings
    gateway,    \* "present" or "gone"
    events      \* the last committed change of each binding still to be watched

storeVars == <<binding, gateway, events>>

NoBinding == [user |-> None, role |-> "owner", state |-> "unused"]
BindingRow == [user : Users \cup {None}, role : Tiers, state : {"unused", "live", "deleted"}]

StoreTypeOK ==
    /\ binding \in [Bindings -> BindingRow]
    /\ gateway \in {"present", "gone"}
    /\ events \in [Bindings -> {"none", "updated", "deleted"}]

Live == {b \in Bindings : binding[b].state = "live"}
LiveOf(u) == {b \in Live : binding[b].user = u}
Unused == {b \in Bindings : binding[b].state = "unused"}

-----------------------------------------------------------------------------
(* An event names a binding; its row is loaded when the watch sends it, so  *)
(* that a later event of the same binding covers an earlier one.            *)

Commit(rows) ==
    /\ binding' = rows
    /\ events' = [b \in Bindings |->
                    IF rows[b] = binding[b] THEN events[b]
                    ELSE IF rows[b].state = "deleted" THEN "deleted" ELSE "updated"]

First(bs) == CHOOSE b \in bs : \A x \in bs : b <= x

Created(u, role) ==
    [binding EXCEPT ![First(Unused)] = [user |-> u, role |-> role, state |-> "live"]]
Deleted(bs) ==
    [b \in Bindings |-> IF b \in bs \cap Live THEN [binding[b] EXCEPT !.state = "deleted"]
                                              ELSE binding[b]]

\* SetGatewayRole: the earliest binding is kept and changed in place, any other
\* is deleted; a user without one gets one.
SetGatewayRole(u, role) ==
    IF LiveOf(u) = {} THEN Created(u, role)
    ELSE [Deleted(LiveOf(u) \ {First(LiveOf(u))}) EXCEPT ![First(LiveOf(u))].role = role]

\* A write that creates a binding has an id left for it (bound).
HasId(u) == LiveOf(u) # {} \/ Unused # {}

RevokeGatewayAccess(u) == Deleted(LiveOf(u))

\* gateways.Delete takes the bindings with it.
DeleteGateway ==
    /\ gateway = "present" /\ gateway' = "gone"
    /\ Commit(Deleted(Live))

-----------------------------------------------------------------------------
\* The gateway was created with its creator's owner binding.
StoreInit ==
    /\ binding = [b \in Bindings |->
                    IF b = 1 THEN [user |-> Creator, role |-> "owner", state |-> "live"] ELSE NoBinding]
    /\ gateway = "present"
    /\ events = [b \in Bindings |-> IF b = 1 THEN "updated" ELSE "none"]

\* One user is granted a tier or a further binding, changed, or revoked.
Change(u) ==
    /\ \/ HasId(u) /\ \E tier \in Tiers : Commit(SetGatewayRole(u, tier))
       \/ Unused # {} /\ \E tier \in Tiers : Commit(Created(u, tier))
       \/ Commit(RevokeGatewayAccess(u))
       \/ \E b \in LiveOf(u) : Commit(Deleted({b}))
    /\ UNCHANGED gateway

StoreNext == DeleteGateway \/ \E u \in Users : Change(u)

StoreSpec == StoreInit /\ [][StoreNext]_storeVars

=============================================================================
