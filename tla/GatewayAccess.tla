--------------------------- MODULE GatewayAccess ---------------------------
(***************************************************************************)
(* Who may use ONE gateway: its role bindings, written by two paths of the *)
(* API server, the access facade (plugins/gatewayAccess: Grant, ChangeRole,*)
(* Revoke) and the generic resource (plugins/roleBindings: Create, Delete),*)
(* and swept away with the gateway.                                        *)
(*                                                                         *)
(* A request is read, checked and written in steps of its own.  The facade *)
(* and the deletion of an owner binding take the gateway's access lock for *)
(* check and write; the other writers of the generic resource do not.  A   *)
(* request is one transaction: its writes show at its commit, which is the *)
(* write step, or not at all.                                              *)
(*                                                                         *)
(* External: the framework's advisory lock, held to the commit.            *)
(***************************************************************************)
EXTENDS BindingStore

CONSTANTS
    PlatformAdmins,    \* users with a platform:admin binding
    Requests           \* concurrent API requests

ASSUME AccessAssumption ==
    /\ PlatformAdmins \subseteq Users
    /\ None \notin Requests

VARIABLES
    op,         \* the requests under way
    lock,       \* holder of the access lock, or None
    stale       \* history: an owner binding was deleted on a role read before

vars == <<storeVars, op, lock, stale>>

-----------------------------------------------------------------------------
(* What the service reads of the bindings *)

RolesOf(u) == {binding[b].role : b \in LiveOf(u)}
Owners == {u \in Users : "owner" \in RolesOf(u)}

\* highestGatewayTier
userTier(u) ==
    CASE "owner" \in RolesOf(u) -> "owner"
      [] "owner" \notin RolesOf(u) /\ "admin" \in RolesOf(u) -> "admin"
      [] RolesOf(u) = {"user"} -> "user"
      [] OTHER -> "none"

callerTier(u) == IF u \in PlatformAdmins THEN "owner" ELSE userTier(u)

authorizeManage(caller, new, current) ==
    /\ callerTier(caller) \in {"owner", "admin"}
    /\ "owner" \in {new, current} => callerTier(caller) = "owner"

\* Mutant: off by one in the count of owners.
guardLastOwnerOffByOne(target, new) ==
    target \in Owners /\ new # "owner" => Cardinality(Owners) >= 1

\* Demoting or revoking the last owner is refused.
guardLastOwner(target, new) ==
    target \in Owners /\ new # "owner" => Cardinality(Owners) > 1

\* The generic resource counts the owners of the gateway, for a binding whose
\* stored role was owner.
guardLastGatewayOwner(role) == role = "owner" => Cardinality(Owners) > 1

\* The generic resource wants an explicit owner; platform:admin is not enough.
callerOwnsGateway(caller) == caller \in Owners

-----------------------------------------------------------------------------
(* Requests *)

Facade == {"grant", "change", "revoke"}
Idle == [pc |-> "idle", kind |-> "grant", caller |-> None, target |-> None, tier |-> "owner", b |-> 1]
Op == [pc : {"idle", "check", "write"}, kind : Facade \cup {"create", "delete"},
       caller : Users \cup {None}, target : Users \cup {None}, tier : Tiers, b : Bindings]

Begin(w, pc, kind, c, t, tier, b) ==
    /\ op[w].pc = "idle"
    /\ op' = [op EXCEPT ![w] = [pc |-> pc, kind |-> kind, caller |-> c, target |-> t,
                                tier |-> tier, b |-> b]]
    /\ UNCHANGED <<storeVars, lock, stale>>

\* Grant authorizes once before the directory lookup; a known user is provisioned.
RequestGrant(w, c, t, tier) ==
    /\ HasId(t) /\ authorizeManage(c, tier, "none")
    /\ Begin(w, "check", "grant", c, t, tier, 1)

RequestChange(w, c, t, tier) == Begin(w, "check", "change", c, t, tier, 1)
\* Mutant: a revoke is carried as a change to no tier.
RequestRevokeAsChange(w, c, t) == Begin(w, "check", "revoke", c, t, "none", 1)
RequestRevoke(w, c, t) == Begin(w, "check", "revoke", c, t, "owner", 1)

\* The generic Create authorizes and writes without the lock.  (A caller who
\* has passed the check is forgotten.)
RequestCreate(w, c, t, tier) ==
    /\ Unused # {} /\ callerOwnsGateway(c)
    /\ Begin(w, "write", "create", None, t, tier, 1)

\* The generic Delete reads the binding and its role first; they decide later
\* on the lock and on the guard.
RequestDelete(w, c, b) ==
    /\ b \in Live
    /\ Begin(w, "check", "delete", c, None, binding[b].role, b)

\* What the check under the lock (for a delete of a lesser role: without it) says.
Allowed(o) ==
    CASE o.kind = "grant" ->
            authorizeManage(o.caller, o.tier, userTier(o.target)) /\ guardLastOwner(o.target, o.tier)
      [] o.kind = "change" ->
            /\ userTier(o.target) # "none"
            /\ authorizeManage(o.caller, o.tier, userTier(o.target)) /\ guardLastOwner(o.target, o.tier)
      [] o.kind = "revoke" ->
            /\ userTier(o.target) # "none"
            /\ authorizeManage(o.caller, "none", userTier(o.target)) /\ guardLastOwner(o.target, "none")
      [] OTHER -> callerOwnsGateway(o.caller) /\ guardLastGatewayOwner(o.tier)

TakesLock(o) == o.kind \in Facade \/ (o.kind = "delete" /\ o.tier = "owner")

Check(w) ==
    /\ op[w].pc = "check"
    /\ TakesLock(op[w]) => lock = None
    /\ IF Allowed(op[w])
       THEN /\ lock' = IF TakesLock(op[w]) THEN w ELSE lock
            /\ op' = [op EXCEPT ![w].pc = "write", ![w].caller = None]
       ELSE op' = [op EXCEPT ![w] = Idle] /\ UNCHANGED lock
    /\ UNCHANGED <<storeVars, stale>>

Release(w) == lock' = IF lock = w THEN None ELSE lock

\* The generic Delete chose to go without the lock on a role that has changed.
StaleDelete(o) ==
    o.kind = "delete" /\ o.tier # "owner" /\ o.b \in Live /\ binding[o.b].role = "owner"

Write(w) ==
    LET o == op[w] IN
    /\ o.pc = "write"
    /\ o.kind \in {"grant", "change"} => HasId(o.target)
    /\ o.kind = "create" => Unused # {}
    /\ Commit(CASE o.kind \in {"grant", "change"} -> SetGatewayRole(o.target, o.tier)
                [] o.kind = "revoke" -> RevokeGatewayAccess(o.target)
                [] o.kind = "create" -> Created(o.target, o.tier)
                [] o.kind = "delete" -> Deleted({o.b}))
    /\ op' = [op EXCEPT ![w] = Idle] /\ Release(w)
    /\ stale' = (stale \/ StaleDelete(o))
    /\ UNCHANGED gateway

\* A statement, an event or the commit fails, or the server dies: nothing of
\* the request is left.
Rollback(w) ==
    /\ op[w].pc # "idle"
    /\ op' = [op EXCEPT ![w] = Idle] /\ Release(w)
    /\ UNCHANGED <<storeVars, stale>>

\* Mutant: the gateway is deleted and its bindings are left.
TeardownKeepsBindings ==
    /\ gateway = "present" /\ gateway' = "gone"
    /\ UNCHANGED <<binding, events, op, lock, stale>>

\* gateways.Delete does not take the access lock.
Teardown == DeleteGateway /\ UNCHANGED <<op, lock, stale>>

-----------------------------------------------------------------------------
Init ==
    /\ StoreInit
    /\ op = [w \in Requests |-> Idle]
    /\ lock = None
    /\ stale = FALSE

Next ==
    \/ \E w \in Requests, c \in Users, t \in Users :
          \/ \E tier \in Tiers : RequestGrant(w, c, t, tier) \/ RequestChange(w, c, t, tier)
                                 \/ RequestCreate(w, c, t, tier)
          \/ RequestRevoke(w, c, t)
    \/ \E w \in Requests, c \in Users, b \in Bindings : RequestDelete(w, c, b)
    \/ \E w \in Requests : Check(w) \/ Write(w) \/ Rollback(w)
    \/ Teardown

Spec == Init /\ [][Next]_vars

-----------------------------------------------------------------------------
TypeOK ==
    /\ StoreTypeOK
    /\ op \in [Requests -> Op]
    /\ lock \in Requests \cup {None}
    /\ stale \in BOOLEAN

\* GTW-ACC-07: whatever requests run side by side on the two paths, a gateway
\* loses its last owner only through a delete that skipped the lock on a role
\* read too early; count and write are otherwise under one lock.
OwnerKept == gateway = "present" /\ ~stale => Owners # {}

\* What the comment on GatewayAccessLockType says: owner mutations on either
\* path "cannot race", so an owner remains.
OwnerAlwaysKept == gateway = "present" => Owners # {}

=============================================================================
