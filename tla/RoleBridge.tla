----------------------------- MODULE RoleBridge -----------------------------
(***************************************************************************)
(* The OIDC role bridge: the role-binding watch of the API server, and the *)
(* control plane's watcher, queue and RoleBindingReconciler that give each *)
(* user the Keycloak client roles its bindings of the gateway imply.       *)
(* Composed with BindingStore, whose commits it watches.                   *)
(*                                                                         *)
(* The queue is keyed by the BINDING: two bindings of one user are handled *)
(* side by side, each from its own read of the user's bindings.  The queue *)
(* itself is ReconcileQueue's; what is kept of it here is the latest       *)
(* payload of a key, that a delete is terminal, and that a key is handled  *)
(* by one worker.                                                          *)
(***************************************************************************)
EXTENDS BindingStore

CONSTANTS
    StreamMayBreak,    \* the watch may break, or the controller restart
    LoadsMayFail,      \* the server may fail to load the row of an event
    CallsMayFail,      \* reads and Keycloak calls of a pass may fail
    ReadsMayMiss,      \* a list may succeed and miss some or all of the bindings
    MaxFaults          \* bound on all of these

ASSUME BridgeAssumption ==
    /\ {StreamMayBreak, LoadsMayFail, CallsMayFail, ReadsMayMiss} \subseteq BOOLEAN
    /\ MaxFaults \in Nat

VARIABLES
    connected,  \* the watch stream is up
    queue,      \* the payload of each key, and whether the key is to be handled
    pass,       \* the handler's pass on each key
    snap,       \* bindings a seed has listed and not enqueued yet
    kc,         \* each user's roles on the gateway's Keycloak client
    faults

bridgeVars == <<connected, queue, pass, snap, kc, faults>>
vars == <<storeVars, bridgeVars>>

KcRoles == {"openshell-admin", "openshell-user"}
\* Mutant: an owner is given a role the client does not have.
keycloakRoleMapUnknown(role) == IF role = "user" THEN {"openshell-user"} ELSE {"openshell-owner"}
keycloakRoleMap(role) == IF role = "user" THEN {"openshell-user"} ELSE KcRoles
unionKcRoles(bs) == UNION {keycloakRoleMap(binding[b].role) : b \in bs}

NoPayload == [type |-> "none", role |-> "owner", dirty |-> FALSE]
NoPass == [pc |-> "idle", want |-> {}, seen |-> {}]
NoSnap == [b \in {} |-> "owner"]

Fault == faults < MaxFaults /\ faults' = faults + 1

-----------------------------------------------------------------------------
(* Watch, seed and queue *)

\* enqueue: the latest payload wins, but nothing follows a delete, whose
\* tombstone stays.
Enqueued(q, b, type, role) ==
    IF q[b].type = "deleted" /\ type # "deleted" THEN q
    ELSE [q EXCEPT ![b] = [type |-> type, role |-> role, dirty |-> TRUE]]

\* WatchRoleBindings loads the row of an event when it sends it: an update of
\* a deleted row is dropped, every event of a gateway that is gone, and one
\* whose load fails.
Deliver(b) ==
    /\ connected /\ events[b] # "none"
    /\ events' = [events EXCEPT ![b] = "none"]
    /\ \/ /\ queue' = IF gateway = "gone" \/ (events[b] = "updated" /\ b \notin Live) THEN queue
                      ELSE Enqueued(queue, b, events[b], binding[b].role)
          /\ UNCHANGED faults
       \/ LoadsMayFail /\ Fault /\ UNCHANGED queue
    /\ UNCHANGED <<binding, gateway, connected, pass, snap, kc>>

\* A broken stream takes its seed along.
Disconnect ==
    /\ StreamMayBreak /\ connected /\ Fault
    /\ connected' = FALSE /\ snap' = NoSnap
    /\ UNCHANGED <<storeVars, queue, pass, kc>>

\* The controller dies: queue and passes are memory.
Restart ==
    /\ StreamMayBreak /\ Fault
    /\ connected' = FALSE /\ snap' = NoSnap
    /\ queue' = [b \in Bindings |-> NoPayload] /\ pass' = [b \in Bindings |-> NoPass]
    /\ UNCHANGED <<storeVars, kc>>

Listed == [b \in Live |-> binding[b].role]

\* The server replays the active bindings as updates, and the watcher seeds;
\* what happened while the stream was down is not sent again.
Reconnect ==
    /\ ~connected /\ connected' = TRUE
    /\ events' = [b \in Bindings |-> IF b \in Live /\ gateway = "present" THEN "updated" ELSE "none"]
    /\ snap' = Listed
    /\ UNCHANGED <<binding, gateway, queue, pass, kc, faults>>

\* The periodic resync: a list, and later its entries into the queue.  It does
\* not prune.
SeedList ==
    /\ connected /\ snap = NoSnap
    /\ snap' = Listed
    /\ UNCHANGED <<storeVars, connected, queue, pass, kc, faults>>

\* Mutant: the resync enqueues only the bindings it has not seen before.
SeedEnqueueNew ==
    /\ connected /\ snap # NoSnap
    /\ queue' = [b \in Bindings |-> IF b \in DOMAIN snap /\ queue[b].type = "none"
                                    THEN Enqueued(queue, b, "updated", snap[b])[b] ELSE queue[b]]
    /\ snap' = NoSnap
    /\ UNCHANGED <<storeVars, connected, pass, kc, faults>>

SeedEnqueue ==
    /\ connected /\ snap # NoSnap
    /\ queue' = [b \in Bindings |-> IF b \in DOMAIN snap THEN Enqueued(queue, b, "updated", snap[b])[b]
                                                         ELSE queue[b]]
    /\ snap' = NoSnap
    /\ UNCHANGED <<storeVars, connected, pass, kc, faults>>

-----------------------------------------------------------------------------
(* RoleBindingReconciler.Handle *)

UserOf(b) == binding[b].user
Surviving(b, type) == LiveOf(UserOf(b)) \ (IF type = "deleted" THEN {b} ELSE {})

KeepAllButPass == UNCHANGED <<storeVars, connected, snap>>
EndPass(b) == pass' = [pass EXCEPT ![b] = NoPass]

\* isRoleBindingRetryable: only what Keycloak has not provisioned yet is
\* retried.  Any other failure ends the pass for good, a failed read too.
Drop(b, q) == EndPass(b) /\ queue' = q /\ UNCHANGED kc

\* The payload is taken and the user's bindings are listed.
Handle(b) ==
    LET ev == queue[b]
        taken == [queue EXCEPT ![b].dirty = FALSE]
        own == IF ev.type = "deleted" THEN {} ELSE keycloakRoleMap(ev.role)
        listed(bs) ==
            LET want == unionKcRoles(bs) \cup own IN
            pass' = [pass EXCEPT ![b] = [pc |-> IF want = {} THEN "confirm" ELSE "openshell-admin",
                                         want |-> want,
                                         seen |-> IF want = {} THEN Surviving(b, ev.type) ELSE {}]] IN
    /\ ev.dirty /\ pass[b].pc = "idle"
    /\ \/ gateway = "gone" /\ Drop(b, taken) /\ UNCHANGED faults
       \/ /\ gateway = "present" /\ queue' = taken /\ UNCHANGED kc
          /\ \/ listed(Surviving(b, ev.type)) /\ UNCHANGED faults
             \/ ReadsMayMiss /\ Fault /\ \E bs \in SUBSET Surviving(b, ev.type) : listed(bs)
             \/ CallsMayFail /\ Fault /\ EndPass(b)
    /\ KeepAllButPass

\* Mutant: the first answer is trusted.
ConfirmTrusting(b) ==
    /\ pass[b].pc = "confirm"
    /\ pass' = [pass EXCEPT ![b].pc = "openshell-admin"]
    /\ UNCHANGED <<queue, kc, faults>> /\ KeepAllButPass

\* GTW-ACC-15: an empty answer to a delete is read again before the last
\* roles are taken away; a second answer that differs ends the pass.
Confirm(b) ==
    LET confirmed(bs) ==
          IF bs = {} THEN pass' = [pass EXCEPT ![b].pc = "openshell-admin"] /\ UNCHANGED <<queue, kc>>
                     ELSE Drop(b, queue) IN
    /\ pass[b].pc = "confirm"
    /\ \/ confirmed(Surviving(b, "deleted")) /\ UNCHANGED faults
       \/ ReadsMayMiss /\ Fault /\ confirmed({})
       \/ CallsMayFail /\ Fault /\ Drop(b, queue)
    /\ KeepAllButPass

\* AssignClientRole or RemoveClientRole.
WithRole(u, r, wanted) == IF wanted THEN kc[u] \cup {r} ELSE kc[u] \ {r}

\* One of the two, for each role of the vocabulary in turn.
Apply(b) ==
    LET r == pass[b].pc
        u == UserOf(b) IN
    /\ r \in KcRoles
    /\ \/ /\ kc' = [kc EXCEPT ![u] = WithRole(u, r, r \in pass[b].want)]
          /\ pass' = IF r = "openshell-admin" THEN [pass EXCEPT ![b].pc = "openshell-user"]
                                              ELSE [pass EXCEPT ![b] = NoPass]
          /\ UNCHANGED <<queue, faults>>
       \/ /\ CallsMayFail /\ Fault
          /\ Drop(b, queue) \/ Drop(b, [queue EXCEPT ![b].dirty = TRUE])
    /\ KeepAllButPass

-----------------------------------------------------------------------------
Init ==
    /\ StoreInit
    /\ connected = TRUE
    /\ queue = [b \in Bindings |-> NoPayload] /\ pass = [b \in Bindings |-> NoPass]
    /\ snap = NoSnap
    /\ kc = [u \in Users |-> {}]
    /\ faults = 0

PassStep(b) == Handle(b) \/ Confirm(b) \/ Apply(b)

\* A commit of the store; once the ids are used up, bindings only go (bound).
StoreStep ==
    /\ StoreNext /\ UNCHANGED bridgeVars
    /\ Unused # {} \/ <<Live, gateway>>' # <<Live, gateway>>

Next ==
    \/ StoreStep
    \/ \E b \in Bindings : Deliver(b) \/ PassStep(b)
    \/ Disconnect \/ Restart \/ Reconnect
    \/ SeedList \/ SeedEnqueue

Spec == Init /\ [][Next]_vars

\* The receiver drains the stream, the watch loop reconnects, the resync ticks,
\* and the workers take what is due and carry it through.
FairSpec ==
    /\ Spec
    /\ \A b \in Bindings : WF_vars(Deliver(b)) /\ WF_vars(PassStep(b))
    /\ WF_vars(Reconnect) /\ WF_vars(SeedList) /\ WF_vars(SeedEnqueue)

-----------------------------------------------------------------------------
TypeOK ==
    /\ StoreTypeOK
    /\ connected \in BOOLEAN
    /\ queue \in [Bindings -> [type : {"none", "updated", "deleted"}, role : Tiers, dirty : BOOLEAN]]
    /\ pass \in [Bindings -> [pc : {"idle", "confirm"} \cup KcRoles,
                              want : SUBSET KcRoles, seen : SUBSET Bindings]]
    /\ DOMAIN snap \subseteq Bindings /\ \A b \in DOMAIN snap : snap[b] \in Tiers
    /\ kc \in [Users -> SUBSET KcRoles]
    /\ faults \in 0..MaxFaults

\* GTW-ACC-15: one read that misses bindings does not cost a user its last
\* roles.  A pass that takes them all has seen every binding that survived its
\* first read deleted since.
WipeIsProven ==
    \A b \in Bindings : pass[b].pc \in KcRoles /\ pass[b].want = {} => pass[b].seen \cap Live = {}

Quiet == <>[][UNCHANGED <<binding, gateway>>]_vars
Implied(u) == unionKcRoles(LiveOf(u))

\* GTW-ACC-02 for the users that keep a binding: whatever passes overtook each
\* other, whatever was lost or failed, the resync brings their roles to exactly
\* what their bindings imply.
GrantRealized ==
    Quiet => <>[](gateway = "present" => \A u \in Users : LiveOf(u) # {} => kc[u] = Implied(u))

\* GTW-ACC-06, for the others: a user without a binding ends without roles.
RevokeRealized ==
    Quiet => <>[](gateway = "present" => \A u \in Users : LiveOf(u) = {} => kc[u] = {})

=============================================================================
